------------------------------- MODULE WrQueue ------------------------------
(***************************************************************************)
(* The circular queue of src/helper/wr_queue.c.  The head keeps its        *)
(* workers, free workers, pending workers and messages in four of them.    *)
(* Emptiness is coded twice, in q_count and as the index -1, and removal   *)
(* from the middle shifts elements across the wrap-around point; WrFifo    *)
(* says what must come out of that.                                        *)
(***************************************************************************)
EXTENDS Integers, Sequences

CONSTANTS Elem,     \* what a queue may hold (pointers)
          Sizes,    \* the sizes wr_queue_new is called with
          NULL      \* the null pointer

ASSUME SizesAssumption == Sizes \subseteq Nat \ {0}

VARIABLES q_max_size, q_front, q_rear, q_count, q_elements,
          ret       \* what the last call returned

vars == <<q_max_size, q_front, q_rear, q_count, q_elements, ret>>

DONE == "0"
FAIL == "-1"

Slots == 0..(q_max_size - 1)

(* The slot of the i-th element, counting from 0 at the front. *)
Slot(i) == (q_front + i) % q_max_size

(* malloc leaves the slots uninitialized: they may hold anything. *)
Init ==
  /\ q_max_size \in Sizes
  /\ q_front = -1 /\ q_rear = -1 /\ q_count = 0
  /\ q_elements \in [Slots -> Elem]
  /\ ret = NULL

(* Room for one more element; what an off-by-one would make of it. *)
Mutant_HasRoom == q_count <= q_max_size
HasRoom == q_count < q_max_size

wr_queue_insert(e) ==
  \/ /\ HasRoom
     /\ q_count' = q_count + 1
     /\ q_rear' = (q_rear + 1) % q_max_size
     /\ q_front' = IF q_front = -1 THEN 0 ELSE q_front
     /\ q_elements' = [q_elements EXCEPT ![q_rear'] = e]
     /\ ret' = DONE
     /\ UNCHANGED q_max_size
  \/ /\ ~HasRoom
     /\ ret' = FAIL
     /\ UNCHANGED <<q_max_size, q_front, q_rear, q_count, q_elements>>

wr_queue_fetch ==
  \/ /\ q_count > 0
     /\ ret' = q_elements[q_front]
     /\ IF q_rear = q_front
          THEN q_rear' = -1 /\ q_front' = -1
          ELSE q_front' = (q_front + 1) % q_max_size /\ UNCHANGED q_rear
     /\ q_count' = q_count - 1
     /\ UNCHANGED <<q_max_size, q_elements>>
  \/ /\ q_count <= 0
     /\ ret' = NULL
     /\ UNCHANGED <<q_max_size, q_front, q_rear, q_count, q_elements>>

(* The elements behind position i move one slot towards the front; the     *)
(* mutant stops the loop at the end of the array.                          *)
Mutant_Shift(i) ==
  [s \in Slots |->
     IF \E k \in i..(q_count - 2) : s = q_front + k /\ s + 1 \in Slots
       THEN q_elements[s + 1]
       ELSE q_elements[s]]
Shift(i) ==
  [s \in Slots |->
     IF \E k \in i..(q_count - 2) : s = Slot(k)
       THEN q_elements[(s + 1) % q_max_size]
       ELSE q_elements[s]]

(* The slot before the rear one; the mutant forgets the wrap-around. *)
Mutant_RearBefore == q_rear - 1
RearBefore == IF q_rear = 0 THEN q_max_size - 1 ELSE q_rear - 1

wr_queue_remove(e) ==
  \/ \E i \in 0..(q_count - 1) :
       /\ q_elements[Slot(i)] = e
       /\ \A j \in 0..(i - 1) : q_elements[Slot(j)] # e
       /\ q_count' = q_count - 1
       /\ q_elements' = Shift(i)
       /\ IF q_rear = q_front
            THEN q_rear' = -1 /\ q_front' = -1
            ELSE q_rear' = RearBefore /\ UNCHANGED q_front
       /\ ret' = DONE
       /\ UNCHANGED q_max_size
  \/ /\ \A i \in 0..(q_count - 1) : q_elements[Slot(i)] # e
     /\ ret' = FAIL
     /\ UNCHANGED <<q_max_size, q_front, q_rear, q_count, q_elements>>

Next == wr_queue_fetch \/ \E e \in Elem : wr_queue_insert(e) \/ wr_queue_remove(e)

Spec == Init /\ [][Next]_vars

-----------------------------------------------------------------------------
TypeOK ==
  /\ q_max_size \in Sizes
  /\ q_front \in -1..(q_max_size - 1)
  /\ q_rear \in -1..(q_max_size - 1)
  /\ q_count \in 0..q_max_size
  /\ q_elements \in [Slots -> Elem]
  /\ ret \in Elem \cup {NULL, DONE, FAIL}

(* The three codings of the queue's extent agree: no element is counted    *)
(* and unreachable, and -1 is used exactly for the empty queue, which is   *)
(* what the test rear = front in fetch and remove relies on.               *)
Anchored ==
  IF q_count = 0
    THEN q_front = -1 /\ q_rear = -1
    ELSE q_front # -1 /\ q_rear = Slot(q_count - 1)

(* What every call relies on of the ring it is given. *)
RingSound == TypeOK /\ Anchored

(* The contents as a sequence: the refinement mapping. *)
Contents == [i \in 1..q_count |-> q_elements[Slot(i - 1)]]

Fifo == INSTANCE WrFifo WITH size <- q_max_size, q <- Contents

(* Every insert, fetch and remove of the ring is the corresponding call of *)
(* a bounded FIFO: order, refusals and the returned element included.      *)
RefinesFifo == Fifo!Spec
=============================================================================
