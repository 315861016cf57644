------------------------------- MODULE WrFifo -------------------------------
(***************************************************************************)
(* What wr_queue_t promises to its callers: a bounded first-in first-out   *)
(* queue with removal of a given element.  The queue is a plain sequence;  *)
(* there are no slots and no indices.                                      *)
(***************************************************************************)
EXTENDS Integers, Sequences

CONSTANTS Elem,     \* what a queue may hold (pointers)
          Sizes,    \* the sizes wr_queue_new is called with
          NULL      \* the null pointer a fetch of an empty queue returns

VARIABLES size,     \* the capacity
          q,        \* the contents, oldest first
          ret       \* what the last call returned

vars == <<size, q, ret>>

DONE == "0"         \* success of insert and remove
FAIL == "-1"        \* their failure

Init == size \in Sizes /\ q = <<>> /\ ret = NULL

(* An element is refused exactly when the queue is full. *)
Insert(e) ==
  /\ q' = IF Len(q) < size THEN Append(q, e) ELSE q
  /\ ret' = IF Len(q) < size THEN DONE ELSE FAIL
  /\ UNCHANGED size

(* The oldest element is handed out; an empty queue hands out NULL. *)
Fetch ==
  /\ q' = IF q = <<>> THEN q ELSE Tail(q)
  /\ ret' = IF q = <<>> THEN NULL ELSE Head(q)
  /\ UNCHANGED size

(* The first occurrence of e leaves, the others keep their order. *)
Remove(e) ==
  \/ /\ \E i \in 1..Len(q) :
          /\ q[i] = e /\ \A j \in 1..(i-1) : q[j] # e
          /\ q' = [j \in 1..(Len(q) - 1) |-> IF j < i THEN q[j] ELSE q[j+1]]
     /\ ret' = DONE
     /\ UNCHANGED size
  \/ /\ \A i \in 1..Len(q) : q[i] # e
     /\ ret' = FAIL
     /\ UNCHANGED <<size, q>>

Next == Fetch \/ \E e \in Elem : Insert(e) \/ Remove(e)

Spec == Init /\ [][Next]_vars
=============================================================================
