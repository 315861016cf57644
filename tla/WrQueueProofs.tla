---------------------------- MODULE WrQueueProofs ----------------------------
(***************************************************************************)
(* The ring of wr_queue.c implements a bounded FIFO, for every queue size, *)
(* every kind of element and every sequence of calls.                      *)
(***************************************************************************)
EXTENDS WrQueue, TLAPS

(* Arithmetic modulo the ring size, as far as the code uses it: an index is *)
(* less than one turn ahead, so % either does nothing or subtracts a turn.  *)
LEMMA WrapLow ==
  ASSUME NEW n \in Nat \ {0}, NEW a \in 0..(n-1)
  PROVE  a % n = a
  BY SMT

LEMMA WrapHigh ==
  ASSUME NEW n \in Nat \ {0}, NEW a \in n..(2*n - 1)
  PROVE  a % n = a - n
  BY SMT

LEMMA Wrap ==
  ASSUME NEW n \in Nat \ {0}, NEW f \in 0..(n-1), NEW i \in 0..n
  PROVE  (f + i) % n = IF f + i < n THEN f + i ELSE f + i - n
  <1>1. CASE f + i < n
    BY <1>1, f + i \in 0..(n-1), WrapLow, Zenon
  <1>2. CASE f + i >= n
    <2>1. f + i \in n..(2*n-1) /\ ~(f + i < n)
      BY <1>2
    <2>2. (f + i) % n = f + i - n
      BY <2>1, WrapHigh
    <2> QED BY <2>1, <2>2
  <1> QED BY <1>1, <1>2

(* The ring's own invariant: types, and the three codings of its extent.    *)
RingInv == TypeOK /\ Anchored

LEMMA InitRing == Init => RingInv
  BY SizesAssumption DEF Init, RingInv, TypeOK, Anchored, Slots

(* What RingInv says of the occupied slots.                                 *)
LEMMA RingFacts ==
  ASSUME RingInv
  PROVE  /\ q_max_size \in Nat \ {0}
         /\ q_count > 0 => /\ q_front \in 0..(q_max_size - 1)
                           /\ q_rear \in 0..(q_max_size - 1)
                           /\ q_rear = IF q_front + q_count - 1 < q_max_size
                                         THEN q_front + q_count - 1
                                         ELSE q_front + q_count - 1 - q_max_size
                           /\ \A i \in 0..q_max_size :
                                Slot(i) = IF q_front + i < q_max_size
                                            THEN q_front + i
                                            ELSE q_front + i - q_max_size
  <1>1. q_max_size \in Nat \ {0}
    BY SizesAssumption DEF RingInv, TypeOK
  <1>2. ASSUME q_count > 0
        PROVE  /\ q_front \in 0..(q_max_size - 1)
               /\ q_rear = Slot(q_count - 1)
    BY <1>1, <1>2 DEF RingInv, TypeOK, Anchored
  <1>3. ASSUME q_count > 0, NEW i \in 0..q_max_size
        PROVE  Slot(i) = IF q_front + i < q_max_size
                           THEN q_front + i ELSE q_front + i - q_max_size
    BY <1>1, <1>2, <1>3, Wrap DEF Slot
  <1>4. ASSUME q_count > 0
        PROVE  q_rear = IF q_front + q_count - 1 < q_max_size
                          THEN q_front + q_count - 1
                          ELSE q_front + q_count - 1 - q_max_size
    <2>1. q_count - 1 \in 0..q_max_size
      BY <1>1, <1>4 DEF RingInv, TypeOK
    <2>2. q_count \in Int /\ q_front \in Int
      BY <1>1, <1>4 DEF RingInv, TypeOK
    <2> QED BY <1>1, <1>2, <1>3, <1>4, <2>1, <2>2
  <1>5. ASSUME q_count > 0
        PROVE  q_rear \in 0..(q_max_size - 1)
    BY <1>1, <1>2, <1>4, <1>5 DEF RingInv, TypeOK
  <1> QED BY <1>1, <1>2, <1>3, <1>4, <1>5

(* Every call keeps the ring anchored.                                      *)
LEMMA StepRing == RingInv /\ [Next]_vars => RingInv'
  <1> SUFFICES ASSUME RingInv, [Next]_vars PROVE RingInv'
    OBVIOUS
  <1>0. /\ q_max_size \in Nat \ {0}
        /\ q_count \in 0..q_max_size
        /\ q_front \in -1..(q_max_size - 1)
        /\ q_rear \in -1..(q_max_size - 1)
        /\ q_elements \in [Slots -> Elem]
        /\ q_count = 0 => q_front = -1 /\ q_rear = -1
    BY RingFacts DEF RingInv, TypeOK, Anchored
  <1>1. ASSUME NEW e \in Elem, wr_queue_insert(e) PROVE RingInv'
    <2>1. CASE ~HasRoom
      BY <1>1, <2>1 DEF wr_queue_insert, RingInv, TypeOK, Anchored, Slot, Slots
    <2>2. CASE HasRoom
      <3>0. /\ q_count < q_max_size /\ q_count' = q_count + 1
            /\ q_rear' = (q_rear + 1) % q_max_size
            /\ q_front' = IF q_front = -1 THEN 0 ELSE q_front
            /\ q_elements' = [q_elements EXCEPT ![q_rear'] = e]
            /\ ret' = DONE /\ q_max_size' = q_max_size
        BY <1>1, <2>2 DEF wr_queue_insert, HasRoom
      <3>1. CASE q_count = 0
        <4>1. q_rear' = 0 /\ q_front' = 0
          BY <1>0, <3>0, <3>1, WrapLow
        <4>2. Slot(q_count - 1)' = 0
          BY <1>0, <3>0, <3>1, <4>1, WrapLow DEF Slot
        <4> QED BY <1>0, <3>0, <3>1, <4>1, <4>2
                DEF RingInv, TypeOK, Anchored, Slots
      <3>2. CASE q_count > 0
        <4>1. /\ q_front \in 0..(q_max_size - 1)
              /\ q_rear = IF q_front + q_count - 1 < q_max_size
                           THEN q_front + q_count - 1
                           ELSE q_front + q_count - 1 - q_max_size
              /\ q_rear \in 0..(q_max_size - 1)
          BY <3>2, RingFacts
        <4>2. q_rear' = IF q_rear + 1 < q_max_size THEN q_rear + 1
                          ELSE q_rear + 1 - q_max_size
          <5>1. 1 \in 0..q_max_size
            BY <1>0
          <5> QED BY <1>0, <3>0, <4>1, <5>1, Wrap, Zenon
        <4>3. q_front' = q_front
          BY <3>0, <4>1
        <4>4. Slot(q_count - 1)' = IF q_front + q_count < q_max_size
                                     THEN q_front + q_count
                                     ELSE q_front + q_count - q_max_size
          <5>1. q_count \in 0..q_max_size /\ q_count' - 1 = q_count
            BY <1>0, <3>0
          <5>2. (q_front + q_count) % q_max_size
                  = IF q_front + q_count < q_max_size
                      THEN q_front + q_count ELSE q_front + q_count - q_max_size
            BY <1>0, <4>1, <5>1, Wrap, Zenon
          <5> QED BY <3>0, <4>3, <5>1, <5>2 DEF Slot
        <4>5. q_rear' = Slot(q_count - 1)'
          BY <1>0, <4>1, <4>2, <4>4
        <4> QED BY <1>0, <3>0, <3>2, <4>1, <4>2, <4>3, <4>5
                DEF RingInv, TypeOK, Anchored, Slots
      <3> QED BY <1>0, <3>1, <3>2
    <2> QED BY <2>1, <2>2
  <1>2. CASE wr_queue_fetch
    <2>1. CASE q_count <= 0
      BY <1>2, <2>1 DEF wr_queue_fetch, RingInv, TypeOK, Anchored, Slot, Slots
    <2>2. CASE q_count > 0
      <3>1. /\ ret' = q_elements[q_front]
            /\ IF q_rear = q_front
                 THEN q_rear' = -1 /\ q_front' = -1
                 ELSE q_front' = (q_front + 1) % q_max_size /\ UNCHANGED q_rear
            /\ q_count' = q_count - 1
            /\ UNCHANGED <<q_max_size, q_elements>>
        BY <1>0, <1>2, <2>2 DEF wr_queue_fetch
      <3>2. /\ q_front \in 0..(q_max_size - 1)
            /\ q_rear = IF q_front + q_count - 1 < q_max_size
                         THEN q_front + q_count - 1
                         ELSE q_front + q_count - 1 - q_max_size
            /\ q_rear \in 0..(q_max_size - 1)
        BY <2>2, RingFacts
      <3>3. ret' \in Elem
        BY <1>0, <3>1, <3>2 DEF Slots
      <3>4. CASE q_rear = q_front
        BY <1>0, <3>1, <3>2, <3>3, <3>4 DEF RingInv, TypeOK, Anchored, Slots
      <3>5. CASE q_rear # q_front
        <4>1. q_count > 1 /\ q_rear' = q_rear
          BY <1>0, <2>2, <3>1, <3>2, <3>5
        <4>2. q_front' = IF q_front + 1 < q_max_size THEN q_front + 1
                           ELSE q_front + 1 - q_max_size
          <5>1. 1 \in 0..q_max_size
            BY <1>0
          <5>2. q_front' = (q_front + 1) % q_max_size
            BY <3>1, <3>5
          <5> QED BY <1>0, <3>2, <5>1, <5>2, Wrap, Zenon
        <4>3. Slot(q_count - 1)' = IF q_front' + (q_count - 2) < q_max_size
                                     THEN q_front' + (q_count - 2)
                                     ELSE q_front' + (q_count - 2) - q_max_size
          <5>1. q_count - 2 \in 0..q_max_size /\ q_count' - 1 = q_count - 2
            BY <1>0, <3>1, <4>1
          <5>2. q_front' \in 0..(q_max_size - 1)
            BY <1>0, <3>2, <4>2
          <5>3. (q_front' + (q_count - 2)) % q_max_size
                  = IF q_front' + (q_count - 2) < q_max_size
                      THEN q_front' + (q_count - 2)
                      ELSE q_front' + (q_count - 2) - q_max_size
            BY <1>0, <5>1, <5>2, Wrap, Zenon
          <5> QED BY <3>1, <5>1, <5>3 DEF Slot
        <4>4. q_rear = Slot(q_count - 1)'
          BY <1>0, <3>2, <4>1, <4>2, <4>3
        <4> QED BY <1>0, <3>1, <3>2, <3>3, <4>1, <4>2, <4>4, SMTT(30)
                DEF RingInv, TypeOK, Anchored, Slots
      <3> QED BY <3>4, <3>5
    <2> QED BY <1>0, <2>1, <2>2
  <1>3. ASSUME NEW e \in Elem, wr_queue_remove(e) PROVE RingInv'
    <2>1. CASE UNCHANGED <<q_max_size, q_front, q_rear, q_count, q_elements>> /\ ret' = FAIL
      BY <2>1 DEF RingInv, TypeOK, Anchored, Slot, Slots
    <2>2. ASSUME NEW i \in 0..(q_count - 1),
                 q_count' = q_count - 1,
                 q_elements' = Shift(i),
                 IF q_rear = q_front
                   THEN q_rear' = -1 /\ q_front' = -1
                   ELSE q_rear' = RearBefore /\ UNCHANGED q_front,
                 ret' = DONE,
                 UNCHANGED q_max_size
          PROVE  RingInv'
      <3>1. q_count > 0
        BY <1>0
      <3>2. /\ q_front \in 0..(q_max_size - 1)
            /\ q_rear = IF q_front + q_count - 1 < q_max_size
                         THEN q_front + q_count - 1
                         ELSE q_front + q_count - 1 - q_max_size
            /\ q_rear \in 0..(q_max_size - 1)
        BY <3>1, RingFacts
      <3>3. q_elements' \in [Slots' -> Elem]
        <4>1. \A s \in Slots : (s + 1) % q_max_size \in Slots
          BY <1>0, Wrap DEF Slots
        <4> QED BY <1>0, <2>2, <4>1 DEF Shift, Slots
      <3>4. CASE q_rear = q_front
        BY <1>0, <2>2, <3>2, <3>3, <3>4 DEF RingInv, TypeOK, Anchored
      <3>5. CASE q_rear # q_front
        <4>1. q_count > 1 /\ q_front' = q_front
          BY <1>0, <2>2, <3>1, <3>2, <3>5
        <4>2. q_rear' = IF q_rear = 0 THEN q_max_size - 1 ELSE q_rear - 1
          BY <2>2, <3>5 DEF RearBefore
        <4>3. Slot(q_count - 1)' = IF q_front + (q_count - 2) < q_max_size
                                     THEN q_front + (q_count - 2)
                                     ELSE q_front + (q_count - 2) - q_max_size
          <5>1. q_count - 2 \in 0..q_max_size /\ q_count' - 1 = q_count - 2
            BY <1>0, <2>2, <4>1
          <5>2. (q_front + (q_count - 2)) % q_max_size
                  = IF q_front + (q_count - 2) < q_max_size
                      THEN q_front + (q_count - 2)
                      ELSE q_front + (q_count - 2) - q_max_size
            BY <1>0, <3>2, <5>1, Wrap, Zenon
          <5> QED BY <2>2, <4>1, <5>1, <5>2 DEF Slot
        <4>4. q_rear' = Slot(q_count - 1)'
          BY <1>0, <3>2, <4>1, <4>2, <4>3
        <4> QED BY <1>0, <2>2, <3>2, <3>3, <4>1, <4>2, <4>4
                DEF RingInv, TypeOK, Anchored
      <3> QED BY <3>4, <3>5
    <2> QED BY <1>3, <2>1, <2>2 DEF wr_queue_remove
  <1>4. CASE UNCHANGED vars
    BY <1>4 DEF vars, RingInv, TypeOK, Anchored, Slot, Slots
  <1> QED BY <1>1, <1>2, <1>3, <1>4 DEF Next

(* The queue's indices stay in range and agree with its count: no sequence  *)
(* of wr_queue_insert, wr_queue_fetch and wr_queue_remove reads outside the *)
(* array or loses track of an element.                                      *)
THEOREM RingIsSound == Spec => []RingSound
  <1>1. RingInv <=> RingSound
    BY DEF RingInv, RingSound
  <1> QED BY <1>1, InitRing, StepRing, PTL DEF Spec

-----------------------------------------------------------------------------
(***************************************************************************)
(* The refinement.  Ring(n, f, c, el) is the sequence held by a ring of n  *)
(* slots el with c elements from slot f on; the three lemmas say what the  *)
(* three calls do to it.                                                   *)
(***************************************************************************)
Ring(n, f, c, el) == [i \in 1..c |-> el[(f + (i - 1)) % n]]

Pos(n, f, i) == IF f + i < n THEN f + i ELSE f + i - n

Write(el, s, e) == [el EXCEPT ![s] = e]

Shifted(n, f, c, el, i) ==
  [s \in 0..(n-1) |-> IF \E k \in i..(c-2) : s = (f + k) % n
                        THEN el[(s + 1) % n] ELSE el[s]]

Without(s, c, i) == [j \in 1..(c-1) |-> IF j < i + 1 THEN s[j] ELSE s[j + 1]]

LEMMA PosWrap ==
  ASSUME NEW n \in Nat \ {0}, NEW f \in 0..(n-1), NEW i \in 0..n
  PROVE  /\ (f + i) % n = Pos(n, f, i)
         /\ Pos(n, f, i) \in 0..(n-1)
  <1>1. (f + i) % n = Pos(n, f, i)
    BY Wrap, Zenon DEF Pos
  <1> QED BY <1>1 DEF Pos

LEMMA PosDistinct ==
  ASSUME NEW n \in Nat \ {0}, NEW f \in 0..(n-1),
         NEW i \in 0..(n-1), NEW k \in 0..(n-1), i < k
  PROVE  Pos(n, f, i) # Pos(n, f, k)
  BY DEF Pos

LEMMA PosNext ==
  ASSUME NEW n \in Nat \ {0}, NEW f \in 0..(n-1), NEW i \in 0..(n-1)
  PROVE  Pos(n, Pos(n, f, i), 1) = Pos(n, f, i + 1)
  BY DEF Pos

(* s is what the ring holds.                                                *)
Holds(s, n, f, c, el) ==
  /\ s \in Seq(Elem) /\ Len(s) = c
  /\ \A i \in 1..c : s[i] = el[Pos(n, f, i - 1)]

LEMMA RingPos ==
  ASSUME NEW n \in Nat \ {0}, NEW f \in 0..(n-1), NEW c \in 0..n,
         NEW el \in [0..(n-1) -> Elem]
  PROVE  Holds(Ring(n, f, c, el), n, f, c, el)
  <1>1. \A i \in 1..c : /\ (f + (i - 1)) % n = Pos(n, f, i - 1)
                        /\ Pos(n, f, i - 1) \in 0..(n-1)
    <2> TAKE i \in 1..c
    <2>1. i - 1 \in 0..n
      OBVIOUS
    <2> QED BY <2>1, PosWrap, Zenon
  <1>2. \A i \in 1..c : Ring(n, f, c, el)[i] = el[Pos(n, f, i - 1)]
    BY <1>1 DEF Ring
  <1>3. \A i \in 1..c : el[(f + (i - 1)) % n] \in Elem
    BY <1>1
  <1>4. Ring(n, f, c, el) \in Seq(Elem) /\ Len(Ring(n, f, c, el)) = c
    BY <1>3 DEF Ring
  <1> QED BY <1>2, <1>4 DEF Holds

LEMMA RingInsert ==
  ASSUME NEW n \in Nat \ {0}, NEW f \in 0..(n-1), NEW c \in 0..(n-1),
         NEW el \in [0..(n-1) -> Elem], NEW e \in Elem
  PROVE  Ring(n, f, c + 1, Write(el, Pos(n, f, c), e)) = Append(Ring(n, f, c, el), e)
  <1> DEFINE d == c + 1
             el2 == Write(el, Pos(n, f, c), e)
             A == Ring(n, f, c, el)
             B == Ring(n, f, d, el2)
  <1>1. Pos(n, f, c) \in 0..(n-1) /\ c \in 0..n /\ d \in 0..n /\ d = c + 1
    BY DEF Pos
  <1>0. el2 \in [0..(n-1) -> Elem] /\ el2 = [el EXCEPT ![Pos(n, f, c)] = e]
    BY <1>1 DEF Write
  <1> HIDE DEF d, el2
  <1>2. /\ A \in Seq(Elem) /\ Len(A) = c
        /\ \A i \in 1..c : A[i] = el[Pos(n, f, i - 1)]
    <2>1. c \in 0..n
      BY <1>1
    <2>2. Holds(Ring(n, f, c, el), n, f, c, el)
      BY <2>1, RingPos, Zenon
    <2> QED BY <2>2, Zenon DEF Holds, A
  <1>3. /\ B \in Seq(Elem) /\ Len(B) = d
        /\ \A i \in 1..d : B[i] = el2[Pos(n, f, i - 1)]
    <2>1. d \in 0..n /\ el2 \in [0..(n-1) -> Elem]
      BY <1>1, <1>0
    <2>2. Holds(Ring(n, f, d, el2), n, f, d, el2)
      BY <2>1, RingPos, Zenon
    <2> QED BY <2>2, Zenon DEF Holds, B
  <1> HIDE DEF A, B
  <1>4. ASSUME NEW i \in 1..c
        PROVE  B[i] = A[i]
    <2>1. Pos(n, f, i - 1) # Pos(n, f, c) /\ Pos(n, f, i - 1) \in 0..(n-1)
      BY <1>1 DEF Pos
    <2>2. i \in 1..d
      BY <1>1
    <2>3. B[i] = el2[Pos(n, f, i - 1)] /\ A[i] = el[Pos(n, f, i - 1)]
      BY <1>2, <1>3, <2>2, Zenon
    <2> QED BY <1>1, <1>0, <2>1, <2>3
  <1>5. B[d] = e
    <2>1. d - 1 = c /\ d \in 1..d
      BY <1>1
    <2>2. B[d] = el2[Pos(n, f, d - 1)]
      BY <1>3, <2>1, Zenon
    <2> QED BY <1>1, <1>0, <2>1, <2>2
  <1>6. B = Append(A, e)
    BY <1>1, <1>2, <1>3, <1>4, <1>5
  <1> QED BY <1>6 DEF A, B, d, el2

LEMMA RingFetch ==
  ASSUME NEW n \in Nat \ {0}, NEW f \in 0..(n-1), NEW c \in 1..n, NEW d \in 0..n, d = c - 1,
         NEW el \in [0..(n-1) -> Elem]
  PROVE  /\ Head(Ring(n, f, c, el)) = el[f]
         /\ Tail(Ring(n, f, c, el)) = Ring(n, Pos(n, f, 1), d, el)
         /\ Ring(n, f, c, el) # <<>>
  <1> DEFINE A == Ring(n, f, c, el)
             g == Pos(n, f, 1)
             B == Ring(n, g, d, el)
  <1>1. g \in 0..(n-1) /\ Pos(n, f, 0) = f
    BY DEF Pos
  <1> HIDE DEF g
  <1>2. /\ A \in Seq(Elem) /\ Len(A) = c
        /\ \A i \in 1..c : A[i] = el[Pos(n, f, i - 1)]
    <2>1. c \in 0..n
      OBVIOUS
    <2>2. Holds(Ring(n, f, c, el), n, f, c, el)
      BY <2>1, RingPos, Zenon
    <2> QED BY <2>2, Zenon DEF Holds, A
  <1>3. /\ B \in Seq(Elem) /\ Len(B) = d
        /\ \A i \in 1..d : B[i] = el[Pos(n, g, i - 1)]
    <2>2. Holds(Ring(n, g, d, el), n, g, d, el)
      BY <1>1, RingPos, Zenon
    <2> QED BY <2>2, Zenon DEF Holds, B
  <1> HIDE DEF A, B
  <1>4. ASSUME NEW i \in 1..d
        PROVE  B[i] = A[i + 1]
    <2>1. Pos(n, g, i - 1) = Pos(n, f, (i + 1) - 1)
      BY DEF Pos, g
    <2>2. i + 1 \in 1..c
      OBVIOUS
    <2>3. A[i + 1] = el[Pos(n, f, (i + 1) - 1)]
      BY <1>2, <2>2
    <2> QED BY <1>3, <2>1, <2>3
  <1>5. A[1] = el[f]
    <2>1. A[1] = el[Pos(n, f, 1 - 1)] /\ 1 - 1 = 0
      BY <1>2
    <2> QED BY <1>1, <2>1
  <1>6. Head(A) = el[f] /\ A # <<>>
    BY <1>2, <1>5
  <1>7. Tail(A) = B
    BY <1>2, <1>3, <1>4
  <1> QED BY <1>6, <1>7 DEF A, B, g

LEMMA RingRemove ==
  ASSUME NEW n \in Nat \ {0}, NEW f \in 0..(n-1), NEW c \in 1..n,
         NEW el \in [0..(n-1) -> Elem], NEW i \in 0..(c-1)
  PROVE  Ring(n, f, c - 1, Shifted(n, f, c, el, i)) = Without(Ring(n, f, c, el), c, i)
  <1> DEFINE d == c - 1
             el2 == Shifted(n, f, c, el, i)
             A == Ring(n, f, c, el)
             B == Ring(n, f, d, el2)
  <1>7. d \in 0..n /\ d = c - 1 /\ c \in 0..n
    OBVIOUS
  <1>0. el2 \in [0..(n-1) -> Elem]
    <2>1. \A s \in 0..(n-1) : (s + 1) % n \in 0..(n-1)
      BY Wrap
    <2> QED BY <2>1 DEF Shifted
  <1>8. el2 = [s \in 0..(n-1) |-> IF \E k \in i..(c-2) : s = (f + k) % n
                                    THEN el[(s + 1) % n] ELSE el[s]]
    BY DEF Shifted
  <1> HIDE DEF d, el2
  <1>1. \A j \in 1..c : A[j] = el[Pos(n, f, j - 1)]
    <2>2. Holds(Ring(n, f, c, el), n, f, c, el)
      BY <1>7, RingPos, Zenon
    <2> QED BY <2>2, Zenon DEF Holds, A
  <1>2. /\ B \in Seq(Elem) /\ Len(B) = d
        /\ \A j \in 1..d : B[j] = el2[Pos(n, f, j - 1)]
    <2>2. Holds(Ring(n, f, d, el2), n, f, d, el2)
      BY <1>7, <1>0, RingPos, Zenon
    <2> QED BY <2>2, Zenon DEF Holds, B
  <1> HIDE DEF A, B
  <1>3. \A k \in 0..n : /\ (f + k) % n = Pos(n, f, k)
                        /\ Pos(n, f, k) \in 0..(n-1)
    BY PosWrap, Zenon
  <1>4. ASSUME NEW j \in 1..d
        PROVE  B[j] = IF j < i + 1 THEN A[j] ELSE A[j + 1]
    <2>1. j - 1 \in 0..n /\ j \in 1..c /\ j + 1 \in 1..c /\ j \in 0..n
      BY <1>7
    <2> DEFINE s == Pos(n, f, j - 1)
    <2>2. s \in 0..(n-1)
      BY <1>3, <2>1
    <2>3. B[j] = el2[s]
      BY <1>2
    <2>4. CASE j < i + 1
      <3>1. ~ \E k \in i..(c-2) : s = (f + k) % n
        <4> SUFFICES ASSUME NEW k \in i..(c-2), s = (f + k) % n PROVE FALSE
          OBVIOUS
        <4>1. k \in 0..n
          OBVIOUS
        <4>2. s = Pos(n, f, k)
          BY <1>3, <4>1
        <4>3. j - 1 \in 0..(n-1) /\ k \in 0..(n-1) /\ j - 1 < k
          BY <1>7, <2>4
        <4> QED BY <4>2, <4>3, PosDistinct, Zenon
      <3>2. el2[s] = el[s]
        BY <1>8, <2>2, <3>1, Zenon
      <3> QED BY <1>1, <2>1, <2>3, <2>4, <3>2
    <2>5. CASE ~(j < i + 1)
      <3>1. \E k \in i..(c-2) : s = (f + k) % n
        <4>1. j - 1 \in i..(c-2)
          BY <1>7, <2>5
        <4>2. s = (f + (j - 1)) % n
          BY <1>3, <2>1
        <4> QED BY <4>1, <4>2
      <3>2. el2[s] = el[(s + 1) % n]
        BY <1>8, <2>2, <3>1, Zenon
      <3>3. (s + 1) % n = Pos(n, f, j)
        <4>1. 1 \in 0..n
          OBVIOUS
        <4>2. (s + 1) % n = Pos(n, s, 1)
          BY <2>2, <4>1, PosWrap, Zenon
        <4>3. Pos(n, s, 1) = Pos(n, f, j)
          <5>1. j - 1 \in 0..(n-1) /\ (j - 1) + 1 = j
            BY <1>7
          <5> QED BY <5>1, PosNext, Zenon
        <4> QED BY <4>2, <4>3
      <3>4. A[j + 1] = el[Pos(n, f, (j + 1) - 1)] /\ (j + 1) - 1 = j
        BY <1>1, <2>1
      <3> QED BY <2>3, <2>5, <3>2, <3>3, <3>4
    <2> QED BY <2>4, <2>5
  <1>5. B = [j \in 1..d |-> B[j]]
    BY <1>2
  <1>6. B = [j \in 1..(c-1) |-> IF j < i + 1 THEN A[j] ELSE A[j + 1]]
    BY <1>7, <1>4, <1>5
  <1> QED BY <1>6 DEF A, B, d, el2, Without

LEMMA ContentsRing ==
  Contents = Ring(q_max_size, q_front, q_count, q_elements)
  BY DEF Contents, Ring, Slot

LEMMA ContentsLen ==
  ASSUME RingInv
  PROVE  /\ Contents \in Seq(Elem) /\ Len(Contents) = q_count
         /\ q_count = 0 <=> Contents = <<>>
  <1>1. q_count \in 0..q_max_size /\ q_max_size \in Nat \ {0}
    BY RingFacts DEF RingInv, TypeOK
  <1>2. CASE q_count = 0
    BY <1>2 DEF Contents
  <1>3. CASE q_count > 0
    <2>1. q_front \in 0..(q_max_size - 1) /\ q_elements \in [0..(q_max_size - 1) -> Elem]
      BY <1>3, RingFacts DEF RingInv, TypeOK, Slots
    <2>2. Contents \in Seq(Elem) /\ Len(Contents) = q_count
      <3>1. Holds(Ring(q_max_size, q_front, q_count, q_elements), q_max_size, q_front, q_count, q_elements)
        BY <1>1, <2>1, RingPos, Zenon
      <3> QED BY <3>1, ContentsRing DEF Holds
    <2> QED BY <1>3, <2>2
  <1> QED BY <1>1, <1>2, <1>3

LEMMA InsertRefines ==
  ASSUME RingInv, RingInv', NEW e \in Elem, wr_queue_insert(e)
  PROVE  Fifo!Insert(e)
  <1>0. Len(Contents) = q_count /\ q_count \in 0..q_max_size /\ q_max_size \in Nat \ {0}
    BY ContentsLen, RingFacts DEF RingInv, TypeOK
  <1>1. CASE ~HasRoom
    <2>1. Contents' = Contents
      BY <1>1 DEF wr_queue_insert, Contents, Slot
    <2> QED BY <1>0, <1>1, <2>1 DEF wr_queue_insert, Fifo!Insert, HasRoom, FAIL, Fifo!FAIL
  <1>2. CASE HasRoom
    <2>0. /\ q_count < q_max_size /\ q_count' = q_count + 1
          /\ q_rear' = (q_rear + 1) % q_max_size
          /\ q_front' = IF q_front = -1 THEN 0 ELSE q_front
          /\ q_elements' = [q_elements EXCEPT ![q_rear'] = e]
          /\ ret' = DONE /\ q_max_size' = q_max_size
      BY <1>2 DEF wr_queue_insert, HasRoom
    <2>1. Contents' = Append(Contents, e)
      <3>1. /\ q_front' \in 0..(q_max_size - 1) /\ q_count' \in 0..q_max_size
            /\ q_elements \in [0..(q_max_size - 1) -> Elem]
            /\ q_elements' \in [0..(q_max_size - 1) -> Elem]
            /\ q_count' - 1 = q_count
        <4>1. q_count' > 0
          BY <1>0, <2>0
        <4>2. q_front' \in 0..(q_max_size' - 1)
          BY <1>0, <2>0, <4>1 DEF RingInv, TypeOK, Anchored
        <4> QED BY <1>0, <2>0, <4>2 DEF RingInv, TypeOK, Slots
      <3>2. q_rear' = Pos(q_max_size, q_front', q_count)
        <4>1. q_rear' = (q_front' + q_count) % q_max_size
          BY <1>0, <2>0, <3>1 DEF RingInv, Anchored, Slot
        <4> QED BY <1>0, <3>1, <4>1, PosWrap, Zenon
      <3>3. Ring(q_max_size, q_front', q_count', q_elements')
              = Append(Ring(q_max_size, q_front', q_count, q_elements), e)
        <4>1. q_elements' = [q_elements EXCEPT ![Pos(q_max_size, q_front', q_count)] = e]
          BY <2>0, <3>2
        <4>2. q_count' = q_count + 1
          BY <2>0
        <4>3. q_count \in 0..(q_max_size - 1)
          BY <1>0, <2>0
        <4>4. Ring(q_max_size, q_front', q_count + 1,
                   Write(q_elements, Pos(q_max_size, q_front', q_count), e))
                = Append(Ring(q_max_size, q_front', q_count, q_elements), e)
          BY <1>0, <3>1, <4>3, RingInsert, Zenon
        <4> QED BY <4>1, <4>2, <4>4 DEF Write
      <3>4. Ring(q_max_size, q_front', q_count, q_elements) = Contents
        BY <1>0, <2>0, ContentsRing DEF RingInv, Anchored, Ring
      <3>5. Contents' = Ring(q_max_size, q_front', q_count', q_elements')
        BY <2>0 DEF Contents, Ring, Slot
      <3> QED BY <3>3, <3>4, <3>5
    <2> QED BY <1>0, <2>0, <2>1 DEF Fifo!Insert, DONE, Fifo!DONE
  <1> QED BY <1>1, <1>2

LEMMA FetchRefines ==
  ASSUME RingInv, RingInv', wr_queue_fetch
  PROVE  Fifo!Fetch
  <1>0. /\ Len(Contents) = q_count /\ q_count \in 0..q_max_size
        /\ q_max_size \in Nat \ {0} /\ (q_count = 0 <=> Contents = <<>>)
    BY ContentsLen, RingFacts DEF RingInv, TypeOK
  <1>1. CASE q_count <= 0
    <2>1. Contents' = Contents
      BY <1>0, <1>1 DEF wr_queue_fetch, Contents, Slot
    <2> QED BY <1>0, <1>1, <2>1 DEF wr_queue_fetch, Fifo!Fetch
  <1>2. CASE q_count > 0
    <2>0. /\ ret' = q_elements[q_front]
          /\ IF q_rear = q_front
               THEN q_rear' = -1 /\ q_front' = -1
               ELSE q_front' = (q_front + 1) % q_max_size /\ UNCHANGED q_rear
          /\ q_count' = q_count - 1
          /\ q_max_size' = q_max_size /\ q_elements' = q_elements
      BY <1>0, <1>2 DEF wr_queue_fetch
    <2>1. /\ q_front \in 0..(q_max_size - 1)
          /\ q_elements \in [0..(q_max_size - 1) -> Elem]
          /\ q_count \in 1..q_max_size /\ q_count - 1 \in 0..q_max_size
      BY <1>0, <1>2, RingFacts DEF RingInv, TypeOK, Slots
    <2>2. /\ Head(Contents) = q_elements[q_front]
          /\ Tail(Contents) = Ring(q_max_size, Pos(q_max_size, q_front, 1), q_count - 1, q_elements)
      <3> DEFINE n == q_max_size  f == q_front  c == q_count  d == q_count - 1
                 el == q_elements
      <3>1. /\ n \in Nat \ {0} /\ f \in 0..(n-1) /\ c \in 1..n /\ d \in 0..n /\ d = c - 1
            /\ el \in [0..(n-1) -> Elem]
        BY <1>0, <2>1
      <3> HIDE DEF n, f, c, d, el
      <3>2. /\ Head(Ring(n, f, c, el)) = el[f]
            /\ Tail(Ring(n, f, c, el)) = Ring(n, Pos(n, f, 1), d, el)
        BY <3>1, RingFetch, ZenonT(40)
      <3> QED BY <3>2, ContentsRing DEF n, f, c, d, el
    <2>3. Contents' = Ring(q_max_size, q_front', q_count - 1, q_elements)
      BY <2>0 DEF Contents, Ring, Slot
    <2>4. Contents' = Tail(Contents)
      <3>1. CASE q_rear = q_front
        <4>1. q_count - 1 = 0
          BY <1>0, <2>0, <3>1 DEF RingInv, Anchored
        <4> QED BY <2>2, <2>3, <4>1 DEF Ring
      <3>2. CASE q_rear # q_front
        <4>1. q_front' = Pos(q_max_size, q_front, 1)
          <5>1. 1 \in 0..q_max_size
            BY <1>0
          <5> QED BY <1>0, <2>0, <2>1, <3>2, <5>1, PosWrap, Zenon
        <4> QED BY <2>2, <2>3, <4>1
      <3> QED BY <3>1, <3>2
    <2> QED BY <1>0, <1>2, <2>0, <2>2, <2>4 DEF Fifo!Fetch
  <1> QED BY <1>0, <1>1, <1>2

LEMMA RemoveRefines ==
  ASSUME RingInv, RingInv', NEW e \in Elem, wr_queue_remove(e)
  PROVE  Fifo!Remove(e)
  <1>0. /\ Len(Contents) = q_count /\ q_count \in 0..q_max_size
        /\ q_max_size \in Nat \ {0}
    BY ContentsLen, RingFacts DEF RingInv, TypeOK
  <1>1. \A j \in 1..q_count : Contents[j] = q_elements[Slot(j - 1)]
    BY DEF Contents
  <1>2. CASE /\ \A i \in 0..(q_count - 1) : q_elements[Slot(i)] # e
             /\ ret' = FAIL
             /\ UNCHANGED <<q_max_size, q_front, q_rear, q_count, q_elements>>
    <2>1. Contents' = Contents
      BY <1>2 DEF Contents, Slot
    <2>2. \A j \in 1..Len(Contents) : Contents[j] # e
      <3> TAKE j \in 1..Len(Contents)
      <3>1. j \in 1..q_count /\ j - 1 \in 0..(q_count - 1)
        BY <1>0
      <3> QED BY <1>1, <1>2, <3>1
    <2> QED BY <1>2, <2>1, <2>2 DEF Fifo!Remove, FAIL, Fifo!FAIL
  <1>3. ASSUME NEW i \in 0..(q_count - 1),
               q_elements[Slot(i)] = e,
               \A j \in 0..(i - 1) : q_elements[Slot(j)] # e,
               q_count' = q_count - 1,
               q_elements' = Shift(i),
               IF q_rear = q_front
                 THEN q_rear' = -1 /\ q_front' = -1
                 ELSE q_rear' = RearBefore /\ UNCHANGED q_front,
               ret' = DONE,
               UNCHANGED q_max_size
        PROVE  Fifo!Remove(e)
    <2>1. /\ q_front \in 0..(q_max_size - 1)
          /\ q_elements \in [0..(q_max_size - 1) -> Elem]
          /\ q_elements' \in [0..(q_max_size - 1) -> Elem]
          /\ q_count - 1 \in 0..q_max_size
      <3>1. q_count > 0
        BY <1>0
      <3> QED BY <1>0, <1>3, <3>1, RingFacts DEF RingInv, TypeOK, Slots
    <2>2. Ring(q_max_size, q_front, q_count - 1, q_elements')
            = [j \in 1..(q_count - 1) |-> IF j < i + 1 THEN Contents[j] ELSE Contents[j + 1]]
      <3>1. q_elements' =
              [s \in 0..(q_max_size - 1) |->
                 IF \E k \in i..(q_count - 2) : s = (q_front + k) % q_max_size
                   THEN q_elements[(s + 1) % q_max_size] ELSE q_elements[s]]
        BY <1>3 DEF Shift, Slots, Slot
      <3>2. q_count \in 1..q_max_size
        BY <1>0
      <3>3. Ring(q_max_size, q_front, q_count - 1,
                 Shifted(q_max_size, q_front, q_count, q_elements, i))
              = Without(Ring(q_max_size, q_front, q_count, q_elements), q_count, i)
        BY <1>0, <2>1, <3>2, RingRemove, ZenonT(30)
      <3> QED BY <3>1, <3>3, ContentsRing DEF Shifted, Without
    <2>3. Contents' = Ring(q_max_size, q_front, q_count - 1, q_elements')
      <3>1. Contents' = Ring(q_max_size, q_front', q_count - 1, q_elements')
        BY <1>3 DEF Contents, Ring, Slot
      <3>2. CASE q_rear = q_front
        <4>1. q_count - 1 = 0
          BY <1>0, <1>3, <3>2 DEF RingInv, Anchored
        <4> QED BY <3>1, <4>1 DEF Ring
      <3>3. CASE q_rear # q_front
        BY <1>3, <3>1, <3>3
      <3> QED BY <3>2, <3>3
    <2>4. i + 1 \in 1..Len(Contents) /\ (i + 1) - 1 = i
      BY <1>0
    <2>5. Contents[i + 1] = e
      BY <1>0, <1>1, <1>3, <2>4
    <2>6. \A j \in 1..((i + 1) - 1) : Contents[j] # e
      <3> TAKE j \in 1..((i + 1) - 1)
      <3>1. j \in 1..q_count /\ j - 1 \in 0..(i - 1)
        BY <1>0
      <3> QED BY <1>1, <1>3, <3>1
    <2>7. Contents' = [j \in 1..(Len(Contents) - 1) |->
                         IF j < i + 1 THEN Contents[j] ELSE Contents[j + 1]]
      BY <1>0, <2>2, <2>3
    <2> QED BY <1>3, <2>4, <2>5, <2>6, <2>7 DEF Fifo!Remove, DONE, Fifo!DONE
  <1> QED BY <1>2, <1>3 DEF wr_queue_remove

(* Every sequence of wr_queue_insert, wr_queue_fetch and wr_queue_remove    *)
(* calls on the ring behaves as the same calls on a bounded FIFO, whatever  *)
(* its size and contents: order, refusals and return values included.       *)
THEOREM RingImplementsFifo == Spec => RefinesFifo
  <1>1. Init => Fifo!Init
    BY DEF Init, Fifo!Init, Contents
  <1>2. RingInv /\ RingInv' /\ [Next]_vars => [Fifo!Next]_(Fifo!vars)
    <2> SUFFICES ASSUME RingInv, RingInv', [Next]_vars
                 PROVE  Fifo!Next \/ UNCHANGED Fifo!vars
      BY DEF Fifo!vars
    <2>1. ASSUME NEW e \in Elem, wr_queue_insert(e) PROVE Fifo!Next
      BY <2>1, InsertRefines DEF Fifo!Next
    <2>2. CASE wr_queue_fetch
      BY <2>2, FetchRefines DEF Fifo!Next
    <2>3. ASSUME NEW e \in Elem, wr_queue_remove(e) PROVE Fifo!Next
      BY <2>3, RemoveRefines DEF Fifo!Next
    <2>4. CASE UNCHANGED vars
      BY <2>4 DEF vars, Fifo!vars, Contents, Slot
    <2> QED BY <2>1, <2>2, <2>3, <2>4 DEF Next
  <1>3. Spec => []RingInv
    BY InitRing, StepRing, PTL DEF Spec
  <1> QED BY <1>1, <1>2, <1>3, PTL DEF Spec, RefinesFifo, Fifo!Spec

=============================================================================
