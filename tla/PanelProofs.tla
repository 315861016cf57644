---------------------------- MODULE PanelProofs ----------------------------
(***************************************************************************)
(* The resolver, config.yml and the administration panel, for any          *)
(* applications, base URIs, host names and paths.                          *)
(***************************************************************************)
EXTENDS Panel, FiniteSetTheorems, WellFoundedInduction, TLAPS

-----------------------------------------------------------------------------
(* Facts about numbers. *)

(* A non-empty set of natural numbers has a least one. *)
LEMMA Least ==
  ASSUME NEW T, T \subseteq Nat, T # {}
  PROVE  \E x \in T : \A y \in T : x <= y
<1> DEFINE R == OpToRel(<, Nat)
<1>1. IsWellFoundedOn(R, Nat)
  BY NatLessThanWellFounded
<1>2. \A a, b \in Nat : a < b => <<a, b>> \in R
  BY DEF OpToRel
<1> HIDE DEF R
<1>3. PICK x \in T : \A y \in T : ~(<<y, x>> \in R)
  BY <1>1, WFMin
<1>4. \A y \in T : ~(y < x)
  BY <1>2, <1>3
<1>5. x \in Nat /\ \A y \in T : y \in Nat
  OBVIOUS
<1>6. \A y \in T : x <= y
  BY <1>4, <1>5
<1> QED BY <1>6

(* Min is the least one: the row a late message is added to is a row. *)
LEMMA MinIsIn ==
  ASSUME NEW T, T \subseteq Nat, T # {}
  PROVE  Min(T) \in T
<1>1. \E x \in T : \A y \in T : x <= y
  BY Least
<1> QED BY <1>1 DEF Min

(* Induction over 0..n, on a set. *)
LEMMA Induct ==
  ASSUME NEW n \in Nat, NEW T, 0 \in T, \A k \in 0..n - 1 : k \in T => k + 1 \in T
  PROVE  \A k \in 0..n : k \in T
<1> DEFINE Bad == {k \in 0..n : k \notin T}
<1> SUFFICES ASSUME Bad # {} PROVE FALSE
  OBVIOUS
<1>1. PICK k \in Bad : \A j \in Bad : k <= j
  <2>1. Bad \subseteq Nat
    OBVIOUS
  <2> HIDE DEF Bad
  <2> QED BY <2>1, Least
<1>2. k \in 0..n /\ k # 0
  OBVIOUS
<1>3. k - 1 \in 0..n - 1 /\ k - 1 \notin Bad
  BY <1>1, <1>2
<1>4. k - 1 \in T
  BY <1>3
<1> QED BY <1>2, <1>3, <1>4

LEMMA MinIsLeast ==
  ASSUME NEW T, T \subseteq Nat, T # {}
  PROVE  Min(T) \in T /\ \A y \in T : Min(T) <= y
<1>1. \E x \in T : \A y \in T : x <= y
  BY Least
<1> QED BY <1>1 DEF Min

LEMMA MaxIsGreatest ==
  ASSUME NEW n \in Nat, NEW T, T \subseteq 1..n, T # {}
  PROVE  Max(T) \in T /\ \A y \in T : y <= Max(T)
<1> DEFINE D == {n - x : x \in T}
<1>1. D \subseteq Nat /\ D # {}
  <2>1. \A x \in T : x \in 1..n
    OBVIOUS
  <2>2. \A x \in T : n - x \in Nat
    BY <2>1
  <2> QED BY <2>2
<1>2. PICK d \in D : \A e \in D : d <= e
  <2> HIDE DEF D
  <2> QED BY <1>1, Least
<1>3. PICK x \in T : d = n - x
  OBVIOUS
<1>4. ASSUME NEW y \in T PROVE y <= x
  <2>1. n - y \in D
    OBVIOUS
  <2>2. n - x <= n - y
    BY <1>2, <1>3, <2>1
  <2>3. x \in 1..n /\ y \in 1..n
    OBVIOUS
  <2> QED BY <2>2, <2>3
<1>5. \A y \in T : x >= y
  <2>1. x \in Nat /\ \A y \in T : y \in Nat
    OBVIOUS
  <2> QED BY <1>4, <2>1
<1>6. PICK z \in T : z = Max(T) /\ \A y \in T : z >= y
  BY <1>5 DEF Max
<1> QED BY <1>6

-----------------------------------------------------------------------------
(* The places of a list in their order. *)

LEMMA OrderExists ==
  ASSUME NEW n \in Nat, NEW I, I \subseteq 1..n
  PROVE  /\ IsFiniteSet(I) /\ Cardinality(I) \in Nat
         /\ \E f \in [1..Cardinality(I) -> I] : \A i, j \in 1..Cardinality(I) : i < j => f[i] < f[j]
<1> DEFINE Good(J) == \E f \in [1..Cardinality(J) -> J] : \A i, j \in 1..Cardinality(J) : i < j => f[i] < f[j]
           T == {k \in Nat : \A J \in SUBSET (1..k) : Good(J)}
<1>0. ASSUME NEW k \in Nat, NEW J \in SUBSET (1..k)
      PROVE  IsFiniteSet(J) /\ Cardinality(J) \in Nat
  <2>1. IsFiniteSet(1..k)
    BY FS_Interval
  <2>2. IsFiniteSet(J)
    BY <2>1, FS_Subset
  <2> QED BY <2>2, FS_CardinalityType
<1>1. 0 \in T
  <2> SUFFICES ASSUME NEW J \in SUBSET (1..0) PROVE Good(J)
    OBVIOUS
  <2>1. J = {}
    OBVIOUS
  <2>2. Cardinality(J) = 0
    BY <2>1, FS_EmptySet
  <2> DEFINE g == [i \in 1..0 |-> i]
  <2>3. g \in [1..Cardinality(J) -> J] /\ 1..Cardinality(J) = {}
    BY <2>2
  <2> HIDE DEF g
  <2> QED BY <2>3
<1>2. ASSUME NEW k \in 0..n - 1, k \in T PROVE k + 1 \in T
  <2>0. k + 1 \in Nat
    OBVIOUS
  <2> HIDE DEF Good
  <2> SUFFICES ASSUME NEW J \in SUBSET (1..k + 1) PROVE Good(J)
    BY <2>0
  <2> USE DEF Good
  <2>1. CASE k + 1 \notin J
    <3>1. J \in SUBSET (1..k)
      BY <2>1
    <3> QED BY <1>2, <3>1
  <2>2. CASE k + 1 \in J
    <3> DEFINE K == J \ {k + 1}
               c == Cardinality(K)
    <3>1. K \in SUBSET (1..k)
      OBVIOUS
    <3>2. IsFiniteSet(K) /\ c \in Nat
      <4>1. k \in Nat
        OBVIOUS
      <4> HIDE DEF K
      <4> QED BY <1>0, <3>1, <4>1
    <3>3. Cardinality(J) = c + 1
      <4>1. J = K \cup {k + 1} /\ k + 1 \notin K
        BY <2>2
      <4> HIDE DEF K
      <4> QED BY <3>2, <4>1, FS_AddElement
    <3>4. PICK f \in [1..c -> K] : \A i, j \in 1..c : i < j => f[i] < f[j]
      BY <1>2, <3>1
    <3> DEFINE g == [i \in 1..c + 1 |-> IF i = c + 1 THEN k + 1 ELSE f[i]]
    <3> HIDE DEF c
    <3>5. \A i \in 1..c : f[i] \in 1..k /\ f[i] \in J
      BY <3>1, <3>4
    <3>6. g \in [1..c + 1 -> J]
      BY <2>2, <3>2, <3>5
    <3>7. ASSUME NEW i \in 1..c + 1, NEW j \in 1..c + 1, i < j PROVE g[i] < g[j]
      <4>1. i \in 1..c /\ g[i] = f[i] /\ f[i] \in 1..k
        BY <3>2, <3>5, <3>7
      <4>2. CASE j = c + 1
        BY <4>1, <4>2
      <4>3. CASE j # c + 1
        <5>1. j \in 1..c /\ g[j] = f[j]
          BY <3>2, <4>3
        <5> QED BY <3>4, <3>7, <4>1, <5>1
      <4> QED BY <4>2, <4>3
    <3> HIDE DEF g
    <3> QED BY <3>3, <3>6, <3>7
  <2> QED BY <2>1, <2>2
<1>3. n \in T
  <2> HIDE DEF T
  <2>1. \A k \in 0..n : k \in T
    BY <1>1, <1>2, Induct
  <2> QED BY <2>1
<1> QED BY <1>0, <1>3

(* Ascending counts the places, from the first to the last. *)
LEMMA AscendingSpec ==
  ASSUME NEW n \in Nat, NEW I, I \subseteq 1..n
  PROVE  \E m \in Nat :
           /\ Ascending(I) \in [1..m -> I]
           /\ \A i, j \in 1..m : i < j => Ascending(I)[i] < Ascending(I)[j]
           /\ \A p \in I : \E i \in 1..m : Ascending(I)[i] = p
<1> DEFINE m == Cardinality(I)
           f == Ascending(I)
<1>1. IsFiniteSet(I) /\ m \in Nat /\ \E g \in [1..m -> I] : \A i, j \in 1..m : i < j => g[i] < g[j]
  BY OrderExists
<1>2. f \in [1..m -> I] /\ \A i, j \in 1..m : i < j => f[i] < f[j]
  BY <1>1 DEF Ascending
<1> HIDE DEF f
<1>3. ASSUME NEW i \in 1..m, NEW j \in 1..m, f[i] = f[j] PROVE i = j
  <2> HIDE DEF m
  <2>1. f[i] \in I /\ f[j] \in I /\ I \subseteq Nat
    BY <1>2
  <2>2. (i < j => f[i] < f[j]) /\ (j < i => f[j] < f[i])
    BY <1>2
  <2>3. f[i] \in Nat /\ f[j] \in Nat
    BY <2>1
  <2>4. ~(i < j) /\ ~(j < i)
    BY <1>3, <2>2, <2>3
  <2> QED BY <1>1, <2>4
<1>4. f \in Injection(1..m, I)
  <2> HIDE DEF m
  <2> QED BY <1>2, <1>3 DEF Injection, IsInjective
<1>5. Cardinality(1..m) = Cardinality(I)
  <2> HIDE DEF m
  <2>1. Cardinality(1..m) = m
    BY <1>1, FS_Interval
  <2> QED BY <2>1 DEF m
<1>6. f \in Surjection(1..m, I)
  <2> HIDE DEF m
  <2> QED BY <1>1, <1>4, <1>5, FS_Injection
<1>7. \A p \in I : \E i \in 1..m : f[i] = p
  <2> HIDE DEF m
  <2> QED BY <1>6 DEF Surjection
<1> HIDE DEF m
<1>8. m \in Nat /\ f \in [1..m -> I] /\ (\A i, j \in 1..m : i < j => f[i] < f[j])
      /\ \A p \in I : \E i \in 1..m : f[i] = p
  BY <1>1, <1>2, <1>7
<1> QED BY <1>8 DEF f

(* The list s has what f picks from a list, from the places I, in order. *)
Picks(m, f, S, list, I, s) ==
  /\ m \in Nat /\ f \in [1..m -> I]
  /\ \A i, j \in 1..m : i < j => f[i] < f[j]
  /\ \A p \in I : \E i \in 1..m : f[i] = p
  /\ s \in Seq(S) /\ Len(s) = m /\ DOMAIN s = 1..m
  /\ \A i \in 1..m : s[i] = list[f[i]]

(* What Kept returns: a list of the elements at these places, in their     *)
(* order.                                                                  *)
LEMMA KeptSpec ==
  ASSUME NEW S, NEW list \in Seq(S), NEW I, I \subseteq DOMAIN list
  PROVE  \E m, f : Picks(m, f, S, list, I, Kept(list, I))
<1> DEFINE f == Ascending(I)
<1>1. Len(list) \in Nat /\ I \subseteq 1..Len(list)
  OBVIOUS
<1>2. PICK m \in Nat : /\ f \in [1..m -> I]
                       /\ \A i, j \in 1..m : i < j => f[i] < f[j]
                       /\ \A p \in I : \E i \in 1..m : f[i] = p
  BY <1>1, AscendingSpec
<1>3. Kept(list, I) = [k \in DOMAIN f |-> list[f[k]]]
  BY DEF Kept
<1> HIDE DEF f
<1>4. Kept(list, I) = [k \in 1..m |-> list[f[k]]] /\ \A k \in 1..m : list[f[k]] \in S
  BY <1>2, <1>3
<1>5. Kept(list, I) \in Seq(S) /\ Len(Kept(list, I)) = m /\ DOMAIN Kept(list, I) = 1..m
      /\ \A i \in 1..m : Kept(list, I)[i] = list[f[i]]
  BY <1>4
<1>6. Picks(m, f, S, list, I, Kept(list, I))
  BY <1>2, <1>5 DEF Picks
<1> QED BY <1>6

(* What it keeps of a list: no other elements, each once that was there    *)
(* once, and whatever holds of any two of them.                            *)
LEMMA KeptElements ==
  ASSUME NEW S, NEW list \in Seq(S), NEW I, I \subseteq DOMAIN list
  PROVE  /\ Kept(list, I) \in Seq(S)
         /\ ToSet(Kept(list, I)) = {list[p] : p \in I}
         /\ \A i, j \in DOMAIN Kept(list, I) : i < j =>
              \E p, q \in I : p < q /\ Kept(list, I)[i] = list[p] /\ Kept(list, I)[j] = list[q]
<1> DEFINE s == Kept(list, I)
<1>1. PICK m, f : Picks(m, f, S, list, I, s)
  BY KeptSpec
<1> HIDE DEF s
<1>2. /\ m \in Nat /\ f \in [1..m -> I]
      /\ \A i, j \in 1..m : i < j => f[i] < f[j]
      /\ \A p \in I : \E i \in 1..m : f[i] = p
      /\ s \in Seq(S) /\ Len(s) = m /\ DOMAIN s = 1..m
      /\ \A i \in 1..m : s[i] = list[f[i]]
  BY <1>1 DEF Picks
<1>3. ToSet(s) = {list[p] : p \in I}
  <2>1. \A i \in DOMAIN s : f[i] \in I /\ s[i] = list[f[i]]
    BY <1>2
  <2>2. \A p \in I : \E i \in DOMAIN s : s[i] = list[p]
    BY <1>2
  <2> QED BY <2>1, <2>2 DEF ToSet
<1>4. ASSUME NEW i \in DOMAIN s, NEW j \in DOMAIN s, i < j
      PROVE  \E p, q \in I : p < q /\ s[i] = list[p] /\ s[j] = list[q]
  <2>1. f[i] \in I /\ f[j] \in I /\ f[i] < f[j] /\ s[i] = list[f[i]] /\ s[j] = list[f[j]]
    BY <1>2, <1>4
  <2> QED BY <2>1
<1> QED BY <1>2, <1>3, <1>4 DEF s

(* The first element of a list that is in M. *)
First(list, M, otherwise) ==
  LET I == {i \in DOMAIN list : list[i] \in M}
  IN  IF I # {} THEN list[Min(I)].app ELSE otherwise

LEMMA FirstSpec ==
  ASSUME NEW S, NEW list \in Seq(S), NEW M, NEW d
  PROVE  \/ /\ First(list, M, d) = d /\ \A i \in DOMAIN list : list[i] \notin M
         \/ \E k \in DOMAIN list : /\ First(list, M, d) = list[k].app /\ list[k] \in M
                                   /\ \A i \in DOMAIN list : i < k => list[i] \notin M
<1> DEFINE I == {i \in DOMAIN list : list[i] \in M}
<1>1. I \subseteq Nat
  OBVIOUS
<1>2. CASE I = {}
  BY <1>2 DEF First
<1>3. CASE I # {}
  <2> DEFINE k == Min(I)
  <2>1. k \in I /\ \A y \in I : k <= y
    <3> HIDE DEF I
    <3> QED BY <1>1, <1>3, MinIsLeast
  <2>2. First(list, M, d) = list[k].app
    BY <1>3 DEF First
  <2> HIDE DEF k
  <2>3. k \in DOMAIN list /\ list[k] \in M
    BY <2>1
  <2>4. ASSUME NEW i \in DOMAIN list, i < k PROVE list[i] \notin M
    <3>1. i \in Nat /\ k \in Nat
      BY <2>3
    <3> QED BY <2>1, <2>4, <3>1
  <2> QED BY <2>2, <2>3, <2>4
<1> QED BY <1>2, <1>3

(* ... and there is no other. *)
LEMMA FirstIs ==
  ASSUME NEW S, NEW list \in Seq(S), NEW M, NEW d, NEW k \in DOMAIN list, list[k] \in M,
         \A i \in DOMAIN list : i < k => list[i] \notin M
  PROVE  First(list, M, d) = list[k].app
<1>1. PICK j \in DOMAIN list : /\ First(list, M, d) = list[j].app /\ list[j] \in M
                               /\ \A i \in DOMAIN list : i < j => list[i] \notin M
  BY FirstSpec
<1>2. ~(j < k) /\ ~(k < j) /\ j \in Nat /\ k \in Nat
  BY <1>1
<1>3. j = k
  BY <1>2
<1> QED BY <1>1, <1>3

LEMMA FirstNone ==
  ASSUME NEW S, NEW list \in Seq(S), NEW M, NEW d, \A i \in DOMAIN list : list[i] \notin M
  PROVE  First(list, M, d) = d
BY FirstSpec

-----------------------------------------------------------------------------
(* Folds: FoldLeft goes through a list from its first element on. *)

(* The step of a fold over 1..n as a function; the function FoldLeft       *)
(* stands for; what it is for the first places; its values one by one.     *)
IsStep(st, n, V) == st \in [(1..n) \X V -> V]
Solves(it, n, V, base, st) ==
  /\ it \in [SUBSET (1..n) -> V]
  /\ \A s \in SUBSET (1..n) : it[s] = IF s = {} THEN base ELSE st[<<Max(s), it[s \ {Max(s)}]>>]
Begins(F, n, V, base, st) ==
  /\ F[{}] = base
  /\ \A k \in 1..n : F[1..(k - 1)] \in V => F[1..k] = st[<<k, F[1..(k - 1)]>>]
Runs(r, n, V, base, st) ==
  /\ r \in [0..n -> V] /\ r[0] = base
  /\ \A k \in 1..n : r[k] = st[<<k, r[k - 1]>>]

LEMMA FoldExists ==
  ASSUME NEW n \in Nat, NEW V, NEW base \in V, NEW st, IsStep(st, n, V)
  PROVE  \E it : Solves(it, n, V, base, st)
<1>0. st \in [(1..n) \X V -> V]
  BY DEF IsStep
<1> DEFINE Good(k) == \E it \in [SUBSET (1..k) -> V] :
              \A s \in SUBSET (1..k) :
                it[s] = IF s = {} THEN base ELSE st[<<Max(s), it[s \ {Max(s)}]>>]
           T == {k \in Nat : Good(k)}
<1>1. 0 \in T
  <2> DEFINE g == [s \in SUBSET (1..0) |-> base]
  <2>1. g \in [SUBSET (1..0) -> V]
    OBVIOUS
  <2>2. \A s \in SUBSET (1..0) : s = {} /\ g[s] = base
    OBVIOUS
  <2> HIDE DEF g
  <2>3. \A s \in SUBSET (1..0) : g[s] = IF s = {} THEN base ELSE st[<<Max(s), g[s \ {Max(s)}]>>]
    BY <2>2
  <2> QED BY <2>1, <2>3
<1>2. ASSUME NEW k \in 0..n - 1, k \in T PROVE k + 1 \in T
  <2>0. k \in Nat /\ k + 1 \in 1..n
    OBVIOUS
  <2>1. PICK g \in [SUBSET (1..k) -> V] : \A s \in SUBSET (1..k) :
               g[s] = IF s = {} THEN base ELSE st[<<Max(s), g[s \ {Max(s)}]>>]
    BY <1>2
  <2> DEFINE h == [s \in SUBSET (1..k + 1) |->
                     IF k + 1 \in s THEN st[<<k + 1, g[s \ {k + 1}]>>] ELSE g[s]]
  <2>2. \A s \in SUBSET (1..k + 1) : k + 1 \in s => s \ {k + 1} \in SUBSET (1..k)
    BY <2>0
  <2>3. \A s \in SUBSET (1..k + 1) : k + 1 \notin s => s \in SUBSET (1..k)
    BY <2>0
  <2>4. h \in [SUBSET (1..k + 1) -> V]
    <3>1. ASSUME NEW s \in SUBSET (1..k + 1), k + 1 \in s PROVE st[<<k + 1, g[s \ {k + 1}]>>] \in V
      <4>1. g[s \ {k + 1}] \in V
        BY <2>1, <2>2, <3>1
      <4> QED BY <1>0, <2>0, <4>1
    <3>2. \A s \in SUBSET (1..k + 1) : k + 1 \notin s => g[s] \in V
      BY <2>1, <2>3
    <3> QED BY <3>1, <3>2
  <2>5. ASSUME NEW s \in SUBSET (1..k + 1)
        PROVE  h[s] = IF s = {} THEN base ELSE st[<<Max(s), h[s \ {Max(s)}]>>]
    <3>1. CASE k + 1 \in s
      <4>1. Max(s) = k + 1
        <5>1. Max(s) \in s /\ \A y \in s : y <= Max(s)
          <6>1. k + 1 \in Nat /\ s \subseteq 1..k + 1 /\ s # {}
            BY <2>0, <3>1
          <6> QED BY <6>1, MaxIsGreatest
        <5>2. k + 1 <= Max(s) /\ Max(s) \in 1..k + 1
          BY <3>1, <5>1
        <5> QED BY <2>0, <5>2
      <4>2. h[s \ {k + 1}] = g[s \ {k + 1}]
        BY <2>2, <3>1
      <4>3. h[s] = st[<<k + 1, g[s \ {k + 1}]>>]
        BY <3>1
      <4> HIDE DEF h
      <4> QED BY <3>1, <4>1, <4>2, <4>3
    <3>2. CASE k + 1 \notin s
      <4>1. s \in SUBSET (1..k) /\ h[s] = g[s]
        BY <2>3, <3>2
      <4>2. CASE s = {}
        BY <2>1, <4>1, <4>2
      <4>3. CASE s # {}
        <5>1. s \ {Max(s)} \in SUBSET (1..k + 1) /\ k + 1 \notin s \ {Max(s)}
          BY <3>2
        <5>2. h[s \ {Max(s)}] = g[s \ {Max(s)}]
          BY <5>1
        <5> HIDE DEF h
        <5> QED BY <2>1, <4>1, <4>3, <5>2
      <4> QED BY <4>2, <4>3
    <3> QED BY <3>1, <3>2
  <2> HIDE DEF h
  <2>6. Good(k + 1)
    BY <2>4, <2>5
  <2>7. k + 1 \in Nat
    BY <2>0
  <2> HIDE DEF Good
  <2> QED BY <2>6, <2>7
<1>3. n \in T
  <2> HIDE DEF T
  <2>1. \A k \in 0..n : k \in T
    BY <1>1, <1>2, Induct
  <2> QED BY <2>1
<1>4. Good(n)
  BY <1>3
<1> QED BY <1>4 DEF Solves

(* From sets of places to how far the fold has come. *)
LEMMA UpTo ==
  ASSUME NEW n \in Nat
  PROVE  \A k \in 1..n : /\ 1..k \in SUBSET (1..n) /\ 1..k # {}
                        /\ Max(1..k) = k /\ (1..k) \ {k} = 1..(k - 1)
<1> SUFFICES ASSUME NEW k \in 1..n
             PROVE  1..k \in SUBSET (1..n) /\ 1..k # {} /\ Max(1..k) = k /\ (1..k) \ {k} = 1..(k - 1)
  OBVIOUS
<1> DEFINE P == 1..k
<1>1. k \in Nat /\ k \in P /\ P \subseteq 1..k /\ P # {}
  OBVIOUS
<1>4. Max(P) = k
  <2> HIDE DEF P
  <2>2. Max(P) \in P /\ \A y \in P : y <= Max(P)
    BY <1>1, MaxIsGreatest
  <2>3. k <= Max(P) /\ Max(P) \in 1..k
    BY <1>1, <2>2
  <2> QED BY <1>1, <2>3
<1>5. P \in SUBSET (1..n) /\ P \ {k} = 1..(k - 1)
  OBVIOUS
<1> QED BY <1>1, <1>4, <1>5

(* The values of a fold, one after the other. *)
LEMMA FoldRun ==
  ASSUME NEW n \in Nat, NEW V, NEW base \in V, NEW st, IsStep(st, n, V), NEW F, Begins(F, n, V, base, st)
  PROVE  \E r : Runs(r, n, V, base, st) /\ r[n] = F[1..n]
<1>0. /\ st \in [(1..n) \X V -> V] /\ F[{}] = base
      /\ \A k \in 1..n : F[1..(k - 1)] \in V => F[1..k] = st[<<k, F[1..(k - 1)]>>]
  BY DEF IsStep, Begins
<1> DEFINE T == {k \in 0..n : F[1..k] \in V}
<1>1. F[1..0] = base
  <2>1. 1..0 = {}
    OBVIOUS
  <2> QED BY <1>0, <2>1
<1>2. 0 \in T
  BY <1>1
<1>3. ASSUME NEW k \in 0..n - 1, k \in T PROVE k + 1 \in T
  <2>1. k + 1 \in 1..n /\ (k + 1) - 1 = k
    OBVIOUS
  <2>2. F[1..k] \in V
    BY <1>3
  <2>3. F[1..k + 1] = st[<<k + 1, F[1..k]>>]
    BY <1>0, <2>1, <2>2
  <2>4. <<k + 1, F[1..k]>> \in (1..n) \X V
    BY <2>1, <2>2
  <2>5. F[1..k + 1] \in V
    BY <1>0, <2>3, <2>4
  <2> QED BY <2>1, <2>5
<1>4. \A k \in 0..n : F[1..k] \in V
  <2>1. \A k \in 0..n : k \in T
    <3> HIDE DEF T
    <3> QED BY <1>2, <1>3, Induct
  <2> QED BY <2>1
<1> DEFINE r == [k \in 0..n |-> F[1..k]]
<1>5. r \in [0..n -> V]
  BY <1>4
<1>6. r[0] = base
  BY <1>1
<1>7. r[n] = F[1..n]
  OBVIOUS
<1>8. ASSUME NEW k \in 1..n PROVE r[k] = st[<<k, r[k - 1]>>]
  <2>1. k \in 0..n /\ k - 1 \in 0..n
    OBVIOUS
  <2>2. r[k] = F[1..k] /\ r[k - 1] = F[1..(k - 1)]
    BY <2>1
  <2> QED BY <1>0, <1>4, <2>1, <2>2
<1> HIDE DEF r
<1> QED BY <1>5, <1>6, <1>7, <1>8 DEF Runs

-----------------------------------------------------------------------------
(* Applications and what they claim. *)

Apps == Entries \cup {AdminPanel}
HostClaims == UNION {Claims(c) : c \in Apps}
UriClaim(c) == [hash |-> uri_hash(c.uri), app |-> c.name]
UriClaims == {UriClaim(c) : c \in Apps}

LEMMA AppFacts ==
  ASSUME NEW c \in Apps
  PROVE  /\ c.name \in Names /\ c.name # Nobody /\ DOMAIN c = {"name", "uri", "hosts", "ok"}
         /\ c.hosts \in Seq(ToSet(c.hosts))
         /\ \A i \in DOMAIN c.hosts : c.hosts[i].type \in HostTypes
<1>1. CASE c \in Entries
  <2>1. IsEntry(c) /\ c.name # Nobody /\ c.name \in Names
    BY <1>1, EntriesAssumption DEF Names
  <2> QED BY <2>1 DEF IsEntry
<1>2. CASE c = AdminPanel
  <2>1. AdminPanel.hosts = <<>> /\ AdminPanel.name = "Admin Panel"
        /\ DOMAIN AdminPanel = {"name", "uri", "hosts", "ok"}
    BY DEF AdminPanel
  <2>2. <<>> \in Seq(ToSet(<<>>)) /\ DOMAIN <<>> = {}
    OBVIOUS
  <2>3. AdminPanel.name \in Names /\ AdminPanel.name # Nobody
    BY <2>1 DEF Names, Nobody
  <2> QED BY <1>2, <2>1, <2>2, <2>3
<1> QED BY <1>1, <1>2 DEF Apps

LEMMA ClaimFacts ==
  ASSUME NEW x \in HostClaims
  PROVE  x.host.type \in Nat /\ x.app \in Names /\ x.app # Nobody /\ x = [host |-> x.host, app |-> x.app]
<1>1. PICK c \in Apps : x \in Claims(c)
  BY DEF HostClaims
<1>2. PICK i \in DOMAIN c.hosts : x = [host |-> c.hosts[i], app |-> c.name]
  BY <1>1 DEF Claims
<1>3. x.host = c.hosts[i] /\ x.app = c.name
  BY <1>2
<1>4. c.name \in Names /\ c.name # Nobody /\ c.hosts[i].type \in HostTypes
  BY AppFacts
<1>5. HostTypes \subseteq Nat
  BY DEF HostTypes, HOST_TYPE_STATIC, HOST_TYPE_WILDCARD_IN_START, HOST_TYPE_WILDCARD_IN_END,
         HOST_TYPE_WILDCARD_IN_START_END
<1> QED BY <1>2, <1>3, <1>4, <1>5

-----------------------------------------------------------------------------
(* The list of hosts is sorted by how specific they are. *)

Sorted(hs) == \A i, j \in DOMAIN hs : i < j => hs[i].host.type <= hs[j].host.type

LEMMA CatSpec ==
  ASSUME NEW S, NEW a \in Seq(S), NEW b \in Seq(S)
  PROVE  /\ a \o b \in Seq(S) /\ Len(a \o b) = Len(a) + Len(b) /\ DOMAIN (a \o b) = 1..Len(a) + Len(b)
         /\ \A i \in 1..Len(a) : (a \o b)[i] = a[i]
         /\ \A i \in 1..Len(b) : (a \o b)[Len(a) + i] = b[i]
OBVIOUS

(* The list t is hs with x put in at the place p. *)
PutIn(hs, t, x, p) ==
  /\ Len(t) = Len(hs) + 1 /\ t[p] = x
  /\ \A i \in 1..Len(hs) : (i < p => t[i] = hs[i]) /\ (p <= i => t[i + 1] = hs[i])

(* InsertHost puts it in after all more specific ones. *)
LEMMA InsertSpec ==
  ASSUME NEW hs \in Seq(HostClaims), NEW x \in HostClaims, Sorted(hs)
  PROVE  /\ InsertHost(hs, x) \in Seq(HostClaims)
         /\ \E p \in 1..Len(hs) + 1 :
              /\ PutIn(hs, InsertHost(hs, x), x, p)
              /\ \A i \in 1..Len(hs) : /\ i < p => hs[i].host.type < x.host.type
                                       /\ p <= i => x.host.type <= hs[i].host.type
<1> DEFINE I == {i \in 1..Len(hs) : hs[i].host.type >= x.host.type}
           t == InsertHost(hs, x)
<1>0. x.host.type \in Nat /\ Len(hs) \in Nat /\ DOMAIN hs = 1..Len(hs)
      /\ \A i \in 1..Len(hs) : hs[i] \in HostClaims /\ hs[i].host.type \in Nat
  BY ClaimFacts
<1>1. CASE I = {}
  <2>1. t = Append(hs, x)
    BY <1>1 DEF InsertHost, SelectInSeq
  <2>2. t \in Seq(HostClaims) /\ Len(t) = Len(hs) + 1 /\ t[Len(hs) + 1] = x
        /\ \A i \in 1..Len(hs) : t[i] = hs[i]
    BY <2>1
  <2>3. \A i \in 1..Len(hs) : hs[i].host.type < x.host.type
    BY <1>0, <1>1
  <2>4. PutIn(hs, t, x, Len(hs) + 1)
    BY <1>0, <2>2 DEF PutIn
  <2>5. Len(hs) + 1 \in 1..Len(hs) + 1 /\ \A i \in 1..Len(hs) : i < Len(hs) + 1 /\ ~(Len(hs) + 1 <= i)
    BY <1>0
  <2> QED BY <2>2, <2>3, <2>4, <2>5
<1>2. CASE I # {}
  <2> DEFINE p == Min(I)
  <2>1. t = InsertAt(hs, p, x)
    <3>1. SelectInSeq(hs, LAMBDA y : y.host.type >= x.host.type) = p
      BY <1>2 DEF SelectInSeq
    <3>2. p # 0
      <4>1. I \subseteq Nat /\ 0 \notin I
        OBVIOUS
      <4> HIDE DEF I
      <4> QED BY <1>2, <4>1, MinIsIn
    <3> QED BY <3>1, <3>2 DEF InsertHost
  <2>2. p \in I /\ \A i \in I : p <= i
    <3>1. I \subseteq Nat
      OBVIOUS
    <3> HIDE DEF I
    <3> QED BY <1>2, <3>1, MinIsLeast
  <2> HIDE DEF p, t
  <2>3. p \in 1..Len(hs) /\ hs[p].host.type >= x.host.type
    BY <2>2
  <2>4. ASSUME NEW i \in 1..Len(hs), i < p PROVE hs[i].host.type < x.host.type
    <3>1. i \notin I
      BY <2>2, <2>3, <2>4
    <3> QED BY <1>0, <3>1
  <2>5. ASSUME NEW i \in 1..Len(hs), p <= i PROVE x.host.type <= hs[i].host.type
    <3>1. p = i \/ hs[p].host.type <= hs[i].host.type
      BY <1>0, <2>3, <2>5 DEF Sorted
    <3> QED BY <1>0, <2>3, <3>1
  <2>6. t = SubSeq(hs, 1, p - 1) \o <<x>> \o SubSeq(hs, p, Len(hs))
    BY <2>1 DEF InsertAt
  <2> DEFINE a == SubSeq(hs, 1, p - 1)
             b == SubSeq(hs, p, Len(hs))
  <2>7. a \in Seq(HostClaims) /\ Len(a) = p - 1 /\ \A i \in 1..p - 1 : a[i] = hs[i]
    BY <1>0, <2>3
  <2>8. b \in Seq(HostClaims) /\ Len(b) = Len(hs) - p + 1 /\ \A i \in 1..Len(hs) - p + 1 : b[i] = hs[p + i - 1]
    BY <1>0, <2>3
  <2>9. t = (a \o <<x>>) \o b
    BY <2>6
  <2> HIDE DEF a, b
  <2> DEFINE ax == a \o <<x>>
  <2>10. ax \in Seq(HostClaims) /\ Len(ax) = p /\ ax[p] = x /\ \A i \in 1..p - 1 : ax[i] = hs[i]
    <3> DEFINE sx == <<x>>
    <3>1. sx \in Seq(HostClaims) /\ Len(sx) = 1 /\ sx[1] = x
      OBVIOUS
    <3> HIDE DEF sx
    <3>2. /\ a \o sx \in Seq(HostClaims) /\ Len(a \o sx) = Len(a) + Len(sx)
          /\ \A i \in 1..Len(a) : (a \o sx)[i] = a[i]
          /\ \A i \in 1..Len(sx) : (a \o sx)[Len(a) + i] = sx[i]
      <4>1. a \in Seq(HostClaims) /\ sx \in Seq(HostClaims)
        BY <2>7, <3>1
      <4> QED BY <4>1, CatSpec
    <3>3. ax = a \o sx
      BY DEF sx
    <3> HIDE DEF ax
    <3>4. 1 \in 1..Len(sx) /\ Len(a) = p - 1 /\ Len(a) + 1 = p
      BY <1>0, <2>3, <2>7, <3>1
    <3>5. ax \in Seq(HostClaims) /\ Len(ax) = p
      BY <3>1, <3>2, <3>3, <3>4
    <3>6. ax[p] = x
      BY <3>1, <3>2, <3>3, <3>4
    <3>7. \A i \in 1..p - 1 : ax[i] = hs[i]
      BY <2>7, <3>2, <3>3, <3>4
    <3> QED BY <3>5, <3>6, <3>7
  <2>11. t = ax \o b
    BY <2>9
  <2> HIDE DEF ax
  <2>12. t \in Seq(HostClaims) /\ Len(t) = Len(hs) + 1
    <3>1. t \in Seq(HostClaims) /\ Len(t) = Len(ax) + Len(b)
      BY <2>8, <2>10, <2>11
    <3>2. p + (Len(hs) - p + 1) = Len(hs) + 1
      BY <1>0, <2>3
    <3> QED BY <2>8, <2>10, <3>1, <3>2
  <2>13. t[p] = x
    BY <1>0, <2>3, <2>8, <2>10, <2>11
  <2>14. \A i \in 1..Len(hs) : i < p => t[i] = hs[i]
    BY <1>0, <2>3, <2>8, <2>10, <2>11
  <2>15. ASSUME NEW i \in 1..Len(hs), p <= i PROVE t[i + 1] = hs[i]
    <3>1. i + 1 - p \in 1..Len(hs) - p + 1 /\ p + (i + 1 - p) - 1 = i
      BY <1>0, <2>3, <2>15
    <3>2. t[i + 1] = b[i + 1 - p]
      BY <1>0, <2>3, <2>8, <2>10, <2>11, <2>15, <3>1
    <3> QED BY <2>8, <3>1, <3>2
  <2>16. PutIn(hs, t, x, p)
    BY <2>12, <2>13, <2>14, <2>15 DEF PutIn
  <2>17. p \in 1..Len(hs) + 1
    BY <1>0, <2>3
  <2> QED BY <2>4, <2>5, <2>12, <2>16, <2>17 DEF t
<1> QED BY <1>1, <1>2

(* What is at each place then. *)
LEMMA PutInPlaces ==
  ASSUME NEW S, NEW hs \in Seq(S), NEW t \in Seq(S), NEW x, NEW p \in 1..Len(hs) + 1, PutIn(hs, t, x, p),
         NEW j \in DOMAIN t
  PROVE  \/ j < p /\ j \in DOMAIN hs /\ t[j] = hs[j]
         \/ j = p /\ t[j] = x
         \/ j > p /\ j - 1 \in DOMAIN hs /\ t[j] = hs[j - 1]
<1>1. Len(hs) \in Nat /\ DOMAIN hs = 1..Len(hs) /\ DOMAIN t = 1..Len(hs) + 1 /\ p \in Nat /\ j \in Nat
  BY DEF PutIn
<1>2. CASE j < p
  <2>1. j \in 1..Len(hs)
    BY <1>1, <1>2
  <2> QED BY <1>1, <1>2, <2>1 DEF PutIn
<1>3. CASE j = p
  BY <1>3 DEF PutIn
<1>4. CASE j > p
  <2>1. j - 1 \in 1..Len(hs) /\ p <= j - 1 /\ (j - 1) + 1 = j
    BY <1>1, <1>4
  <2>2. t[(j - 1) + 1] = hs[j - 1]
    BY <2>1 DEF PutIn
  <2> QED BY <1>1, <1>4, <2>1, <2>2
<1> QED BY <1>1, <1>2, <1>3, <1>4

(* The list stays sorted and gets this one claim; what is found first in   *)
(* it is what was found before, or the claim.                              *)
LEMMA InsertKeeps ==
  ASSUME NEW hs \in Seq(HostClaims), NEW x \in HostClaims, Sorted(hs), NEW M, NEW d
  PROVE  /\ InsertHost(hs, x) \in Seq(HostClaims) /\ Sorted(InsertHost(hs, x))
         /\ ToSet(InsertHost(hs, x)) = ToSet(hs) \cup {x}
         /\ First(InsertHost(hs, x), M, d) \in {First(hs, M, d), x.app}
<1> DEFINE t == InsertHost(hs, x)
<1>1. t \in Seq(HostClaims)
      /\ \E p \in 1..Len(hs) + 1 :
              /\ PutIn(hs, t, x, p)
              /\ \A i \in 1..Len(hs) : /\ i < p => hs[i].host.type < x.host.type
                                       /\ p <= i => x.host.type <= hs[i].host.type
  BY InsertSpec
<1> HIDE DEF t
<1>2. PICK p \in 1..Len(hs) + 1 :
              /\ PutIn(hs, t, x, p)
              /\ \A i \in 1..Len(hs) : /\ i < p => hs[i].host.type < x.host.type
                                       /\ p <= i => x.host.type <= hs[i].host.type
  BY <1>1
<1>3. \A j \in DOMAIN t : \/ j < p /\ j \in DOMAIN hs /\ t[j] = hs[j]
                          \/ j = p /\ t[j] = x
                          \/ j > p /\ j - 1 \in DOMAIN hs /\ t[j] = hs[j - 1]
  BY <1>1, <1>2, PutInPlaces
<1>4. Len(hs) \in Nat /\ DOMAIN hs = 1..Len(hs) /\ DOMAIN t = 1..Len(hs) + 1 /\ p \in Nat
      /\ x.host.type \in Nat /\ t[p] = x /\ p \in DOMAIN t
      /\ \A i \in 1..Len(hs) : /\ hs[i].host.type \in Nat
                               /\ (i < p => t[i] = hs[i]) /\ (p <= i => t[i + 1] = hs[i])
  <2>1. \A i \in 1..Len(hs) : hs[i] \in HostClaims
    OBVIOUS
  <2> QED BY <1>1, <1>2, <2>1, ClaimFacts DEF PutIn
<1>5. Sorted(t)
  <2> SUFFICES ASSUME NEW i \in DOMAIN t, NEW j \in DOMAIN t, i < j
               PROVE  t[i].host.type <= t[j].host.type
    BY DEF Sorted
  <2>1. i \in Nat /\ j \in Nat
    BY <1>4
  <2>2. CASE i < p
    <3>1. i \in 1..Len(hs) /\ t[i] = hs[i] /\ hs[i].host.type < x.host.type
      BY <1>2, <1>3, <1>4, <2>1, <2>2
    <3>2. CASE j < p
      <4>1. j \in DOMAIN hs /\ t[j] = hs[j]
        BY <1>3, <1>4, <2>1, <3>2
      <4> QED BY <1>4, <3>1, <4>1 DEF Sorted
    <3>3. CASE j = p
      BY <1>4, <3>1, <3>3
    <3>4. CASE j > p
      <4>1. j - 1 \in DOMAIN hs /\ t[j] = hs[j - 1] /\ i < j - 1
        BY <1>3, <1>4, <2>1, <2>2, <3>4
      <4> QED BY <1>4, <3>1, <4>1 DEF Sorted
    <3> QED BY <1>4, <2>1, <3>2, <3>3, <3>4
  <2>3. CASE i = p
    <3>1. j - 1 \in 1..Len(hs) /\ t[j] = hs[j - 1] /\ p <= j - 1
      BY <1>3, <1>4, <2>1, <2>3
    <3> QED BY <1>2, <1>4, <2>3, <3>1
  <2>4. CASE i > p
    <3>1. i - 1 \in DOMAIN hs /\ t[i] = hs[i - 1] /\ j - 1 \in DOMAIN hs /\ t[j] = hs[j - 1] /\ i - 1 < j - 1
      BY <1>3, <1>4, <2>1, <2>4
    <3> QED BY <3>1 DEF Sorted
  <2> QED BY <1>4, <2>1, <2>2, <2>3, <2>4
<1>6. ToSet(t) = ToSet(hs) \cup {x}
  <2>1. ASSUME NEW j \in DOMAIN t PROVE t[j] = x \/ \E i \in DOMAIN hs : t[j] = hs[i]
    BY <1>3
  <2>2. ASSUME NEW i \in DOMAIN hs PROVE \E j \in DOMAIN t : t[j] = hs[i]
    <3>1. i \in 1..Len(hs) /\ i \in DOMAIN t /\ i + 1 \in DOMAIN t /\ (i < p \/ p <= i)
      BY <1>4
    <3> QED BY <1>4, <3>1
  <2> QED BY <1>4, <2>1, <2>2 DEF ToSet
<1>7. First(t, M, d) \in {First(hs, M, d), x.app}
  <2>1. CASE First(t, M, d) = d /\ \A i \in DOMAIN t : t[i] \notin M
    <3>1. \A i \in DOMAIN hs : hs[i] \in ToSet(t)
      BY <1>6 DEF ToSet
    <3>2. \A i \in DOMAIN hs : hs[i] \notin M
      BY <2>1, <3>1 DEF ToSet
    <3> QED BY <2>1, <3>2, FirstNone
  <2>2. ASSUME NEW k \in DOMAIN t, First(t, M, d) = t[k].app, t[k] \in M,
               \A i \in DOMAIN t : i < k => t[i] \notin M
        PROVE  First(t, M, d) \in {First(hs, M, d), x.app}
    <3>1. CASE k = p
      BY <1>4, <2>2, <3>1
    <3>2. CASE k < p
      <4>1. k \in DOMAIN hs /\ t[k] = hs[k] /\ k \in Nat
        BY <1>3, <1>4, <3>2
      <4>2. ASSUME NEW i \in DOMAIN hs, i < k PROVE hs[i] \notin M
        <5>1. i \in DOMAIN t /\ t[i] = hs[i]
          BY <1>4, <3>2, <4>1, <4>2
        <5> QED BY <2>2, <4>2, <5>1
      <4>3. First(hs, M, d) = hs[k].app
        BY <2>2, <4>1, <4>2, FirstIs
      <4> QED BY <2>2, <4>1, <4>3
    <3>3. CASE k > p
      <4>1. k - 1 \in DOMAIN hs /\ t[k] = hs[k - 1] /\ k \in Nat
        BY <1>3, <1>4, <3>3
      <4>2. ASSUME NEW i \in DOMAIN hs, i < k - 1 PROVE hs[i] \notin M
        <5>1. i \in 1..Len(hs) /\ i \in DOMAIN t /\ i + 1 \in DOMAIN t /\ (i < p \/ p <= i) /\ i < k /\ i + 1 < k
          BY <1>4, <4>1, <4>2
        <5>2. t[i] = hs[i] \/ t[i + 1] = hs[i]
          BY <1>4, <5>1
        <5> QED BY <2>2, <5>1, <5>2
      <4>3. First(hs, M, d) = hs[k - 1].app
        BY <2>2, <4>1, <4>2, FirstIs
      <4> QED BY <2>2, <4>1, <4>3
    <3> QED BY <1>4, <3>1, <3>2, <3>3
  <2> QED BY <1>1, <2>1, <2>2, FirstSpec
<1> QED BY <1>1, <1>5, <1>6, <1>7 DEF t

(* All hosts of an application. *)
WithHosts(hs, c) ==
  FoldLeft(LAMBDA l, h : InsertHost(l, [host |-> h, app |-> c.name]), hs, c.hosts)

LEMMA HostsRun ==
  ASSUME NEW hs \in Seq(HostClaims), Sorted(hs), NEW c \in Apps
  PROVE  \E r \in [0..Len(c.hosts) -> {s \in Seq(HostClaims) : Sorted(s)}] :
           /\ r[0] = hs /\ r[Len(c.hosts)] = WithHosts(hs, c)
           /\ \A k \in 1..Len(c.hosts) :
                r[k] = InsertHost(r[k - 1], [host |-> c.hosts[k], app |-> c.name])
<1> DEFINE n == Len(c.hosts)
           V == {s \in Seq(HostClaims) : Sorted(s)}
           st == [z \in (1..n) \X V |-> InsertHost(z[2], [host |-> c.hosts[z[1]], app |-> c.name])]
           Eq(g) == g = [s \in SUBSET DOMAIN c.hosts |->
                           IF s = {} THEN hs
                           ELSE InsertHost(g[s \ {Max(s)}], [host |-> c.hosts[Max(s)], app |-> c.name])]
           F == CHOOSE g : Eq(g)
<1>1. n \in Nat /\ DOMAIN c.hosts = 1..n
  <2>1. c.hosts \in Seq(ToSet(c.hosts))
    BY AppFacts
  <2> QED BY <2>1
<1>2. WithHosts(hs, c) = F[DOMAIN c.hosts]
  BY DEF WithHosts, FoldLeft, MapThenFoldSet
<1> HIDE DEF n
<1>3. \A k \in 1..n : [host |-> c.hosts[k], app |-> c.name] \in HostClaims
  BY <1>1 DEF HostClaims, Claims
<1>4. hs \in V
  OBVIOUS
<1>5. IsStep(st, n, V)
  <2>1. ASSUME NEW z \in (1..n) \X V
        PROVE  InsertHost(z[2], [host |-> c.hosts[z[1]], app |-> c.name]) \in V
    <3>1. z[1] \in 1..n /\ z[2] \in V
      OBVIOUS
    <3>2. z[2] \in Seq(HostClaims) /\ Sorted(z[2]) /\ [host |-> c.hosts[z[1]], app |-> c.name] \in HostClaims
      BY <1>3, <3>1
    <3> QED BY <3>2, InsertKeeps
  <2> HIDE DEF V
  <2> QED BY <2>1 DEF IsStep
<1>6. \A k \in 1..n : \A v \in V : st[<<k, v>>] = InsertHost(v, [host |-> c.hosts[k], app |-> c.name])
  <2> HIDE DEF V
  <2> QED OBVIOUS
<1> HIDE DEF st, V
<1>7. \E g : Eq(g)
  <2>0. PICK g : Solves(g, n, V, hs, st)
    BY <1>1, <1>4, <1>5, FoldExists
  <2>1. /\ g \in [SUBSET (1..n) -> V]
        /\ \A s \in SUBSET (1..n) : g[s] = IF s = {} THEN hs ELSE st[<<Max(s), g[s \ {Max(s)}]>>]
    BY <2>0 DEF Solves
  <2>2. ASSUME NEW s \in SUBSET (1..n)
        PROVE  g[s] = IF s = {} THEN hs
                      ELSE InsertHost(g[s \ {Max(s)}], [host |-> c.hosts[Max(s)], app |-> c.name])
    <3>1. CASE s = {}
      BY <2>1, <3>1
    <3>2. CASE s # {}
      <4>1. Max(s) \in 1..n
        BY <1>1, <3>2, MaxIsGreatest
      <4>2. s \ {Max(s)} \in SUBSET (1..n)
        OBVIOUS
      <4>3. g[s \ {Max(s)}] \in V
        BY <2>1, <4>2
      <4> QED BY <1>6, <2>1, <3>2, <4>1, <4>3
    <3> QED BY <3>1, <3>2
  <2>3. g = [s \in SUBSET (1..n) |->
               IF s = {} THEN hs
               ELSE InsertHost(g[s \ {Max(s)}], [host |-> c.hosts[Max(s)], app |-> c.name])]
    BY <2>1, <2>2
  <2>4. Eq(g)
    BY <1>1, <2>3
  <2> QED BY <2>4
<1>8. Eq(F)
  <2> HIDE DEF Eq
  <2> QED BY <1>7
<1> HIDE DEF F
<1>9. \A s \in SUBSET (1..n) : F[s] = IF s = {} THEN hs
        ELSE InsertHost(F[s \ {Max(s)}], [host |-> c.hosts[Max(s)], app |-> c.name])
  BY <1>1, <1>8
<1> HIDE DEF Eq
<1>10. F[{}] = hs
  BY <1>9
<1>11. ASSUME NEW k \in 1..n, F[1..(k - 1)] \in V PROVE F[1..k] = st[<<k, F[1..(k - 1)]>>]
  <2>1. 1..k \in SUBSET (1..n) /\ 1..k # {} /\ Max(1..k) = k /\ (1..k) \ {k} = 1..(k - 1)
    BY <1>1, UpTo
  <2>2. F[1..k] = InsertHost(F[1..(k - 1)], [host |-> c.hosts[k], app |-> c.name])
    BY <1>9, <2>1
  <2> QED BY <1>6, <1>11, <2>2
<1>12. PICK r : r \in [0..n -> V] /\ r[0] = hs /\ r[n] = F[1..n] /\ \A k \in 1..n : r[k] = st[<<k, r[k - 1]>>]
  <2>1. Begins(F, n, V, hs, st)
    BY <1>10, <1>11 DEF Begins
  <2>2. \E r : Runs(r, n, V, hs, st) /\ r[n] = F[1..n]
    BY <1>1, <1>4, <1>5, <2>1, FoldRun
  <2> QED BY <2>2 DEF Runs
<1>13. ASSUME NEW k \in 1..n PROVE r[k] = InsertHost(r[k - 1], [host |-> c.hosts[k], app |-> c.name])
  <2>1. k - 1 \in 0..n
    BY <1>1
  <2> QED BY <1>6, <1>12, <2>1
<1>14. r[n] = WithHosts(hs, c)
  BY <1>1, <1>2, <1>12
<1> QED BY <1>12, <1>13, <1>14 DEF n, V

LEMMA HostsKeep ==
  ASSUME NEW hs \in Seq(HostClaims), Sorted(hs), NEW c \in Apps, NEW M, NEW d
  PROVE  /\ WithHosts(hs, c) \in Seq(HostClaims) /\ Sorted(WithHosts(hs, c))
         /\ ToSet(WithHosts(hs, c)) = ToSet(hs) \cup Claims(c)
         /\ First(WithHosts(hs, c), M, d) \in {First(hs, M, d), c.name}
<1> DEFINE n == Len(c.hosts)
           X(k) == [host |-> c.hosts[k], app |-> c.name]
           So(k) == {X(i) : i \in 1..k}
<1>1. n \in Nat /\ DOMAIN c.hosts = 1..n
  <2>1. c.hosts \in Seq(ToSet(c.hosts))
    BY AppFacts
  <2> QED BY <2>1
<1>2. PICK r \in [0..n -> {s \in Seq(HostClaims) : Sorted(s)}] :
           /\ r[0] = hs /\ r[n] = WithHosts(hs, c)
           /\ \A k \in 1..n : r[k] = InsertHost(r[k - 1], X(k))
  BY HostsRun
<1>3. \A k \in 1..n : X(k) \in HostClaims /\ X(k).app = c.name
  BY <1>1 DEF HostClaims, Claims
<1>4. Claims(c) = So(n)
  BY <1>1 DEF Claims
<1> HIDE DEF n, X
<1> DEFINE T == {k \in 0..n : /\ ToSet(r[k]) = ToSet(hs) \cup So(k)
                              /\ First(r[k], M, d) \in {First(hs, M, d), c.name}}
<1>5. 0 \in T
  <2>1. So(0) = {}
    OBVIOUS
  <2> QED BY <1>1, <1>2, <2>1
<1>6. ASSUME NEW k \in 0..n - 1, k \in T PROVE k + 1 \in T
  <2>1. k + 1 \in 1..n /\ k \in 0..n /\ (k + 1) - 1 = k /\ k + 1 \in 0..n
    BY <1>1
  <2>2. r[k] \in Seq(HostClaims) /\ Sorted(r[k]) /\ X(k + 1) \in HostClaims /\ X(k + 1).app = c.name
    BY <1>2, <1>3, <2>1
  <2>3. r[k + 1] = InsertHost(r[k], X(k + 1))
    BY <1>2, <2>1
  <2>4. /\ ToSet(r[k + 1]) = ToSet(r[k]) \cup {X(k + 1)}
        /\ First(r[k + 1], M, d) \in {First(r[k], M, d), c.name}
    <3>1. /\ ToSet(InsertHost(r[k], X(k + 1))) = ToSet(r[k]) \cup {X(k + 1)}
          /\ First(InsertHost(r[k], X(k + 1)), M, d) \in {First(r[k], M, d), X(k + 1).app}
      <4> DEFINE hk == r[k]
                 xk == X(k + 1)
      <4>1. hk \in Seq(HostClaims) /\ Sorted(hk) /\ xk \in HostClaims
        BY <2>2
      <4> HIDE DEF hk, xk
      <4>2. /\ ToSet(InsertHost(hk, xk)) = ToSet(hk) \cup {xk}
            /\ First(InsertHost(hk, xk), M, d) \in {First(hk, M, d), xk.app}
        BY <4>1, InsertKeeps
      <4> QED BY <4>2 DEF hk, xk
    <3> QED BY <2>2, <2>3, <3>1
  <2>5. So(k + 1) = So(k) \cup {X(k + 1)}
    <3>1. \A i : i \in 1..k + 1 <=> (i \in 1..k \/ i = k + 1)
      BY <2>1
    <3> QED BY <3>1
  <2> HIDE DEF So
  <2> QED BY <1>6, <2>1, <2>4, <2>5
<1>7. n \in T
  <2> HIDE DEF T
  <2>1. \A k \in 0..n : k \in T
    BY <1>1, <1>5, <1>6, Induct
  <2> QED BY <1>1, <2>1
<1>8. n \in 0..n
  BY <1>1
<1> HIDE DEF So
<1> QED BY <1>2, <1>4, <1>7, <1>8

-----------------------------------------------------------------------------
(* The routes to a set C of applications. *)

Routes == {rt \in [uris : Seq(UriClaims), hosts : Seq(HostClaims), dflt : Names \cup {Nobody}] : Sorted(rt.hosts)}
HasUri(C) == {c \in C : c.uri \notin {NoUri, Root}}
Agree(rt, C) ==
  /\ rt \in Routes
  /\ ToSet(rt.hosts) = UNION {Claims(c) : c \in C}
  /\ ToSet(rt.uris) = {UriClaim(c) : c \in HasUri(C)}
  /\ rt.dflt # Nobody => \E c \in C : c.name = rt.dflt /\ c.uri = Root
  /\ IsInjective(rt.uris)

LEMMA AddIs ==
  ASSUME NEW rt \in Routes, NEW c \in Apps
  PROVE  LET new == wr_req_resolver_add(rt, c)
         IN  /\ new \in Routes
             /\ new.uris = IF c.uri \in {NoUri, Root} THEN rt.uris ELSE <<UriClaim(c)>> \o rt.uris
             /\ new.hosts = WithHosts(rt.hosts, c)
             /\ new.dflt = IF c.uri = Root THEN c.name ELSE rt.dflt
<1> DEFINE new == wr_req_resolver_add(rt, c)
           us == IF c.uri \in {NoUri, Root} THEN rt.uris ELSE <<UriClaim(c)>> \o rt.uris
           ds == IF c.uri = Root THEN c.name ELSE rt.dflt
           wh == WithHosts(rt.hosts, c)
<1>1. rt.uris \in Seq(UriClaims) /\ rt.hosts \in Seq(HostClaims) /\ rt.dflt \in Names \cup {Nobody} /\ Sorted(rt.hosts)
  BY DEF Routes
<1>2. new = [uris |-> us, hosts |-> wh, dflt |-> ds]
  BY DEF wr_req_resolver_add, WithHosts, UriClaim
<1>3. wh \in Seq(HostClaims) /\ Sorted(wh)
  BY <1>1, HostsKeep
<1>4. us \in Seq(UriClaims)
  <2>1. UriClaim(c) \in UriClaims
    BY DEF UriClaims
  <2> HIDE DEF us
  <2>2. CASE c.uri \in {NoUri, Root}
    BY <1>1, <2>2 DEF us
  <2>3. CASE c.uri \notin {NoUri, Root}
    <3> DEFINE u == UriClaim(c)
               su == <<u>>
               ru == rt.uris
    <3>1. us = su \o ru
      BY <2>3 DEF us
    <3>2. u \in UriClaims /\ ru \in Seq(UriClaims)
      BY <1>1, <2>1
    <3> HIDE DEF u, ru
    <3>3. su \in Seq(UriClaims)
      BY <3>2
    <3> HIDE DEF su
    <3> QED BY <3>1, <3>2, <3>3, CatSpec
  <2> QED BY <2>2, <2>3
<1>5. ds \in Names \cup {Nobody}
  BY <1>1, AppFacts
<1> HIDE DEF new, us, ds, wh
<1>6. new \in Routes /\ new.uris = us /\ new.hosts = wh /\ new.dflt = ds
  BY <1>2, <1>3, <1>4, <1>5 DEF Routes
<1> QED BY <1>6 DEF new, us, ds, wh

(* One element in front of a list. *)
LEMMA ConsSpec ==
  ASSUME NEW S, NEW u \in S, NEW list \in Seq(S)
  PROVE  /\ <<u>> \o list \in Seq(S) /\ DOMAIN (<<u>> \o list) = 1..Len(list) + 1
         /\ (<<u>> \o list)[1] = u /\ \A i \in 1..Len(list) : (<<u>> \o list)[i + 1] = list[i]
         /\ ToSet(<<u>> \o list) = {u} \cup ToSet(list)
<1> DEFINE su == <<u>>
           t == su \o list
<1>1. su \in Seq(S) /\ Len(su) = 1 /\ su[1] = u
  OBVIOUS
<1> HIDE DEF su
<1>2. /\ t \in Seq(S) /\ Len(t) = Len(su) + Len(list)
      /\ \A i \in 1..Len(su) : t[i] = su[i]
      /\ \A i \in 1..Len(list) : t[Len(su) + i] = list[i]
  <2>1. t = su \o list
    OBVIOUS
  <2> HIDE DEF t
  <2>2. su \in Seq(S) /\ list \in Seq(S)
    BY <1>1
  <2>3. su \o list \in Seq(S) /\ Len(su \o list) = Len(su) + Len(list)
    BY <2>2, CatSpec
  <2>4. \A i \in 1..Len(su) : (su \o list)[i] = su[i]
    BY <2>2
  <2>5. \A i \in 1..Len(list) : (su \o list)[Len(su) + i] = list[i]
    BY <2>2
  <2> QED BY <2>1, <2>3, <2>4, <2>5
<1> HIDE DEF t
<1>3. Len(list) \in Nat /\ 1 + Len(list) = Len(list) + 1 /\ DOMAIN list = 1..Len(list)
      /\ \A i \in 1..Len(list) : 1 + i = i + 1
  OBVIOUS
<1>4. DOMAIN t = 1..Len(list) + 1 /\ \A i \in 1..Len(list) : t[i + 1] = list[i]
  BY <1>1, <1>2, <1>3
<1>5. 1 \in 1..Len(su) /\ t[1] = u
  BY <1>1, <1>2
<1>6. ToSet(t) = {u} \cup ToSet(list)
  <2>1. ASSUME NEW i \in DOMAIN t PROVE t[i] = u \/ \E j \in DOMAIN list : t[i] = list[j]
    <3>1. CASE i = 1
      BY <1>5, <3>1
    <3>2. CASE i # 1
      <4>1. i - 1 \in 1..Len(list) /\ (i - 1) + 1 = i
        BY <1>3, <1>4, <3>2
      <4> QED BY <1>3, <1>4, <4>1
    <3> QED BY <3>1, <3>2
  <2>2. ASSUME NEW j \in DOMAIN list PROVE \E i \in DOMAIN t : t[i] = list[j]
    <3>1. j \in 1..Len(list) /\ j + 1 \in DOMAIN t
      BY <1>3, <1>4
    <3> QED BY <1>4, <3>1
  <2>3. 1 \in DOMAIN t
    BY <1>3, <1>4
  <2> QED BY <1>5, <2>1, <2>2, <2>3 DEF ToSet
<1> QED BY <1>2, <1>4, <1>5, <1>6 DEF t, su

(* A new application: it gets its routes, and the others keep theirs. *)
LEMMA AddAgrees ==
  ASSUME NEW C \in SUBSET Apps, NEW rt, Agree(rt, C), NEW c \in Apps, \A e \in C : e.name # c.name
  PROVE  Agree(wr_req_resolver_add(rt, c), C \cup {c})
<1> DEFINE new == wr_req_resolver_add(rt, c)
           D == C \cup {c}
<1>1. rt \in Routes
  BY DEF Agree
<1>2. /\ new \in Routes
      /\ new.uris = IF c.uri \in {NoUri, Root} THEN rt.uris ELSE <<UriClaim(c)>> \o rt.uris
      /\ new.hosts = WithHosts(rt.hosts, c)
      /\ new.dflt = IF c.uri = Root THEN c.name ELSE rt.dflt
  BY <1>1, AddIs
<1>3. rt.uris \in Seq(UriClaims) /\ rt.hosts \in Seq(HostClaims) /\ Sorted(rt.hosts)
  BY <1>1 DEF Routes
<1> HIDE DEF new
<1>4. ToSet(new.hosts) = UNION {Claims(e) : e \in D}
  <2>1. ToSet(new.hosts) = ToSet(rt.hosts) \cup Claims(c)
    BY <1>2, <1>3, HostsKeep
  <2>2. ToSet(rt.hosts) = UNION {Claims(e) : e \in C}
    BY DEF Agree
  <2> QED BY <2>1, <2>2
<1>5. ToSet(rt.uris) = {UriClaim(e) : e \in HasUri(C)} /\ IsInjective(rt.uris)
  BY DEF Agree
<1>6. ToSet(new.uris) = {UriClaim(e) : e \in HasUri(D)} /\ IsInjective(new.uris)
  <2>1. CASE c.uri \in {NoUri, Root}
    <3>1. HasUri(D) = HasUri(C) /\ new.uris = rt.uris
      BY <1>2, <2>1 DEF HasUri
    <3> QED BY <1>5, <3>1
  <2>2. CASE c.uri \notin {NoUri, Root}
    <3>1. HasUri(D) = HasUri(C) \cup {c}
      BY <2>2 DEF HasUri
    <3> DEFINE u == UriClaim(c)
               ru == rt.uris
    <3>2. u \in UriClaims /\ ru \in Seq(UriClaims) /\ new.uris = <<u>> \o ru
      BY <1>2, <1>3, <2>2 DEF UriClaims
    <3>3. ToSet(ru) = {UriClaim(e) : e \in HasUri(C)} /\ IsInjective(ru)
      BY <1>5
    <3>4. u \notin ToSet(ru)
      <4>1. \A e \in HasUri(C) : e \in C /\ UriClaim(e).app # u.app
        BY DEF UriClaim, HasUri
      <4> QED BY <3>3, <4>1
    <3>5. {UriClaim(e) : e \in HasUri(D)} = {u} \cup {UriClaim(e) : e \in HasUri(C)}
      BY <3>1
    <3> HIDE DEF u, ru
    <3>6. /\ DOMAIN new.uris = 1..Len(ru) + 1 /\ Len(ru) \in Nat /\ DOMAIN ru = 1..Len(ru)
          /\ new.uris[1] = u /\ \A i \in 1..Len(ru) : new.uris[i + 1] = ru[i]
          /\ ToSet(new.uris) = {u} \cup ToSet(ru)
      BY <3>2, ConsSpec
    <3>7. ASSUME NEW i \in DOMAIN new.uris, NEW j \in DOMAIN new.uris, new.uris[i] = new.uris[j], i # 1
          PROVE  i = j
      <4>1. i - 1 \in 1..Len(ru) /\ (i - 1) + 1 = i /\ i \in Nat /\ j \in Nat
        BY <3>6, <3>7
      <4>2. new.uris[i] = ru[i - 1]
        BY <3>6, <4>1
      <4>3. new.uris[i] \in ToSet(ru)
        BY <3>6, <4>1, <4>2 DEF ToSet
      <4>4. j # 1
        BY <3>4, <3>6, <3>7, <4>3
      <4>5. j - 1 \in 1..Len(ru) /\ (j - 1) + 1 = j
        BY <3>6, <4>4
      <4>6. new.uris[j] = ru[j - 1]
        BY <3>6, <4>5
      <4>7. i - 1 = j - 1
        BY <3>3, <3>6, <3>7, <4>1, <4>2, <4>5, <4>6 DEF IsInjective
      <4> QED BY <4>1, <4>7
    <3>8. IsInjective(new.uris)
      BY <3>7 DEF IsInjective
    <3> QED BY <3>3, <3>5, <3>6, <3>8
  <2> QED BY <2>1, <2>2
<1>7. new.dflt # Nobody => \E e \in D : e.name = new.dflt /\ e.uri = Root
  <2>1. rt.dflt # Nobody => \E e \in C : e.name = rt.dflt /\ e.uri = Root
    BY DEF Agree
  <2> QED BY <1>2, <2>1
<1> QED BY <1>2, <1>4, <1>6, <1>7 DEF Agree, new

(* NotOf drops the claims of one application, and no other. *)
LEMMA NotOfSpec ==
  ASSUME NEW S, NEW list \in Seq(S), NEW n
  PROVE  /\ NotOf(list, n) \in Seq(S) /\ ToSet(NotOf(list, n)) = {x \in ToSet(list) : x.app # n}
         /\ IsInjective(list) => IsInjective(NotOf(list, n))
<1> DEFINE I == {i \in DOMAIN list : list[i].app # n}
           s == NotOf(list, n)
<1>1. I \subseteq DOMAIN list /\ s = Kept(list, I)
  BY DEF NotOf
<1>2. /\ s \in Seq(S) /\ ToSet(s) = {list[p] : p \in I}
      /\ \A i, j \in DOMAIN s : i < j => \E p, q \in I : p < q /\ s[i] = list[p] /\ s[j] = list[q]
  <2> HIDE DEF I, s
  <2> QED BY <1>1, KeptElements
<1>3. {list[p] : p \in I} = {x \in ToSet(list) : x.app # n}
  BY DEF ToSet
<1>4. \A p \in I : p \in DOMAIN list
  OBVIOUS
<1> HIDE DEF I, s
<1>5. ASSUME IsInjective(list) PROVE IsInjective(s)
  <2>1. ASSUME NEW i \in DOMAIN s, NEW j \in DOMAIN s, s[i] = s[j] PROVE ~(i < j)
    <3> SUFFICES ASSUME i < j PROVE FALSE
      OBVIOUS
    <3>1. PICK p \in I, q \in I : p < q /\ s[i] = list[p] /\ s[j] = list[q]
      BY <1>2
    <3>2. p = q
      BY <1>4, <1>5, <2>1, <3>1 DEF IsInjective
    <3>3. p \in Nat
      BY <1>4
    <3> QED BY <3>1, <3>2, <3>3
  <2>2. \A i, j \in DOMAIN s : i \in Nat /\ j \in Nat /\ (i < j \/ j < i \/ i = j)
    BY <1>2
  <2> QED BY <2>1, <2>2 DEF IsInjective
<1> QED BY <1>2, <1>3, <1>5 DEF s

LEMMA RemoveIs ==
  ASSUME NEW rt \in Routes, NEW n
  PROVE  LET new == wr_req_resolver_remove(rt, n)
         IN  /\ new \in Routes
             /\ new.uris = NotOf(rt.uris, n) /\ new.hosts = NotOf(rt.hosts, n)
             /\ new.dflt = IF rt.dflt = n THEN Nobody ELSE rt.dflt
<1> DEFINE us == NotOf(rt.uris, n)
           hs == NotOf(rt.hosts, n)
           ds == IF rt.dflt = n THEN Nobody ELSE rt.dflt
           new == wr_req_resolver_remove(rt, n)
<1>1. rt.uris \in Seq(UriClaims) /\ rt.hosts \in Seq(HostClaims) /\ rt.dflt \in Names \cup {Nobody} /\ Sorted(rt.hosts)
  BY DEF Routes
<1>2. us \in Seq(UriClaims) /\ hs \in Seq(HostClaims)
  BY <1>1, NotOfSpec
<1>3. Sorted(hs)
  <2> DEFINE l == rt.hosts
             I == {i \in DOMAIN l : l[i].app # n}
  <2>1. l \in Seq(HostClaims) /\ I \subseteq DOMAIN l /\ hs = Kept(l, I)
    BY <1>1 DEF NotOf
  <2> HIDE DEF hs
  <2>2. \A i, j \in DOMAIN hs : i < j => \E p, q \in I : p < q /\ hs[i] = l[p] /\ hs[j] = l[q]
    <3> HIDE DEF I, l
    <3> QED BY <2>1, KeptElements
  <2>3. \A p, q \in I : p < q => l[p].host.type <= l[q].host.type
    BY <1>1 DEF Sorted
  <2> HIDE DEF I, l
  <2> QED BY <2>2, <2>3 DEF Sorted
<1>4. ds \in Names \cup {Nobody}
  BY <1>1
<1>5. new = [uris |-> us, hosts |-> hs, dflt |-> ds]
  BY DEF wr_req_resolver_remove
<1> HIDE DEF us, hs, ds, new
<1>6. new \in Routes /\ new.uris = us /\ new.hosts = hs /\ new.dflt = ds
  BY <1>2, <1>3, <1>4, <1>5 DEF Routes
<1> QED BY <1>6 DEF us, hs, ds, new

(* An application goes with all its routes, and the others keep theirs. *)
LEMMA RemoveAgrees ==
  ASSUME NEW C \in SUBSET Apps, NEW rt, Agree(rt, C), NEW n
  PROVE  Agree(wr_req_resolver_remove(rt, n), {c \in C : c.name # n})
<1> DEFINE new == wr_req_resolver_remove(rt, n)
           D == {c \in C : c.name # n}
<1>1. rt \in Routes
  BY DEF Agree
<1>2. /\ new \in Routes /\ new.uris = NotOf(rt.uris, n) /\ new.hosts = NotOf(rt.hosts, n)
      /\ new.dflt = IF rt.dflt = n THEN Nobody ELSE rt.dflt
  BY <1>1, RemoveIs
<1>3. rt.uris \in Seq(UriClaims) /\ rt.hosts \in Seq(HostClaims)
  BY <1>1 DEF Routes
<1> HIDE DEF new
<1>4. ToSet(new.hosts) = UNION {Claims(e) : e \in D}
  <2>1. ToSet(new.hosts) = {x \in ToSet(rt.hosts) : x.app # n}
    BY <1>2, <1>3, NotOfSpec
  <2>2. ToSet(rt.hosts) = UNION {Claims(e) : e \in C}
    BY DEF Agree
  <2>3. \A e \in C : \A x \in Claims(e) : x.app = e.name
    BY DEF Claims
  <2> QED BY <2>1, <2>2, <2>3
<1>5. ToSet(new.uris) = {UriClaim(e) : e \in HasUri(D)} /\ IsInjective(new.uris)
  <2>1. ToSet(new.uris) = {x \in ToSet(rt.uris) : x.app # n} /\ (IsInjective(rt.uris) => IsInjective(new.uris))
    BY <1>2, <1>3, NotOfSpec
  <2>2. ToSet(rt.uris) = {UriClaim(e) : e \in HasUri(C)} /\ IsInjective(rt.uris)
    BY DEF Agree
  <2>3. \A e \in HasUri(C) : UriClaim(e).app = e.name
    BY DEF UriClaim
  <2>4. HasUri(D) = {e \in HasUri(C) : e.name # n}
    BY DEF HasUri
  <2>5. ToSet(new.uris) = {x \in {UriClaim(e) : e \in HasUri(C)} : x.app # n} /\ IsInjective(new.uris)
    BY <2>1, <2>2
  <2>6. ASSUME NEW H, \A e \in H : UriClaim(e).app = e.name
        PROVE  {x \in {UriClaim(e) : e \in H} : x.app # n} = {UriClaim(e) : e \in {c \in H : c.name # n}}
    <3>1. \A x : x \in {UriClaim(e) : e \in H} /\ x.app # n => \E e \in H : e.name # n /\ x = UriClaim(e)
      BY <2>6
    <3>2. \A e \in H : e.name # n => UriClaim(e).app # n
      BY <2>6
    <3> QED BY <3>1, <3>2
  <2>7. {x \in {UriClaim(e) : e \in HasUri(C)} : x.app # n} = {UriClaim(e) : e \in {c \in HasUri(C) : c.name # n}}
    BY <2>3, <2>6
  <2> QED BY <2>4, <2>5, <2>7
<1>6. new.dflt # Nobody => \E e \in D : e.name = new.dflt /\ e.uri = Root
  <2>1. rt.dflt # Nobody => \E e \in C : e.name = rt.dflt /\ e.uri = Root
    BY DEF Agree
  <2> QED BY <1>2, <2>1
<1> QED BY <1>2, <1>4, <1>5, <1>6 DEF Agree, new

-----------------------------------------------------------------------------
(* Where a request goes. *)

UrisOf(p) == {x \in UriClaims : x.hash = uri_hash(p)}
HostsOf(h) == {x \in HostClaims : Matches(x.host, h)}

LEMMA ResolveIs ==
  ASSUME NEW rt \in Routes, NEW p, NEW h
  PROVE  /\ wr_req_resolve_http_req(rt, p, h) = First(rt.uris, UrisOf(p), First(rt.hosts, HostsOf(h), rt.dflt))
         /\ ByUri(rt, p) = 0 <=> \A i \in DOMAIN rt.uris : rt.uris[i] \notin UrisOf(p)
<1> DEFINE us == rt.uris
           hs == rt.hosts
           I == {i \in 1..Len(us) : us[i].hash = uri_hash(p)}
           J == {i \in 1..Len(hs) : Matches(hs[i].host, h)}
           d == IF J # {} THEN hs[Min(J)].app ELSE rt.dflt
<1>1. us \in Seq(UriClaims) /\ hs \in Seq(HostClaims)
  BY DEF Routes
<1>2. DOMAIN us = 1..Len(us) /\ DOMAIN hs = 1..Len(hs)
      /\ (\A i \in 1..Len(us) : us[i] \in UriClaims) /\ \A i \in 1..Len(hs) : hs[i] \in HostClaims
  BY <1>1
<1>3. I = {i \in DOMAIN us : us[i] \in UrisOf(p)}
  BY <1>2 DEF UrisOf
<1>4. J = {i \in DOMAIN hs : hs[i] \in HostsOf(h)}
  BY <1>2 DEF HostsOf
<1>5. ByUri(rt, p) = IF I # {} THEN Min(I) ELSE 0
  BY DEF ByUri, SelectInSeq
<1>6. ByHost(rt, h) = IF J # {} THEN Min(J) ELSE 0
  BY DEF ByHost, SelectInSeq
<1>7. (I # {} => Min(I) # 0) /\ (J # {} => Min(J) # 0)
  <2>1. I \subseteq Nat /\ J \subseteq Nat /\ 0 \notin I /\ 0 \notin J
    OBVIOUS
  <2> HIDE DEF I, J
  <2>2. (I # {} => Min(I) \in I) /\ (J # {} => Min(J) \in J)
    BY <2>1, MinIsIn
  <2> QED BY <2>1, <2>2
<1>8. First(hs, HostsOf(h), rt.dflt) = d
  <2> HIDE DEF J
  <2> QED BY <1>4 DEF First
<1>9. First(us, UrisOf(p), d) = IF I # {} THEN us[Min(I)].app ELSE d
  <2> HIDE DEF I, d
  <2> QED BY <1>3 DEF First
<1>10. wr_req_resolve_http_req(rt, p, h) = IF I # {} THEN us[Min(I)].app ELSE d
  <2> HIDE DEF I, J
  <2> QED BY <1>5, <1>6, <1>7 DEF wr_req_resolve_http_req
<1>11. ByUri(rt, p) = 0 <=> I = {}
  <2> HIDE DEF I
  <2> QED BY <1>5, <1>7
<1>12. I = {} <=> \A i \in DOMAIN us : us[i] \notin UrisOf(p)
  <2> HIDE DEF I, us
  <2> QED BY <1>3
<1> HIDE DEF I, d
<1> QED BY <1>8, <1>9, <1>10, <1>11, <1>12

LEMMA FirstDefault ==
  ASSUME NEW list, NEW M, NEW d1, NEW d2
  PROVE  \/ First(list, M, d2) = First(list, M, d1)
         \/ First(list, M, d2) = d2 /\ First(list, M, d1) = d1
BY DEF First

LEMMA ConsFirst ==
  ASSUME NEW S, NEW u \in S, NEW list \in Seq(S), NEW M, NEW d
  PROVE  First(<<u>> \o list, M, d) \in {First(list, M, d), u.app}
<1> DEFINE t == <<u>> \o list
<1>1. /\ t \in Seq(S) /\ DOMAIN t = 1..Len(list) + 1
      /\ t[1] = u /\ \A i \in 1..Len(list) : t[i + 1] = list[i]
  BY ConsSpec
<1>2. Len(list) \in Nat /\ DOMAIN list = 1..Len(list)
  OBVIOUS
<1> HIDE DEF t
<1>3. ASSUME First(t, M, d) = d, \A i \in DOMAIN t : t[i] \notin M
      PROVE  First(t, M, d) \in {First(list, M, d), u.app}
  <2>1. ASSUME NEW i \in DOMAIN list PROVE list[i] \notin M
    <3>1. i \in 1..Len(list) /\ i + 1 \in DOMAIN t
      BY <1>1, <1>2
    <3> QED BY <1>1, <1>3, <3>1
  <2>2. First(list, M, d) = d
    BY <2>1, FirstNone
  <2> QED BY <1>3, <2>2
<1>4. ASSUME NEW k \in DOMAIN t, First(t, M, d) = t[k].app, t[k] \in M,
             \A i \in DOMAIN t : i < k => t[i] \notin M
      PROVE  First(t, M, d) \in {First(list, M, d), u.app}
  <2>1. CASE k = 1
    BY <1>1, <1>4, <2>1
  <2>2. CASE k # 1
    <3>1. k - 1 \in 1..Len(list) /\ (k - 1) + 1 = k /\ k \in Nat
      BY <1>1, <1>2, <2>2
    <3>2. t[k] = list[k - 1]
      BY <1>1, <3>1
    <3>3. ASSUME NEW i \in DOMAIN list, i < k - 1 PROVE list[i] \notin M
      <4>1. i \in 1..Len(list) /\ i + 1 \in DOMAIN t /\ i + 1 < k
        BY <1>1, <1>2, <3>1, <3>3
      <4> QED BY <1>1, <1>4, <4>1
    <3>4. First(list, M, d) = list[k - 1].app
      BY <1>2, <1>4, <3>1, <3>2, <3>3, FirstIs
    <3> QED BY <1>4, <3>2, <3>4
  <2> QED BY <2>1, <2>2
<1>5. First(t, M, d) \in {First(list, M, d), u.app}
  <2>1. \/ First(t, M, d) = d /\ \A i \in DOMAIN t : t[i] \notin M
        \/ \E k \in DOMAIN t : /\ First(t, M, d) = t[k].app /\ t[k] \in M
                               /\ \A i \in DOMAIN t : i < k => t[i] \notin M
    BY <1>1, FirstSpec
  <2> QED BY <1>3, <1>4, <2>1
<1> QED BY <1>5 DEF t

LEMMA KeptFirst ==
  ASSUME NEW S, NEW list \in Seq(S), NEW I, I \subseteq DOMAIN list, NEW M, NEW d, NEW k \in I, list[k] \in M,
         \A i \in DOMAIN list : i < k => list[i] \notin M
  PROVE  First(Kept(list, I), M, d) = list[k].app
<1> DEFINE s == Kept(list, I)
<1>1. PICK m, f : Picks(m, f, S, list, I, s)
  BY KeptSpec
<1> HIDE DEF s
<1>2. /\ m \in Nat /\ f \in [1..m -> I]
      /\ \A i, j \in 1..m : i < j => f[i] < f[j]
      /\ \A p \in I : \E i \in 1..m : f[i] = p
      /\ s \in Seq(S) /\ Len(s) = m /\ DOMAIN s = 1..m
      /\ \A i \in 1..m : s[i] = list[f[i]]
  BY <1>1 DEF Picks
<1>3. PICK j \in 1..m : f[j] = k
  BY <1>2
<1>4. s \in Seq(S) /\ j \in DOMAIN s /\ s[j] = list[k]
  BY <1>2, <1>3
<1>5. ASSUME NEW i \in DOMAIN s, i < j PROVE s[i] \notin M
  <2>1. i \in 1..m /\ f[i] < k /\ f[i] \in DOMAIN list /\ s[i] = list[f[i]]
    BY <1>2, <1>3, <1>5
  <2> QED BY <2>1
<1>6. First(s, M, d) = s[j].app
  BY <1>4, <1>5, FirstIs
<1> QED BY <1>4, <1>6 DEF s

LEMMA NotOfFirst ==
  ASSUME NEW S, NEW list \in Seq(S), NEW M, NEW d1, NEW d2, NEW n,
         First(list, M, d1) # n, d1 # n => d2 = d1
  PROVE  First(NotOf(list, n), M, d2) = First(list, M, d1)
<1> DEFINE I == {i \in DOMAIN list : list[i].app # n}
           s == NotOf(list, n)
<1>1. I \subseteq DOMAIN list /\ s = Kept(list, I)
  BY DEF NotOf
<1>2. CASE First(list, M, d1) = d1 /\ \A i \in DOMAIN list : list[i] \notin M
  <2>1. s \in Seq(S) /\ ToSet(s) \subseteq ToSet(list)
    BY NotOfSpec
  <2> HIDE DEF s
  <2>2. \A i \in DOMAIN s : s[i] \notin M
    BY <1>2, <2>1 DEF ToSet
  <2>3. First(s, M, d2) = d2
    BY <2>1, <2>2, FirstNone
  <2> QED BY <1>2, <2>3 DEF s
<1>3. ASSUME NEW k \in DOMAIN list, First(list, M, d1) = list[k].app, list[k] \in M,
             \A i \in DOMAIN list : i < k => list[i] \notin M
      PROVE  First(NotOf(list, n), M, d2) = First(list, M, d1)
  <2>1. k \in I
    BY <1>3
  <2> HIDE DEF I, s
  <2>2. First(Kept(list, I), M, d2) = list[k].app
    BY <1>1, <1>3, <2>1, KeptFirst
  <2> QED BY <1>1, <1>3, <2>2 DEF s
<1> HIDE DEF I, s
<1> QED BY <1>2, <1>3, FirstSpec

(* A new application takes requests, but none is moved to another one. *)
LEMMA AddMoves ==
  ASSUME NEW rt \in Routes, NEW c \in Apps, NEW p, NEW h
  PROVE  wr_req_resolve_http_req(wr_req_resolver_add(rt, c), p, h) \in {wr_req_resolve_http_req(rt, p, h), c.name}
<1> DEFINE new == wr_req_resolver_add(rt, c)
           U == UrisOf(p)
           H == HostsOf(h)
           A == First(rt.hosts, H, rt.dflt)
           B == First(new.hosts, H, new.dflt)
<1>1. /\ new \in Routes
      /\ new.uris = IF c.uri \in {NoUri, Root} THEN rt.uris ELSE <<UriClaim(c)>> \o rt.uris
      /\ new.hosts = WithHosts(rt.hosts, c)
      /\ new.dflt = IF c.uri = Root THEN c.name ELSE rt.dflt
  BY AddIs
<1>2. rt.uris \in Seq(UriClaims) /\ rt.hosts \in Seq(HostClaims) /\ Sorted(rt.hosts)
  BY DEF Routes
<1> HIDE DEF new, U, H
<1>3. B \in {A, c.name}
  <2>1. First(new.hosts, H, new.dflt) \in {First(rt.hosts, H, new.dflt), c.name}
    <3>1. \A x : First(WithHosts(rt.hosts, c), H, x) \in {First(rt.hosts, H, x), c.name}
      BY <1>2, HostsKeep
    <3> QED BY <1>1, <3>1
  <2>2. \/ First(rt.hosts, H, new.dflt) = A
        \/ First(rt.hosts, H, new.dflt) = new.dflt /\ A = rt.dflt
    BY FirstDefault
  <2> QED BY <1>1, <2>1, <2>2
<1>4. wr_req_resolve_http_req(rt, p, h) = First(rt.uris, U, A) /\ wr_req_resolve_http_req(new, p, h) = First(new.uris, U, B)
  BY <1>1, ResolveIs DEF U, H
<1> HIDE DEF A, B
<1>5. First(rt.uris, U, B) = First(rt.uris, U, A) \/ (First(rt.uris, U, B) = B /\ First(rt.uris, U, A) = A)
  BY FirstDefault
<1>6. First(new.uris, U, B) \in {First(rt.uris, U, B), c.name}
  <2>1. CASE c.uri \in {NoUri, Root}
    BY <1>1, <2>1
  <2>2. CASE c.uri \notin {NoUri, Root}
    <3> DEFINE u == UriClaim(c)
               ru == rt.uris
    <3>1. u \in UriClaims /\ ru \in Seq(UriClaims) /\ new.uris = <<u>> \o ru /\ u.app = c.name
      BY <1>1, <1>2, <2>2 DEF UriClaims, UriClaim
    <3> HIDE DEF u, ru
    <3>2. First(<<u>> \o ru, U, B) \in {First(ru, U, B), u.app}
      BY <3>1, ConsFirst
    <3> QED BY <3>1, <3>2 DEF ru
  <2> QED BY <2>1, <2>2
<1>7. First(new.uris, U, B) \in {First(rt.uris, U, A), c.name}
  BY <1>3, <1>5, <1>6
<1> QED BY <1>4, <1>7 DEF new

(* Removing one moves only the requests it had. *)
LEMMA RemoveMoves ==
  ASSUME NEW rt \in Routes, NEW n, NEW p, NEW h, wr_req_resolve_http_req(rt, p, h) # n
  PROVE  wr_req_resolve_http_req(wr_req_resolver_remove(rt, n), p, h) = wr_req_resolve_http_req(rt, p, h)
<1> DEFINE new == wr_req_resolver_remove(rt, n)
           U == UrisOf(p)
           H == HostsOf(h)
           A == First(rt.hosts, H, rt.dflt)
           B == First(new.hosts, H, new.dflt)
<1>1. /\ new \in Routes /\ new.uris = NotOf(rt.uris, n) /\ new.hosts = NotOf(rt.hosts, n)
      /\ new.dflt = IF rt.dflt = n THEN Nobody ELSE rt.dflt
  BY RemoveIs
<1>2. rt.uris \in Seq(UriClaims) /\ rt.hosts \in Seq(HostClaims)
  BY DEF Routes
<1> HIDE DEF new, U, H
<1>3. wr_req_resolve_http_req(rt, p, h) = First(rt.uris, U, A) /\ wr_req_resolve_http_req(new, p, h) = First(new.uris, U, B)
  BY <1>1, ResolveIs DEF U, H
<1>4. A # n => B = A
  <2>1. rt.dflt # n => new.dflt = rt.dflt
    BY <1>1
  <2>2. ASSUME A # n PROVE First(NotOf(rt.hosts, n), H, new.dflt) = A
    BY <1>2, <2>1, <2>2, NotOfFirst
  <2> QED BY <1>1, <2>2
<1> HIDE DEF A, B
<1>5. First(rt.uris, U, A) # n
  BY <1>3
<1>6. First(NotOf(rt.uris, n), U, B) = First(rt.uris, U, A)
  BY <1>2, <1>4, <1>5, NotOfFirst
<1> QED BY <1>1, <1>3, <1>6 DEF new

-----------------------------------------------------------------------------
(* Lists of applications with distinct names. *)

Distinct(list) == \A i, j \in DOMAIN list : i # j => list[i].name # list[j].name

LEMMA KeptDistinct ==
  ASSUME NEW S, NEW list \in Seq(S), Distinct(list), NEW I, I \subseteq DOMAIN list
  PROVE  Kept(list, I) \in Seq(S) /\ Distinct(Kept(list, I)) /\ ToSet(Kept(list, I)) \subseteq ToSet(list)
<1> DEFINE s == Kept(list, I)
<1>1. /\ s \in Seq(S) /\ ToSet(s) = {list[p] : p \in I}
      /\ \A i, j \in DOMAIN s : i < j => \E p, q \in I : p < q /\ s[i] = list[p] /\ s[j] = list[q]
  BY KeptElements
<1> HIDE DEF s
<1>2. \A p \in I : p \in DOMAIN list /\ p \in Nat
  OBVIOUS
<1>3. ASSUME NEW i \in DOMAIN s, NEW j \in DOMAIN s, i < j PROVE s[i].name # s[j].name
  <2>1. PICK p \in I, q \in I : p < q /\ s[i] = list[p] /\ s[j] = list[q]
    BY <1>1, <1>3
  <2>2. p # q
    BY <1>2, <2>1
  <2> QED BY <1>2, <2>1, <2>2 DEF Distinct
<1>4. \A i, j \in DOMAIN s : i # j => i < j \/ j < i
  BY <1>1
<1>5. Distinct(s)
  BY <1>3, <1>4 DEF Distinct
<1>6. ToSet(s) \subseteq ToSet(list)
  BY <1>1, <1>2 DEF ToSet
<1> QED BY <1>1, <1>5, <1>6 DEF s

(* wr_conf_read drops entries, and does nothing else to them. *)
LEMMA ReadList ==
  ASSUME NEW f \in Seq(Entries), Distinct(f)
  PROVE  wr_conf_read(f) \in Seq(Entries) /\ Distinct(wr_conf_read(f)) /\ ToSet(wr_conf_read(f)) \subseteq ToSet(f)
<1> DEFINE a == wr_iterate_app_node(f)
           b == wr_remove_app_with_dup_baseuri(a)
           c == wr_remove_app_with_dup_host(b)
<1>1. a \in Seq(Entries) /\ Distinct(a) /\ ToSet(a) \subseteq ToSet(f)
  <2> DEFINE I == {i \in DOMAIN f : wr_config_application_set(f[i])}
  <2>1. a = Kept(f, I) /\ I \subseteq DOMAIN f
    BY DEF wr_iterate_app_node
  <2> HIDE DEF I, a
  <2> QED BY <2>1, KeptDistinct
<1> HIDE DEF a
<1>2. b \in Seq(Entries) /\ Distinct(b) /\ ToSet(b) \subseteq ToSet(a)
  <2> DEFINE I == {i \in DOMAIN a :
                \/ a[i].uri = NoUri
                \/ /\ a[i].uri # AdminPanel.uri
                   /\ \A j \in 1..(i - 1) : a[j].uri # a[i].uri}
  <2>1. b = Kept(a, I) /\ I \subseteq DOMAIN a
    BY DEF wr_remove_app_with_dup_baseuri
  <2> HIDE DEF I, b
  <2> QED BY <1>1, <2>1, KeptDistinct
<1> HIDE DEF b
<1>3. c \in Seq(Entries) /\ Distinct(c) /\ ToSet(c) \subseteq ToSet(b)
  <2>1. \E G : c = Kept(b, DOMAIN b \ G)
    BY Zenon DEF wr_remove_app_with_dup_host
  <2> HIDE DEF c
  <2>2. PICK G : c = Kept(b, DOMAIN b \ G)
    BY <2>1
  <2> DEFINE I == DOMAIN b \ G
  <2>3. c = Kept(b, I) /\ I \subseteq DOMAIN b
    BY <2>2
  <2> HIDE DEF I
  <2> QED BY <1>2, <2>3, KeptDistinct
<1>4. wr_conf_read(f) = c
  BY DEF wr_conf_read, a, b
<1> HIDE DEF c
<1> QED BY <1>1, <1>2, <1>3, <1>4

LEMMA ListedIs ==
  ASSUME NEW f \in Seq(Entries), Distinct(f), NEW panel \in BOOLEAN
  PROVE  /\ Listed(f, panel) \in Seq(Apps) /\ Distinct(Listed(f, panel))
         /\ ToSet(Listed(f, panel)) \subseteq ToSet(f) \cup {AdminPanel}
<1> DEFINE l == wr_conf_read(f)
           t == Listed(f, panel)
<1>1. l \in Seq(Entries) /\ Distinct(l) /\ ToSet(l) \subseteq ToSet(f)
  BY ReadList
<1> HIDE DEF l
<1>2. l \in Seq(Apps) /\ \A i \in DOMAIN l : l[i] \in Entries
  BY <1>1 DEF Apps
<1>3. CASE ~panel
  <2>1. t = <<>> \o l
    BY <1>3 DEF Listed, l
  <2>2. t = l
    BY <1>2, <2>1
  <2> QED BY <1>1, <1>2, <2>2
<1>4. CASE panel
  <2>1. t = <<AdminPanel>> \o l
    BY <1>4 DEF Listed, l
  <2>2. AdminPanel \in Apps
    BY DEF Apps
  <2> HIDE DEF t
  <2>3. /\ t \in Seq(Apps) /\ DOMAIN t = 1..Len(l) + 1
        /\ t[1] = AdminPanel /\ \A i \in 1..Len(l) : t[i + 1] = l[i]
        /\ ToSet(t) = {AdminPanel} \cup ToSet(l)
    BY <1>2, <2>1, <2>2, ConsSpec
  <2>4. \A i \in 1..Len(l) : l[i].name # AdminPanel.name
    BY <1>2, EntriesAssumption
  <2>5. \A i \in DOMAIN t : i = 1 \/ (i - 1 \in 1..Len(l) /\ (i - 1) + 1 = i /\ i \in Nat)
    BY <1>2, <2>3
  <2>6. \A i \in DOMAIN t : i = 1 \/ (i - 1 \in DOMAIN l /\ t[i] = l[i - 1] /\ i \in Nat)
    BY <1>2, <2>3, <2>5
  <2>7. ASSUME NEW i \in DOMAIN t, NEW j \in DOMAIN t, i # j PROVE t[i].name # t[j].name
    <3>1. CASE i = 1
      BY <1>2, <2>3, <2>4, <2>6, <2>7, <3>1
    <3>2. CASE j = 1
      BY <1>2, <2>3, <2>4, <2>6, <2>7, <3>2
    <3>3. CASE i # 1 /\ j # 1
      <4>1. i - 1 # j - 1
        BY <2>6, <2>7, <3>3
      <4> QED BY <1>1, <2>6, <3>3, <4>1 DEF Distinct
    <3> QED BY <3>1, <3>2, <3>3
  <2>8. Distinct(t)
    BY <2>7 DEF Distinct
  <2> QED BY <1>1, <2>3, <2>8 DEF t
<1> QED BY <1>3, <1>4

(* The routes of a start, application by application. *)
LEMMA RoutesRun ==
  ASSUME NEW list \in Seq(Apps)
  PROVE  \E r \in [0..Len(list) -> Routes] :
           /\ r[0] = NoRoute /\ r[Len(list)] = FoldLeft(wr_req_resolver_add, NoRoute, list)
           /\ \A k \in 1..Len(list) : r[k] = wr_req_resolver_add(r[k - 1], list[k])
<1> DEFINE n == Len(list)
           st == [z \in (1..n) \X Routes |-> wr_req_resolver_add(z[2], list[z[1]])]
           Eq(g) == g = [s \in SUBSET DOMAIN list |->
                           IF s = {} THEN NoRoute ELSE wr_req_resolver_add(g[s \ {Max(s)}], list[Max(s)])]
           F == CHOOSE g : Eq(g)
           sum == FoldLeft(wr_req_resolver_add, NoRoute, list)
<1>1. n \in Nat /\ DOMAIN list = 1..n /\ \A k \in 1..n : list[k] \in Apps
  OBVIOUS
<1>2. sum = F[DOMAIN list]
  BY DEF FoldLeft, MapThenFoldSet
<1> HIDE DEF n, sum
<1>3. NoRoute \in Routes
  <2>1. <<>> \in Seq(UriClaims) /\ <<>> \in Seq(HostClaims) /\ Sorted(<<>>)
    BY DEF Sorted
  <2> QED BY <2>1 DEF NoRoute, Routes
<1>4. \A k \in 1..n : \A v \in Routes : wr_req_resolver_add(v, list[k]) \in Routes
  BY <1>1, AddIs
<1>5. IsStep(st, n, Routes)
  <2>1. ASSUME NEW z \in (1..n) \X Routes PROVE wr_req_resolver_add(z[2], list[z[1]]) \in Routes
    <3>1. z[1] \in 1..n /\ z[2] \in Routes
      OBVIOUS
    <3> QED BY <1>4, <3>1
  <2> QED BY <2>1 DEF IsStep
<1>6. \A k \in 1..n : \A v \in Routes : st[<<k, v>>] = wr_req_resolver_add(v, list[k])
  OBVIOUS
<1> HIDE DEF st
<1>7. \E g : Eq(g)
  <2>0. PICK g : Solves(g, n, Routes, NoRoute, st)
    BY <1>1, <1>3, <1>5, FoldExists
  <2>1. /\ g \in [SUBSET (1..n) -> Routes]
        /\ \A s \in SUBSET (1..n) : g[s] = IF s = {} THEN NoRoute ELSE st[<<Max(s), g[s \ {Max(s)}]>>]
    BY <2>0 DEF Solves
  <2>2. ASSUME NEW s \in SUBSET (1..n)
        PROVE  g[s] = IF s = {} THEN NoRoute ELSE wr_req_resolver_add(g[s \ {Max(s)}], list[Max(s)])
    <3>1. CASE s = {}
      BY <2>1, <3>1
    <3>2. CASE s # {}
      <4>1. Max(s) \in 1..n
        BY <1>1, <3>2, MaxIsGreatest
      <4>2. s \ {Max(s)} \in SUBSET (1..n)
        OBVIOUS
      <4>3. g[s \ {Max(s)}] \in Routes
        BY <2>1, <4>2
      <4> QED BY <1>6, <2>1, <3>2, <4>1, <4>3
    <3> QED BY <3>1, <3>2
  <2>3. g = [s \in SUBSET (1..n) |->
               IF s = {} THEN NoRoute ELSE wr_req_resolver_add(g[s \ {Max(s)}], list[Max(s)])]
    BY <2>1, <2>2
  <2>4. Eq(g)
    BY <1>1, <2>3
  <2> QED BY <2>4
<1>8. Eq(F)
  <2> HIDE DEF Eq
  <2> QED BY <1>7
<1> HIDE DEF F
<1>9. \A s \in SUBSET (1..n) :
        F[s] = IF s = {} THEN NoRoute ELSE wr_req_resolver_add(F[s \ {Max(s)}], list[Max(s)])
  BY <1>1, <1>8
<1> HIDE DEF Eq
<1>10. ASSUME NEW k \in 1..n, F[1..(k - 1)] \in Routes PROVE F[1..k] = st[<<k, F[1..(k - 1)]>>]
  <2>1. 1..k \in SUBSET (1..n) /\ 1..k # {} /\ Max(1..k) = k /\ (1..k) \ {k} = 1..(k - 1)
    BY <1>1, UpTo
  <2>2. F[1..k] = wr_req_resolver_add(F[1..(k - 1)], list[k])
    BY <1>9, <2>1
  <2> QED BY <1>6, <1>10, <2>2
<1>11. Begins(F, n, Routes, NoRoute, st)
  <2>1. F[{}] = NoRoute
    BY <1>9
  <2> QED BY <1>10, <2>1 DEF Begins
<1>12. PICK r : /\ r \in [0..n -> Routes] /\ r[0] = NoRoute /\ r[n] = F[1..n]
                /\ \A k \in 1..n : r[k] = st[<<k, r[k - 1]>>]
  <2>1. \E r : Runs(r, n, Routes, NoRoute, st) /\ r[n] = F[1..n]
    BY <1>1, <1>3, <1>5, <1>11, FoldRun
  <2> QED BY <2>1 DEF Runs
<1>13. ASSUME NEW k \in 1..n PROVE r[k] = wr_req_resolver_add(r[k - 1], list[k])
  <2>1. k - 1 \in 0..n
    BY <1>1
  <2> QED BY <1>6, <1>12, <2>1
<1>14. r[n] = sum
  BY <1>1, <1>2, <1>12
<1> QED BY <1>12, <1>13, <1>14 DEF n, sum

LEMMA StartAgrees ==
  ASSUME NEW list \in Seq(Apps), Distinct(list)
  PROVE  Agree(FoldLeft(wr_req_resolver_add, NoRoute, list), ToSet(list))
<1> DEFINE n == Len(list)
           C(k) == {list[i] : i \in 1..k}
           sum == FoldLeft(wr_req_resolver_add, NoRoute, list)
<1>1. n \in Nat /\ DOMAIN list = 1..n /\ (\A k \in 1..n : list[k] \in Apps) /\ n \in 0..n
  OBVIOUS
<1>2. PICK r \in [0..n -> Routes] : /\ r[0] = NoRoute /\ r[n] = sum
                                    /\ \A k \in 1..n : r[k] = wr_req_resolver_add(r[k - 1], list[k])
  BY RoutesRun
<1>3. ToSet(list) = C(n)
  BY <1>1 DEF ToSet
<1> HIDE DEF n, sum
<1> DEFINE T == {k \in 0..n : Agree(r[k], C(k))}
<1>4. 0 \in T
  <2>1. C(0) = {} /\ 0 \in 0..n
    BY <1>1
  <2>2. NoRoute \in Routes
    BY <1>2, <2>1
  <2>3. NoRoute.uris = <<>> /\ NoRoute.hosts = <<>> /\ NoRoute.dflt = Nobody
    BY DEF NoRoute
  <2>4. ToSet(<<>>) = {} /\ IsInjective(<<>>)
    BY DEF ToSet, IsInjective
  <2>5. Agree(NoRoute, {})
    BY <2>2, <2>3, <2>4 DEF Agree, HasUri
  <2> QED BY <1>2, <2>1, <2>5
<1>5. ASSUME NEW k \in 0..n - 1, k \in T PROVE k + 1 \in T
  <2>1. k + 1 \in 1..n /\ k \in 0..n /\ (k + 1) - 1 = k /\ k + 1 \in 0..n
    BY <1>1
  <2>2. r[k + 1] = wr_req_resolver_add(r[k], list[k + 1])
    BY <1>2, <2>1
  <2>3. C(k + 1) = C(k) \cup {list[k + 1]}
    <3>1. \A i : i \in 1..k + 1 <=> (i \in 1..k \/ i = k + 1)
      BY <2>1
    <3> QED BY <3>1
  <2>4. C(k) \in SUBSET Apps
    BY <1>1, <2>1
  <2>5. \A e \in C(k) : e.name # list[k + 1].name
    <3>1. \A i \in 1..k : i \in DOMAIN list /\ i # k + 1 /\ k + 1 \in DOMAIN list
      BY <1>1, <2>1
    <3> QED BY <3>1 DEF Distinct
  <2>6. Agree(r[k], C(k)) /\ list[k + 1] \in Apps
    BY <1>1, <1>5, <2>1
  <2> HIDE DEF C
  <2>7. Agree(wr_req_resolver_add(r[k], list[k + 1]), C(k) \cup {list[k + 1]})
    BY <2>4, <2>5, <2>6, AddAgrees
  <2> QED BY <2>1, <2>2, <2>3, <2>7
<1>6. n \in T
  <2> HIDE DEF T
  <2>1. \A k \in 0..n : k \in T
    BY <1>1, <1>4, <1>5, Induct
  <2> QED BY <1>1, <2>1
<1> QED BY <1>2, <1>3, <1>6 DEF sum

-----------------------------------------------------------------------------
(* The invariant of the head: config.yml names no application twice; the   *)
(* applications that run are those of the list, with their routes; one     *)
(* that reloads has its next configuration.                                *)

States == {"none", "new", "active", "restart"}
Answers == {"none", "wait", "ok", "error", "lost", "past"}
News == {<<>>} \cup {<<e>> : e \in Apps}

FileOK(f) == f \in Seq(Entries) /\ Distinct(f)
Sensible(n, a) ==
  IF a.state = "restart" THEN \E e \in Apps : a.new = <<e>> /\ e.name = n ELSE a.new = <<>>
AppsOK(ap, an) ==
  /\ ap \in [Names -> [state : States, new : News]] /\ an \in [Names -> Answers]
  /\ \A n \in Names : Sensible(n, ap[n])
NamesOf(C) == {c.name : c \in C}
RunningIn(ap) == {n \in Names : ap[n].state # "none"}
ListsOK(cf, ap, rt) ==
  /\ cf \in Seq(Apps) /\ Distinct(cf)
  /\ NamesOf(ToSet(cf)) = RunningIn(ap)
  /\ Agree(rt, ToSet(cf))
Shape == FileOK(file) /\ AppsOK(app, answer) /\ ListsOK(conf, app, route)

LEMMA AppsChange ==
  ASSUME NEW ap, NEW an, AppsOK(ap, an), NEW n \in Names, NEW a \in [state : States, new : News], NEW b \in Answers,
         Sensible(n, a)
  PROVE  AppsOK([ap EXCEPT ![n] = a], [an EXCEPT ![n] = b])
<1>1. /\ ap \in [Names -> [state : States, new : News]] /\ an \in [Names -> Answers]
      /\ \A m \in Names : Sensible(m, ap[m])
  BY DEF AppsOK
<1> DEFINE R == [state : States, new : News]
           aq == [ap EXCEPT ![n] = a]
           bq == [an EXCEPT ![n] = b]
<1>2. aq \in [Names -> R] /\ bq \in [Names -> Answers]
  <2> HIDE DEF R
  <2> QED BY <1>1 DEF R
<1>3. \A m \in Names : (m = n => aq[m] = a /\ bq[m] = b) /\ (m # n => aq[m] = ap[m] /\ bq[m] = an[m])
  BY <1>1
<1> HIDE DEF aq, bq
<1>4. \A m \in Names : Sensible(m, aq[m])
  BY <1>1, <1>3
<1> QED BY <1>2, <1>4 DEF AppsOK, aq, bq

(* Whether an application runs, when its state changes. *)
LEMMA RunningChange ==
  ASSUME NEW ap, NEW T, ap \in [Names -> T], NEW n \in Names, NEW a
  PROVE  RunningIn([ap EXCEPT ![n] = a]) =
           IF a.state = "none" THEN RunningIn(ap) \ {n} ELSE RunningIn(ap) \cup {n}
<1> DEFINE aq == [ap EXCEPT ![n] = a]
<1>1. \A m \in Names : (m = n => aq[m] = a) /\ (m # n => aq[m] = ap[m])
  OBVIOUS
<1> HIDE DEF aq
<1>2. RunningIn(aq) = IF a.state = "none" THEN RunningIn(ap) \ {n} ELSE RunningIn(ap) \cup {n}
  BY <1>1 DEF RunningIn
<1> QED BY <1>2 DEF aq

LEMMA ListsSame ==
  ASSUME NEW cf, NEW ap, NEW T, ap \in [Names -> T], NEW rt, ListsOK(cf, ap, rt), NEW n \in Names, NEW a,
         ap[n].state # "none", a.state # "none"
  PROVE  ListsOK(cf, [ap EXCEPT ![n] = a], rt)
<1>1. RunningIn([ap EXCEPT ![n] = a]) = RunningIn(ap) \cup {n}
  BY RunningChange
<1>2. n \in RunningIn(ap)
  BY DEF RunningIn
<1>3. RunningIn([ap EXCEPT ![n] = a]) = RunningIn(ap)
  BY <1>1, <1>2
<1> QED BY <1>3 DEF ListsOK

LEMMA ListsInsert ==
  ASSUME NEW cf, NEW ap, NEW T, ap \in [Names -> T], NEW rt, ListsOK(cf, ap, rt), NEW n \in Names, NEW a,
         ap[n].state = "none", a.state # "none", NEW e \in Apps, e.name = n
  PROVE  ListsOK(<<e>> \o cf, [ap EXCEPT ![n] = a], wr_req_resolver_add(rt, e))
<1> DEFINE t == <<e>> \o cf
           aq == [ap EXCEPT ![n] = a]
           C == ToSet(cf)
<1>1. cf \in Seq(Apps) /\ Distinct(cf) /\ NamesOf(C) = RunningIn(ap) /\ Agree(rt, C)
  BY DEF ListsOK
<1>2. /\ t \in Seq(Apps) /\ DOMAIN t = 1..Len(cf) + 1
      /\ t[1] = e /\ \A i \in 1..Len(cf) : t[i + 1] = cf[i]
      /\ ToSet(t) = {e} \cup C
  BY <1>1, ConsSpec
<1>3. RunningIn(aq) = RunningIn(ap) \cup {n}
  BY RunningChange
<1>4. C \in SUBSET Apps
  BY <1>1 DEF ToSet
<1>5. \A c \in C : c.name # n
  <2>1. n \notin NamesOf(C)
    BY <1>1 DEF RunningIn
  <2> QED BY <2>1 DEF NamesOf
<1> HIDE DEF t, aq
<1>6. NamesOf(ToSet(t)) = RunningIn(aq)
  <2>1. NamesOf({e} \cup C) = {n} \cup NamesOf(C)
    BY DEF NamesOf
  <2> QED BY <1>1, <1>2, <1>3, <2>1
<1>7. Agree(wr_req_resolver_add(rt, e), ToSet(t))
  <2> HIDE DEF C
  <2>1. Agree(wr_req_resolver_add(rt, e), C \cup {e})
    BY <1>1, <1>4, <1>5, AddAgrees
  <2>2. ToSet(t) = C \cup {e}
    BY <1>2
  <2> QED BY <2>1, <2>2
<1>8. Distinct(t)
  <2>1. Len(cf) \in Nat /\ DOMAIN cf = 1..Len(cf) /\ \A i \in DOMAIN cf : cf[i].name # n
    BY <1>1, <1>5 DEF ToSet
  <2>2. \A i \in DOMAIN t : i = 1 \/ (i - 1 \in DOMAIN cf /\ (i - 1) + 1 = i /\ i \in Nat)
    BY <1>2, <2>1
  <2>3. \A i \in DOMAIN t : i = 1 \/ (i - 1 \in DOMAIN cf /\ t[i] = cf[i - 1] /\ i \in Nat)
    BY <1>2, <2>1, <2>2
  <2>4. ASSUME NEW i \in DOMAIN t, NEW j \in DOMAIN t, i # j PROVE t[i].name # t[j].name
    <3>1. CASE i = 1
      BY <1>2, <2>1, <2>3, <2>4, <3>1
    <3>2. CASE j = 1
      BY <1>2, <2>1, <2>3, <2>4, <3>2
    <3>3. CASE i # 1 /\ j # 1
      <4>1. i - 1 # j - 1
        BY <2>3, <2>4, <3>3
      <4> QED BY <1>1, <2>3, <3>3, <4>1 DEF Distinct
    <3> QED BY <3>1, <3>2, <3>3
  <2> QED BY <2>4 DEF Distinct
<1> QED BY <1>2, <1>6, <1>7, <1>8 DEF ListsOK, t, aq

LEMMA WithoutIs ==
  ASSUME NEW S, NEW list \in Seq(S), Distinct(list), NEW n
  PROVE  /\ Without(list, n) \in Seq(S) /\ Distinct(Without(list, n))
         /\ ToSet(Without(list, n)) = {c \in ToSet(list) : c.name # n}
<1> DEFINE I == {i \in DOMAIN list : list[i].name # n}
           s == Without(list, n)
<1>1. I \subseteq DOMAIN list /\ s = Kept(list, I)
  BY DEF Without
<1>2. {list[p] : p \in I} = {c \in ToSet(list) : c.name # n}
  BY DEF ToSet
<1> HIDE DEF I, s
<1>3. s \in Seq(S) /\ Distinct(s)
  BY <1>1, KeptDistinct
<1>4. ToSet(s) = {list[p] : p \in I}
  BY <1>1, KeptElements
<1> QED BY <1>2, <1>3, <1>4 DEF s

LEMMA ListsRemove ==
  ASSUME NEW cf, NEW ap, NEW T, ap \in [Names -> T], NEW rt, ListsOK(cf, ap, rt), NEW n \in Names, NEW a,
         a.state = "none"
  PROVE  ListsOK(Without(cf, n), [ap EXCEPT ![n] = a], wr_req_resolver_remove(rt, n))
<1> DEFINE t == Without(cf, n)
           aq == [ap EXCEPT ![n] = a]
           C == ToSet(cf)
           D == {c \in C : c.name # n}
<1>1. cf \in Seq(Apps) /\ Distinct(cf) /\ NamesOf(C) = RunningIn(ap) /\ Agree(rt, C)
  BY DEF ListsOK
<1>2. t \in Seq(Apps) /\ Distinct(t) /\ ToSet(t) = D
  BY <1>1, WithoutIs
<1>3. RunningIn(aq) = RunningIn(ap) \ {n}
  BY RunningChange
<1>4. C \in SUBSET Apps
  BY <1>1 DEF ToSet
<1> HIDE DEF t, aq, C
<1>5. Agree(wr_req_resolver_remove(rt, n), D)
  BY <1>1, <1>4, RemoveAgrees
<1>6. NamesOf(D) = NamesOf(C) \ {n}
  BY DEF NamesOf
<1> HIDE DEF D
<1> QED BY <1>1, <1>2, <1>3, <1>5, <1>6 DEF ListsOK, t, aq

Instead(cf, n, e) == [i \in DOMAIN cf |-> IF cf[i].name = n THEN e ELSE cf[i]]

LEMMA InsteadIs ==
  ASSUME NEW cf, NEW n, NEW e, n \in NamesOf(ToSet(cf))
  PROVE  ToSet(Instead(cf, n, e)) = {c \in ToSet(cf) : c.name # n} \cup {e}
<1> DEFINE t == Instead(cf, n, e)
           D == {c \in ToSet(cf) : c.name # n}
<1>1. DOMAIN t = DOMAIN cf /\ \A i \in DOMAIN cf : t[i] = IF cf[i].name = n THEN e ELSE cf[i]
  BY DEF Instead
<1> HIDE DEF t
<1>2. \E i \in DOMAIN cf : cf[i].name = n
  BY DEF NamesOf, ToSet
<1>3. \A i \in DOMAIN t : t[i] \in D \cup {e}
  BY <1>1 DEF ToSet
<1>4. \A c \in D : \E i \in DOMAIN t : t[i] = c
  BY <1>1 DEF ToSet
<1>5. \E i \in DOMAIN t : t[i] = e
  BY <1>1, <1>2
<1> HIDE DEF D
<1>6. ToSet(t) = D \cup {e}
  BY <1>3, <1>4, <1>5 DEF ToSet
<1> QED BY <1>6 DEF t, D

LEMMA ListsReload ==
  ASSUME NEW cf, NEW ap, NEW T, ap \in [Names -> T], NEW rt, ListsOK(cf, ap, rt), NEW n \in Names, NEW a,
         ap[n].state # "none", a.state # "none", NEW e \in Apps, e.name = n
  PROVE  ListsOK(Instead(cf, n, e), [ap EXCEPT ![n] = a], wr_req_resolver_add(wr_req_resolver_remove(rt, n), e))
<1> DEFINE t == Instead(cf, n, e)
           aq == [ap EXCEPT ![n] = a]
           C == ToSet(cf)
           D == {c \in C : c.name # n}
<1>1. cf \in Seq(Apps) /\ Distinct(cf) /\ NamesOf(C) = RunningIn(ap) /\ Agree(rt, C)
  BY DEF ListsOK
<1>2. t \in Seq(Apps) /\ DOMAIN t = DOMAIN cf /\ \A i \in DOMAIN cf : t[i] = IF cf[i].name = n THEN e ELSE cf[i]
  BY <1>1 DEF Instead
<1>3. RunningIn(aq) = RunningIn(ap)
  <2>1. RunningIn(aq) = RunningIn(ap) \cup {n}
    BY RunningChange
  <2>2. n \in RunningIn(ap)
    BY DEF RunningIn
  <2> QED BY <2>1, <2>2
<1>4. C \in SUBSET Apps
  BY <1>1 DEF ToSet
<1> HIDE DEF t, aq
<1>5. n \in NamesOf(C)
  BY <1>1 DEF RunningIn
<1>6. ToSet(t) = D \cup {e}
  BY <1>5, InsteadIs DEF t
<1>7. \A i \in DOMAIN t : t[i].name = cf[i].name
  BY <1>2
<1>8. Distinct(t)
  BY <1>1, <1>2, <1>7 DEF Distinct
<1> HIDE DEF C
<1>9. Agree(wr_req_resolver_remove(rt, n), D)
  BY <1>1, <1>4, RemoveAgrees
<1>10. Agree(wr_req_resolver_add(wr_req_resolver_remove(rt, n), e), D \cup {e})
  <2>1. D \in SUBSET Apps /\ \A c \in D : c.name # e.name
    BY <1>4
  <2> HIDE DEF D
  <2> QED BY <1>9, <2>1, AddAgrees
<1>11. NamesOf(D \cup {e}) = NamesOf(C)
  <2>1. NamesOf(D \cup {e}) = (NamesOf(C) \ {n}) \cup {n}
    BY DEF NamesOf
  <2> QED BY <1>5, <2>1
<1>12. ListsOK(t, aq, wr_req_resolver_add(wr_req_resolver_remove(rt, n), e))
  <2> HIDE DEF D
  <2> QED BY <1>1, <1>2, <1>3, <1>6, <1>8, <1>10, <1>11 DEF ListsOK
<1> QED BY <1>12 DEF t, aq

(* A server that starts. *)
LEMMA StartShape ==
  ASSUME NEW f, FileOK(f), NEW panel \in BOOLEAN, NEW start, start = wr_app_init(Listed(f, panel))
  PROVE  /\ AppsOK(start.app, start.answer) /\ ListsOK(start.conf, start.app, start.route)
         /\ start.conf = Listed(f, panel)
         /\ start.answer = [n \in Names |-> "none"]
         /\ \A n \in Names : start.app[n].state \in {"new", "none"}
<1> DEFINE l == Listed(f, panel)
           ap == [n \in Names |-> IF n \in NamesOf(ToSet(l)) THEN Fresh ELSE Stopped]
           an == [n \in Names |-> "none"]
           rt == FoldLeft(wr_req_resolver_add, NoRoute, l)
<1>1. l \in Seq(Apps) /\ Distinct(l)
  BY ListedIs DEF FileOK
<1> HIDE DEF l, rt
<1>2. start = [conf |-> l, app |-> ap, route |-> rt, answer |-> an]
  BY DEF wr_app_init, NamesOf, l, rt
<1>3. Agree(rt, ToSet(l))
  BY <1>1, StartAgrees DEF rt
<1>4. Fresh.state = "new" /\ Fresh.new = <<>> /\ Stopped.state = "none" /\ Stopped.new = <<>>
      /\ Fresh \in [state : States, new : News] /\ Stopped \in [state : States, new : News]
  BY DEF Fresh, Stopped, States, News
<1>5. ap \in [Names -> [state : States, new : News]] /\ \A n \in Names : ap[n] = IF n \in NamesOf(ToSet(l)) THEN Fresh ELSE Stopped
  <2> DEFINE R == [state : States, new : News]
  <2>1. Fresh \in R /\ Stopped \in R
    BY <1>4
  <2> HIDE DEF R
  <2>2. ap \in [Names -> R]
    BY <2>1
  <2> QED BY <2>2 DEF R
<1>6. an \in [Names -> Answers]
  BY DEF Answers
<1> HIDE DEF ap
<1>7. \A n \in Names : ap[n].state \in {"new", "none"} /\ ap[n].new = <<>>
  BY <1>4, <1>5
<1>8. \A n \in Names : Sensible(n, ap[n])
  BY <1>7 DEF Sensible
<1>9. NamesOf(ToSet(l)) = RunningIn(ap)
  <2>1. NamesOf(ToSet(l)) \subseteq Names
    <3>1. \A c \in ToSet(l) : c \in Apps
      BY <1>1 DEF ToSet
    <3>2. \A c \in Apps : c.name \in Names
      BY AppFacts
    <3> QED BY <3>1, <3>2 DEF NamesOf
  <2>2. \A n \in Names : ap[n].state # "none" <=> n \in NamesOf(ToSet(l))
    BY <1>4, <1>5
  <2> QED BY <2>1, <2>2 DEF RunningIn
<1> HIDE DEF an
<1>10. AppsOK(ap, an) /\ ListsOK(l, ap, rt)
  BY <1>1, <1>3, <1>5, <1>6, <1>8, <1>9 DEF AppsOK, ListsOK
<1>11. start.conf = l /\ start.app = ap /\ start.route = rt /\ start.answer = an
  BY <1>2
<1> QED BY <1>7, <1>10, <1>11 DEF l, an

-----------------------------------------------------------------------------
(* The steps of the head. *)

LEMMA EntryIs ==
  ASSUME FileOK(file), NEW n, InFile(n) # {}
  PROVE  /\ PlaceOf(n) \in DOMAIN file /\ file[PlaceOf(n)] = Entry(n)
         /\ Entry(n) \in Entries /\ Entry(n).name = n /\ Entry(n) \in ToSet(file)
         /\ \A i \in DOMAIN file : file[i].name = n => i = PlaceOf(n)
<1>1. PlaceOf(n) \in InFile(n)
  BY DEF PlaceOf
<1>2. Entry(n) = file[PlaceOf(n)]
  BY DEF Entry, PlaceOf
<1>3. PlaceOf(n) \in DOMAIN file /\ file[PlaceOf(n)].name = n
  BY <1>1 DEF InFile
<1>4. file[PlaceOf(n)] \in Entries /\ file[PlaceOf(n)] \in ToSet(file)
  BY <1>3 DEF FileOK, ToSet
<1>5. \A i \in DOMAIN file : file[i].name = n => i = PlaceOf(n)
  BY <1>3 DEF FileOK, Distinct
<1> QED BY <1>2, <1>3, <1>4, <1>5

LEMMA ReadIs ==
  ASSUME FileOK(file), NEW n, wr_conf_app_read(n)
  PROVE  /\ Read(n) \in Apps /\ Read(n).name = n /\ Read(n) \in ToSet(file) \cup {AdminPanel}
         /\ n # AdminPanel.name => InFile(n) # {} /\ Read(n) = Entry(n)
<1>1. CASE n = AdminPanel.name
  BY <1>1 DEF Read, Apps
<1>2. CASE n # AdminPanel.name
  <2>1. InFile(n) # {} /\ Read(n) = Entry(n)
    BY <1>2 DEF wr_conf_app_read, Read
  <2> QED BY <2>1, EntryIs DEF Apps
<1> QED BY <1>1, <1>2

Record == [state : States, new : News]

LEMMA ShapeFacts ==
  ASSUME Shape
  PROVE  /\ FileOK(file) /\ app \in [Names -> Record] /\ answer \in [Names -> Answers]
         /\ AppsOK(app, answer) /\ ListsOK(conf, app, route)
         /\ \A n \in Names : /\ Sensible(n, app[n])
                             /\ app[n].state \in States /\ app[n].new \in News /\ app[n] \in Record
<1>1. app \in [Names -> Record] /\ FileOK(file) /\ answer \in [Names -> Answers]
      /\ AppsOK(app, answer) /\ ListsOK(conf, app, route) /\ \A n \in Names : Sensible(n, app[n])
  BY DEF Shape, AppsOK, Record
<1>2. \A n \in Names : app[n] \in Record
  BY <1>1
<1>3. \A a \in Record : a.state \in States /\ a.new \in News
  BY DEF Record
<1> QED BY <1>1, <1>2, <1>3

LEMMA RecordFacts ==
  /\ Fresh \in Record /\ Fresh.state = "new" /\ Fresh.new = <<>>
  /\ Stopped \in Record /\ Stopped.state = "none" /\ Stopped.new = <<>>
  /\ \A a \in Record : Served(a) \in Record /\ Served(a).state = "active" /\ Served(a).new = <<>>
  /\ \A e \in Apps : [state |-> "restart", new |-> <<e>>] \in Record
<1>1. <<>> \in News /\ (\A e \in Apps : <<e>> \in News) /\ "new" \in States /\ "none" \in States
      /\ "active" \in States /\ "restart" \in States
  BY DEF News, States
<1>2. /\ Fresh \in Record /\ Fresh.state = "new" /\ Fresh.new = <<>>
      /\ Stopped \in Record /\ Stopped.state = "none" /\ Stopped.new = <<>>
  BY <1>1 DEF Fresh, Stopped, Record
<1>3. ASSUME NEW a \in Record
      PROVE  Served(a) \in Record /\ Served(a).state = "active" /\ Served(a).new = <<>>
  BY <1>1 DEF Served, Record
<1>4. \A e \in Apps : [state |-> "restart", new |-> <<e>>] \in Record
  BY <1>1 DEF Record
<1> QED BY <1>2, <1>3, <1>4

(* What an application's state may become. *)
LEMMA AppsStep ==
  ASSUME Shape, NEW n \in Names, NEW a \in Record, NEW b \in Answers, Sensible(n, a)
  PROVE  AppsOK([app EXCEPT ![n] = a], [answer EXCEPT ![n] = b])
BY ShapeFacts, AppsChange DEF Record

(* What becomes of the panel's answer when another command comes. *)
LEMMA OvertakenIs ==
  ASSUME NEW a \in Answers
  PROVE  /\ Overtaken(a) \in Answers \ {"wait", "ok"} /\ Unheard(a) \in Answers \ {"wait"}
         /\ Unheard(a) \in {a, "lost"}
BY DEF Overtaken, Unheard, Answers

After(n, mine, what) == IF mine THEN what ELSE Overtaken(answer[n])

LEMMA AnswerIs ==
  ASSUME Shape, NEW n \in Names, NEW mine \in BOOLEAN, NEW w \in Answers, Answer(n, mine, w)
  PROVE  answer' = [answer EXCEPT ![n] = After(n, mine, w)] /\ After(n, mine, w) \in Answers
<1>1. answer[n] \in Answers
  BY ShapeFacts
<1>2. CASE mine
  BY <1>2 DEF Answer, After
<1>3. CASE ~mine
  BY <1>1, <1>3, OvertakenIs DEF Answer, After
<1> QED BY <1>2, <1>3

LEMMA RefusedIs ==
  ASSUME Shape, NEW n \in Names, NEW mine \in BOOLEAN, Refused(n, mine) \/ Displaced(n, mine)
  PROVE  /\ UNCHANGED <<conf, app, route>>
         /\ \E b \in Answers : /\ answer' = [answer EXCEPT ![n] = b]
                               /\ b = "error" \/ (~mine /\ b \in {answer[n], Unheard(answer[n])})
                               /\ mine => b = "error"
<1>1. answer \in [Names -> Answers] /\ answer[n] \in Answers /\ "error" \in Answers
  BY ShapeFacts DEF Answers
<1>2. UNCHANGED <<conf, app, route>>
  BY DEF Refused, Displaced
<1>3. CASE Refused(n, mine) /\ mine
  BY <1>1, <1>2, <1>3 DEF Refused
<1>4. CASE Refused(n, mine) /\ ~mine
  <2>1. answer' = answer /\ answer = [answer EXCEPT ![n] = answer[n]]
    BY <1>1, <1>4 DEF Refused
  <2> QED BY <1>1, <1>2, <1>4, <2>1
<1>5. CASE Displaced(n, mine)
  <2>1. ~mine /\ answer' = [answer EXCEPT ![n] = Unheard(answer[n])]
    BY <1>5 DEF Displaced
  <2>2. Unheard(answer[n]) \in Answers
    BY <1>1, OvertakenIs
  <2> QED BY <1>2, <2>1, <2>2
<1> QED BY <1>3, <1>4, <1>5

LEMMA ShapeAnswer ==
  ASSUME Shape, NEW n \in Names, UNCHANGED <<file, conf, app, route>>, NEW b \in Answers,
         answer' = [answer EXCEPT ![n] = b]
  PROVE  Shape'
<1>1. Sensible(n, app[n]) /\ app[n] \in Record
  BY ShapeFacts
<1>2. AppsOK([app EXCEPT ![n] = app[n]], [answer EXCEPT ![n] = b])
  BY <1>1, AppsStep
<1>3. [app EXCEPT ![n] = app[n]] = app
  BY ShapeFacts
<1> QED BY <1>2, <1>3 DEF Shape

LEMMA ShapeRefused ==
  ASSUME Shape, NEW n \in Names, NEW mine \in BOOLEAN, Refused(n, mine) \/ Displaced(n, mine), UNCHANGED file
  PROVE  Shape'
<1>1. PICK b \in Answers : answer' = [answer EXCEPT ![n] = b]
  BY RefusedIs
<1>2. UNCHANGED <<file, conf, app, route>>
  BY RefusedIs
<1> QED BY <1>1, <1>2, ShapeAnswer

LEMMA ShapeInsert ==
  ASSUME Shape, NEW n \in Names, NEW mine \in BOOLEAN, wr_conf_app_read(n), ~Running(n),
         wr_app_insert(n, mine), UNCHANGED file
  PROVE  Shape'
<1> DEFINE b == After(n, mine, "wait")
<1>1. Read(n) \in Apps /\ Read(n).name = n
  BY ShapeFacts, ReadIs
<1>2. app[n].state = "none" /\ app \in [Names -> Record] /\ ListsOK(conf, app, route)
  BY ShapeFacts DEF Running
<1>3. Fresh \in Record /\ Sensible(n, Fresh) /\ "wait" \in Answers /\ Fresh.state # "none"
  BY RecordFacts DEF Sensible, Answers
<1>a. answer' = [answer EXCEPT ![n] = b] /\ b \in Answers
  BY <1>3, AnswerIs DEF wr_app_insert
<1> HIDE DEF b
<1>4. AppsOK([app EXCEPT ![n] = Fresh], [answer EXCEPT ![n] = b])
  BY <1>3, <1>a, AppsStep
<1>5. ListsOK(<<Read(n)>> \o conf, [app EXCEPT ![n] = Fresh], wr_req_resolver_add(route, Read(n)))
  BY <1>1, <1>2, <1>3, ListsInsert
<1> QED BY <1>4, <1>5, <1>a DEF wr_app_insert, Shape

LEMMA ShapeRemove ==
  ASSUME Shape, NEW n \in Names, wr_app_remove(n), UNCHANGED file, NEW b \in Answers,
         answer' = [answer EXCEPT ![n] = b]
  PROVE  Shape'
<1>1. app \in [Names -> Record] /\ ListsOK(conf, app, route)
  BY ShapeFacts
<1>2. Stopped \in Record /\ Sensible(n, Stopped) /\ Stopped.state = "none"
  BY RecordFacts DEF Sensible
<1>3. AppsOK([app EXCEPT ![n] = Stopped], [answer EXCEPT ![n] = b])
  BY <1>2, AppsStep
<1>4. ListsOK(Without(conf, n), [app EXCEPT ![n] = Stopped], wr_req_resolver_remove(route, n))
  BY <1>1, <1>2, ListsRemove
<1> QED BY <1>3, <1>4 DEF wr_app_remove, Shape

LEMMA ShapeReloads ==
  ASSUME Shape, NEW n \in Names, wr_conf_app_read(n), Running(n), UNCHANGED <<file, conf, route>>,
         app' = [app EXCEPT ![n] = [state |-> "restart", new |-> <<Read(n)>>]],
         NEW b \in Answers, answer' = [answer EXCEPT ![n] = b]
  PROVE  Shape'
<1> DEFINE a == [state |-> "restart", new |-> <<Read(n)>>]
<1>1. Read(n) \in Apps /\ Read(n).name = n
  BY ShapeFacts, ReadIs
<1>2. app[n].state # "none" /\ app \in [Names -> Record] /\ ListsOK(conf, app, route)
  BY ShapeFacts DEF Running
<1>3. a \in Record /\ a.state = "restart" /\ a.new = <<Read(n)>>
  BY <1>1, RecordFacts
<1> HIDE DEF a
<1>4. Sensible(n, a)
  BY <1>1, <1>3 DEF Sensible
<1>5. AppsOK([app EXCEPT ![n] = a], [answer EXCEPT ![n] = b])
  BY <1>3, <1>4, AppsStep
<1>6. a.state # "none"
  BY <1>3
<1>7. ListsOK(conf, [app EXCEPT ![n] = a], route)
  BY <1>2, <1>6, ListsSame
<1> QED BY <1>5, <1>7 DEF Shape, a

(* ADD, RELOAD and REMOVE. *)
LEMMA ShapeCommand ==
  ASSUME Shape, NEW n \in Names, NEW mine \in BOOLEAN, Command(n, mine)
  PROVE  Shape'
<1>0. "ok" \in Answers /\ "wait" \in Answers
  BY DEF Answers
<1>1. CASE wr_app_add_cb(n, mine)
  <2>1. /\ UNCHANGED file
        /\ \/ ~Running(n) /\ wr_conf_app_read(n) /\ wr_app_insert(n, mine)
           \/ Refused(n, mine) \/ Displaced(n, mine)
    BY <1>1 DEF wr_app_add_cb
  <2> QED BY <2>1, ShapeInsert, ShapeRefused
<1>2. CASE wr_app_reload_cb(n, mine)
  <2>1. UNCHANGED file
    BY <1>2 DEF wr_app_reload_cb
  <2>2. CASE ~wr_conf_app_read(n)
    <3>1. Refused(n, mine)
      BY <1>2, <2>2 DEF wr_app_reload_cb
    <3> QED BY <2>1, <3>1, ShapeRefused
  <2>3. CASE wr_conf_app_read(n) /\ ~Running(n)
    <3>1. wr_app_insert(n, mine)
      BY <1>2, <2>3 DEF wr_app_reload_cb
    <3> QED BY <2>1, <2>3, <3>1, ShapeInsert
  <2>4. CASE wr_conf_app_read(n) /\ Running(n)
    <3>1. /\ app' = [app EXCEPT ![n] = [state |-> "restart", new |-> <<Read(n)>>]]
          /\ Answer(n, mine, "wait") /\ UNCHANGED <<conf, route>>
      BY <1>2, <2>4 DEF wr_app_reload_cb
    <3>2. UNCHANGED <<file, conf, route>>
      BY <2>1, <3>1
    <3>3. answer' = [answer EXCEPT ![n] = After(n, mine, "wait")] /\ After(n, mine, "wait") \in Answers
      BY <1>0, <3>1, AnswerIs
    <3> QED BY <2>4, <3>1, <3>2, <3>3, ShapeReloads
  <2> QED BY <2>2, <2>3, <2>4
<1>3. CASE wr_app_remove_cb(n, mine)
  <2>1. UNCHANGED file /\ ((wr_app_remove(n) /\ Answer(n, mine, "ok")) \/ Refused(n, mine))
    BY <1>3 DEF wr_app_remove_cb
  <2>2. CASE wr_app_remove(n) /\ Answer(n, mine, "ok")
    <3>1. answer' = [answer EXCEPT ![n] = After(n, mine, "ok")] /\ After(n, mine, "ok") \in Answers
      BY <1>0, <2>2, AnswerIs
    <3> QED BY <2>1, <2>2, <3>1, ShapeRemove
  <2> QED BY <2>1, <2>2, ShapeRefused
<1> QED BY <1>1, <1>2, <1>3 DEF Command

LEMMA TellIs ==
  ASSUME Shape, NEW n \in Names, NEW w \in Answers, Tell(n, w)
  PROVE  \E b \in Answers : /\ answer' = [answer EXCEPT ![n] = b]
                            /\ b = IF answer[n] = "wait" THEN w ELSE answer[n]
<1>1. answer \in [Names -> Answers]
  BY ShapeFacts
<1>2. CASE answer[n] = "wait"
  BY <1>2 DEF Tell
<1>3. CASE answer[n] # "wait"
  <2>1. answer' = answer
    BY <1>3 DEF Tell
  <2>2. answer = [answer EXCEPT ![n] = answer[n]] /\ answer[n] \in Answers
    BY <1>1
  <2> QED BY <1>3, <2>1, <2>2
<1> QED BY <1>2, <1>3

LEMMA ShapeServed ==
  ASSUME Shape, NEW n \in Names, Running(n), UNCHANGED <<file, conf, route>>,
         app' = [app EXCEPT ![n] = Served(@)], NEW b \in Answers, answer' = [answer EXCEPT ![n] = b]
  PROVE  Shape'
<1> DEFINE a == Served(app[n])
<1>1. app[n].state # "none" /\ app \in [Names -> Record] /\ ListsOK(conf, app, route) /\ app[n] \in Record
  BY ShapeFacts DEF Running
<1>2. a \in Record /\ a.state = "active" /\ a.new = <<>>
  BY <1>1, RecordFacts
<1>3. app' = [app EXCEPT ![n] = a]
  OBVIOUS
<1> HIDE DEF a
<1>4. Sensible(n, a) /\ a.state # "none"
  BY <1>2 DEF Sensible
<1>5. AppsOK([app EXCEPT ![n] = a], [answer EXCEPT ![n] = b])
  BY <1>2, <1>4, AppsStep
<1>6. ListsOK(conf, [app EXCEPT ![n] = a], route)
  BY <1>1, <1>4, ListsSame
<1> QED BY <1>3, <1>5, <1>6 DEF Shape

(* The configuration an application reloads. *)
LEMMA NewIs ==
  ASSUME Shape, NEW n \in Names, app[n].state = "restart"
  PROVE  app[n].new[1] \in Apps /\ app[n].new[1].name = n /\ app[n].new = <<app[n].new[1]>>
<1>1. Sensible(n, app[n])
  BY ShapeFacts
<1>2. PICK e \in Apps : app[n].new = <<e>> /\ e.name = n
  BY <1>1 DEF Sensible
<1>3. <<e>>[1] = e
  OBVIOUS
<1> QED BY <1>2, <1>3

LEMMA ShapeReloaded ==
  ASSUME Shape, NEW n \in Names, app[n].state = "restart", wr_app_reload(n), UNCHANGED file,
         app' = [app EXCEPT ![n] = Served(@)], NEW b \in Answers, answer' = [answer EXCEPT ![n] = b]
  PROVE  /\ Shape'
         /\ ToSet(conf') = {c \in ToSet(conf) : c.name # n} \cup {app[n].new[1]}
<1> DEFINE a == Served(app[n])
           e == app[n].new[1]
<1>1. app[n].state # "none" /\ app \in [Names -> Record] /\ ListsOK(conf, app, route) /\ app[n] \in Record
  BY ShapeFacts
<1>2. a \in Record /\ a.state = "active" /\ a.new = <<>>
  BY <1>1, RecordFacts
<1>3. app' = [app EXCEPT ![n] = a]
  OBVIOUS
<1>4. e \in Apps /\ e.name = n
  BY NewIs
<1>5. conf' = Instead(conf, n, e) /\ route' = wr_req_resolver_add(wr_req_resolver_remove(route, n), e)
  BY DEF wr_app_reload, Instead
<1> HIDE DEF a, e
<1>6. Sensible(n, a) /\ a.state # "none"
  BY <1>2 DEF Sensible
<1>7. AppsOK([app EXCEPT ![n] = a], [answer EXCEPT ![n] = b])
  BY <1>2, <1>6, AppsStep
<1>8. /\ ListsOK(Instead(conf, n, e), [app EXCEPT ![n] = a], wr_req_resolver_add(wr_req_resolver_remove(route, n), e))
      /\ ToSet(Instead(conf, n, e)) = {c \in ToSet(conf) : c.name # n} \cup {e}
  <2>1. /\ app \in [Names -> Record] /\ ListsOK(conf, app, route) /\ app[n].state # "none"
        /\ a.state # "none" /\ e \in Apps /\ e.name = n
    BY <1>1, <1>4, <1>6
  <2>2. ListsOK(Instead(conf, n, e), [app EXCEPT ![n] = a], wr_req_resolver_add(wr_req_resolver_remove(route, n), e))
    BY <2>1, ListsReload
  <2>3. n \in NamesOf(ToSet(conf))
    BY <2>1 DEF ListsOK, RunningIn
  <2>4. ToSet(Instead(conf, n, e)) = {c \in ToSet(conf) : c.name # n} \cup {e}
    BY <2>3, InsteadIs
  <2> QED BY <2>2, <2>4
<1>9. ListsOK(conf', app', route') /\ ToSet(conf') = {c \in ToSet(conf) : c.name # n} \cup {e}
  BY <1>3, <1>5, <1>8
<1> QED BY <1>3, <1>7, <1>9 DEF Shape, e

LEMMA ShapeWorker ==
  ASSUME Shape, NEW n \in Names, WorkerCame(n)
  PROVE  Shape'
<1>0. "ok" \in Answers /\ "error" \in Answers
  BY DEF Answers
<1>1. CASE wr_app_wkr_insert(n)
  <2>1. /\ app[n].state \in {"new", "restart"} /\ UNCHANGED file /\ Tell(n, "ok")
        /\ app' = [app EXCEPT ![n] = Served(@)]
        /\ IF app[n].state = "restart" THEN wr_app_reload(n) ELSE UNCHANGED <<conf, route>>
    BY <1>1 DEF wr_app_wkr_insert
  <2>2. PICK b \in Answers : answer' = [answer EXCEPT ![n] = b]
    BY <1>0, <2>1, TellIs
  <2>3. CASE app[n].state = "restart"
    <3>1. wr_app_reload(n)
      BY <2>1, <2>3
    <3> QED BY <2>1, <2>2, <2>3, <3>1, ShapeReloaded
  <2>4. CASE app[n].state # "restart"
    <3>1. UNCHANGED <<file, conf, route>> /\ Running(n)
      BY <2>1, <2>4 DEF Running
    <3> QED BY <2>1, <2>2, <3>1, ShapeServed
  <2> QED BY <2>3, <2>4
<1>2. CASE wr_app_wkr_error(n)
  <2>1. UNCHANGED file /\ Tell(n, "error")
    BY <1>2 DEF wr_app_wkr_error
  <2>2. PICK b \in Answers : answer' = [answer EXCEPT ![n] = b]
    BY <1>0, <2>1, TellIs
  <2>3. CASE app[n].state = "restart" /\ app' = [app EXCEPT ![n] = Served(@)] /\ UNCHANGED <<conf, route>>
    <3>1. UNCHANGED <<file, conf, route>> /\ Running(n)
      BY <2>1, <2>3 DEF Running
    <3> QED BY <2>2, <2>3, <3>1, ShapeServed
  <2>4. CASE app[n].state = "new" /\ wr_app_remove(n)
    BY <2>1, <2>2, <2>4, ShapeRemove
  <2> QED BY <1>2, <2>3, <2>4 DEF wr_app_wkr_error
<1>3. CASE wr_app_wkr_balance(n)
  <2>1. /\ UNCHANGED <<file, conf, route>> /\ app' = [app EXCEPT ![n] = Served(@)] /\ Running(n)
        /\ answer' = [answer EXCEPT ![n] = Unheard(answer[n])]
    BY <1>3 DEF wr_app_wkr_balance, Running
  <2>2. Unheard(answer[n]) \in Answers
    BY ShapeFacts, OvertakenIs
  <2> QED BY <2>1, <2>2, ShapeServed
<1> QED BY <1>1, <1>2, <1>3 DEF WorkerCame

-----------------------------------------------------------------------------
(* What is written to config.yml. *)

(* No more applications than names there are. *)
LEMMA FileIsShort ==
  ASSUME FileOK(file)
  PROVE  Len(file) < NoId /\ Len(file) \in Nat /\ DOMAIN file = 1..Len(file)
<1> DEFINE n == Len(file)
<1>1. file \in Seq(Entries) /\ Distinct(file) /\ n \in Nat /\ DOMAIN file = 1..n
  BY DEF FileOK
<1>2. file \in [1..n -> Entries]
  BY <1>1
<1>3. IsInjective(file)
  BY DEF IsInjective, FileOK, Distinct
<1>4. file \in Injection(1..n, Entries)
  BY <1>2, <1>3 DEF Injection
<1> HIDE DEF n
<1>5. IsFiniteSet(1..n) /\ Cardinality(1..n) = n
  BY <1>1, FS_Interval
<1>6. IsFiniteSet(Entries) /\ Cardinality(Entries) < 1001 /\ Cardinality(Entries) \in Nat
  BY FewAssumption, FS_CardinalityType
<1>7. Cardinality(1..n) <= Cardinality(Entries)
  BY <1>4, <1>6, FS_Injection
<1>8. n < 1001
  BY <1>1, <1>5, <1>6, <1>7
<1> QED BY <1>1, <1>8 DEF NoId, n

LEMMA FileAppend ==
  ASSUME FileOK(file), NEW e \in Entries, InFile(e.name) = {}
  PROVE  FileOK(Append(file, e)) /\ ToSet(Append(file, e)) = ToSet(file) \cup {e}
<1> DEFINE t == Append(file, e)
<1>1. file \in Seq(Entries) /\ Len(file) \in Nat /\ DOMAIN file = 1..Len(file)
  BY DEF FileOK
<1>2. t \in Seq(Entries) /\ DOMAIN t = 1..Len(file) + 1 /\ t[Len(file) + 1] = e
      /\ \A i \in 1..Len(file) : t[i] = file[i]
  BY <1>1
<1> HIDE DEF t
<1>3. \A i \in DOMAIN t : (i \in DOMAIN file /\ t[i] = file[i]) \/ (i = Len(file) + 1 /\ t[i] = e)
  BY <1>1, <1>2
<1>4. \A i \in DOMAIN file : file[i].name # e.name
  BY DEF InFile
<1>5. Distinct(t)
  BY <1>3, <1>4 DEF Distinct, FileOK
<1>6. Len(file) + 1 \in DOMAIN t /\ \A i \in DOMAIN file : i \in DOMAIN t
  BY <1>1, <1>2
<1>7. ToSet(t) = ToSet(file) \cup {e}
  BY <1>1, <1>2, <1>3, <1>6 DEF ToSet
<1> QED BY <1>2, <1>5, <1>7 DEF FileOK, t

LEMMA FileReplace ==
  ASSUME FileOK(file), NEW e \in Entries, NEW t, DOMAIN t = DOMAIN file,
         \A i \in DOMAIN file : t[i] = file[i] \/ (t[i] = e /\ file[i].name = e.name), t \in Seq(Entries)
  PROVE  FileOK(t) /\ ToSet(t) \subseteq ToSet(file) \cup {e}
<1>1. \A i \in DOMAIN t : t[i].name = file[i].name
  OBVIOUS
<1>2. Distinct(t)
  BY <1>1 DEF Distinct, FileOK
<1> QED BY <1>2 DEF FileOK, ToSet

-----------------------------------------------------------------------------
(* The invariant of the panel. *)

(* What the panel keeps has its type; it sends commands only in behaviours *)
(* where nobody else writes config.yml, and none about itself.             *)
Supports == {"", "enabled", "disabled"}
Ops == {"none", "ADD", "REMOVE", "RELOAD"}
Ssls == [support : Supports, port : Int, certificate : BOOLEAN]
Servers == [port : Nat, min_worker : Nat, max_worker : Nat, ssl : Ssls]
Forms ==
  /\ scene \in Scenes /\ rows \subseteq Names /\ certs \in BOOLEAN /\ analyzer \in BOOLEAN
  /\ form \in [name : Names \cup {Nobody}, id : Nat]
  /\ cmd \in [op : Ops, name : Names \cup {Nobody}, taken : BOOLEAN]
  /\ cmd # Idle => ~scene.byhand /\ cmd.op # "none" /\ cmd.name \in Names \ {AdminPanel.name}

(* The Server Specification. *)
Numbers ==
  /\ server \in Servers
  /\ wr_config_server_set(server) /\ server.port \in 1..MaxPort
  /\ server.ssl.support = "enabled" => server.ssl.certificate /\ server.ssl.port \in 1..MaxPort

(* Only the panel has its base URI, unless someone writes config.yml. *)
IsPanels(e) == e.uri = AdminPanel.uri => e = AdminPanel
Reserved ==
  ~scene.byhand => /\ \A e \in ToSet(file) \cup ToSet(conf) : IsPanels(e)
                   /\ \A n \in Names : app[n].state = "restart" => IsPanels(app[n].new[1])

(* An answer that is still to come is that of the command the panel waits  *)
(* for.                                                                    *)
Waiting == \A n \in Names : answer[n] = "wait" => cmd.name = n /\ cmd.taken

(* A command the head has taken: what has come of it, or what it waits for *)
(* is what config.yml has.                                                 *)
Answered ==
  cmd.taken =>
    IF cmd.op = "REMOVE"
    THEN answer[cmd.name] # "wait" /\ (answer[cmd.name] = "ok" => ~Running(cmd.name))
    ELSE /\ answer[cmd.name] \in {"ok", "wait"} => InFile(cmd.name) # {}
         /\ answer[cmd.name] = "ok" => app[cmd.name].state = "active" /\ Entry(cmd.name) \in ToSet(conf)
         /\ answer[cmd.name] = "wait" =>
              \/ app[cmd.name].state = "new" /\ Entry(cmd.name) \in ToSet(conf)
              \/ app[cmd.name].state = "restart" /\ app[cmd.name].new = <<Entry(cmd.name)>>

IInv == Shape /\ Forms /\ Numbers /\ Reserved /\ Waiting /\ Answered /\ UniqueInFile

-----------------------------------------------------------------------------
(* Shape in every step. *)

LEMMA SceneFacts ==
  ASSUME Forms
  PROVE  /\ scene.entries \subseteq Entries /\ scene.byhand \in BOOLEAN
         /\ scene.ports \subseteq Nat /\ scene.counts \subseteq Nat
BY ScenesAssumption DEF Forms

(* What the checks of a form say about the file. *)
LEMMA NewIsNew ==
  ASSUME FileOK(file), NEW e, ensure_validations(e, NoId)
  PROVE  /\ InFile(e.name) = {} /\ e.uri # AdminPanel.uri
         /\ \A i \in DOMAIN file : /\ file[i].name # e.name
                                   /\ e.uri # NoUri => file[i].uri # e.uri
                                   /\ ToSet(file[i].hosts) \cap ToSet(e.hosts) = {}
<1>1. \A i \in DOMAIN file : i # NoId
  BY FileIsShort DEF NoId
<1>2. \A i \in DOMAIN file : /\ file[i].name # e.name
                             /\ e.uri # NoUri => file[i].uri # e.uri
                             /\ ToSet(file[i].hosts) \cap ToSet(e.hosts) = {}
  BY <1>1 DEF ensure_validations
<1>3. InFile(e.name) = {}
  BY <1>2 DEF InFile
<1>4. e.uri # AdminPanel.uri
  BY DEF ensure_validations
<1> QED BY <1>2, <1>3, <1>4

(* An old form is refused unless its place is still the application's. *)
LEMMA EditIsInPlace ==
  ASSUME FileOK(file), NEW e, NEW id, ensure_validations(e, id), InFile(e.name) # {}
  PROVE  /\ PlaceOf(e.name) \in DOMAIN file /\ file[PlaceOf(e.name)].name = e.name /\ e.uri # AdminPanel.uri
         /\ \A i \in DOMAIN file : i # PlaceOf(e.name) =>
                                   /\ file[i].name # e.name
                                   /\ e.uri # NoUri => file[i].uri # e.uri
                                   /\ ToSet(file[i].hosts) \cap ToSet(e.hosts) = {}
<1>1. PlaceOf(e.name) \in DOMAIN file /\ file[PlaceOf(e.name)].name = e.name
  BY EntryIs
<1>2. \A i \in DOMAIN file : i # id => /\ file[i].name # e.name
                                       /\ e.uri # NoUri => file[i].uri # e.uri
                                       /\ ToSet(file[i].hosts) \cap ToSet(e.hosts) = {}
  BY DEF ensure_validations
<1>3. PlaceOf(e.name) = id
  BY <1>1, <1>2
<1>4. e.uri # AdminPanel.uri
  BY DEF ensure_validations
<1> QED BY <1>1, <1>2, <1>3, <1>4

LEMMA EditedFile ==
  ASSUME FileOK(file), NEW e \in Entries, NEW id, ensure_validations(e, id), InFile(e.name) # {},
         NEW t, t = [file EXCEPT ![PlaceOf(e.name)] = e]
  PROVE  /\ FileOK(t) /\ ToSet(t) \subseteq ToSet(file) \cup {e} /\ DOMAIN t = DOMAIN file
         /\ \A i \in DOMAIN file : t[i] = IF i = PlaceOf(e.name) THEN e ELSE file[i]
<1>1. PlaceOf(e.name) \in DOMAIN file /\ file[PlaceOf(e.name)].name = e.name
  BY EditIsInPlace
<1>2. file \in Seq(Entries)
  BY DEF FileOK
<1>3. t \in Seq(Entries) /\ DOMAIN t = DOMAIN file
      /\ \A i \in DOMAIN file : t[i] = IF i = PlaceOf(e.name) THEN e ELSE file[i]
  BY <1>1, <1>2
<1>4. \A i \in DOMAIN file : t[i] = file[i] \/ (t[i] = e /\ file[i].name = e.name)
  BY <1>1, <1>3
<1>5. FileOK(t) /\ ToSet(t) \subseteq ToSet(file) \cup {e}
  BY <1>3, <1>4, FileReplace
<1> QED BY <1>3, <1>5

LEMMA ShapeFile ==
  ASSUME Shape, FileOK(file'), UNCHANGED <<conf, app, route, answer>>
  PROVE  Shape'
BY DEF Shape

LEMMA ShapeStart ==
  ASSUME FileOK(file), UNCHANGED file, NEW panel \in BOOLEAN, NEW start, start = wr_app_init(Listed(file, panel)),
         conf' = start.conf, app' = start.app, route' = start.route, answer' = start.answer
  PROVE  Shape'
<1>1. AppsOK(start.app, start.answer) /\ ListsOK(start.conf, start.app, start.route)
  BY StartShape
<1> QED BY <1>1 DEF Shape

LEMMA ShapeInit ==
  ASSUME PanelInit
  PROVE  Shape /\ Distinct(file)
<1>1. FileOK(file)
  <2>1. PICK e \in Entries, f \in Entries :
          file \in {<<>>, <<e>>} \cup (IF e.name # f.name THEN {<<e, f>>} ELSE {})
    BY DEF PanelInit, Init
  <2>2. CASE file = <<>>
    BY <2>2 DEF FileOK, Distinct
  <2>3. CASE file = <<e>>
    BY <2>3 DEF FileOK, Distinct
  <2>4. CASE file = <<e, f>> /\ e.name # f.name
    <3>1. file \in Seq(Entries) /\ DOMAIN file = {1, 2} /\ file[1] = e /\ file[2] = f
      BY <2>4
    <3>2. Distinct(file)
      BY <2>4, <3>1 DEF Distinct
    <3> QED BY <3>1, <3>2 DEF FileOK
  <2> QED BY <2>1, <2>2, <2>3, <2>4
<1> DEFINE start == wr_app_init(Listed(file, TRUE))
<1>2. conf = start.conf /\ app = start.app /\ route = start.route /\ answer = start.answer
  BY DEF PanelInit, Init
<1> HIDE DEF start
<1>3. AppsOK(start.app, start.answer) /\ ListsOK(start.conf, start.app, start.route)
  BY <1>1, StartShape DEF start
<1> QED BY <1>1, <1>2, <1>3 DEF Shape, FileOK

LEMMA ShapeNext ==
  ASSUME Shape, Forms, [PanelNext]_allVars
  PROVE  Shape'
<1>0. FileOK(file) /\ scene.entries \subseteq Entries
  BY ShapeFacts, SceneFacts
<1>same. ASSUME UNCHANGED vars PROVE Shape'
  BY <1>same DEF Shape, vars
<1>1. CASE Requests
  <2>1. ASSUME NEW e \in scene.entries, add_application(e) PROVE Shape'
    <3>1. ensure_validations(e, NoId) /\ file' = Append(file, e) /\ UNCHANGED <<conf, app, route, answer>>
      BY <2>1 DEF add_application
    <3>2. FileOK(file')
      BY <1>0, <3>1, NewIsNew, FileAppend
    <3> QED BY <3>1, <3>2, ShapeFile
  <2>2. ASSUME NEW e \in scene.entries, edit_application(e) PROVE Shape'
    <3>1. /\ ensure_validations(e, form.id) /\ InFile(e.name) # {}
          /\ file' = [file EXCEPT ![PlaceOf(e.name)] = e] /\ UNCHANGED <<conf, app, route, answer>>
      BY <2>2 DEF edit_application
    <3>2. FileOK(file')
      BY <1>0, <3>1, EditedFile
    <3> QED BY <3>1, <3>2, ShapeFile
  <2>3. ASSUME NEW i \in DOMAIN file, OpenForm(i) PROVE Shape'
    BY <1>same, <2>3 DEF OpenForm
  <2>4. ASSUME NEW n, delete_application(n) PROVE Shape'
    <3>1. (file' = Without(file, n) \/ file' = file) /\ UNCHANGED <<conf, app, route, answer>>
      BY <2>4 DEF delete_application
    <3>2. FileOK(file')
      BY <1>0, <3>1, WithoutIs DEF FileOK
    <3> QED BY <3>1, <3>2, ShapeFile
  <2>5. ASSUME NEW n, restart_application(n) \/ stop_application(n) PROVE Shape'
    BY <1>same, <2>5 DEF restart_application, stop_application
  <2> QED BY <1>1, <2>1, <2>2, <2>3, <2>4, <2>5 DEF Requests
<1>2. CASE ByHand
  <2>1. ASSUME NEW e \in scene.entries, WriteEntry(e) PROVE Shape'
    <3>1. UNCHANGED <<conf, app, route, answer>>
      BY <2>1 DEF WriteEntry
    <3>2. CASE InFile(e.name) = {}
      <4>1. file' = Append(file, e)
        BY <2>1, <3>2 DEF WriteEntry
      <4>2. FileOK(file')
        BY <1>0, <3>2, <4>1, FileAppend
      <4> QED BY <3>1, <4>2, ShapeFile
    <3>3. CASE InFile(e.name) # {}
      <4>1. file' = [i \in DOMAIN file |-> IF file[i].name = e.name THEN e ELSE file[i]]
        BY <2>1, <3>3 DEF WriteEntry
      <4>2. file \in Seq(Entries)
        BY <1>0 DEF FileOK
      <4>3. file' \in Seq(Entries) /\ DOMAIN file' = DOMAIN file
            /\ \A i \in DOMAIN file : file'[i] = file[i] \/ (file'[i] = e /\ file[i].name = e.name)
        BY <1>0, <4>1, <4>2
      <4>4. FileOK(file')
        BY <1>0, <4>3, FileReplace
      <4> QED BY <3>1, <4>4, ShapeFile
    <3> QED BY <3>2, <3>3
  <2>2. ASSUME NEW n, DropEntry(n) PROVE Shape'
    <3>1. file' = Without(file, n) /\ UNCHANGED <<conf, app, route, answer>>
      BY <2>2 DEF DropEntry
    <3>2. FileOK(file')
      BY <1>0, <3>1, WithoutIs DEF FileOK
    <3> QED BY <3>1, <3>2, ShapeFile
  <2>3. ASSUME NEW n \in Names, Command(n, FALSE) PROVE Shape'
    BY <2>3, ShapeCommand
  <2> QED BY <1>2, <2>1, <2>2, <2>3 DEF ByHand
<1>3. CASE \/ SaveNumber \/ disable_ssl_support \/ CertificateGone \/ AnalyzerStops
           \/ \E port \in scene.ports : enable_ssl_support(port)
  <2>1. UNCHANGED vars
    BY <1>3 DEF SaveNumber, validate_and_write, disable_ssl_support, CertificateGone, AnalyzerStops, enable_ssl_support
  <2> QED BY <1>same, <2>1
<1>4. CASE HeadTakes
  <2>1. Command(cmd.name, TRUE) /\ cmd # Idle
    BY <1>4 DEF HeadTakes, Command
  <2>2. cmd.name \in Names
    BY <2>1 DEF Forms
  <2> QED BY <2>1, <2>2, ShapeCommand
<1>5. CASE Reply \/ HungUp
  <2>1. cmd.taken /\ answer' = [answer EXCEPT ![cmd.name] = "none"] /\ UNCHANGED <<file, conf, app, route>>
    BY <1>5 DEF Reply, HungUp, Over
  <2>2. cmd.name \in Names
    BY <2>1 DEF Forms, Idle
  <2>3. "none" \in Answers
    BY DEF Answers
  <2> QED BY <2>1, <2>2, <2>3, ShapeAnswer
<1>6. CASE WorkerStarts
  BY <1>6, ShapeWorker DEF WorkerStarts
<1>7. CASE Restart
  <2> DEFINE panel == SERVER_ADMIN_PANEL(server)
             start == wr_app_init(Listed(file, panel))
  <2>1. panel \in BOOLEAN
    BY DEF SERVER_ADMIN_PANEL
  <2>2. /\ UNCHANGED file /\ conf' = start.conf /\ app' = start.app
        /\ route' = start.route /\ answer' = start.answer
    BY <1>7 DEF Restart
  <2> HIDE DEF panel
  <2>3. start = wr_app_init(Listed(file, panel))
    OBVIOUS
  <2> HIDE DEF start
  <2> QED BY <1>0, <2>1, <2>2, <2>3, ShapeStart
<1>8. CASE UNCHANGED allVars
  BY <1>same, <1>8 DEF allVars
<1> QED BY <1>1, <1>2, <1>3, <1>4, <1>5, <1>6, <1>7, <1>8 DEF PanelNext

-----------------------------------------------------------------------------
(* The panel's own state in every step. *)

LEMMA SentIs ==
  ASSUME Forms, ~scene.byhand, UNCHANGED <<scene, certs, analyzer>>, rows' \subseteq Names,
         form' \in [name : Names \cup {Nobody}, id : Nat],
         NEW o1 \in {"ADD", "REMOVE", "RELOAD"}, NEW n \in Names \ {AdminPanel.name}, Send(o1, n)
  PROVE  Forms'
<1>1. cmd' = [op |-> o1, name |-> n, taken |-> FALSE]
  BY DEF Send
<1>2. cmd' \in [op : Ops, name : Names \cup {Nobody}, taken : BOOLEAN] /\ cmd'.op # "none" /\ cmd'.name = n
  BY <1>1 DEF Ops
<1> QED BY <1>2 DEF Forms

LEMMA EntryNames ==
  ASSUME NEW e \in Entries
  PROVE  e.name \in Names \ {AdminPanel.name}
BY EntriesAssumption DEF Names

LEMMA FormsNext ==
  ASSUME Shape, Forms, [PanelNext]_allVars
  PROVE  Forms'
<1>0. FileOK(file) /\ scene.entries \subseteq Entries
  BY ShapeFacts, SceneFacts
<1>f. /\ scene \in Scenes /\ rows \subseteq Names /\ certs \in BOOLEAN /\ analyzer \in BOOLEAN
      /\ form \in [name : Names \cup {Nobody}, id : Nat]
      /\ cmd \in [op : Ops, name : Names \cup {Nobody}, taken : BOOLEAN]
  BY DEF Forms
<1>n. NoForm \in [name : Names \cup {Nobody}, id : Nat]
  BY DEF NoForm
<1>same. ASSUME UNCHANGED <<scene, rows, certs, analyzer, form, cmd>> PROVE Forms'
  BY <1>same DEF Forms
<1>1. CASE Requests
  <2>0. ~scene.byhand
    BY <1>1 DEF Requests
  <2>1. ASSUME NEW e \in scene.entries, add_application(e) PROVE Forms'
    <3>1. rows' = rows \cup {e.name} /\ UNCHANGED <<scene, certs, analyzer, form>>
          /\ (Send("ADD", e.name) \/ UNCHANGED cmd)
      BY <2>1 DEF add_application
    <3>2. e.name \in Names \ {AdminPanel.name}
      BY <1>0, EntryNames
    <3>3. CASE Send("ADD", e.name)
      BY <1>f, <2>0, <3>1, <3>2, <3>3, SentIs
    <3>4. CASE UNCHANGED cmd
      BY <1>f, <3>1, <3>2, <3>4 DEF Forms
    <3> QED BY <3>1, <3>3, <3>4
  <2>2. ASSUME NEW e \in scene.entries, edit_application(e) PROVE Forms'
    <3>1. Send("RELOAD", e.name) /\ form' = NoForm /\ UNCHANGED <<scene, certs, analyzer, rows>>
      BY <2>2 DEF edit_application
    <3>2. e.name \in Names \ {AdminPanel.name}
      BY <1>0, EntryNames
    <3> QED BY <1>f, <1>n, <2>0, <3>1, <3>2, SentIs
  <2>3. ASSUME NEW i \in DOMAIN file, OpenForm(i) PROVE Forms'
    <3>1. form' = [name |-> file[i].name, id |-> i] /\ UNCHANGED <<scene, rows, certs, analyzer, cmd>>
      BY <2>3 DEF OpenForm
    <3>2. file[i] \in Entries /\ i \in Nat
      BY <1>0 DEF FileOK
    <3>3. file[i].name \in Names
      BY <3>2, EntryNames
    <3> QED BY <3>1, <3>2, <3>3 DEF Forms
  <2>4. ASSUME NEW n \in Names \ {AdminPanel.name}, delete_application(n) PROVE Forms'
    <3>1. rows' = rows \ {n} /\ UNCHANGED <<scene, certs, analyzer, form>>
          /\ (Send("REMOVE", n) \/ UNCHANGED cmd)
      BY <2>4 DEF delete_application
    <3>2. rows' \subseteq Names
      BY <1>f, <3>1
    <3>3. CASE Send("REMOVE", n)
      BY <1>f, <2>0, <3>1, <3>2, <3>3, SentIs
    <3>4. CASE UNCHANGED cmd
      BY <1>f, <3>1, <3>2, <3>4 DEF Forms
    <3> QED BY <3>1, <3>3, <3>4
  <2>5. ASSUME NEW n \in Names \ {AdminPanel.name}, restart_application(n) PROVE Forms'
    <3>1. Send("RELOAD", n) /\ UNCHANGED <<scene, rows, certs, analyzer, form>>
      BY <2>5 DEF restart_application
    <3> QED BY <1>f, <2>0, <3>1, SentIs
  <2>6. ASSUME NEW n \in Names \ {AdminPanel.name}, stop_application(n) PROVE Forms'
    <3>1. Send("REMOVE", n) /\ UNCHANGED <<scene, rows, certs, analyzer, form>>
      BY <2>6 DEF stop_application
    <3> QED BY <1>f, <2>0, <3>1, SentIs
  <2> QED BY <1>1, <2>1, <2>2, <2>3, <2>4, <2>5, <2>6 DEF Requests
<1>2. CASE ByHand
  BY <1>same, <1>2 DEF ByHand, panelVars
<1>3. CASE SaveNumber \/ disable_ssl_support \/ \E port \in scene.ports : enable_ssl_support(port)
  <2>1. UNCHANGED <<scene, rows, certs, analyzer, form, cmd>>
    <3>1. ASSUME NEW field, NEW d, validate_and_write(field, d)
          PROVE  UNCHANGED <<scene, rows, certs, analyzer, form, cmd>>
      BY <3>1 DEF validate_and_write
    <3>2. ASSUME disable_ssl_support PROVE UNCHANGED <<scene, rows, certs, analyzer, form, cmd>>
      BY <3>2 DEF disable_ssl_support
    <3>3. ASSUME NEW port, enable_ssl_support(port)
          PROVE  UNCHANGED <<scene, rows, certs, analyzer, form, cmd>>
      BY <3>3 DEF enable_ssl_support
    <3> QED BY <1>3, <3>1, <3>2, <3>3 DEF SaveNumber
  <2> QED BY <1>same, <2>1
<1>4. CASE CertificateGone \/ AnalyzerStops
  <2>1. UNCHANGED <<scene, rows, form, cmd>> /\ certs' \in BOOLEAN /\ analyzer' \in BOOLEAN
    <3>1. CASE CertificateGone
      BY <1>f, <3>1 DEF CertificateGone
    <3>2. CASE AnalyzerStops
      BY <1>f, <3>2 DEF AnalyzerStops
    <3> QED BY <1>4, <3>1, <3>2
  <2> QED BY <1>f, <2>1 DEF Forms
<1>5. CASE HeadTakes
  <2>1. cmd # Idle /\ cmd' = [cmd EXCEPT !.taken = TRUE] /\ UNCHANGED <<certs, rows, analyzer, form, scene>>
    BY <1>5 DEF HeadTakes
  <2>2. cmd' \in [op : Ops, name : Names \cup {Nobody}, taken : BOOLEAN] /\ cmd'.op = cmd.op /\ cmd'.name = cmd.name
    BY <1>f, <2>1
  <2> QED BY <2>1, <2>2 DEF Forms
<1>6. CASE Reply \/ HungUp \/ Restart
  <2>1. cmd' = Idle /\ UNCHANGED <<certs, rows, analyzer, form, scene>>
    BY <1>6 DEF Reply, HungUp, Over, Restart
  <2>2. Idle \in [op : Ops, name : Names \cup {Nobody}, taken : BOOLEAN]
    BY DEF Idle, Ops
  <2> QED BY <1>f, <2>1, <2>2 DEF Forms
<1>7. CASE WorkerStarts
  BY <1>same, <1>7 DEF WorkerStarts, panelVars
<1>8. CASE UNCHANGED allVars
  BY <1>same, <1>8 DEF allVars, panelVars
<1> QED BY <1>1, <1>2, <1>3, <1>4, <1>5, <1>6, <1>7, <1>8 DEF PanelNext

LEMMA NumbersNext ==
  ASSUME Forms, Numbers, [PanelNext]_allVars
  PROVE  Numbers'
<1>s. /\ server \in Servers /\ server.port \in Nat /\ server.min_worker \in Nat /\ server.max_worker \in Nat
      /\ server.ssl \in Ssls /\ server.ssl.port \in Int /\ server.ssl.support \in Supports
      /\ server.ssl.certificate \in BOOLEAN
  BY DEF Numbers, Servers, Ssls
<1>n. /\ server.min_worker <= 20 /\ server.max_worker <= 20 /\ server.min_worker <= server.max_worker
      /\ server.port \in 1..MaxPort
      /\ server.ssl.support = "enabled" => server.ssl.certificate /\ server.ssl.port \in 1..MaxPort
  BY DEF Numbers, wr_config_server_set, ALLOWED_MAX_WORKERS
<1>m. MaxPort \in Nat /\ MaxPort >= 65535 /\ MaxPort <= 65536
  BY DEF MaxPort
<1>same. ASSUME UNCHANGED server PROVE Numbers'
  BY <1>same DEF Numbers, wr_config_server_set
<1>ok. ASSUME server' \in Servers, server'.min_worker <= 20, server'.max_worker <= 20,
              server'.min_worker <= server'.max_worker, server'.port \in 1..MaxPort,
              server'.ssl.support = "enabled" => server'.ssl.certificate /\ server'.ssl.port \in 1..MaxPort
       PROVE  Numbers'
  <2>1. server'.port >= 0 /\ server'.port <= 65536
    BY <1>m, <1>ok
  <2> QED BY <1>ok, <2>1 DEF Numbers, wr_config_server_set, ALLOWED_MAX_WORKERS
<1>1. CASE Requests
  BY <1>same, <1>1 DEF Requests, add_application, edit_application, OpenForm, delete_application,
                      restart_application, stop_application
<1>2. CASE ByHand \/ WorkerStarts
  BY <1>same, <1>2 DEF ByHand, WorkerStarts, panelVars
<1>3. ASSUME NEW field \in {"port_div", "ssl_port_div", "min_pro_div", "max_pro_div"}, NEW d \in Nat,
             validate_and_write(field, d)
      PROVE  Numbers'
  <2>1. Allowed(field, d) /\ server' = Saved(field, d)
    BY <1>3 DEF validate_and_write
  <2>2. CASE field = "port_div"
    <3>1. d > 0 /\ d < 65535 /\ server' = [server EXCEPT !.port = d]
      BY <2>1, <2>2 DEF Allowed, Saved
    <3>2. server' \in Servers /\ server'.port = d /\ server'.min_worker = server.min_worker
          /\ server'.max_worker = server.max_worker /\ server'.ssl = server.ssl
      BY <1>s, <3>1 DEF Servers
    <3>3. d \in 1..MaxPort
      BY <1>m, <3>1
    <3> QED BY <1>n, <1>ok, <3>2, <3>3
  <2>3. CASE field = "min_pro_div"
    <3>1. d > 0 /\ d <= 20 /\ d <= server.max_worker /\ server' = [server EXCEPT !.min_worker = d]
      BY <2>1, <2>3 DEF Allowed, Saved, ALLOWED_MAX_WORKERS
    <3>2. server' \in Servers /\ server'.port = server.port /\ server'.min_worker = d
          /\ server'.max_worker = server.max_worker /\ server'.ssl = server.ssl
      BY <1>s, <3>1 DEF Servers
    <3> QED BY <1>n, <1>ok, <3>1, <3>2
  <2>4. CASE field = "max_pro_div"
    <3>1. d > 0 /\ d <= 20 /\ d >= server.min_worker /\ server' = [server EXCEPT !.max_worker = d]
      BY <2>1, <2>4 DEF Allowed, Saved, ALLOWED_MAX_WORKERS
    <3>2. server' \in Servers /\ server'.port = server.port /\ server'.min_worker = server.min_worker
          /\ server'.max_worker = d /\ server'.ssl = server.ssl
      BY <1>s, <3>1 DEF Servers
    <3>3. server.min_worker <= d
      BY <1>s, <3>1
    <3> QED BY <1>n, <1>ok, <3>1, <3>2, <3>3
  <2>5. CASE field = "ssl_port_div"
    <3>1. d > 0 /\ d < 65535 /\ server' = [server EXCEPT !.ssl.port = d]
      BY <2>1, <2>5 DEF Allowed, Saved
    <3>2. d \in 1..MaxPort /\ d \in Int
      BY <1>m, <3>1
    <3> DEFINE s2 == [server.ssl EXCEPT !.port = d]
    <3>3. s2 \in Ssls /\ s2.port = d /\ s2.support = server.ssl.support /\ s2.certificate = server.ssl.certificate
      BY <1>s, <3>2 DEF Ssls
    <3>4. server' = [server EXCEPT !.ssl = s2]
      BY <3>1
    <3> HIDE DEF s2
    <3>5. server' \in Servers /\ server'.port = server.port /\ server'.min_worker = server.min_worker
          /\ server'.max_worker = server.max_worker /\ server'.ssl = s2
      BY <1>s, <3>3, <3>4 DEF Servers
    <3> QED BY <1>n, <1>ok, <3>2, <3>3, <3>5
  <2> QED BY <2>2, <2>3, <2>4, <2>5
<1>4. CASE SaveNumber
  BY <1>3, <1>4, SceneFacts DEF SaveNumber
<1>5. ASSUME NEW s2 \in Ssls, s2.support = "enabled" => s2.certificate /\ s2.port \in 1..MaxPort,
             server' = [server EXCEPT !.ssl = s2]
      PROVE  Numbers'
  <2>1. server' \in Servers /\ server'.port = server.port /\ server'.min_worker = server.min_worker
        /\ server'.max_worker = server.max_worker /\ server'.ssl = s2
    BY <1>s, <1>5 DEF Servers
  <2> QED BY <1>n, <1>ok, <1>5, <2>1
<1>6. CASE disable_ssl_support
  <2> DEFINE s2 == [SslOff EXCEPT !.support = "disabled"]
  <2>1. s2 \in Ssls /\ s2.support = "disabled"
    <3>1. -1 \in Int /\ "" \in Supports /\ "disabled" \in Supports
      BY DEF Supports
    <3>2. SslOff \in Ssls
      BY <3>1 DEF SslOff, Ssls
    <3> QED BY <3>1, <3>2 DEF Ssls
  <2>2. server' = [server EXCEPT !.ssl = s2]
    BY <1>6 DEF disable_ssl_support
  <2> HIDE DEF s2
  <2> QED BY <1>5, <2>1, <2>2
<1>7. ASSUME NEW port \in scene.ports, enable_ssl_support(port) PROVE Numbers'
  <2> DEFINE s2 == [support |-> "enabled", port |-> port, certificate |-> TRUE]
  <2>1. port >= 1 /\ port <= 65535 /\ server' = [server EXCEPT !.ssl = s2]
    BY <1>7 DEF enable_ssl_support, validate_ssl, validates_value
  <2>2. port \in 1..MaxPort /\ port \in Int
    <3>1. port \in Nat
      BY SceneFacts
    <3> QED BY <1>m, <2>1, <3>1
  <2>3. s2 \in Ssls /\ s2.certificate /\ s2.port \in 1..MaxPort
    BY <2>2 DEF Ssls, Supports
  <2> HIDE DEF s2
  <2> QED BY <1>5, <2>1, <2>3
<1>8. CASE CertificateGone \/ AnalyzerStops \/ HeadTakes \/ Reply \/ HungUp \/ Restart
  BY <1>same, <1>8 DEF CertificateGone, AnalyzerStops, HeadTakes, Reply, HungUp, Over, Restart
<1>9. CASE UNCHANGED allVars
  BY <1>same, <1>9 DEF allVars, panelVars
<1> QED BY <1>1, <1>2, <1>4, <1>6, <1>7, <1>8, <1>9 DEF PanelNext

-----------------------------------------------------------------------------
(* What the panel writes to config.yml. *)

Apart(a, b) ==
  a.name # b.name /\ (a.uri # NoUri => a.uri # b.uri) /\ ToSet(a.hosts) \cap ToSet(b.hosts) = {}
AllApart(f) == \A i, j \in DOMAIN f : i # j => Apart(f[i], f[j])

LEMMA ApartBoth ==
  ASSUME NEW a, NEW b, Apart(a, b)
  PROVE  Apart(b, a)
BY DEF Apart

LEMMA UniqueIs == UniqueInFile <=> (scene.byhand \/ AllApart(file))
BY DEF UniqueInFile, AllApart, Apart

(* No step changes which administrators there are. *)
LEMMA SceneStays ==
  ASSUME [PanelNext]_allVars
  PROVE  scene' = scene
<1>1. CASE Requests
  BY <1>1 DEF Requests, add_application, edit_application, OpenForm, delete_application,
              restart_application, stop_application
<1>2. CASE ByHand \/ WorkerStarts
  BY <1>2 DEF ByHand, WorkerStarts, panelVars
<1>3. ASSUME NEW field, NEW d, validate_and_write(field, d) PROVE scene' = scene
  BY <1>3 DEF validate_and_write
<1>4. CASE SaveNumber
  BY <1>3, <1>4 DEF SaveNumber
<1>5. CASE disable_ssl_support
  BY <1>5 DEF disable_ssl_support
<1>6. ASSUME NEW port, enable_ssl_support(port) PROVE scene' = scene
  BY <1>6 DEF enable_ssl_support
<1>7. CASE CertificateGone \/ AnalyzerStops \/ HeadTakes \/ Reply \/ HungUp \/ Restart
  BY <1>7 DEF CertificateGone, AnalyzerStops, HeadTakes, Reply, HungUp, Over, Restart
<1>8. CASE UNCHANGED allVars
  BY <1>8 DEF allVars, panelVars
<1> QED BY <1>1, <1>2, <1>4, <1>5, <1>6, <1>7, <1>8 DEF PanelNext

(* What a step can do to the file when nobody writes it by hand, and that  *)
(* the panel writes it only while it waits for nothing.                    *)
LEMMA FileSteps ==
  ASSUME Shape, Forms, [PanelNext]_allVars, ~scene.byhand
  PROVE  \/ UNCHANGED file
         \/ /\ cmd = Idle /\ UNCHANGED <<conf, app, route, answer>>
            /\ \/ \E e \in Entries : ensure_validations(e, NoId) /\ file' = Append(file, e)
               \/ \E e \in Entries, id \in Nat : /\ ensure_validations(e, id) /\ InFile(e.name) # {}
                                                 /\ file' = [file EXCEPT ![PlaceOf(e.name)] = e]
               \/ \E n \in Names : file' = Without(file, n)
<1>0. scene.entries \subseteq Entries /\ form.id \in Nat
  BY SceneFacts DEF Forms
<1>1. CASE Requests
  <2>1. ASSUME NEW e \in scene.entries, add_application(e)
        PROVE  /\ cmd = Idle /\ UNCHANGED <<conf, app, route, answer>>
               /\ e \in Entries /\ ensure_validations(e, NoId) /\ file' = Append(file, e)
    BY <1>0, <2>1 DEF add_application, Serves
  <2>2. ASSUME NEW e \in scene.entries, edit_application(e)
        PROVE  /\ cmd = Idle /\ UNCHANGED <<conf, app, route, answer>>
               /\ e \in Entries /\ ensure_validations(e, form.id) /\ InFile(e.name) # {}
               /\ file' = [file EXCEPT ![PlaceOf(e.name)] = e]
    BY <1>0, <2>2 DEF edit_application, Serves
  <2>3. ASSUME NEW i \in DOMAIN file, OpenForm(i) PROVE UNCHANGED file
    BY <2>3 DEF OpenForm, vars
  <2>4. ASSUME NEW n \in Names \ {AdminPanel.name}, delete_application(n)
        PROVE  UNCHANGED file \/ (cmd = Idle /\ UNCHANGED <<conf, app, route, answer>> /\ file' = Without(file, n))
    BY <2>4 DEF delete_application, Serves
  <2>5. ASSUME NEW n, restart_application(n) \/ stop_application(n) PROVE UNCHANGED file
    BY <2>5 DEF restart_application, stop_application, vars
  <2>6. CASE \E e \in scene.entries : add_application(e)
    <3>1. PICK e \in scene.entries : add_application(e)
      BY <2>6
    <3> QED BY <2>1, <3>1
  <2>7. CASE \E e \in scene.entries : edit_application(e)
    <3>1. PICK e \in scene.entries : edit_application(e)
      BY <2>7
    <3>2. /\ cmd = Idle /\ UNCHANGED <<conf, app, route, answer>>
          /\ e \in Entries /\ ensure_validations(e, form.id) /\ InFile(e.name) # {}
          /\ file' = [file EXCEPT ![PlaceOf(e.name)] = e]
      BY <2>2, <3>1
    <3>3. \E x \in Entries, id \in Nat : /\ ensure_validations(x, id) /\ InFile(x.name) # {}
                                         /\ file' = [file EXCEPT ![PlaceOf(x.name)] = x]
      BY <1>0, <3>2
    <3> QED BY <3>2, <3>3
  <2> QED BY <1>1, <2>3, <2>4, <2>5, <2>6, <2>7 DEF Requests
<1>2. CASE ByHand
  <2>1. PICK n \in Names : Command(n, FALSE)
    BY <1>2 DEF ByHand
  <2> QED BY <2>1 DEF Command, wr_app_add_cb, wr_app_remove_cb, wr_app_reload_cb
<1>3. ASSUME NEW field, NEW d, validate_and_write(field, d) PROVE UNCHANGED file
  BY <1>3 DEF validate_and_write, vars
<1>4. CASE SaveNumber
  BY <1>3, <1>4 DEF SaveNumber
<1>5. CASE disable_ssl_support
  BY <1>5 DEF disable_ssl_support, vars
<1>6. ASSUME NEW port, enable_ssl_support(port) PROVE UNCHANGED file
  BY <1>6 DEF enable_ssl_support, vars
<1>7. CASE CertificateGone \/ AnalyzerStops \/ Reply \/ HungUp \/ Restart
  BY <1>7 DEF CertificateGone, AnalyzerStops, Reply, HungUp, Over, Restart, vars
<1>8. CASE HeadTakes
  BY <1>8 DEF HeadTakes, wr_app_add_cb, wr_app_remove_cb, wr_app_reload_cb
<1>9. CASE WorkerStarts
  BY <1>9 DEF WorkerStarts, WorkerCame, wr_app_wkr_insert, wr_app_wkr_error, wr_app_wkr_balance
<1>10. CASE UNCHANGED allVars
  BY <1>10 DEF allVars, vars
<1> QED BY <1>1, <1>2, <1>4, <1>5, <1>6, <1>7, <1>8, <1>9, <1>10 DEF PanelNext

LEMMA UniqueNext ==
  ASSUME Shape, Forms, UniqueInFile, [PanelNext]_allVars
  PROVE  UniqueInFile'
<1>1. scene' = scene
  BY SceneStays
<1>2. CASE scene.byhand
  BY <1>1, <1>2 DEF UniqueInFile
<1>3. CASE ~scene.byhand
  <2>0. FileOK(file) /\ file \in Seq(Entries) /\ Len(file) \in Nat /\ DOMAIN file = 1..Len(file)
    BY ShapeFacts DEF FileOK
  <2>1. AllApart(file)
    BY <1>3, UniqueIs
  <2>2. ASSUME NEW e \in Entries, ensure_validations(e, NoId), file' = Append(file, e) PROVE AllApart(file')
    <3>1. \A i \in DOMAIN file : Apart(file[i], e) /\ Apart(e, file[i])
      BY <2>0, <2>2, NewIsNew DEF Apart
    <3>2. \A i \in DOMAIN file' : (i \in DOMAIN file /\ file'[i] = file[i]) \/ (i = Len(file) + 1 /\ file'[i] = e)
      BY <2>0, <2>2
    <3> QED BY <2>1, <3>1, <3>2 DEF AllApart
  <2>3. ASSUME NEW e \in Entries, NEW id, ensure_validations(e, id), InFile(e.name) # {},
               file' = [file EXCEPT ![PlaceOf(e.name)] = e]
        PROVE  AllApart(file')
    <3>1. \A i \in DOMAIN file : i # PlaceOf(e.name) => Apart(file[i], e) /\ Apart(e, file[i])
      BY <2>0, <2>3, EditIsInPlace DEF Apart
    <3>2. DOMAIN file' = DOMAIN file /\ \A i \in DOMAIN file : file'[i] = IF i = PlaceOf(e.name) THEN e ELSE file[i]
      BY <2>0, <2>3, EditedFile
    <3> QED BY <2>1, <3>1, <3>2 DEF AllApart
  <2>4. ASSUME NEW n, file' = Without(file, n) PROVE AllApart(file')
    <3> DEFINE I == {i \in DOMAIN file : file[i].name # n}
    <3>1. I \subseteq DOMAIN file /\ file' = Kept(file, I)
      BY <2>4 DEF Without
    <3>2. \A p, q \in I : p < q => Apart(file[p], file[q]) /\ Apart(file[q], file[p])
      BY <2>0, <2>1 DEF AllApart
    <3> HIDE DEF I
    <3>3. /\ Kept(file, I) \in Seq(Entries)
          /\ \A i, j \in DOMAIN Kept(file, I) : i < j =>
               \E p, q \in I : p < q /\ Kept(file, I)[i] = file[p] /\ Kept(file, I)[j] = file[q]
      BY <2>0, <3>1, KeptElements
    <3> DEFINE t == Kept(file, I)
    <3>4. \A i, j \in DOMAIN t : i < j => Apart(t[i], t[j]) /\ Apart(t[j], t[i])
      BY <3>2, <3>3
    <3>5. \A i, j \in DOMAIN t : i # j => i < j \/ j < i
      BY <3>3
    <3> HIDE DEF t
    <3>6. AllApart(t)
      BY <3>4, <3>5 DEF AllApart
    <3> QED BY <3>1, <3>6 DEF t
  <2>5. AllApart(file')
    BY <1>3, <2>1, <2>2, <2>3, <2>4, FileSteps
  <2> QED BY <1>1, <2>5 DEF UniqueInFile, AllApart, Apart
<1> QED BY <1>2, <1>3

-----------------------------------------------------------------------------
(* The steps of the head, from outside. *)

Changes(n, a, b) == app' = [app EXCEPT ![n] = a] /\ answer' = [answer EXCEPT ![n] = b]

LEMMA ChangesIs ==
  ASSUME Shape, NEW n \in Names, NEW a, NEW b, Changes(n, a, b)
  PROVE  /\ app'[n] = a /\ answer'[n] = b
         /\ \A m \in Names : m # n => app'[m] = app[m] /\ answer'[m] = answer[m]
<1>1. app \in [Names -> Record] /\ answer \in [Names -> Answers]
  BY ShapeFacts
<1> QED BY <1>1 DEF Changes

LEMMA ConfIs ==
  ASSUME Shape
  PROVE  conf \in Seq(Apps) /\ Distinct(conf) /\ NamesOf(ToSet(conf)) = RunningIn(app) /\ ToSet(conf) \subseteq Apps
<1>1. conf \in Seq(Apps) /\ Distinct(conf) /\ NamesOf(ToSet(conf)) = RunningIn(app)
  BY DEF Shape, ListsOK
<1> QED BY <1>1 DEF ToSet

LEMMA SameApp ==
  ASSUME Shape, NEW n \in Names
  PROVE  app = [app EXCEPT ![n] = app[n]] /\ answer = [answer EXCEPT ![n] = answer[n]]
BY ShapeFacts

(* A command is refused, starts an application, reloads it or removes it. *)
Refusal(n, mine) ==
  /\ UNCHANGED <<conf, route>>
  /\ \E b : /\ Changes(n, app[n], b) /\ (mine => b = "error")
            /\ b \in {"error", answer[n], Unheard(answer[n])}
Start(n, mine) ==
  /\ ~Running(n) /\ wr_conf_app_read(n) /\ Changes(n, Fresh, After(n, mine, "wait"))
  /\ ToSet(conf') = {Read(n)} \cup ToSet(conf) /\ route' = wr_req_resolver_add(route, Read(n))
Reload(n, mine) ==
  /\ Running(n) /\ wr_conf_app_read(n) /\ UNCHANGED <<conf, route>>
  /\ Changes(n, [state |-> "restart", new |-> <<Read(n)>>], After(n, mine, "wait"))
Removal(n, mine) ==
  /\ Running(n) /\ Changes(n, Stopped, After(n, mine, "ok"))
  /\ ToSet(conf') = {c \in ToSet(conf) : c.name # n} /\ route' = wr_req_resolver_remove(route, n)

LEMMA CommandIs ==
  ASSUME Shape, NEW n \in Names, NEW mine \in BOOLEAN, Command(n, mine)
  PROVE  UNCHANGED file /\ (Refusal(n, mine) \/ Start(n, mine) \/ Reload(n, mine) \/ Removal(n, mine))
<1>0. "ok" \in Answers /\ "wait" \in Answers
  BY DEF Answers
<1>1. ASSUME Refused(n, mine) \/ Displaced(n, mine)
      PROVE  Refusal(n, mine)
  <2>1. UNCHANGED <<conf, app, route>>
    BY <1>1, RefusedIs
  <2>2. PICK b \in Answers : /\ answer' = [answer EXCEPT ![n] = b]
                             /\ b = "error" \/ (~mine /\ b \in {answer[n], Unheard(answer[n])})
                             /\ mine => b = "error"
    BY <1>1, RefusedIs
  <2>3. Changes(n, app[n], b)
    BY <2>1, <2>2, SameApp DEF Changes
  <2> QED BY <2>1, <2>2, <2>3 DEF Refusal
<1>2. ASSUME wr_conf_app_read(n), ~Running(n), wr_app_insert(n, mine)
      PROVE  Start(n, mine)
  <2>1. Read(n) \in Apps /\ conf \in Seq(Apps)
    BY <1>2, ShapeFacts, ReadIs, ConfIs
  <2>a. answer' = [answer EXCEPT ![n] = After(n, mine, "wait")]
    BY <1>0, <1>2, AnswerIs DEF wr_app_insert
  <2>2. /\ conf' = <<Read(n)>> \o conf /\ Changes(n, Fresh, After(n, mine, "wait"))
        /\ route' = wr_req_resolver_add(route, Read(n))
    BY <1>2, <2>a DEF wr_app_insert, Changes
  <2>3. ToSet(<<Read(n)>> \o conf) = {Read(n)} \cup ToSet(conf)
    BY <2>1, ConsSpec
  <2> QED BY <1>2, <2>2, <2>3 DEF Start
<1>3. ASSUME Running(n), wr_app_remove(n), Answer(n, mine, "ok")
      PROVE  Removal(n, mine)
  <2>1. ToSet(Without(conf, n)) = {c \in ToSet(conf) : c.name # n}
    BY ConfIs, WithoutIs
  <2>2. answer' = [answer EXCEPT ![n] = After(n, mine, "ok")]
    BY <1>0, <1>3, AnswerIs
  <2> QED BY <1>3, <2>1, <2>2 DEF wr_app_remove, Changes, Removal
<1>4. CASE wr_app_add_cb(n, mine)
  <2>1. /\ UNCHANGED file
        /\ \/ ~Running(n) /\ wr_conf_app_read(n) /\ wr_app_insert(n, mine)
           \/ Refused(n, mine) \/ Displaced(n, mine)
    BY <1>4 DEF wr_app_add_cb
  <2> QED BY <1>1, <1>2, <2>1
<1>5. CASE wr_app_reload_cb(n, mine)
  <2>1. UNCHANGED file
    BY <1>5 DEF wr_app_reload_cb
  <2>2. CASE ~wr_conf_app_read(n)
    <3>1. Refused(n, mine)
      BY <1>5, <2>2 DEF wr_app_reload_cb
    <3> QED BY <1>1, <2>1, <3>1
  <2>3. CASE wr_conf_app_read(n) /\ ~Running(n)
    <3>1. wr_app_insert(n, mine)
      BY <1>5, <2>3 DEF wr_app_reload_cb
    <3> QED BY <1>2, <2>1, <2>3, <3>1
  <2>4. CASE wr_conf_app_read(n) /\ Running(n)
    <3>0. /\ app' = [app EXCEPT ![n] = [state |-> "restart", new |-> <<Read(n)>>]]
          /\ Answer(n, mine, "wait") /\ UNCHANGED <<conf, route>>
      BY <1>5, <2>4 DEF wr_app_reload_cb
    <3>1. Changes(n, [state |-> "restart", new |-> <<Read(n)>>], After(n, mine, "wait"))
      BY <1>0, <3>0, AnswerIs DEF Changes
    <3> QED BY <2>1, <2>4, <3>0, <3>1 DEF Reload
  <2> QED BY <2>2, <2>3, <2>4
<1>6. CASE wr_app_remove_cb(n, mine)
  <2>1. UNCHANGED file /\ ((Running(n) /\ wr_app_remove(n) /\ Answer(n, mine, "ok")) \/ Refused(n, mine))
    BY <1>6 DEF wr_app_remove_cb
  <2> QED BY <1>1, <1>3, <2>1
<1> QED BY <1>4, <1>5, <1>6 DEF Command

(* A command changes one application, and takes no other one's             *)
(* configuration; unless it is the panel's, or changes nothing, it takes   *)
(* the panel's answer.                                                     *)
LEMMA CommandChanges ==
  ASSUME Shape, NEW n \in Names, NEW mine \in BOOLEAN, Command(n, mine)
  PROVE  /\ \A c \in ToSet(conf) : c.name # n => c \in ToSet(conf')
         /\ \E a, b : /\ Changes(n, a, b)
                      /\ ~mine => \/ b \notin {"wait", "ok"}
                                  \/ b = answer[n] /\ a = app[n] /\ UNCHANGED conf
<1>0. /\ Overtaken(answer[n]) \notin {"wait", "ok"} /\ Unheard(answer[n]) \in {answer[n], "lost"}
  BY ShapeFacts, OvertakenIs
<1>1. CASE Refusal(n, mine)
  <2>1. PICK b : Changes(n, app[n], b) /\ b \in {"error", answer[n], Unheard(answer[n])}
    BY <1>1 DEF Refusal
  <2>2. UNCHANGED conf
    BY <1>1 DEF Refusal
  <2>3. b \notin {"wait", "ok"} \/ b = answer[n]
    BY <1>0, <2>1
  <2> QED BY <2>1, <2>2, <2>3
<1>2. ASSUME NEW w, NEW a, Changes(n, a, After(n, mine, w))
      PROVE  \E x, b : Changes(n, x, b) /\ (~mine => b \notin {"wait", "ok"})
  <2>1. ~mine => After(n, mine, w) \notin {"wait", "ok"}
    BY <1>0 DEF After
  <2> QED BY <1>2, <2>1
<1>3. CASE Start(n, mine)
  BY <1>2, <1>3 DEF Start
<1>4. CASE Reload(n, mine)
  BY <1>2, <1>4 DEF Reload
<1>5. CASE Removal(n, mine)
  BY <1>2, <1>5 DEF Removal
<1> QED BY <1>1, <1>3, <1>4, <1>5, CommandIs

(* A worker comes, and the application serves as it did or as it was told  *)
(* to; or it fails, and the application serves as it did or is gone; or    *)
(* another hangs up, and the application serves as it did.                 *)
LEMMA WorkerIs ==
  ASSUME Shape, NEW n \in Names, WorkerCame(n)
  PROVE  /\ app[n].state \in {"new", "restart"} /\ UNCHANGED file
         /\ \E b : \/ /\ b = (IF answer[n] = "wait" THEN "ok" ELSE answer[n])
                      /\ Changes(n, Served(app[n]), b)
                      /\ \/ app[n].state = "new" /\ UNCHANGED <<conf, route>>
                         \/ /\ app[n].state = "restart"
                            /\ ToSet(conf') = {c \in ToSet(conf) : c.name # n} \cup {app[n].new[1]}
                            /\ route' = wr_req_resolver_add(wr_req_resolver_remove(route, n), app[n].new[1])
                   \/ /\ b = (IF answer[n] = "wait" THEN "error" ELSE answer[n])
                      /\ \/ /\ app[n].state = "restart" /\ Changes(n, Served(app[n]), b) /\ UNCHANGED <<conf, route>>
                         \/ /\ app[n].state = "new" /\ Changes(n, Stopped, b)
                            /\ ToSet(conf') = {c \in ToSet(conf) : c.name # n}
                            /\ route' = wr_req_resolver_remove(route, n)
                   \/ /\ b = (IF answer[n] = "wait" THEN "lost" ELSE answer[n]) /\ app[n].state = "restart"
                      /\ Changes(n, Served(app[n]), b) /\ UNCHANGED <<conf, route>>
<1>0. "ok" \in Answers /\ "error" \in Answers
  BY DEF Answers
<1>1. CASE wr_app_wkr_insert(n)
  <2>1. /\ app[n].state \in {"new", "restart"} /\ UNCHANGED file /\ Tell(n, "ok")
        /\ app' = [app EXCEPT ![n] = Served(@)]
        /\ IF app[n].state = "restart" THEN wr_app_reload(n) ELSE UNCHANGED <<conf, route>>
    BY <1>1 DEF wr_app_wkr_insert
  <2>2. PICK b \in Answers : answer' = [answer EXCEPT ![n] = b] /\ b = (IF answer[n] = "wait" THEN "ok" ELSE answer[n])
    BY <1>0, <2>1, TellIs
  <2>3. Changes(n, Served(app[n]), b)
    BY <2>1, <2>2 DEF Changes
  <2>4. CASE app[n].state = "restart"
    <3>1. wr_app_reload(n)
      BY <2>1, <2>4
    <3>2. ToSet(conf') = {c \in ToSet(conf) : c.name # n} \cup {app[n].new[1]}
      BY <2>1, <2>2, <2>4, <3>1, ShapeReloaded
    <3>3. route' = wr_req_resolver_add(wr_req_resolver_remove(route, n), app[n].new[1])
      BY <3>1 DEF wr_app_reload
    <3> QED BY <2>1, <2>2, <2>3, <2>4, <3>2, <3>3
  <2>5. CASE app[n].state # "restart"
    BY <2>1, <2>2, <2>3, <2>5
  <2> QED BY <2>4, <2>5
<1>2. CASE wr_app_wkr_error(n)
  <2>1. UNCHANGED file /\ Tell(n, "error")
    BY <1>2 DEF wr_app_wkr_error
  <2>2. PICK b \in Answers : answer' = [answer EXCEPT ![n] = b] /\ b = (IF answer[n] = "wait" THEN "error" ELSE answer[n])
    BY <1>0, <2>1, TellIs
  <2>3. CASE app[n].state = "restart" /\ app' = [app EXCEPT ![n] = Served(@)] /\ UNCHANGED <<conf, route>>
    <3>1. Changes(n, Served(app[n]), b)
      BY <2>2, <2>3 DEF Changes
    <3> QED BY <2>1, <2>2, <2>3, <3>1
  <2>4. CASE app[n].state = "new" /\ wr_app_remove(n)
    <3>1. ToSet(Without(conf, n)) = {c \in ToSet(conf) : c.name # n}
      BY ConfIs, WithoutIs
    <3>2. /\ Changes(n, Stopped, b) /\ ToSet(conf') = {c \in ToSet(conf) : c.name # n}
          /\ route' = wr_req_resolver_remove(route, n)
      BY <2>2, <2>4, <3>1 DEF wr_app_remove, Changes
    <3> QED BY <2>1, <2>2, <2>4, <3>2
  <2> QED BY <1>2, <2>3, <2>4 DEF wr_app_wkr_error
<1>3. CASE wr_app_wkr_balance(n)
  <2> DEFINE b == IF answer[n] = "wait" THEN "lost" ELSE answer[n]
  <2>1. app[n].state = "restart" /\ UNCHANGED <<file, conf, route>>
    BY <1>3 DEF wr_app_wkr_balance
  <2>2. Changes(n, Served(app[n]), b)
    BY <1>3 DEF wr_app_wkr_balance, Unheard, Changes
  <2> QED BY <2>1, <2>2
<1> QED BY <1>1, <1>2, <1>3 DEF WorkerCame

(* Every step of the server and its panel, from outside. *)
LEMMA StepIs ==
  ASSUME Shape, Forms, [PanelNext]_allVars
  PROVE  \/ /\ UNCHANGED <<conf, app, route, answer>>
            /\ \/ UNCHANGED <<file, cmd>>
               \/ cmd = Idle /\ cmd'.taken = FALSE
               \/ scene.byhand /\ UNCHANGED cmd
         \/ /\ UNCHANGED <<file, conf, app, route>> /\ cmd' = Idle /\ cmd.taken
            /\ answer' = [answer EXCEPT ![cmd.name] = "none"]
         \/ UNCHANGED cmd /\ \E n \in Names : Command(n, FALSE)
         \/ HeadTakes
         \/ UNCHANGED cmd /\ \E n \in Names : WorkerCame(n)
         \/ Restart
<1>0. Idle.taken = FALSE
  BY DEF Idle
<1>s. ASSUME NEW o1, NEW n, Send(o1, n) PROVE cmd'.taken = FALSE
  BY <1>s DEF Send
<1>q. ASSUME UNCHANGED vars, UNCHANGED cmd PROVE UNCHANGED <<conf, app, route, answer, file, cmd>>
  BY <1>q DEF vars
<1>1. CASE Requests
  <2>1. ASSUME NEW e, add_application(e)
        PROVE  cmd = Idle /\ cmd'.taken = FALSE /\ UNCHANGED <<conf, app, route, answer>>
    BY <1>0, <1>s, <2>1 DEF add_application, Serves
  <2>2. ASSUME NEW e, edit_application(e)
        PROVE  cmd = Idle /\ cmd'.taken = FALSE /\ UNCHANGED <<conf, app, route, answer>>
    BY <1>s, <2>2 DEF edit_application, Serves
  <2>3. ASSUME NEW i, OpenForm(i) PROVE UNCHANGED <<conf, app, route, answer, file, cmd>>
    BY <2>3 DEF OpenForm, vars
  <2>4. ASSUME NEW n, delete_application(n)
        PROVE  cmd = Idle /\ cmd'.taken = FALSE /\ UNCHANGED <<conf, app, route, answer>>
    BY <1>0, <1>s, <2>4 DEF delete_application, Serves
  <2>5. ASSUME NEW n, restart_application(n) \/ stop_application(n)
        PROVE  cmd = Idle /\ cmd'.taken = FALSE /\ UNCHANGED <<conf, app, route, answer>>
    BY <1>s, <2>5 DEF restart_application, stop_application, Serves, vars
  <2> QED BY <1>1, <2>1, <2>2, <2>3, <2>4, <2>5 DEF Requests
<1>2. CASE ByHand
  <2>1. UNCHANGED cmd
    BY <1>2 DEF ByHand, panelVars
  <2>2. ASSUME NEW e, WriteEntry(e) PROVE UNCHANGED <<conf, app, route, answer>>
    BY <2>2 DEF WriteEntry
  <2>3. ASSUME NEW n, DropEntry(n) PROVE UNCHANGED <<conf, app, route, answer>>
    BY <2>3 DEF DropEntry
  <2> QED BY <1>2, <2>1, <2>2, <2>3 DEF ByHand
<1>3. ASSUME NEW field, NEW d, validate_and_write(field, d) PROVE UNCHANGED <<conf, app, route, answer, file, cmd>>
  BY <1>3 DEF validate_and_write, vars
<1>4. CASE SaveNumber
  BY <1>3, <1>4 DEF SaveNumber
<1>5. CASE disable_ssl_support
  BY <1>5, <1>q DEF disable_ssl_support
<1>6. ASSUME NEW port, enable_ssl_support(port) PROVE UNCHANGED <<conf, app, route, answer, file, cmd>>
  BY <1>6 DEF enable_ssl_support, vars
<1>7. CASE CertificateGone
  BY <1>7, <1>q DEF CertificateGone
<1>8. CASE AnalyzerStops
  BY <1>8, <1>q DEF AnalyzerStops
<1>9. CASE Reply \/ HungUp
  BY <1>9 DEF Reply, HungUp, Over
<1>10. CASE WorkerStarts
  BY <1>10 DEF WorkerStarts, panelVars
<1>11. CASE UNCHANGED allVars
  BY <1>11 DEF allVars, panelVars, vars
<1> QED BY <1>1, <1>2, <1>4, <1>5, <1>6, <1>7, <1>8, <1>9, <1>10, <1>11 DEF PanelNext

(* The server after a restart. *)
LEMMA RestartIs ==
  ASSUME Shape, Restart
  PROVE  /\ UNCHANGED file /\ cmd' = Idle
         /\ ToSet(conf') \subseteq ToSet(file) \cup {AdminPanel}
         /\ \A n \in Names : answer'[n] = "none" /\ app'[n].state \in {"new", "none"}
<1> DEFINE panel == SERVER_ADMIN_PANEL(server)
           start == wr_app_init(Listed(file, panel))
<1>1. panel \in BOOLEAN
  BY DEF SERVER_ADMIN_PANEL
<1>2. /\ UNCHANGED file /\ conf' = start.conf /\ app' = start.app /\ answer' = start.answer /\ cmd' = Idle
  BY DEF Restart
<1> HIDE DEF panel
<1>3. start = wr_app_init(Listed(file, panel))
  OBVIOUS
<1> HIDE DEF start
<1>4. FileOK(file)
  BY ShapeFacts
<1>5. /\ start.conf = Listed(file, panel) /\ start.answer = [n \in Names |-> "none"]
      /\ \A n \in Names : start.app[n].state \in {"new", "none"}
  BY <1>1, <1>3, <1>4, StartShape
<1>6. ToSet(Listed(file, panel)) \subseteq ToSet(file) \cup {AdminPanel}
  BY <1>1, <1>4, ListedIs DEF FileOK
<1> QED BY <1>2, <1>5, <1>6

(* A command the head takes is the panel's, for another application. *)
LEMMA HeadTakesIs ==
  ASSUME Shape, Forms, HeadTakes
  PROVE  /\ cmd # Idle /\ ~cmd.taken /\ ~scene.byhand /\ cmd.name \in Names \ {AdminPanel.name}
         /\ Command(cmd.name, TRUE) /\ cmd'.taken /\ cmd'.name = cmd.name /\ cmd'.op = cmd.op
         /\ cmd.op = "REMOVE" => wr_app_remove_cb(cmd.name, TRUE)
         /\ cmd.op # "REMOVE" => wr_app_add_cb(cmd.name, TRUE) \/ wr_app_reload_cb(cmd.name, TRUE)
<1>1. cmd # Idle /\ ~cmd.taken /\ cmd' = [cmd EXCEPT !.taken = TRUE]
      /\ \/ cmd.op = "ADD" /\ wr_app_add_cb(cmd.name, TRUE)
         \/ cmd.op = "REMOVE" /\ wr_app_remove_cb(cmd.name, TRUE)
         \/ cmd.op = "RELOAD" /\ wr_app_reload_cb(cmd.name, TRUE)
  BY DEF HeadTakes
<1>2. cmd \in [op : Ops, name : Names \cup {Nobody}, taken : BOOLEAN] /\ ~scene.byhand
      /\ cmd.name \in Names \ {AdminPanel.name}
  BY <1>1 DEF Forms
<1>3. cmd'.taken /\ cmd'.name = cmd.name /\ cmd'.op = cmd.op
  BY <1>1, <1>2
<1> QED BY <1>1, <1>2, <1>3 DEF Command

LEMMA ReservedNext ==
  ASSUME Shape, Forms, Reserved, [PanelNext]_allVars
  PROVE  Reserved'
<1>1. scene' = scene
  BY SceneStays
<1>2. CASE scene.byhand
  BY <1>1, <1>2 DEF Reserved
<1>3. CASE ~scene.byhand
  <2>0. FileOK(file) /\ file \in Seq(Entries) /\ Distinct(file)
    BY ShapeFacts DEF FileOK
  <2>1. /\ \A e \in ToSet(file) : IsPanels(e)
        /\ \A e \in ToSet(conf) : IsPanels(e)
        /\ \A n \in Names : app[n].state = "restart" => IsPanels(app[n].new[1])
        /\ IsPanels(AdminPanel)
    BY <1>3 DEF Reserved, IsPanels
  <2>2. \A e \in ToSet(file') : IsPanels(e)
    <3>1. ASSUME NEW e \in Entries, ensure_validations(e, NoId), file' = Append(file, e)
          PROVE  \A x \in ToSet(file') : IsPanels(x)
      <4>1. InFile(e.name) = {} /\ e.uri # AdminPanel.uri
        BY <2>0, <3>1, NewIsNew
      <4>2. ToSet(file') = ToSet(file) \cup {e}
        BY <2>0, <3>1, <4>1, FileAppend
      <4> QED BY <2>1, <4>1, <4>2 DEF IsPanels
    <3>2. ASSUME NEW e \in Entries, NEW id, ensure_validations(e, id), InFile(e.name) # {},
                 file' = [file EXCEPT ![PlaceOf(e.name)] = e]
          PROVE  \A x \in ToSet(file') : IsPanels(x)
      <4>1. e.uri # AdminPanel.uri
        BY <3>2 DEF ensure_validations
      <4>2. ToSet(file') \subseteq ToSet(file) \cup {e}
        BY <2>0, <3>2, EditedFile
      <4> QED BY <2>1, <4>1, <4>2 DEF IsPanels
    <3>3. ASSUME NEW n, file' = Without(file, n) PROVE \A x \in ToSet(file') : IsPanels(x)
      <4>1. ToSet(file') = {c \in ToSet(file) : c.name # n}
        BY <2>0, <3>3, WithoutIs
      <4> QED BY <2>1, <4>1
    <3> QED BY <1>3, <2>1, <3>1, <3>2, <3>3, FileSteps
  <2>3. ASSUME NEW n \in Names, NEW mine \in BOOLEAN, Command(n, mine)
        PROVE  /\ \A e \in ToSet(conf') : IsPanels(e)
               /\ \A m \in Names : app'[m].state = "restart" => IsPanels(app'[m].new[1])
    <3>1. ASSUME wr_conf_app_read(n) PROVE IsPanels(Read(n))
      BY <2>0, <2>1, <3>1, ReadIs
    <3>2. CASE (\E b : Changes(n, app[n], b)) /\ UNCHANGED <<conf, route>>
      BY <2>1, <3>2, ChangesIs
    <3>3. CASE /\ wr_conf_app_read(n) /\ \E b : Changes(n, Fresh, b)
               /\ ToSet(conf') = {Read(n)} \cup ToSet(conf)
      <4>1. app'[n].state # "restart" /\ \A m \in Names : m # n => app'[m] = app[m]
        BY <3>3, ChangesIs, RecordFacts
      <4> QED BY <2>1, <3>1, <3>3, <4>1
    <3>4. CASE /\ wr_conf_app_read(n) /\ UNCHANGED <<conf, route>>
               /\ \E b : Changes(n, [state |-> "restart", new |-> <<Read(n)>>], b)
      <4>1. app'[n] = [state |-> "restart", new |-> <<Read(n)>>] /\ \A m \in Names : m # n => app'[m] = app[m]
        BY <3>4, ChangesIs
      <4>2. app'[n].new[1] = Read(n)
        BY <4>1
      <4> QED BY <2>1, <3>1, <3>4, <4>1, <4>2
    <3>5. CASE (\E b : Changes(n, Stopped, b)) /\ ToSet(conf') = {c \in ToSet(conf) : c.name # n}
      <4>1. app'[n].state # "restart" /\ \A m \in Names : m # n => app'[m] = app[m]
        BY <3>5, ChangesIs, RecordFacts
      <4> QED BY <2>1, <3>5, <4>1
    <3>6. CASE Refusal(n, mine)
      BY <3>2, <3>6 DEF Refusal
    <3>7. CASE Start(n, mine)
      BY <3>3, <3>7 DEF Start
    <3>8. CASE Reload(n, mine)
      BY <3>4, <3>8 DEF Reload
    <3>9. CASE Removal(n, mine)
      BY <3>5, <3>9 DEF Removal
    <3> QED BY <2>3, <3>6, <3>7, <3>8, <3>9, CommandIs
  <2>4. ASSUME NEW n \in Names, WorkerCame(n)
        PROVE  /\ \A e \in ToSet(conf') : IsPanels(e)
               /\ \A m \in Names : app'[m].state = "restart" => IsPanels(app'[m].new[1])
    <3>1. app[n] \in Record
      BY ShapeFacts
    <3>2. ASSUME NEW b, Changes(n, Served(app[n]), b) \/ Changes(n, Stopped, b)
          PROVE  app'[n].state # "restart" /\ \A m \in Names : m # n => app'[m] = app[m]
      BY <3>1, <3>2, ChangesIs, RecordFacts
    <3>3. app'[n].state # "restart" /\ \A m \in Names : m # n => app'[m] = app[m]
      BY <2>4, <3>2, WorkerIs
    <3>4. \A e \in ToSet(conf') : e \in ToSet(conf) \/ (app[n].state = "restart" /\ e = app[n].new[1])
      BY <2>4, WorkerIs
    <3> QED BY <2>1, <3>3, <3>4
  <2>5. ASSUME Restart
        PROVE  /\ \A e \in ToSet(conf') : IsPanels(e)
               /\ \A m \in Names : app'[m].state = "restart" => IsPanels(app'[m].new[1])
    BY <2>1, <2>5, RestartIs
  <2>6. /\ \A e \in ToSet(conf') : IsPanels(e)
        /\ \A m \in Names : app'[m].state = "restart" => IsPanels(app'[m].new[1])
    <3>1. CASE UNCHANGED <<conf, app>>
      BY <2>1, <3>1
    <3>2. CASE HeadTakes
      BY <2>3, <3>2, HeadTakesIs
    <3>3. CASE \E n \in Names : Command(n, FALSE)
      BY <2>3, <3>3
    <3> QED BY <1>3, <2>4, <2>5, <3>1, <3>2, <3>3, StepIs
  <2> QED BY <1>1, <2>2, <2>6 DEF Reserved, IsPanels
<1> QED BY <1>2, <1>3

LEMMA IdleIs ==
  /\ Idle.taken = FALSE /\ Idle.name = Nobody /\ Nobody \notin Names
<1>1. \A e \in Entries : e.name # Nobody
  BY EntriesAssumption
<1>2. AdminPanel.name # Nobody
  BY DEF AdminPanel, Nobody
<1> QED BY <1>1, <1>2 DEF Idle, Names

LEMMA WaitingNext ==
  ASSUME Shape, Forms, Waiting, [PanelNext]_allVars
  PROVE  Waiting'
<1>1. \A n \in Names : answer[n] = "wait" => cmd.name = n /\ cmd.taken
  BY DEF Waiting
<1>2. CASE UNCHANGED <<answer, cmd>>
  BY <1>1, <1>2 DEF Waiting
<1>3. CASE UNCHANGED answer /\ cmd = Idle
  BY <1>1, <1>3, IdleIs DEF Waiting
<1>4. CASE cmd.taken /\ cmd' = Idle /\ answer' = [answer EXCEPT ![cmd.name] = "none"]
  <2>1. answer \in [Names -> Answers]
    BY ShapeFacts
  <2>2. \A m \in Names : answer'[m] = IF m = cmd.name THEN "none" ELSE answer[m]
    BY <1>4, <2>1
  <2>3. \A m \in Names : answer'[m] # "wait"
    BY <1>1, <2>2
  <2> QED BY <2>3 DEF Waiting
<1>5. CASE HeadTakes
  <2>1. cmd.name \in Names /\ Command(cmd.name, TRUE) /\ cmd'.taken /\ cmd'.name = cmd.name /\ ~cmd.taken
    BY <1>5, HeadTakesIs
  <2>2. ASSUME NEW a, NEW b, Changes(cmd.name, a, b)
        PROVE  \A m \in Names : m # cmd.name => answer'[m] = answer[m]
    BY <2>1, <2>2, ChangesIs
  <2>3. \A m \in Names : m # cmd.name => answer'[m] = answer[m]
    BY <2>1, <2>2, CommandChanges
  <2> QED BY <1>1, <2>1, <2>3 DEF Waiting
<1>6. ASSUME NEW n \in Names, NEW a, NEW b, Changes(n, a, b), b # "wait" \/ b = answer[n], UNCHANGED cmd
      PROVE  Waiting'
  <2>1. answer'[n] = b /\ \A m \in Names : m # n => answer'[m] = answer[m]
    BY <1>6, ChangesIs
  <2> QED BY <1>1, <1>6, <2>1 DEF Waiting
<1>7. ASSUME NEW n \in Names, Command(n, FALSE), UNCHANGED cmd
      PROVE  Waiting'
  <2>1. PICK a, b : Changes(n, a, b) /\ (b # "wait" \/ b = answer[n])
    BY <1>7, CommandChanges
  <2> QED BY <1>6, <1>7, <2>1
<1>8. ASSUME NEW n \in Names, WorkerCame(n), UNCHANGED cmd
      PROVE  Waiting'
  <2>1. PICK b : /\ b # "wait"
                 /\ Changes(n, Served(app[n]), b) \/ Changes(n, Stopped, b)
    BY <1>8, WorkerIs
  <2> QED BY <1>6, <1>8, <2>1
<1>9. CASE Restart
  BY <1>9, RestartIs DEF Waiting
<1> QED BY <1>2, <1>3, <1>4, <1>5, <1>7, <1>8, <1>9, StepIs

(* What the panel does not touch of an answer. *)
LEMMA SameEntry ==
  ASSUME UNCHANGED file, NEW n
  PROVE  InFile(n)' = InFile(n) /\ Entry(n)' = Entry(n)
BY DEF InFile, Entry

LEMMA AnsweredNext ==
  ASSUME Shape, Forms, Waiting, Answered, [PanelNext]_allVars
  PROVE  Answered'
<1> DEFINE n == cmd.name
<1>0. FileOK(file)
  BY ShapeFacts
<1>t. ASSUME cmd.taken PROVE n \in Names \ {AdminPanel.name} /\ ~scene.byhand
  BY <1>t, IdleIs DEF Forms
<1>1. CASE ~cmd'.taken
  BY <1>1 DEF Answered
<1>2. CASE UNCHANGED <<conf, app, route, answer, file, cmd>>
  BY <1>2 DEF Answered, InFile, Entry, Running
<1>3. CASE HeadTakes
  <2>1. /\ n \in Names \ {AdminPanel.name} /\ cmd'.name = n /\ cmd'.op = cmd.op /\ Command(n, TRUE)
        /\ cmd.op = "REMOVE" => wr_app_remove_cb(n, TRUE)
        /\ cmd.op # "REMOVE" => wr_app_add_cb(n, TRUE) \/ wr_app_reload_cb(n, TRUE)
    BY <1>3, HeadTakesIs
  <2>a. \A w : After(n, TRUE, w) = w
    BY DEF After
  <2>2. UNCHANGED file /\ InFile(n)' = InFile(n) /\ Entry(n)' = Entry(n)
    BY <2>1, CommandIs, SameEntry
  <2>3. CASE cmd.op = "REMOVE"
    <3>1. CASE Running(n)
      <4>1. Changes(n, Stopped, "ok")
        BY <2>1, <2>3, <3>1 DEF wr_app_remove_cb, wr_app_remove, Answer, Changes
      <4>2. answer'[n] = "ok" /\ app'[n].state = "none"
        BY <2>1, <4>1, ChangesIs, RecordFacts
      <4> QED BY <2>1, <2>3, <4>2 DEF Answered, Running
    <3>2. CASE ~Running(n)
      <4>1. Changes(n, app[n], "error")
        BY <2>1, <2>3, <3>2, SameApp DEF wr_app_remove_cb, Refused, Changes
      <4>2. answer'[n] = "error"
        BY <2>1, <4>1, ChangesIs
      <4> QED BY <2>1, <2>3, <4>2 DEF Answered
    <3> QED BY <3>1, <3>2
  <2>4. CASE cmd.op # "REMOVE"
    <3>1. ASSUME wr_conf_app_read(n) PROVE InFile(n) # {} /\ Read(n) = Entry(n)
      BY <1>0, <2>1, <3>1, ReadIs
    <3>2. CASE Changes(n, app[n], "error")
      <4>1. answer'[n] = "error"
        BY <2>1, <3>2, ChangesIs
      <4> QED BY <2>1, <2>4, <4>1 DEF Answered
    <3>3. CASE wr_conf_app_read(n) /\ Changes(n, Fresh, "wait") /\ ToSet(conf') = {Read(n)} \cup ToSet(conf)
      <4>1. answer'[n] = "wait" /\ app'[n].state = "new"
        BY <2>1, <3>3, ChangesIs, RecordFacts
      <4>2. Entry(n)' \in ToSet(conf') /\ InFile(n)' # {}
        BY <2>2, <3>1, <3>3
      <4> QED BY <2>1, <2>4, <4>1, <4>2 DEF Answered
    <3>4. CASE wr_conf_app_read(n) /\ Changes(n, [state |-> "restart", new |-> <<Read(n)>>], "wait")
      <4>1. answer'[n] = "wait" /\ app'[n] = [state |-> "restart", new |-> <<Read(n)>>]
        BY <2>1, <3>4, ChangesIs
      <4>2. app'[n].state = "restart" /\ app'[n].new = <<Entry(n)'>> /\ InFile(n)' # {}
        BY <2>2, <3>1, <3>4, <4>1
      <4> QED BY <2>1, <2>4, <4>1, <4>2 DEF Answered
    <3>5. CASE Changes(n, Stopped, "ok") /\ Running(n)
      <4>1. answer'[n] = "ok"
        BY <2>1, <3>5, ChangesIs
      <4>2. ASSUME wr_app_add_cb(n, TRUE) \/ wr_app_reload_cb(n, TRUE) PROVE answer' # [answer EXCEPT ![n] = "ok"]
        <5>1. answer' = [answer EXCEPT ![n] = "error"] \/ answer' = [answer EXCEPT ![n] = "wait"]
          BY <4>2 DEF wr_app_add_cb, wr_app_reload_cb, Refused, Displaced, wr_app_insert, Answer
        <5>2. answer \in [Names -> Answers]
          BY ShapeFacts
        <5> QED BY <2>1, <5>1, <5>2
      <4> QED BY <2>1, <2>4, <3>5, <4>2 DEF Changes
    <3>6. CASE Refusal(n, TRUE)
      BY <3>2, <3>6 DEF Refusal
    <3>7. CASE Start(n, TRUE)
      BY <2>a, <3>3, <3>7 DEF Start
    <3>8. CASE Reload(n, TRUE)
      BY <2>a, <3>4, <3>8 DEF Reload
    <3>9. CASE Removal(n, TRUE)
      BY <2>a, <3>5, <3>9 DEF Removal
    <3> QED BY <2>1, <3>6, <3>7, <3>8, <3>9, CommandIs
  <2> QED BY <2>3, <2>4
<1>4. ASSUME NEW m \in Names, WorkerCame(m), UNCHANGED cmd, cmd.taken PROVE Answered'
  <2>1. /\ app[m].state \in {"new", "restart"} /\ UNCHANGED file /\ n \in Names
        /\ InFile(n)' = InFile(n) /\ Entry(n)' = Entry(n) /\ app[n] \in Record
    BY <1>4, <1>t, WorkerIs, SameEntry, ShapeFacts
  <2>2. CASE m # n
    <3>1. ASSUME NEW a, NEW b, Changes(m, a, b) PROVE app'[n] = app[n] /\ answer'[n] = answer[n]
      BY <2>1, <2>2, <3>1, ChangesIs
    <3>2. app'[n] = app[n] /\ answer'[n] = answer[n]
      BY <1>4, <3>1, WorkerIs
    <3>3. \A c \in ToSet(conf) : c.name # m => c \in ToSet(conf')
      BY <1>4, WorkerIs
    <3>4. Entry(n) \in ToSet(conf) /\ InFile(n) # {} => Entry(n)' \in ToSet(conf')
      BY <1>0, <2>1, <2>2, <3>3, EntryIs
    <3> QED BY <1>4, <2>1, <3>2, <3>4 DEF Answered, Running
  <2>3. CASE m = n
    <3>1. cmd.op # "REMOVE" => answer[n] # "ok"
      BY <1>4, <2>1, <2>3 DEF Answered
    <3>2. CASE cmd.op = "REMOVE"
      <4>1. answer[n] # "wait" /\ answer[n] # "ok"
        BY <1>4, <2>1, <2>3, <3>2 DEF Answered, Running
      <4>2. ASSUME NEW a, NEW b, Changes(n, a, b) PROVE answer'[n] = b
        BY <2>1, <4>2, ChangesIs
      <4>3. answer'[n] = answer[n]
        BY <1>4, <2>3, <4>1, <4>2, WorkerIs
      <4> QED BY <1>4, <3>2, <4>1, <4>3 DEF Answered
    <3>3. CASE cmd.op # "REMOVE" /\ answer[n] # "wait"
      <4>2. ASSUME NEW a, NEW b, Changes(n, a, b) PROVE answer'[n] = b
        BY <2>1, <4>2, ChangesIs
      <4>3. answer'[n] = answer[n]
        BY <1>4, <2>3, <3>3, <4>2, WorkerIs
      <4> QED BY <1>4, <3>1, <3>3, <4>3 DEF Answered
    <3>4. CASE cmd.op # "REMOVE" /\ answer[n] = "wait"
      <4>0. /\ InFile(n) # {}
            /\ \/ app[n].state = "new" /\ Entry(n) \in ToSet(conf)
               \/ app[n].state = "restart" /\ app[n].new = <<Entry(n)>>
        BY <1>4, <3>4 DEF Answered
      <4>1. CASE \E b : /\ b = "ok" /\ Changes(n, Served(app[n]), b)
                        /\ \/ app[n].state = "new" /\ UNCHANGED <<conf, route>>
                           \/ /\ app[n].state = "restart"
                              /\ ToSet(conf') = {c \in ToSet(conf) : c.name # n} \cup {app[n].new[1]}
        <5>1. answer'[n] = "ok" /\ app'[n].state = "active"
          BY <2>1, <4>1, ChangesIs, RecordFacts
        <5>2. app[n].state = "restart" => app[n].new[1] = Entry(n)
          BY <4>0
        <5>3. Entry(n) \in ToSet(conf')
          BY <4>0, <4>1, <5>2
        <5> QED BY <1>4, <2>1, <3>4, <4>0, <5>1, <5>3 DEF Answered
      <4>2. CASE \E b : /\ b \in {"error", "lost"}
                        /\ Changes(n, Served(app[n]), b) \/ Changes(n, Stopped, b)
        <5>1. answer'[n] \in {"error", "lost"}
          BY <2>1, <4>2, ChangesIs
        <5> QED BY <1>4, <3>4, <5>1 DEF Answered
      <4> QED BY <1>4, <2>3, <3>4, <4>1, <4>2, WorkerIs
    <3> QED BY <3>2, <3>3, <3>4
  <2> QED BY <2>2, <2>3
<1>5. CASE scene.byhand
  <2>1. cmd = Idle /\ ~cmd.taken
    BY <1>5, IdleIs DEF Forms
  <2>2. UNCHANGED cmd \/ cmd' = Idle \/ ~cmd'.taken
    BY <1>3, <1>5, <2>1, StepIs, HeadTakesIs, RestartIs
  <2> QED BY <1>1, <2>1, <2>2, IdleIs
<1>6. CASE Restart
  BY <1>1, <1>6, RestartIs, IdleIs
<1>7. CASE UNCHANGED cmd /\ ~cmd.taken
  BY <1>1, <1>7
<1>8. ASSUME NEW m \in Names, Command(m, FALSE), UNCHANGED cmd, cmd.taken PROVE Answered'
  <2>1. /\ UNCHANGED file /\ n \in Names /\ InFile(n)' = InFile(n) /\ Entry(n)' = Entry(n)
        /\ answer[n] \in Answers
    BY <1>8, <1>t, CommandIs, SameEntry, ShapeFacts
  <2>2. CASE m # n
    <3>1. ASSUME NEW a, NEW b, Changes(m, a, b) PROVE app'[n] = app[n] /\ answer'[n] = answer[n]
      BY <2>1, <2>2, <3>1, ChangesIs
    <3>2. app'[n] = app[n] /\ answer'[n] = answer[n]
      BY <1>8, <3>1, CommandChanges
    <3>3. \A c \in ToSet(conf) : c.name # m => c \in ToSet(conf')
      BY <1>8, CommandChanges
    <3>4. Entry(n) \in ToSet(conf) /\ InFile(n) # {} => Entry(n)' \in ToSet(conf')
      BY <1>0, <2>1, <2>2, <3>3, EntryIs
    <3> QED BY <1>8, <2>1, <3>2, <3>4 DEF Answered, Running
  <2>3. CASE m = n
    <3>1. PICK a, b : /\ Changes(n, a, b)
                      /\ b \notin {"wait", "ok"} \/ (b = answer[n] /\ a = app[n] /\ UNCHANGED conf)
      BY <1>8, <2>3, CommandChanges
    <3>2. answer'[n] = b /\ app'[n] = a
      BY <2>1, <3>1, ChangesIs
    <3>3. CASE b \notin {"wait", "ok"}
      BY <1>8, <3>2, <3>3 DEF Answered
    <3>4. CASE b = answer[n] /\ a = app[n] /\ UNCHANGED conf
      BY <1>8, <2>1, <3>2, <3>4 DEF Answered, Running
    <3> QED BY <3>1, <3>3, <3>4
  <2> QED BY <2>2, <2>3
<1> QED BY <1>1, <1>2, <1>3, <1>4, <1>5, <1>6, <1>7, <1>8, StepIs, IdleIs

-----------------------------------------------------------------------------
(* The invariant. *)

LEMMA InitIs ==
  ASSUME PanelInit
  PROVE  IInv
<1>1. Shape /\ FileOK(file)
  BY ShapeInit, ShapeFacts
<1>2. /\ scene \in Scenes /\ ToSet(file) \subseteq scene.entries
      /\ server = [port |-> 3000, min_worker |-> 4, max_worker |-> 8, ssl |-> SslOff]
      /\ certs = TRUE /\ analyzer = TRUE /\ rows = {e.name : e \in ToSet(file)}
      /\ form = NoForm /\ cmd = Idle
      /\ ~scene.byhand => /\ UniqueInFile
                          /\ \A e \in ToSet(file) : e.name \notin TooLong /\ e.uri # AdminPanel.uri
  BY DEF PanelInit
<1>3. /\ ToSet(conf) \subseteq ToSet(file) \cup {AdminPanel}
      /\ \A n \in Names : answer[n] = "none" /\ app[n].state \in {"new", "none"}
  <2> DEFINE start == wr_app_init(Listed(file, TRUE))
  <2>1. conf = start.conf /\ app = start.app /\ answer = start.answer
    BY DEF PanelInit, Init
  <2>2. start = wr_app_init(Listed(file, TRUE))
    OBVIOUS
  <2> HIDE DEF start
  <2>3. /\ start.conf = Listed(file, TRUE) /\ start.answer = [n \in Names |-> "none"]
        /\ \A n \in Names : start.app[n].state \in {"new", "none"}
    BY <1>1, <2>2, StartShape
  <2>4. ToSet(Listed(file, TRUE)) \subseteq ToSet(file) \cup {AdminPanel}
    BY <1>1, ListedIs DEF FileOK
  <2> QED BY <2>1, <2>3, <2>4
<1>4. Forms
  <2>1. rows \subseteq Names
    BY <1>1, <1>2 DEF FileOK, ToSet, Names
  <2>2. form \in [name : Names \cup {Nobody}, id : Nat]
    BY <1>2 DEF NoForm
  <2>3. cmd \in [op : Ops, name : Names \cup {Nobody}, taken : BOOLEAN]
    BY <1>2 DEF Idle, Ops
  <2> QED BY <1>2, <2>1, <2>2, <2>3 DEF Forms
<1>5. Numbers
  <2>0. SslOff \in Ssls /\ SslOff.support # "enabled"
    <3>1. "" \in Supports /\ -1 \in Int
      BY DEF Supports
    <3> QED BY <3>1 DEF SslOff, Ssls
  <2>1. server.port = 3000 /\ server.min_worker = 4 /\ server.max_worker = 8 /\ server.ssl = SslOff /\ server \in Servers
    BY <1>2, <2>0 DEF Servers
  <2>2. 3000 \in 1..MaxPort
    <3>1. MaxPort \in Nat /\ 3000 <= MaxPort
      BY DEF MaxPort
    <3> QED BY <3>1
  <2>3. wr_config_server_set(server)
    BY <2>1 DEF wr_config_server_set, ALLOWED_MAX_WORKERS
  <2> QED BY <2>0, <2>1, <2>2, <2>3 DEF Numbers
<1>6. Reserved
  BY <1>2, <1>3 DEF Reserved, IsPanels
<1>7. Waiting
  BY <1>3 DEF Waiting
<1>8. Answered
  BY <1>2, IdleIs DEF Answered
<1>9. UniqueInFile
  BY <1>2 DEF UniqueInFile
<1> QED BY <1>1, <1>4, <1>5, <1>6, <1>7, <1>8, <1>9 DEF IInv

LEMMA NextKeeps ==
  ASSUME IInv, [PanelNext]_allVars
  PROVE  IInv'
<1>1. Shape /\ Forms /\ Numbers /\ Reserved /\ Waiting /\ Answered /\ UniqueInFile
  BY DEF IInv
<1>2. Shape' /\ Forms'
  BY <1>1, ShapeNext, FormsNext
<1>3. Numbers' /\ Reserved'
  BY <1>1, NumbersNext, ReservedNext
<1>4. Waiting' /\ Answered'
  BY <1>1, WaitingNext, AnsweredNext
<1>5. UniqueInFile'
  BY <1>1, UniqueNext
<1> QED BY <1>2, <1>3, <1>4, <1>5 DEF IInv

LEMMA AlwaysIInv == PanelSpec => []IInv
<1>1. PanelInit => IInv
  BY InitIs
<1>2. IInv /\ [PanelNext]_allVars => IInv'
  BY NextKeeps
<1> QED BY <1>1, <1>2, PTL DEF PanelSpec

-----------------------------------------------------------------------------
(* What it says. *)

(* Whatever is edited in the panel, in any order and from old forms,       *)
(* config.yml names no application, base URI or host twice, and the Server *)
(* Specification is one with which the server starts again: the checks of  *)
(* application_specification.rb against the file as it is when the form is *)
(* saved, and those of server_specification.rb against the other numbers.  *)
THEOREM FileStaysSound == PanelSpec => []FileSound
<1>1. ASSUME IInv PROVE FileSound
  <2>1. Shape /\ Forms /\ Numbers /\ Waiting /\ UniqueInFile
    BY <1>1 DEF IInv
  <2>2. /\ server.port \in Nat /\ server.min_worker \in Nat /\ server.max_worker \in Nat
        /\ server.ssl.support \in {"", "enabled", "disabled"}
    BY <2>1 DEF Numbers, Servers, Ssls, Supports
  <2>3. server.ssl.support = "enabled" => server.ssl.certificate /\ server.ssl.port \in 1..MaxPort
    BY <2>1 DEF Numbers
  <2>4. form.name \in Names \cup {Nobody} /\ form.id \in Nat
    BY <2>1 DEF Forms
  <2>5. cmd.op \in {"none", "ADD", "REMOVE", "RELOAD"} /\ cmd.name \in Names \cup {Nobody}
    BY <2>1 DEF Forms, Ops
  <2>6. cmd = Idle \/ cmd.name # Nobody
    BY <2>1, IdleIs DEF Forms
  <2>7. scene \in Scenes /\ rows \subseteq Names /\ certs \in BOOLEAN /\ analyzer \in BOOLEAN
    BY <2>1 DEF Forms
  <2>8. PanelTypeOK
    BY <2>1, <2>2, <2>3, <2>4, <2>5, <2>6, <2>7 DEF PanelTypeOK, Waiting
  <2>9. Startable
    BY <2>1 DEF Numbers, Startable
  <2> QED BY <2>1, <2>8, <2>9 DEF FileSound
<1> QED BY <1>1, AlwaysIInv, PTL

(* When the panel is about to say that an application was started,         *)
(* restarted, stopped or deleted, it was: the answer that                  *)
(* wr_ctl_resp_write sends for the command the panel waits for is true of  *)
(* what runs, and of config.yml, at the moment it is read.                 *)
THEOREM AnswersAreHonest == PanelSpec => []Honest
<1>1. ASSUME IInv PROVE Honest
  BY <1>1 DEF IInv, Answered, Honest
<1> QED BY <1>1, AlwaysIInv, PTL

(* The resolver's lists are those of what runs, and the order in which it  *)
(* searches them is the one that matters: after any starts, failed starts, *)
(* reloads, removals and restarts, a host name leads to one of the         *)
(* applications that claim it most specifically (wr_req_resolver_add and   *)
(* wr_req_resolver_remove, called from every path of wr_application.c).    *)
THEOREM RoutesStayRight == PanelSpec => []RoutesRight
<1>1. ASSUME Shape PROVE TypeOK
  <2>1. file \in Seq(Entries) /\ conf \in Seq(Entries \cup {AdminPanel}) /\ route \in Routes
    BY <1>1 DEF Shape, FileOK, ListsOK, Agree, Apps
  <2>2. route.dflt \in Names \cup {Nobody}
    BY <2>1 DEF Routes
  <2>3. \A n \in Names : /\ app[n].state \in {"none", "new", "active", "restart"}
                         /\ app[n].new \in {<<>>} \cup {<<e>> : e \in Entries \cup {AdminPanel}}
    BY <1>1, ShapeFacts DEF States, News, Apps
  <2>4. \A n \in Names : app[n].state # "restart" => app[n].new = <<>>
    BY <1>1, ShapeFacts DEF Sensible
  <2>5. \A n \in Names : answer[n] \in {"none", "wait", "ok", "error", "lost", "past"}
    BY <1>1, ShapeFacts DEF Answers
  <2> QED BY <2>1, <2>2, <2>3, <2>4, <2>5 DEF TypeOK
<1>2. ASSUME Shape PROVE RoutesAgree
  <2>1. NamesOf(ToSet(conf)) = RunningIn(app) /\ Agree(route, ToSet(conf))
    BY <1>2 DEF Shape, ListsOK
  <2>2. {c.name : c \in ToSet(conf)} = {n \in Names : Running(n)}
    BY <2>1 DEF NamesOf, RunningIn, Running
  <2>3. ToSet(route.uris) = {[hash |-> uri_hash(c.uri), app |-> c.name] :
                             c \in {d \in ToSet(conf) : d.uri \notin {NoUri, Root}}}
    BY <2>1 DEF Agree, HasUri, UriClaim
  <2> QED BY <2>1, <2>2, <2>3 DEF Agree, RoutesAgree
<1>3. ASSUME Shape PROVE MostSpecific
  <2> DEFINE X == UNION {Claims(c) : c \in ToSet(conf)}
             hs == route.hosts
  <2>1. Agree(route, ToSet(conf))
    BY <1>3 DEF Shape, ListsOK
  <2>2. route \in Routes /\ hs \in Seq(HostClaims) /\ Sorted(hs) /\ ToSet(hs) = X
    BY <2>1 DEF Agree, Routes
  <2> HIDE DEF X, hs
  <2>3. DOMAIN hs = 1..Len(hs) /\ (\A i \in DOMAIN hs : hs[i] \in X /\ hs[i] \in HostClaims)
        /\ \A x \in X : \E i \in DOMAIN hs : x = hs[i]
    <3>1. DOMAIN hs = 1..Len(hs) /\ \A i \in DOMAIN hs : hs[i] \in HostClaims
      BY <2>2
    <3>2. (\A i \in DOMAIN hs : hs[i] \in ToSet(hs)) /\ \A x \in ToSet(hs) : \E i \in DOMAIN hs : x = hs[i]
      BY DEF ToSet
    <3> QED BY <2>2, <3>1, <3>2
  <2>4. ASSUME NEW p \in Paths, NEW h \in HostNames, ByUri(route, p) = 0, \E x \in X : Matches(x.host, h)
        PROVE  \E x \in X : /\ x.app = wr_req_resolve_http_req(route, p, h) /\ Matches(x.host, h)
                            /\ \A y \in X : Matches(y.host, h) => y.host.type >= x.host.type
    <3> DEFINE res == wr_req_resolve_http_req(route, p, h)
               us == route.uris
               H == HostsOf(h)
               U == UrisOf(p)
               D == First(hs, H, route.dflt)
    <3>1. res = First(us, U, D) /\ \A i \in DOMAIN us : us[i] \notin U
      BY <2>2, <2>4, ResolveIs DEF hs
    <3>2. us \in Seq(UriClaims)
      BY <2>2 DEF Routes
    <3> HIDE DEF res, us, U, D
    <3>3. res = D
      BY <3>1, <3>2, FirstNone
    <3>4. \A i \in DOMAIN hs : hs[i] \in H <=> Matches(hs[i].host, h)
      BY <2>3 DEF HostsOf
    <3> HIDE DEF H
    <3>5. \E i \in DOMAIN hs : hs[i] \in H
      BY <2>3, <2>4, <3>4
    <3>6. PICK k \in DOMAIN hs : /\ D = hs[k].app /\ hs[k] \in H
                                 /\ \A i \in DOMAIN hs : i < k => hs[i] \notin H
      <4>1. D = First(hs, H, route.dflt)
        BY DEF D, hs
      <4> QED BY <2>2, <3>5, <4>1, FirstSpec
    <3>7. \A i \in DOMAIN hs : hs[i].host.type \in Nat
      BY <2>3, ClaimFacts
    <3>8. ASSUME NEW y \in X, Matches(y.host, h) PROVE y.host.type >= hs[k].host.type
      <4>1. PICK i \in DOMAIN hs : y = hs[i]
        BY <2>3, <3>8
      <4>2. hs[i] \in H /\ ~(i < k) /\ i \in Nat /\ k \in Nat
        BY <2>3, <3>4, <3>6, <3>8, <4>1
      <4>3. i = k \/ k < i
        BY <4>2
      <4>4. hs[k].host.type <= hs[i].host.type
        BY <2>2, <3>7, <4>3 DEF Sorted
      <4> QED BY <3>7, <4>1, <4>4
    <3>9. hs[k] \in X /\ Matches(hs[k].host, h) /\ hs[k].app = res
      BY <2>3, <3>3, <3>4, <3>6
    <3> QED BY <3>8, <3>9 DEF res
  <2> QED BY <2>4 DEF MostSpecific, X
<1>4. ASSUME IInv PROVE RoutesRight
  BY <1>1, <1>2, <1>3, <1>4 DEF IInv, RoutesRight
<1> QED BY <1>4, AlwaysIInv, PTL

LEMMA BelowPanel ==
  ASSUME NEW u, u \in Seq(ToSet(u)), u # Root, uri_hash(u) = uri_hash(AdminPanel.uri)
  PROVE  IsPrefix(AdminPanel.uri, u)
<1> DEFINE a == <<"admin-panel">>
<1>1. AdminPanel.uri = a /\ Len(a) = 1 /\ a # Root /\ Head(a) = a[1]
  BY DEF AdminPanel, Root
<1>2. Head(u) = Head(a) /\ Len(u) >= 1 /\ Len(u) \in Nat
  BY <1>1 DEF uri_hash, Root
<1>3. u[1] = a[1]
  BY <1>1, <1>2
<1>4. SubSeq(a, 1, 1) = SubSeq(u, 1, 1)
  <2> DEFINE s == SubSeq(a, 1, 1)
             t == SubSeq(u, 1, 1)
  <2>1. a \in Seq({"admin-panel"})
    OBVIOUS
  <2>2. s \in Seq({"admin-panel"}) /\ Len(s) = 1 /\ s[1] = a[1]
    BY <1>1, <2>1
  <2>3. t \in Seq(ToSet(u)) /\ Len(t) = 1 /\ t[1] = u[1]
    BY <1>2
  <2> HIDE DEF s, t
  <2>4. s = <<s[1]>> /\ t = <<t[1]>>
    BY <2>2, <2>3
  <2> QED BY <1>3, <2>2, <2>3, <2>4 DEF s, t
<1> QED BY <1>1, <1>2, <1>4 DEF IsPrefix

(* While the panel runs and no application lies below /admin-panel, its    *)
(* requests reach it: no form, reload or command gives the panel's base    *)
(* URI to another application (ensure_validations refuses it), and the     *)
(* routes are those of what runs.                                          *)
THEOREM PanelStaysReachable == PanelSpec => []PanelReachable
<1>1. ASSUME Shape, Reserved, Running(AdminPanel.name),
             \A c \in ToSet(conf) : ~IsStrictPrefix(AdminPanel.uri, c.uri),
             scene.byhand => \A c \in ToSet(conf) : c.uri = AdminPanel.uri => c = AdminPanel
      PROVE  wr_req_resolve_http_req(route, AdminPanel.uri, <<>>) = AdminPanel.name
  <2> DEFINE C == ToSet(conf)
             us == route.uris
             U == UrisOf(AdminPanel.uri)
             D == First(route.hosts, HostsOf(<<>>), route.dflt)
  <2>1. C \subseteq Apps /\ NamesOf(C) = RunningIn(app) /\ Agree(route, C)
    BY <1>1, ConfIs DEF Shape, ListsOK
  <2>2. route \in Routes /\ us \in Seq(UriClaims) /\ ToSet(us) = {UriClaim(c) : c \in HasUri(C)}
    BY <2>1 DEF Agree, Routes
  <2>3. AdminPanel \in C
    <3>1. AdminPanel.name \in NamesOf(C)
      BY <1>1, <2>1 DEF Running, RunningIn, Names
    <3>2. PICK c \in C : c.name = AdminPanel.name
      BY <3>1 DEF NamesOf
    <3> QED BY <2>1, <3>2, EntriesAssumption DEF Apps
  <2>4. AdminPanel \in HasUri(C)
    BY <2>3 DEF HasUri, AdminPanel, NoUri, Root
  <2>5. \A c \in HasUri(C) : uri_hash(c.uri) = uri_hash(AdminPanel.uri) => c = AdminPanel
    <3>1. ASSUME NEW c \in HasUri(C), uri_hash(c.uri) = uri_hash(AdminPanel.uri) PROVE c = AdminPanel
      <4>1. c \in C /\ c.uri # Root
        BY DEF HasUri
      <4>2. CASE c = AdminPanel
        BY <4>2
      <4>3. CASE c \in Entries
        <5>1. c.uri \in Seq(ToSet(c.uri))
          BY <4>3, EntriesAssumption DEF IsEntry
        <5>2. IsPrefix(AdminPanel.uri, c.uri)
          BY <3>1, <4>1, <5>1, BelowPanel
        <5>3. c.uri = AdminPanel.uri
          BY <1>1, <4>1, <5>2 DEF IsStrictPrefix
        <5> QED BY <1>1, <4>1, <5>3 DEF Reserved, IsPanels
      <4> QED BY <2>1, <4>1, <4>2, <4>3 DEF Apps
    <3> QED BY <3>1
  <2>6. \A i \in DOMAIN us : us[i] \in U => us[i].app = AdminPanel.name
    <3>1. ASSUME NEW i \in DOMAIN us, us[i] \in U PROVE us[i].app = AdminPanel.name
      <4>1. PICK c \in HasUri(C) : us[i] = UriClaim(c)
        BY <2>2 DEF ToSet
      <4>2. us[i].hash = uri_hash(c.uri) /\ us[i].app = c.name /\ us[i].hash = uri_hash(AdminPanel.uri)
        BY <3>1, <4>1 DEF UriClaim, UrisOf
      <4> QED BY <2>5, <4>2
    <3> QED BY <3>1
  <2>7. \E i \in DOMAIN us : us[i] \in U
    <3>1. PICK i \in DOMAIN us : us[i] = UriClaim(AdminPanel)
      BY <2>2, <2>4 DEF ToSet
    <3>2. UriClaim(AdminPanel).hash = uri_hash(AdminPanel.uri) /\ UriClaim(AdminPanel) \in UriClaims
      BY DEF UriClaim, UriClaims, Apps
    <3> QED BY <3>1, <3>2 DEF UrisOf
  <2>8. wr_req_resolve_http_req(route, AdminPanel.uri, <<>>) = First(us, U, D)
    BY <2>2, ResolveIs
  <2> HIDE DEF U, D, us
  <2>9. PICK k \in DOMAIN us : First(us, U, D) = us[k].app /\ us[k] \in U
    BY <2>2, <2>7, FirstSpec
  <2> QED BY <2>6, <2>8, <2>9
<1>2. ASSUME IInv PROVE PanelReachable
  BY <1>1, <1>2 DEF IInv, PanelReachable
<1> QED BY <1>2, AlwaysIInv, PTL

(* A command about one application, its success and its failure, changes   *)
(* where a request goes only away from or towards this application: what   *)
(* wr_req_resolver_add puts in front of others' entries, and what          *)
(* wr_req_resolver_remove takes out, is its own.                           *)
THEOREM OthersStayUndisturbed == PanelSpec => OthersUndisturbed
<1>1. ASSUME IInv, PanelNext PROVE Undisturbed \/ Restart
  <2> DEFINE R(rt, p, h) == wr_req_resolve_http_req(rt, p, h)
  <2>0. Shape /\ Forms /\ route \in Routes
    BY <1>1 DEF IInv, Shape, ListsOK, Agree
  <2>1. ASSUME NEW n \in Names, app'[n] # app[n],
               \A p \in Paths, h \in HostNames : R(route, p, h) # R(route', p, h) => n \in {R(route, p, h), R(route', p, h)}
        PROVE  Undisturbed
    <3> HIDE DEF R
    <3>1. ASSUME NEW p \in Paths, NEW h \in HostNames, R(route, p, h) # R(route', p, h)
          PROVE  \E m \in {R(route, p, h), R(route', p, h)} \cap Names : app[m] # app'[m]
      <4>1. n \in {R(route, p, h), R(route', p, h)} \cap Names
        BY <2>1, <3>1
      <4> QED BY <2>1, <4>1
    <3> QED BY <3>1 DEF Undisturbed, R
  <2>2. ASSUME NEW n \in Names, NEW c \in Apps, c.name = n, route' = wr_req_resolver_add(route, c)
        PROVE  \A p \in Paths, h \in HostNames : R(route, p, h) # R(route', p, h) => n \in {R(route, p, h), R(route', p, h)}
    BY <2>0, <2>2, AddMoves
  <2>3. ASSUME NEW n \in Names, route' = wr_req_resolver_remove(route, n)
        PROVE  \A p \in Paths, h \in HostNames : R(route, p, h) # R(route', p, h) => n \in {R(route, p, h), R(route', p, h)}
    BY <2>0, <2>3, RemoveMoves
  <2>4. ASSUME NEW n \in Names, NEW c \in Apps, c.name = n,
               route' = wr_req_resolver_add(wr_req_resolver_remove(route, n), c)
        PROVE  \A p \in Paths, h \in HostNames : R(route, p, h) # R(route', p, h) => n \in {R(route, p, h), R(route', p, h)}
    <3> DEFINE mid == wr_req_resolver_remove(route, n)
    <3>1. mid \in Routes
      BY <2>0, RemoveIs
    <3>2. ASSUME NEW p, NEW h PROVE R(route, p, h) = n \/ R(mid, p, h) = R(route, p, h)
      BY <2>0, RemoveMoves
    <3> HIDE DEF mid
    <3>3. ASSUME NEW p, NEW h PROVE R(wr_req_resolver_add(mid, c), p, h) \in {R(mid, p, h), n}
      BY <2>4, <3>1, AddMoves
    <3>4. route' = wr_req_resolver_add(mid, c)
      BY <2>4 DEF mid
    <3> HIDE DEF R
    <3> QED BY <3>2, <3>3, <3>4
  <2> HIDE DEF R
  <2>5. ASSUME UNCHANGED route PROVE Undisturbed
    BY <2>5 DEF Undisturbed
  <2>6. ASSUME NEW n \in Names, NEW mine \in BOOLEAN, Command(n, mine) PROVE Undisturbed
    <3>1. CASE UNCHANGED route
      BY <2>5, <3>1
    <3>2. CASE /\ ~Running(n) /\ wr_conf_app_read(n) /\ Changes(n, Fresh, After(n, mine, "wait"))
               /\ route' = wr_req_resolver_add(route, Read(n))
      <4>1. Read(n) \in Apps /\ Read(n).name = n
        BY <2>0, <3>2, ReadIs, ShapeFacts
      <4>2. app'[n] # app[n]
        BY <2>0, <3>2, ChangesIs, RecordFacts DEF Running
      <4> QED BY <2>1, <2>2, <3>2, <4>1, <4>2
    <3>3. CASE Running(n) /\ Changes(n, Stopped, After(n, mine, "ok")) /\ route' = wr_req_resolver_remove(route, n)
      <4>1. app'[n] # app[n]
        BY <2>0, <3>3, ChangesIs, RecordFacts DEF Running
      <4> QED BY <2>1, <2>3, <3>3, <4>1
    <3>4. CASE Refusal(n, mine) \/ Reload(n, mine)
      BY <3>1, <3>4 DEF Refusal, Reload
    <3>5. CASE Start(n, mine)
      BY <3>2, <3>5 DEF Start
    <3>6. CASE Removal(n, mine)
      BY <3>3, <3>6 DEF Removal
    <3> QED BY <2>0, <2>6, <3>4, <3>5, <3>6, CommandIs
  <2>7. ASSUME NEW n \in Names, WorkerCame(n) PROVE Undisturbed
    <3>0. app[n] \in Record /\ app[n].state \in {"new", "restart"}
      BY <2>0, <2>7, ShapeFacts, WorkerIs
    <3>1. ASSUME NEW b, Changes(n, Served(app[n]), b) \/ Changes(n, Stopped, b) PROVE app'[n] # app[n]
      BY <2>0, <3>0, <3>1, ChangesIs, RecordFacts
    <3>2. app'[n] # app[n]
      BY <2>0, <2>7, <3>1, WorkerIs
    <3>3. CASE UNCHANGED route
      BY <2>5, <3>3
    <3>4. CASE app[n].state = "restart" /\ route' = wr_req_resolver_add(wr_req_resolver_remove(route, n), app[n].new[1])
      <4>1. app[n].new[1] \in Apps /\ app[n].new[1].name = n
        BY <2>0, <3>4, NewIs
      <4> QED BY <2>1, <2>4, <3>2, <3>4, <4>1
    <3>5. CASE route' = wr_req_resolver_remove(route, n)
      BY <2>1, <2>3, <3>2, <3>5
    <3> QED BY <2>0, <2>7, <3>3, <3>4, <3>5, WorkerIs
  <2>8. CASE HeadTakes
    BY <2>0, <2>6, <2>8, HeadTakesIs
  <2>9. CASE \E n \in Names : Command(n, FALSE)
    BY <2>6, <2>9
  <2> QED BY <1>1, <2>0, <2>5, <2>7, <2>8, <2>9, StepIs
<1>2. IInv /\ [PanelNext]_allVars => [Undisturbed \/ Restart]_allVars
  BY <1>1
<1> QED BY <1>2, AlwaysIInv, PTL DEF PanelSpec, OthersUndisturbed
=============================================================================
