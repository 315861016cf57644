-------------------------- MODULE AnlSamplesProofs --------------------------
(***************************************************************************)
(* The analyzer's statistics, for every sampling rate, every number of     *)
(* messages and every order in which they come: the samples count each     *)
(* message once, but for those that a stop of the analyzer struck.         *)
(*                                                                         *)
(* A message is in memory, in a row, or still on its way: the invariant    *)
(* says that these are apart, also between the two halves of a write, when *)
(* a sample is in the database and not yet out of memory.  What a stop has *)
(* struck is in no place or in two, and no later step finds it again.      *)
(***************************************************************************)
EXTENDS AnlSamples, FiniteSetTheorems, WellFoundedInduction, TLAPS

Sample == [first : 0..LastHit, hits : SUBSET Nat, sec : [Seconds -> Nat]]
Row == [at : Nat, hits : SUBSET Nat, peak : Nat]
Place == [at : Tables \cup {"idle"}, written : BOOLEAN]

Shape ==
  /\ env \in Environments /\ now \in 0..LastHit + Rate + 1
  /\ sent \in Seq(0..LastHit) /\ Len(sent) <= Hits /\ read \in 0..Len(sent)
  /\ proc \in Place /\ stale \in Place
  /\ mem \in [Tables -> Sample \cup {NoSample}] /\ rows \in [Tables -> Seq(Row)]
  /\ lost \in [Tables -> SUBSET Nat] /\ twice \in [Tables -> SUBSET Nat]

(* What is counted has been read, and no sample in memory is empty; the    *)
(* processor is at a table only with a message, and writes only there.     *)
Read ==
  /\ \A t \in Tables :
       /\ mem[t] # NoSample => mem[t].hits # {}
       /\ mem[t].hits \subseteq 1..read /\ lost[t] \cup twice[t] \subseteq 1..read
       /\ \A i \in DOMAIN rows[t] : rows[t][i].hits \subseteq 1..read
  /\ proc.at = "idle" => ~proc.written
  /\ stale.at = "idle" => ~stale.written
  /\ proc.at # "idle" => read # 0

(* The application's sample in memory is of its own period too. *)
Periods ==
  /\ \A m \in mem["app"].hits : sent[m] \in mem["app"].first .. mem["app"].first + Rate
  /\ AppPeriods

(* The sample of the table is in the database and still in memory. *)
Writing(t) == (proc.written /\ proc.at = t) \/ (stale.written /\ stale.at = t)

(* The message m has been read and the table has not been dealt with. *)
Due(t, m) == m = read /\ (proc.at = t \/ (proc.at = "app" /\ t = "url"))

Once(t) ==
  /\ \A i, j \in DOMAIN rows[t] : i # j => rows[t][i].hits \cap rows[t][j].hits \subseteq twice[t]
  /\ IF Writing(t)
     THEN rows[t] # <<>> /\ rows[t][Len(rows[t])].hits = mem[t].hits
     ELSE \A i \in DOMAIN rows[t] : rows[t][i].hits \cap mem[t].hits = {}
  /\ \A m \in 1..read :
       IF Due(t, m) \/ m \in lost[t]
       THEN m \notin mem[t].hits /\ \A i \in DOMAIN rows[t] : m \notin rows[t][i].hits
       ELSE m \in mem[t].hits \/ \E i \in DOMAIN rows[t] : m \in rows[t][i].hits

(* The message is in two rows. *)
InTwo(t, m) ==
  \E i, j \in DOMAIN rows[t] :
    i # j /\ \A k \in DOMAIN rows[t] : m \in rows[t][k].hits <=> k \in {i, j}

Struck(t) ==
  /\ twice[t] \cap mem[t].hits = {}
  /\ \A m \in 1..read : Due(t, m) => m \notin lost[t] \cup twice[t]
  /\ \A m \in twice[t] : InTwo(t, m)

(* Without preemption one thread at most is in the middle of a write.      *)
Apart ==
  ~May("preempt") => /\ ~(proc.written /\ stale.written)
                     /\ \A t \in Tables : Once(t) /\ Struck(t)

IInv == Shape /\ Read /\ Periods /\ Apart

-----------------------------------------------------------------------------
(* Facts about numbers. *)

(* A non-empty set of natural numbers has a least one. *)
LEMMA Least ==
  ASSUME NEW T, T \subseteq Nat, T # {}
  PROVE  \E x \in T : \A y \in T : x <= y
<1> DEFINE R == OpToRel(<, Nat)
<1>1. IsWellFoundedOn(R, Nat)
  BY NatLessThanWellFounded
<1>2. \A a, b \in Nat : a < b => <<a, b>> \in R
  BY DEF OpToRel
<1> HIDE DEF R
<1>3. PICK x \in T : \A y \in T : ~(<<y, x>> \in R)
  BY <1>1, WFMin
<1>4. \A y \in T : ~(y < x)
  BY <1>2, <1>3
<1>5. x \in Nat /\ \A y \in T : y \in Nat
  OBVIOUS
<1>6. \A y \in T : x <= y
  BY <1>4, <1>5
<1> QED BY <1>6

(* Min is the least one: the row a late message is added to is a row. *)
LEMMA MinIsIn ==
  ASSUME NEW T, T \subseteq Nat, T # {}
  PROVE  Min(T) \in T
<1>1. \E x \in T : \A y \in T : x <= y
  BY Least
<1> QED BY <1>1 DEF Min

(* Induction over 0..n, on a set. *)
LEMMA Induct ==
  ASSUME NEW n \in Nat, NEW T, 0 \in T, \A k \in 0..n - 1 : k \in T => k + 1 \in T
  PROVE  \A k \in 0..n : k \in T
<1> DEFINE Bad == {k \in 0..n : k \notin T}
<1> SUFFICES ASSUME Bad # {} PROVE FALSE
  OBVIOUS
<1>1. PICK k \in Bad : \A j \in Bad : k <= j
  <2>1. Bad \subseteq Nat
    OBVIOUS
  <2> HIDE DEF Bad
  <2> QED BY <2>1, Least
<1>2. k \in 0..n /\ k # 0
  OBVIOUS
<1>3. k - 1 \in 0..n - 1 /\ k - 1 \notin Bad
  BY <1>1, <1>2
<1>4. k - 1 \in T
  BY <1>3
<1> QED BY <1>2, <1>3, <1>4

(* Some second counts most: the peak of a sample is a number. *)
LEMMA PeakType ==
  ASSUME NEW s \in Sample
  PROVE  Peak(s) \in Nat
<1> DEFINE f == s.sec
           T == {k \in Nat : k <= Rate - 1 => \E m \in 0..k : \A i \in 0..k : f[i] <= f[m]}
<1>1. f \in [0..Rate - 1 -> Nat] /\ Rate - 1 \in Nat
  BY SamplesAssumption DEF Sample, Seconds
<1> HIDE DEF f
<1>2. 0 \in T
  <2>1. f[0] \in Nat
    BY <1>1
  <2>2. \A i \in 0..0 : f[i] <= f[0]
    BY <2>1
  <2> QED BY <2>2
<1>3. ASSUME NEW k \in 0..(Rate - 1) - 1, k \in T PROVE k + 1 \in T
  <2>1. PICK m \in 0..k : \A i \in 0..k : f[i] <= f[m]
    BY <1>1, <1>3
  <2>2. f[m] \in Nat /\ f[k + 1] \in Nat /\ \A i \in 0..k : f[i] \in Nat
    BY <1>1
  <2>3. CASE f[k + 1] <= f[m]
    <3>1. \A i \in 0..k + 1 : f[i] <= f[m]
      BY <2>1, <2>3
    <3>2. m \in 0..k + 1 /\ k + 1 \in Nat
      OBVIOUS
    <3>3. \E m2 \in 0..k + 1 : \A i \in 0..k + 1 : f[i] <= f[m2]
      BY <3>1, <3>2
    <3> QED BY <3>2, <3>3
  <2>4. CASE f[k + 1] > f[m]
    <3>1. \A i \in 0..k + 1 : f[i] <= f[k + 1]
      BY <2>1, <2>2, <2>4
    <3>2. k + 1 \in 0..k + 1 /\ k + 1 \in Nat
      OBVIOUS
    <3>3. \E m2 \in 0..k + 1 : \A i \in 0..k + 1 : f[i] <= f[m2]
      BY <3>1, <3>2
    <3> QED BY <3>2, <3>3
  <2> QED BY <2>2, <2>3, <2>4
<1>4. Rate - 1 \in T
  <2> HIDE DEF T
  <2>1. \A k \in 0..Rate - 1 : k \in T
    BY <1>1, <1>2, <1>3, Induct
  <2> QED BY <1>1, <2>1
<1>5. PICK m \in 0..Rate - 1 : \A i \in 0..Rate - 1 : f[i] <= f[m]
  BY <1>1, <1>4
<1> DEFINE V == {f[i] : i \in 0..Rate - 1}
<1>6. f[m] \in V /\ \A y \in V : f[m] >= y
  BY <1>1, <1>5
<1>7. Max(V) \in V
  <2> HIDE DEF V
  <2> QED BY <1>6 DEF Max
<1>8. V \subseteq Nat
  BY <1>1
<1>9. Peak(s) = Max(V)
  BY DEF Peak, Seconds, f
<1> QED BY <1>7, <1>8, <1>9

-----------------------------------------------------------------------------
(* What the samples and rows are made of. *)

LEMMA NoSampleIsNone ==
  NoSample \notin Sample /\ NoSample.hits = {}
BY DEF NoSample, Sample

LEMMA MemType ==
  ASSUME Shape, NEW t \in Tables, mem[t] # NoSample
  PROVE  mem[t] \in Sample
BY DEF Shape

LEMMA HitsType ==
  ASSUME Shape, NEW t \in Tables
  PROVE  mem[t].hits \subseteq Nat
BY NoSampleIsNone DEF Shape, Sample

LEMMA NewSampleType ==
  ASSUME Shape, NEW x \in 0..LastHit
  PROVE  NewSample(x) \in Sample /\ NewSample(x).hits = {read} /\ NewSample(x).first = x
BY DEF Shape, NewSample, Sample

LEMMA AddType ==
  ASSUME Shape, NEW s \in Sample, NEW x \in 0..LastHit
  PROVE  Add(s, x) \in Sample /\ Add(s, x).hits = s.hits \cup {read} /\ Add(s, x).first = s.first
<1>1. read \in Nat
  BY DEF Shape
<1> DEFINE f == s.sec
           c == x % Rate
           g == [f EXCEPT ![c] = f[c] + 1]
<1>2. f \in [Seconds -> Nat]
  BY DEF Sample
<1>3. g \in [Seconds -> Nat]
  <2> HIDE DEF f, c
  <2>1. \A i \in Seconds : i = c => f[c] + 1 \in Nat
    BY <1>2
  <2> QED BY <1>2, <2>1
<1>4. Add(s, x) = [first |-> s.first, hits |-> s.hits \cup {read}, sec |-> g]
  <2>1. Add(s, x) = [s EXCEPT !.hits = s.hits \cup {read}, !.sec = g]
    BY DEF Add, Sample
  <2> HIDE DEF g
  <2> QED BY <2>1 DEF Sample
<1> HIDE DEF f, g
<1> QED BY <1>1, <1>3, <1>4 DEF Sample

(* The row that a sample becomes. *)
RowFor(s, at) == [at |-> at, hits |-> s.hits, peak |-> Peak(s)]

LEMMA RowForType ==
  ASSUME NEW s \in Sample, NEW at \in Nat
  PROVE  RowFor(s, at) \in Row /\ RowFor(s, at).hits = s.hits /\ RowFor(s, at).at = at
BY PeakType DEF RowFor, Row, Sample

LEMMA AppendType ==
  ASSUME NEW s \in Seq(Row), NEW x \in Row
  PROVE  /\ Append(s, x) \in Seq(Row) /\ Append(s, x) # <<>>
         /\ Len(Append(s, x)) = Len(s) + 1 /\ Append(s, x)[Len(s) + 1] = x
         /\ DOMAIN Append(s, x) = DOMAIN s \cup {Len(s) + 1} /\ Len(s) + 1 \notin DOMAIN s
         /\ \A i \in DOMAIN s : Append(s, x)[i] = s[i]
OBVIOUS

LEMMA SentType ==
  ASSUME Shape, NEW m \in 1..read
  PROVE  sent[m] \in 0..LastHit
<1> DEFINE S == 0..LastHit
<1>1. m \in 1..Len(sent) /\ sent \in Seq(S)
  BY DEF Shape
<1>2. sent[m] \in S
  <2> HIDE DEF S
  <2> QED BY <1>1
<1> QED BY <1>2

-----------------------------------------------------------------------------
(* One lemma per action. *)

LEMMA InitInv == Init => IInv
<1> SUFFICES ASSUME Init PROVE IInv
  OBVIOUS
<1>1. Shape
  BY SamplesAssumption DEF Init, Shape, Idle, Place
<1>2. Read
  BY NoSampleIsNone DEF Init, Read, Idle, Tables
<1>3. Periods
  BY NoSampleIsNone DEF Init, Periods, AppPeriods, Tables
<1>4. Apart
  BY NoSampleIsNone DEF Init, Apart, Once, Struck, Writing, Due, Idle, Tables
<1> QED BY <1>1, <1>2, <1>3, <1>4 DEF IInv

LEMMA TickInv == IInv /\ Tick => IInv'
<1> SUFFICES ASSUME IInv, Tick PROVE IInv'
  OBVIOUS
<1>1. Shape'
  BY SamplesAssumption DEF IInv, Tick, Shape, struck
<1>2. Read'
  BY DEF IInv, Tick, Read, struck
<1>3. Periods'
  BY DEF IInv, Tick, Periods, AppPeriods
<1>4. Apart'
  BY DEF IInv, Tick, Apart, Once, Struck, InTwo, Writing, Due, May, struck
<1> QED BY <1>1, <1>2, <1>3, <1>4 DEF IInv

(* A message more does not change the time of the others. *)
LEMMA LogInv ==
  ASSUME IInv, NEW x \in 0..LastHit, log_spent_time(x)
  PROVE  IInv'
<1> DEFINE S == 0..LastHit
<1>1. sent \in Seq(S) /\ x \in S /\ sent' = Append(sent, x) /\ read' = read /\ read \in 0..Len(sent)
  BY DEF IInv, Shape, log_spent_time
<1>2. sent' \in Seq(S) /\ Len(sent') = Len(sent) + 1 /\ \A i \in 1..Len(sent) : sent'[i] = sent[i]
  <2> HIDE DEF S
  <2> QED BY <1>1
<1>3. \A i \in 1..read : sent'[i] = sent[i]
  <2> HIDE DEF S
  <2>1. Len(sent) \in Nat
    BY <1>1
  <2> QED BY <1>1, <1>2, <2>1
<1>4. UNCHANGED <<now, read, mem, rows, proc, stale, lost, twice, env>> /\ Len(sent) < Hits
  BY DEF log_spent_time, struck
<1>5. Shape'
  <2>1. Len(sent') <= Hits /\ read' \in 0..Len(sent')
    BY <1>1, <1>2, <1>4, SamplesAssumption
  <2> QED BY <1>2, <1>4, <2>1 DEF IInv, Shape
<1>6. Read'
  BY <1>4 DEF IInv, Read
<1>7. Periods'
  <2>1. "app" \in Tables
    BY DEF Tables
  <2> QED BY <1>3, <1>4, <2>1 DEF IInv, Read, Periods, AppPeriods
<1>8. Apart'
  BY <1>4 DEF IInv, Apart, Once, Struck, InTwo, Writing, Due, May
<1> QED BY <1>5, <1>6, <1>7, <1>8 DEF IInv

(* No place more or less has what a stop struck. *)
LEMMA StruckKept ==
  ASSUME NEW t \in Tables, Struck(t), lost' = lost, twice' = twice,
         twice[t] \cap mem'[t].hits = {},
         \A m \in 1..read' : Due(t, m)' => m \notin lost[t] \cup twice[t],
         DOMAIN rows[t] \subseteq DOMAIN rows'[t],
         \A m \in twice[t] : \A k \in DOMAIN rows'[t] :
           m \in rows'[t][k].hits <=> k \in DOMAIN rows[t] /\ m \in rows[t][k].hits
  PROVE  Struck(t)'
<1>1. ASSUME NEW m \in twice[t] PROVE InTwo(t, m)'
  <2>1. PICK i, j \in DOMAIN rows[t] :
          i # j /\ \A k \in DOMAIN rows[t] : m \in rows[t][k].hits <=> k \in {i, j}
    BY <1>1 DEF Struck, InTwo
  <2>2. \A k \in DOMAIN rows'[t] : m \in rows'[t][k].hits <=> k \in {i, j}
    BY <1>1, <2>1
  <2> QED BY <2>1, <2>2 DEF InTwo
<1> QED BY <1>1 DEF Struck

(* Another message is read: it is due to both tables. *)
LEMMA ProcessInv == IInv /\ process_messages => IInv'
<1> SUFFICES ASSUME IInv, process_messages PROVE IInv'
  OBVIOUS
<1>1. /\ proc = Idle /\ read < Len(sent) /\ read' = read + 1 /\ proc' = [at |-> "app", written |-> FALSE]
      /\ UNCHANGED <<now, sent, mem, rows, stale, lost, twice, env>> /\ Runs(stale)
  BY DEF process_messages, struck
<1>2. read \in Nat /\ Len(sent) \in Nat
  BY DEF IInv, Shape
<1>3. 1..read \subseteq 1..read' /\ \A m \in 1..read' : m \in 1..read \/ m = read'
  BY <1>1, <1>2
<1>4. Shape'
  <2>1. read' \in 0..Len(sent')
    BY <1>1, <1>2
  <2>2. proc' \in Place
    BY <1>1 DEF Place, Tables
  <2> QED BY <1>1, <2>1, <2>2 DEF IInv, Shape
<1>5. Read'
  <2>1. read' # 0
    BY <1>1, <1>2
  <2>2. ~proc'.written
    BY <1>1
  <2> QED BY <1>1, <1>3, <2>1, <2>2 DEF IInv, Read
<1>6. Periods'
  BY <1>1 DEF IInv, Periods, AppPeriods
<1>7. Apart'
  <2> SUFFICES ASSUME ~May("preempt"), NEW t \in Tables
               PROVE  ~(proc'.written /\ stale'.written) /\ Once(t)' /\ Struck(t)'
    BY <1>1 DEF Apart, May
  <2>1. ~stale.written /\ ~proc.written /\ ~proc'.written /\ ~stale'.written
    BY <1>1 DEF Runs, Idle
  <2>2. ~Writing(t) /\ ~Writing(t)'
    BY <2>1 DEF Writing
  <2>3. Once(t) /\ Struck(t)
    BY DEF IInv, Apart
  <2>4. read' \notin 1..read
    BY <1>1, <1>2
  <2>5. /\ read' \notin mem[t].hits /\ \A i \in DOMAIN rows[t] : read' \notin rows[t][i].hits
        /\ read' \notin lost[t] \cup twice[t]
    BY <2>4 DEF IInv, Read
  <2>6. \A m \in 1..read : ~Due(t, m) /\ ~Due(t, m)'
    BY <1>1, <2>4 DEF Due, Idle, Tables
  <2>7. ASSUME NEW m, m = read' PROVE Due(t, m)'
    BY <1>1, <2>7 DEF Due, Tables
  <2>8. \A m \in 1..read' :
       IF Due(t, m)' \/ m \in lost'[t]
       THEN m \notin mem'[t].hits /\ \A i \in DOMAIN rows'[t] : m \notin rows'[t][i].hits
       ELSE m \in mem'[t].hits \/ \E i \in DOMAIN rows'[t] : m \in rows'[t][i].hits
    BY <1>1, <1>3, <2>3, <2>5, <2>6, <2>7 DEF Once
  <2>9. Once(t)'
    BY <1>1, <2>1, <2>2, <2>3, <2>8 DEF Once
  <2>10. Struck(t)'
    <3>1. twice[t] \cap mem'[t].hits = {}
      BY <1>1, <2>3 DEF Struck
    <3>2. \A m \in 1..read' : Due(t, m)' => m \notin lost[t] \cup twice[t]
      BY <1>3, <2>5, <2>6
    <3> QED BY <1>1, <2>3, <3>1, <3>2, StruckKept
  <2> QED BY <2>1, <2>9, <2>10
<1> QED BY <1>4, <1>5, <1>6, <1>7 DEF IInv

(* A table at which nothing happens. *)
LEMMA OnceKept ==
  ASSUME NEW t \in Tables, Once(t), Struck(t), mem'[t] = mem[t], rows'[t] = rows[t], read' = read,
         lost' = lost, twice' = twice,
         Writing(t)' <=> Writing(t), \A m \in 1..read : Due(t, m)' <=> Due(t, m)
  PROVE  Once(t)' /\ Struck(t)'
<1>1. \A i, j \in DOMAIN rows'[t] : i # j => rows'[t][i].hits \cap rows'[t][j].hits \subseteq twice'[t]
  BY DEF Once
<1>2. IF Writing(t)'
      THEN rows'[t] # <<>> /\ rows'[t][Len(rows'[t])].hits = mem'[t].hits
      ELSE \A i \in DOMAIN rows'[t] : rows'[t][i].hits \cap mem'[t].hits = {}
  BY DEF Once
<1>3. \A m \in 1..read' :
       IF Due(t, m)' \/ m \in lost'[t]
       THEN m \notin mem'[t].hits /\ \A i \in DOMAIN rows'[t] : m \notin rows'[t][i].hits
       ELSE m \in mem'[t].hits \/ \E i \in DOMAIN rows'[t] : m \in rows'[t][i].hits
  BY DEF Once
<1>4. Struck(t)'
  BY StruckKept DEF Struck
<1> QED BY <1>1, <1>2, <1>3, <1>4 DEF Once

(* The processor has dealt with a table: its message is not due there any  *)
(* more, and as due as before at the other.                                *)
LEMMA AfterTable ==
  ASSUME IInv, NEW table \in Tables, proc.at = table, proc' = After(table), read' = read
  PROVE  /\ proc' \in Place /\ ~proc'.written /\ (proc'.at = "idle" \/ proc'.at = "url")
         /\ \A m : ~Due(table, m)' /\ (m # read => ~Due(table, m)) /\ Due(table, read)
         /\ \A t \in Tables \ {table} : \A m : Due(t, m)' <=> Due(t, m)
         /\ read \in 1..read /\ sent[read] \in 0..LastHit
<1>1. read \in Nat /\ read # 0
  BY DEF IInv, Read, Shape, Tables
<1>2. read \in 1..read
  BY <1>1
<1>3. sent[read] \in 0..LastHit
  <2> DEFINE S == 0..LastHit
  <2>1. sent \in Seq(S) /\ read \in 1..Len(sent)
    BY <1>1 DEF IInv, Shape
  <2>2. sent[read] \in S
    <3> HIDE DEF S
    <3> QED BY <2>1
  <2> QED BY <2>2
<1>4. proc' \in Place /\ ~proc'.written /\ (proc'.at = "idle" \/ proc'.at = "url")
  BY DEF After, Idle, Place, Tables
<1>5. \A m : ~Due(table, m)' /\ (m # read => ~Due(table, m)) /\ Due(table, read)
  BY DEF Due, After, Idle, Tables
<1>6. \A t \in Tables \ {table} : \A m : Due(t, m)' <=> Due(t, m)
  BY DEF Due, After, Idle, Tables
<1> QED BY <1>2, <1>3, <1>4, <1>5, <1>6

(* The message is counted in memory, in a new sample or in the one there.  *)
LEMMA MemStep ==
  ASSUME IInv, NEW table \in Tables, NEW s \in Sample,
         proc.at = table, proc' = After(table), ~May("preempt") => ~stale.written,
         mem' = [mem EXCEPT ![table] = s], UNCHANGED <<now, sent, read, rows, stale, lost, twice, env>>,
         s.hits = IF proc.written THEN {read} ELSE mem[table].hits \cup {read},
         table = "app" => \A m \in s.hits : sent[m] \in s.first .. s.first + Rate
  PROVE  IInv'
<1>1. /\ proc' \in Place /\ ~proc'.written /\ (proc'.at = "idle" \/ proc'.at = "url")
      /\ \A m : ~Due(table, m)' /\ (m # read => ~Due(table, m)) /\ Due(table, read)
      /\ \A t \in Tables \ {table} : \A m : Due(t, m)' <=> Due(t, m)
      /\ read \in 1..read
  BY AfterTable
<1>2. mem \in [Tables -> Sample \cup {NoSample}] /\ mem'[table] = s /\ \A t \in Tables \ {table} : mem'[t] = mem[t]
  BY DEF IInv, Shape
<1>3. Shape'
  BY <1>1, <1>2 DEF IInv, Shape
<1>4. Read'
  <2>1. s.hits \subseteq 1..read /\ s.hits # {}
    BY <1>1 DEF IInv, Read
  <2>2. \A t \in Tables : /\ mem'[t] # NoSample => mem'[t].hits # {}
                          /\ mem'[t].hits \subseteq 1..read
    BY <1>2, <2>1 DEF IInv, Read
  <2>3. proc'.at # "idle" => read' # 0
    BY DEF IInv, Read, Tables
  <2> QED BY <1>1, <2>2, <2>3 DEF IInv, Read
<1>5. Periods'
  <2>1. "app" \in Tables
    BY DEF Tables
  <2>2. \A m \in mem'["app"].hits : sent'[m] \in mem'["app"].first .. mem'["app"].first + Rate
    BY <1>2, <2>1 DEF IInv, Periods
  <2> QED BY <2>2 DEF IInv, Periods, AppPeriods
<1>6. Apart'
  <2> SUFFICES ASSUME ~May("preempt"), NEW t \in Tables
               PROVE  ~(proc'.written /\ stale'.written) /\ Once(t)' /\ Struck(t)'
    BY DEF Apart, May
  <2>1. ~stale.written /\ ~stale'.written /\ Once(t) /\ Struck(t)
    BY DEF IInv, Apart
  <2>2. ~Writing(t)' /\ (Writing(t) <=> (proc.written /\ t = table))
    BY <1>1, <2>1 DEF Writing
  <2>3. CASE t # table
    BY <1>1, <1>2, <2>1, <2>2, <2>3, OnceKept
  <2>4. CASE t = table
    <3>1. \A i \in DOMAIN rows[t] : rows[t][i].hits \cap s.hits = {}
      <4>1. \A i \in DOMAIN rows[t] : read \notin rows[t][i].hits
        BY <1>1, <2>1, <2>4 DEF Once
      <4>2. ~proc.written => \A i \in DOMAIN rows[t] : rows[t][i].hits \cap mem[t].hits = {}
        BY <2>1, <2>2 DEF Once
      <4> QED BY <2>4, <4>1, <4>2
    <3>2. ASSUME NEW m \in 1..read, m \notin lost[t]
          PROVE  m \in s.hits \/ \E i \in DOMAIN rows[t] : m \in rows[t][i].hits
      <4>1. CASE m = read
        BY <4>1
      <4>2. CASE m # read
        <5>1. m \in mem[t].hits \/ \E i \in DOMAIN rows[t] : m \in rows[t][i].hits
          BY <1>1, <2>1, <2>4, <3>2, <4>2 DEF Once
        <5>2. CASE proc.written
          <6>1. rows[t] # <<>> /\ rows[t][Len(rows[t])].hits = mem[t].hits
            BY <2>1, <2>2, <2>4, <5>2 DEF Once
          <6>2. Len(rows[t]) \in DOMAIN rows[t]
            <7>1. rows[t] \in Seq(Row)
              BY DEF IInv, Shape
            <7> QED BY <6>1, <7>1
          <6> QED BY <5>1, <6>1, <6>2
        <5>3. CASE ~proc.written
          BY <2>4, <5>1, <5>3
        <5> QED BY <5>2, <5>3
      <4> QED BY <4>1, <4>2
    <3>3. \A m \in 1..read' :
       IF Due(t, m)' \/ m \in lost'[t]
       THEN m \notin mem'[t].hits /\ \A i \in DOMAIN rows'[t] : m \notin rows'[t][i].hits
       ELSE m \in mem'[t].hits \/ \E i \in DOMAIN rows'[t] : m \in rows'[t][i].hits
      <4>1. read \notin lost[t]
        BY <1>1, <2>1, <2>4 DEF Struck
      <4>2. \A m \in lost[t] : m \in 1..read =>
              m \notin s.hits /\ \A i \in DOMAIN rows[t] : m \notin rows[t][i].hits
        BY <2>1, <2>4, <4>1 DEF Once
      <4> QED BY <1>1, <1>2, <2>4, <3>2, <4>2
    <3>4. \A i \in DOMAIN rows'[t] : rows'[t][i].hits \cap mem'[t].hits = {}
      BY <1>2, <2>4, <3>1
    <3>5. \A i, j \in DOMAIN rows'[t] : i # j => rows'[t][i].hits \cap rows'[t][j].hits \subseteq twice'[t]
      BY <2>1 DEF Once
    <3>6. Once(t)'
      BY <2>2, <3>3, <3>4, <3>5 DEF Once
    <3>7. Struck(t)'
      <4>1. read \notin twice[t] /\ twice[t] \cap mem[t].hits = {}
        BY <1>1, <2>1, <2>4 DEF Struck
      <4>2. twice[t] \cap mem'[t].hits = {}
        BY <1>2, <2>4, <4>1
      <4> QED BY <1>1, <2>1, <2>4, <4>2, StruckKept
    <3> QED BY <3>6, <3>7
  <2> QED BY <1>1, <2>3, <2>4
<1> QED BY <1>3, <1>4, <1>5, <1>6 DEF IInv

(* A late message is counted in a row: a new one, or the one at k. *)
LEMMA LateStep ==
  ASSUME IInv, NEW table \in Tables, NEW s \in Seq(Row), NEW k \in DOMAIN s,
         proc.at = table, ~proc.written, proc' = After(table), ~May("preempt") => ~stale.written,
         rows' = [rows EXCEPT ![table] = s], UNCHANGED <<now, sent, read, mem, stale, lost, twice, env>>,
         \/ k \in DOMAIN rows[table] /\ s[k].hits = rows[table][k].hits \cup {read}
                                     /\ s[k].at = rows[table][k].at
                                     /\ DOMAIN s = DOMAIN rows[table]
         \/ k \notin DOMAIN rows[table] /\ s[k].hits = {read} /\ DOMAIN s = DOMAIN rows[table] \cup {k},
         \A i \in DOMAIN rows[table] \ {k} : s[i] = rows[table][i],
         table = "app" => sent[read] \in s[k].at - Rate .. s[k].at
  PROVE  IInv'
<1>1. /\ proc' \in Place /\ ~proc'.written /\ (proc'.at = "idle" \/ proc'.at = "url")
      /\ \A m : ~Due(table, m)' /\ (m # read => ~Due(table, m)) /\ Due(table, read)
      /\ \A t \in Tables \ {table} : \A m : Due(t, m)' <=> Due(t, m)
      /\ read \in 1..read
  BY AfterTable
<1>2. rows \in [Tables -> Seq(Row)] /\ rows'[table] = s /\ \A t \in Tables \ {table} : rows'[t] = rows[t]
  BY DEF IInv, Shape
<1>3. Shape'
  BY <1>1, <1>2 DEF IInv, Shape
<1>4. \A i \in DOMAIN s : i # k => i \in DOMAIN rows[table] /\ s[i] = rows[table][i]
  OBVIOUS
<1>5. Read'
  <2>1. \A i \in DOMAIN s : s[i].hits \subseteq 1..read
    BY <1>1, <1>4 DEF IInv, Read
  <2>2. \A t \in Tables : \A i \in DOMAIN rows'[t] : rows'[t][i].hits \subseteq 1..read
    BY <1>2, <2>1 DEF IInv, Read
  <2>3. proc'.at # "idle" => read' # 0
    BY DEF IInv, Read, Tables
  <2> QED BY <1>1, <2>2, <2>3 DEF IInv, Read
<1>6. Periods'
  <2>1. "app" \in Tables
    BY DEF Tables
  <2>2. AppPeriods'
    <3>1. CASE table = "app"
      <4>1. ASSUME NEW i \in DOMAIN s, NEW m \in s[i].hits
            PROVE  sent[m] \in s[i].at - Rate .. s[i].at
        <5>1. CASE i # k
          BY <1>4, <3>1, <5>1 DEF IInv, Periods, AppPeriods
        <5>2. CASE i = k /\ m = read
          BY <3>1, <5>2
        <5>3. CASE i = k /\ m # read
          BY <3>1, <5>3 DEF IInv, Periods, AppPeriods
        <5> QED BY <5>1, <5>2, <5>3
      <4> QED BY <1>2, <3>1, <4>1 DEF AppPeriods
    <3>2. CASE table # "app"
      BY <1>2, <2>1, <3>2 DEF IInv, Periods, AppPeriods
    <3> QED BY <3>1, <3>2
  <2> QED BY <2>2 DEF IInv, Periods
<1>7. Apart'
  <2> SUFFICES ASSUME ~May("preempt"), NEW t \in Tables
               PROVE  ~(proc'.written /\ stale'.written) /\ Once(t)' /\ Struck(t)'
    BY DEF Apart, May
  <2>1. ~stale.written /\ ~stale'.written /\ Once(t) /\ Struck(t)
    BY DEF IInv, Apart
  <2>2. ~Writing(t)' /\ ~Writing(t)
    BY <1>1, <2>1 DEF Writing
  <2>3. CASE t # table
    BY <1>1, <1>2, <2>1, <2>2, <2>3, OnceKept
  <2>4. CASE t = table
    <3> DEFINE r == rows[table]
    <3>1. read \notin mem[table].hits /\ \A i \in DOMAIN r : read \notin r[i].hits
      BY <1>1, <2>1, <2>4 DEF Once
    <3>2. \A i, j \in DOMAIN r : i # j => r[i].hits \cap r[j].hits \subseteq twice[table]
      BY <2>1, <2>4 DEF Once
    <3>3. \A i \in DOMAIN r : r[i].hits \cap mem[table].hits = {}
      BY <2>1, <2>2, <2>4 DEF Once
    <3>4. \A i, j \in DOMAIN s : i # j => s[i].hits \cap s[j].hits \subseteq twice[table]
      <4>1. \A i \in DOMAIN s \ {k} : s[i].hits \cap s[k].hits \subseteq twice[table]
        BY <1>4, <3>1, <3>2
      <4>2. \A i, j \in DOMAIN s \ {k} : i # j => s[i].hits \cap s[j].hits \subseteq twice[table]
        BY <1>4, <3>2
      <4> QED BY <4>1, <4>2
    <3>5. \A i \in DOMAIN s : s[i].hits \cap mem[table].hits = {}
      BY <1>4, <3>1, <3>3
    <3>6. ASSUME NEW m \in 1..read, m \notin lost[table]
          PROVE  m \in mem[table].hits \/ \E i \in DOMAIN s : m \in s[i].hits
      <4>1. CASE m = read
        BY <4>1
      <4>2. CASE m # read
        <5>1. m \in mem[table].hits \/ \E i \in DOMAIN r : m \in r[i].hits
          BY <1>1, <2>1, <2>4, <3>6, <4>2 DEF Once
        <5>2. \A i \in DOMAIN r : i \in DOMAIN s /\ r[i].hits \subseteq s[i].hits
          OBVIOUS
        <5> QED BY <5>1, <5>2
      <4> QED BY <4>1, <4>2
    <3>7. \A m \in 1..read' :
       IF Due(t, m)' \/ m \in lost'[t]
       THEN m \notin mem'[t].hits /\ \A i \in DOMAIN rows'[t] : m \notin rows'[t][i].hits
       ELSE m \in mem'[t].hits \/ \E i \in DOMAIN rows'[t] : m \in rows'[t][i].hits
      <4>1. read \notin lost[table]
        BY <1>1, <2>1, <2>4 DEF Struck
      <4>2. \A m \in lost[table] : m \in 1..read =>
              m \notin mem[table].hits /\ \A i \in DOMAIN r : m \notin r[i].hits
        BY <2>1, <2>4 DEF Once
      <4>3. \A m \in lost[table] : m \in 1..read => \A i \in DOMAIN s : m \notin s[i].hits
        BY <1>4, <4>1, <4>2
      <4> QED BY <1>1, <1>2, <2>4, <3>6, <4>2, <4>3
    <3>8. /\ \A i \in DOMAIN rows'[t] : rows'[t][i].hits \cap mem'[t].hits = {}
          /\ \A i, j \in DOMAIN rows'[t] : i # j => rows'[t][i].hits \cap rows'[t][j].hits \subseteq twice'[t]
      BY <1>2, <2>4, <3>4, <3>5
    <3>9. Once(t)'
      BY <2>2, <3>7, <3>8 DEF Once
    <3>10. Struck(t)'
      <4>1. read \notin twice[table] /\ twice[table] \cap mem[table].hits = {}
        BY <1>1, <2>1, <2>4 DEF Struck
      <4>2. \A m \in twice[table] : \A i \in DOMAIN s :
              m \in s[i].hits <=> i \in DOMAIN r /\ m \in r[i].hits
        BY <1>4, <4>1
      <4>3. DOMAIN r \subseteq DOMAIN s
        OBVIOUS
      <4> QED BY <1>1, <1>2, <2>1, <2>4, <4>1, <4>2, <4>3, StruckKept
    <3> QED BY <3>9, <3>10
  <2> QED BY <1>1, <2>3, <2>4
<1> QED BY <1>3, <1>5, <1>6, <1>7 DEF IInv

(* A thread writes the sample of a table to the database. *)
LEMMA WriteStep ==
  ASSUME IInv, NEW table \in Tables, NEW at \in Nat, mem[table] # NoSample,
         rows' = [rows EXCEPT ![table] = Append(@, RowFor(mem[table], at))],
         UNCHANGED <<now, sent, read, mem, lost, twice, env>>, proc'.at = proc.at, stale'.at = stale.at,
         proc' \in Place, stale' \in Place, Writing(table)',
         proc'.written => proc.written \/ (proc.at = table /\ stale.written = stale'.written),
         stale'.written => stale.written \/ (stale.at = table /\ proc.written = proc'.written),
         ~May("preempt") => ~proc.written /\ ~stale.written,
         table = "app" => at = mem[table].first + Rate
  PROVE  IInv'
<1> DEFINE x == RowFor(mem[table], at)
           r == rows[table]
           s == Append(r, x)
           k == Len(r) + 1
<1>1. mem[table] \in Sample
  BY MemType DEF IInv
<1>2. x \in Row /\ x.hits = mem[table].hits /\ x.at = at
  BY <1>1, RowForType
<1>3. rows \in [Tables -> Seq(Row)] /\ r \in Seq(Row)
  BY DEF IInv, Shape
<1>4. rows'[table] = s /\ \A t \in Tables \ {table} : rows'[t] = rows[t]
  BY <1>3
<1>5. /\ s \in Seq(Row) /\ s # <<>> /\ Len(s) = k /\ s[k] = x
      /\ DOMAIN s = DOMAIN r \cup {k} /\ k \notin DOMAIN r
      /\ \A i \in DOMAIN r : s[i] = r[i]
  <2> HIDE DEF x
  <2> QED BY <1>2, <1>3, AppendType
<1> HIDE DEF x, s, k
<1>6. Shape'
  BY <1>3, <1>4, <1>5 DEF IInv, Shape
<1>7. Read'
  <2>1. \A i \in DOMAIN s : s[i].hits \subseteq 1..read
    BY <1>2, <1>5 DEF IInv, Read
  <2>2. \A t \in Tables : \A i \in DOMAIN rows'[t] : rows'[t][i].hits \subseteq 1..read
    BY <1>4, <2>1 DEF IInv, Read
  <2>3. /\ proc'.at = "idle" => ~proc'.written
        /\ stale'.at = "idle" => ~stale'.written
    BY DEF IInv, Read, Tables
  <2> QED BY <2>2, <2>3 DEF IInv, Read
<1>8. Periods'
  <2>1. "app" \in Tables
    BY DEF Tables
  <2>2. CASE table = "app"
    <3>1. at - Rate = mem[table].first
      <4>1. mem[table].first \in Nat
        BY <1>1 DEF Sample
      <4> QED BY <2>2, <4>1, SamplesAssumption
    <3>2. \A m \in x.hits : sent[m] \in x.at - Rate .. x.at
      BY <1>2, <2>2, <3>1 DEF IInv, Periods
    <3>3. \A i \in DOMAIN s : \A m \in s[i].hits : sent[m] \in s[i].at - Rate .. s[i].at
      BY <1>5, <2>2, <3>2 DEF IInv, Periods, AppPeriods
    <3> QED BY <1>4, <2>2, <3>3 DEF IInv, Periods, AppPeriods
  <2>3. CASE table # "app"
    BY <1>4, <2>1, <2>3 DEF IInv, Periods, AppPeriods
  <2> QED BY <2>2, <2>3
<1>9. Apart'
  <2> SUFFICES ASSUME ~May("preempt"), NEW t \in Tables
               PROVE  ~(proc'.written /\ stale'.written) /\ Once(t)' /\ Struck(t)'
    BY DEF Apart, May
  <2>1. Once(t) /\ Struck(t) /\ ~Writing(t) /\ ~(proc'.written /\ stale'.written)
    BY DEF IInv, Apart, Writing, Place
  <2>2. \A m : Due(t, m)' <=> Due(t, m)
    BY DEF Due
  <2>3. CASE t # table
    <3>1. ~Writing(t)'
      BY <2>3 DEF Writing
    <3> QED BY <1>4, <2>1, <2>2, <2>3, <3>1, OnceKept
  <2>4. CASE t = table
    <3>1. \A i, j \in DOMAIN r : i # j => r[i].hits \cap r[j].hits \subseteq twice[table]
      BY <2>1, <2>4 DEF Once
    <3>2. \A i \in DOMAIN r : r[i].hits \cap mem[table].hits = {}
      BY <2>1, <2>4 DEF Once
    <3>3. \A i, j \in DOMAIN s : i # j => s[i].hits \cap s[j].hits \subseteq twice[table]
      BY <1>2, <1>5, <3>1, <3>2
    <3>4. ASSUME NEW m \in 1..read
          PROVE  IF Due(t, m) \/ m \in lost[t]
                 THEN m \notin mem[t].hits /\ \A i \in DOMAIN s : m \notin s[i].hits
                 ELSE m \in mem[t].hits \/ \E i \in DOMAIN s : m \in s[i].hits
      <4>1. IF Due(t, m) \/ m \in lost[t]
            THEN m \notin mem[t].hits /\ \A i \in DOMAIN r : m \notin r[i].hits
            ELSE m \in mem[t].hits \/ \E i \in DOMAIN r : m \in r[i].hits
        BY <2>1, <2>4 DEF Once
      <4> QED BY <1>2, <1>5, <2>4, <4>1
    <3>5. \A m \in 1..read' :
       IF Due(t, m)' \/ m \in lost'[t]
       THEN m \notin mem'[t].hits /\ \A i \in DOMAIN rows'[t] : m \notin rows'[t][i].hits
       ELSE m \in mem'[t].hits \/ \E i \in DOMAIN rows'[t] : m \in rows'[t][i].hits
      BY <1>4, <2>2, <2>4, <3>4
    <3>6. rows'[t] # <<>> /\ rows'[t][Len(rows'[t])].hits = mem'[t].hits
      BY <1>2, <1>4, <1>5, <2>4
    <3>7. \A i, j \in DOMAIN rows'[t] : i # j => rows'[t][i].hits \cap rows'[t][j].hits \subseteq twice'[t]
      BY <1>4, <2>4, <3>3
    <3>8. Once(t)'
      BY <2>4, <3>5, <3>6, <3>7 DEF Once
    <3>9. Struck(t)'
      <4>1. twice[table] \cap mem[table].hits = {}
        BY <2>1, <2>4 DEF Struck
      <4>2. \A m \in twice[table] : \A i \in DOMAIN s :
              m \in s[i].hits <=> i \in DOMAIN r /\ m \in r[i].hits
        BY <1>2, <1>5, <4>1
      <4>3. \A m \in 1..read' : Due(t, m)' => m \notin lost[t] \cup twice[t]
        BY <2>1, <2>2 DEF Struck
      <4> QED BY <1>4, <1>5, <2>1, <2>4, <4>1, <4>2, <4>3, StruckKept
    <3> QED BY <3>8, <3>9
  <2> QED BY <2>1, <2>3, <2>4
<1> QED BY <1>6, <1>7, <1>8, <1>9 DEF IInv

LEMMA RunsFree ==
  ASSUME NEW other, Runs(other)
  PROVE  ~May("preempt") => ~other.written
BY DEF Runs

(* AddLate, in the form of LateStep. *)
LEMMA AddLateInv ==
  ASSUME IInv, NEW table \in Tables, proc.at = table, ~proc.written, proc' = After(table),
         ~May("preempt") => ~stale.written, UNCHANGED <<now, sent, read, mem, stale, lost, twice, env>>,
         AddLate(table, sent[read])
  PROVE  IInv'
<1> DEFINE r == rows[table]
           x == sent[read]
           late == RowsOf(table, x)
<1>1. x \in 0..LastHit /\ x \in Nat /\ read \in Nat
  <2>1. sent[read] \in 0..LastHit
    BY AfterTable
  <2> QED BY <2>1, SamplesAssumption DEF IInv, Shape
<1>2. rows \in [Tables -> Seq(Row)] /\ r \in Seq(Row)
  BY DEF IInv, Shape
<1>3. late = {i \in DOMAIN r : r[i].at \in x..x + Rate}
  BY DEF RowsOf
<1>4. Rate \in Nat
  BY SamplesAssumption
<1>5. CASE late = {}
  <2> DEFINE new == [at |-> x + Rate, hits |-> {read}, peak |-> 1]
             s == Append(r, new)
             k == Len(r) + 1
  <2>1. rows' = [rows EXCEPT ![table] = s]
    BY <1>5 DEF AddLate
  <2>2. new \in Row /\ new.hits = {read} /\ new.at = x + Rate
    BY <1>1, <1>4 DEF Row
  <2> HIDE DEF new
  <2>3. /\ s \in Seq(Row) /\ s[k] = new
        /\ DOMAIN s = DOMAIN r \cup {k} /\ k \notin DOMAIN r
        /\ \A i \in DOMAIN r : s[i] = r[i]
    BY <1>2, <2>2, AppendType
  <2>4. x \in new.at - Rate .. new.at
    BY <1>1, <1>4, <2>2
  <2> HIDE DEF s, k, x
  <2>5. k \in DOMAIN s /\ s[k].hits = {read} /\ (table = "app" => sent[read] \in s[k].at - Rate .. s[k].at)
    BY <2>2, <2>3, <2>4 DEF x
  <2> QED BY <2>1, <2>3, <2>5, LateStep, ZenonT(40)
<1>6. CASE late # {}
  <2> DEFINE k == Min(late)
             new == [r[k] EXCEPT !.hits = r[k].hits \cup {read}]
             s == [r EXCEPT ![k] = new]
  <2>1. late \subseteq Nat
    BY <1>2, <1>3
  <2>2. k \in DOMAIN r /\ r[k].at \in x..x + Rate
    <3>1. k \in late
      <4> HIDE DEF late
      <4> QED BY <1>6, <2>1, MinIsIn
    <3> QED BY <1>3, <3>1
  <2>3. rows' = [rows EXCEPT ![table] = s]
    BY <1>2, <1>6 DEF AddLate
  <2> HIDE DEF k, late
  <2>4. r[k] \in Row
    BY <1>2, <2>2
  <2>5. new \in Row /\ new.hits = r[k].hits \cup {read} /\ new.at = r[k].at
    BY <1>1, <2>4 DEF Row
  <2> HIDE DEF new
  <2>6. s \in Seq(Row) /\ DOMAIN s = DOMAIN r /\ s[k] = new /\ \A i \in DOMAIN r \ {k} : s[i] = r[i]
    BY <1>2, <2>2, <2>5
  <2>7. x \in r[k].at - Rate .. r[k].at
    BY <1>1, <1>4, <2>2
  <2> HIDE DEF s, x
  <2>8. k \in DOMAIN s /\ s[k].hits = r[k].hits \cup {read} /\ s[k].at = r[k].at
        /\ (table = "app" => sent[read] \in s[k].at - Rate .. s[k].at)
    BY <2>2, <2>5, <2>6, <2>7 DEF x
  <2> QED BY <2>2, <2>3, <2>6, <2>8, LateStep
<1> QED BY <1>5, <1>6

LEMMA AddInv ==
  ASSUME IInv, NEW table \in Tables, add_to_sample(table)
  PROVE  IInv'
<1> DEFINE x == sent[read]
           sample == mem[table]
<1>1. /\ proc = [at |-> table, written |-> FALSE] /\ Runs(stale)
      /\ UNCHANGED <<now, sent, read, stale, lost, twice, env>>
  BY DEF add_to_sample, struck
<1>2. proc.at = table /\ ~proc.written /\ (~May("preempt") => ~stale.written)
  BY <1>1, RunsFree
<1>3. CASE /\ sample = NoSample /\ mem' = [mem EXCEPT ![table] = NewSample(x)]
           /\ proc' = After(table) /\ UNCHANGED rows
  <2>1. x \in 0..LastHit
    BY <1>1, <1>2, <1>3, AfterTable
  <2>2. NewSample(x) \in Sample /\ NewSample(x).hits = {read} /\ NewSample(x).first = x
    BY <2>1, NewSampleType DEF IInv
  <2>3. NewSample(x).hits = sample.hits \cup {read}
    BY <1>3, <2>2, NoSampleIsNone
  <2>4. \A m \in NewSample(x).hits : sent[m] \in NewSample(x).first .. NewSample(x).first + Rate
    BY <2>1, <2>2, SamplesAssumption
  <2> DEFINE s == NewSample(x)
  <2>5. s \in Sample /\ s.hits = sample.hits \cup {read} /\ mem' = [mem EXCEPT ![table] = s]
        /\ \A m \in s.hits : sent[m] \in s.first .. s.first + Rate
    BY <1>3, <2>2, <2>3, <2>4
  <2> HIDE DEF s, x
  <2> QED BY <1>1, <1>2, <1>3, <2>5, MemStep
<1>4. CASE /\ sample # NoSample /\ InPeriod(sample, x) /\ mem' = [mem EXCEPT ![table] = Add(sample, x)]
           /\ proc' = After(table) /\ UNCHANGED rows
  <2>1. x \in 0..LastHit
    BY <1>1, <1>2, <1>4, AfterTable
  <2>2. sample \in Sample
    BY <1>4, MemType DEF IInv
  <2> DEFINE s == Add(sample, x)
  <2>3. s \in Sample /\ s.hits = sample.hits \cup {read} /\ s.first = sample.first
    BY <2>1, <2>2, AddType DEF IInv
  <2>4. mem' = [mem EXCEPT ![table] = s]
    BY <1>4
  <2> HIDE DEF s
  <2>5. x \in s.first .. s.first + Rate
    <3>1. s.first \in Nat
      BY <2>3 DEF Sample
    <3> QED BY <1>4, <2>1, <2>3, <3>1, SamplesAssumption DEF InPeriod
  <2>6. table = "app" => \A m \in s.hits : sent[m] \in s.first .. s.first + Rate
    BY <2>3, <2>5 DEF IInv, Periods
  <2> QED BY <1>1, <1>2, <1>4, <2>3, <2>4, <2>6, MemStep
<1>5. CASE /\ sample # NoSample /\ x < sample.first
           /\ AddLate(table, x) /\ proc' = After(table) /\ UNCHANGED mem
  BY <1>1, <1>2, <1>5, AddLateInv
<1>6. CASE /\ sample # NoSample /\ ~InPeriod(sample, x) /\ x > sample.first
           /\ create_sample(table, sample, PastTime(table, x))
           /\ proc' = [proc EXCEPT !.written = TRUE] /\ UNCHANGED mem
  <2> DEFINE at == PastTime(table, x)
  <2>1. at \in Nat /\ (table = "app" => at = mem[table].first + Rate)
    <3>1. sample \in Sample
      BY <1>6, MemType DEF IInv
    <3>2. x \in Nat
      <4>1. read \in 1..read
        BY <1>2 DEF IInv, Read, Shape, Tables
      <4>2. x \in 0..LastHit
        BY <4>1, SentType DEF IInv
      <4> QED BY <4>2
    <3> QED BY <3>1, <3>2, SamplesAssumption DEF PastTime, Sample
  <2>2. rows' = [rows EXCEPT ![table] = Append(@, RowFor(mem[table], at))]
    BY <1>6 DEF create_sample, RowFor
  <2>3. proc'.at = proc.at /\ proc'.written /\ proc' \in Place
    BY <1>1, <1>6 DEF Place, Tables
  <2>4. Writing(table)'
    BY <1>2, <2>3 DEF Writing
  <2>5. stale' \in Place /\ stale' = stale
    BY <1>1 DEF IInv, Shape
  <2> HIDE DEF at
  <2> QED BY <1>1, <1>2, <1>6, <2>1, <2>2, <2>3, <2>4, <2>5, WriteStep
<1> QED BY <1>3, <1>4, <1>5, <1>6 DEF add_to_sample

LEMMA ReplaceInv ==
  ASSUME IInv, NEW table \in Tables, ReplaceSample(table)
  PROVE  IInv'
<1> DEFINE x == sent[read]
           s == NewSample(x)
<1>1. /\ proc.at = table /\ proc.written /\ mem' = [mem EXCEPT ![table] = s]
      /\ proc' = After(table) /\ UNCHANGED <<now, sent, read, rows, stale, lost, twice, env>>
  BY DEF ReplaceSample, struck
<1>2. x \in 0..LastHit
  BY <1>1, AfterTable
<1>3. s \in Sample /\ s.hits = {read} /\ s.first = x
  BY <1>2, NewSampleType DEF IInv
<1>4. \A m \in s.hits : sent[m] \in s.first .. s.first + Rate
  BY <1>2, <1>3, SamplesAssumption
<1>5. ~May("preempt") => ~stale.written
  BY <1>1 DEF IInv, Apart
<1> HIDE DEF s
<1> QED BY <1>1, <1>3, <1>4, <1>5, MemStep

(* The writer goes to another table, with nothing written. *)
LEMMA StaleMoves ==
  ASSUME IInv, stale' \in Place, ~stale.written, ~stale'.written,
         UNCHANGED <<now, sent, read, mem, rows, proc, lost, twice, env>>
  PROVE  IInv'
<1>1. Shape'
  BY DEF IInv, Shape
<1>2. Read'
  BY DEF IInv, Read
<1>3. Periods'
  BY DEF IInv, Periods, AppPeriods
<1>4. Apart'
  <2> SUFFICES ASSUME ~May("preempt"), NEW t \in Tables
               PROVE  ~(proc'.written /\ stale'.written) /\ Once(t)' /\ Struck(t)'
    BY DEF Apart, May
  <2>1. Once(t) /\ Struck(t)
    BY DEF IInv, Apart
  <2>2. (Writing(t)' <=> Writing(t)) /\ \A m \in 1..read : Due(t, m)' <=> Due(t, m)
    BY DEF Writing, Due
  <2> QED BY <2>1, <2>2, OnceKept
<1> QED BY <1>1, <1>2, <1>3, <1>4 DEF IInv

LEMMA StaleInv == IInv /\ process_stale_samples => IInv'
<1> SUFFICES ASSUME IInv, process_stale_samples PROVE IInv'
  OBVIOUS
<1>1. stale' \in Place /\ ~stale.written /\ ~stale'.written
  BY DEF process_stale_samples, Idle, Place, Tables
<1> QED BY <1>1, StaleMoves DEF process_stale_samples, struck

LEMMA WriteStaleInv ==
  ASSUME IInv, NEW table \in Tables, write_stale_samples(table)
  PROVE  IInv'
<1>1. /\ stale = [at |-> table, written |-> FALSE] /\ Runs(proc)
      /\ UNCHANGED <<now, sent, read, mem, proc, lost, twice, env>>
  BY DEF write_stale_samples, struck
<1>2. stale.at = table /\ ~stale.written /\ (~May("preempt") => ~proc.written)
  BY <1>1, RunsFree
<1>3. CASE IsStale(mem[table])
  <2> DEFINE at == mem[table].first + Rate
  <2>1. mem[table] # NoSample
    BY <1>3 DEF IsStale
  <2>2. at \in Nat
    <3>1. mem[table] \in Sample
      BY <2>1, MemType DEF IInv
    <3> QED BY <3>1, SamplesAssumption DEF Sample
  <2>3. rows' = [rows EXCEPT ![table] = Append(@, RowFor(mem[table], at))]
    BY <1>3 DEF write_stale_samples, create_sample, RowFor
  <2>4. stale'.at = stale.at /\ stale'.written /\ stale' \in Place
    <3>1. stale' = [stale EXCEPT !.written = TRUE]
      BY <1>3 DEF write_stale_samples
    <3>2. stale' = [at |-> table, written |-> TRUE]
      BY <1>1, <3>1
    <3> QED BY <1>2, <3>2 DEF Place
  <2>5. Writing(table)'
    BY <1>2, <2>4 DEF Writing
  <2>6. proc' \in Place /\ proc' = proc
    BY <1>1 DEF IInv, Shape
  <2> QED BY <1>1, <1>2, <2>1, <2>2, <2>3, <2>4, <2>5, <2>6, WriteStep
<1>4. CASE ~IsStale(mem[table])
  <2>1. stale' = After(table) /\ UNCHANGED rows
    BY <1>4 DEF write_stale_samples
  <2>2. stale' \in Place /\ ~stale'.written
    BY <2>1 DEF After, Idle, Place, Tables
  <2> QED BY <1>1, <1>2, <2>1, <2>2, StaleMoves
<1> QED BY <1>3, <1>4

(* What leaves memory is in the last row. *)
LEMMA ForgetInv ==
  ASSUME IInv, NEW table \in Tables, ForgetSample(table)
  PROVE  IInv'
<1>1. /\ stale.at = table /\ stale.written /\ mem' = [mem EXCEPT ![table] = NoSample]
      /\ stale' = After(table) /\ UNCHANGED <<now, sent, read, rows, proc, lost, twice, env>>
  BY DEF ForgetSample, struck
<1>2. stale' \in Place /\ ~stale'.written
  BY <1>1 DEF After, Idle, Place, Tables
<1>3. mem \in [Tables -> Sample \cup {NoSample}] /\ mem'[table] = NoSample
      /\ \A t \in Tables \ {table} : mem'[t] = mem[t]
  BY <1>1 DEF IInv, Shape
<1>4. Shape'
  BY <1>1, <1>2, <1>3 DEF IInv, Shape
<1>5. Read'
  BY <1>1, <1>2, <1>3, NoSampleIsNone DEF IInv, Read
<1>6. Periods'
  <2>1. "app" \in Tables
    BY DEF Tables
  <2>2. \A m \in mem'["app"].hits : sent'[m] \in mem'["app"].first .. mem'["app"].first + Rate
    BY <1>1, <1>3, <2>1, NoSampleIsNone DEF IInv, Periods
  <2> QED BY <1>1, <2>2 DEF IInv, Periods, AppPeriods
<1>7. Apart'
  <2> SUFFICES ASSUME ~May("preempt"), NEW t \in Tables
               PROVE  ~(proc'.written /\ stale'.written) /\ Once(t)' /\ Struck(t)'
    BY <1>1 DEF Apart, May
  <2>1. Once(t) /\ Struck(t) /\ ~proc.written
    BY <1>1 DEF IInv, Apart
  <2>2. ~Writing(t)' /\ (Writing(t) <=> t = table) /\ \A m : Due(t, m)' <=> Due(t, m)
    BY <1>1, <1>2, <2>1 DEF Writing, Due
  <2>3. CASE t # table
    BY <1>1, <1>3, <2>1, <2>2, <2>3, OnceKept
  <2>4. CASE t = table
    <3>1. mem'[t].hits = {} /\ rows'[t] = rows[t]
      BY <1>1, <1>3, <2>4, NoSampleIsNone
    <3>2. rows[t] # <<>> /\ rows[t][Len(rows[t])].hits = mem[t].hits
      BY <2>1, <2>2, <2>4 DEF Once
    <3>3. Len(rows[t]) \in DOMAIN rows[t]
      <4>1. rows[t] \in Seq(Row)
        BY DEF IInv, Shape
      <4> QED BY <3>2, <4>1
    <3>4. \A m \in 1..read' :
       IF Due(t, m)' \/ m \in lost'[t]
       THEN m \notin mem'[t].hits /\ \A i \in DOMAIN rows'[t] : m \notin rows'[t][i].hits
       ELSE m \in mem'[t].hits \/ \E i \in DOMAIN rows'[t] : m \in rows'[t][i].hits
      BY <1>1, <2>1, <2>2, <3>1, <3>2, <3>3 DEF Once
    <3>5. /\ \A i \in DOMAIN rows'[t] : rows'[t][i].hits \cap mem'[t].hits = {}
          /\ \A i, j \in DOMAIN rows'[t] : i # j => rows'[t][i].hits \cap rows'[t][j].hits \subseteq twice'[t]
      BY <1>1, <2>1, <3>1 DEF Once
    <3>6. IF Writing(t)'
          THEN rows'[t] # <<>> /\ rows'[t][Len(rows'[t])].hits = mem'[t].hits
          ELSE \A i \in DOMAIN rows'[t] : rows'[t][i].hits \cap mem'[t].hits = {}
      BY <2>2, <3>5
    <3>7. Once(t)'
      BY <1>2, <3>4, <3>5, <3>6 DEF Once
    <3>8. Struck(t)'
      <4>1. \A m \in 1..read' : Due(t, m)' => m \notin lost[t] \cup twice[t]
        BY <1>1, <2>1, <2>2 DEF Struck
      <4> QED BY <1>1, <2>1, <3>1, <4>1, StruckKept
    <3> QED BY <1>2, <3>7, <3>8
  <2> QED BY <1>2, <2>3, <2>4
<1> QED BY <1>4, <1>5, <1>6, <1>7 DEF IInv

(* All that is in memory goes to the database. *)
LEMMA ShutdownInv == IInv /\ shutdown => IInv'
<1> SUFFICES ASSUME IInv, shutdown PROVE IInv'
  OBVIOUS
<1> DEFINE x(t) == RowFor(mem[t], mem[t].first + Rate)
<1>1. /\ mem' = [t \in Tables |-> NoSample] /\ proc' = Idle /\ stale' = Idle
      /\ UNCHANGED <<now, sent, read, env>>
  BY DEF shutdown
<1>2. rows' = [t \in Tables |-> IF mem[t] = NoSample THEN rows[t] ELSE Append(rows[t], x(t))]
  BY DEF shutdown, RowFor
<1>3. ASSUME NEW t \in Tables, mem[t] # NoSample
      PROVE  x(t) \in Row /\ x(t).hits = mem[t].hits /\ x(t).at = mem[t].first + Rate /\ mem[t].first \in Nat
  <2>1. mem[t] \in Sample
    BY <1>3, MemType DEF IInv
  <2>2. mem[t].first + Rate \in Nat /\ mem[t].first \in Nat
    BY <2>1, SamplesAssumption DEF Sample
  <2> QED BY <2>1, <2>2, RowForType
<1> HIDE DEF x
<1>4. ASSUME NEW t \in Tables, mem[t] # NoSample
      PROVE  /\ rows'[t] \in Seq(Row)
             /\ DOMAIN rows'[t] = DOMAIN rows[t] \cup {Len(rows[t]) + 1} /\ Len(rows[t]) + 1 \notin DOMAIN rows[t]
             /\ rows'[t][Len(rows[t]) + 1] = x(t)
             /\ \A i \in DOMAIN rows[t] : rows'[t][i] = rows[t][i]
  <2>1. rows[t] \in Seq(Row)
    BY DEF IInv, Shape
  <2>2. rows'[t] = Append(rows[t], x(t))
    BY <1>2, <1>4
  <2> QED BY <1>3, <1>4, <2>1, <2>2, AppendType
<1>5. ASSUME NEW t \in Tables, mem[t] = NoSample PROVE rows'[t] = rows[t] /\ mem[t].hits = {}
  BY <1>2, <1>5, NoSampleIsNone
<1>6. \A t \in Tables : mem'[t] = NoSample /\ mem'[t].hits = {}
  BY <1>1, NoSampleIsNone
<1>7. ASSUME NEW t \in Tables
       PROVE  /\ lost'[t] = IF Due(t, read) THEN lost[t] \cup {read} ELSE lost[t]
              /\ twice'[t] = IF Writing(t) THEN twice[t] \cup mem[t].hits ELSE twice[t]
  <2>1. Due(t, read) <=> InHand(t)
    BY DEF Due, InHand, Tables
  <2>2. Writing(t) <=> InTransit(t)
    <3>1. ASSUME NEW p \in Place
          PROVE  (p.written /\ p.at = t) <=> p = [at |-> t, written |-> TRUE]
      BY DEF Place
    <3> QED BY <3>1 DEF IInv, Shape, Writing, InTransit
  <2> QED BY <2>1, <2>2 DEF shutdown
<1>8. Shape'
  <2>1. \A t \in Tables : rows'[t] \in Seq(Row)
    BY <1>4, <1>5 DEF IInv, Shape
  <2>2. rows' \in [Tables -> Seq(Row)]
    BY <1>2, <2>1
  <2>3. mem' \in [Tables -> Sample \cup {NoSample}] /\ proc' \in Place /\ stale' \in Place
    BY <1>1 DEF Idle, Place
  <2>4. lost' \in [Tables -> SUBSET Nat] /\ twice' \in [Tables -> SUBSET Nat]
    <3>1. read \in Nat /\ \A t \in Tables : mem[t].hits \subseteq Nat
      BY HitsType DEF IInv, Shape
    <3>2. \A t \in Tables : lost'[t] \in SUBSET Nat /\ twice'[t] \in SUBSET Nat
      BY <1>7, <3>1 DEF IInv, Shape
    <3>3. lost' = [t \in Tables |-> lost'[t]] /\ twice' = [t \in Tables |-> twice'[t]]
      BY DEF shutdown
    <3> QED BY <3>2, <3>3
  <2> QED BY <1>1, <2>2, <2>3, <2>4 DEF IInv, Shape
<1>9. Read'
  <2>1. ASSUME NEW t \in Tables, NEW i \in DOMAIN rows'[t] PROVE rows'[t][i].hits \subseteq 1..read
    BY <1>3, <1>4, <1>5 DEF IInv, Read
  <2>2. ASSUME NEW t \in Tables PROVE lost'[t] \cup twice'[t] \subseteq 1..read
    <3>1. Due(t, read) => read \in 1..read
      BY DEF IInv, Shape, Read, Due, Tables
    <3>2. mem[t].hits \subseteq 1..read /\ lost[t] \cup twice[t] \subseteq 1..read
      BY DEF IInv, Read
    <3> QED BY <1>7, <3>1, <3>2
  <2> QED BY <1>1, <1>6, <2>1, <2>2 DEF Read, Idle
<1>10. Periods'
  <2>1. "app" \in Tables
    BY DEF Tables
  <2>2. CASE mem["app"] = NoSample
    BY <1>1, <1>5, <1>6, <2>1, <2>2 DEF IInv, Periods, AppPeriods
  <2>3. CASE mem["app"] # NoSample
    <3> DEFINE k == Len(rows["app"]) + 1
               y == x("app")
    <3>1. /\ DOMAIN rows'["app"] = DOMAIN rows["app"] \cup {k} /\ rows'["app"][k] = y
          /\ \A i \in DOMAIN rows["app"] : rows'["app"][i] = rows["app"][i]
      BY <1>4, <2>1, <2>3
    <3>2. y.hits = mem["app"].hits /\ y.at - Rate = mem["app"].first /\ y.at = mem["app"].first + Rate
      <4>1. y.hits = mem["app"].hits /\ y.at = mem["app"].first + Rate /\ mem["app"].first \in Nat
        BY <1>3, <2>1, <2>3
      <4> QED BY <4>1, SamplesAssumption
    <3> HIDE DEF k, y
    <3>3. \A m \in y.hits : sent[m] \in y.at - Rate .. y.at
      BY <3>2 DEF IInv, Periods
    <3>4. \A i \in DOMAIN rows'["app"] : \A m \in rows'["app"][i].hits :
             sent[m] \in rows'["app"][i].at - Rate .. rows'["app"][i].at
      BY <3>1, <3>3 DEF IInv, Periods, AppPeriods
    <3> QED BY <1>1, <1>6, <2>1, <3>4 DEF Periods, AppPeriods
  <2> QED BY <2>2, <2>3
<1>11. Apart'
  <2>0. env' = env
    BY <1>1
  <2> SUFFICES ASSUME ~May("preempt"), NEW t \in Tables
               PROVE  ~(proc'.written /\ stale'.written) /\ Once(t)' /\ Struck(t)'
    BY <2>0 DEF Apart, May, Tables
  <2> DEFINE k == Len(rows[t]) + 1
  <2>1. Once(t) /\ Struck(t) /\ ~Writing(t)' /\ ~proc'.written
    BY <1>1 DEF IInv, Apart, Writing, Idle
  <2>2. \A m : ~Due(t, m)'
    BY <1>1 DEF Due, Idle, Tables
  <2>3. /\ lost'[t] = IF Due(t, read) THEN lost[t] \cup {read} ELSE lost[t]
        /\ twice'[t] = IF Writing(t) THEN twice[t] \cup mem[t].hits ELSE twice[t]
    BY <1>7
  <2>4. \/ /\ mem[t].hits = {}
           /\ rows'[t] = rows[t]
        \/ /\ DOMAIN rows'[t] = DOMAIN rows[t] \cup {k}
           /\ k \notin DOMAIN rows[t]
           /\ rows'[t][k].hits = mem[t].hits
           /\ \A i \in DOMAIN rows[t] : rows'[t][i] = rows[t][i]
    <3>1. CASE mem[t] = NoSample
      BY <1>5, <3>1
    <3>2. CASE mem[t] # NoSample
      BY <1>3, <1>4, <3>2
    <3> QED BY <3>1, <3>2
  <2> HIDE DEF k
  <2>5. \A i \in DOMAIN rows[t] : i \in DOMAIN rows'[t] /\ rows'[t][i] = rows[t][i]
    BY <2>4
  <2>6. \A i \in DOMAIN rows'[t] : i \in DOMAIN rows[t] \/ (i = k /\ rows'[t][i].hits = mem[t].hits)
    BY <2>4
  <2>7. twice[t] \subseteq twice'[t] /\ (Writing(t) => mem[t].hits \subseteq twice'[t])
    BY <2>3
  <2>8. \A i \in DOMAIN rows[t] : rows[t][i].hits \cap mem[t].hits \subseteq twice'[t]
    BY <2>1, <2>7 DEF Once
  <2>9. \A i, j \in DOMAIN rows'[t] : i # j => rows'[t][i].hits \cap rows'[t][j].hits \subseteq twice'[t]
    <3> SUFFICES ASSUME NEW i \in DOMAIN rows'[t], NEW j \in DOMAIN rows'[t], i # j
                 PROVE  rows'[t][i].hits \cap rows'[t][j].hits \subseteq twice'[t]
      OBVIOUS
    <3>1. CASE i \in DOMAIN rows[t] /\ j \in DOMAIN rows[t]
      BY <2>1, <2>5, <2>7, <3>1 DEF Once
    <3>2. CASE i \in DOMAIN rows[t] /\ j \notin DOMAIN rows[t]
      BY <2>5, <2>6, <2>8, <3>2
    <3>3. CASE i \notin DOMAIN rows[t] /\ j \in DOMAIN rows[t]
      BY <2>5, <2>6, <2>8, <3>3
    <3>4. CASE i \notin DOMAIN rows[t] /\ j \notin DOMAIN rows[t]
      BY <2>6, <3>4
    <3> QED BY <3>1, <3>2, <3>3, <3>4
  <2>10. ASSUME NEW m \in 1..read
         PROVE  m \in lost'[t] <=> \A i \in DOMAIN rows'[t] : m \notin rows'[t][i].hits
    <3>1. m \in lost'[t] <=> Due(t, m) \/ m \in lost[t]
      BY <2>3 DEF Due
    <3>2. CASE m \in lost'[t]
      <4>1. m \notin mem[t].hits /\ \A i \in DOMAIN rows[t] : m \notin rows[t][i].hits
        BY <2>1, <3>1, <3>2 DEF Once
      <4> QED BY <2>5, <2>6, <3>2, <4>1
    <3>3. CASE m \notin lost'[t]
      <4>1. m \in mem[t].hits \/ \E i \in DOMAIN rows[t] : m \in rows[t][i].hits
        BY <2>1, <3>1, <3>3 DEF Once
      <4> QED BY <2>4, <2>5, <3>3, <4>1
    <3> QED BY <3>2, <3>3
  <2>11. Once(t)'
    <3>1. \A i \in DOMAIN rows'[t] : rows'[t][i].hits \cap mem'[t].hits = {}
      BY <1>6
    <3>2. \A m \in 1..read' :
       IF Due(t, m)' \/ m \in lost'[t]
       THEN m \notin mem'[t].hits /\ \A i \in DOMAIN rows'[t] : m \notin rows'[t][i].hits
       ELSE m \in mem'[t].hits \/ \E i \in DOMAIN rows'[t] : m \in rows'[t][i].hits
      BY <1>1, <1>6, <2>2, <2>10
    <3> QED BY <2>1, <2>9, <3>1, <3>2 DEF Once
  <2>12. ASSUME NEW m \in twice'[t] PROVE InTwo(t, m)'
    <3>1. CASE m \in twice[t]
      <4>1. PICK i, j \in DOMAIN rows[t] :
              i # j /\ \A n \in DOMAIN rows[t] : m \in rows[t][n].hits <=> n \in {i, j}
        BY <2>1, <3>1 DEF Struck, InTwo
      <4>2. m \notin mem[t].hits
        BY <2>1, <3>1 DEF Struck
      <4>3. \A n \in DOMAIN rows'[t] : m \in rows'[t][n].hits <=> n \in {i, j}
        BY <2>4, <2>5, <2>6, <4>1, <4>2
      <4> QED BY <2>5, <4>1, <4>3 DEF InTwo
    <3>2. CASE m \notin twice[t]
      <4> DEFINE n == Len(rows[t])
      <4>1. Writing(t) /\ m \in mem[t].hits
        BY <2>3, <2>12, <3>2
      <4>2. rows[t] # <<>> /\ rows[t][n].hits = mem[t].hits
        BY <2>1, <4>1 DEF Once
      <4>3. n \in DOMAIN rows[t]
        <5>1. rows[t] \in Seq(Row)
          BY DEF IInv, Shape
        <5> QED BY <4>2, <5>1
      <4> HIDE DEF n
      <4>4. \A i \in DOMAIN rows[t] : m \in rows[t][i].hits <=> i = n
        BY <2>1, <3>2, <4>1, <4>2, <4>3 DEF Once
      <4>5. k \in DOMAIN rows'[t] /\ k # n /\ m \in rows'[t][k].hits
        BY <2>4, <4>1, <4>3
      <4>6. \A i \in DOMAIN rows'[t] : m \in rows'[t][i].hits <=> i \in {n, k}
        BY <2>5, <2>6, <4>4, <4>5
      <4> QED BY <2>5, <4>3, <4>5, <4>6 DEF InTwo
    <3> QED BY <3>1, <3>2
  <2>13. Struck(t)'
    BY <1>6, <2>2, <2>12 DEF Struck
  <2> QED BY <2>1, <2>11, <2>13
<1> QED BY <1>8, <1>9, <1>10, <1>11 DEF IInv

-----------------------------------------------------------------------------
LEMMA StepInv == IInv /\ [Next]_vars => IInv'
<1> SUFFICES ASSUME IInv, [Next]_vars PROVE IInv'
  OBVIOUS
<1>1. CASE Tick
  BY <1>1, TickInv
<1>2. CASE \E t \in 0..LastHit : log_spent_time(t)
  BY <1>2, LogInv
<1>3. CASE Processor
  BY <1>3, ProcessInv, AddInv, ReplaceInv DEF Processor
<1>4. CASE Writer
  BY <1>4, StaleInv, WriteStaleInv, ForgetInv DEF Writer
<1>5. CASE shutdown
  BY <1>5, ShutdownInv
<1>6. CASE UNCHANGED vars
  <2>1. Shape' /\ Read' /\ Periods'
    BY <1>6 DEF vars, struck, IInv, Shape, Read, Periods, AppPeriods
  <2>2. Apart'
    BY <1>6 DEF vars, struck, IInv, Apart, Once, Struck, InTwo, Writing, Due, May
  <2> QED BY <2>1, <2>2 DEF IInv
<1> QED BY <1>1, <1>2, <1>3, <1>4, <1>5, <1>6 DEF Next

(* A message is counted in each place that it is in. *)
LEMMA CountedWhere ==
  ASSUME IInv, NEW t \in Tables, Once(t), Struck(t), ~Writing(t), NEW m \in 1..read, ~Due(t, m)
  PROVE  Counted(t, m) = CASE m \in lost[t] -> 0
                           [] m \in twice[t] \ lost[t] -> 2
                           [] OTHER -> 1
<1> DEFINE I == {i \in DOMAIN rows[t] : m \in rows[t][i].hits}
<1>1. CASE m \in lost[t]
  <2>1. I = {} /\ m \notin mem[t].hits
    BY <1>1 DEF Once
  <2>2. Cardinality(I) = 0
    <3> HIDE DEF I
    <3> QED BY <2>1, FS_EmptySet
  <2> QED BY <1>1, <2>1, <2>2 DEF Counted
<1>2. CASE m \in twice[t] \ lost[t]
  <2>1. PICK i, j \in DOMAIN rows[t] :
          i # j /\ \A k \in DOMAIN rows[t] : m \in rows[t][k].hits <=> k \in {i, j}
    BY <1>2 DEF Struck, InTwo
  <2>2. I = {i, j} /\ m \notin mem[t].hits
    BY <1>2, <2>1 DEF Struck
  <2>3. Cardinality({i, j}) = 2
    <3>1. IsFiniteSet({i}) /\ Cardinality({i}) = 1
      BY FS_Singleton
    <3>2. Cardinality({i} \cup {j}) = 2
      <4>1. j \notin {i}
        BY <2>1
      <4>2. Cardinality({i} \cup {j}) = IF j \in {i} THEN Cardinality({i}) ELSE Cardinality({i}) + 1
        BY <3>1, FS_AddElement
      <4> QED BY <3>1, <4>1, <4>2
    <3>3. {i} \cup {j} = {i, j}
      OBVIOUS
    <3> QED BY <3>2, <3>3
  <2>4. Cardinality(I) = 2
    <3> HIDE DEF I
    <3> QED BY <2>2, <2>3
  <2> QED BY <1>2, <2>2, <2>4 DEF Counted
<1>3. CASE m \notin lost[t] /\ m \notin twice[t] /\ m \in mem[t].hits
  <2>1. I = {}
    BY <1>3 DEF Once
  <2>2. Cardinality(I) = 0
    <3> HIDE DEF I
    <3> QED BY <2>1, FS_EmptySet
  <2> QED BY <1>3, <2>2 DEF Counted
<1>4. CASE m \notin lost[t] /\ m \notin twice[t] /\ m \notin mem[t].hits
  <2>1. PICK k \in DOMAIN rows[t] : m \in rows[t][k].hits
    BY <1>4 DEF Once
  <2>2. I = {k}
    BY <1>4, <2>1 DEF Once
  <2>3. Cardinality(I) = 1
    <3> HIDE DEF I
    <3> QED BY <2>2, FS_Singleton
  <2> QED BY <1>4, <2>3 DEF Counted
<1> QED BY <1>1, <1>2, <1>3, <1>4

LEMMA InvCountsRight == IInv => CountsRight
<1> SUFFICES ASSUME IInv PROVE CountsRight
  OBVIOUS
<1>1. TypeOK
  <2>1. \A i \in DOMAIN sent : sent[i] \in 0..LastHit
    <3> DEFINE S == 0..LastHit
    <3>1. sent \in Seq(S)
      BY DEF IInv, Shape
    <3>2. \A i \in DOMAIN sent : sent[i] \in S
      <4> HIDE DEF S
      <4> QED BY <3>1
    <3> QED BY <3>2
  <2>2. ASSUME NEW t \in Tables
        PROVE  /\ mem[t] # NoSample => mem[t].first \in 0..LastHit /\ mem[t].hits # {}
               /\ mem[t].hits \subseteq 1..read /\ lost[t] \cup twice[t] \subseteq 1..read
               /\ \A i \in DOMAIN rows[t] : rows[t][i].hits \subseteq 1..read /\ rows[t][i].at \in Nat
    <3>1. mem[t] # NoSample => mem[t].first \in 0..LastHit
      BY MemType DEF IInv, Sample
    <3>2. \A i \in DOMAIN rows[t] : rows[t][i].at \in Nat
      <4>1. rows[t] \in Seq(Row)
        BY DEF IInv, Shape
      <4>2. \A i \in DOMAIN rows[t] : rows[t][i] \in Row
        BY <4>1
      <4> QED BY <4>2 DEF Row
    <3> QED BY <3>1, <3>2 DEF IInv, Read
  <2> QED BY <2>1, <2>2 DEF IInv, Shape, TypeOK, Place
<1>2. HitsExact
  <2> SUFFICES ASSUME ~May("preempt"), proc.at = "idle", ~stale.written, NEW t \in Tables, NEW m \in 1..read
               PROVE  Counted(t, m) = CASE m \in lost[t] -> 0
                                        [] m \in twice[t] \ lost[t] -> 2
                                        [] OTHER -> 1
    BY DEF HitsExact
  <2>1. Once(t) /\ Struck(t) /\ ~Writing(t) /\ ~Due(t, m)
    BY DEF IInv, Apart, Read, Writing, Due, Tables
  <2> QED BY <2>1, CountedWhere
<1> QED BY <1>1, <1>2 DEF IInv, Periods, CountsRight

(* However the message processor, the writer of stale samples and a        *)
(* restart of the analyzer follow each other, and in whatever order the    *)
(* workers' messages come, message_analyzer.rb counts a message that it    *)
(* has dealt with once for the application and once for the URL, and a row *)
(* of an application counts requests of its own period; for every          *)
(* sampling rate.  A kill in the middle costs the message in hand, and     *)
(* counts a sample twice that was written and not yet forgotten.           *)
THEOREM SamplesAreRight == Spec => []CountsRight
<1>1. Spec => []IInv
  BY InitInv, StepInv, PTL DEF Spec
<1> QED BY <1>1, InvCountsRight, PTL
=============================================================================
