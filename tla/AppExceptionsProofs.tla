------------------------ MODULE AppExceptionsProofs ------------------------
(***************************************************************************)
(* The analyzer and the panel on one database, for any number of           *)
(* exceptions, classes and browsers and every size of a page: records and  *)
(* pages stay sound, and an exception that comes back after it was closed  *)
(* is on its way to being open again.                                      *)
(*                                                                         *)
(* The invariant says of each of the three writers what it may still do    *)
(* with what it has read before: the analyzer with the exception it deals  *)
(* with, the panel with the ids it has looked up, a browser with the rows  *)
(* it shows.                                                               *)
(***************************************************************************)
EXTENDS AppExceptions, FiniteSetTheorems, TLAPS

(* The database, the queue and config.yml. *)
Stored ==
  /\ queue \in Seq(Exceptions) /\ left \in 0..Occurrences
  /\ records \in Seq(Exceptions) /\ IsInjective(records)
  /\ status \in [Exceptions -> Statuses \cup {None}]
  /\ \A x \in Exceptions : status[x] = None <=> x \notin Recorded
  /\ ignored \subseteq Classes /\ reseen \subseteq Recorded

(* The analyzer's thread: one that is to create a record has not found one, *)
(* and nobody else creates records.                                        *)
Handling ==
  /\ anl \in [at : {"idle", "look", "check", "reopen", "create", "detail"},
              exc : Exceptions \cup {None}, status : Statuses \cup {None}]
  /\ anl.at # "idle" => anl.exc \in Exceptions /\ anl.status \in Statuses
  /\ anl.at \in {"check", "create"} => anl.exc \notin Recorded

(* The panel, between a write of config.yml, the look-up of a class's      *)
(* records and their update.                                               *)
Listing ==
  /\ job \in [at : {"idle", "write", "select", "update"}, class : Classes \cup {None},
              to : Statuses \cup {None}, ids : SUBSET Recorded]
  /\ job.at \in {"select", "update"} => job.to \in Statuses

(* A browser's page shows records, no more than fit it, and its marks.     *)
PageType ==
  [list : Statuses, at : Nat \ {0}, per : Sizes, rows : SUBSET Exceptions, pages : Int,
   marked : SUBSET Exceptions, main : BOOLEAN, covered : BOOLEAN]
Shown(p) ==
  /\ p.marked \subseteq p.rows /\ p.rows \subseteq Recorded
  /\ Cardinality(p.rows) <= p.per
  /\ p.rows # {} => (p.main <=> p.marked = p.rows)
Showing ==
  /\ page \in [Browsers -> PageType]
  /\ \A b \in Browsers : Shown(page[b])

RecordsInv == Stored /\ Handling /\ Listing /\ Showing /\ ClosedComesBack

LEMMA InvIsSound == RecordsInv => RecordsSound
  BY DEF RecordsInv, Stored, Handling, Listing, Showing, Shown, PageType,
         RecordsSound, TypeOK, MainBox, Rows

-----------------------------------------------------------------------------
(* Pages.  The rank of a record in its list tells it from the others, so a *)
(* page has at most as many rows as ranks.                                 *)
LEMMA RankTells ==
  ASSUME NEW all, all \subseteq Int, IsFiniteSet(all), NEW i \in all, NEW j \in all,
         Rank(i, all) = Rank(j, all)
  PROVE  i = j
  <1> DEFINE Upto(k) == {m \in all : m <= k}
  <1>1. ASSUME NEW k \in all, NEW m \in all, k <= m, Rank(k, all) = Rank(m, all) PROVE k = m
    <2>1. IsFiniteSet(Upto(m)) /\ Upto(k) \in SUBSET Upto(m)
      <3>1. Upto(m) \in SUBSET all
        OBVIOUS
      <3>2. Upto(k) \in SUBSET Upto(m)
        <4>1. ASSUME NEW x \in Upto(k) PROVE x \in Upto(m)
          BY <1>1
        <4> QED BY <4>1
      <3>3. IsFiniteSet(Upto(m))
        BY <3>1, FS_Subset
      <3> QED BY <3>2, <3>3
    <2>2. Upto(k) = Upto(m)
      BY <1>1, <2>1, FS_Subset DEF Rank
    <2>3. m \in Upto(m)
      BY <1>1
    <2> QED BY <1>1, <2>2, <2>3
  <1> QED BY <1>1

LEMMA RowsFit ==
  ASSUME Stored, NEW list, NEW n \in Nat \ {0}, NEW per \in Sizes, NEW st
  PROVE  /\ get_all(list, n, per, st) \subseteq Recorded
         /\ Cardinality(get_all(list, n, per, st)) <= per
         /\ IsFiniteSet(All(list, st))
  <1> DEFINE all == All(list, st)
             rows == get_all(list, n, per, st)
             low == (n - 1) * per + 1
             ranks == low..(n * per)
             At(x) == CHOOSE i \in DOMAIN records : records[i] = x
             f == [x \in rows |-> Rank(At(x), all)]
  <1>1. records \in Seq(Exceptions) /\ IsInjective(records)
    BY DEF Stored
  <1>2. DOMAIN records = 1..Len(records) /\ Len(records) \in Nat
    BY <1>1
  <1>3. all \subseteq Int /\ IsFiniteSet(all)
    <2>1. all \in SUBSET (1..Len(records))
      BY <1>2 DEF All
    <2>2. IsFiniteSet(1..Len(records))
      BY <1>2, FS_Interval
    <2>3. IsFiniteSet(all)
      BY <2>1, <2>2, FS_Subset
    <2> QED BY <1>2, <2>1, <2>3
  <1>4. ASSUME NEW x \in rows PROVE At(x) \in all /\ records[At(x)] = x /\ Rank(At(x), all) \in ranks
    <2>1. PICK i \in all : x = records[i] /\ Rank(i, all) \in ranks
      BY <1>4 DEF get_all
    <2>2. i \in DOMAIN records
      BY DEF All
    <2>3. At(x) \in DOMAIN records /\ records[At(x)] = x
      BY <2>1, <2>2
    <2>4. At(x) = i
      BY <1>1, <2>1, <2>2, <2>3 DEF IsInjective
    <2> QED BY <2>1, <2>3, <2>4
  <1>5. f \in Injection(rows, ranks)
    <2>1. f \in [rows -> ranks]
      BY <1>4
    <2>2. ASSUME NEW x \in rows, NEW y \in rows, f[x] = f[y] PROVE x = y
      <3>1. At(x) = At(y)
        BY <1>3, <1>4, <2>2, RankTells
      <3> QED BY <1>4, <3>1
    <2> QED BY <2>1, <2>2 DEF Injection, IsInjective
  <1>6. per \in Nat \ {0} /\ low \in Int /\ n * per \in Int /\ n * per = low + per - 1
    BY ExceptionsAssumption
  <1>7. IsFiniteSet(ranks) /\ Cardinality(ranks) = per
    <2> HIDE DEF low
    <2>1. IsFiniteSet(ranks) /\ Cardinality(ranks) = IF low > n * per THEN 0 ELSE n * per - low + 1
      BY <1>6, FS_Interval
    <2> QED BY <1>6, <2>1
  <1>8. Cardinality(rows) <= per
    BY <1>5, <1>7, FS_Injection
  <1>9. rows \subseteq Recorded
    BY DEF get_all, All, Recorded, ToSet
  <1> QED BY <1>3, <1>8, <1>9

LEMMA ViewShown ==
  ASSUME Stored, NEW list \in Statuses, NEW n \in Nat \ {0}, NEW per \in Sizes, NEW st
  PROVE  View(list, n, per, st) \in PageType /\ Shown(View(list, n, per, st))
  <1> DEFINE v == View(list, n, per, st)
  <1>1. v.marked = {} /\ v.main = FALSE /\ v.rows = get_all(list, n, per, st) /\ v.per = per
    BY DEF View
  <1>2. Recorded \subseteq Exceptions
    BY DEF Stored, Recorded, ToSet
  <1>3. total_pages(list, per, st) \in Int
    <2>1. Cardinality(All(list, st)) \in Nat
      BY RowsFit, FS_CardinalityType
    <2>2. per \in Nat \ {0}
      BY ExceptionsAssumption
    <2> QED BY <2>1, <2>2 DEF total_pages
  <1>4. v \in PageType
    BY <1>2, <1>3, RowsFit DEF View, PageType
  <1>5. Shown(v)
    BY <1>1, RowsFit DEF Shown
  <1> QED BY <1>4, <1>5

LEMMA InitRecords == Init => RecordsInv
  <1> SUFFICES ASSUME Init PROVE RecordsInv
    OBVIOUS
  <1>1. Recorded = {}
    BY DEF Init, Recorded, ToSet
  <1>2. Stored
    BY <1>1, ExceptionsAssumption DEF Init, Stored, IsInjective, Statuses
  <1>3. Handling /\ Listing /\ ClosedComesBack
    BY <1>1 DEF Init, Handling, Listing, ClosedComesBack, Idle, NoJob
  <1>4. Showing
    <2>1. PICK per \in Sizes : page = [b \in Browsers |-> View("open", 1, per, status)]
      BY DEF Init
    <2> QED BY <1>2, <2>1, ViewShown DEF Showing, Statuses
  <1> QED BY <1>2, <1>3, <1>4 DEF RecordsInv

-----------------------------------------------------------------------------
(* The steps. *)

(* What an exception finds are records.                                    *)
LEMMA FoundRecorded == ASSUME NEW x PROVE Found(x) \subseteq Recorded
  BY DEF Found, Recorded, ToSet

(* A decision leaves the other closed records to their occurrences.        *)
LEMMA ComesBackStill ==
  ASSUME RecordsInv, UNCHANGED <<queue, records, anl>>,
         \A r \in reseen' : r \in reseen /\ status'[r] = status[r]
  PROVE  ClosedComesBack'
  BY DEF RecordsInv, ClosedComesBack, Finds, Found

LEMMA LogStep ==
  ASSUME RecordsInv, NEW x \in Exceptions, log_exception(x) PROVE RecordsInv'
  <1>1. /\ left' = left - 1 /\ left > 0 /\ queue' = Append(queue, x)
        /\ reseen' = IF x \in Wordless THEN reseen
                     ELSE reseen \cup {r \in Found(x) : status[r] = "closed"}
        /\ UNCHANGED <<records, status, ignored, job, page, anl>>
    BY DEF log_exception, panel
  <1>2. Recorded' = Recorded
    BY <1>1 DEF Recorded
  <1>3. Found(x) \subseteq Recorded
    BY FoundRecorded
  <1>4. Stored'
    BY <1>1, <1>2, <1>3, ExceptionsAssumption DEF RecordsInv, Stored
  <1>5. Handling' /\ Listing'
    BY <1>1, <1>2 DEF RecordsInv, Handling, Listing
  <1>6. Showing'
    BY <1>1, <1>2 DEF RecordsInv, Showing, Shown
  <1>7. ToSet(queue') = ToSet(queue) \cup {x}
    <2>1. queue \in Seq(Exceptions)
      BY DEF RecordsInv, Stored
    <2> QED BY <1>1, <2>1 DEF ToSet
  <1>8. ClosedComesBack'
    <2> SUFFICES ASSUME NEW r \in reseen', status'[r] = "closed"
                 PROVE  \/ \E y \in ToSet(queue') : Finds(y, r)'
                        \/ anl'.at \in {"look", "reopen"} /\ Finds(anl.exc, r)'
      BY DEF ClosedComesBack
    <2>1. \A y : Finds(y, r)' <=> Finds(y, r)
      BY <1>1 DEF Finds, Found
    <2>2. CASE r \in reseen
      <3>1. \/ \E y \in ToSet(queue) : Finds(y, r)
            \/ anl.at \in {"look", "reopen"} /\ Finds(anl.exc, r)
        BY <1>1, <2>2 DEF RecordsInv, ClosedComesBack
      <3>2. CASE \E y \in ToSet(queue) : Finds(y, r)
        BY <1>7, <2>1, <3>2
      <3>3. CASE anl.at \in {"look", "reopen"} /\ Finds(anl.exc, r)
        BY <1>1, <3>3 DEF Finds, Found
      <3> QED BY <3>1, <3>2, <3>3
    <2>3. CASE r \notin reseen
      <3>1. Finds(x, r)
        BY <1>1, <2>3 DEF Finds
      <3> QED BY <1>7, <2>1, <3>1
    <2> QED BY <2>2, <2>3
  <1> QED BY <1>4, <1>5, <1>6, <1>8 DEF RecordsInv

LEMMA ReadStep ==
  ASSUME RecordsInv, read_exception PROVE RecordsInv'
  <1>1. /\ anl' = [at |-> "look", exc |-> Head(queue), status |-> "open"]
        /\ anl = Idle /\ queue # <<>> /\ queue' = Tail(queue)
        /\ UNCHANGED <<left, records, status, ignored, job, page, reseen>>
    BY DEF read_exception, panel
  <1>2. Recorded' = Recorded
    BY <1>1 DEF Recorded
  <1>3. queue \in Seq(Exceptions)
    BY DEF RecordsInv, Stored
  <1>4. Head(queue) \in Exceptions /\ Tail(queue) \in Seq(Exceptions)
    BY <1>1, <1>3
  <1>5. Stored'
    BY <1>1, <1>2, <1>4 DEF RecordsInv, Stored
  <1>6. Handling'
    BY <1>1, <1>2, <1>4 DEF Handling, Statuses
  <1>7. Listing' /\ Showing'
    BY <1>1, <1>2 DEF RecordsInv, Listing, Showing, Shown
  <1>8. ASSUME NEW y \in ToSet(queue) PROVE y \in ToSet(queue') \/ y = Head(queue)
    <2>1. PICK i \in 1..Len(queue) : queue[i] = y
      BY <1>3 DEF ToSet
    <2>2. CASE i = 1
      BY <1>1, <1>3, <2>1, <2>2
    <2>3. CASE i # 1
      <3>1. i - 1 \in 1..Len(Tail(queue)) /\ Tail(queue)[i - 1] = y
        BY <1>1, <1>3, <2>1, <2>3
      <3>2. i - 1 \in DOMAIN Tail(queue)
        BY <1>4, <3>1
      <3> QED BY <1>1, <3>1, <3>2 DEF ToSet
    <2> QED BY <2>2, <2>3
  <1>9. ClosedComesBack'
    <2> SUFFICES ASSUME NEW r \in reseen', status'[r] = "closed"
                 PROVE  \/ \E y \in ToSet(queue') : Finds(y, r)'
                        \/ anl'.at \in {"look", "reopen"} /\ Finds(anl.exc, r)'
      BY DEF ClosedComesBack
    <2>1. PICK y \in ToSet(queue) : Finds(y, r)
      BY <1>1 DEF RecordsInv, ClosedComesBack, Idle
    <2>2. CASE y \in ToSet(queue')
      BY <1>1, <2>1, <2>2 DEF Finds, Found
    <2>3. CASE y = Head(queue)
      BY <1>1, <2>1, <2>3 DEF Finds, Found
    <2> QED BY <1>8, <2>2, <2>3
  <1> QED BY <1>5, <1>6, <1>7, <1>9 DEF RecordsInv

(* The analyzer between the queue and the record: only anl changes.        *)
LEMMA FindStep ==
  ASSUME RecordsInv,
         get_exception_for_analyzer \/ permanently_ignored \/ save_exception_details
  PROVE  RecordsInv'
  <1>1. UNCHANGED <<queue, left, records, status, ignored, job, page, reseen>>
    BY DEF get_exception_for_analyzer, permanently_ignored, save_exception_details, panel
  <1>2. Recorded' = Recorded
    BY <1>1 DEF Recorded
  <1>3. Stored' /\ Listing' /\ Showing'
    BY <1>1, <1>2 DEF RecordsInv, Stored, Listing, Showing, Shown
  <1>4. ASSUME \A r \in reseen : status[r] = "closed" /\ anl.at \in {"look", "reopen"}
                                   /\ Finds(anl.exc, r)
                 => anl'.at = "reopen" /\ anl'.exc = anl.exc
        PROVE  ClosedComesBack'
    <2> SUFFICES ASSUME NEW r \in reseen', status'[r] = "closed"
                 PROVE  \/ \E y \in ToSet(queue') : Finds(y, r)'
                        \/ anl'.at \in {"look", "reopen"} /\ Finds(anl.exc, r)'
      BY DEF ClosedComesBack
    <2>1. \/ \E y \in ToSet(queue) : Finds(y, r)
          \/ anl.at \in {"look", "reopen"} /\ Finds(anl.exc, r)
      BY <1>1 DEF RecordsInv, ClosedComesBack
    <2>2. CASE \E y \in ToSet(queue) : Finds(y, r)
      <3>1. PICK y \in ToSet(queue) : Finds(y, r)
        BY <2>2
      <3> QED BY <1>1, <3>1 DEF Finds, Found
    <2>3. CASE anl.at \in {"look", "reopen"} /\ Finds(anl.exc, r)
      <3>1. anl'.at = "reopen" /\ anl'.exc = anl.exc
        BY <1>1, <1>4, <2>3
      <3> QED BY <1>1, <2>3, <3>1 DEF Finds, Found
    <2> QED BY <2>1, <2>2, <2>3
  <1>5. ASSUME anl' = Idle, anl.at \in {"check", "detail"} \/ anl.exc \in Wordless
        PROVE  RecordsInv'
    <2>1. Handling'
      BY <1>2, <1>5 DEF RecordsInv, Handling, Idle
    <2>2. ClosedComesBack'
      BY <1>4, <1>5 DEF Finds
    <2> QED BY <1>3, <2>1, <2>2 DEF RecordsInv
  <1>6. CASE get_exception_for_analyzer
    <2>1. anl.at = "look" /\ anl.exc \in Exceptions /\ anl.status \in Statuses
      BY <1>6 DEF get_exception_for_analyzer, RecordsInv, Handling
    <2>2. CASE anl.exc \in Wordless
      BY <1>5, <1>6, <2>2 DEF get_exception_for_analyzer
    <2>3. CASE anl.exc \notin Wordless /\ Like[anl.exc] \cap Recorded = {}
      <3>1. anl' = [anl EXCEPT !.at = "check"]
        BY <1>6, <2>3 DEF get_exception_for_analyzer
      <3>2. anl.exc \notin Recorded
        BY <2>1, <2>3, ExceptionsAssumption
      <3>3. Handling'
        BY <1>2, <2>1, <3>1, <3>2 DEF RecordsInv, Handling
      <3>4. Found(anl.exc) = {}
        BY <2>3 DEF Found, Recorded, ToSet
      <3>5. ClosedComesBack'
        BY <1>4, <3>4 DEF Finds
      <3> QED BY <1>3, <3>3, <3>5 DEF RecordsInv
    <2>4. CASE anl.exc \notin Wordless /\ Like[anl.exc] \cap Recorded # {}
      <3> DEFINE closed == \E r \in Found(anl.exc) : status[r] = "closed"
      <3>1. anl' = [anl EXCEPT !.at = IF closed THEN "reopen" ELSE "detail"]
        BY <1>6, <2>4 DEF get_exception_for_analyzer, ToReopen
      <3>2. CASE closed
        <4>1. anl' = [anl EXCEPT !.at = "reopen"]
          BY <3>1, <3>2
        <4>2. Handling'
          BY <1>2, <2>1, <4>1 DEF RecordsInv, Handling
        <4>3. ClosedComesBack'
          BY <1>4, <4>1 DEF RecordsInv, Handling
        <4> QED BY <1>3, <4>2, <4>3 DEF RecordsInv
      <3>3. CASE ~closed
        <4>1. anl' = [anl EXCEPT !.at = "detail"]
          BY <3>1, <3>3
        <4>2. Handling'
          BY <1>2, <2>1, <4>1 DEF RecordsInv, Handling
        <4>3. ClosedComesBack'
          BY <1>4, <3>3 DEF Finds
        <4> QED BY <1>3, <4>2, <4>3 DEF RecordsInv
      <3> QED BY <3>2, <3>3
    <2> QED BY <2>2, <2>3, <2>4
  <1>7. CASE permanently_ignored
    <2>1. anl.at = "check"
      BY <1>7 DEF permanently_ignored
    <2>2. CASE anl' = Idle
      BY <1>5, <2>1, <2>2
    <2>3. ASSUME NEW st \in Statuses, anl' = [anl EXCEPT !.at = "create", !.status = st]
          PROVE  RecordsInv'
      <3>1. Handling'
        BY <1>2, <2>1, <2>3 DEF RecordsInv, Handling
      <3>2. ClosedComesBack'
        BY <1>4, <2>1
      <3> QED BY <1>3, <3>1, <3>2 DEF RecordsInv
    <2> QED BY <1>7, <2>2, <2>3 DEF permanently_ignored, Statuses
  <1>8. CASE save_exception_details
    BY <1>5, <1>8 DEF save_exception_details
  <1> QED BY <1>6, <1>7, <1>8

LEMMA ReopenStep ==
  ASSUME RecordsInv, change_status_to_open PROVE RecordsInv'
  <1>1. /\ anl.at = "reopen" /\ anl' = [anl EXCEPT !.at = "detail"]
        /\ status' = [x \in Exceptions |-> IF x \in Found(anl.exc) THEN "open" ELSE status[x]]
        /\ reseen' = reseen \ Found(anl.exc)
        /\ UNCHANGED <<queue, left, records, ignored, job, page>>
    BY DEF change_status_to_open, panel
  <1>2. Recorded' = Recorded
    BY <1>1 DEF Recorded
  <1>3. Found(anl.exc) \subseteq Recorded /\ Recorded \subseteq Exceptions
    BY DEF RecordsInv, Stored, Found, Recorded, ToSet
  <1>4. Stored'
    BY <1>1, <1>2, <1>3 DEF RecordsInv, Stored, Statuses, None
  <1>5. Handling'
    BY <1>1, <1>2 DEF RecordsInv, Handling
  <1>6. Listing' /\ Showing'
    BY <1>1, <1>2 DEF RecordsInv, Listing, Showing, Shown
  <1>7. ClosedComesBack'
    <2> SUFFICES ASSUME NEW r \in reseen', status'[r] = "closed"
                 PROVE  \E y \in ToSet(queue') : Finds(y, r)'
      BY DEF ClosedComesBack
    <2>1. r \in reseen /\ r \notin Found(anl.exc) /\ r \in Exceptions
      BY <1>1, <1>3 DEF RecordsInv, Stored
    <2>2. status[r] = "closed"
      BY <1>1, <2>1
    <2>3. PICK y \in ToSet(queue) : Finds(y, r)
      BY <2>1, <2>2 DEF RecordsInv, ClosedComesBack, Finds
    <2> QED BY <1>1, <2>3 DEF Finds, Found
  <1> QED BY <1>4, <1>5, <1>6, <1>7 DEF RecordsInv

LEMMA SaveStep ==
  ASSUME RecordsInv, save_exception PROVE RecordsInv'
  <1>1. /\ anl.at = "create" /\ anl' = [anl EXCEPT !.at = "detail"]
        /\ records' = Append(records, anl.exc) /\ status' = [status EXCEPT ![anl.exc] = anl.status]
        /\ UNCHANGED <<queue, left, ignored, job, page, reseen>>
    BY DEF save_exception, panel
  <1>2. anl.exc \in Exceptions /\ anl.exc \notin Recorded /\ anl.status \in Statuses
    BY <1>1 DEF RecordsInv, Handling
  <1>3. records \in Seq(Exceptions) /\ IsInjective(records)
    BY DEF RecordsInv, Stored
  <1>4. Recorded' = Recorded \cup {anl.exc}
    BY <1>1, <1>3 DEF Recorded, ToSet
  <1>5. records' \in Seq(Exceptions) /\ IsInjective(records')
    <2>1. records' \in Seq(Exceptions)
      BY <1>1, <1>2, <1>3
    <2>2. ASSUME NEW i \in DOMAIN records', NEW j \in DOMAIN records', records'[i] = records'[j]
          PROVE  i = j
      <3>1. DOMAIN records = 1..Len(records) /\ DOMAIN records' = 1..(Len(records) + 1)
        BY <1>1, <1>2, <1>3
      <3>2. \A k \in DOMAIN records : records'[k] = records[k] /\ records[k] # anl.exc
        BY <1>1, <1>2, <1>3 DEF Recorded, ToSet
      <3>3. records'[Len(records) + 1] = anl.exc
        BY <1>1, <1>2, <1>3
      <3>4. Len(records) \in Nat
        BY <1>3
      <3>5. CASE i \in DOMAIN records /\ j \in DOMAIN records
        BY <1>3, <2>2, <3>2, <3>5 DEF IsInjective
      <3>6. CASE i \notin DOMAIN records /\ j \notin DOMAIN records
        BY <3>1, <3>4, <3>6
      <3>7. CASE i \in DOMAIN records /\ j \notin DOMAIN records
        BY <2>2, <3>1, <3>2, <3>3, <3>4, <3>7
      <3>8. CASE i \notin DOMAIN records /\ j \in DOMAIN records
        BY <2>2, <3>1, <3>2, <3>3, <3>4, <3>8
      <3> QED BY <3>5, <3>6, <3>7, <3>8
    <2> QED BY <2>1, <2>2 DEF IsInjective
  <1>6. Stored'
    BY <1>1, <1>2, <1>4, <1>5 DEF RecordsInv, Stored, Statuses, None
  <1>7. Handling'
    BY <1>1 DEF RecordsInv, Handling
  <1>8. Listing' /\ Showing'
    BY <1>1, <1>4 DEF RecordsInv, Listing, Showing, Shown
  <1>9. ASSUME NEW x, NEW r, Finds(x, r) PROVE Finds(x, r)'
    <2>1. PICK i \in DOMAIN records : /\ records[i] = r /\ r \in Like[x]
                                      /\ \A j \in 1..(i - 1) : records[j] \notin Like[x]
      BY <1>9 DEF Finds, Found
    <2>2. \A j \in DOMAIN records : j \in DOMAIN records' /\ records'[j] = records[j]
      BY <1>1, <1>2, <1>3
    <2>3. \A j \in 1..(i - 1) : j \in DOMAIN records
      BY <1>3, <2>1
    <2> QED BY <1>9, <2>1, <2>2, <2>3 DEF Finds, Found
  <1>10. ClosedComesBack'
    <2> SUFFICES ASSUME NEW r \in reseen', status'[r] = "closed"
                 PROVE  \E y \in ToSet(queue') : Finds(y, r)'
      BY DEF ClosedComesBack
    <2>1. r \in Recorded
      BY <1>1 DEF RecordsInv, Stored
    <2>2. r \in Exceptions /\ status[r] = "closed"
      BY <1>1, <1>2, <1>3, <2>1 DEF RecordsInv, Stored, Recorded, ToSet
    <2>3. PICK y \in ToSet(queue) : Finds(y, r)
      BY <1>1, <2>2 DEF RecordsInv, ClosedComesBack
    <2> QED BY <1>1, <1>9, <2>3
  <1> QED BY <1>6, <1>7, <1>8, <1>10 DEF RecordsInv

-----------------------------------------------------------------------------
(* A browser. *)
LEMMA ClickStep ==
  ASSUME RecordsInv, NEW b \in Browsers, NEW marked \in SUBSET Rows(b), NEW main \in BOOLEAN,
         main <=> marked = Rows(b), Click(b, marked, main)
  PROVE  RecordsInv'
  <1>1. /\ page' = [page EXCEPT ![b].marked = marked, ![b].main = main]
        /\ UNCHANGED <<queue, left, records, status, ignored, anl, job, reseen>>
    BY DEF Click
  <1>2. Recorded' = Recorded
    BY <1>1 DEF Recorded
  <1>3. Stored' /\ Handling' /\ Listing' /\ ClosedComesBack'
    BY <1>1, <1>2 DEF RecordsInv, Stored, Handling, Listing, ClosedComesBack, Finds, Found
  <1>4. page[b] \in PageType /\ Shown(page[b])
    BY DEF RecordsInv, Showing
  <1>5. page' = [page EXCEPT ![b] = [page[b] EXCEPT !.marked = marked, !.main = main]]
    BY <1>1 DEF RecordsInv, Showing
  <1>6. [page[b] EXCEPT !.marked = marked, !.main = main] \in PageType
    BY <1>4 DEF PageType, Rows
  <1>7. /\ [page[b] EXCEPT !.marked = marked, !.main = main].rows = Rows(b)
        /\ [page[b] EXCEPT !.marked = marked, !.main = main].marked = marked
        /\ [page[b] EXCEPT !.marked = marked, !.main = main].main = main
        /\ [page[b] EXCEPT !.marked = marked, !.main = main].per = page[b].per
    BY <1>4 DEF PageType, Rows
  <1>8. Shown([page[b] EXCEPT !.marked = marked, !.main = main])
    BY <1>4, <1>7 DEF Shown, Rows
  <1>9. Showing'
    BY <1>1, <1>2, <1>5, <1>6, <1>8 DEF RecordsInv, Showing, Shown
  <1> QED BY <1>3, <1>9 DEF RecordsInv

(* A page that the panel answers with is one it may show.                  *)
LEMMA AnswerShows ==
  ASSUME RecordsInv, NEW b \in Browsers, NEW v \in PageType, Shown(v), Answers(b, v)
  PROVE  Showing' /\ Handling' /\ Listing'
  <1>1. page' = [page EXCEPT ![b] = v] /\ UNCHANGED <<queue, left, records, ignored, anl, job>>
    BY DEF Answers
  <1>2. Recorded' = Recorded
    BY <1>1 DEF Recorded
  <1>3. Showing'
    BY <1>1, <1>2 DEF RecordsInv, Showing, Shown
  <1> QED BY <1>1, <1>2, <1>3 DEF RecordsInv, Handling, Listing

LEMMA AnswerStep ==
  ASSUME RecordsInv, NEW b \in Browsers, NEW v \in PageType, Shown(v), Answers(b, v),
         UNCHANGED <<status, reseen>>
  PROVE  RecordsInv'
  <1>1. UNCHANGED <<queue, left, records, ignored, anl, job, status, reseen>>
    BY DEF Answers
  <1>2. Recorded' = Recorded
    BY <1>1 DEF Recorded
  <1>3. Stored' /\ ClosedComesBack'
    BY <1>1, <1>2 DEF RecordsInv, Stored, ClosedComesBack, Finds, Found
  <1> QED BY <1>3, AnswerShows DEF RecordsInv

LEMMA DecideStep ==
  ASSUME RecordsInv, NEW b \in Browsers, NEW to \in Decisions, change_status(b, to)
  PROVE  RecordsInv'
  <1> DEFINE list == page[b].list
             n == page[b].at
             st == [x \in Exceptions |-> IF x \in page[b].marked THEN to ELSE status[x]]
             shown == IF n > total_pages(list, page[b].per, st) /\ n - 1 > 0 THEN n - 1 ELSE n
             v == View(list, shown, page[b].per, st)
  <1>1. status' = st /\ reseen' = reseen \ page[b].marked /\ Answers(b, v)
    BY DEF change_status
  <1>2. page[b] \in PageType /\ Shown(page[b])
    BY DEF RecordsInv, Showing
  <1>3. UNCHANGED <<queue, left, records, ignored, anl, job>>
    BY <1>1 DEF Answers
  <1>4. Recorded' = Recorded
    BY <1>3 DEF Recorded
  <1>5. page[b].marked \subseteq Recorded
    BY <1>2 DEF Shown
  <1>6. Stored'
    BY <1>1, <1>3, <1>4, <1>5 DEF RecordsInv, Stored, Statuses, Decisions, None
  <1>7. list \in Statuses /\ page[b].per \in Sizes /\ n \in Nat \ {0} /\ shown \in Nat \ {0}
    BY <1>2 DEF PageType
  <1>8. v \in PageType /\ Shown(v)
    <2> HIDE DEF st, shown, list, n
    <2>1. Stored
      BY DEF RecordsInv
    <2> QED BY <1>7, <2>1, ViewShown
  <1>9. Showing' /\ Handling' /\ Listing'
    <2> HIDE DEF v
    <2> QED BY <1>1, <1>8, AnswerShows
  <1>10. ClosedComesBack'
    <2>1. \A r \in reseen' : r \in reseen /\ r \in Exceptions /\ status'[r] = status[r]
      BY <1>1 DEF RecordsInv, Stored, Recorded, ToSet
    <2> QED BY <1>3, <2>1, ComesBackStill
  <1> QED BY <1>6, <1>9, <1>10 DEF RecordsInv

LEMMA BrowseStep ==
  ASSUME RecordsInv, NEW b \in Browsers, Browse(b) PROVE RecordsInv'
  <1>1. page[b] \in PageType /\ Shown(page[b]) /\ Stored
    BY DEF RecordsInv, Showing
  <1>2. /\ page[b].list \in Statuses /\ page[b].at \in Nat \ {0} /\ page[b].per \in Sizes
        /\ page[b].marked \subseteq Rows(b)
    BY <1>1 DEF PageType, Shown, Rows
  <1>3. ASSUME NEW x \in Rows(b), uncheckMain(b, x) PROVE RecordsInv'
    <2>1. CASE x \in page[b].marked
      <3>1. Click(b, page[b].marked \ {x}, FALSE)
        BY <1>3, <2>1 DEF uncheckMain
      <3>2. page[b].marked \ {x} \in SUBSET Rows(b) /\ page[b].marked \ {x} # Rows(b)
        BY <1>2, <1>3
      <3> QED BY <3>1, <3>2, ClickStep
    <2>2. CASE x \notin page[b].marked
      <3>1. Click(b, page[b].marked \cup {x}, page[b].marked \cup {x} = Rows(b))
        BY <1>3, <2>2 DEF uncheckMain
      <3>2. page[b].marked \cup {x} \in SUBSET Rows(b)
        BY <1>2, <1>3
      <3>3. (page[b].marked \cup {x} = Rows(b)) \in BOOLEAN
        OBVIOUS
      <3> QED BY <3>1, <3>2, <3>3, ClickStep
    <2> QED BY <2>1, <2>2
  <1>4. ASSUME checkAll(b) PROVE RecordsInv'
    <2>1. Rows(b) # {} /\ page[b].main \in BOOLEAN /\ (page[b].main <=> page[b].marked = Rows(b))
      BY <1>1, <1>4 DEF checkAll, PageType, Shown, Rows
    <2>2. CASE page[b].main
      <3>1. Click(b, {}, ~page[b].main)
        BY <1>4, <2>2 DEF checkAll
      <3>2. (~page[b].main) \in BOOLEAN /\ (~page[b].main <=> {} = Rows(b))
        BY <2>1, <2>2
      <3> QED BY <3>1, <3>2, ClickStep
    <2>3. CASE ~page[b].main
      <3>1. Click(b, Rows(b), ~page[b].main)
        BY <1>4, <2>3 DEF checkAll
      <3>2. (~page[b].main) \in BOOLEAN /\ (~page[b].main <=> Rows(b) = Rows(b))
        BY <2>1, <2>3
      <3> QED BY <3>1, <3>2, ClickStep
    <2> QED BY <2>2, <2>3
  <1>5. ASSUME show(b) PROVE RecordsInv'
    <2> DEFINE v == [page[b] EXCEPT !.covered = TRUE, !.marked = {}, !.main = FALSE]
    <2>1. Answers(b, v) /\ UNCHANGED <<status, reseen>> /\ Rows(b) # {}
      BY <1>5 DEF show
    <2>2. v \in PageType
      BY <1>1 DEF PageType
    <2>3. v.rows = page[b].rows /\ v.marked = {} /\ v.main = FALSE /\ v.per = page[b].per
      BY <1>1 DEF PageType
    <2>4. Shown(v)
      BY <1>1, <2>3 DEF Shown
    <2> QED
      <3> HIDE DEF v
      <3> QED BY <2>1, <2>2, <2>4, AnswerStep
  <1>6. ASSUME NEW list \in Statuses, NEW n \in Nat \ {0}, NEW per \in Sizes,
               list_statuswise_exceptions(b, list, n, per)
        PROVE  RecordsInv'
    BY <1>1, <1>6, ViewShown, AnswerStep DEF list_statuswise_exceptions
  <1>7. \A n \in 1..page[b].pages : n \in Nat \ {0}
    BY <1>1 DEF PageType
  <1> QED BY <1>2, <1>3, <1>4, <1>5, <1>6, <1>7, DecideStep DEF Browse

-----------------------------------------------------------------------------
(* The list of ignored classes. *)
LEMMA ClassStep ==
  ASSUME RecordsInv, NEW c \in Classes, NEW to \in Statuses, ChangeList(c, to)
  PROVE  RecordsInv'
  <1>1. /\ ignored' = IF to = "open" THEN ignored \ {c} ELSE ignored \cup {c}
        /\ job' = [at |-> "write", class |-> c, to |-> to, ids |-> {}]
        /\ UNCHANGED <<queue, left, records, status, anl, page, reseen>>
    BY DEF ChangeList
  <1>2. Recorded' = Recorded
    BY <1>1 DEF Recorded
  <1>3. Stored' /\ Handling' /\ ClosedComesBack'
    BY <1>1, <1>2 DEF RecordsInv, Stored, Handling, ClosedComesBack, Finds, Found
  <1>4. Listing' /\ Showing'
    BY <1>1, <1>2 DEF RecordsInv, Listing, Showing, Shown
  <1> QED BY <1>3, <1>4 DEF RecordsInv

LEMMA WriteStep ==
  ASSUME RecordsInv, SaveConfig \/ YAMLWriter_close PROVE RecordsInv'
  <1>1. UNCHANGED <<queue, left, records, status, ignored, anl, page, reseen>>
    BY DEF SaveConfig, YAMLWriter_close
  <1>2. Recorded' = Recorded
    BY <1>1 DEF Recorded
  <1>3. Stored' /\ Handling' /\ ClosedComesBack'
    BY <1>1, <1>2 DEF RecordsInv, Stored, Handling, ClosedComesBack, Finds, Found
  <1>4. ASSUME job' = [NoJob EXCEPT !.at = "write"] \/ job' = NoJob PROVE Listing'
    BY <1>2, <1>4 DEF Listing, NoJob
  <1>5. ASSUME job.to # None, job' = [job EXCEPT !.at = "select"] PROVE Listing'
    BY <1>2, <1>5 DEF RecordsInv, Listing
  <1>6. Listing'
    BY <1>4, <1>5 DEF SaveConfig, YAMLWriter_close
  <1>7. Showing'
    BY <1>1, <1>2 DEF RecordsInv, Showing, Shown
  <1> QED BY <1>3, <1>6, <1>7 DEF RecordsInv

LEMMA LookUpStep ==
  ASSUME RecordsInv, get_exceptions_by_class PROVE RecordsInv'
  <1>1. /\ job.at = "select"
        /\ job' = [job EXCEPT !.at = "update", !.ids = {x \in Recorded : ClassOf[x] = job.class}]
        /\ UNCHANGED <<queue, left, records, status, ignored, anl, page, reseen>>
    BY DEF get_exceptions_by_class
  <1>2. Recorded' = Recorded
    BY <1>1 DEF Recorded
  <1>3. Stored' /\ Handling' /\ ClosedComesBack'
    BY <1>1, <1>2 DEF RecordsInv, Stored, Handling, ClosedComesBack, Finds, Found
  <1>4. Listing'
    BY <1>1, <1>2 DEF RecordsInv, Listing
  <1>5. Showing'
    BY <1>1, <1>2 DEF RecordsInv, Showing, Shown
  <1> QED BY <1>3, <1>4, <1>5 DEF RecordsInv

LEMMA UpdateStep ==
  ASSUME RecordsInv, update_all_status_to PROVE RecordsInv'
  <1>1. /\ job.at = "update" /\ job' = NoJob
        /\ status' = [x \in Exceptions |-> IF x \in job.ids THEN job.to ELSE status[x]]
        /\ reseen' = reseen \ job.ids
        /\ UNCHANGED <<queue, left, records, ignored, anl, page>>
    BY DEF update_all_status_to
  <1>2. Recorded' = Recorded
    BY <1>1 DEF Recorded
  <1>3. job.to \in Statuses /\ job.ids \subseteq Recorded
    BY <1>1 DEF RecordsInv, Listing
  <1>4. Stored'
    BY <1>1, <1>2, <1>3 DEF RecordsInv, Stored, Statuses, None
  <1>5. Handling' /\ Listing'
    BY <1>1, <1>2 DEF RecordsInv, Handling, Listing, NoJob
  <1>6. Showing'
    BY <1>1, <1>2 DEF RecordsInv, Showing, Shown
  <1>7. ClosedComesBack'
    <2>1. \A r \in reseen' : r \in reseen /\ r \in Exceptions /\ status'[r] = status[r]
      BY <1>1 DEF RecordsInv, Stored, Recorded, ToSet
    <2> QED BY <1>1, <2>1, ComesBackStill
  <1> QED BY <1>4, <1>5, <1>6, <1>7 DEF RecordsInv

LEMMA StepRecords == RecordsInv /\ [Next]_vars => RecordsInv'
  <1> SUFFICES ASSUME RecordsInv, [Next]_vars PROVE RecordsInv'
    OBVIOUS
  <1>1. ASSUME NEW x \in Exceptions, log_exception(x) PROVE RecordsInv'
    BY <1>1, LogStep
  <1>2. CASE Analyzer
    BY <1>2, ReadStep, FindStep, ReopenStep, SaveStep DEF Analyzer
  <1>3. ASSUME NEW b \in Browsers, Browse(b) PROVE RecordsInv'
    BY <1>3, BrowseStep
  <1>4. ASSUME NEW c \in Classes, ChangeList(c, "permanently-ignored") \/ ChangeList(c, "open")
        PROVE  RecordsInv'
    BY <1>4, ClassStep DEF Statuses
  <1>5. CASE SaveConfig \/ YAMLWriter_close \/ get_exceptions_by_class
    BY <1>5, WriteStep, LookUpStep
  <1>6. CASE update_all_status_to
    BY <1>6, UpdateStep
  <1>7. CASE UNCHANGED vars
    <2>1. UNCHANGED <<queue, left, records, status, ignored, job, page, anl, reseen>>
      BY <1>7 DEF vars, panel
    <2>2. Recorded' = Recorded
      BY <2>1 DEF Recorded
    <2> QED BY <2>1, <2>2 DEF RecordsInv, Stored, Handling, Listing, Showing, Shown,
                              ClosedComesBack, Finds, Found
  <1> QED BY <1>1, <1>2, <1>3, <1>4, <1>5, <1>6, <1>7 DEF Next

(* Whatever the analyzer and the panel do between each other's steps, and   *)
(* whatever is decided on pages that are out of date: a record is created   *)
(* once for an exception, a page shows records and no more than fit it, its *)
(* box agrees with its marks, and a closed exception that has occurred      *)
(* again is in the queue or with the analyzer that will reopen it.          *)
THEOREM RecordsStaySound == Spec => []RecordsSound
  <1>1. Spec => []RecordsInv
    BY InitRecords, StepRecords, PTL DEF Spec
  <1> QED BY <1>1, InvIsSound, PTL
=============================================================================
