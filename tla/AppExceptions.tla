---------------------------- MODULE AppExceptions ----------------------------
(***************************************************************************)
(* The exceptions of one deployed application: the workers report them,    *)
(* the analyzer records them (message_analyzer.rb), and                    *)
(* administrators look through lists of them in the panel, close, ignore   *)
(* or reopen the ones they have marked, and name classes that are ignored  *)
(* for good (exceptions_controller.rb, app_exception.rb, application.js).  *)
(* The analyzer and the panel are two processes on one database and one    *)
(* config.yml; the panel has one worker.                                   *)
(*                                                                         *)
(*   queue    the exception queue                                          *)
(*   left     bound: how many exceptions may still occur                   *)
(*   records  app_exceptions in the order of their ids                     *)
(*   status   exception_status of each record                              *)
(*   ignored  permanently_ignored_list of config.yml                       *)
(*   anl      the analyzer's thread: the exception it deals with and what  *)
(*            it has found out about it                                    *)
(*   job      a save of config.yml that the panel is at, and what follows  *)
(*            it when the list of classes has changed                      *)
(*   page     what each browser shows: a list, page and size, the rows,    *)
(*            the marked ones, the box that marks all, and whether the     *)
(*            details of a row cover the list                              *)
(*   reseen   the records of exceptions that occurred again after they     *)
(*            were closed                                                  *)
(*                                                                         *)
(* Exceptions with the same class, place and message are one exception;    *)
(* one whose message is like that of a recorded one has no record of its   *)
(* own.                                                                    *)
(***************************************************************************)
EXTENDS Integers, Sequences, FiniteSets, SequencesExt

CONSTANTS Exceptions, ClassOf,   \* and the class of each
          Like,                  \* Like[x]: whose messages the pattern of x fits
          Wordless,              \* those whose message splits into nothing
          Browsers,
          Sizes,                 \* what session[:per_page] can be
          Occurrences            \* bound: how many exceptions occur

Statuses == {"open", "closed", "ignored", "permanently-ignored"}
Decisions == {"open", "closed", "ignored"}
Classes == {ClassOf[x] : x \in Exceptions}

ASSUME ExceptionsAssumption ==
  /\ Sizes # {} /\ Sizes \subseteq Nat \ {0} /\ Occurrences \in Nat
  /\ DOMAIN ClassOf = Exceptions
  /\ Like \in [Exceptions -> SUBSET Exceptions] /\ Wordless \subseteq Exceptions
  /\ \A x \in Exceptions : x \in Like[x] /\ \A y \in Like[x] : ClassOf[y] = ClassOf[x]

VARIABLES queue, left, records, status, ignored, anl, job, page, reseen

panel == <<ignored, job, page>>
vars == <<queue, left, records, status, panel, anl, reseen>>

None == "none"
Idle == [at |-> "idle", exc |-> None, status |-> None]
NoJob == [at |-> "idle", class |-> None, to |-> None, ids |-> {}]
Recorded == ToSet(records)

TypeOK ==
  /\ queue \in Seq(Exceptions) /\ left \in 0..Occurrences
  /\ records \in Seq(Exceptions) /\ IsInjective(records)
  /\ status \in [Exceptions -> Statuses \cup {None}]
  /\ \A x \in Exceptions : status[x] = None <=> x \notin Recorded
  /\ ignored \subseteq Classes /\ reseen \subseteq Recorded
  /\ anl \in [at : {"idle", "look", "check", "reopen", "create", "detail"},
              exc : Exceptions \cup {None},
              status : Statuses \cup {None}]
  /\ anl.at = "create" => anl.exc \notin Recorded
  /\ job.at \in {"idle", "write", "select", "update"} /\ job.ids \subseteq Recorded
  /\ \A b \in Browsers :
       /\ page[b].list \in Statuses /\ page[b].at \in Nat \ {0}
       /\ page[b].marked \subseteq page[b].rows /\ page[b].rows \subseteq Recorded
       /\ page[b].per \in Sizes /\ Cardinality(page[b].rows) <= page[b].per

-----------------------------------------------------------------------------
(* What the panel shows. *)

(* get_all: the records with a status, by their ids, and one page of them. *)
All(list, st) == {i \in DOMAIN records : st[records[i]] = list}
Rank(i, all) == Cardinality({j \in all : j <= i})
get_all(list, n, per, st) ==
  {records[i] : i \in {k \in All(list, st) :
                         Rank(k, All(list, st)) \in ((n - 1) * per + 1)..(n * per)}}
total_pages(list, per, st) ==
  IF All(list, st) = {} THEN 1 ELSE (Cardinality(All(list, st)) + per - 1) \div per

(* exception_list_partial *)
View(list, n, per, st) ==
  [list |-> list, at |-> n, per |-> per,
   rows |-> get_all(list, n, per, st), pages |-> total_pages(list, per, st),
   marked |-> {}, main |-> FALSE, covered |-> FALSE]

Init ==
  /\ queue = <<>> /\ left = Occurrences /\ records = <<>>
  /\ status = [x \in Exceptions |-> None] /\ ignored = {} /\ reseen = {}
  /\ anl = Idle /\ job = NoJob
  /\ \E per \in Sizes : page = [b \in Browsers |-> View("open", 1, per, status)]

-----------------------------------------------------------------------------
(* A worker, and the analyzer's @exception_processor. *)

(* where(...).first: the first record that the pattern of x fits, if any. *)
Found(x) ==
  {records[i] : i \in {k \in DOMAIN records :
                         records[k] \in Like[x] /\ \A j \in 1..(k - 1) : records[j] \notin Like[x]}}

log_exception(x) ==
  /\ left > 0 /\ left' = left - 1 /\ queue' = Append(queue, x)
  /\ reseen' = IF x \in Wordless THEN reseen
               ELSE reseen \cup {r \in Found(x) : status[r] = "closed"}
  /\ UNCHANGED <<records, status, panel, anl>>

read_exception ==
  /\ anl = Idle /\ queue # <<>>
  /\ anl' = [at |-> "look", exc |-> Head(queue), status |-> "open"] /\ queue' = Tail(queue)
  /\ UNCHANGED <<left, records, status, panel, reseen>>

Mutant_ToReopen(st) == st = "ignored"
ToReopen(st) == st = "closed"

(* Without a word to make a pattern of this raises, and process_exceptions *)
(* goes on with the next exception.                                        *)
get_exception_for_analyzer ==
  /\ anl.at = "look"
  /\ anl' = CASE anl.exc \in Wordless -> Idle
            [] anl.exc \notin Wordless /\ Like[anl.exc] \cap Recorded = {} ->
                 [anl EXCEPT !.at = "check"]
            [] OTHER ->
                 [anl EXCEPT !.at = IF \E r \in Found(anl.exc) : ToReopen(status[r])
                                    THEN "reopen" ELSE "detail"]
  /\ UNCHANGED <<queue, left, records, status, panel, reseen>>

change_status_to_open ==
  /\ anl.at = "reopen" /\ anl' = [anl EXCEPT !.at = "detail"]
  /\ status' = [x \in Exceptions |-> IF x \in Found(anl.exc) THEN "open" ELSE status[x]]
  /\ reseen' = reseen \ Found(anl.exc)
  /\ UNCHANGED <<queue, left, records, panel>>

Mutant_permanently_ignored ==
  /\ anl.at = "check"
  /\ anl' = IF ClassOf[anl.exc] \in ignored THEN Idle ELSE [anl EXCEPT !.at = "create"]
  /\ UNCHANGED <<queue, left, records, status, panel, reseen>>
(* A file that the panel is writing may end anywhere: behind the list of   *)
(* classes, within it, or before the application is named, when the look   *)
(* for it raises and process_exceptions drops the exception.               *)
permanently_ignored ==
  /\ anl.at = "check"
  /\ \/ anl' = [anl EXCEPT !.at = "create",
                  !.status = IF ClassOf[anl.exc] \in ignored THEN "permanently-ignored" ELSE "open"]
     \/ job.at = "write" /\ anl' = [anl EXCEPT !.at = "create", !.status = "open"]
     \/ job.at = "write" /\ anl' = Idle
  /\ UNCHANGED <<queue, left, records, status, panel, reseen>>

save_exception ==
  /\ anl.at = "create" /\ anl' = [anl EXCEPT !.at = "detail"]
  /\ records' = Append(records, anl.exc) /\ status' = [status EXCEPT ![anl.exc] = anl.status]
  /\ UNCHANGED <<queue, left, panel, reseen>>

(* The occurrence is stored, and mailed when the local status is open; the *)
(* mail is left out here.                                                  *)
save_exception_details ==
  /\ anl.at = "detail" /\ anl' = Idle
  /\ UNCHANGED <<queue, left, records, status, panel, reseen>>

Analyzer ==
  \/ read_exception \/ get_exception_for_analyzer \/ change_status_to_open
  \/ permanently_ignored \/ save_exception \/ save_exception_details

-----------------------------------------------------------------------------
(* An administrator's browser, application.js, and the requests to the     *)
(* panel while it is not at something else.                                *)
Rows(b) == page[b].rows
Click(b, marked, main) ==
  /\ page' = [page EXCEPT ![b].marked = marked, ![b].main = main]
  /\ UNCHANGED <<queue, left, records, status, ignored, anl, job, reseen>>

uncheckMain(b, x) ==
  /\ ~page[b].covered /\ x \in Rows(b)
  /\ IF x \in page[b].marked THEN Click(b, page[b].marked \ {x}, FALSE)
     ELSE Click(b, page[b].marked \cup {x}, page[b].marked \cup {x} = Rows(b))

checkAll(b) ==
  /\ ~page[b].covered /\ Rows(b) # {}
  /\ Click(b, IF page[b].main THEN {} ELSE Rows(b), ~page[b].main)

checkMarked(b) == page[b].marked # {}

Answers(b, view) ==
  /\ job = NoJob /\ page' = [page EXCEPT ![b] = view]
  /\ UNCHANGED <<queue, left, records, ignored, anl, job>>

(* The select boxes for the status and for the size begin with page 1, a   *)
(* link of the pagination and Back carry the number of the page they came  *)
(* from.                                                                   *)
list_statuswise_exceptions(b, list, n, per) ==
  Answers(b, View(list, n, per, status)) /\ UNCHANGED <<status, reseen>>

show(b) ==
  /\ ~page[b].covered /\ Rows(b) # {}
  /\ Answers(b, [page[b] EXCEPT !.covered = TRUE, !.marked = {}, !.main = FALSE])
  /\ UNCHANGED <<status, reseen>>

(* change_status: the marked ids, whatever has become of them; then the    *)
(* page, or the one before it.                                             *)
change_status(b, to) ==
  LET list == page[b].list n == page[b].at
      st == [x \in Exceptions |-> IF x \in page[b].marked THEN to ELSE status[x]]
      shown == IF n > total_pages(list, page[b].per, st) /\ n - 1 > 0 THEN n - 1 ELSE n
  IN  /\ checkMarked(b) /\ to \in Decisions /\ to # list /\ status' = st
      /\ reseen' = reseen \ page[b].marked
      /\ Answers(b, View(list, shown, page[b].per, st))

Browse(b) ==
  \/ \E x \in Rows(b) : uncheckMain(b, x)
  \/ checkAll(b) \/ show(b)
  \/ \E list \in Statuses : list_statuswise_exceptions(b, list, 1, page[b].per)
  \/ \E per \in Sizes : ~page[b].covered /\ list_statuswise_exceptions(b, page[b].list, 1, per)
  \/ \E n \in 1..page[b].pages :
       ~page[b].covered /\ list_statuswise_exceptions(b, page[b].list, n, page[b].per)
  \/ page[b].covered /\ list_statuswise_exceptions(b, page[b].list, page[b].at, page[b].per)
  \/ \E to \in Decisions : change_status(b, to)

(* save_exception_class and delete_exception_class: the file, then the     *)
(* records of the class are looked up, then they are updated.  File.open   *)
(* with "w" empties the file, YAMLWriter_close is the end of write.  The   *)
(* panel's other forms save config.yml in the same way (SaveConfig).       *)
ChangeList(c, to) ==
  /\ job = NoJob /\ (to = "open" <=> c \in ignored)
  /\ ignored' = IF to = "open" THEN ignored \ {c} ELSE ignored \cup {c}
  /\ job' = [at |-> "write", class |-> c, to |-> to, ids |-> {}]
  /\ UNCHANGED <<queue, left, records, status, anl, page, reseen>>
SaveConfig ==
  /\ job = NoJob /\ job' = [NoJob EXCEPT !.at = "write"]
  /\ UNCHANGED <<queue, left, records, status, ignored, anl, page, reseen>>
YAMLWriter_close ==
  /\ job.at = "write" /\ job' = IF job.to = None THEN NoJob ELSE [job EXCEPT !.at = "select"]
  /\ UNCHANGED <<queue, left, records, status, ignored, anl, page, reseen>>
get_exceptions_by_class ==
  /\ job.at = "select"
  /\ job' = [job EXCEPT !.at = "update", !.ids = {x \in Recorded : ClassOf[x] = job.class}]
  /\ UNCHANGED <<queue, left, records, status, ignored, anl, page, reseen>>
update_all_status_to ==
  /\ job.at = "update" /\ job' = NoJob
  /\ status' = [x \in Exceptions |-> IF x \in job.ids THEN job.to ELSE status[x]]
  /\ reseen' = reseen \ job.ids
  /\ UNCHANGED <<queue, left, records, ignored, anl, page>>

Next ==
  \/ \E x \in Exceptions : log_exception(x)
  \/ Analyzer
  \/ \E b \in Browsers : Browse(b)
  \/ \E c \in Classes : ChangeList(c, "permanently-ignored") \/ ChangeList(c, "open")
  \/ SaveConfig \/ YAMLWriter_close
  \/ get_exceptions_by_class \/ update_all_status_to

Spec == Init /\ [][Next]_vars

(* The analyzer's thread goes on; nothing is assumed of anybody else. *)
FairSpec == Spec /\ WF_vars(Analyzer)

-----------------------------------------------------------------------------
(* "Corrected checkbox selection functionality on exception listing page": *)
(* the box above the list is checked exactly when every row is, also for a *)
(* list of one row, so that what a decision is confirmed for is what is    *)
(* seen.                                                                   *)
MainBox == \A b \in Browsers : Rows(b) # {} => (page[b].main <=> page[b].marked = Rows(b))

(* "if its been closed, mark entry as open": an exception that occurred    *)
(* again after it was closed does not stay closed, whatever the panel did  *)
(* while the occurrence was under way: one that finds its record is in the *)
(* queue or with the analyzer.                                             *)
Finds(x, r) == x \notin Wordless /\ r \in Found(x)
ClosedComesBack ==
  \A r \in reseen : status[r] = "closed" =>
    \/ \E x \in ToSet(queue) : Finds(x, r)
    \/ anl.at \in {"look", "reopen"} /\ Finds(anl.exc, r)

(* Pages and records stay sound while analyzer and panel change both. *)
RecordsSound == TypeOK /\ MainBox /\ ClosedComesBack

(* "Any exceptions that occur in any of the deployed application are       *)
(* captured by the server", those of ignored classes too: each has a       *)
(* record, its own or that of an exception its pattern fits.  Lost are the *)
(* ones without a word in their message, and one that is checked while the *)
(* panel writes config.yml.                                                *)
Captured ==
  \A x \in Exceptions \ Wordless :
    x \in ToSet(queue) ~> \/ Like[x] \cap Recorded # {}
                          \/ anl.exc = x /\ anl.at = "check" /\ job.at = "write"
==============================================================================
