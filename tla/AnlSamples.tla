----------------------------- MODULE AnlSamples -----------------------------
(***************************************************************************)
(* The analyzer's statistics of one deployed application and one of its    *)
(* URLs (message_analyzer.rb, app_time_sample.rb, url_time_sample.rb). The *)
(* workers put a message per request in a queue; one thread of the         *)
(* analyzer adds the messages to samples in memory, another one writes the *)
(* samples whose period is over to the database, and shutdown writes the   *)
(* rest.                                                                   *)
(*                                                                         *)
(*   now    the clock, in seconds                                          *)
(*   sent   the wall_time of each message, in the order they were queued   *)
(*   read   how many of them have been read                                *)
(*   mem    the sample in memory: application_samples and url_samples      *)
(*   rows   the samples in the database, app_time_samples and              *)
(*          url_time_samples; a sample is kept with the messages it        *)
(*          counts, number_of_requests is their number                     *)
(*   proc   @message_processor: the table it is at, and whether it has     *)
(*          written the sample that it is about to replace                 *)
(*   stale  @stale_sample_writer, likewise                                 *)
(*   lost, twice  the messages that a stop of the analyzer struck: the one *)
(*          a thread was at, and those of a sample that was written and    *)
(*          not yet replaced or forgotten                                  *)
(*   env    what may happen in this behaviour                              *)
(***************************************************************************)
EXTENDS Integers, Sequences, FiniteSets, FiniteSetsExt, SequencesExt

CONSTANTS Rate,      \* sampling_rate
          LastHit,   \* bound: the last moment a request ends
          Hits,      \* bound: how many requests there are
          Environments

(* What may disturb the analyzer, as sets of these: "preempt", a thread is *)
(* interrupted at its database calls; "stop", the analyzer is stopped and  *)
(* started again.                                                          *)
Disturbances == {"preempt", "stop"}

ASSUME SamplesAssumption ==
  /\ Rate \in Nat \ {0} /\ LastHit \in Nat /\ Hits \in Nat
  /\ Environments \subseteq SUBSET Disturbances

VARIABLES now, sent, read, mem, rows, proc, stale, lost, twice, env

struck == <<lost, twice>>
vars == <<now, sent, read, mem, rows, proc, stale, struck, env>>

May(d) == d \in env

Tables == {"app", "url"}
NoSample == [first |-> -1, hits |-> {}, sec |-> [s \in {} |-> 0]]
Idle == [at |-> "idle", written |-> FALSE]
Seconds == 0..Rate - 1
After(table) == IF table = "app" THEN [at |-> "url", written |-> FALSE] ELSE Idle

TypeOK ==
  /\ env \in Environments /\ now \in 0..LastHit + Rate + 1 /\ Len(sent) <= Hits /\ read \in 0..Len(sent)
  /\ \A i \in DOMAIN sent : sent[i] \in 0..LastHit
  /\ proc \in [at : Tables \cup {"idle"}, written : BOOLEAN]
  /\ stale \in [at : Tables \cup {"idle"}, written : BOOLEAN]
  /\ \A t \in Tables :
       /\ mem[t] # NoSample => mem[t].first \in 0..LastHit /\ mem[t].hits # {}
       /\ mem[t].hits \subseteq 1..read /\ lost[t] \cup twice[t] \subseteq 1..read
       /\ \A i \in DOMAIN rows[t] : rows[t][i].hits \subseteq 1..read /\ rows[t][i].at \in Nat

Init ==
  /\ now = 0 /\ sent = <<>> /\ read = 0 /\ proc = Idle /\ stale = Idle
  /\ mem = [t \in Tables |-> NoSample] /\ rows = [t \in Tables |-> <<>>]
  /\ lost = [t \in Tables |-> {}] /\ twice = [t \in Tables |-> {}]
  /\ env \in Environments

(* A thread goes on; without preemption the other one is not in the middle *)
(* of writing a sample.                                                    *)
Runs(other) == May("preempt") \/ ~other.written

Tick ==
  /\ now < LastHit + Rate + 1 /\ now' = now + 1
  /\ UNCHANGED <<sent, read, mem, rows, proc, stale, struck, env>>

(* A request ends now; its message may reach the queue after those of      *)
(* later ones.                                                             *)
log_spent_time(t) ==
  /\ Len(sent) < Hits /\ t <= now /\ t <= LastHit /\ sent' = Append(sent, t)
  /\ UNCHANGED <<now, read, mem, rows, proc, stale, struck, env>>

-----------------------------------------------------------------------------
(* @message_processor *)
process_messages ==
  /\ proc = Idle /\ read < Len(sent) /\ Runs(stale)
  /\ read' = read + 1 /\ proc' = [at |-> "app", written |-> FALSE]
  /\ UNCHANGED <<now, sent, mem, rows, stale, struck, env>>

InPeriod(sample, t) == t >= sample.first /\ t <= sample.first + Rate

(* The first message of a sample is not counted at its second. (Only the   *)
(* samples of an application count by the second.)                         *)
NewSample(t) == [first |-> t, hits |-> {read}, sec |-> [s \in Seconds |-> 0]]

Add(sample, t) ==
  [sample EXCEPT !.hits = @ \cup {read}, !.sec[t % Rate] = @ + 1]

Peak(sample) == Max({sample.sec[s] : s \in Seconds})

create_sample(table, sample, t) ==
  rows' = [rows EXCEPT ![table] = Append(@, [at |-> t, hits |-> sample.hits, peak |-> Peak(sample)])]

(* The rows a late message may belong to: they carry the end of their      *)
(* period.                                                                 *)
Mutant_RowsOf(table, t) == {i \in DOMAIN rows[table] : rows[table][i].at >= t}
RowsOf(table, t) == {i \in DOMAIN rows[table] : rows[table][i].at \in t..t + Rate}

AddLate(table, t) ==
  IF RowsOf(table, t) = {}
  THEN rows' = [rows EXCEPT ![table] = Append(@, [at |-> t + Rate, hits |-> {read}, peak |-> 1])]
  ELSE rows' = [rows EXCEPT ![table][Min(RowsOf(table, t))].hits = @ \cup {read}]

(* The sample of a past period is written with the end of that period; the *)
(* one of a URL with the time of the message that ends it.                 *)
PastTime(table, t) == IF table = "app" THEN mem[table].first + Rate ELSE t

add_to_sample(table) ==
  LET t == sent[read] sample == mem[table] IN
  /\ proc = [at |-> table, written |-> FALSE] /\ Runs(stale)
  /\ \/ /\ sample = NoSample
        /\ mem' = [mem EXCEPT ![table] = NewSample(t)]
        /\ proc' = After(table) /\ UNCHANGED rows
     \/ /\ sample # NoSample /\ InPeriod(sample, t)
        /\ mem' = [mem EXCEPT ![table] = Add(sample, t)]
        /\ proc' = After(table) /\ UNCHANGED rows
     \/ /\ sample # NoSample /\ t < sample.first
        /\ AddLate(table, t) /\ proc' = After(table) /\ UNCHANGED mem
     \/ /\ sample # NoSample /\ ~InPeriod(sample, t) /\ t > sample.first
        /\ create_sample(table, sample, PastTime(table, t))
        /\ proc' = [proc EXCEPT !.written = TRUE] /\ UNCHANGED mem
  /\ UNCHANGED <<now, sent, read, stale, struck, env>>

(* ... and when the row has been created, the new sample takes its place. *)
ReplaceSample(table) ==
  /\ proc = [at |-> table, written |-> TRUE]
  /\ mem' = [mem EXCEPT ![table] = NewSample(sent[read])]
  /\ proc' = After(table)
  /\ UNCHANGED <<now, sent, read, rows, stale, struck, env>>

-----------------------------------------------------------------------------
(* @stale_sample_writer *)
process_stale_samples ==
  /\ stale = Idle /\ Runs(proc) /\ stale' = [at |-> "app", written |-> FALSE]
  /\ UNCHANGED <<now, sent, read, mem, rows, proc, struck, env>>

Mutant_IsStale(sample) == sample # NoSample /\ sample.first + Rate > now
IsStale(sample) == sample # NoSample /\ sample.first + Rate < now

write_stale_samples(table) ==
  /\ stale = [at |-> table, written |-> FALSE] /\ Runs(proc)
  /\ IF IsStale(mem[table])
     THEN /\ create_sample(table, mem[table], mem[table].first + Rate)
          /\ stale' = [stale EXCEPT !.written = TRUE]
     ELSE stale' = After(table) /\ UNCHANGED rows
  /\ UNCHANGED <<now, sent, read, mem, proc, struck, env>>

ForgetSample(table) ==
  /\ stale = [at |-> table, written |-> TRUE]
  /\ mem' = [mem EXCEPT ![table] = NoSample] /\ stale' = After(table)
  /\ UNCHANGED <<now, sent, read, rows, proc, struck, env>>

(* The message that has been read and is still to be added to a table, and *)
(* a sample that is both in the database and in memory.                    *)
InHand(table) == proc.at = "app" \/ proc.at = table
InTransit(table) == \E thread \in {proc, stale} : thread = [at |-> table, written |-> TRUE]

(* INT or TERM, and the next start: the threads are killed where they are, *)
(* what is in memory is written, and the queue keeps the rest.             *)
shutdown ==
  /\ May("stop")
  /\ rows' = [t \in Tables |->
       IF mem[t] = NoSample THEN rows[t]
       ELSE Append(rows[t], [at |-> mem[t].first + Rate, hits |-> mem[t].hits, peak |-> Peak(mem[t])])]
  /\ mem' = [t \in Tables |-> NoSample] /\ proc' = Idle /\ stale' = Idle
  /\ lost' = [t \in Tables |-> IF InHand(t) THEN lost[t] \cup {read} ELSE lost[t]]
  /\ twice' = [t \in Tables |-> IF InTransit(t) THEN twice[t] \cup mem[t].hits ELSE twice[t]]
  /\ UNCHANGED <<now, sent, read, env>>

Processor ==
  \/ process_messages
  \/ \E table \in Tables : add_to_sample(table) \/ ReplaceSample(table)
Writer ==
  \/ process_stale_samples
  \/ \E table \in Tables : write_stale_samples(table) \/ ForgetSample(table)

Next ==
  \/ Tick \/ (\E t \in 0..LastHit : log_spent_time(t))
  \/ Processor \/ Writer \/ shutdown

Spec == Init /\ [][Next]_vars

(* Time passes, and each thread's loop comes round every minute. *)
FairSpec ==
  Spec /\ WF_vars(Tick) /\ WF_vars(Processor) /\ WF_vars(Writer)

-----------------------------------------------------------------------------
Counted(table, m) ==
  Cardinality({i \in DOMAIN rows[table] : m \in rows[table][i].hits})
    + (IF m \in mem[table].hits THEN 1 ELSE 0)

(* "The hit count for the URLs of the application": a message that has     *)
(* been dealt with is counted once, in memory or in one row, whatever the  *)
(* order the messages come in and however the writer, the processor and a  *)
(* restart of the analyzer follow each other.  A stop costs no more than   *)
(* the message a thread is at, and what it counts twice is one sample that *)
(* is just being written.  (Preempted at a database call, the two threads  *)
(* lose messages and count them twice: application_samples is not locked.) *)
HitsExact ==
  ~May("preempt") /\ proc.at = "idle" /\ ~stale.written =>
    \A table \in Tables, m \in 1..read :
      Counted(table, m) = CASE m \in lost[table] -> 0
                            [] m \in twice[table] \ lost[table] -> 2
                            [] OTHER -> 1

(* A row of an application counts requests of its own period, late         *)
(* messages included.                                                      *)
AppPeriods ==
  \A i \in DOMAIN rows["app"] : \A m \in rows["app"][i].hits :
    sent[m] \in rows["app"][i].at - Rate .. rows["app"][i].at

(* Every row counts what it should, once. *)
CountsRight == TypeOK /\ HitsExact /\ AppPeriods

(* "it takes about a minute for its data to show up in the graphs": every  *)
(* message ends in the database, also the last one before a quiet time     *)
(* (unless preemption, or a stop while a thread is at it, loses it).       *)
ShownInGraphs ==
  \A m \in 1..Hits : \A table \in Tables :
    (~May("preempt") /\ m <= Len(sent)) ~>
      m \in lost[table] \/ \E i \in DOMAIN rows[table] : m \in rows[table][i].hits
=============================================================================
