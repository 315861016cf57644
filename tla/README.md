# WebROaR: a TLA+ model of the server

WebROaR is an application server for Ruby. One *head* process (`src/src/head`)
accepts HTTP connections, forks *worker* processes (`src/src/worker`) that run the
applications, and hands each request to a free worker of its application. Workers and
administrators talk to the head over a control socket. An *administration panel*
(`src/src/admin_panel`, itself an application of the server) edits `config.yml` and gives
commands; an *analyzer* process (`src/src/ruby_lib/analyzer`) collects what workers report
about requests and exceptions. Head and workers are single-threaded: libev runs one callback
at a time to completion. What makes them hard is everything that happens between two
callbacks.

## Inventory

| component | state it keeps | operations | hard behaviour | what makes it correct |
|---|---|---|---|---|
| queue (`helper/wr_queue.c`) | ring of pointers, `q_front`, `q_rear`, `q_count` | insert, fetch, remove | wrap-around, removal from the middle | it is a bounded FIFO |
| application pool (`head/wr_application.c`) | `wr_app_t`: state, four queues, two configurations, three timers, a failure counter, the administrator to answer | start, reload, roll-back, remove; add, balance, register and fail a worker; grow, shrink | timers racing late registrations, several reloads in flight, failed forks | pool between min and max, nothing pending unwatched, reload uniform and decided |
| worker record (`head/wr_worker.c`) | `wr_wkr_t`: state, request, idle timer, PING trials | dispatch, allocate, send, read, ping, expire, free | the same death seen on two sockets, late PING answers, expiry in mid-request | each worker is free or busy, once; each request is in one place |
| request, connection (`head/wr_request.c`, `wr_connection.c`) | request under construction, response list, `resp_to_write`, keep-alive | parse callbacks, error responses, write, timeout, close | parse errors after dispatch, closes before the response, pipelining | responses in order, nothing owed is forgotten, everything freed once |
| controller and control client (`head/wr_controller.c`, `worker/wkr_controller.c`, `worker/worker.c`) | buffer, one message slot and a watcher at each end; the worker's stage | configuration, load, register, error, PING, dismiss, signals | messages in pieces or joined, a death or dismissal at any byte | both ends agree; a worker registers, leaves, or is killed |
| request socket (`head/wr_worker.c`, `worker/wkr_http*.c`) | bytes sent and received at both ends, body in memory or in a file | send header and body, parse, process, send the response in three parts | pieces, buffer limits, deaths | no byte lost, added or mixed up |
| SCGI (`helper/wr_scgi.c`) | header, body, bytes sent | build, send, parse | partial input, partial writes | parse inverts build |
| resolver, configuration (`head/wr_resolver.c`, `wr_configurator.c`) | base URIs, hosts, default application, application list | read all, read one, add, reload, remove, resolve | pointers into configurations that reloads free | routes are those of what runs |
| administration panel (`admin_panel/app`, `lib`, `application.js`) | `config.yml`, database rows, open forms, the command it waits for | add, edit, delete, restart, stop; Server Specification; exception lists | old forms, a worker that waits for the head, commands that fail half-way | file unique and startable, reports true |
| analyzer (`ruby_lib/analyzer`, `app_time_sample.rb`, `url_time_sample.rb`, `app_exception.rb`) | samples in memory and in the database, records of exceptions | process messages, write stale samples, record and reopen exceptions, shut down | two threads, late messages, the panel on the same database | each request counted once, exceptions neither lost nor left closed |
| start and stop, loggers, strings, Ruby runtime, command line, static file server, JavaScript and C libraries | - | I/O, glue, third-party | - | not modelled |

The head interacts with a worker process through `fork`, two sockets and `kill`; with an
administrator through the control socket; with a client through libebb's parser callbacks.
The pool, the workers and the requests share pointers (`worker->req`, `req->app`, `req->conn`,
`app->ctl`, `ctl->app`, the queues): many properties are about these staying consistent. Panel
and analyzer share a database and `config.yml`. `PROJECT.json` lists the hazards at their lines.

## Modules

* `WrFifo` - what the queue promises: a bounded FIFO with removal. `WrQueue` - the ring of
  `wr_queue.c`, one action per call; `RefinesFifo` is the refinement with the mapping
  `Contents`. `MCWrQueue` is its instance, `WrQueueProofs` its proofs.
* `WrPool` - `wr_app_t` as a record, and the functions that only touch its fields as
  operators on that record. `wr_app_wkr_add` and `wr_app_wkr_balance` return the set of
  possible outcomes, because the operating system chooses the pids and may have none left.
* `WrHead` - one application in the head, with its workers, requests, starting processes,
  administrators and timers. One action per callback:

  | action | callback |
  |---|---|
  | `ReqHeaders`, `ReqComplete`, `ReqAbort` | `wr_headers_complete_cb` with the resolver's test, `wr_req_complete_cb` with the dispatch, `wr_req_parse_err_cb` |
  | `ReqSent`, `RespChunk`, `RespDone`, `RespError` | the write and read callbacks of the request socket |
  | `CtlClosed`, `PingReply`, `WaitTimeout` | `wr_ctl_free` for a worker, `wr_wkr_ping_cb`, `wr_wkr_wait_cb` with the state machine |
  | `ConfReq`, `WkrAdd`, `WkrAddFails`, `WkrRejected`, `WkrError` | the control messages of a starting worker |
  | `AddTimeout`, `WaitOver`, `AddCb`, `RemoveCb` | the application's timers |
  | `wr_app_add_cb`, `wr_app_reload_cb`, `wr_app_remove_cb`, `AdmClose` | the administrators' commands and disconnects |
  | `Loaded`, `LoadFailed`, `BootDies`, `Crash`, `Hang` | the environment |

  `MCWrHead` holds its instances, `WrHeadProofs` its proofs.
* `WrReqLife` - the life of a request between its connection and the pool, in five states.
  Both sides are shown to keep to it: `WrHead!RequestsLive` and `WrConn!RequestsLive`, each
  with its own refinement mapping. This is what composes them: `WrConn` frees, answers and
  aborts requests only in states in which `WrHead` expects it, and the reverse.
* `WrConn` - one client connection: libebb's reading and parsing of several requests, the
  response list, `resp_to_write`, error responses, the write watcher, timeouts and closing.
  `Recv` to `RecvEnds` is one read: the parser's callbacks run one after the other in it.
  `WrConnProofs` holds its proofs.
* `WkrLife` - the life of a worker process that `WrHead`'s environment actions assume.
  `WkrCtl` - both ends of a worker's control connection, byte by byte, with loading,
  registration, PINGs, dismissal and signals; `WorkerLives` shows that it implements
  `WkrLife`. `WrScgi` - build, send and parse of a message, shared with the next.
  `WkrCtlProofs` holds the proofs about the connection.
* `WkrReq` - the request connection between the head and a worker, byte by byte: SCGI header,
  body in memory or in a file, and the three parts of a response. `WkrReqProofs` holds its proofs.
* `WrResolver` - the application list of `wr_configurator.c` with its rules against repeated
  names, URIs and hosts, the life of applications at ADD, RELOAD and REMOVE, and the routing.
  `Panel` - the panel's forms with the checks in the browser and in the models, `config.yml`,
  the commands it sends and waits for, the Server Specification, and restarts of the server,
  on top of `WrResolver`, which answers the commands. `MCPanel` is the instance of both,
  `PanelProofs` holds the proofs about both. A list from which entries are taken out is written
  as the list of what is kept (`Kept`), in the old order.
* `AnlSamples` - the analyzer's two threads over the samples of an application and one URL.
  `AnlSamplesProofs` holds its proofs.
* `AppExceptions` - exceptions from the worker's queue through the analyzer to the records, and
  the administrators who list, mark, close, ignore and reopen them or name ignored classes.
  A page is the set of its rows, found by their rank in `get_all`'s order. `AppExceptionsProofs`
  holds its proofs.

Abstractions. Queues are sequences and `q_workers`, whose order nothing observes, a set;
`WrQueue` justifies this. Time is abstracted: a timer that runs may expire at any moment (in
`AnlSamples` seconds are counted). In `WrHead`, message contents, sockets and byte counts are
abstracted to the progress of a request; `WkrCtl` and `WkrReq` have the bytes, a byte being its
message and its position in it. A worker's death closes both its sockets, and the head may
notice either first. A pid that the head still refers to is not given out again. When the
code follows a pointer to freed memory the object is marked (`dangling`, `stale`, `bad`) and
has no further effect. `add_timeout` and `idle_time` are positive. Each administrator's
connection carries one command. The hash of a base URI is injective on first segments.
Browsers' pages and forms are sets of chosen values; texts, colours and mail are left out.

**Disturbances.** `WrConn`, `WkrCtl`, `WkrReq` and `AnlSamples` have a constant `Environments`:
sets of things that may go wrong together. Each behaviour chooses one of them at its start, and
a property that the code does not keep under some disturbance names it (`May("split")`), with
the reason in its comment. So each property says for which environments it is claimed, and
what is excepted can be read in the module. `Panel` chooses a *scene* in the same way: which
entries, ports and numbers the administrators type, whether they work by hand, and what
happens besides.

## Runs

| run | instance | shows |
|---|---|---|
| `queue` | rings of 1 to 4 slots, 3 elements, any initial garbage | `RingSound` (`Anchored`: indices and count agree), `RefinesFifo` |
| `dispatch` | min 1, max 2 workers, 3 pids, 3 requests, message queue of 2, two crashes or hang-ups | `WorkConserving`, `Accounted` (`WorkersAccounted`, `RequestsAccounted`), `SentWatched`, `AtMostMax` |
| `lifecycle` | 2 administrators, 2 configurations, 1 worker, 3 pids, 2 requests, one failed load or connection | `Accounted` through reloads and removals, `PendingWatched`, `QueuesFit`, `RestartHasConf`, `ReloadIsUniform`, `RequestsLive`, `NotForgotten` |
| `pool` | min = max = 2, 3 pids, 1 request, two failures of three kinds, fair timers | `PoolKept`, `SentIsAnswered` |
| `admin` | 1 administrator, 1 request, min 1, max 2 workers, 3 pids, growth under load, one process that dies, fails to load, cannot be connected to or hangs, fair timers | `Decided`, `AdminAnswered` |
| `conn` | 3 requests, responses of up to 2 parts, six environments | `ConnSound` (`CountsOwed`: `resp_to_write` is what is owed; `WriterArmed`: no piece is forgotten), `InOrder`, `NeverDangling`, `RequestsLive`, `ConnectionEnds` (`Released`, `StoppedCloses`) |
| `ctl` | configuration of 4 bytes, buffers of 5, 2 PING trials, 3 requests, at most 4 bytes under way when a slow worker is pinged again, six environments | `CtlSound` (`WriterSound`: no write without a message; `Framed`: a buffer holds the beginning of one message), `WorkerLives`, `HeardOf` (`Registers`, `ErrorReported`), `GoesAway` (`Leaves`, `StuckIsKilled`) |
| `req` | 2 requests, bodies of 0, 1, 3 and 5 bytes with 2 in memory, contents of 0 and 3, worker's buffer of 5, three environments | `BytesIntact` (`RequestWhole`, `ResponseIntact`), `InStep`, `ReqEnds` (`Served`, `DeathNoticed`) |
| `panel` | seven scenes: applications by URI and by host, in the panel and by hand; commands from a shell beside the panel's; below `/admin-panel` and with too long a name; the Server Specification at 0, 1, its limits and beyond | `RoutesRight` (`RoutesAgree`, `MostSpecific`), `OthersUndisturbed`, `FileSound` (`UniqueInFile`, `Startable`), `Honest`, `PanelReachable`, `PanelResponds` |
| `anl` | 3 messages of 3 different seconds in any order, a sampling rate of 1, with stops of the analyzer at any moment, or with preemption | `CountsRight` (`HitsExact`, `AppPeriods`), `ShownInGraphs` |
| `exc` | 3 exceptions of 2 classes, one with a pattern that fits another's message, one without a message; 3 occurrences, pages of 1 and of 2 rows, one browser | `RecordsSound` (`MainBox`, `ClosedComesBack`), `Captured` |

The first named invariant of `queue` and of each of the last six includes the type invariant of its
module.

The bounds let each interesting case happen. Head: two requests wait while a third is refused,
the ring wraps, a worker dies idle, serving or while being replaced, a reload starts while the
first start or another reload, its own or the other administrator's, is undecided, a worker hangs
while its application reloads and another is left, the last failed trial is reached (`AddTrials` is
2), `q_workers` fills up. Connections: a third request arrives while the first is with a worker
and the second is refused; messages are longer than one piece, two fit together into a buffer,
and a body is shorter than, equal to and longer than what is left of it. Panel: two applications
contend for one URI or host, a form outlives a deletion and a new addition, and a command overtakes
another. Analyzer: the third message is late for a period that has been written, and a stop comes
between the two tables, and between a row and the memory it was made from. Exceptions: a second
page exists, and one exception is found under the record of another.
Processes, requests, administrators and configurations with equal limits are interchangeable,
which the safety runs of `WrHead` use for symmetry; the runs with liveness use none.

Deadlock is not checked where the system may stop: when every command has been carried out and
the application removed, the connection is closed, the worker gone, or the bounded requests,
messages and exceptions are used up. `queue`, `dispatch`, `pool`,
`panel` and `min_crash` check it.

One run states a sentence of the documentation and TLC refutes it: `min_crash` - "The server
would always ensure at least these many worker processes run for this application"
(`doc/user-guide.html`). A worker that dies while serving is first noticed on its request
socket, and that path frees it without balancing the pool. `PoolKept` says what does hold of
the minimum, with this exception named.

### Fairness

* `WrHead`: the idle timer of each worker and the application's add timer. libev calls the
  callback of an armed timer; nothing is assumed of worker processes, clients or
  administrators. That is enough for `SentIsAnswered`, because `trials_done` is not reset by a
  PING's answer, and for `Decided`, because a start and a reload always leave a worker pending
  under the add timer - as long as `fork` succeeds, which the instance of `admin` provides.
* `WrConn`: the end of a read that has begun and the connection's timer. Nothing is assumed of
  the client, of workers or of the pool: a lost worker need not be replaced (`min_crash`) and an
  application may stay in the state `RESTARTING`, so a queued request may wait for ever. What
  `ConnectionEnds` says is that nothing but such a request (`KeptForEver`) keeps a connection.
* `WkrCtl`, `WkrReq`: both event loops serve a ready socket and an armed timer; a pending
  signal is delivered; in `WkrReq` the application answers.
* `Panel`: the head handles a command; the worker it waits for comes, fails or is given up, or
  the reload is (`WrHead`: `Decided`); the panel reads an answer; and a panel whose command the
  head has forgotten is killed by its own idle timer (`Forgotten /\ HungUp`), for which
  `idle_time` must be positive. The panel has no timeout of its own. A panel that waits for a
  *start* may be killed before the start is decided, when several workers are pending; a reload,
  which waits for one, is decided within `add_timeout` (25 s), before `idle_time` (60 s) and the
  PINGs are over.
* `AnlSamples`: time passes and both threads go on. `AppExceptions`: the analyzer's thread.

## Other deviations met while modelling

The models contain these behaviours unless noted, and the properties either name them as
exceptions or are not about them.

Head:

* After a reload the application stays in the state `RESTARTING` (`wr_application.c:311`), in
  which a worker that finishes or dies is not replaced: the pool shrinks below `min_worker`.
* `add_wait` is described as "Number of seconds to wait for creating new worker, if all
  consecutive trials are failed" (`conf/server_internal_config.yml:37`); when that wait is over,
  `wr_app_wkr_add_timeout_cb` resets its counter and returns (`wr_application.c:141`).
* "In-active worker will be removed once current request is processed." (`wr_application.c:287`):
  the first idle timeout removes an expired worker in the middle of its request
  (`wr_worker.c:115`).
* Bytes that do not parse behind a request that is with a worker are answered 400, and the
  connection is closed and freed; the request's `conn` is not cleared, so `wr_wkr_free`
  (`wr_worker.c:757`) answers once more on the freed connection when the worker is lost.
  (`WrConn`: `AnsweredForWorker`.)
* When the file for a large body cannot be opened (`wr_request.c:434`) the request is freed and
  the parser goes on with it. (`May("upload")`.)
* `wr_req_hearer_write_cb` has no `return` behind `WKR_ACTION_ERROR` (`wr_worker.c:425-432`): when
  a worker is found dead while a request's headers are sent to it, `wr_wkr_free` has answered and
  freed the request, and the callback goes on with `req->scgi`. (`WrConn`: `HeaderUnsent`,
  `May("unsent")`, an exception of `NeverDangling`.)
* A worker that hangs up while a reload is undecided makes `wr_app_wkr_balance` settle the reload
  when `min_worker` others are left (`wr_application.c:500-504`), and nobody answers the
  administrator. (`SettledSilently` in `AdminAnswered`; `Forgotten` in `PanelResponds`.)
* A second reload overwrites `app->ctl` (`wr_application.c:716`), a removal takes it along, and the
  disconnect of an administrator whose ADD was refused clears it though it names another
  (`wr_controller.c:565`): the administrator who waited is not answered. (`Overtaken` in
  `NotForgotten` and in `WrResolver`; `Forgotten`.)
* `wr_ctl_free` stops the read watcher only (`wr_controller.c:550`): the connection is freed with
  an active write watcher when the worker leaves, dies or is dismissed while it is written to.
  (Third conjunct of `WriterSound`.)
* The answer to one PING that arrives while the next is in the slot empties the slot under its
  write watcher (`wr_worker.c:896`), and the head follows a null pointer. Answers that come
  together are not taken apart. It needs a worker that answers after `ping_timeout`.
  (`May("slow")`, an exception of `WriterSound` and, once the worker is registered, of `Framed`.)
* `scgi_send` keeps the result of `send` in a `size_t` (`wr_scgi.c:227`, `240`): a failure is added
  to `bytes_sent`, and a message of which nothing has gone out then counts as sent. The peer is
  dead in that case; `WkrCtl` has the step (`Unsent`), and the properties hold with it.
* `kill_timeout`, "Number of seconds to wait before killing identified stuck worker"
  (`conf/server_internal_config.yml:39`), is never used: a stuck worker that is dismissed is told
  to leave, does not read it, and is forgotten (`wr_worker.c:774`). (`DismissedStuck`.)
* `req->bytes_received =+ read` (`wr_worker.c:332`) assigns: a response's SCGI header that comes in
  two pieces is counted wrongly. `scgi_parse` passes over a body of one byte
  (`wr_scgi.c:337`). (`May("split")`, `May("byte")`.)

Worker:

* "Sends ERROR control message, if application could not be loaded by worker." (`CHANGELOG:123`):
  not when `run_as_user` is the cause (`worker.c:473`). (`Reporting`.)
* A configuration longer than the buffer of 1 KB (`wkr_controller.c:166`) and a request whose SCGI
  header is longer than the buffer of 10 KB (`wkr_http_request.c:304`, the head accepts 110 KB) make
  `recv` return 0, and the worker exits. (`Undisturbed`, `Served`.)

Configuration and panel:

* `wr_chk_host_lists` (`wr_configurator.c:663`) compares only the first name of one list with the
  other, and a reload is not compared with the pending configuration of another: two running
  applications can claim one host.
* `uri_hash` (`wr_util.c:71`) stops at the first `/`: of a longer base URI only the first segment
  decides, and an application below the reserved `/admin-panel` takes the panel's requests.
  (Exception of `PanelReachable`.) By hand, an application at `/admin-panel` itself can be added.
* An edit whose reload fails is rolled back in the head and not in `config.yml`; repeated base URIs
  are not compared at an ADD (`wr_configurator.c:1051`), and when the second application at `/` goes
  nobody is the default (`wr_resolver.c:182`).
* With no analyzer running, a deletion ends in an exception after the database row is gone and
  before the file is written (`application_specification.rb:95`).
* A name of exactly 30 characters is accepted by the panel and refused by the head, with the
  message "Maximum is %d characters" (`wr_configurator.c:389`). The port 65535 is refused with
  "Port should be a number between 1 and 65535." (`server_specification.rb:30`).
* `send_control` waits for its answer without a timeout (`control.rb:81-87`): a panel whose command
  the head has forgotten, as above, waits until the head kills its worker. (`HungUp`.) When the
  panel's worker is killed while it starts an application, `ctl->app` may point to an application
  that has been freed; what the head then does is not modelled.
* `flag &= (!SERVER_SSL_SUPPORT)` (`wr_configurator.c:180`) clears every flag: with its certificate
  missing the server starts without its panel.

Analyzer and exceptions:

* `write_stale_samples` creates a row and then forgets the sample (`app_time_sample.rb:185`); a
  thread switch at the database call loses or doubles requests. (`May("preempt")`.)
* `shutdown` kills the threads wherever they are (`webroar_analyzer.rb:104-109`) and then writes
  what is in memory: the message a thread is at is lost for the tables it has not been added to,
  and a sample that has been written and not yet forgotten is written twice. (`lost` and `twice`
  in `HitsExact`, which says that it is no more than this.)
* `YAMLWriter.write` empties `config.yml` and fills it again (`yaml_writer.rb:35-41`). An analyzer
  that looks for the ignored classes at that moment finds no application, `permanently_ignored?`
  raises, and the exception that has been taken from the queue is dropped
  (`message_analyzer.rb:158`, `243`); or it finds a list cut short, and records an ignored class as
  open. Every form of the panel that saves the file does this (`SaveConfig`). (Exception of
  `Captured`.)
* An exception is looked up by `LIKE` with what its message has before `#<` and a `%`
  (`app_exception.rb:117`): a record whose message only begins like that is taken for its own. An empty message makes no pattern and raises, and the exception is lost. (`Like`,
  `Wordless`.) A pattern is assumed to fit its own message: messages with a backslash, which some
  databases take for an escape character, are left out.
* The sample of a URL is written with the time of the message that ended it
  (`url_time_sample.rb:261`); the first request of a sample is not counted for the peak
  (`app_time_sample.rb:139`).
* "Stopped sending email notifications for ignored exceptions." (`CHANGELOG:164`): an ignored
  exception that occurs again is mailed, since the local status is then open
  (`message_analyzer.rb:183`; mail is not in the module).
* A class that is named as ignored between the analyzer's look at the list and its record leaves an
  open record (`message_analyzer.rb:179`); an exception that is ignored between the analyzer's read
  and write of its status is opened (`message_analyzer.rb:191`).
* After a decision a page beyond the last one says that there are no exceptions when another
  administrator has closed more (`exceptions_controller.rb:128`).

## Proofs

All theorems hold for every value of the constants that satisfies the named assumptions:
positive queue sizes, finitely many pids, `1 <= min_worker <= max_worker <= Worker.max`, at
least one request and one piece of a response, headers of at least 2 bytes, a buffer of at
least 4, different names for different messages, no application called like the panel, at most
1000 applications to choose from and so on (`SizesAssumption`, `PoolAssumption`,
`HeadAssumption`, `ConnAssumption`, `CtlAssumption`, `ReqAssumption`, `MsgAssumption`,
`EntriesAssumption`, `ScenesAssumption`, `FewAssumption`, `SamplesAssumption`,
`ExceptionsAssumption`). Every one of them is an assumption TLC evaluates in a run. The 1000 is
the code's: a form that adds an application has the id 1000 (`get_hash`), and the check for
repeated names leaves out the application at the form's own place, so with more applications
than that in the file a new one could repeat the name of the one there.

| module | theorem | states |
|---|---|---|
| `WrQueueProofs` | `RingIsSound`, `RingImplementsFifo` | `RingSound`, `RefinesFifo` |
| `WrHeadProofs` | `HeadTypeCorrect`, `HeadConservesWork`, `HeadWatchesPending`, `HeadRestartHasConf` | `TypeOK`, `WorkConserving`, `PendingWatched`, `RestartHasConf` |
| | `HeadAccounts`, `HeadWatchesSent`, `HeadQueuesFit`, `HeadImplementsReqLife` | `Accounted`, `SentWatched`, `QueuesFit`, `RequestsLive` of `WrHead` |
| | `HeadReloadsUniformly`, `HeadAtMostMax`, `HeadKeepsPool`, `HeadForgetsNobody` | `ReloadIsUniform`, `AtMostMax`, `PoolKept`, `NotForgotten` |
| `WrConnProofs` | `ConnIsSound`, `ConnInOrder`, `ConnNeverDangles`, `ConnImplementsReqLife` | `ConnSound`, `InOrder`, `NeverDangling`, `RequestsLive` of `WrConn` |
| `WkrCtlProofs` | `WorkerControlSound`, `ControlImplementsWkrLife` | `CtlSound`, `WorkerLives` |
| `WkrReqProofs` | `BytesStayIntact`, `WorkerStaysInStep` | `BytesIntact`, `InStep` |
| `PanelProofs` | `RoutesStayRight`, `OthersStayUndisturbed`, `FileStaysSound`, `AnswersAreHonest`, `PanelStaysReachable` | `RoutesRight`, `OthersUndisturbed`, `FileSound`, `Honest`, `PanelReachable` |
| `AnlSamplesProofs` | `SamplesAreRight` | `CountsRight` |
| `AppExceptionsProofs` | `RecordsStaySound` | `RecordsSound` |

The arguments:

* **Queue.** `TypeOK /\ Anchored` is inductive by itself. `Wrap` reduces `%` to one
  subtraction, `RingFacts` reads the slots off the invariant. For the refinement,
  `Ring(n, f, c, el)` is the sequence a ring holds; `RingInsert`, `RingFetch` and `RingRemove`
  say what a write at the rear, an advanced front and a shift do to it, and every call maps to
  the corresponding `WrFifo` call.
* **Head, `HeadInv`.** The first part of `WrHeadProofs` shows that every function of `WrPool`
  keeps a record `Sound`: typed, with a configuration, with a new one exactly in the state RESTART, with
  pending workers only under the timer and below the trial limit, and without a request waiting
  beside a free worker. These facts need each other (the counter's range depends on the timer's
  exclusion, a killed queue on the trial limit). The second part lifts it to the callbacks, one
  lemma per action. The part `Gone` is needed because callbacks reach the application through
  workers and requests: once it is removed, none is left to reach it by.
* **Head, `Ledger`.** The accounts are broken in the middle of a callback: between taking a
  worker from its queue and giving it a request, or between freeing it and answering for it.
  `BooksOf(app, wkr, req, hand)` therefore states the accounts with a set of workers *in hand*,
  which belong to no queue, and every function is shown to take books with some workers in hand
  to books with others; a whole callback starts and ends with empty hands. `Tidy` adds that no
  queue holds an element twice, without which a removal would leave a freed worker behind.
  `QueuesFit` then is counting: free workers are distinct workers, and `q_workers` is guarded.
  The refinement of `WrReqLife` maps each callback's change of `req` to a step or a stutter.
* **Head, `Versions` and `MaxInv`.** A reload is uniform because processes carry the
  configuration they were given (`pconf`) and the head admits in the state RESTART only those of
  the new one: `Versions` says which configuration each process in each stage may have. That a
  pool stays below its maximum is true only without reloads (old workers leave after their
  requests): `HeadAtMostMax` has `[]NoReload` (`app.state # "RESTART"`, always) as its
  hypothesis, which the start, failures, growth, shrinking and removal of the application all
  satisfy; the run `dispatch`, in which nobody reloads, shows behaviours that do.
* **Head, `Refilled`.** `PoolKept` follows step by step from `Ledger`: a callback that loses a
  worker or kills a process leaves at most one missing, and `BalanceRefills` says that
  `wr_app_wkr_balance` then forks it, unless forking is suspended. It is false without hypotheses,
  and looking for the proof gave what they are. `Reliable`, of the constants: no failure to load
  or to connect, since `wr_app_wkr_error` and a failed connect forget a worker without balancing,
  and a pending queue with room for `min_worker` processes. `[]Forkable`: `fork` succeeds, and no
  worker has been marked to leave for low load. The last is a weakness of the code:
  `wr_app_wkr_balance` counts a worker that is about to leave, so one that is lost beside it is
  not replaced, and when the request of the leaving one is over (`wr_wkr_req_processed` does not
  balance) the pool is below its minimum, with requests waiting. In the run `pool` all of this holds: no state of it is without an
  unused pid or has a leaving worker, while workers crash, hang and never register.
* **Head, `CtlMove`.** That nobody who waits is forgotten (`NotForgotten`) needs no invariant but
  the types: a callback of the head leaves `app->ctl` as it is (`CtlKept`, one lemma for the
  functions of `WrPool`) or answers the one it names, and what an administrator does changes what
  is known of that administrator.
* **Client connection, `ConnInv`.** The conjuncts of `Sane` are about one request at a time
  (`Handle`, `OneRequest`), the counter (`Counted`), the parser between its callbacks (`Parser`),
  a connection that has been given up (`Doomed`), which requests have been answered (`Told`) and
  the order of the response list (`Ordered`). In looking for it the type of `resp_to_write`
  turned out to be too narrow in the model: with an aborted upload it can reach -2, and an
  environment of the run now does.
* **Control connection, `CtlInv`.** The two ends speak in turn: while both are there, at most one
  message is under way, in a slot or on the stream, and it belongs to the worker's stage
  (`Rising`, `Falling`, `Staged`). It fails for a process that is stuck, to which the head speaks
  again and again (`Stuck`), and for one that has been let go, which may have one message to read
  before REMOVE (`LetGo`). Seven effects (`Lives`) are all that a step has on what the head sees
  of a worker, each a step of `WkrLife` or none. All disturbances may occur together, and the
  configuration may be longer than the buffer. When a slow worker is sent a PING over another the
  turns are over for good, and a weaker invariant takes the place of this one (`Late`: the head
  sends nothing but PINGs, the worker nothing but their answers); the inductive invariant is
  `Control`, the disjunction of both, and `BecomesLate` is the step between them.
* **Request connection, `ReqInv`.** A part of a message is a *run* of its bytes (`Run`); joining
  and cutting runs gives runs (`RunJoin`, `RunPart`), and two runs of the same bytes are equal.
  Head and worker take turns: the request is coming, the worker has it, or it has answered
  (`Coming`, `Has`, `Over`). In the first, what the worker has and what is on its way down are one
  run, as long as the head has counted (`HeadSent`); in the others what the client was given and
  what is on its way up are one run, as long as the worker has sent (`WkrSent`). The second is an
  equality only undisturbed. With a cut SCGI header the head counts wrong, but only too little
  (`Heard + Len(up) <= WkrSent`): it can then wait for ever, but never take a worker for free that
  is not, and so `InStep` needs no exception. `AnswerStep`, `SendStep`, `ReadStep` and `GiveStep`
  are the four ways in which bytes move; each callback is one of them. `NReq` is a bound of
  TLC's only: the theorems are about any number of requests.
* **Resolver and panel, `IInv` of `PanelProofs`.** Its part `Shape` is about the head: names in
  `config.yml` are distinct, the list holds the applications that run, and `Agree` ties the
  routes to the list: the URI and host lists hold the claims of the running applications and no
  others, and the host list is `Sorted` by how specific a host is. `AddAgrees` and `RemoveAgrees`
  say what putting in and taking out an application do to it, and a reload is both. What a
  request's look-up finds is the first entry of a list that matches (`First`, `ResolveIs`);
  `MostSpecific` follows because the list is sorted. `AddMoves` and `RemoveMoves` say which
  requests go elsewhere after a change, which gives `OthersUndisturbed`. The rest is about the
  panel: `Forms` and `Numbers` about what it keeps, `UniqueInFile` (an old form is refused unless
  its place is still the application's, `EditIsInPlace`), `Reserved` (nothing else has the panel's
  base URI), `Waiting` (whoever waits for an application is the panel, for the command it has
  given) and `Answered` (a command that the head has taken has been answered truly, or the
  application starts or reloads with the entry that the file has). The last two need each other:
  while the panel waits, no form changes the file.
* **Folds and lists.** A start of the server folds over the list of applications, and an
  application is put in by a fold over its hosts. `FoldRun` says that `FoldLeft` is the last of
  a sequence of values, each made from the one before, when every step stays in one set; with
  it, induction (`Induct`, from `WellFoundedInduction` for a *set* of numbers, not an operator)
  does the rest. `KeptElements` is the same for a list of what is kept.
* **Analyzer.** `Once(t)` says in the terms of sets that a message is in memory or in one row of
  the table `t` and in no second one, apart from the message under way (`Due`) and from a sample
  that has been written and not yet forgotten (`Writing`), which without preemption nobody
  interrupts; the counting (`CountedOnce`) is the last step. `Struck(t)` is about what a stop does:
  messages counted twice are in two rows and no longer in memory, and the message under way has
  not been struck before. `Periods` bounds the times of what
  is in memory by the period it will be written for.
* **Exceptions, `RecordsInv`.** The analyzer's three steps for one exception are interleaved with
  the panel's; `Handling` says what the analyzer knows at each of them, `Listing` and `Showing`
  what an old page may still show. The record that a pattern finds stays the one it finds, since
  records are only added at the end.

Only model-checked:

* all liveness, which is outside TLAPS. Every invariant and action property of a passing run is
  stated by a theorem, `AtMostMax` and `PoolKept` under the hypotheses given above.

## Not modelled

* The static file server of a worker (`wkr_static.c`): it keeps no state between requests.
* TLS, loggers, the access log, string helpers, YAML parsing, the Ruby runtime, installation
  and the command line: I/O, text and glue. The command line's commands are the administrators
  of `WrHead` and `ByHand` in `Panel`.
* The panel's settings for mail and headers, its login, time slider, graphs and help texts.
* Two workers that share `conf->scgi` while a configuration is written (`wr_application.c:745`):
  two control connections byte by byte are out of TLC's reach in one instance. Pids beyond 16 bits
  (`wr_worker.h:59`) and collisions of the URI hash need instances with that many values.
  Durations (`t_add_timeout.repeat`, `wr_application.c:168`) are abstracted. A worker that stops
  reading while a request is sent (`wr_worker.c:416`), a leaked request of a client that closes in
  mid-request (`wr_connection.c:135`), and a message queue that is full
  (`profiler/message_dispatcher.rb:78`) are in the models or at their border, and the code promises
  nothing about them.
* Third-party code: libev, libebb, libyaml and the JavaScript libraries of the panel.
  Of the JavaScript in the repository (some 14700 lines) only `application.js` is WebROaR's own;
  jQuery, Prototype, script.aculo.us, SWFObject and the jQuery UI slider are shipped unchanged.
  The core of WebROaR is C and Ruby, and that is what the map's lines are about; the share of the
  JavaScript lines that it covers is small, and would remain so if all of `application.js` were
  modelled.

## Plan

Done: queue, pool, head, client connection, control and request connections, resolver and
configuration, panel, analyzer, exceptions, and the theorems above. Left: what the section
"Not modelled" lists.
