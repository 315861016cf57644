------------------------------- MODULE Panel -------------------------------
(***************************************************************************)
(* The administration panel and the server it administers: its forms with  *)
(* their checks in the browser (application.js), the models that write     *)
(* config.yml and the control commands that follow, answered by the head   *)
(* of WrResolver. The panel is itself an application of the server, with   *)
(* one worker: its requests are handled one after the other, and while it  *)
(* waits for the head it handles none.                                     *)
(*                                                                         *)
(*   server    the Server Specification of config.yml                      *)
(*   certs     whether the certificate and key files are on the disk       *)
(*   rows      the table apps of the panel's database                      *)
(*   analyzer  whether the analyzer's process runs                         *)
(*   form      an edit form that is open in some browser: the application  *)
(*             and its place in the file when the form was opened          *)
(*   cmd       the control command the panel has sent and waits for        *)
(*   scene     what the administrators of this behaviour do, and to what   *)
(***************************************************************************)
EXTENDS WrResolver, Integers

(* A scene has the entries that are written, by hand or in the panel, the  *)
(* ports and the numbers of workers that are typed, and what happens       *)
(* besides.                                                                *)
CONSTANT Scenes

Happenings == {"restart", "commands", "analyzer down", "certificate gone"}

ASSUME ScenesAssumption ==
  \A s \in Scenes : /\ s.entries \subseteq Entries /\ s.byhand \in BOOLEAN
                    /\ s.ports \subseteq Nat /\ s.counts \subseteq Nat /\ s.happens \subseteq Happenings

(* More applications than that, and the form would pass for one's own.     *)
ASSUME FewAssumption == IsFiniteSet(Entries) /\ Cardinality(Entries) < 1001

VARIABLES server, certs, rows, analyzer, form, cmd, scene

panelVars == <<server, certs, rows, analyzer, form, cmd, scene>>
allVars == <<vars, panelVars>>

MaxPort == 65535
ALLOWED_MAX_WORKERS == 20
Idle == [op |-> "none", name |-> Nobody, taken |-> FALSE]
NoForm == [name |-> Nobody, id |-> 0]
(* The id in a form that adds an application, get_hash(1000). *)
NoId == 1001
SslOff == [support |-> "", port |-> -1, certificate |-> FALSE]

PanelTypeOK ==
  /\ scene \in Scenes
  /\ server.port \in Nat /\ server.min_worker \in Nat /\ server.max_worker \in Nat
  /\ server.ssl.support \in {"", "enabled", "disabled"}
  /\ server.ssl.support = "enabled" => server.ssl.certificate /\ server.ssl.port \in 1..MaxPort
  /\ rows \subseteq Names /\ certs \in BOOLEAN /\ analyzer \in BOOLEAN
  /\ form.name \in Names \cup {Nobody} /\ form.id \in Nat
  /\ cmd.op \in {"none", "ADD", "REMOVE", "RELOAD"} /\ cmd.name \in Names \cup {Nobody}
  /\ cmd = Idle \/ cmd.name # Nobody
  /\ \A n \in Names : answer[n] = "wait" => cmd.name = n /\ cmd.taken

-----------------------------------------------------------------------------
(* The head at its start. *)

wr_config_server_set(s) ==
  /\ s.port >= 0 /\ s.port <= 65536
  /\ s.min_worker <= ALLOWED_MAX_WORKERS /\ s.max_worker <= ALLOWED_MAX_WORKERS
  /\ s.min_worker <= s.max_worker

(* flag &= (!SERVER_SSL_SUPPORT) clears every flag, the panel's included. *)
SERVER_ADMIN_PANEL(s) ==
  s.ssl.support = "enabled" => certs /\ s.ssl.certificate /\ s.ssl.port <= 65536

(* What the panel writes never names an application, a base URI or a host  *)
(* twice, whatever forms are still open when applications are deleted and  *)
(* added again: the place a form remembers is not the place that is        *)
(* written.                                                                *)
UniqueInFile ==
  scene.byhand \/ \A i, j \in DOMAIN file : i # j =>
    /\ file[i].name # file[j].name
    /\ file[i].uri # NoUri => file[i].uri # file[j].uri
    /\ ToSet(file[i].hosts) \cap ToSet(file[j].hosts) = {}

PanelInit ==
  /\ Init /\ scene \in Scenes /\ ToSet(file) \subseteq scene.entries
  /\ server = [port |-> 3000, min_worker |-> 4, max_worker |-> 8, ssl |-> SslOff]
  /\ certs = TRUE /\ analyzer = TRUE /\ rows = {e.name : e \in ToSet(file)}
  /\ form = NoForm /\ cmd = Idle
  /\ ~scene.byhand => /\ UniqueInFile
                      /\ \A e \in ToSet(file) : e.name \notin TooLong /\ e.uri # AdminPanel.uri

(* The administrator restarts the server; nothing starts when the file is  *)
(* refused.                                                                *)
Restart ==
  /\ "restart" \in scene.happens /\ wr_config_server_set(server)
  /\ UNCHANGED <<file, server, certs, rows, analyzer, form, scene>>
  /\ LET start == wr_app_init(Listed(file, SERVER_ADMIN_PANEL(server)))
     IN  /\ conf' = start.conf /\ app' = start.app
         /\ route' = start.route /\ answer' = start.answer
  /\ cmd' = Idle

-----------------------------------------------------------------------------
(* A request reaches the panel through the resolver, and its worker must   *)
(* be free.                                                                *)
Serves ==
  /\ wr_req_resolve_http_req(route, AdminPanel.uri, <<>>) = AdminPanel.name
  /\ app[AdminPanel.name].state = "active" /\ cmd = Idle

(* application.js *)
validates_value(data, min_range, max_range) == data >= min_range /\ data <= max_range
validate_server_specification(field, data) ==
  CASE field \in {"min_pro_div", "max_pro_div"} -> validates_value(data, 1, 20)
    [] field \in {"port_div", "ssl_port_div"} -> validates_value(data, 1, 65535)
    [] OTHER -> TRUE
validate_ssl(port) == validates_value(port, 1, 65535)

(* The resolver field is not blank. *)
validate_application(e) == e.uri # NoUri \/ e.hosts # <<>>

(* The checks of the model when a form with the place id is saved. *)
Mutant_ensure_validations(e, id) ==
  /\ (e.uri = NoUri) # (e.hosts = <<>>)
  /\ ~wr_chk_host_within_list(e.hosts)
  /\ \A i \in DOMAIN file : i # id => file[i].name # e.name
ensure_validations(e, id) ==
  /\ (e.uri = NoUri) # (e.hosts = <<>>) /\ e.uri # AdminPanel.uri
  /\ IsInjective(e.hosts)
  /\ \A i \in DOMAIN file : i # id =>
       /\ file[i].name # e.name
       /\ e.uri # NoUri => file[i].uri # e.uri
       /\ ToSet(file[i].hosts) \cap ToSet(e.hosts) = {}

Send(op, n) == cmd' = [op |-> op, name |-> n, taken |-> FALSE]

(* SignalHelper.send kills with the pid it has read: with no analyzer it   *)
(* raises, and the rest of the request is not done.                        *)
add_application(e) ==
  /\ Serves /\ validate_application(e) /\ ensure_validations(e, NoId)
  /\ file' = Append(file, e) /\ rows' = rows \cup {e.name}
  /\ IF analyzer THEN Send("ADD", e.name) ELSE UNCHANGED cmd
  /\ UNCHANGED <<conf, app, route, answer, server, certs, analyzer, form, scene>>

delete_application(n) ==
  /\ Serves /\ rows' = rows \ {n}
  /\ IF analyzer
     THEN file' = Without(file, n) /\ Send("REMOVE", n)
     ELSE UNCHANGED <<file, cmd>>
  /\ UNCHANGED <<conf, app, route, answer, server, certs, analyzer, form, scene>>

OpenForm(i) ==
  /\ Serves /\ form' = [name |-> file[i].name, id |-> i]
  /\ UNCHANGED <<vars, server, certs, rows, analyzer, cmd, scene>>

(* get_application_id_from_name *)
PlaceOf(n) == CHOOSE i \in InFile(n) : TRUE

(* The form may be old. A name that is gone ends in an exception before    *)
(* anything is written.                                                    *)
edit_application(e) ==
  /\ Serves /\ form # NoForm /\ e.name = form.name /\ validate_application(e)
  /\ ensure_validations(e, form.id) /\ InFile(e.name) # {}
  /\ file' = [file EXCEPT ![PlaceOf(e.name)] = e]
  /\ Send("RELOAD", e.name) /\ form' = NoForm
  /\ UNCHANGED <<conf, app, route, answer, server, certs, rows, analyzer, scene>>

restart_application(n) ==
  /\ Serves /\ Send("RELOAD", n)
  /\ UNCHANGED <<vars, server, certs, rows, analyzer, form, scene>>
stop_application(n) ==
  /\ Serves /\ Send("REMOVE", n)
  /\ UNCHANGED <<vars, server, certs, rows, analyzer, form, scene>>

-----------------------------------------------------------------------------
(* The command at the head, and its answer. *)
HeadTakes ==
  /\ cmd # Idle /\ ~cmd.taken /\ cmd' = [cmd EXCEPT !.taken = TRUE]
  /\ \/ cmd.op = "ADD" /\ wr_app_add_cb(cmd.name, TRUE)
     \/ cmd.op = "REMOVE" /\ wr_app_remove_cb(cmd.name, TRUE)
     \/ cmd.op = "RELOAD" /\ wr_app_reload_cb(cmd.name, TRUE)
  /\ UNCHANGED <<server, certs, rows, analyzer, form, scene>>

(* The request to the panel ends, and with it the control connection. *)
Over ==
  /\ cmd' = Idle /\ answer' = [answer EXCEPT ![cmd.name] = "none"]
  /\ UNCHANGED <<file, conf, app, route, server, certs, rows, analyzer, form, scene>>

(* send_control reads until the answer is complete, however long that is. *)
Reply == cmd.taken /\ answer[cmd.name] \in {"ok", "past", "error"} /\ Over

(* The head has forgotten the command the panel still waits for. *)
Forgotten == cmd.taken /\ answer[cmd.name] = "lost"

(* While it waits, the panel's worker answers no PING: after idle_time and *)
(* ping_trials the head kills it, its connection goes, and with that       *)
(* app->ctl of an application it started. (A reload is decided before.)    *)
HungUp ==
  /\ cmd.taken /\ (Forgotten \/ (answer[cmd.name] = "wait" /\ app[cmd.name].state = "new"))
  /\ Over

WorkerStarts == (\E n \in Names : WorkerCame(n)) /\ UNCHANGED panelVars

-----------------------------------------------------------------------------
(* The Server Specification. *)
Allowed(field, data) ==
  CASE field = "port_div" -> data > 0 /\ data < 65535
    [] field = "min_pro_div" -> data > 0 /\ data <= ALLOWED_MAX_WORKERS /\ data <= server.max_worker
    [] field = "max_pro_div" -> data > 0 /\ data <= ALLOWED_MAX_WORKERS /\ data >= server.min_worker
    [] field = "ssl_port_div" -> data > 0 /\ data < 65535

Saved(field, data) ==
  CASE field = "port_div" -> [server EXCEPT !.port = data]
    [] field = "min_pro_div" -> [server EXCEPT !.min_worker = data]
    [] field = "max_pro_div" -> [server EXCEPT !.max_worker = data]
    [] field = "ssl_port_div" -> [server EXCEPT !.ssl.port = data]

validate_and_write(field, data) ==
  /\ Serves /\ validate_server_specification(field, data)
  /\ field = "ssl_port_div" => server.ssl.support # ""
  /\ Allowed(field, data) /\ server' = Saved(field, data)
  /\ UNCHANGED <<vars, certs, rows, analyzer, form, cmd, scene>>

(* check_for_ssl_validation looks at the files; its port rule never holds. *)
enable_ssl_support(port) ==
  /\ Serves /\ server.ssl.support # "enabled" /\ validate_ssl(port) /\ certs
  /\ server' = [server EXCEPT !.ssl = [support |-> "enabled", port |-> port, certificate |-> TRUE]]
  /\ UNCHANGED <<vars, certs, rows, analyzer, form, cmd, scene>>

(* It reads the keys certificate, key and port, which nobody writes. *)
disable_ssl_support ==
  /\ Serves /\ server.ssl.support = "enabled"
  /\ server' = [server EXCEPT !.ssl = [SslOff EXCEPT !.support = "disabled"]]
  /\ UNCHANGED <<vars, certs, rows, analyzer, form, cmd, scene>>

CertificateGone ==
  /\ "certificate gone" \in scene.happens /\ certs' = FALSE
  /\ UNCHANGED <<vars, server, rows, analyzer, form, cmd, scene>>

AnalyzerStops ==
  /\ "analyzer down" \in scene.happens /\ analyzer' = FALSE
  /\ UNCHANGED <<vars, server, certs, rows, form, cmd, scene>>

SaveNumber ==
  \/ \E field \in {"port_div", "ssl_port_div"}, d \in scene.ports : validate_and_write(field, d)
  \/ \E field \in {"min_pro_div", "max_pro_div"}, d \in scene.counts : validate_and_write(field, d)

Requests ==
  /\ ~scene.byhand
  /\ \/ \E e \in scene.entries : add_application(e) \/ edit_application(e)
     \/ \E i \in DOMAIN file : OpenForm(i)
     \/ \E n \in Names \ {AdminPanel.name} :
          delete_application(n) \/ restart_application(n) \/ stop_application(n)

(* The administrator writes config.yml in an editor and gives the commands *)
(* of webroar in a shell, at any time.                                     *)
ByHand ==
  /\ UNCHANGED panelVars
  /\ \/ /\ scene.byhand
        /\ \/ \E e \in scene.entries : WriteEntry(e)
           \/ \E n \in Names \ {AdminPanel.name} : DropEntry(n)
     \/ /\ scene.byhand \/ "commands" \in scene.happens
        /\ \E n \in Names \ {AdminPanel.name} : Command(n, FALSE)

PanelNext ==
  \/ Requests \/ ByHand \/ SaveNumber \/ disable_ssl_support \/ CertificateGone \/ AnalyzerStops
  \/ \E port \in scene.ports : enable_ssl_support(port)
  \/ HeadTakes \/ Reply \/ HungUp \/ WorkerStarts \/ Restart

PanelSpec == PanelInit /\ [][PanelNext]_allVars

(* The worker that a command waits for comes, fails or is given up, or the *)
(* reload is (WrHead: Decided).                                            *)
Awaited == cmd.taken /\ WorkerCame(cmd.name) /\ UNCHANGED panelVars

(* The head handles every command, the panel reads every answer, and the   *)
(* idle timer of a worker that never answers runs out (idle_time > 0).     *)
PanelFair ==
  /\ PanelSpec /\ WF_allVars(HeadTakes) /\ WF_allVars(Awaited)
  /\ WF_allVars(Reply) /\ WF_allVars(Forgotten /\ HungUp)

-----------------------------------------------------------------------------
(* When the panel is about to say that an application was started or       *)
(* restarted successfully, it runs as config.yml has it; when it is about  *)
(* to say that it was stopped or deleted, it does not run. Only a command  *)
(* from a shell that comes before the panel has said so ("past") can have  *)
(* changed that.                                                           *)
Honest ==
  (cmd.taken /\ answer[cmd.name] = "ok") =>
    IF cmd.op = "REMOVE" THEN ~Running(cmd.name)
    ELSE InFile(cmd.name) # {} /\ Entry(cmd.name) \in ToSet(conf)

(* "'/admin-panel' is reserved as Admin Panel's base uri.": while the      *)
(* panel runs, requests to it reach it, whatever the panel is used for. An *)
(* application below /admin-panel, which neither the panel nor the head    *)
(* refuses, takes its requests: uri_hash cannot tell the two. (By hand,    *)
(* ADD starts one at /admin-panel itself: base URIs are not compared.)     *)
PanelReachable ==
  (/\ Running(AdminPanel.name)
   /\ \A c \in ToSet(conf) : ~IsStrictPrefix(AdminPanel.uri, c.uri)
   /\ scene.byhand => \A c \in ToSet(conf) : c.uri = AdminPanel.uri => c = AdminPanel) =>
    wr_req_resolve_http_req(route, AdminPanel.uri, <<>>) = AdminPanel.name

(* Every request to the panel ends: its command is answered, or the head   *)
(* forgets it, because another command overtakes it or a worker hangs up   *)
(* under a reload. Then nobody answers, and the panel, which has no        *)
(* timeout (control.rb, send_control), waits until it is killed itself.    *)
PanelResponds ==
  /\ cmd # Idle ~> cmd = Idle \/ Forgotten
  /\ Forgotten ~> cmd = Idle

(* Any order of edits of the Server Specification leaves one with which    *)
(* the server starts again, on a port there is.                            *)
Startable ==
  /\ wr_config_server_set(server) /\ server.port \in 1..MaxPort
  /\ server.ssl.support = "enabled" => server.ssl.port \in 1..MaxPort

(* Whatever is edited, in any order and from old forms, config.yml is one  *)
(* the server starts from, and no two of its applications share a name, a  *)
(* base URI or a host. (One whose name is too long for the head is written *)
(* all the same, and does not start.)                                      *)
FileSound == PanelTypeOK /\ UniqueInFile /\ Startable

(* A command about one application, its success and its failure, changes   *)
(* where a request goes only away from or towards this application.        *)
OthersUndisturbed == [][Undisturbed \/ Restart]_allVars
=============================================================================
