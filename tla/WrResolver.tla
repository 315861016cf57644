----------------------------- MODULE WrResolver -----------------------------
(***************************************************************************)
(* The applications of the server and how a request finds its own one:     *)
(* wr_configurator.c reads config.yml, at the start of the server for all  *)
(* applications and at an ADD or RELOAD for one; wr_application.c keeps    *)
(* the list of those that run; wr_resolver.c routes by base URI, by host   *)
(* name, and to the default application.                                   *)
(*                                                                         *)
(*   file    the Application Specification of config.yml                   *)
(*   conf    Config->Application.list                                      *)
(*   app     the state of each application with conf->new, its             *)
(*           configuration while it reloads                                *)
(*   route   server->resolver and server->default_app                      *)
(*   answer  the fate of the panel's last command about an application:    *)
(*           "wait" while app->ctl is its connection, "ok" and "error"     *)
(*           when this was written to it, "lost" when app->ctl no longer   *)
(*           is, with nothing written, "past" when others have commanded   *)
(*           the application since it was "ok"                             *)
(*                                                                         *)
(* A base URI and a request's path are sequences of segments, a host name  *)
(* a sequence of labels. Workers, what they serve and what happens to a    *)
(* request once it has its application is in WrHead.                       *)
(***************************************************************************)
EXTENDS Naturals, Sequences, SequencesExt

CONSTANTS Entries,    \* the applications as an administrator writes them
          Paths,      \* the paths of requests
          HostNames,  \* what a request can have in HTTP_HOST
          TooLong     \* the names that do not fit WR_CONF_MAX_LEN_APP_NAME

Root == <<>>
NoUri == <<"no base URI">>
Nobody == "nobody"
AdminPanel == [name |-> "Admin Panel", uri |-> <<"admin-panel">>, hosts |-> <<>>, ok |-> TRUE]

(* wr_config.h; the numbers are the order in which hosts are tried. *)
HOST_TYPE_STATIC == 1
HOST_TYPE_WILDCARD_IN_START == 2
HOST_TYPE_WILDCARD_IN_END == 4
HOST_TYPE_WILDCARD_IN_START_END == 8
HostTypes == {HOST_TYPE_STATIC, HOST_TYPE_WILDCARD_IN_START, HOST_TYPE_WILDCARD_IN_END,
              HOST_TYPE_WILDCARD_IN_START_END}

IsEntry(e) ==
  /\ DOMAIN e = {"name", "uri", "hosts", "ok"} /\ e.ok \in BOOLEAN
  /\ e.uri \in Seq(ToSet(e.uri)) /\ e.hosts \in Seq(ToSet(e.hosts))
  /\ \A i \in DOMAIN e.hosts : e.hosts[i].type \in HostTypes

(* ok: path, type, analytics, user and the numbers of workers are in order. *)
ASSUME EntriesAssumption == \A e \in Entries : IsEntry(e) /\ e.name \notin {AdminPanel.name, Nobody}

Names == {e.name : e \in Entries} \cup {AdminPanel.name}

VARIABLES file, conf, app, route, answer

vars == <<file, conf, app, route, answer>>

(* The places of a list in their order, and the list with what is at these *)
(* places only.                                                            *)
Ascending(places) ==
  LET n == Cardinality(places)
  IN  CHOOSE f \in [1..n -> places] : \A i, j \in 1..n : i < j => f[i] < f[j]
Kept(list, places) == LET f == Ascending(places) IN [k \in DOMAIN f |-> list[f[k]]]

-----------------------------------------------------------------------------
(* The resolver's lists, as functions from one routing to the next. *)

NoRoute == [uris |-> <<>>, hosts |-> <<>>, dflt |-> Nobody]

(* The hash ends at the first '/': it stands for the first segment. *)
uri_hash(uri) == IF uri = Root THEN "" ELSE Head(uri)

(* A host goes before the first one that is not of a smaller type. *)
InsertHost(hs, h) ==
  LET at == SelectInSeq(hs, LAMBDA x : x.host.type >= h.host.type)
  IN  IF at = 0 THEN Append(hs, h) ELSE InsertAt(hs, at, h)

wr_req_resolver_add(rt, e) ==
  [uris  |-> IF e.uri \in {NoUri, Root} THEN rt.uris
             ELSE <<[hash |-> uri_hash(e.uri), app |-> e.name]>> \o rt.uris,
   hosts |-> FoldLeft(LAMBDA hs, h : InsertHost(hs, [host |-> h, app |-> e.name]),
                      rt.hosts, e.hosts),
   dflt  |-> IF e.uri = Root THEN e.name ELSE rt.dflt]

NotOf(list, n) == Kept(list, {i \in DOMAIN list : list[i].app # n})

Mutant_dflt_lost(rt, n) ==
  [uris  |-> NotOf(rt.uris, n), hosts |-> NotOf(rt.hosts, n), dflt  |-> Nobody]
wr_req_resolver_remove(rt, n) ==
  [uris  |-> NotOf(rt.uris, n), hosts |-> NotOf(rt.hosts, n),
   dflt  |-> IF rt.dflt = n THEN Nobody ELSE rt.dflt]

Matches(host, name) ==
  CASE host.type = HOST_TYPE_STATIC -> host.name = name
    [] host.type = HOST_TYPE_WILDCARD_IN_START -> IsStrictSuffix(host.name, name)
    [] host.type = HOST_TYPE_WILDCARD_IN_END -> IsStrictPrefix(host.name, name)
    [] OTHER -> /\ Len(host.name) < Len(name)
                /\ \E i \in DOMAIN name : IsPrefix(host.name, SubSeq(name, i, Len(name)))

ByUri(rt, path) == SelectInSeq(rt.uris, LAMBDA x : x.hash = uri_hash(path))
ByHost(rt, name) == SelectInSeq(rt.hosts, LAMBDA x : Matches(x.host, name))

wr_req_resolve_http_req(rt, path, name) ==
  IF ByUri(rt, path) # 0 THEN rt.uris[ByUri(rt, path)].app
  ELSE IF ByHost(rt, name) # 0 THEN rt.hosts[ByHost(rt, name)].app ELSE rt.dflt

-----------------------------------------------------------------------------
(* Reading config.yml. *)

wr_config_application_set(e) ==
  e.name \notin TooLong /\ e.ok /\ ((e.uri = NoUri) # (e.hosts = <<>>))

wr_chk_host_within_list(list) ==
  \E i, j \in DOMAIN list : i < j /\ list[i].name = list[j].name

(* list2 is not started again: only the first host of list1 is compared. *)
wr_chk_host_lists(list1, list2) ==
  list1 # <<>> /\ \E i \in DOMAIN list2 : list2[i].name = list1[1].name

wr_remove_app_with_dup_baseuri(list) ==
  Kept(list, {i \in DOMAIN list :
                \/ list[i].uri = NoUri
                \/ /\ list[i].uri # AdminPanel.uri
                   /\ \A j \in 1..(i - 1) : list[j].uri # list[i].uri})

(* In the order of the list: an application that repeats a host goes, and  *)
(* one that shares a host with a later one goes together with that one.    *)
wr_remove_app_with_dup_host(list) ==
  LET Shares(gone, i) ==
        {j \in (i + 1)..Len(list) : j \notin gone
                                    /\ wr_chk_host_lists(list[i].hosts, list[j].hosts)}
      First(js) == {j \in js : \A k \in js : j <= k}
      Gone(gone, i) ==
        IF i \in gone THEN gone
        ELSE IF wr_chk_host_within_list(list[i].hosts) THEN gone \cup {i}
        ELSE IF Shares(gone, i) = {} THEN gone
             ELSE gone \cup {i} \cup First(Shares(gone, i))
      gone == FoldLeft(Gone, {}, [i \in DOMAIN list |-> i])
  IN  Kept(list, DOMAIN list \ gone)

wr_iterate_app_node(f) == Kept(f, {i \in DOMAIN f : wr_config_application_set(f[i])})

wr_conf_read(f) ==
  wr_remove_app_with_dup_host(wr_remove_app_with_dup_baseuri(wr_iterate_app_node(f)))

Without(list, n) == Kept(list, {i \in DOMAIN list : list[i].name # n})
InFile(n) == {i \in DOMAIN file : file[i].name = n}
Entry(n) == file[CHOOSE i \in InFile(n) : TRUE]

(* Whether an ADD or a RELOAD finds the application n in order. Base URIs  *)
(* are not compared: that call is commented out.                           *)
wr_conf_app_read(n) ==
  \/ n = AdminPanel.name
  \/ /\ InFile(n) # {} /\ wr_config_application_set(Entry(n))
     /\ ~wr_chk_host_within_list(Entry(n).hosts)
     /\ \A i \in DOMAIN conf :
          conf[i].name # n => ~wr_chk_host_lists(Entry(n).hosts, conf[i].hosts)
Read(n) == IF n = AdminPanel.name THEN AdminPanel ELSE Entry(n)

-----------------------------------------------------------------------------
Served(a) == [a EXCEPT !.state = "active", !.new = <<>>]
Fresh == [state |-> "new", new |-> <<>>]
Stopped == [state |-> "none", new |-> <<>>]

(* The applications and routes of a server that has read the list.         *)
wr_app_init(list) ==
  [conf   |-> list,
   app    |-> [n \in Names |-> IF n \in {c.name : c \in ToSet(list)} THEN Fresh ELSE Stopped],
   route  |-> FoldLeft(wr_req_resolver_add, NoRoute, list),
   answer |-> [n \in Names |-> "none"]]

(* Without an invalid SSL section the panel is the first of the list. *)
Listed(f, panel) == (IF panel THEN <<AdminPanel>> ELSE <<>>) \o wr_conf_read(f)

Init ==
  /\ \E e, f \in Entries : file \in {<<>>, <<e>>} \cup (IF e.name # f.name THEN {<<e, f>>} ELSE {})
  /\ LET start == wr_app_init(Listed(file, TRUE))
     IN  conf = start.conf /\ app = start.app /\ route = start.route /\ answer = start.answer

Running(n) == app[n].state # "none"

(* A command comes from the panel (mine) or from a shell. One that is not  *)
(* refused takes app->ctl from an earlier one, or removes it with app; the *)
(* earlier one is not told.                                                *)
Unheard(a) == IF a = "wait" THEN "lost" ELSE a
Overtaken(a) == IF a = "ok" THEN "past" ELSE Unheard(a)
Answer(n, mine, what) ==
  answer' = [answer EXCEPT ![n] = IF mine THEN what ELSE Overtaken(@)]

wr_app_insert(n, mine) ==
  /\ conf' = <<Read(n)>> \o conf
  /\ app' = [app EXCEPT ![n] = Fresh]
  /\ route' = wr_req_resolver_add(route, Read(n))
  /\ Answer(n, mine, "wait")

(* STATUS ERROR at once. *)
Refused(n, mine) ==
  /\ answer' = IF mine THEN [answer EXCEPT ![n] = "error"] ELSE answer
  /\ UNCHANGED <<conf, app, route>>

(* ADD of an application that runs is refused as well; when its connection *)
(* is freed, it takes app->ctl with it (wr_ctl_free), be it another's.     *)
Displaced(n, mine) ==
  /\ ~mine /\ Running(n)
  /\ answer' = [answer EXCEPT ![n] = Unheard(@)] /\ UNCHANGED <<conf, app, route>>

(* ADD of an application that does not run, and RELOAD of one. *)
wr_app_add_cb(n, mine) ==
  /\ UNCHANGED file
  /\ IF ~Running(n) /\ wr_conf_app_read(n) THEN wr_app_insert(n, mine)
     ELSE Refused(n, mine) \/ Displaced(n, mine)

wr_app_reload_cb(n, mine) ==
  /\ UNCHANGED file
  /\ IF ~wr_conf_app_read(n) THEN Refused(n, mine)
     ELSE IF ~Running(n) THEN wr_app_insert(n, mine)
     ELSE /\ app' = [app EXCEPT ![n] = [state |-> "restart", new |-> <<Read(n)>>]]
          /\ Answer(n, mine, "wait")
          /\ UNCHANGED <<conf, route>>

wr_app_remove(n) ==
  /\ conf' = Without(conf, n)
  /\ app' = [app EXCEPT ![n] = Stopped]
  /\ route' = wr_req_resolver_remove(route, n)

wr_app_remove_cb(n, mine) ==
  /\ UNCHANGED file
  /\ IF Running(n) THEN wr_app_remove(n) /\ Answer(n, mine, "ok")
     ELSE Refused(n, mine)

Mutant_Tell(n, what) == answer' = IF answer[n] = "wait" THEN [answer EXCEPT ![n] = "ok"] ELSE answer
Mutant_Silent(n, what) == UNCHANGED answer
Tell(n, what) == answer' = IF answer[n] = "wait" THEN [answer EXCEPT ![n] = what] ELSE answer

Mutant_wr_app_reload(n) ==
  LET new == app[n].new[1]
  IN  /\ conf' = [i \in DOMAIN conf |-> IF conf[i].name = n THEN new ELSE conf[i]]
      /\ route' = wr_req_resolver_add(route, new)
(* The old host and URI go before the new ones are put in. The state       *)
(* RESTARTING, which follows, is "active" here.                            *)
wr_app_reload(n) ==
  LET new == app[n].new[1]
  IN  /\ conf' = [i \in DOMAIN conf |-> IF conf[i].name = n THEN new ELSE conf[i]]
      /\ route' = wr_req_resolver_add(wr_req_resolver_remove(route, n), new)

(* The first worker of a start or of a reload registers. *)
wr_app_wkr_insert(n) ==
  /\ app[n].state \in {"new", "restart"}
  /\ IF app[n].state = "restart" THEN wr_app_reload(n) ELSE UNCHANGED <<conf, route>>
  /\ app' = [app EXCEPT ![n] = Served(@)]
  /\ Tell(n, "ok") /\ UNCHANGED file

(* That worker fails: wr_app_wkr_error, wr_app_wkr_add_timeout_cb. *)
wr_app_wkr_error(n) ==
  /\ \/ /\ app[n].state = "restart"
        /\ app' = [app EXCEPT ![n] = Served(@)]
        /\ UNCHANGED <<conf, route>>
     \/ app[n].state = "new" /\ wr_app_remove(n)
  /\ Tell(n, "error") /\ UNCHANGED file

(* A worker of the application hangs up while it reloads, and enough are   *)
(* left: the reload is given up, and nobody is told.                       *)
wr_app_wkr_balance(n) ==
  /\ app[n].state = "restart"
  /\ app' = [app EXCEPT ![n] = Served(@)]
  /\ answer' = [answer EXCEPT ![n] = Unheard(@)]
  /\ UNCHANGED <<file, conf, route>>

Command(n, mine) ==
  wr_app_add_cb(n, mine) \/ wr_app_reload_cb(n, mine) \/ wr_app_remove_cb(n, mine)
WorkerCame(n) == wr_app_wkr_insert(n) \/ wr_app_wkr_error(n) \/ wr_app_wkr_balance(n)

(* config.yml is edited by hand: names stay distinct. *)
WriteEntry(e) ==
  /\ file' = IF InFile(e.name) = {} THEN Append(file, e)
             ELSE [i \in DOMAIN file |-> IF file[i].name = e.name THEN e ELSE file[i]]
  /\ UNCHANGED <<conf, app, route, answer>>
DropEntry(n) ==
  /\ InFile(n) # {} /\ file' = Without(file, n)
  /\ UNCHANGED <<conf, app, route, answer>>

-----------------------------------------------------------------------------
TypeOK ==
  /\ file \in Seq(Entries) /\ conf \in Seq(Entries \cup {AdminPanel})
  /\ \A n \in Names : /\ app[n].state \in {"none", "new", "active", "restart"}
                      /\ app[n].state # "restart" => app[n].new = <<>>
                      /\ app[n].new \in {<<>>} \cup {<<e>> : e \in Entries \cup {AdminPanel}}
                      /\ answer[n] \in {"none", "wait", "ok", "error", "lost", "past"}
  /\ route.dflt \in Names \cup {Nobody}

Claims(c) == {[host |-> c.hosts[i], app |-> c.name] : i \in DOMAIN c.hosts}

(* The resolver's lists hold pointers to applications and to the hosts of  *)
(* their configurations: they are those of the running applications, none  *)
(* of a stopped one and none of a configuration that a reload has freed.   *)
RoutesAgree ==
  /\ {c.name : c \in ToSet(conf)} = {n \in Names : Running(n)}
  /\ ToSet(route.hosts) = UNION {Claims(c) : c \in ToSet(conf)}
  /\ ToSet(route.uris) = {[hash |-> uri_hash(c.uri), app |-> c.name] :
                          c \in {d \in ToSet(conf) : d.uri \notin {NoUri, Root}}}
  /\ route.dflt # Nobody => \E c \in ToSet(conf) : c.name = route.dflt /\ c.uri = Root
  /\ IsInjective(route.uris)

(* "Host name list would be filled in following order": a request that is  *)
(* resolved by its host goes to an application that claims this host, and  *)
(* no other one claims it more specifically, after any starts, reloads and *)
(* removals.                                                               *)
MostSpecific ==
  \A p \in Paths, h \in HostNames :
    (ByUri(route, p) = 0 /\ \E x \in UNION {Claims(c) : c \in ToSet(conf)} : Matches(x.host, h)) =>
       \E x \in UNION {Claims(c) : c \in ToSet(conf)} :
          /\ x.app = wr_req_resolve_http_req(route, p, h) /\ Matches(x.host, h)
          /\ \A y \in UNION {Claims(c) : c \in ToSet(conf)} :
                Matches(y.host, h) => y.host.type >= x.host.type

(* Both: the lists are those of what runs, in the order that matters. *)
RoutesRight == TypeOK /\ RoutesAgree /\ MostSpecific

(* Where requests go changes only away from or towards an application that *)
(* changes itself in this step.                                            *)
Undisturbed ==
  route' # route => \A p \in Paths, h \in HostNames :
    LET before == wr_req_resolve_http_req(route, p, h)
        after == wr_req_resolve_http_req(route', p, h)
    IN  before # after => \E n \in {before, after} \cap Names : app[n] # app'[n]
=============================================================================
