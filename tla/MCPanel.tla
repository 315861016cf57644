------------------------------ MODULE MCPanel ------------------------------
(* Panel in seven scenes: applications by base URI and by host name, both  *)
(* edited in the panel and by hand; an application below the panel's base  *)
(* URI and one whose name is too long; commands from a shell next to the   *)
(* panel's; the Server Specification.                                      *)
EXTENDS Panel

AtUri(n, u) == [name |-> n, uri |-> u, hosts |-> <<>>, ok |-> TRUE]
ByHosts(n, hs) == [name |-> n, uri |-> NoUri, hosts |-> hs, ok |-> TRUE]
Host(t, name) == [type |-> t, name |-> name]

www == Host(HOST_TYPE_STATIC, <<"www", "one", "com">>)
anyOne == Host(HOST_TYPE_WILDCARD_IN_START, <<"one", "com">>)
wwwAny == Host(HOST_TYPE_WILDCARD_IN_END, <<"www">>)
one == Host(HOST_TYPE_WILDCARD_IN_START_END, <<"one">>)

UriEntries ==
  {AtUri("a", Root), AtUri("a", <<"x">>), AtUri("b", Root),
   [AtUri("b", <<"x">>) EXCEPT !.ok = FALSE], AtUri("b", AdminPanel.uri)}
HostEntries ==
  {ByHosts("a", <<www>>), ByHosts("b", <<www>>), AtUri("a", <<"x">>)}
HandUriEntries ==
  {AtUri("a", Root), AtUri("b", Root), [AtUri("b", <<"x">>) EXCEPT !.hosts = <<www>>]}
HandHostEntries ==
  {ByHosts("a", <<wwwAny, www>>), ByHosts("b", <<one, anyOne>>), ByHosts("b", <<one, www>>),
   ByHosts("b", <<www, www>>)}
BelowEntries == {AtUri("b", <<"admin-panel", "x">>), AtUri("c", <<"y">>)}
ShellEntries == {AtUri("a", Root), AtUri("a", <<"x">>), AtUri("b", <<"x">>)}

Quiet == [entries |-> {}, byhand |-> FALSE, ports |-> {}, counts |-> {}, happens |-> {}]
MCScenes ==
  {[Quiet EXCEPT !.entries = UriEntries, !.happens = {"restart"}],
   [Quiet EXCEPT !.entries = HostEntries, !.happens = {"analyzer down"}],
   [Quiet EXCEPT !.entries = BelowEntries, !.happens = {"restart"}],
   [Quiet EXCEPT !.entries = ShellEntries, !.happens = {"commands"}],
   [Quiet EXCEPT !.entries = HandUriEntries, !.byhand = TRUE],
   [Quiet EXCEPT !.entries = HandHostEntries, !.byhand = TRUE],
   [Quiet EXCEPT !.ports = {0, 1, 65534, 65535, 65536}, !.counts = {0, 1, 2, 20, 21},
                 !.happens = {"restart", "certificate gone"}]}
MCEntries == UNION {s.entries : s \in MCScenes}
MCPaths == {Root, <<"x", "z">>}
MCHosts == {<<"www", "one", "com">>, <<"img", "one", "com">>, <<"www", "two", "org">>}
=============================================================================
