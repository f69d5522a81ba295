----------------------------- MODULE MCSshConnect ----------------------------
(***************************************************************************)
(* Small instances of the SSH connection: an attempt with its               *)
(* configuration and its candidates, two callers and the monitors, and one   *)
(* file that is read over SFTP while it grows.                              *)
(***************************************************************************)
EXTENDS SshConnect, SftpRead

CONSTANTS alice, bob

MCDefaultKeyNames == <<"ed", "rsa">>

Line(key, values) == [key |-> key, values |-> values, number |-> 0]
Numbered(key, n) == [key |-> key, values |-> <<"n">>, number |-> n]

MCWildcards == {"*", "w*"}
MCCovers == {<<"*", h>> : h \in {"h", "web", "db", "10.0.0.1"}} \cup {<<"w*", "web">>}

\* Two files that include each other, one of them also through a link and by
\* a pattern, and one that is not there.
MCConfigFiles ==
    "work" :> << Line("Include", <<"loop">>), Line("Host", <<"web", "w*">>), Line("HostName", <<"10.0.0.1">>),
                 Numbered("Port", 2200), Line("IdentityFile", <<"kweb">>) >>
    @@ "loop" :> << Line("Include", <<"work">>), Line("Host", <<"db">>), Line("IdentityFile", <<"kdb">>),
                    Line("User", <<"data">>) >>
    @@ "link" :> << Line("Include", <<"work">>), Line("Host", <<"db">>), Line("IdentityFile", <<"kdb">>),
                    Line("User", <<"data">>) >>
MCSameFile == "work" :> "work" @@ "loop" :> "loop" @@ "link" :> "loop"
MCGlobFiles == "conf.d/*" :> <<"link", "work">>

Own == << Line("Include", <<"work">>), Line("Include", <<"conf.d/*">>), Line("Include", <<"nowhere">>),
          Line("Host", <<"bare">>), Line("User", <<"nobody">>), Line("Host", <<"h">>), Line("User", <<"root">>),
          Line("IdentityFile", <<"kh">>), Line("Host", <<"*">>), Line("User", <<"all">>) >>

Plain(host, user) == << Line("hostname", <<host>>), Line("user", <<user>>), Numbered("port", 22) >>

Agent(path, listens, answers) == [there |-> TRUE, file |-> path, listens |-> listens, answers |-> answers]
MCAgents ==
    "own" :> Agent("s1", TRUE, <<"rejected">>) @@ "env" :> Agent("s1", TRUE, <<"rejected">>)
    @@ "stale" :> Agent("s2", FALSE, <<>>) @@ "void" :> [Agent("s3", TRUE, <<>>) EXCEPT !.there = FALSE]
    @@ "good" :> Agent("s4", TRUE, <<"rejected", "accepted">>) @@ "lost" :> Agent("s5", TRUE, <<"gone", "accepted">>)
    @@ "a6" :> Agent("s6", TRUE, <<>>) @@ "a7" :> Agent("s7", TRUE, <<"rejected">>) @@ "a8" :> Agent("s8", TRUE, <<>>)

Open == {<<h, n>> : h \in {"h", "10.0.0.1", "db"}, n \in {22, 2200, 2222}}

World == [says |-> "h" :> Plain("h", "me"), late |-> {{}}, system |-> "me", home |-> TRUE, delays |-> {0},
          open |-> Open, silent |-> {}, shakes |-> TRUE, sockets |-> <<>>, agent |-> MCAgents,
          keys |-> "ed" :> "missing", password |-> TRUE, sftp |-> TRUE,
          exec |-> << [kind |-> "data", text |-> <<"srv", "me">>, code |-> 0],
                      [kind |-> "exit", text |-> <<>>, code |-> 0] >>,
          hangs |-> FALSE, projects |-> {}, dies |-> FALSE]

Connect == [NoCall EXCEPT !.op = "connect", !.host = "h"]
WithPassword == [Connect EXCEPT !.method = "password", !.password = TRUE]
Alone(call, world, lines) ==
    [config |-> lines, calls |-> alice :> <<call>> @@ bob :> <<>>, world |-> world, sftp |-> FALSE]

\* Every kind of candidate: an agent under two names, one that is stale, keys
\* named twice, one with a passphrase. The last default key works, or none.
Candidates(last) == Alone(Connect, [World EXCEPT
    !.says = "h" :> Plain("h", "me") \o << Line("identityagent", <<"own">>), Line("identityfile", <<"k1">>),
                                           Line("identityfile", <<"rsa">>) >>,
    !.late = {{}, {"h"}}, !.delays = {0, 2, 100}, !.sockets = <<"env", "stale", "void", "lost">>,
    !.keys = "k1" :> "encrypted" @@ "rsa" :> "rejected" @@ "ed" :> last], <<>>)

\* More agents that hang than their common limit has room for.
ManyAgents == Alone(Connect, [World EXCEPT
    !.delays = {0, 100}, !.sockets = <<"env", "a6", "a7", "a8", "lost", "good">>,
    !.keys = "ed" :> "accepted"], <<>>)
AgentsOnly == Alone([Connect EXCEPT !.method = "agent"], [World EXCEPT
    !.delays = {0, 2, 100}, !.sockets = <<"stale", "env", "good">>], <<>>)

\* What the user typed, and what the configuration and ssh -G say.
Typed(host, port, user, method, key, late, says) == Alone(
    [Connect EXCEPT !.host = host, !.port = port, !.user = user, !.method = method, !.key = key],
    [World EXCEPT !.says = says, !.late = late,
                  !.keys = "kh" :> "rejected" @@ "kweb" :> "accepted" @@ "mine" :> "accepted" @@ "rsa" :> "unreadable"], Own)

Printed == "h" :> Plain("h", "root") \o << Line("identityfile", <<"kh">>) >>
           @@ "web" :> << Line("hostname", <<"10.0.0.1">>), Numbered("port", 2200), Line("user", <<"all">>),
                          Line("identityfile", <<"kweb">>) >>
           @@ "10.0.0.1" :> Plain("10.0.0.1", "all") \o << Line("identityfile", <<"rsa">>) >>

\* Two callers share the connection, which may break.
Linked(first, second, dies) ==
    [config |-> <<>>, world |-> [World EXCEPT !.dies = dies, !.projects = {<<"home", "me">>}], sftp |-> FALSE,
     calls |-> alice :> first @@ bob :> second]
Leave == [NoCall EXCEPT !.op = "disconnect"]
Test == [WithPassword EXCEPT !.op = "test"]

MCScenarios == <<
    Candidates("accepted"), Candidates("rejected"), ManyAgents, AgentsOnly,
    Typed("h", 2222, "me", "password", None, {{}, {"h"}}, Printed),
    Typed("h", 22, None, "auto", None, {{}, {"h"}}, Printed),
    Typed("h", 2222, "me", "key", "mine", {{}, {"h"}}, Printed),
    Typed("web", 2222, "me", "key", "mine", {{}, {"web"}}, Printed),
    Typed("web", 22, None, "auto", None, {{}, {"web"}}, Printed),
    Typed("10.0.0.1", 22, None, "auto", None, {{}, {"10.0.0.1"}, {"10.0.0.1", "web"}}, Printed),
    Typed("db", 22, None, "key", None, {{}}, <<>>),
    Typed("db", 22, None, "auto", None, {{}}, <<>>),
    Typed("bare", 22, None, "auto", None, {{}}, <<>>),
    Alone([Connect EXCEPT !.host = None], World, Own),
    Alone(WithPassword, [World EXCEPT !.open = {}], <<>>),
    Alone(WithPassword, [World EXCEPT !.silent = Open], <<>>),
    Alone(WithPassword, [World EXCEPT !.shakes = FALSE, !.delays = {0, 100}], <<>>),
    Alone(WithPassword, [World EXCEPT !.password = FALSE, !.delays = {0, 2, 100}], <<>>),
    Alone(WithPassword, [World EXCEPT !.sftp = FALSE, !.delays = {0, 5, 100}], <<>>),
    Alone(Connect, [World EXCEPT !.home = FALSE, !.sockets = <<"good">>], <<>>),
    Linked(<<WithPassword, Leave>>, <<WithPassword>>, TRUE),
    Linked(<<WithPassword, WithPassword>>, <<Leave>>, TRUE),
    Linked(<<WithPassword, WithPassword, WithPassword>>, <<>>, TRUE),
    Linked(<<Test>>, <<WithPassword, Test>>, TRUE),
    [Linked(<<Test>>, <<WithPassword, Test>>, FALSE) EXCEPT !.world.password = FALSE],
    [Linked(<<WithPassword>>, <<Leave>>, FALSE) EXCEPT !.world.hangs = TRUE],
    [Linked(<<>>, <<>>, FALSE) EXCEPT !.sftp = TRUE] >>

-----------------------------------------------------------------------------
\* The two do not meet: the last scenario has no calls, and reads the file.
Untouched == file = <<>> /\ read = NoRead

MCInit == Init /\ SftpInit /\ (~scenario.sftp => Untouched)
MCNext ==
    \/ ~scenario.sftp /\ Next /\ UNCHANGED sftpVars
    \/ scenario.sftp /\ SftpNext /\ UNCHANGED vars
MCSpec == MCInit /\ [][MCNext]_<<vars, sftpVars>> /\ Fair
=============================================================================
