------------------------------- MODULE SshAuth --------------------------------
(***************************************************************************)
(* One attempt to reach a host: establish_raw_connection (connect_flow.rs)   *)
(* with the probe (tcp_probe.rs), the discovery of agent sockets             *)
(* (agent_discovery.rs), and the authentication (ssh_auth.rs).              *)
(*                                                                         *)
(* The attempt of a caller is the record dial[p]. Its clock counts seconds   *)
(* from its start; deadline and until are the times at which the whole chain *)
(* and the work with the agents end. An await takes one of the delays of the *)
(* scenario, and a limit that runs out first ends it.                       *)
(*                                                                         *)
(* The world of a scenario: says and late are what ssh -G prints and the     *)
(* sets of hosts it may be late for, system the user of the machine, home    *)
(* whether there is a home directory, open the hosts and ports that answer,  *)
(* silent those that never do, shakes whether the handshake succeeds,        *)
(* sockets the agents of the machine in the order of discovery, agent what   *)
(* each path leads to (there, file, listens, answers), keys what each key    *)
(* file is, password whether it is right, sftp whether there is one, exec     *)
(* what the server writes when it is asked for the home directory, hangs      *)
(* whether it never answers that, projects the homes with sessions, and dies  *)
(* whether connections may break.                                           *)
(***************************************************************************)
EXTENDS SshConfig

CONSTANTS
    Callers,
    Scenarios,
    SSH_G_TIMEOUT, TCP_PROBE_TIMEOUT, CONNECT_TIMEOUT, CONNECT_CHAIN_TIMEOUT,
    AUTH_TIMEOUT, AGENT_CANDIDATE_TIMEOUT, SFTP_OPEN_TIMEOUT,
    DEFAULT_KEY_NAMES,  \* the default keys of the automatic method, in order
    DefaultKey          \* the default of the method with a private key

VARIABLES
    scenario,  \* what the behaviour is about: one of Scenarios
    config,    \* the configuration, read when the manager is made
    dial,      \* the attempt of each caller
    sessions   \* the SSH sessions that were opened, in their order

W == scenario.world

NoCall == [op |-> "none", host |-> None, port |-> DefaultPort, user |-> None, method |-> "auto",
           key |-> None, password |-> FALSE]

Idle == [stage |-> "idle", call |-> NoCall, cfg |-> NoCall, resolved |-> Fallback(None), plan |-> <<>>,
         sockets |-> <<>>, until |-> 0, deadline |-> 0, clock |-> 0, cut |-> FALSE, trace |-> <<>>, tried |-> {},
         result |-> "none", session |-> 0, projects |-> <<>>]

At(p, stage) == dial[p].stage = stage
Becomes(p, d) == dial' = [dial EXCEPT ![p] = d]

\* An await of delay seconds with a limit of its own within the chain's
\* deadline. What is there in time counts before a limit does, and the own
\* limit before the deadline.
Await(d, delay, own) ==
    IF delay <= own /\ d.clock + delay <= d.deadline THEN [at |-> d.clock + delay, end |-> "done"]
    ELSE IF d.clock + own <= d.deadline THEN [at |-> d.clock + own, end |-> "late"]
    ELSE [at |-> d.deadline, end |-> "cut"]

\* The handle of a session that was not handed on is dropped: nothing tells
\* the server.
DropSession(p) ==
    sessions' = IF dial[p].session = 0 THEN sessions
                ELSE [sessions EXCEPT ![dial[p].session].state = "dropped"]

Fails(p, d, why) ==
    /\ Becomes(p, [d EXCEPT !.stage = "failed", !.result = why])
    /\ DropSession(p)

-----------------------------------------------------------------------------
(* Before the chain. *)

Merges(p) ==
    /\ At(p, "merge")
    /\ \E entry \in {Entry(config, dial[p].call.host)}:
       \E cfg \in {MergeWithSshConfig(dial[p].call, entry, W.system)}:
          IF cfg.host = None THEN Fails(p, dial[p], "host")
          ELSE Becomes(p, [dial[p] EXCEPT !.stage = "resolve", !.cfg = cfg]) /\ UNCHANGED sessions
    /\ UNCHANGED <<scenario, config>>

\* ssh -G is asked for the host of the call, not for the merged one.
Resolves(p) ==
    /\ At(p, "resolve")
    /\ \E late \in W.late: \E r \in {ResolveHost(dial[p].call.host, config, W.says, late)}:
          Becomes(p, [dial[p] EXCEPT !.stage = "probe", !.resolved = r.found, !.cfg = MergeResolved(@, r.found),
                                     !.clock = @ + SSH_G_TIMEOUT * Cardinality(r.asked \cap late)])
    /\ UNCHANGED <<scenario, config, sessions>>

ProbeTcp(target) ==
    IF target \in W.silent THEN "silent" ELSE IF target \in W.open THEN "open" ELSE "refused"

Probes(p) ==
    LET d == dial[p]
        answer == ProbeTcp(<<d.cfg.host, d.cfg.port>>)
    IN  /\ At(p, "probe")
        /\ IF answer = "open"
           THEN \E delay \in W.delays:
                  IF delay > TCP_PROBE_TIMEOUT
                  THEN Fails(p, [d EXCEPT !.clock = @ + TCP_PROBE_TIMEOUT], "unreachable")
                  ELSE /\ Becomes(p, [d EXCEPT !.stage = "handshake", !.clock = @ + delay,
                                               !.deadline = d.clock + delay + CONNECT_CHAIN_TIMEOUT])
                       /\ UNCHANGED sessions
           ELSE Fails(p, [d EXCEPT !.clock = @ + IF answer = "silent" THEN TCP_PROBE_TIMEOUT ELSE 0], "unreachable")
        /\ UNCHANGED <<scenario, config>>

-----------------------------------------------------------------------------
(* The chain. *)

NewSession(p) ==
    [by |-> p, state |-> "open", up |-> TRUE, stop |-> FALSE, monitor |-> "none", taken |-> {}, told |-> 0, late |-> FALSE]

Handshakes(p) ==
    LET d == dial[p] IN
    /\ At(p, "handshake")
    /\ \E delay \in W.delays:
        LET a == Await(d, delay, CONNECT_TIMEOUT)
        IN  IF a.end = "done" /\ W.shakes
            THEN /\ Becomes(p, [d EXCEPT !.stage = "discover", !.clock = a.at, !.session = Len(sessions) + 1])
                 /\ sessions' = Append(sessions, NewSession(p))
            ELSE Fails(p, [d EXCEPT !.clock = a.at], IF a.end = "cut" THEN "chain" ELSE "handshake")
    /\ UNCHANGED <<scenario, config>>

\* Of two paths that lead to one socket the first counts.
DedupeByCanonical(paths) ==
    Chosen(paths, {i \in DOMAIN paths: \A j \in 1 .. i - 1: W.agent[paths[j]].file # W.agent[paths[i]].file})

\* The agent of the host's configuration first, then those of the machine.
DiscoverAgentSockets(agent) ==
    LET paths == (IF agent = None THEN <<>> ELSE <<agent>>) \o W.sockets
    IN  DedupeByCanonical(Chosen(paths, {i \in DOMAIN paths: W.agent[paths[i]].there}))

Step(kind, path) == [kind |-> kind, path |-> path]
Steps(kind, paths) == [i \in DOMAIN paths |-> Step(kind, paths[i])] \o <<>>

\* Mutant: the default keys are left out when the host has keys of its own.
PlanAuthStepsOwn(cfg, files, sockets) ==
    CASE cfg.method = "password" -> IF cfg.password THEN <<Step("password", None)>> ELSE <<>>
      [] cfg.method = "key" -> <<Step("key", IF cfg.key # None THEN cfg.key ELSE DefaultKey)>>
      [] OTHER -> (IF sockets = <<>> THEN <<>> ELSE <<Step("agent", None)>>)
                  \o Steps("file", files) \o (IF files = <<>> THEN Steps("default", DEFAULT_KEY_NAMES) ELSE <<>>)

\* plan_auth_candidate_steps, and the one step of every other method.
PlanAuthSteps(cfg, files, sockets) ==
    CASE cfg.method = "password" -> IF cfg.password THEN <<Step("password", None)>> ELSE <<>>
      [] cfg.method = "key" -> IF cfg.key # None THEN <<Step("key", cfg.key)>>
                               ELSE IF W.home THEN <<Step("key", DefaultKey)>> ELSE <<>>
      [] cfg.method = "agent" -> IF sockets = <<>> THEN <<>> ELSE <<Step("agent", None)>>
      [] OTHER -> IF ~W.home THEN <<>>
                  ELSE (IF sockets = <<>> THEN <<>> ELSE <<Step("agent", None)>>)
                       \o Steps("file", files) \o Steps("default", DEFAULT_KEY_NAMES)

Discovers(p) ==
    LET d == dial[p]
        sockets == DiscoverAgentSockets(d.resolved.agent)
    IN  /\ At(p, "discover")
        /\ Becomes(p, [d EXCEPT !.stage = "auth", !.sockets = sockets, !.until = d.clock + AUTH_TIMEOUT,
                                !.plan = PlanAuthSteps(d.cfg, d.resolved.files, sockets)])
        /\ UNCHANGED <<scenario, config, sessions>>

\* What a report names: an agent by its socket, or the file of a key.
Socket(path) == Step("agent", path)
KeyFile(path) == Step("key", path)

Attempt(source, outcome, why) == [source |-> source, outcome |-> outcome, why |-> why]
Recorded(d, source, outcome, why) == [d EXCEPT !.trace = Append(@, Attempt(source, outcome, why))]

NextStep(d) == IF d.plan = <<>> THEN Step("none", None) ELSE d.plan[1]
Passed(d) == [d EXCEPT !.stage = "sftp", !.plan = <<>>]
Rejected(d) == [d EXCEPT !.plan = Tail(@)]
KeyAt(path) == IF path \in DOMAIN W.keys THEN W.keys[path] ELSE "missing"

\* A password, or the one key of the method with a private key.
TriesOnly(p) ==
    LET d == dial[p]
        s == NextStep(d)
        usable == s.kind = "password" \/ KeyAt(s.path) \in {"accepted", "rejected"}
        right  == IF s.kind = "password" THEN W.password ELSE KeyAt(s.path) = "accepted"
    IN  /\ At(p, "auth") /\ s.kind \in {"password", "key"}
        /\ \E delay \in IF usable THEN W.delays ELSE {0}:
            LET a == Await(d, delay, AUTH_TIMEOUT)
                e == [d EXCEPT !.clock = a.at]
            IN  IF a.end = "cut" THEN Fails(p, e, "chain")
                ELSE /\ Becomes(p, IF a.end = "done" /\ usable /\ right THEN Passed(e) ELSE Rejected(e))
                     /\ UNCHANGED sessions
        /\ UNCHANGED <<scenario, config>>

\* try_agent_candidate: the identities one by one, up to one that is accepted
\* or a socket that cannot be reached again.
AgentAccepts(agent) ==
    \E i \in DOMAIN agent.answers:
        agent.answers[i] = "accepted" /\ \A j \in 1 .. i - 1: agent.answers[j] \notin {"accepted", "gone"}

\* do_auth_agent_multi for the next socket. The limit of all the agents ends
\* the step before the one it meets is recorded.
TriesAgent(p) ==
    LET d == dial[p]
        path  == d.sockets[1]
        agent == W.agent[path]
        AllCut(a) == a.at > d.until \/ (a.end = "cut" /\ a.at = d.until)
    IN  /\ At(p, "auth") /\ NextStep(d).kind = "agent"
        /\ \E delay \in IF agent.listens THEN W.delays ELSE {0}:
            LET a == Await(d, delay, AGENT_CANDIDATE_TIMEOUT)
                won == agent.listens /\ AgentAccepts(agent) /\ a.end = "done"
                why == CASE won -> "none" [] a.end = "late" -> "timeout" [] OTHER -> "rejected"
                e == Recorded([d EXCEPT !.clock = a.at, !.sockets = Tail(@)], Socket(path),
                              IF won THEN "used" ELSE "failed", why)
            IN  IF AllCut(a)
                THEN /\ Becomes(p, Rejected([d EXCEPT !.clock = d.until, !.cut = TRUE, !.sockets = <<>>]))
                     /\ UNCHANGED sessions
                ELSE IF a.end = "cut" THEN Fails(p, [d EXCEPT !.clock = a.at], "chain")
                ELSE /\ Becomes(p, IF won THEN Passed(e) ELSE IF e.sockets = <<>> THEN Rejected(e) ELSE e)
                     /\ UNCHANGED sessions
        /\ UNCHANGED <<scenario, config>>

Skips(d, s) == s.path \in d.tried

\* try_key_auth of the next identity file or default key: each path once, and
\* a key with a passphrase never.
TriesKey(p) ==
    LET d == dial[p]
        s == NextStep(d)
        key == KeyAt(s.path)
        online == key \in {"accepted", "rejected"}
    IN  /\ At(p, "auth") /\ s.kind \in {"file", "default"}
        /\ IF Skips(d, s)
           THEN Becomes(p, Rejected(Recorded(d, KeyFile(s.path), "skipped", "duplicate"))) /\ UNCHANGED sessions
           ELSE \E delay \in IF online THEN W.delays ELSE {0}:
                LET a == Await(d, delay, AUTH_TIMEOUT)
                    e == [d EXCEPT !.clock = a.at, !.tried = @ \cup {s.path}]
                IN  /\ IF a.end = "cut" THEN Fails(p, e, "chain")
                       ELSE /\ Becomes(p, IF a.end = "late" THEN Rejected(Recorded(e, KeyFile(s.path), "failed", "timeout")) ELSE
                                 CASE key = "accepted" -> Passed(Recorded(e, KeyFile(s.path), "used", "none"))
                                   [] key = "encrypted" -> Rejected(Recorded(e, KeyFile(s.path), "skipped", "encrypted"))
                                   [] OTHER -> Rejected(Recorded(e, KeyFile(s.path), "failed", key)))
                            /\ UNCHANGED sessions
        /\ UNCHANGED <<scenario, config>>

GivesUp(p) ==
    /\ At(p, "auth") /\ dial[p].plan = <<>>
    /\ Fails(p, dial[p], "auth")
    /\ UNCHANGED <<scenario, config>>

OpensSftp(p) ==
    LET d == dial[p] IN
    /\ At(p, "sftp")
    /\ \E delay \in W.delays:
        LET a == Await(d, delay, SFTP_OPEN_TIMEOUT)
        IN  IF a.end = "done" /\ W.sftp
            THEN Becomes(p, [d EXCEPT !.stage = "raw", !.clock = a.at]) /\ UNCHANGED sessions
            ELSE Fails(p, [d EXCEPT !.clock = a.at], IF a.end = "cut" THEN "chain" ELSE "sftp")
    /\ UNCHANGED <<scenario, config>>

Dials(p) ==
    \/ Merges(p) \/ Resolves(p) \/ Probes(p) \/ Handshakes(p) \/ Discovers(p)
    \/ TriesOnly(p) \/ TriesAgent(p) \/ TriesKey(p) \/ GivesUp(p) \/ OpensSftp(p)
=============================================================================
