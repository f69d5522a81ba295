------------------------------ MODULE SshConnect ------------------------------
(***************************************************************************)
(* The one connection of SshConnectionManager (ssh_connection/mod.rs): the   *)
(* calls that make, test and drop it, and the health monitors.              *)
(*                                                                         *)
(* connect and disconnect hold the manager's lock for writing, test and the  *)
(* questions for reading. The slot of the connection has a lock of its own,   *)
(* which nobody holds across an await; the monitors take only that one.      *)
(* slot is the session that is connected, 0 when there is none. A session     *)
(* has a state: open while its attempt works on it, held in the slot, taken   *)
(* out of it, disposed (its SFTP is closed), gone, or dropped.               *)
(***************************************************************************)
EXTENDS SshAuth

CONSTANT MaxSessions  \* bound: the sessions a behaviour opens

Nobody == "nobody"

\* A call from the window: the settings of a connection, or none that matter.
Call == [op : {"connect", "disconnect", "test"}, host : STRING, port : Nat, user : STRING,
         method : {"auto", "agent", "key", "password"}, key : STRING, password : BOOLEAN]

\* The calls of a scenario, by their numbers.
CallsOf(s) == UNION {{p} \X (1 .. Len(s.calls[p])) : p \in Callers}

ASSUME ConnectAssumption ==
    /\ Nobody \notin Callers
    /\ IsFiniteSet(Callers) /\ \A p \in Callers: p \notin Nat
    /\ \A i \in DOMAIN Scenarios:
          /\ Scenarios[i].config \in Seq(ConfigLine)
          /\ Scenarios[i].calls \in [Callers -> Seq(Call)]
          /\ Cardinality(CallsOf(Scenarios[i])) <= MaxSessions
          /\ Scenarios[i].world.delays \subseteq Nat
          /\ Scenarios[i].world.sockets \in Seq(STRING)
          /\ \A h \in DOMAIN Scenarios[i].world.says: Scenarios[i].world.says[h] \in Seq(ConfigLine)
    /\ MaxSessions \in Nat
    /\ DEFAULT_KEY_NAMES \in Seq(STRING)
    /\ AGENT_CANDIDATE_TIMEOUT # 0
    /\ {SSH_G_TIMEOUT, TCP_PROBE_TIMEOUT, CONNECT_TIMEOUT, CONNECT_CHAIN_TIMEOUT, AUTH_TIMEOUT,
        AGENT_CANDIDATE_TIMEOUT, SFTP_OPEN_TIMEOUT} \subseteq Nat

VARIABLES
    slot,    \* SshConnectionManager.connection
    writer,  \* who holds the manager's lock for writing
    readers, \* who holds it for reading
    todo,    \* the calls each caller has not made
    status,  \* the last status that was broadcast
    tangled  \* a monitor's work met that of a caller (history)

linkVars == <<slot, writer, readers, todo, status, tangled>>
vars == <<scenario, config, dial, sessions, linkVars>>

Ids == DOMAIN sessions
Says(state, id) == status' = [state |-> state, session |-> id]

\* A monitor that claimed a connection has not told so yet.
Cleaning == \E i \in Ids: sessions[i].monitor \in {"dispose", "bye"}
Ends(p) == Becomes(p, [dial[p] EXCEPT !.stage = "idle"])

-----------------------------------------------------------------------------
(* connect and disconnect. *)

Calls(p) ==
    /\ At(p, "idle") /\ todo[p] # <<>>
    /\ writer = Nobody
    /\ LET call == todo[p][1]
       IN  /\ IF call.op = "test" THEN readers' = readers \cup {p} /\ UNCHANGED writer
              ELSE readers = {} /\ writer' = p /\ UNCHANGED readers
           /\ Becomes(p, [Idle EXCEPT !.call = call, !.stage = IF call.op = "test" THEN "merge" ELSE "take"])
    /\ todo' = [todo EXCEPT ![p] = Tail(@)]
    /\ UNCHANGED <<scenario, config, sessions, slot, status, tangled>>

Taken(by) == slot' = 0

\* take() of the connection; its monitor is told to stop. One that is past its
\* sleep at this moment does not hear it, and is late (history).
Takes(p) ==
    /\ At(p, "take")
    /\ Taken(p)
    /\ sessions' = IF slot = 0 THEN sessions
                   ELSE [sessions EXCEPT ![slot].state = "taken", ![slot].taken = @ \cup {p}, ![slot].stop = TRUE,
                                         ![slot].late = sessions[slot].monitor \in {"check", "probe", "lost"}]
    /\ Becomes(p, [dial[p] EXCEPT !.stage = IF slot = 0 THEN "free" ELSE "dispose", !.session = slot])
    /\ UNCHANGED <<scenario, config, writer, readers, todo, status, tangled>>

Disposes(p) ==
    /\ At(p, "dispose")
    /\ sessions' = [sessions EXCEPT ![dial[p].session].state = "disposed"]
    /\ Becomes(p, [dial[p] EXCEPT !.stage = "bye"])
    /\ UNCHANGED <<scenario, config, linkVars>>

Disconnects(p) ==
    /\ At(p, "bye")
    /\ sessions' = [sessions EXCEPT ![dial[p].session].state = "gone", ![dial[p].session].told = @ + 1]
    /\ Says("disconnected", dial[p].session)
    /\ Becomes(p, [dial[p] EXCEPT !.stage = "free", !.session = 0])
    /\ UNCHANGED <<scenario, config, slot, writer, readers, todo, tangled>>

\* A disconnect is done; a connect says that it starts, and starts.
Proceeds(p) ==
    /\ At(p, "free")
    /\ IF dial[p].call.op = "disconnect"
       THEN /\ Ends(p) /\ writer' = Nobody
            /\ UNCHANGED status
       ELSE /\ Becomes(p, [dial[p] EXCEPT !.stage = "merge"])
            /\ Says("connecting", 0)
            /\ UNCHANGED writer
    /\ UNCHANGED <<scenario, config, sessions, slot, readers, todo, tangled>>

Dialing(p) == Dials(p) /\ UNCHANGED linkVars

\* Mutant: a connect that failed keeps the manager's lock.
ReportsFailureLocked(p) ==
    /\ At(p, "failed")
    /\ Ends(p)
    /\ IF dial[p].call.op = "connect" THEN Says("error", 0) /\ UNCHANGED readers
       ELSE readers' = readers \ {p} /\ UNCHANGED status
    /\ UNCHANGED <<scenario, config, sessions, slot, writer, todo, tangled>>

\* The answer of a call that failed; a connect also broadcasts it.
ReportsFailure(p) ==
    /\ At(p, "failed")
    /\ Ends(p)
    /\ IF dial[p].call.op = "connect"
       THEN Says("error", 0) /\ writer' = Nobody /\ UNCHANGED readers
       ELSE readers' = readers \ {p} /\ UNCHANGED <<writer, status>>
    /\ UNCHANGED <<scenario, config, sessions, slot, todo, tangled>>

EndsTest(p) ==
    /\ At(p, "raw") /\ dial[p].call.op = "test"
    /\ sessions' = [sessions EXCEPT ![dial[p].session].state = "gone"]
    /\ Ends(p)
    /\ readers' = readers \ {p}
    /\ UNCHANGED <<scenario, config, slot, writer, todo, status, tangled>>

-----------------------------------------------------------------------------
(* build_connected_bundle: nothing limits the time it takes.                *)

\* exec_remote_command: what the command wrote, or an error when it did not
\* end with status 0. A message is data of one of the two streams, or the end.
ExecRemote(messages) ==
    LET data == SelectSeq(messages, LAMBDA m: m.kind = "data")
        ends == SelectSeq(messages, LAMBDA m: m.kind = "exit")
    IN  [ok |-> ends # <<>> /\ ends[Len(ends)].code = 0, out |-> FlattenSeq([i \in DOMAIN data |-> data[i].text])]

\* The first home that has sessions, or the home the server names.
RemoteProjects(home, user) ==
    LET places == SelectSeq(<<home, <<"home", user>>, <<"Users", user>>, <<"root">>>>, LAMBDA h: h \in W.projects)
    IN  IF places = <<>> THEN home ELSE places[1]

HomeOf(user) ==
    LET r == ExecRemote(W.exec) IN IF r.ok /\ r.out # <<>> THEN r.out ELSE <<"home", user>>

\* The connection is stored, with its monitor. A server that says nothing any
\* more keeps the call, and the manager's lock, for good.
Stores(p) ==
    LET id == dial[p].session IN
    /\ At(p, "raw") /\ dial[p].call.op = "connect"
    /\ ~W.hangs
    /\ slot' = id
    /\ sessions' = [i \in Ids |->
                       IF i = id THEN [sessions[i] EXCEPT !.state = "held", !.monitor = "sleep"]
                       ELSE IF i = slot THEN [sessions[i] EXCEPT !.state = "dropped"]
                       ELSE sessions[i]]
    /\ Becomes(p, [dial[p] EXCEPT !.stage = "stored", !.projects = RemoteProjects(HomeOf(dial[p].cfg.user), dial[p].cfg.user)])
    /\ UNCHANGED <<scenario, config, writer, readers, todo, status, tangled>>

Connected(p) ==
    /\ At(p, "stored")
    /\ Says("connected", dial[p].session)
    /\ Ends(p)
    /\ writer' = Nobody
    /\ UNCHANGED <<scenario, config, sessions, slot, readers, todo, tangled>>

-----------------------------------------------------------------------------
(* The health monitors. *)

Goes(i, stage) == sessions' = [sessions EXCEPT ![i].monitor = stage]

\* Mutant: a monitor that slept does not look whether it was told to stop.
WakesAnyway(i) == sessions[i].monitor = "sleep" /\ Goes(i, "check")

\* The interval is over, or the signal to stop came. A connection that is gone
\* took its end of the signal with it, which wakes its monitor as well.
Wakes(i) ==
    /\ sessions[i].monitor = "sleep"
    /\ \/ ~sessions[i].stop /\ Goes(i, "check")
       \/ (sessions[i].stop \/ sessions[i].state \in {"gone", "dropped"}) /\ Goes(i, "done")

\* The session of whatever connection there is may be known to be closed.
Checks(i) ==
    /\ sessions[i].monitor = "check"
    /\ IF slot = 0 THEN Goes(i, "done")
       ELSE \/ Goes(i, "probe")
            \/ ~sessions[slot].up /\ Goes(i, "lost")

\* metadata("/") over its own SFTP, which fails when that is closed or dead,
\* and may fail otherwise, at the latest after HEALTH_CHECK_TIMEOUT: any error
\* counts as the end.
ProbesSftp(i) ==
    /\ sessions[i].monitor = "probe"
    /\ \/ sessions[i].up /\ sessions[i].state \in {"held", "taken"} /\ Goes(i, "sleep")
       \/ Goes(i, "lost")

Watches(i) ==
    /\ Wakes(i) \/ Checks(i) \/ ProbesSftp(i)
    /\ UNCHANGED <<scenario, config, dial, linkVars>>

\* take() of whatever connection there is; nobody tells its monitor, which is
\* late too when it is another one (history). A session remembers who took it,
\* a monitor by its session.
Claims(i) ==
    /\ sessions[i].monitor = "lost"
    /\ Taken(i)
    /\ IF slot = 0 THEN Goes(i, "done")
       ELSE sessions' = [sessions EXCEPT ![i].monitor = "dispose", ![slot].state = "taken", ![slot].taken = @ \cup {i},
                                         ![slot].late = slot # i]
    /\ tangled' = (tangled \/ (slot # 0 /\ (slot # i \/ writer # Nobody)))
    /\ UNCHANGED <<scenario, config, dial, writer, readers, todo, status>>

\* The connection it took: the one that has it among its takers.
Claimed(i) == CHOOSE j \in Ids: i \in sessions[j].taken

ClosesSftp(i) ==
    /\ sessions[i].monitor = "dispose"
    /\ sessions' = [sessions EXCEPT ![i].monitor = "bye", ![Claimed(i)].state = "disposed"]
    /\ UNCHANGED <<scenario, config, dial, linkVars>>

TellsLoss(i) ==
    /\ sessions[i].monitor = "bye"
    /\ sessions' = [sessions EXCEPT ![i].monitor = "done", ![Claimed(i)].state = "gone", ![Claimed(i)].told = @ + 1]
    /\ Says("disconnected", Claimed(i))
    /\ tangled' = (tangled \/ writer # Nobody \/ slot # 0)
    /\ UNCHANGED <<scenario, config, dial, slot, writer, readers, todo>>

\* The server or the network goes away.
Dies(i) ==
    /\ W.dies /\ sessions[i].up /\ sessions[i].state = "held"
    /\ sessions' = [sessions EXCEPT ![i].up = FALSE]
    /\ UNCHANGED <<scenario, config, dial, linkVars>>

-----------------------------------------------------------------------------
Init ==
    /\ \E i \in DOMAIN Scenarios: scenario = Scenarios[i]
    /\ config = Parser(scenario.config)
    /\ dial = [p \in Callers |-> Idle]
    /\ sessions = <<>>
    /\ slot = 0
    /\ writer = Nobody /\ readers = {}
    /\ todo = scenario.calls
    /\ status = [state |-> "disconnected", session |-> 0]
    /\ tangled = FALSE

CallerStep(p) ==
    \/ Calls(p) \/ Takes(p) \/ Disposes(p) \/ Disconnects(p) \/ Proceeds(p) \/ Dialing(p)
    \/ ReportsFailure(p) \/ EndsTest(p) \/ Stores(p) \/ Connected(p)

MonitorStep(i) == i \in Ids /\ (Watches(i) \/ Claims(i) \/ ClosesSftp(i) \/ TellsLoss(i))

Next ==
    \/ \E p \in Callers: CallerStep(p)
    \/ \E i \in Ids: MonitorStep(i) \/ Dies(i)

Spec == Init /\ [][Next]_vars

\* Tokio runs what can run: the callers go on, the monitors sleep and wake.
\* Nothing makes a server answer or a network break.
Fair == (\A p \in Callers: WF_vars(CallerStep(p))) /\ (\A i \in 1 .. MaxSessions: WF_vars(MonitorStep(i)))

-----------------------------------------------------------------------------
(* What holds of the attempts. *)

Stages == {"idle", "take", "dispose", "bye", "free", "merge", "resolve", "probe", "handshake", "discover", "auth",
           "sftp", "raw", "stored", "failed"}

\* The attempts, the sessions and the locks have their types; a caller that
\* works holds one of the locks.
TypeOK ==
    /\ \A p \in Callers:
          /\ dial[p].stage \in Stages /\ dial[p].clock \in Nat /\ dial[p].session \in 0 .. Len(sessions)
          /\ ~At(p, "idle") => IF dial[p].call.op = "test" THEN p \in readers ELSE writer = p
    /\ slot \in 0 .. Len(sessions)
    /\ Len(sessions) <= MaxSessions
    /\ writer # Nobody => readers = {}

Place(source) == IF source.kind = "agent" THEN Socket(W.agent[source.path].file) ELSE source
Entries(p) == ToSet(dial[p].trace)
Reported(p, source) == {e \in Entries(p): e.source = source}

\* No key and no agent is offered twice, whatever names ssh -G, the
\* environment and the defaults give it: a server counts the offers.
NothingOfferedTwice ==
    \A p \in Callers: \A i, j \in DOMAIN dial[p].trace:
        i < j /\ Place(dial[p].trace[i].source) = Place(dial[p].trace[j].source) => dial[p].trace[j].why = "duplicate"

Agents(d) == IF d.cfg.method \in {"agent", "auto"} THEN ToSet(DiscoverAgentSockets(d.resolved.agent)) ELSE {}
Keys(d) == IF d.cfg.method = "auto" /\ W.home THEN ToSet(d.resolved.files) \cup ToSet(DEFAULT_KEY_NAMES) ELSE {}

\* An authentication that fails has tried all that would have worked: a key or
\* an agent the server accepts can only have been too late itself. One dead
\* socket takes no more than its share; only when all the agents together use
\* up their time are some left out, and then those tried were many.
WhatWorksIsTried ==
    \A p \in Callers: dial[p].result = "auth" =>
        LET d == dial[p]
            TooLate(source) == \E e \in Reported(p, source): e.why = "timeout"
        IN  /\ \A k \in Keys(d): KeyAt(k) = "accepted" => TooLate(KeyFile(k))
            /\ \A a \in Agents(d): W.home /\ W.agent[a].listens /\ AgentAccepts(W.agent[a]) => TooLate(Socket(a)) \/ d.cut
            /\ d.cut => Cardinality({a \in Agents(d): Reported(p, Socket(a)) # {}}) >= AUTH_TIMEOUT \div AGENT_CANDIDATE_TIMEOUT

\* The report of a failed authentication names every key and every agent of
\* the plan, but for the agents their common limit left out.
FailureTellsAll ==
    \A p \in Callers: dial[p].result = "auth" =>
        /\ \A k \in Keys(dial[p]): Reported(p, KeyFile(k)) # {}
        /\ W.home => \A a \in Agents(dial[p]): Reported(p, Socket(a)) # {} \/ dial[p].cut

\* However many candidates hang, an attempt ends within the two runs of
\* ssh -G, the probe and the chain's limit.
AttemptIsBounded ==
    \A p \in Callers:
        /\ dial[p].clock <= 2 * SSH_G_TIMEOUT + TCP_PROBE_TIMEOUT + CONNECT_CHAIN_TIMEOUT
        /\ dial[p].deadline > 0 => dial[p].clock <= dial[p].deadline

Resolved(p) == dial[p].stage \notin {"idle", "take", "dispose", "bye", "free", "merge", "resolve"} /\ dial[p].result # "host"

\* What the user typed survives the entry and ssh -G: the name, the key and a
\* method other than the automatic one always, the port when ssh -G did not
\* answer.
TypedSettingsKept ==
    \A p \in Callers: Resolved(p) =>
        LET call == dial[p].call
            cfg  == dial[p].cfg
        IN  /\ call.user # None => cfg.user = call.user
            /\ call.key # None => cfg.key = call.key
            /\ call.method # "auto" => cfg.method = call.method
            /\ dial[p].resolved.fallback /\ call.port # DefaultPort => cfg.port = call.port

\* The lines between Host lines that name one of the hosts, in any file.
KeysInBlocksOf(text, hosts) ==
    UNION {ToSet(text[i].values) : i \in
        {j \in DOMAIN text: /\ text[j].key = "IdentityFile"
                            /\ \E h \in 1 .. j: /\ IsHost(text[h]) /\ \A k \in h + 1 .. j: ~IsHost(text[k])
                                               /\ \E a \in hosts: Names(text[h], a)}}
KeysPrintedFor(hosts) == UNION {ToSet(ParseSshG(W.says[h]).files) : h \in hosts \cap DOMAIN W.says}

\* The keys offered to a host are its own: ssh -G printed them for the host or
\* for an alias of it, its block names them, the user did, or they are the
\* defaults. A key of another host is never shown to this one.
KeysAreOfTheHost ==
    \A p \in Callers: dial[p].stage \in {"raw", "failed"} =>
        LET d     == dial[p]
            hosts == {d.call.host} \cup ToSet(AliasesOf(config, d.call.host))
            own   == KeysInBlocksOf(config.text, hosts) \cup KeysPrintedFor(hosts) \cup ToSet(DEFAULT_KEY_NAMES)
        IN  /\ \A e \in Entries(p): e.source.kind = "key" => e.source.path \in own
            /\ d.cfg.key \in own \cup {None, d.call.key}

Includes(lines) == {f \in DOMAIN ConfigFiles:
                       \E i \in DOMAIN lines: /\ lines[i].key = "Include"
                                             /\ \/ lines[i].values[1] = f
                                                \/ lines[i].values[1] \in DOMAIN GlobFiles
                                                   /\ f \in ToSet(GlobFiles[lines[i].values[1]])}
Reachable(files) ==
    LET Within[n \in Nat] ==
            IF n = 0 THEN files
            ELSE LET nearer == Within[n - 1] IN nearer \cup UNION {Includes(ConfigFiles[f]) : f \in nearer}
    IN  Within[Cardinality(DOMAIN ConfigFiles)]

\* In the configuration that a call merges every file it includes, over any
\* number of files, counts once, also when it is named twice, through a link,
\* or by itself.
EachFileOnce == (\E p \in Callers: At(p, "merge")) =>
    LET files == {SameFile[f] : f \in Reachable(Includes(scenario.config))}
        Plain(lines) == Len(SelectSeq(lines, LAMBDA l: l.key # "Include"))
    IN  Plain(config.text) = Plain(scenario.config) + MapThenSumSet(LAMBDA f: Plain(ConfigFiles[f]), files)

-----------------------------------------------------------------------------
(* What holds of the connection. *)

AtRest == ~Cleaning /\ \A p \in Callers: At(p, "idle")

\* At rest every session is the connection, was disconnected, or belonged to
\* an attempt that failed: no connection was ever overwritten, and a test
\* leaves nothing open.
NoSessionLeftBehind ==
    /\ \A i \in Ids: sessions[i].state = "dropped" => sessions[i].monitor = "none"
    /\ AtRest => \A i \in Ids: sessions[i].state \in {"gone", "dropped"} \/ (sessions[i].state = "held" /\ slot = i)

\* A connection is cleaned up by one, the call or a monitor, and told once.
ReleasedOnce ==
    \A i \in Ids: /\ Cardinality(sessions[i].taken) <= 1
                  /\ sessions[i].told <= Cardinality(sessions[i].taken)
                  /\ slot = i => sessions[i].state = "held"

\* A monitor that closes the connection of another session was past its sleep
\* when its own was taken away, or another monitor took that without a word: a
\* disconnect or a new connect stops all the monitors that sleep.
MonitorClosesOwn ==
    \A i \in Ids: \A j \in Ids \cap sessions[i].taken: j # i => sessions[j].late

\* The last status tells what the slot holds, unless a monitor cleaned up
\* while somebody connected.
StatusTellsSlot ==
    AtRest /\ ~tangled => (status.state = "connected") = (slot # 0) /\ (slot # 0 => status.session = slot)

\* A connection whose server is gone does not stay the connection.
DeadIsNoticed == (slot # 0 /\ ~sessions[slot].up) ~> (slot = 0 \/ sessions[slot].up)

\* All the calls are made and end, whatever hangs on the way to a session.
\* Only what follows has no limit, and then all the others wait for good.
CallsEnd ==
    <>(\/ \A p \in Callers: todo[p] = <<>> /\ At(p, "idle")
       \/ W.hangs /\ \E p \in Callers: At(p, "raw"))

\* An authentication does all it can in the time it has, once, and says so.
AttemptsAreSound ==
    TypeOK /\ NothingOfferedTwice /\ WhatWorksIsTried /\ FailureTellsAll /\ AttemptIsBounded

\* What is dialled is what was typed, with the keys of that host only.
HostIsTheTyped == TypedSettingsKept /\ KeysAreOfTheHost

\* Every connection has one owner and one end, and the status tells of it.
ConnectionIsOwned == NoSessionLeftBehind /\ ReleasedOnce /\ MonitorClosesOwn /\ StatusTellsSlot

\* Calls end, and so does a connection whose server is gone.
ConnectionGoesOn == DeadIsNoticed /\ CallsEnd
=============================================================================
