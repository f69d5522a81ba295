------------------------------ MODULE Ssh_proofs ------------------------------
(***************************************************************************)
(* Proofs about the remote side: SshConnect, SshPolling and SftpRead.       *)
(*                                                                         *)
(* Every session has one owner and one end, and the status tells of it. An  *)
(* attempt ends within its limits, tries what works, offers nothing twice   *)
(* and only the keys of its host, and keeps what was typed. What the        *)
(* watcher sends adds up to what it tracks, and it reports as removed only  *)
(* what is gone. What is read over SFTP is whole, and enough.               *)
(***************************************************************************)
EXTENDS SshConnect, SshPolling, SftpRead, ListLemmas, TLAPS

DialFields == {"stage", "call", "cfg", "resolved", "plan", "sockets", "until", "deadline", "clock", "cut",
               "trace", "tried", "result", "session", "projects"}

SessionSet == [by : Callers, state : {"open", "held", "taken", "disposed", "gone", "dropped"}, up : BOOLEAN,
               stop : BOOLEAN, monitor : {"none", "sleep", "check", "probe", "lost", "dispose", "bye", "done"},
               taken : SUBSET (Callers \cup Nat), told : Nat, late : BOOLEAN]

\* An attempt that has a session of its own, and one that has none yet.
Early == {"free", "merge", "resolve", "probe", "handshake"}
Chain == {"discover", "auth", "sftp", "raw"}

-----------------------------------------------------------------------------
(* The invariants. *)

TypeInv ==
    /\ scenario \in {Scenarios[k] : k \in DOMAIN Scenarios}
    /\ sessions \in Seq(SessionSet)
    /\ DOMAIN dial = Callers
    /\ \A p \in Callers: /\ DOMAIN dial[p] = DialFields
                         /\ dial[p].stage \in Stages
                         /\ dial[p].session \in 0 .. Len(sessions)
                         /\ dial[p].stage # "idle" => dial[p].call \in Call
    /\ todo \in [Callers -> Seq(Call)]
    /\ slot \in 0 .. Len(sessions)
    /\ tangled \in BOOLEAN

\* Who works holds the lock, for writing unless it only tests.
LockInv ==
    /\ writer \in Callers \cup {Nobody}
    /\ writer # Nobody => readers = {}
    /\ \A p \in Callers: dial[p].stage # "idle" =>
          IF dial[p].call.op = "test" THEN p \in readers ELSE writer = p
    /\ \A p \in Callers: dial[p].stage \notin {"idle", "take", "dispose", "bye", "free"} => dial[p].call.op # "disconnect"
    /\ \A p \in Callers: p = writer => dial[p].stage # "idle" /\ dial[p].call.op # "test"
    /\ \A p \in Callers: dial[p].stage \in {"take", "dispose", "bye", "free", "stored"} => dial[p].call.op # "test"
    /\ \A p \in Callers: p = writer /\ dial[p].stage \notin {"take", "stored"} => slot = 0

\* What an attempt has of the sessions.
Attempting(p) ==
    /\ dial[p].stage \in Early => dial[p].session = 0
    /\ dial[p].stage \in Chain => /\ dial[p].session # 0
                                  /\ sessions[dial[p].session].by = p
                                  /\ sessions[dial[p].session].state = "open"
    /\ dial[p].stage = "dispose" => /\ dial[p].session # 0
                                    /\ sessions[dial[p].session].taken = {p}
                                    /\ sessions[dial[p].session].state = "taken"
    /\ dial[p].stage = "bye" => /\ dial[p].session # 0
                                /\ sessions[dial[p].session].taken = {p}
                                /\ sessions[dial[p].session].state = "disposed"
AttemptInv == \A p \in Callers: Attempting(p)

\* Who has taken a connection and has not told of its end.
CallerHas(x, i, stage) == x \in Callers /\ dial[x].stage = stage /\ dial[x].session = i
MonitorHas(x, stage) == x \in DOMAIN sessions /\ sessions[x].monitor = stage

\* Each session has an owner: an attempt, the slot, or who took it.
Owned(i) ==
    /\ sessions[i].taken \subseteq Callers \cup DOMAIN sessions
    /\ sessions[i].state = "held" <=> slot = i
    /\ sessions[i].state \in {"open", "dropped"} => sessions[i].monitor = "none"
    /\ sessions[i].state \in {"open", "dropped", "held"} => sessions[i].taken = {} /\ sessions[i].told = 0
    /\ sessions[i].state = "open" => \E p \in Callers: dial[p].stage \in Chain /\ dial[p].session = i
    /\ sessions[i].state = "taken" => /\ sessions[i].told = 0
                                      /\ \E x \in sessions[i].taken: /\ sessions[i].taken = {x}
                                                                     /\ CallerHas(x, i, "dispose") \/ MonitorHas(x, "dispose")
    /\ sessions[i].state = "disposed" => /\ sessions[i].told = 0
                                         /\ \E x \in sessions[i].taken: /\ sessions[i].taken = {x}
                                                                        /\ CallerHas(x, i, "bye") \/ MonitorHas(x, "bye")
    /\ sessions[i].state = "gone" => \/ sessions[i].taken = {} /\ sessions[i].told = 0
                                     \/ (\E x \in sessions[i].taken: sessions[i].taken = {x}) /\ sessions[i].told = 1
OwnerInv == \A i \in DOMAIN sessions: Owned(i)

\* What a monitor has taken, and that it is late when that is another's.
MonitorInv ==
    /\ \A i \in DOMAIN sessions:
          /\ sessions[i].monitor = "dispose" => \E j \in DOMAIN sessions: i \in sessions[j].taken /\ sessions[j].state = "taken"
          /\ sessions[i].monitor = "bye" => \E j \in DOMAIN sessions: i \in sessions[j].taken /\ sessions[j].state = "disposed"
          /\ sessions[i].monitor \in {"check", "probe", "lost"} /\ slot # i => sessions[i].late
          /\ sessions[i].monitor = "sleep" /\ slot # i => sessions[i].late \/ sessions[i].stop
    /\ \A i, j \in DOMAIN sessions: i \in sessions[j].taken =>
          /\ sessions[i].monitor \in {"dispose", "bye", "done"}
          /\ sessions[i].state \notin {"open", "held"}
          /\ i # j => sessions[i].late
    /\ \A i, j, k \in DOMAIN sessions: i \in sessions[j].taken /\ i \in sessions[k].taken => j = k

StatusInv ==
    ~tangled =>
        /\ status.state = "connected" => \/ slot # 0 /\ status.session = slot
                                         \/ Cleaning
                                         \/ \E p \in Callers: p = writer /\ dial[p].stage \in {"dispose", "bye"}
        /\ slot # 0 => \/ status.state = "connected" /\ status.session = slot
                       \/ \E p \in Callers: p = writer /\ dial[p].stage = "stored"
        /\ \A p \in Callers: dial[p].stage = "stored" => slot # 0 /\ dial[p].session = slot

\* The times of an attempt.
Bound == 2 * SSH_G_TIMEOUT + TCP_PROBE_TIMEOUT + CONNECT_CHAIN_TIMEOUT
ClockOK(d) ==
    /\ d.clock \in Nat /\ d.deadline \in Nat
    /\ d.clock <= Bound
    /\ d.deadline > 0 => d.clock <= d.deadline
    /\ d.stage \in {"take", "dispose", "bye", "free", "merge", "resolve"} => d.clock = 0 /\ d.deadline = 0
    /\ d.stage = "probe" => d.clock <= 2 * SSH_G_TIMEOUT /\ d.deadline = 0
    /\ d.stage \in Chain \cup {"handshake"} => d.clock <= d.deadline /\ d.deadline <= Bound
    /\ d.stage = "auth" => d.until \in Nat
ClockInv == \A p \in Callers: ClockOK(dial[p])

Inv == TypeInv /\ LockInv /\ AttemptInv /\ OwnerInv /\ MonitorInv /\ StatusInv

-----------------------------------------------------------------------------
(* What a step of an attempt does. *)

\* The record d of an attempt becomes e.
Opens(p, d, e) ==
    /\ d.stage = "handshake" /\ e.stage = "discover"
    /\ e.session = Len(sessions) + 1
    /\ sessions' = Append(sessions, NewSession(p))
GivesIn(p, d, e) ==
    /\ d.stage \in {"merge", "resolve", "probe", "handshake", "discover", "auth", "sftp"} /\ e.stage = "failed"
    /\ e.session = d.session
    /\ DropSession(p)
GoesOn(d, e) ==
    /\ \/ d.stage \in {"merge", "resolve", "probe"} /\ e.stage \in {"resolve", "probe", "handshake"}
       \/ d.stage \in {"discover", "auth", "sftp"} /\ e.stage \in {"auth", "sftp", "raw"}
    /\ e.session = d.session
    /\ UNCHANGED sessions

DialStep(p, e) ==
    /\ dial' = [dial EXCEPT ![p] = e]
    /\ DOMAIN e = DialFields
    /\ e.call = dial[p].call
    /\ Opens(p, dial[p], e) \/ GivesIn(p, dial[p], e) \/ GoesOn(dial[p], e)
    /\ ClockOK(dial[p]) => ClockOK(e)

\* The limits are numbers, and so are the delays of every scenario.
LEMMA Limits ==
    ASSUME TypeInv
    PROVE  /\ SSH_G_TIMEOUT \in Nat /\ TCP_PROBE_TIMEOUT \in Nat /\ CONNECT_TIMEOUT \in Nat
           /\ CONNECT_CHAIN_TIMEOUT \in Nat /\ AUTH_TIMEOUT \in Nat /\ AGENT_CANDIDATE_TIMEOUT \in Nat
           /\ SFTP_OPEN_TIMEOUT \in Nat /\ Bound \in Nat
           /\ W.delays \subseteq Nat
<1>1. W.delays \subseteq Nat
  BY ConnectAssumption DEF TypeInv, W
<1> QED
  BY <1>1, ConnectAssumption DEF Bound

\* An await ends within the deadline.
LEMMA AwaitEnds ==
    ASSUME NEW d, d.clock \in Nat, d.deadline \in Nat, d.clock <= d.deadline, NEW delay \in Nat, NEW own \in Nat
    PROVE  /\ Await(d, delay, own).at \in Nat
           /\ Await(d, delay, own).at >= d.clock
           /\ Await(d, delay, own).at <= d.deadline
BY DEF Await

LEMMA FailsStep ==
    ASSUME NEW p \in Callers, NEW d, DOMAIN d = DialFields, NEW why, Fails(p, d, why),
           d.call = dial[p].call, d.session = dial[p].session,
           dial[p].stage \in {"merge", "resolve", "probe", "handshake", "discover", "auth", "sftp"},
           ClockOK(dial[p]) =>
              /\ d.clock \in Nat /\ d.deadline \in Nat /\ d.clock <= Bound
              /\ d.deadline > 0 => d.clock <= d.deadline
    PROVE  \E e: DialStep(p, e)
<1> DEFINE e == [d EXCEPT !.stage = "failed", !.result = why]
<1>1. /\ DOMAIN e = DialFields /\ e.stage = "failed" /\ e.call = d.call /\ e.session = d.session
      /\ e.clock = d.clock /\ e.deadline = d.deadline
  BY DEF DialFields
<1>2. dial' = [dial EXCEPT ![p] = e] /\ DropSession(p)
  BY DEF Fails, Becomes
<1> HIDE DEF e
<1>3. ClockOK(dial[p]) => ClockOK(e)
  BY <1>1 DEF ClockOK, Chain
<1> QED
  BY <1>1, <1>2, <1>3 DEF DialStep, GivesIn

LEMMA MergesStep ==
    ASSUME TypeInv, NEW p \in Callers, Merges(p)
    PROVE  \E e: DialStep(p, e)
<1>1. DOMAIN dial[p] = DialFields /\ dial[p].stage = "merge"
  BY DEF TypeInv, Merges, At
<1>2. ASSUME Fails(p, dial[p], "host") PROVE \E e: DialStep(p, e)
  BY <1>1, <1>2, FailsStep DEF ClockOK
<1>3. ASSUME NEW cfg, Becomes(p, [dial[p] EXCEPT !.stage = "resolve", !.cfg = cfg]), UNCHANGED sessions
      PROVE  \E e: DialStep(p, e)
  <2> DEFINE e == [dial[p] EXCEPT !.stage = "resolve", !.cfg = cfg]
  <2>1. /\ DOMAIN e = DialFields /\ e.stage = "resolve" /\ e.call = dial[p].call
        /\ e.session = dial[p].session /\ e.clock = dial[p].clock /\ e.deadline = dial[p].deadline
    BY <1>1 DEF DialFields
  <2>2. dial' = [dial EXCEPT ![p] = e]
    BY <1>3 DEF Becomes
  <2> HIDE DEF e
  <2>3. ClockOK(dial[p]) => ClockOK(e)
    BY <1>1, <2>1 DEF ClockOK, Chain
  <2> QED
    BY <1>1, <1>3, <2>1, <2>2, <2>3 DEF DialStep, GoesOn
<1> QED
  BY <1>2, <1>3 DEF Merges

LEMMA ResolvesStep ==
    ASSUME TypeInv, NEW p \in Callers, Resolves(p)
    PROVE  \E e: DialStep(p, e)
<1>1. DOMAIN dial[p] = DialFields /\ dial[p].stage = "resolve"
  BY DEF TypeInv, Resolves, At
<1>2. PICK late, r : /\ r = ResolveHost(dial[p].call.host, config, W.says, late)
                     /\ dial' = [dial EXCEPT ![p] = [dial[p] EXCEPT !.stage = "probe", !.resolved = r.found, !.cfg = MergeResolved(@, r.found),
                                     !.clock = @ + SSH_G_TIMEOUT * Cardinality(r.asked \cap late)]]
                     /\ UNCHANGED sessions
  BY DEF Resolves, Becomes
<1>3. \E a, b: r.asked \subseteq {a, b}
  <2> DEFINE input == dial[p].call.host
             names == AliasesOf(config, input)
             first == RunSshG(input, W.says, late)
             other == RunSshG(names[1], W.says, late)
  <2>1. r.asked = {input} \/ r.asked = {input, names[1]}
    BY <1>2 DEF ResolveHost, Found
  <2> QED
    BY <2>1
<1>4. Cardinality(r.asked \cap late) \in 0 .. 2
  <2>1. PICK a, b: r.asked \subseteq {a, b}
    BY <1>3
  <2>2. IsFiniteSet({a, b}) /\ Cardinality({a, b}) \in 0 .. 2
    <3>1. IsFiniteSet({a}) /\ Cardinality({a}) = 1
      BY FS_Singleton
    <3>2. {a, b} = {a} \cup {b}
      OBVIOUS
    <3> QED
      BY <3>1, <3>2, FS_AddElement
  <2>3. r.asked \cap late \subseteq {a, b}
    BY <2>1
  <2> QED
    BY <2>2, <2>3, FS_Subset, FS_CardinalityType
<1> DEFINE n == Cardinality(r.asked \cap late)
           e == [dial[p] EXCEPT !.stage = "probe", !.resolved = r.found, !.cfg = MergeResolved(@, r.found),
                                !.clock = @ + SSH_G_TIMEOUT * n]
<1>5. /\ DOMAIN e = DialFields /\ e.stage = "probe" /\ e.call = dial[p].call
      /\ e.session = dial[p].session /\ e.clock = dial[p].clock + SSH_G_TIMEOUT * n /\ e.deadline = dial[p].deadline
  BY <1>1 DEF DialFields
<1>6. dial' = [dial EXCEPT ![p] = e]
  BY <1>2
<1>7. n \in 0 .. 2
  BY <1>4
<1> HIDE DEF e, n
<1>8. SSH_G_TIMEOUT * n \in Nat /\ SSH_G_TIMEOUT * n <= 2 * SSH_G_TIMEOUT
  BY <1>7, Limits
<1>9. ClockOK(dial[p]) => ClockOK(e)
  BY <1>1, <1>5, <1>8, Limits DEF ClockOK, Chain, Bound
<1> QED
  BY <1>1, <1>2, <1>5, <1>6, <1>9 DEF DialStep, GoesOn

LEMMA ProbesStep ==
    ASSUME TypeInv, NEW p \in Callers, Probes(p)
    PROVE  \E e: DialStep(p, e)
<1>1. DOMAIN dial[p] = DialFields /\ dial[p].stage = "probe"
  BY DEF TypeInv, Probes, At
<1>2. ASSUME NEW n \in {0, TCP_PROBE_TIMEOUT}, NEW why, Fails(p, [dial[p] EXCEPT !.clock = @ + n], why)
      PROVE  \E e: DialStep(p, e)
  <2> DEFINE d == [dial[p] EXCEPT !.clock = @ + n]
  <2>1. /\ DOMAIN d = DialFields /\ d.call = dial[p].call /\ d.session = dial[p].session
        /\ d.clock = dial[p].clock + n /\ d.deadline = dial[p].deadline
    BY <1>1 DEF DialFields
  <2>2. Fails(p, d, why)
    BY <1>2
  <2> HIDE DEF d
  <2>3. ClockOK(dial[p]) => /\ d.clock \in Nat /\ d.deadline \in Nat /\ d.clock <= Bound
                            /\ d.deadline > 0 => d.clock <= d.deadline
    BY <1>1, <2>1, Limits DEF ClockOK, Bound
  <2> QED
    BY <1>1, <2>1, <2>2, <2>3, FailsStep
<1>3. ASSUME NEW delay \in W.delays, ~(delay > TCP_PROBE_TIMEOUT), UNCHANGED sessions,
             Becomes(p, [dial[p] EXCEPT !.stage = "handshake", !.clock = @ + delay,
                                        !.deadline = dial[p].clock + delay + CONNECT_CHAIN_TIMEOUT])
      PROVE  \E e: DialStep(p, e)
  <2> DEFINE e == [dial[p] EXCEPT !.stage = "handshake", !.clock = @ + delay,
                                  !.deadline = dial[p].clock + delay + CONNECT_CHAIN_TIMEOUT]
  <2>1. /\ DOMAIN e = DialFields /\ e.stage = "handshake" /\ e.call = dial[p].call
        /\ e.session = dial[p].session /\ e.clock = dial[p].clock + delay
        /\ e.deadline = dial[p].clock + delay + CONNECT_CHAIN_TIMEOUT
    BY <1>1 DEF DialFields
  <2>2. dial' = [dial EXCEPT ![p] = e]
    BY <1>3 DEF Becomes
  <2> HIDE DEF e
  <2>3. delay \in Nat /\ delay <= TCP_PROBE_TIMEOUT
    BY <1>3, Limits
  <2>4. ClockOK(dial[p]) => ClockOK(e)
    BY <1>1, <2>1, <2>3, Limits DEF ClockOK, Chain, Bound
  <2> QED
    BY <1>1, <1>3, <2>1, <2>2, <2>4 DEF DialStep, GoesOn
<1> QED
  BY <1>2, <1>3 DEF Probes

LEMMA HandshakesStep ==
    ASSUME TypeInv, NEW p \in Callers, Handshakes(p)
    PROVE  \E e: DialStep(p, e)
<1>1. DOMAIN dial[p] = DialFields /\ dial[p].stage = "handshake"
  BY DEF TypeInv, Handshakes, At
<1>2. PICK delay \in W.delays:
         LET a == Await(dial[p], delay, CONNECT_TIMEOUT)
         IN  IF a.end = "done" /\ W.shakes
             THEN /\ Becomes(p, [dial[p] EXCEPT !.stage = "discover", !.clock = a.at, !.session = Len(sessions) + 1])
                  /\ sessions' = Append(sessions, NewSession(p))
             ELSE Fails(p, [dial[p] EXCEPT !.clock = a.at], IF a.end = "cut" THEN "chain" ELSE "handshake")
  BY DEF Handshakes
<1> DEFINE a == Await(dial[p], delay, CONNECT_TIMEOUT)
<1>3. ClockOK(dial[p]) => /\ a.at \in Nat
                          /\ a.at <= dial[p].deadline
                          /\ dial[p].deadline \in Nat
                          /\ dial[p].deadline <= Bound
  <2>1. ClockOK(dial[p]) => /\ dial[p].clock \in Nat
                            /\ dial[p].deadline \in Nat
                            /\ dial[p].clock <= dial[p].deadline
                            /\ dial[p].deadline <= Bound
    BY <1>1 DEF ClockOK
  <2>2. delay \in Nat /\ CONNECT_TIMEOUT \in Nat
    BY Limits
  <2> QED
    BY <2>1, <2>2, AwaitEnds
<1>4. CASE a.end = "done" /\ W.shakes
  <2> DEFINE e == [dial[p] EXCEPT !.stage = "discover", !.clock = a.at, !.session = Len(sessions) + 1]
  <2>1. /\ DOMAIN e = DialFields /\ e.stage = "discover" /\ e.call = dial[p].call
        /\ e.session = Len(sessions) + 1 /\ e.clock = a.at /\ e.deadline = dial[p].deadline
    BY <1>1 DEF DialFields
  <2>2. dial' = [dial EXCEPT ![p] = e] /\ sessions' = Append(sessions, NewSession(p))
    BY <1>2, <1>4 DEF Becomes
  <2> HIDE DEF e, a
  <2>3. ClockOK(dial[p]) => ClockOK(e)
    BY <1>3, <2>1, Limits DEF ClockOK, Chain
  <2> QED
    BY <1>1, <2>1, <2>2, <2>3 DEF DialStep, Opens
<1>5. CASE ~(a.end = "done" /\ W.shakes)
  <2> DEFINE d == [dial[p] EXCEPT !.clock = a.at]
  <2>1. /\ DOMAIN d = DialFields /\ d.call = dial[p].call /\ d.session = dial[p].session
        /\ d.clock = a.at /\ d.deadline = dial[p].deadline
    BY <1>1 DEF DialFields
  <2>2. Fails(p, d, IF a.end = "cut" THEN "chain" ELSE "handshake")
    BY <1>2, <1>5
  <2> HIDE DEF d, a
  <2>3. ClockOK(dial[p]) => /\ d.clock \in Nat /\ d.deadline \in Nat /\ d.clock <= Bound
                            /\ d.deadline > 0 => d.clock <= d.deadline
    BY <1>3, <2>1, Limits
  <2> QED
    BY <1>1, <2>1, <2>2, <2>3, FailsStep
<1> QED
  BY <1>4, <1>5

\* What the records d and e of an attempt agree in as it tries its candidates.
Same(d, e) ==
    /\ DOMAIN e = DialFields
    /\ e.call = d.call /\ e.session = d.session /\ e.deadline = d.deadline /\ e.until = d.until

LEMMA DiscoversStep ==
    ASSUME TypeInv, NEW p \in Callers, Discovers(p)
    PROVE  \E e: DialStep(p, e)
<1>1. DOMAIN dial[p] = DialFields /\ dial[p].stage = "discover"
  BY DEF TypeInv, Discovers, At
<1>2. PICK sockets, plan :
         /\ dial' = [dial EXCEPT ![p] = [dial[p] EXCEPT !.stage = "auth", !.sockets = sockets,
                                                        !.until = dial[p].clock + AUTH_TIMEOUT, !.plan = plan]]
         /\ UNCHANGED sessions
  BY DEF Discovers, Becomes
<1> DEFINE e == [dial[p] EXCEPT !.stage = "auth", !.sockets = sockets,
                                !.until = dial[p].clock + AUTH_TIMEOUT, !.plan = plan]
<1>3. /\ DOMAIN e = DialFields /\ e.stage = "auth" /\ e.call = dial[p].call /\ e.session = dial[p].session
      /\ e.clock = dial[p].clock /\ e.deadline = dial[p].deadline /\ e.until = dial[p].clock + AUTH_TIMEOUT
  BY <1>1 DEF DialFields
<1>4. dial' = [dial EXCEPT ![p] = e]
  BY <1>2
<1> HIDE DEF e
<1>5. ClockOK(dial[p]) => ClockOK(e)
  BY <1>1, <1>3, Limits DEF ClockOK, Chain
<1> QED
  BY <1>1, <1>2, <1>3, <1>4, <1>5 DEF DialStep, GoesOn

\* The times of an attempt in the chain.
LEMMA ChainClock ==
    ASSUME TypeInv, NEW p \in Callers, dial[p].stage \in {"auth", "sftp"}, NEW delay \in W.delays \cup {0},
           NEW own \in {AUTH_TIMEOUT, AGENT_CANDIDATE_TIMEOUT, SFTP_OPEN_TIMEOUT}, ClockOK(dial[p])
    PROVE  /\ Await(dial[p], delay, own).at \in Nat
           /\ Await(dial[p], delay, own).at <= dial[p].deadline
           /\ dial[p].deadline \in Nat
           /\ dial[p].deadline <= Bound
           /\ dial[p].stage = "auth" => dial[p].until \in Nat
<1>1. /\ dial[p].clock \in Nat
      /\ dial[p].deadline \in Nat
      /\ dial[p].clock <= dial[p].deadline
      /\ dial[p].deadline <= Bound
      /\ dial[p].stage = "auth" => dial[p].until \in Nat
  BY DEF ClockOK, Chain
<1>2. delay \in Nat /\ own \in Nat
  BY Limits
<1> QED
  BY <1>1, <1>2, AwaitEnds

LEMMA ChainStep ==
    ASSUME TypeInv, NEW p \in Callers, dial[p].stage \in {"auth", "sftp"}, NEW e, Same(dial[p], e),
           e.stage \in {dial[p].stage, "sftp", "raw"}, dial' = [dial EXCEPT ![p] = e], UNCHANGED sessions,
           ClockOK(dial[p]) => e.clock \in Nat /\ e.clock <= dial[p].deadline
    PROVE  \E f: DialStep(p, f)
<1>1. ClockOK(dial[p]) => ClockOK(e)
  BY Limits DEF ClockOK, Chain, Same
<1> QED
  BY <1>1 DEF DialStep, GoesOn, Same

LEMMA ChainFails ==
    ASSUME TypeInv, NEW p \in Callers, dial[p].stage \in {"auth", "sftp"}, NEW e, Same(dial[p], e),
           NEW why, Fails(p, e, why), ClockOK(dial[p]) => e.clock \in Nat /\ e.clock <= dial[p].deadline
    PROVE  \E f: DialStep(p, f)
<1>1. ClockOK(dial[p]) => /\ e.clock \in Nat /\ e.deadline \in Nat /\ e.clock <= Bound
                          /\ e.deadline > 0 => e.clock <= e.deadline
  BY Limits DEF ClockOK, Chain, Same
<1> QED
  BY <1>1, FailsStep DEF Same

LEMMA TriesOnlyStep ==
    ASSUME TypeInv, NEW p \in Callers, TriesOnly(p)
    PROVE  \E e: DialStep(p, e)
<1>1. DOMAIN dial[p] = DialFields /\ dial[p].stage = "auth"
  BY DEF TypeInv, TriesOnly, At
<1>2. PICK delay \in W.delays \cup {0}, passed \in BOOLEAN :
         LET a == Await(dial[p], delay, AUTH_TIMEOUT)
             e == [dial[p] EXCEPT !.clock = a.at]
         IN  \/ Fails(p, e, "chain")
             \/ /\ dial' = [dial EXCEPT ![p] = IF passed THEN Passed(e) ELSE Rejected(e)]
                /\ UNCHANGED sessions
  BY DEF TriesOnly, Becomes
<1> DEFINE a == Await(dial[p], delay, AUTH_TIMEOUT)
           e == [dial[p] EXCEPT !.clock = a.at]
           f == IF passed THEN Passed(e) ELSE Rejected(e)
<1>3. Same(dial[p], e) /\ e.clock = a.at /\ e.stage = "auth"
  BY <1>1 DEF DialFields, Same
<1>4. ClockOK(dial[p]) => a.at \in Nat /\ a.at <= dial[p].deadline
  BY <1>1, ChainClock
<1>5. Fails(p, e, "chain") \/ (dial' = [dial EXCEPT ![p] = f] /\ UNCHANGED sessions)
  BY <1>2
<1> HIDE DEF a, e
<1>6. Same(dial[p], f) /\ f.clock = a.at /\ f.stage \in {"auth", "sftp"}
  BY <1>3 DEF Same, Passed, Rejected, DialFields
<1> HIDE DEF f
<1> QED
  BY <1>1, <1>3, <1>4, <1>5, <1>6, ChainStep, ChainFails

LEMMA TriesAgentStep ==
    ASSUME TypeInv, NEW p \in Callers, TriesAgent(p)
    PROVE  \E e: DialStep(p, e)
<1>1. DOMAIN dial[p] = DialFields /\ dial[p].stage = "auth"
  BY DEF TypeInv, TriesAgent, At
<1> DEFINE path == dial[p].sockets[1]
           agent == W.agent[path]
<1>2. PICK delay \in IF agent.listens THEN W.delays ELSE {0} :
         LET a == Await(dial[p], delay, AGENT_CANDIDATE_TIMEOUT)
             won == agent.listens /\ AgentAccepts(agent) /\ a.end = "done"
             why == CASE won -> "none" [] a.end = "late" -> "timeout" [] OTHER -> "rejected"
             e == Recorded([dial[p] EXCEPT !.clock = a.at, !.sockets = Tail(@)], Socket(path),
                           IF won THEN "used" ELSE "failed", why)
         IN  IF a.at > dial[p].until \/ (a.end = "cut" /\ a.at = dial[p].until)
             THEN /\ Becomes(p, Rejected([dial[p] EXCEPT !.clock = dial[p].until, !.cut = TRUE, !.sockets = <<>>]))
                  /\ UNCHANGED sessions
             ELSE IF a.end = "cut" THEN Fails(p, [dial[p] EXCEPT !.clock = a.at], "chain")
             ELSE /\ Becomes(p, IF won THEN Passed(e) ELSE IF e.sockets = <<>> THEN Rejected(e) ELSE e)
                  /\ UNCHANGED sessions
  BY Zenon DEF TriesAgent
<1> DEFINE a == Await(dial[p], delay, AGENT_CANDIDATE_TIMEOUT)
           won == agent.listens /\ AgentAccepts(agent) /\ a.end = "done"
           why == CASE won -> "none" [] a.end = "late" -> "timeout" [] OTHER -> "rejected"
           outcome == IF won THEN "used" ELSE "failed"
           d == [dial[p] EXCEPT !.clock = a.at]
           c == Rejected([dial[p] EXCEPT !.clock = dial[p].until, !.cut = TRUE, !.sockets = <<>>])
           e == Recorded([dial[p] EXCEPT !.clock = a.at, !.sockets = Tail(@)], Socket(path), outcome, why)
           f == IF won THEN Passed(e) ELSE IF e.sockets = <<>> THEN Rejected(e) ELSE e
<1> HIDE DEF a, won, why, outcome, path, agent
<1>3. Same(dial[p], d) /\ d.clock = a.at
  BY <1>1 DEF DialFields, Same
<1>4. Same(dial[p], e) /\ e.clock = a.at /\ e.stage = "auth"
  BY <1>1 DEF DialFields, Same, Recorded
<1> USE DEF a, won, why, outcome, path, agent
<1>5. Same(dial[p], c) /\ c.clock = dial[p].until /\ c.stage = "auth"
  BY <1>1 DEF DialFields, Same, Rejected
<1>d. delay \in W.delays \cup {0}
  BY <1>2
<1>6. ClockOK(dial[p]) => a.at \in Nat /\ a.at <= dial[p].deadline /\ dial[p].until \in Nat /\ dial[p].deadline \in Nat
  BY <1>1, <1>d, ChainClock
<1>7. \/ /\ a.at > dial[p].until \/ a.at = dial[p].until
         /\ dial' = [dial EXCEPT ![p] = c]
         /\ UNCHANGED sessions
      \/ Fails(p, d, "chain")
      \/ dial' = [dial EXCEPT ![p] = f] /\ UNCHANGED sessions
  BY <1>2, Zenon DEF Becomes
<1> HIDE DEF a, c, d, e, won, why, outcome, path, agent
<1>8. Same(dial[p], f) /\ f.clock = a.at /\ f.stage \in {"auth", "sftp"}
  BY <1>4 DEF Same, Passed, Rejected, DialFields
<1> HIDE DEF f
<1>9. CASE Fails(p, d, "chain")
  BY <1>1, <1>3, <1>6, <1>9, ChainFails
<1>10. CASE dial' = [dial EXCEPT ![p] = f] /\ UNCHANGED sessions
  BY <1>1, <1>6, <1>8, <1>10, ChainStep
<1>11. CASE /\ a.at > dial[p].until \/ a.at = dial[p].until
            /\ dial' = [dial EXCEPT ![p] = c]
            /\ UNCHANGED sessions
  <2>1. ClockOK(dial[p]) => c.clock \in Nat /\ c.clock <= dial[p].deadline
    BY <1>5, <1>6, <1>11
  <2> QED
    BY <1>1, <1>5, <1>11, <2>1, ChainStep
<1> QED
  BY <1>7, <1>9, <1>10, <1>11

LEMMA TriesKeyStep ==
    ASSUME TypeInv, NEW p \in Callers, TriesKey(p)
    PROVE  \E e: DialStep(p, e)
<1>1. DOMAIN dial[p] = DialFields /\ dial[p].stage = "auth"
  BY DEF TypeInv, TriesKey, At
<1> DEFINE s == NextStep(dial[p])
<1>2. ASSUME dial' = [dial EXCEPT ![p] = Rejected(Recorded(dial[p], KeyFile(s.path), "skipped", "duplicate"))], UNCHANGED sessions
      PROVE  \E e: DialStep(p, e)
  <2> DEFINE c == Rejected(Recorded(dial[p], KeyFile(s.path), "skipped", "duplicate"))
  <2>1. Same(dial[p], c) /\ c.clock = dial[p].clock /\ c.stage = "auth"
    BY <1>1 DEF DialFields, Same, Rejected, Recorded
  <2>2. dial' = [dial EXCEPT ![p] = c]
    BY <1>2
  <2> HIDE DEF c
  <2>3. ClockOK(dial[p]) => c.clock \in Nat /\ c.clock <= dial[p].deadline
    BY <1>1, <2>1 DEF ClockOK, Chain
  <2> QED
    BY <1>1, <1>2, <2>1, <2>2, <2>3, ChainStep
<1>3. ASSUME NEW delay \in W.delays \cup {0}, NEW passed \in BOOLEAN, NEW outcome, NEW why,
             LET a == Await(dial[p], delay, AUTH_TIMEOUT)
                 e == [dial[p] EXCEPT !.clock = a.at, !.tried = @ \cup {s.path}]
                 g == Recorded(e, KeyFile(s.path), outcome, why)
             IN  \/ Fails(p, e, "chain")
                 \/ dial' = [dial EXCEPT ![p] = IF passed THEN Passed(g) ELSE Rejected(g)] /\ UNCHANGED sessions
      PROVE  \E e: DialStep(p, e)
  <2> DEFINE a == Await(dial[p], delay, AUTH_TIMEOUT)
             e == [dial[p] EXCEPT !.clock = a.at, !.tried = @ \cup {s.path}]
             g == Recorded(e, KeyFile(s.path), outcome, why)
             f == IF passed THEN Passed(g) ELSE Rejected(g)
  <2>1. Same(dial[p], e) /\ e.clock = a.at /\ e.stage = "auth"
    BY <1>1 DEF DialFields, Same
  <2>2. ClockOK(dial[p]) => a.at \in Nat /\ a.at <= dial[p].deadline
    BY <1>1, ChainClock
  <2>3. Fails(p, e, "chain") \/ (dial' = [dial EXCEPT ![p] = f] /\ UNCHANGED sessions)
    BY <1>3
  <2> HIDE DEF a, e
  <2>4. Same(dial[p], g) /\ g.clock = a.at /\ g.stage = "auth"
    BY <2>1 DEF Same, Recorded, DialFields
  <2> HIDE DEF g
  <2>5. Same(dial[p], f) /\ f.clock = a.at /\ f.stage \in {"auth", "sftp"}
    BY <2>4 DEF Same, Passed, Rejected, DialFields
  <2> HIDE DEF f
  <2> QED
    BY <1>1, <2>1, <2>2, <2>3, <2>5, ChainStep, ChainFails
<1>4. CASE Skips(dial[p], s)
  <2>1. dial' = [dial EXCEPT ![p] = Rejected(Recorded(dial[p], KeyFile(s.path), "skipped", "duplicate"))] /\ UNCHANGED sessions
    BY <1>4 DEF TriesKey, Becomes
  <2> QED
    BY <2>1, <1>2
<1>5. CASE ~Skips(dial[p], s)
  <2> DEFINE key == KeyAt(s.path)
  <2>1. PICK delay \in IF key \in {"accepted", "rejected"} THEN W.delays ELSE {0} :
           LET a == Await(dial[p], delay, AUTH_TIMEOUT)
               e == [dial[p] EXCEPT !.clock = a.at, !.tried = @ \cup {s.path}]
           IN  IF a.end = "cut" THEN Fails(p, e, "chain")
               ELSE /\ Becomes(p, IF a.end = "late" THEN Rejected(Recorded(e, KeyFile(s.path), "failed", "timeout")) ELSE
                                  CASE key = "accepted" -> Passed(Recorded(e, KeyFile(s.path), "used", "none"))
                                    [] key = "encrypted" -> Rejected(Recorded(e, KeyFile(s.path), "skipped", "encrypted"))
                                    [] OTHER -> Rejected(Recorded(e, KeyFile(s.path), "failed", key)))
                    /\ UNCHANGED sessions
    BY <1>5, Zenon DEF TriesKey
  <2>2. delay \in W.delays \cup {0}
    BY <2>1
  <2> DEFINE a == Await(dial[p], delay, AUTH_TIMEOUT)
             e == [dial[p] EXCEPT !.clock = a.at, !.tried = @ \cup {s.path}]
  <2>3. CASE a.end = "cut"
    BY <1>3, <2>1, <2>2, <2>3
  <2>4. CASE a.end # "cut"
    <3>1. \E passed \in BOOLEAN: \E outcome, why:
             dial' = [dial EXCEPT ![p] = IF passed THEN Passed(Recorded(e, KeyFile(s.path), outcome, why))
                                         ELSE Rejected(Recorded(e, KeyFile(s.path), outcome, why))]
      <4>1. CASE a.end = "late"
        <5>1. dial' = [dial EXCEPT ![p] = IF FALSE THEN Passed(Recorded(e, KeyFile(s.path), "failed", "timeout"))
                                          ELSE Rejected(Recorded(e, KeyFile(s.path), "failed", "timeout"))]
          BY <2>1, <2>4, <4>1 DEF Becomes
        <5> QED
          BY <5>1
      <4>2. CASE a.end # "late" /\ key = "accepted"
        <5>1. dial' = [dial EXCEPT ![p] = IF TRUE THEN Passed(Recorded(e, KeyFile(s.path), "used", "none"))
                                          ELSE Rejected(Recorded(e, KeyFile(s.path), "used", "none"))]
          BY <2>1, <2>4, <4>2 DEF Becomes
        <5> QED
          BY <5>1
      <4>3. CASE a.end # "late" /\ key = "encrypted"
        <5>1. dial' = [dial EXCEPT ![p] = IF FALSE THEN Passed(Recorded(e, KeyFile(s.path), "skipped", "encrypted"))
                                          ELSE Rejected(Recorded(e, KeyFile(s.path), "skipped", "encrypted"))]
          BY <2>1, <2>4, <4>3 DEF Becomes
        <5> QED
          BY <5>1
      <4>4. CASE a.end # "late" /\ key \notin {"accepted", "encrypted"}
        <5>1. dial' = [dial EXCEPT ![p] = IF FALSE THEN Passed(Recorded(e, KeyFile(s.path), "failed", key))
                                          ELSE Rejected(Recorded(e, KeyFile(s.path), "failed", key))]
          BY <2>1, <2>4, <4>4 DEF Becomes
        <5> QED
          BY <5>1
      <4> QED
        BY <4>1, <4>2, <4>3, <4>4
    <3>2. UNCHANGED sessions
      BY <2>1, <2>4
    <3> QED
      BY <1>3, <2>2, <3>1, <3>2
  <2> QED
    BY <2>3, <2>4
<1> QED
  BY <1>4, <1>5

LEMMA GivesUpStep ==
    ASSUME TypeInv, NEW p \in Callers, GivesUp(p)
    PROVE  \E e: DialStep(p, e)
<1>1. DOMAIN dial[p] = DialFields /\ dial[p].stage = "auth" /\ Fails(p, dial[p], "auth")
  BY DEF TypeInv, GivesUp, At
<1>2. Same(dial[p], dial[p])
  BY <1>1 DEF Same
<1>3. ClockOK(dial[p]) => dial[p].clock \in Nat /\ dial[p].clock <= dial[p].deadline
  BY <1>1 DEF ClockOK, Chain
<1> QED
  BY <1>1, <1>2, <1>3, ChainFails

LEMMA OpensSftpStep ==
    ASSUME TypeInv, NEW p \in Callers, OpensSftp(p)
    PROVE  \E e: DialStep(p, e)
<1>1. DOMAIN dial[p] = DialFields /\ dial[p].stage = "sftp"
  BY DEF TypeInv, OpensSftp, At
<1> PICK delay \in W.delays : \E why :
         LET a == Await(dial[p], delay, SFTP_OPEN_TIMEOUT)
         IN  \/ dial' = [dial EXCEPT ![p] = [dial[p] EXCEPT !.stage = "raw", !.clock = a.at]] /\ UNCHANGED sessions
             \/ Fails(p, [dial[p] EXCEPT !.clock = a.at], why)
  BY DEF OpensSftp, Becomes
<1>2. PICK why :
         LET a == Await(dial[p], delay, SFTP_OPEN_TIMEOUT)
         IN  \/ dial' = [dial EXCEPT ![p] = [dial[p] EXCEPT !.stage = "raw", !.clock = a.at]] /\ UNCHANGED sessions
             \/ Fails(p, [dial[p] EXCEPT !.clock = a.at], why)
  OBVIOUS
<1> DEFINE a == Await(dial[p], delay, SFTP_OPEN_TIMEOUT)
           e == [dial[p] EXCEPT !.stage = "raw", !.clock = a.at]
           d == [dial[p] EXCEPT !.clock = a.at]
<1>3. Same(dial[p], e) /\ e.clock = a.at /\ e.stage = "raw"
  BY <1>1 DEF DialFields, Same
<1>4. Same(dial[p], d) /\ d.clock = a.at
  BY <1>1 DEF DialFields, Same
<1>5. ClockOK(dial[p]) => a.at \in Nat /\ a.at <= dial[p].deadline
  BY <1>1, ChainClock
<1>6. (dial' = [dial EXCEPT ![p] = e] /\ UNCHANGED sessions) \/ Fails(p, d, why)
  BY <1>2
<1> HIDE DEF a, e, d
<1> QED
  BY <1>1, <1>3, <1>4, <1>5, <1>6, ChainStep, ChainFails

\* Every step of an attempt opens a session, gives it up, or leaves it.
LEMMA DialsStep ==
    ASSUME TypeInv, NEW p \in Callers, Dials(p)
    PROVE  (\E e: DialStep(p, e)) /\ UNCHANGED scenario
<1>1. \E e: DialStep(p, e)
  BY MergesStep, ResolvesStep, ProbesStep, HandshakesStep, DiscoversStep, TriesOnlyStep, TriesAgentStep,
     TriesKeyStep, GivesUpStep, OpensSftpStep DEF Dials
<1>2. UNCHANGED scenario
  BY DEF Dials, Merges, Resolves, Probes, Handshakes, Discovers, TriesOnly, TriesAgent, TriesKey, GivesUp, OpensSftp
<1> QED
  BY <1>1, <1>2

-----------------------------------------------------------------------------
(* What the actions change: the stage of a caller, and one of the sessions.  *)

Turns(p, stage, session) ==
    /\ DOMAIN dial' = Callers
    /\ \A q \in Callers: q # p => dial'[q] = dial[q]
    /\ DOMAIN dial'[p] = DialFields
    /\ dial'[p].stage = stage /\ dial'[p].session = session
    /\ dial'[p].call = dial[p].call
    /\ dial'[p].clock = dial[p].clock /\ dial'[p].deadline = dial[p].deadline

Sets(i, r) ==
    /\ sessions' \in Seq(SessionSet)
    /\ Len(sessions') = Len(sessions) /\ DOMAIN sessions' = DOMAIN sessions
    /\ sessions'[i] = r
    /\ \A j \in DOMAIN sessions: j # i => sessions'[j] = sessions[j]

LEMMA Turn ==
    ASSUME TypeInv, NEW p \in Callers, NEW stage, Becomes(p, [dial[p] EXCEPT !.stage = stage])
    PROVE  Turns(p, stage, dial[p].session)
BY DEF TypeInv, Becomes, Turns, DialFields

LEMMA TurnSession ==
    ASSUME TypeInv, NEW p \in Callers, NEW stage, NEW session,
           Becomes(p, [dial[p] EXCEPT !.stage = stage, !.session = session])
    PROVE  Turns(p, stage, session)
BY DEF TypeInv, Becomes, Turns, DialFields

LEMMA TurnProjects ==
    ASSUME TypeInv, NEW p \in Callers, NEW stage, NEW projects,
           Becomes(p, [dial[p] EXCEPT !.stage = stage, !.projects = projects])
    PROVE  Turns(p, stage, dial[p].session)
BY DEF TypeInv, Becomes, Turns, DialFields

LEMMA SetSession ==
    ASSUME TypeInv, NEW i \in DOMAIN sessions, NEW r \in SessionSet, sessions' = [sessions EXCEPT ![i] = r]
    PROVE  Sets(i, r)
<1>1. sessions \in Seq(SessionSet) /\ i \in 1 .. Len(sessions)
  BY DEF TypeInv
<1>2. sessions' \in Seq(SessionSet) /\ Len(sessions') = Len(sessions)
  BY <1>1, ExceptSeq
<1> QED
  BY <1>1, <1>2 DEF Sets

LEMMA SessionIs ==
    ASSUME TypeInv, NEW i \in DOMAIN sessions
    PROVE  /\ sessions[i] \in SessionSet
           /\ i \in Nat /\ i # 0 /\ i \notin Callers
BY ConnectAssumption DEF TypeInv

LEMMA Length ==
    ASSUME TypeInv
    PROVE  Len(sessions) \in Nat /\ DOMAIN sessions = 1 .. Len(sessions) /\ 0 \in 0 .. Len(sessions)
BY DEF TypeInv

\* The clock of a caller stands when its attempt only changes its stage.
LEMMA TurnClock ==
    ASSUME ClockInv, NEW p \in Callers, NEW stage, NEW session, Turns(p, stage, session),
           \/ stage \in {"idle", "failed", "stored"}
           \/ stage \in {"dispose", "bye", "free", "merge"} /\ dial[p].stage \in {"take", "dispose", "bye", "free"}
    PROVE  ClockInv'
<1>1. ClockOK(dial[p])
  BY DEF ClockInv
<1>2. ClockOK(dial'[p])
  BY <1>1 DEF ClockOK, Turns, Chain
<1> QED
  BY <1>2 DEF ClockInv, Turns

\* An attempt keeps what it has when its record and its session stay.
LEMMA AttemptKept ==
    ASSUME Inv, NEW q \in Callers, dial'[q] = dial[q],
           dial[q].stage \in Chain \cup {"dispose", "bye"} => sessions'[dial[q].session] = sessions[dial[q].session]
    PROVE  Attempting(q)'
BY DEF Inv, AttemptInv, Attempting, Chain

\* A session keeps its owner when it stays, and so does who works with it.
LEMMA OwnerKept ==
    ASSUME Inv, NEW j \in DOMAIN sessions, DOMAIN sessions \subseteq DOMAIN sessions',
           sessions'[j] = sessions[j], slot' = j <=> slot = j,
           \A q \in Callers: dial[q].stage \in Chain \cup {"dispose", "bye"} /\ dial[q].session = j =>
              /\ dial'[q].session = j
              /\ dial'[q].stage = dial[q].stage \/ {dial[q].stage, dial'[q].stage} \subseteq Chain,
           \A i \in DOMAIN sessions: i \in sessions[j].taken /\ sessions[i].monitor \in {"dispose", "bye"} =>
              i \in DOMAIN sessions' /\ sessions'[i].monitor = sessions[i].monitor
    PROVE  Owned(j)'
<1>1. Owned(j)
  BY DEF Inv, OwnerInv
<1>2. ASSUME NEW x \in sessions[j].taken, NEW stage \in {"dispose", "bye"}, CallerHas(x, j, stage) \/ MonitorHas(x, stage)
      PROVE  CallerHas(x, j, stage)' \/ MonitorHas(x, stage)'
  BY <1>2 DEF CallerHas, MonitorHas, Chain
<1>3. ASSUME NEW q \in Callers, dial[q].stage \in Chain, dial[q].session = j
      PROVE  dial'[q].stage \in Chain /\ dial'[q].session = j
  BY <1>3 DEF Chain
<1> QED
  BY <1>1, <1>2, <1>3 DEF Owned

\* Two attempts work with different sessions.
LEMMA HasSession ==
    ASSUME Inv, NEW q \in Callers, dial[q].stage \in Chain \cup {"dispose", "bye"}
    PROVE  /\ dial[q].session \in DOMAIN sessions
           /\ \/ sessions[dial[q].session].by = q /\ sessions[dial[q].session].state = "open" /\ dial[q].stage \in Chain
              \/ sessions[dial[q].session].taken = {q} /\ sessions[dial[q].session].state = "taken" /\ dial[q].stage = "dispose"
              \/ sessions[dial[q].session].taken = {q} /\ sessions[dial[q].session].state = "disposed" /\ dial[q].stage = "bye"
<1>1. dial[q].session \in 0 .. Len(sessions) /\ DOMAIN sessions = 1 .. Len(sessions) /\ Len(sessions) \in Nat
  BY DEF Inv, TypeInv
<1>2. Attempting(q)
  BY DEF Inv, AttemptInv
<1>3. dial[q].session # 0
  BY <1>2 DEF Attempting, Chain
<1> QED
  BY <1>1, <1>2, <1>3 DEF Attempting, Chain

LEMMA Apart ==
    ASSUME Inv, NEW p \in Callers, NEW q \in Callers, q # p,
           dial[p].stage \in Chain \cup {"dispose", "bye"}, dial[q].stage \in Chain \cup {"dispose", "bye"}
    PROVE  dial[q].session # dial[p].session
BY HasSession

\* What an attempt does to its session leaves all the others alone.
LEMMA OtherAttempts ==
    ASSUME Inv, NEW p \in Callers, NEW s \in DOMAIN sessions, NEW r, Sets(s, r), dial[p].session = s,
           dial[p].stage \in Chain \cup {"dispose", "bye"},
           \A q \in Callers: q # p => dial'[q] = dial[q], Attempting(p)'
    PROVE  AttemptInv'
<1>1. ASSUME NEW q \in Callers, q # p PROVE Attempting(q)'
  <2>1. dial[q].stage \in Chain \cup {"dispose", "bye"} => dial[q].session # s /\ dial[q].session \in DOMAIN sessions
    BY <1>1, HasSession, Apart
  <2> QED
    BY <1>1, <2>1, AttemptKept DEF Sets
<1> QED
  BY <1>1 DEF AttemptInv

LEMMA OtherOwners ==
    ASSUME Inv, NEW p \in Callers, NEW s \in DOMAIN sessions, NEW r, Sets(s, r), dial[p].session = s,
           dial[p].stage \in Chain \cup {"dispose", "bye"},
           \A q \in Callers: q # p => dial'[q] = dial[q],
           sessions[s].monitor \in {"dispose", "bye"} => r.monitor = sessions[s].monitor,
           \A j \in DOMAIN sessions: j # s => (slot' = j <=> slot = j),
           \A j \in DOMAIN sessions: j = s => Owned(j)'
    PROVE  OwnerInv'
<1>1. ASSUME NEW j \in DOMAIN sessions, j # s PROVE Owned(j)'
  <2>1. \A q \in Callers: dial[q].stage \in Chain \cup {"dispose", "bye"} /\ dial[q].session = j => dial'[q] = dial[q]
    BY <1>1
  <2>2. \A i \in DOMAIN sessions: sessions[i].monitor \in {"dispose", "bye"} => sessions'[i].monitor = sessions[i].monitor
    BY DEF Sets
  <2> QED
    BY <1>1, <2>1, <2>2, OwnerKept DEF Sets
<1> QED
  BY <1>1 DEF OwnerInv, Sets

\* A caller that has nothing leaves all the sessions as they are.
LEMMA StayKept ==
    ASSUME Inv, NEW p \in Callers, UNCHANGED <<sessions, slot>>,
           dial[p].stage \notin Chain \cup {"dispose", "bye"},
           \A q \in Callers: q # p => dial'[q] = dial[q]
    PROVE  /\ \A q \in Callers: q # p => Attempting(q)'
           /\ OwnerInv'
           /\ MonitorInv'
<1>1. \A q \in Callers: q # p => Attempting(q)'
  BY AttemptKept
<1>2. ASSUME NEW j \in DOMAIN sessions PROVE Owned(j)'
  <2>1. \A q \in Callers: dial[q].stage \in Chain \cup {"dispose", "bye"} => dial'[q] = dial[q]
    OBVIOUS
  <2> QED
    BY <2>1, OwnerKept
<1>3. MonitorInv'
  BY DEF Inv, MonitorInv
<1> QED
  BY <1>1, <1>2, <1>3 DEF OwnerInv

\* The monitors have what they had when no monitor has a part in what changes.
LEMMA MonitorsKept ==
    ASSUME Inv, NEW s \in DOMAIN sessions, NEW r, Sets(s, r), UNCHANGED slot,
           r.monitor = sessions[s].monitor, r.late = sessions[s].late, r.stop = sessions[s].stop,
           r.taken = sessions[s].taken, r.taken \subseteq Callers,
           r.state \notin {"open", "held"}
    PROVE  MonitorInv'
<1>1. \A i \in DOMAIN sessions: i \notin r.taken
  BY SessionIs DEF Inv
<1>2. \A i \in DOMAIN sessions: /\ sessions'[i].monitor = sessions[i].monitor
                                /\ sessions'[i].late = sessions[i].late
                                /\ sessions'[i].stop = sessions[i].stop
                                /\ sessions'[i].taken = sessions[i].taken
                                /\ sessions'[i].state \in {"open", "held"} => sessions'[i].state = sessions[i].state
  BY DEF Sets
<1>3. \A i, j \in DOMAIN sessions: i \in sessions[j].taken => sessions'[j] = sessions[j]
  BY <1>1, <1>2 DEF Sets
<1>4. DOMAIN sessions' = DOMAIN sessions /\ MonitorInv
  BY DEF Sets, Inv
<1> HIDE DEF Inv
<1> QED
  BY <1>2, <1>3, <1>4 DEF MonitorInv

-----------------------------------------------------------------------------
(* Each action keeps the invariants. *)

LEMMA DisposesKeeps ==
    ASSUME Inv, NEW p \in Callers, Disposes(p)
    PROVE  Inv' /\ (ClockInv => ClockInv')
<1> USE DEF Inv
<1>s. PICK s : s = dial[p].session
  OBVIOUS
<1>r. PICK r : r = [sessions[s] EXCEPT !.state = "disposed"]
  OBVIOUS
<1>1. /\ dial[p].stage = "dispose" /\ s \in DOMAIN sessions
      /\ sessions[s].taken = {p} /\ sessions[s].state = "taken"
      /\ writer = p /\ slot = 0 /\ dial[p].call.op # "test"
  BY <1>s DEF Disposes, At, AttemptInv, Attempting, TypeInv, LockInv
<1>2. Turns(p, "bye", s)
  BY <1>s, Turn DEF Disposes
<1>3. /\ r \in SessionSet /\ r.state = "disposed" /\ r.monitor = sessions[s].monitor /\ r.taken = {p} /\ r.told = 0
      /\ r.late = sessions[s].late /\ r.stop = sessions[s].stop /\ r.by = sessions[s].by
  BY <1>1, <1>r, SessionIs DEF SessionSet, OwnerInv, Owned
<1>4. Sets(s, r)
  BY <1>1, <1>3, <1>r, <1>s, SetSession DEF Disposes
<1>6. UNCHANGED <<scenario, slot, writer, readers, todo, status, tangled>>
  BY DEF Disposes, linkVars
<1>7. TypeInv'
  BY <1>1, <1>2, <1>4, <1>6 DEF TypeInv, Turns, Sets, Stages
<1>8. LockInv'
  BY <1>1, <1>2, <1>6 DEF LockInv, Turns
<1>9. AttemptInv'
  <2>1. Attempting(p)'
    BY <1>1, <1>2, <1>3, <1>4 DEF Attempting, Turns, Sets, Early, Chain
  <2> QED
    BY <1>1, <1>2, <1>4, <1>s, <2>1, OtherAttempts DEF Turns
<1>10. OwnerInv'
  <2>1. ASSUME NEW j \in DOMAIN sessions, j = s PROVE Owned(j)'
    BY <1>1, <1>2, <1>3, <1>4, <1>6, <2>1 DEF Owned, Turns, Sets, CallerHas
  <2> QED
    BY <1>1, <1>2, <1>3, <1>4, <1>6, <1>s, <2>1, OtherOwners DEF Turns
<1>11. MonitorInv'
  BY <1>1, <1>3, <1>4, <1>6, MonitorsKept
<1>12. StatusInv'
  BY <1>1, <1>2, <1>4, <1>3, <1>6 DEF StatusInv, Turns, Sets, Cleaning, Ids
<1>13. ClockInv => ClockInv'
  BY <1>1, <1>2, TurnClock
<1> QED
  BY <1>7, <1>8, <1>9, <1>10, <1>11, <1>12, <1>13

LEMMA DisconnectsKeeps ==
    ASSUME Inv, NEW p \in Callers, Disconnects(p)
    PROVE  Inv' /\ (ClockInv => ClockInv')
<1> USE DEF Inv
<1>s. PICK s : s = dial[p].session
  OBVIOUS
<1>r. PICK r : r = [sessions[s] EXCEPT !.state = "gone", !.told = @ + 1]
  OBVIOUS
<1>1. /\ dial[p].stage = "bye" /\ s \in DOMAIN sessions
      /\ sessions[s].taken = {p} /\ sessions[s].state = "disposed" /\ sessions[s].told = 0
      /\ writer = p /\ slot = 0 /\ dial[p].call.op # "test"
  BY <1>s DEF Disconnects, At, AttemptInv, Attempting, OwnerInv, Owned, TypeInv, LockInv
<1>2. Turns(p, "free", 0)
  BY TurnSession DEF Disconnects
<1>3. /\ r \in SessionSet /\ r.state = "gone" /\ r.monitor = sessions[s].monitor /\ r.taken = {p} /\ r.told = 1
      /\ r.late = sessions[s].late /\ r.stop = sessions[s].stop /\ r.by = sessions[s].by
  <2>1. sessions[s] \in SessionSet
    BY <1>1, SessionIs
  <2>2. r = [sessions[s] EXCEPT !.state = "gone", !.told = 1]
    BY <1>1, <1>r, <2>1 DEF SessionSet
  <2> QED
    BY <1>1, <2>1, <2>2 DEF SessionSet
<1>4. Sets(s, r)
  BY <1>1, <1>3, <1>r, <1>s, SetSession DEF Disconnects
<1>6. UNCHANGED <<scenario, slot, writer, readers, todo, tangled>> /\ status'.state = "disconnected"
  BY DEF Disconnects, Says
<1>7. TypeInv'
  BY <1>1, <1>2, <1>4, <1>6 DEF TypeInv, Turns, Sets, Stages
<1>8. LockInv'
  BY <1>1, <1>2, <1>6 DEF LockInv, Turns
<1>9. AttemptInv'
  <2>1. Attempting(p)'
    BY <1>2 DEF Attempting, Turns, Early, Chain
  <2> QED
    BY <1>1, <1>2, <1>4, <1>s, <2>1, OtherAttempts DEF Turns
<1>10. OwnerInv'
  <2>1. ASSUME NEW j \in DOMAIN sessions, j = s PROVE Owned(j)'
    <3>1. /\ sessions'[j].state = "gone" /\ sessions'[j].taken = {p} /\ sessions'[j].told = 1
          /\ slot' # j
      BY <1>1, <1>3, <1>4, <1>6, <2>1 DEF Sets
    <3>2. \E x \in sessions'[j].taken: sessions'[j].taken = {x}
      BY <3>1
    <3> QED
      BY <3>1, <3>2 DEF Owned
  <2> QED
    BY <1>1, <1>2, <1>3, <1>4, <1>6, <1>s, <2>1, OtherOwners DEF Turns
<1>11. MonitorInv'
  BY <1>1, <1>3, <1>4, <1>6, MonitorsKept
<1>12. StatusInv'
  BY <1>1, <1>2, <1>6 DEF StatusInv, Turns
<1>13. ClockInv => ClockInv'
  BY <1>1, <1>2, TurnClock
<1> QED
  BY <1>7, <1>8, <1>9, <1>10, <1>11, <1>12, <1>13

LEMMA EndsTestKeeps ==
    ASSUME Inv, NEW p \in Callers, EndsTest(p)
    PROVE  Inv' /\ (ClockInv => ClockInv')
<1> USE DEF Inv
<1>s. PICK s : s = dial[p].session
  OBVIOUS
<1>r. PICK r : r = [sessions[s] EXCEPT !.state = "gone"]
  OBVIOUS
<1>0. dial[p].stage = "raw" /\ dial[p].call.op = "test"
  BY DEF EndsTest, At
<1>1. /\ s \in DOMAIN sessions /\ sessions[s].taken = {} /\ sessions[s].state = "open" /\ sessions[s].told = 0
      /\ sessions[s].monitor = "none" /\ p \in readers /\ writer = Nobody /\ writer # p
  BY <1>0, <1>s, HasSession, ConnectAssumption DEF OwnerInv, Owned, LockInv, Chain
<1>2. Turns(p, "idle", s)
  BY <1>s, Turn DEF EndsTest, Ends
<1>3. /\ r \in SessionSet /\ r.state = "gone" /\ r.monitor = "none" /\ r.taken = {} /\ r.told = 0
      /\ r.late = sessions[s].late /\ r.stop = sessions[s].stop /\ r.by = sessions[s].by
  BY <1>1, <1>r, SessionIs DEF SessionSet
<1>4. Sets(s, r)
  BY <1>1, <1>3, <1>r, <1>s, SetSession DEF EndsTest
<1>6. UNCHANGED <<scenario, slot, writer, todo, status, tangled>> /\ readers' = readers \ {p}
  BY DEF EndsTest
<1>7. TypeInv'
  <2>1. /\ Len(sessions') = Len(sessions) /\ sessions' \in Seq(SessionSet) /\ slot' = slot /\ todo' = todo
        /\ scenario' = scenario /\ tangled' = tangled
    BY <1>4, <1>6 DEF Sets
  <2>2. ASSUME NEW q \in Callers
        PROVE  /\ DOMAIN dial'[q] = DialFields /\ dial'[q].stage \in Stages
               /\ dial'[q].session \in 0 .. Len(sessions')
               /\ dial'[q].stage # "idle" => dial'[q].call \in Call
    <3>1. CASE q = p
      BY <1>1, <1>2, <1>s, <2>1, <3>1 DEF Turns, Stages, TypeInv
    <3>2. CASE q # p
      BY <1>2, <2>1, <3>2 DEF Turns, TypeInv
    <3> QED
      BY <3>1, <3>2
  <2>3. DOMAIN dial' = Callers
    BY <1>2 DEF Turns
  <2>4. /\ scenario' \in {Scenarios[k] : k \in DOMAIN Scenarios} /\ tangled' \in BOOLEAN
        /\ todo' \in [Callers -> Seq(Call)] /\ slot' \in 0 .. Len(sessions')
    BY <2>1 DEF TypeInv
  <2> QED
    BY <2>1, <2>2, <2>3, <2>4 DEF TypeInv
<1>8. LockInv'
  BY <1>0, <1>1, <1>2, <1>6 DEF LockInv, Turns
<1>9. AttemptInv'
  <2>1. Attempting(p)'
    BY <1>2 DEF Attempting, Turns, Early, Chain
  <2> QED
    BY <1>0, <1>1, <1>2, <1>4, <1>s, <2>1, OtherAttempts DEF Turns, Chain
<1>10. OwnerInv'
  <2>1. ASSUME NEW j \in DOMAIN sessions, j = s PROVE Owned(j)'
    BY <1>1, <1>2, <1>3, <1>4, <1>6, <2>1 DEF Owned, Turns, Sets, OwnerInv
  <2> QED
    BY <1>0, <1>1, <1>2, <1>3, <1>4, <1>6, <1>s, <2>1, OtherOwners DEF Turns, Chain
<1>11. MonitorInv'
  BY <1>1, <1>3, <1>4, <1>6, MonitorsKept
<1>12. StatusInv'
  BY <1>1, <1>2, <1>3, <1>4, <1>6 DEF StatusInv, Turns, Sets, Cleaning, Ids
<1>13. ClockInv => ClockInv'
  BY <1>1, <1>2, TurnClock
<1> QED
  BY <1>7, <1>8, <1>9, <1>10, <1>11, <1>12, <1>13

LEMMA ProceedsKeeps ==
    ASSUME Inv, NEW p \in Callers, Proceeds(p)
    PROVE  Inv' /\ (ClockInv => ClockInv')
<1> USE DEF Inv
<1>1. /\ dial[p].stage = "free" /\ dial[p].session = 0
      /\ writer = p /\ p # Nobody /\ slot = 0 /\ readers = {} /\ dial[p].call.op # "test"
  BY ConnectAssumption DEF Proceeds, At, AttemptInv, Attempting, Early, LockInv
<1>2. UNCHANGED <<scenario, slot, readers, todo, tangled, sessions>>
  BY DEF Proceeds
<1>3. \/ Turns(p, "idle", 0) /\ writer' = Nobody /\ UNCHANGED status
      \/ Turns(p, "merge", 0) /\ writer' = p /\ status'.state = "connecting" /\ dial[p].call.op # "disconnect"
  BY <1>1, Turn DEF Proceeds, Ends, Says
<1>4. PICK stage \in {"idle", "merge"} : Turns(p, stage, 0)
  BY <1>3
<1>5. (\A q \in Callers: q # p => Attempting(q)') /\ OwnerInv' /\ MonitorInv'
  BY <1>1, <1>2, <1>4, StayKept DEF Turns, Chain
<1>7. TypeInv'
  BY <1>1, <1>2, <1>4 DEF TypeInv, Turns, Stages
<1>8. LockInv'
  BY <1>1, <1>2, <1>3, ConnectAssumption DEF LockInv, Turns
<1>9. AttemptInv'
  <2>1. Attempting(p)'
    BY <1>4 DEF Attempting, Turns, Early, Chain
  <2> QED
    BY <1>5, <2>1 DEF AttemptInv
<1>12. StatusInv'
  <2>1. Cleaning' = Cleaning
    BY <1>2 DEF Cleaning, Ids
  <2>2. \A q \in Callers: dial'[q].stage # "stored"
    BY <1>1, <1>4 DEF Turns, LockInv
  <2>3. ~tangled => (status.state = "connected" => Cleaning)
    BY <1>1 DEF StatusInv
  <2> QED
    BY <1>1, <1>2, <1>3, <2>1, <2>2, <2>3 DEF StatusInv
<1>13. ClockInv => ClockInv'
  BY <1>1, <1>4, TurnClock
<1> QED
  BY <1>5, <1>7, <1>8, <1>9, <1>12, <1>13

LEMMA ReportsFailureKeeps ==
    ASSUME Inv, NEW p \in Callers, ReportsFailure(p)
    PROVE  Inv' /\ (ClockInv => ClockInv')
<1> USE DEF Inv
<1>1. /\ dial[p].stage = "failed"
      /\ dial[p].call.op = "connect" => writer = p /\ slot = 0 /\ readers = {}
      /\ dial[p].call.op # "connect" => dial[p].call.op = "test" /\ p \in readers /\ writer = Nobody /\ writer # p
  <2>1. dial[p].stage = "failed"
    BY DEF ReportsFailure, At
  <2>2. dial[p].call.op \in {"connect", "test", "disconnect"} /\ dial[p].call.op # "disconnect"
    BY <2>1 DEF LockInv, TypeInv, Call
  <2>3. IF dial[p].call.op = "test" THEN p \in readers ELSE writer = p
    BY <2>1 DEF LockInv
  <2>4. p # Nobody
    BY ConnectAssumption
  <2>5. writer = p => slot = 0 /\ readers = {}
    BY <2>1, <2>4 DEF LockInv
  <2>6. p \in readers => writer = Nobody
    BY DEF LockInv
  <2> QED
    BY <2>1, <2>2, <2>3, <2>4, <2>5, <2>6
<1>2. UNCHANGED <<scenario, slot, todo, tangled, sessions>>
  BY DEF ReportsFailure
<1>3. Turns(p, "idle", dial[p].session)
  BY Turn DEF ReportsFailure, Ends
<1>4. IF dial[p].call.op = "connect" THEN writer' = Nobody /\ readers' = readers /\ status'.state = "error"
      ELSE UNCHANGED <<writer, status>> /\ readers' = readers \ {p}
  BY DEF ReportsFailure, Says
<1>5. (\A q \in Callers: q # p => Attempting(q)') /\ OwnerInv' /\ MonitorInv'
  BY <1>1, <1>2, <1>3, StayKept DEF Turns, Chain
<1>7. TypeInv'
  BY <1>2, <1>3 DEF TypeInv, Turns, Stages
<1>8. LockInv'
  BY <1>1, <1>2, <1>3, <1>4, ConnectAssumption DEF LockInv, Turns
<1>9. AttemptInv'
  <2>1. Attempting(p)'
    BY <1>3 DEF Attempting, Turns, Early, Chain
  <2> QED
    BY <1>5, <2>1 DEF AttemptInv
<1>12. StatusInv'
  <2>1. Cleaning' = Cleaning
    BY <1>2 DEF Cleaning, Ids
  <2>2. \A q \in Callers: dial'[q].stage = "stored" => dial[q].stage = "stored" /\ dial'[q].session = dial[q].session
    BY <1>3 DEF Turns
  <2>3. CASE dial[p].call.op = "connect"
    BY <1>1, <1>2, <1>4, <2>1, <2>2, <2>3 DEF StatusInv
  <2>4. CASE dial[p].call.op # "connect"
    BY <1>1, <1>2, <1>3, <1>4, <2>1, <2>2, <2>4 DEF StatusInv, Turns
  <2> QED
    BY <2>3, <2>4
<1>13. ClockInv => ClockInv'
  BY <1>1, <1>3, TurnClock
<1> QED
  BY <1>5, <1>7, <1>8, <1>9, <1>12, <1>13

LEMMA ConnectedKeeps ==
    ASSUME Inv, NEW p \in Callers, Connected(p)
    PROVE  Inv' /\ (ClockInv => ClockInv')
<1> USE DEF Inv
<1>1. /\ dial[p].stage = "stored"
      /\ writer = p /\ p # Nobody /\ readers = {} /\ dial[p].call.op # "test"
  BY ConnectAssumption DEF Connected, At, LockInv
<1>2. UNCHANGED <<scenario, slot, readers, todo, tangled, sessions>> /\ writer' = Nobody
  BY DEF Connected
<1>3. Turns(p, "idle", dial[p].session)
  BY Turn DEF Connected, Ends
<1>4. status'.state = "connected" /\ status'.session = dial[p].session
  BY DEF Connected, Says
<1>5. (\A q \in Callers: q # p => Attempting(q)') /\ OwnerInv' /\ MonitorInv'
  BY <1>1, <1>2, <1>3, StayKept DEF Turns, Chain
<1>7. TypeInv'
  BY <1>2, <1>3 DEF TypeInv, Turns, Stages
<1>8. LockInv'
  BY <1>1, <1>2, <1>3, ConnectAssumption DEF LockInv, Turns
<1>9. AttemptInv'
  <2>1. Attempting(p)'
    BY <1>3 DEF Attempting, Turns, Early, Chain
  <2> QED
    BY <1>5, <2>1 DEF AttemptInv
<1>12. StatusInv'
  <2>1. \A q \in Callers: dial'[q].stage # "stored"
    BY <1>1, <1>3 DEF Turns, LockInv
  <2>2. ~tangled => slot # 0 /\ dial[p].session = slot
    BY <1>1 DEF StatusInv
  <2> QED
    BY <1>2, <1>4, <2>1, <2>2 DEF StatusInv
<1>13. ClockInv => ClockInv'
  BY <1>1, <1>3, TurnClock
<1> QED
  BY <1>5, <1>7, <1>8, <1>9, <1>12, <1>13

LEMMA CallsKeeps ==
    ASSUME Inv, NEW p \in Callers, Calls(p)
    PROVE  Inv' /\ (ClockInv => ClockInv')
<1> USE DEF Inv
<1>c. PICK call, stage : /\ call = todo[p][1] /\ stage = IF call.op = "test" THEN "merge" ELSE "take"
                         /\ dial' = [dial EXCEPT ![p] = [Idle EXCEPT !.call = call, !.stage = stage]]
                         /\ IF call.op = "test" THEN readers' = readers \cup {p} /\ UNCHANGED writer
                            ELSE readers = {} /\ writer' = p /\ UNCHANGED readers
  BY DEF Calls, Becomes
<1>1. dial[p].stage = "idle" /\ writer = Nobody /\ p # Nobody
  BY ConnectAssumption DEF Calls, At
<1>2. UNCHANGED <<scenario, slot, tangled, sessions, status>> /\ todo' = [todo EXCEPT ![p] = Tail(@)]
  BY DEF Calls
<1>3. todo' \in [Callers -> Seq(Call)] /\ call \in Call
  <2>1. todo[p] \in Seq(Call) /\ todo[p] # <<>>
    BY DEF Calls, TypeInv
  <2>2. todo[p][1] \in Call /\ Tail(todo[p]) \in Seq(Call)
    BY <2>1
  <2> QED
    BY <1>2, <1>c, <2>2 DEF TypeInv
<1>4. /\ DOMAIN dial' = Callers
      /\ \A q \in Callers: q # p => dial'[q] = dial[q]
      /\ DOMAIN dial'[p] = DialFields
      /\ dial'[p].stage = stage /\ dial'[p].session = 0 /\ dial'[p].call = call
      /\ dial'[p].clock = 0 /\ dial'[p].deadline = 0
  BY <1>c DEF TypeInv, Idle, DialFields
<1>5. (\A q \in Callers: q # p => Attempting(q)') /\ OwnerInv' /\ MonitorInv'
  BY <1>1, <1>2, <1>4, StayKept DEF Chain
<1>6. stage \in {"merge", "take"} /\ (stage = "merge" <=> call.op = "test")
  BY <1>c
<1>7. TypeInv'
  <2>1. 0 \in 0 .. Len(sessions)
    BY Length
  <2>2. stage \in Stages
    BY <1>6 DEF Stages
  <2> QED
    BY <1>2, <1>3, <1>4, <2>1, <2>2 DEF TypeInv
<1>8. LockInv'
  BY <1>1, <1>2, <1>4, <1>6, <1>c, ConnectAssumption DEF LockInv
<1>9. AttemptInv'
  <2>1. Attempting(p)'
    BY <1>4, <1>6 DEF Attempting, Early, Chain
  <2> QED
    BY <1>5, <2>1 DEF AttemptInv
<1>12. StatusInv'
  <2>1. Cleaning' = Cleaning
    BY <1>2 DEF Cleaning, Ids
  <2>2. \A q \in Callers: dial'[q].stage = "stored" => dial[q].stage = "stored" /\ dial'[q].session = dial[q].session
    BY <1>4, <1>6
  <2>3. ~ \E q \in Callers: q = writer
    BY <1>1, ConnectAssumption
  <2> QED
    BY <1>2, <2>1, <2>2, <2>3 DEF StatusInv
<1>13. ASSUME ClockInv PROVE ClockInv'
  <2>1. ClockOK(dial'[p])
    BY <1>4, <1>6, Limits DEF ClockOK, Chain
  <2> QED
    BY <1>13, <1>4, <2>1 DEF ClockInv
<1> QED
  BY <1>5, <1>7, <1>8, <1>9, <1>12, <1>13

LEMMA TakesKeeps ==
    ASSUME Inv, NEW p \in Callers, Takes(p)
    PROVE  Inv' /\ (ClockInv => ClockInv')
<1> USE DEF Inv
<1>1. /\ dial[p].stage = "take" /\ writer = p /\ dial[p].call.op # "test"
      /\ slot' = 0
      /\ UNCHANGED <<scenario, writer, readers, todo, status, tangled>>
  BY DEF Takes, Taken, At, LockInv
<1>2. CASE slot = 0
  <2>1. UNCHANGED <<sessions, slot>> /\ Turns(p, "free", 0)
    BY <1>1, <1>2, TurnSession DEF Takes
  <2>2. (\A q \in Callers: q # p => Attempting(q)') /\ OwnerInv' /\ MonitorInv'
    BY <1>1, <2>1, StayKept DEF Turns, Chain
  <2>3. TypeInv'
    BY <1>1, <2>1 DEF TypeInv, Turns, Stages
  <2>4. LockInv'
    BY <1>1, <1>2, <2>1 DEF LockInv, Turns
  <2>5. Attempting(p)'
    BY <2>1 DEF Attempting, Turns, Early, Chain
  <2>6. StatusInv'
    <3>1. Cleaning' = Cleaning
      BY <2>1 DEF Cleaning, Ids
    <3>2. \A q \in Callers: dial'[q].stage # "stored"
      BY <1>1, <2>1 DEF Turns, LockInv
    <3> QED
      BY <1>1, <1>2, <2>1, <3>1, <3>2 DEF StatusInv
  <2>7. ClockInv => ClockInv'
    BY <1>1, <2>1, TurnClock
  <2> QED
    BY <2>2, <2>3, <2>4, <2>5, <2>6, <2>7 DEF AttemptInv
<1>3. CASE slot # 0
  <2>s. PICK s : s = slot
    OBVIOUS
  <2>r. PICK r : r = [sessions[s] EXCEPT !.state = "taken", !.taken = @ \cup {p}, !.stop = TRUE,
                                         !.late = sessions[s].monitor \in {"check", "probe", "lost"}]
    OBVIOUS
  <2>1. s \in DOMAIN sessions /\ sessions[s].state = "held" /\ sessions[s].taken = {} /\ sessions[s].told = 0
    BY <1>3, <2>s DEF TypeInv, OwnerInv, Owned
  <2>2. Turns(p, "dispose", s)
    BY <1>3, <2>s, TurnSession DEF Takes
  <2>3. /\ r \in SessionSet /\ r.state = "taken" /\ r.monitor = sessions[s].monitor /\ r.taken = {p} /\ r.told = 0
        /\ r.stop = TRUE /\ r.by = sessions[s].by
        /\ r.late = (sessions[s].monitor \in {"check", "probe", "lost"})
    <3>1. sessions[s] \in SessionSet
      BY <2>1, SessionIs
    <3>5. (sessions[s].monitor \in {"check", "probe", "lost"}) \in BOOLEAN
      OBVIOUS
    <3>2. PICK late : late = (sessions[s].monitor \in {"check", "probe", "lost"}) /\ late \in BOOLEAN
      BY <3>5, Zenon
    <3>3. r = [sessions[s] EXCEPT !.state = "taken", !.taken = {p}, !.stop = TRUE, !.late = late]
      BY <2>1, <2>r, <3>1, <3>2 DEF SessionSet
    <3>4. r \in SessionSet
      BY <2>1, <3>1, <3>2, <3>3 DEF SessionSet
    <3> QED
      BY <2>1, <3>1, <3>2, <3>3, <3>4 DEF SessionSet
  <2>4. Sets(s, r)
    <3>1. sessions' = [sessions EXCEPT ![s].state = "taken", ![s].taken = @ \cup {p}, ![s].stop = TRUE,
                                       ![s].late = sessions[s].monitor \in {"check", "probe", "lost"}]
      BY <1>3, <2>s DEF Takes
    <3>2. sessions' = [sessions EXCEPT ![s] = r]
      BY <2>1, <2>r, <3>1 DEF TypeInv
    <3> QED
      BY <2>1, <2>3, <3>2, SetSession
  <2>5. TypeInv'
    <3>1. 0 \in 0 .. Len(sessions) /\ s \in 0 .. Len(sessions)
      BY <2>1, Length
    <3> QED
      BY <1>1, <2>2, <2>4, <3>1 DEF TypeInv, Turns, Sets, Stages
  <2>6. LockInv'
    BY <1>1, <2>2 DEF LockInv, Turns
  <2>7. AttemptInv'
    <3>1. Attempting(p)'
      BY <2>1, <2>2, <2>3, <2>4, SessionIs DEF Attempting, Turns, Sets, Early, Chain
    <3>2. ASSUME NEW q \in Callers, q # p PROVE Attempting(q)'
      <4>1. dial[q].stage \in Chain \cup {"dispose", "bye"} => dial[q].session # s /\ dial[q].session \in DOMAIN sessions
        BY <2>1, HasSession
      <4> QED
        BY <2>2, <2>4, <3>2, <4>1, AttemptKept DEF Turns, Sets
    <3> QED
      BY <3>1, <3>2 DEF AttemptInv
  <2>8. OwnerInv'
    <3>1. ASSUME NEW j \in DOMAIN sessions, j # s PROVE Owned(j)'
      <4>1. \A q \in Callers: dial[q].stage \in Chain \cup {"dispose", "bye"} /\ dial[q].session = j => dial'[q] = dial[q]
        BY <1>1, <2>2 DEF Turns, Chain
      <4>2. \A i \in DOMAIN sessions: sessions'[i].monitor = sessions[i].monitor
        BY <2>3, <2>4 DEF Sets
      <4>3. slot' # j /\ slot # j
        BY <1>1, <2>s, <3>1, SessionIs
      <4> QED
        BY <2>4, <3>1, <4>1, <4>2, <4>3, OwnerKept DEF Sets
    <3>2. ASSUME NEW j \in DOMAIN sessions, j = s PROVE Owned(j)'
      <4>1. /\ sessions'[j].state = "taken" /\ sessions'[j].taken = {p} /\ sessions'[j].told = 0
            /\ slot' # j
        BY <1>1, <2>1, <2>3, <2>4, <3>2, SessionIs DEF Sets
      <4>2. CallerHas(p, j, "dispose")'
        BY <2>2, <3>2 DEF CallerHas, Turns
      <4> QED
        BY <4>1, <4>2 DEF Owned
    <3> QED
      BY <2>4, <3>1, <3>2 DEF OwnerInv, Sets
  <2>9. MonitorInv'
    <3>1. p \notin DOMAIN sessions /\ 0 \notin DOMAIN sessions
      BY SessionIs, ConnectAssumption DEF TypeInv
    <3>2. \A i \in DOMAIN sessions: sessions'[i].monitor = sessions[i].monitor
      BY <2>3, <2>4 DEF Sets
    <3>3. \A i, j \in DOMAIN sessions: i \in sessions'[j].taken <=> i \in sessions[j].taken
      BY <2>1, <2>3, <2>4, <3>1 DEF Sets
    <3>4. \A i \in DOMAIN sessions: i # s => sessions'[i] = sessions[i]
      BY <2>4 DEF Sets
    <3>5. sessions'[s].stop = TRUE /\ sessions'[s].late = (sessions[s].monitor \in {"check", "probe", "lost"})
      BY <2>3, <2>4 DEF Sets
    <3>6. \A i \in DOMAIN sessions: i \notin sessions[s].taken /\ sessions'[i].state \in {"open", "held"} => sessions[i].state \in {"open", "held"}
      BY <2>1, <2>3, <2>4 DEF Sets
    <3>7. \A j \in DOMAIN sessions: s \notin sessions[j].taken
      BY <2>1 DEF MonitorInv
    <3>8. DOMAIN sessions' = DOMAIN sessions
      BY <2>4 DEF Sets
    <3>9. ASSUME NEW i \in DOMAIN sessions
          PROVE  /\ sessions'[i].monitor \in {"check", "probe", "lost"} => sessions'[i].late
                 /\ sessions'[i].monitor = "sleep" => sessions'[i].late \/ sessions'[i].stop
      <4>1. CASE i = s
        BY <3>2, <3>5, <4>1
      <4>2. CASE i # s
        BY <2>s, <3>4, <4>2 DEF MonitorInv
      <4> QED
        BY <4>1, <4>2
    <3>10. ASSUME NEW i \in DOMAIN sessions, NEW j \in DOMAIN sessions, i \in sessions[j].taken
           PROVE  i # s /\ j # s /\ sessions'[i] = sessions[i] /\ sessions'[j] = sessions[j]
      BY <2>1, <3>4, <3>7, <3>10
    <3>11. ASSUME NEW i \in DOMAIN sessions
           PROVE  /\ sessions'[i].monitor = "dispose" => \E j \in DOMAIN sessions: i \in sessions'[j].taken /\ sessions'[j].state = "taken"
                  /\ sessions'[i].monitor = "bye" => \E j \in DOMAIN sessions: i \in sessions'[j].taken /\ sessions'[j].state = "disposed"
      BY <3>2, <3>10 DEF MonitorInv
    <3>12. ASSUME NEW i \in DOMAIN sessions, NEW j \in DOMAIN sessions, i \in sessions'[j].taken
           PROVE  /\ sessions'[i].monitor \in {"dispose", "bye", "done"}
                  /\ sessions'[i].state \notin {"open", "held"}
                  /\ i # j => sessions'[i].late
      BY <3>3, <3>10, <3>12 DEF MonitorInv
    <3>13. \A i, j, k \in DOMAIN sessions: i \in sessions'[j].taken /\ i \in sessions'[k].taken => j = k
      BY <3>3 DEF MonitorInv
    <3> QED
      BY <3>8, <3>9, <3>11, <3>12, <3>13 DEF MonitorInv
  <2>10. StatusInv'
    <3>1. \A q \in Callers: dial'[q].stage # "stored"
      BY <1>1, <2>2 DEF Turns, LockInv
    <3>2. dial'[p].stage = "dispose" /\ p = writer'
      BY <1>1, <2>2 DEF Turns
    <3> QED
      BY <1>1, <3>1, <3>2 DEF StatusInv
  <2>11. ClockInv => ClockInv'
    BY <1>1, <2>2, TurnClock
  <2> QED
    BY <2>5, <2>6, <2>7, <2>8, <2>9, <2>10, <2>11
<1> QED
  BY <1>2, <1>3

LEMMA StoresKeeps ==
    ASSUME Inv, NEW p \in Callers, Stores(p)
    PROVE  Inv' /\ (ClockInv => ClockInv')
<1> USE DEF Inv
<1>s. PICK s : s = dial[p].session
  OBVIOUS
<1>r. PICK r : r = [sessions[s] EXCEPT !.state = "held", !.monitor = "sleep"]
  OBVIOUS
<1>0. dial[p].stage = "raw" /\ dial[p].call.op = "connect"
  BY DEF Stores, At
<1>1. /\ s \in DOMAIN sessions /\ sessions[s].taken = {} /\ sessions[s].state = "open" /\ sessions[s].told = 0
      /\ sessions[s].monitor = "none" /\ writer = p /\ slot = 0
  BY <1>0, <1>s, HasSession DEF OwnerInv, Owned, LockInv, Chain
<1>2. Turns(p, "stored", s)
  BY <1>s, TurnProjects DEF Stores
<1>3. /\ r \in SessionSet /\ r.state = "held" /\ r.monitor = "sleep" /\ r.taken = {} /\ r.told = 0
  <2>1. sessions[s] \in SessionSet
    BY <1>1, SessionIs
  <2> QED
    BY <1>1, <1>r, <2>1 DEF SessionSet
<1>4. Sets(s, r)
  <2>1. sessions' = [i \in DOMAIN sessions |-> IF i = s THEN r ELSE sessions[i]]
    BY <1>1, <1>r, <1>s, SessionIs DEF Stores, Ids
  <2>2. sessions' = [sessions EXCEPT ![s] = r]
    BY <2>1 DEF TypeInv
  <2> QED
    BY <1>1, <1>3, <2>2, SetSession
<1>5. UNCHANGED <<scenario, writer, readers, todo, status, tangled>> /\ slot' = s
  BY <1>s DEF Stores
<1>6. s # 0
  BY <1>1, SessionIs
<1>7. TypeInv'
  <2>1. s \in 0 .. Len(sessions)
    BY <1>1, Length
  <2>2. \A q \in Callers: dial'[q].session \in 0 .. Len(sessions')
    BY <1>2, <1>4, <2>1 DEF TypeInv, Turns, Sets
  <2>3. slot' \in 0 .. Len(sessions') /\ sessions' \in Seq(SessionSet)
    BY <1>4, <1>5, <2>1 DEF Sets
  <2>4. ASSUME NEW q \in Callers
        PROVE  /\ DOMAIN dial'[q] = DialFields
               /\ dial'[q].stage \in Stages
               /\ dial'[q].stage # "idle" => dial'[q].call \in Call
    BY <1>0, <1>2 DEF TypeInv, Turns, Stages
  <2> QED
    BY <1>2, <1>5, <2>2, <2>3, <2>4 DEF TypeInv, Turns
<1>8. LockInv'
  BY <1>0, <1>1, <1>2, <1>5 DEF LockInv, Turns
<1>9. AttemptInv'
  <2>1. Attempting(p)'
    BY <1>2 DEF Attempting, Turns, Early, Chain
  <2> QED
    BY <1>0, <1>1, <1>2, <1>4, <1>s, <2>1, OtherAttempts DEF Turns, Chain
<1>10. OwnerInv'
  <2>1. ASSUME NEW j \in DOMAIN sessions, j = s PROVE Owned(j)'
    BY <1>3, <1>4, <1>5, <2>1 DEF Owned, Sets
  <2>2. \A j \in DOMAIN sessions: j # s => (slot' = j <=> slot = j)
    BY <1>1, <1>5, SessionIs
  <2> QED
    BY <1>0, <1>1, <1>2, <1>4, <1>s, <2>1, <2>2, OtherOwners DEF Turns, Chain
<1>11. MonitorInv'
  <2>1. \A j \in DOMAIN sessions: s \notin sessions[j].taken
    BY <1>1 DEF MonitorInv
  <2>2. \A i, j \in DOMAIN sessions: i \in sessions'[j].taken <=> i \in sessions[j].taken
    BY <1>1, <1>3, <1>4 DEF Sets
  <2>3. ASSUME NEW i \in DOMAIN sessions, NEW j \in DOMAIN sessions, i \in sessions[j].taken
        PROVE  sessions'[i] = sessions[i] /\ sessions'[j] = sessions[j]
    BY <1>1, <1>4, <2>1, <2>3 DEF Sets
  <2>4. DOMAIN sessions' = DOMAIN sessions
    BY <1>4 DEF Sets
  <2>5. ASSUME NEW i \in DOMAIN sessions
        PROVE  /\ sessions'[i].monitor = "dispose" => \E j \in DOMAIN sessions: i \in sessions'[j].taken /\ sessions'[j].state = "taken"
               /\ sessions'[i].monitor = "bye" => \E j \in DOMAIN sessions: i \in sessions'[j].taken /\ sessions'[j].state = "disposed"
               /\ sessions'[i].monitor \in {"check", "probe", "lost"} /\ slot' # i => sessions'[i].late
               /\ sessions'[i].monitor = "sleep" /\ slot' # i => sessions'[i].late \/ sessions'[i].stop
    <3>1. CASE i = s
      BY <1>3, <1>4, <1>5, <3>1 DEF Sets
    <3>2. CASE i # s
      <4>1. sessions'[i] = sessions[i] /\ slot # i
        BY <1>1, <1>4, <3>2, SessionIs DEF Sets
      <4> QED
        BY <2>3, <4>1 DEF MonitorInv
    <3> QED
      BY <3>1, <3>2
  <2>6. ASSUME NEW i \in DOMAIN sessions, NEW j \in DOMAIN sessions, i \in sessions'[j].taken
        PROVE  /\ sessions'[i].monitor \in {"dispose", "bye", "done"}
               /\ sessions'[i].state \notin {"open", "held"}
               /\ i # j => sessions'[i].late
    BY <2>2, <2>3, <2>6 DEF MonitorInv
  <2>7. \A i, j, k \in DOMAIN sessions: i \in sessions'[j].taken /\ i \in sessions'[k].taken => j = k
    BY <2>2 DEF MonitorInv
  <2> QED
    BY <2>4, <2>5, <2>6, <2>7 DEF MonitorInv
<1>12. StatusInv'
  <2>1. Cleaning' = Cleaning
    BY <1>1, <1>3, <1>4 DEF Cleaning, Ids, Sets
  <2>2. ~tangled => (status.state = "connected" => Cleaning)
    BY <1>0, <1>1 DEF StatusInv
  <2>3. \A q \in Callers: dial'[q].stage = "stored" => q = p
    BY <1>1, <1>2 DEF Turns, LockInv
  <2>4. dial'[p].stage = "stored" /\ dial'[p].session = s
    BY <1>2 DEF Turns
  <2> QED
    BY <1>1, <1>5, <1>6, <2>1, <2>2, <2>3, <2>4 DEF StatusInv
<1>13. ClockInv => ClockInv'
  BY <1>1, <1>2, TurnClock
<1> QED
  BY <1>7, <1>8, <1>9, <1>10, <1>11, <1>12, <1>13

\* A step of an attempt changes nothing but the attempt and its session.
LEMMA DialingKeeps ==
    ASSUME Inv, NEW p \in Callers, Dialing(p)
    PROVE  Inv' /\ (ClockInv => ClockInv')
<1> USE DEF Inv
<1>0. PICK e : DialStep(p, e)
  BY DialsStep DEF Dialing
<1>1. UNCHANGED <<scenario, slot, writer, readers, todo, status, tangled>>
  BY DialsStep DEF Dialing, linkVars
<1>2. /\ DOMAIN dial' = Callers /\ dial'[p] = e
      /\ \A q \in Callers: q # p => dial'[q] = dial[q]
      /\ DOMAIN e = DialFields /\ e.call = dial[p].call
  BY <1>0 DEF DialStep, TypeInv
<1>3. Opens(p, dial[p], e) \/ GivesIn(p, dial[p], e) \/ GoesOn(dial[p], e)
  BY <1>0 DEF DialStep
<1>4. /\ dial[p].stage \in {"merge", "resolve", "probe", "handshake", "discover", "auth", "sftp"}
      /\ e.stage \in {"resolve", "probe", "handshake", "discover", "auth", "sftp", "raw", "failed"}
  BY <1>3, Zenon DEF Opens, GivesIn, GoesOn
<1>5. LockInv'
  BY <1>1, <1>2, <1>4 DEF LockInv
<1>6. ASSUME ClockInv PROVE ClockInv'
  <2>1. ClockOK(e)
    BY <1>0, <1>6 DEF DialStep, ClockInv
  <2> QED
    BY <1>2, <1>6, <2>1 DEF ClockInv
<1>7. ASSUME sessions' \in Seq(SessionSet), e.session \in 0 .. Len(sessions'), Len(sessions') >= Len(sessions)
      PROVE  TypeInv'
  <2>l. Len(sessions) \in Nat /\ Len(sessions') \in Nat
    BY <1>7 DEF TypeInv
  <2>1. ASSUME NEW q \in Callers PROVE dial'[q].session \in 0 .. Len(sessions')
    <3>1. CASE q = p
      BY <1>2, <1>7, <3>1
    <3>2. CASE q # p
      <4>1. dial'[q].session = dial[q].session /\ dial[q].session \in 0 .. Len(sessions)
        BY <1>2, <3>2 DEF TypeInv
      <4> QED
        BY <1>7, <2>l, <4>1
    <3> QED
      BY <3>1, <3>2
  <2>2. slot \in 0 .. Len(sessions')
    BY <1>7, <2>l DEF TypeInv
  <2>3. e.stage \in Stages
    BY <1>4 DEF Stages
  <2> QED
    BY <1>1, <1>2, <1>4, <1>7, <2>1, <2>2, <2>3 DEF TypeInv
<1>8. ASSUME Cleaning' = Cleaning PROVE StatusInv'
  BY <1>1, <1>2, <1>4, <1>8 DEF StatusInv
<1>9. CASE UNCHANGED sessions /\ e.session = dial[p].session /\ GoesOn(dial[p], e)
  <2>1. TypeInv'
    BY <1>7, <1>9, Length DEF TypeInv
  <2>2. Attempting(p)'
    <3>1. Attempting(p)
      BY DEF AttemptInv
    <3> QED
      BY <1>2, <1>9, <3>1 DEF Attempting, GoesOn, Early, Chain
  <2>3. ASSUME NEW q \in Callers, q # p PROVE Attempting(q)'
    BY <1>2, <1>9, <2>3, AttemptKept
  <2>4. ASSUME NEW j \in DOMAIN sessions PROVE Owned(j)'
    <3>1. dial[p].stage \in Chain \cup {"dispose", "bye"} => {dial[p].stage, e.stage} \subseteq Chain
      BY <1>9 DEF GoesOn, Chain
    <3> QED
      BY <1>1, <1>2, <1>9, <3>1, OwnerKept
  <2>5. MonitorInv'
    BY <1>1, <1>9 DEF MonitorInv
  <2>6. StatusInv'
    BY <1>8, <1>9 DEF Cleaning, Ids
  <2> QED
    BY <1>5, <1>6, <1>9, <2>1, <2>2, <2>3, <2>4, <2>5, <2>6 DEF AttemptInv, OwnerInv
<1>10. CASE GivesIn(p, dial[p], e)
  <2>1. e.stage = "failed" /\ e.session = dial[p].session /\ DropSession(p)
    BY <1>10 DEF GivesIn
  <2>2. Attempting(p)'
    BY <1>2, <2>1 DEF Attempting, Early, Chain
  <2>3. CASE dial[p].session = 0
    <3>1. UNCHANGED sessions
      BY <2>1, <2>3 DEF DropSession
    <3>2. dial[p].stage \notin Chain \cup {"dispose", "bye"}
      BY <2>3 DEF AttemptInv, Attempting, Chain
    <3>3. (\A q \in Callers: q # p => Attempting(q)') /\ OwnerInv' /\ MonitorInv'
      BY <1>1, <1>2, <3>1, <3>2, StayKept
    <3>4. TypeInv'
      BY <1>7, <2>1, <3>1, Length DEF TypeInv
    <3>5. StatusInv'
      BY <1>8, <3>1 DEF Cleaning, Ids
    <3> QED
      BY <1>5, <1>6, <2>2, <3>3, <3>4, <3>5 DEF AttemptInv
  <2>4. CASE dial[p].session # 0
    <3>s. PICK s : s = dial[p].session
      OBVIOUS
    <3>r. PICK r : r = [sessions[s] EXCEPT !.state = "dropped"]
      OBVIOUS
    <3>1. dial[p].stage \in Chain
      BY <1>4, <2>4 DEF AttemptInv, Attempting, Early, Chain
    <3>2. /\ s \in DOMAIN sessions /\ sessions[s].taken = {} /\ sessions[s].state = "open" /\ sessions[s].told = 0
          /\ sessions[s].monitor = "none" /\ slot # s
      BY <3>1, <3>s, HasSession DEF OwnerInv, Owned, Chain
    <3>3. /\ r \in SessionSet /\ r.state = "dropped" /\ r.monitor = "none" /\ r.taken = {} /\ r.told = 0
          /\ r.late = sessions[s].late /\ r.stop = sessions[s].stop
      BY <3>2, <3>r, SessionIs DEF SessionSet
    <3>4. Sets(s, r)
      BY <2>1, <2>4, <3>2, <3>3, <3>r, <3>s, SetSession DEF DropSession
    <3>5. TypeInv'
      <4>1. Len(sessions') = Len(sessions) /\ sessions' \in Seq(SessionSet)
        BY <3>4 DEF Sets
      <4> QED
        BY <1>7, <2>1, <4>1, Length DEF TypeInv
    <3>6. AttemptInv'
      BY <1>2, <2>2, <3>1, <3>2, <3>4, <3>s, OtherAttempts
    <3>7. OwnerInv'
      <4>1. ASSUME NEW j \in DOMAIN sessions, j = s PROVE Owned(j)'
        BY <1>1, <3>2, <3>3, <3>4, <4>1 DEF Owned, Sets
      <4> QED
        BY <1>1, <1>2, <3>1, <3>2, <3>3, <3>4, <3>s, <4>1, OtherOwners
    <3>8. MonitorInv'
      BY <1>1, <3>2, <3>3, <3>4, MonitorsKept
    <3>9. StatusInv'
      BY <1>8, <3>2, <3>3, <3>4 DEF Cleaning, Ids, Sets
    <3> QED
      BY <1>5, <1>6, <3>5, <3>6, <3>7, <3>8, <3>9
  <2> QED
    BY <2>3, <2>4
<1>11. CASE Opens(p, dial[p], e)
  <2>s. PICK s : s = Len(sessions) + 1
    OBVIOUS
  <2>1. /\ dial[p].stage = "handshake" /\ e.stage = "discover" /\ e.session = s
        /\ sessions' = Append(sessions, NewSession(p))
    BY <1>11, <2>s DEF Opens
  <2>2. NewSession(p) \in SessionSet
    BY DEF NewSession, SessionSet
  <2>3. /\ sessions' \in Seq(SessionSet) /\ Len(sessions') = s /\ s \in Nat /\ s \notin DOMAIN sessions /\ s # 0
        /\ DOMAIN sessions' = DOMAIN sessions \cup {s}
        /\ \A i \in DOMAIN sessions: sessions'[i] = sessions[i]
        /\ sessions'[s] = NewSession(p)
    BY <2>1, <2>2, <2>s DEF TypeInv
  <2>4. TypeInv'
    <3>1. s \in 0 .. Len(sessions') /\ Len(sessions') >= Len(sessions)
      BY <2>3, <2>s, Length
    <3> QED
      BY <1>7, <2>1, <2>3, <3>1
  <2>5. AttemptInv'
    <3>1. Attempting(p)'
      BY <1>2, <2>1, <2>3 DEF Attempting, Early, Chain, NewSession
    <3>2. ASSUME NEW q \in Callers, q # p PROVE Attempting(q)'
      BY <1>2, <2>3, <3>2, HasSession, AttemptKept
    <3> QED
      BY <3>1, <3>2 DEF AttemptInv
  <2>6. OwnerInv'
    <3>1. ASSUME NEW j \in DOMAIN sessions PROVE Owned(j)'
      <4>1. dial[p].stage \notin Chain \cup {"dispose", "bye"}
        BY <2>1 DEF Chain
      <4> QED
        BY <1>1, <1>2, <2>3, <4>1, OwnerKept
    <3>2. ASSUME NEW j \in DOMAIN sessions', j = s PROVE Owned(j)'
      <4>1. /\ sessions'[j].state = "open" /\ sessions'[j].monitor = "none" /\ sessions'[j].taken = {} /\ sessions'[j].told = 0
        BY <2>3, <3>2 DEF NewSession
      <4>2. slot' # j
        BY <1>1, <2>3, <2>s, <3>2, Length DEF TypeInv
      <4>3. \E q \in Callers: dial'[q].stage \in Chain /\ dial'[q].session = j
        BY <1>2, <2>1, <3>2 DEF Chain
      <4> QED
        BY <4>1, <4>2, <4>3 DEF Owned
    <3> QED
      BY <2>3, <3>1, <3>2 DEF OwnerInv
  <2>7. MonitorInv'
    <3>1. sessions'[s].monitor = "none" /\ sessions'[s].taken = {}
      BY <2>3 DEF NewSession
    <3>2. \A j \in DOMAIN sessions: s \notin sessions[j].taken
      <4>1. s \notin Callers
        BY <2>3, ConnectAssumption
      <4>2. ASSUME NEW j \in DOMAIN sessions, s \in sessions[j].taken PROVE FALSE
        <5>1. Owned(j)
          BY DEF OwnerInv
        <5>2. sessions[j] \in SessionSet
          BY SessionIs
        <5> QED
          BY <4>1, <4>2, <5>1, <5>2, <2>3 DEF Owned, CallerHas, MonitorHas, SessionSet
      <4> QED
        BY <4>2
    <3>3. \A i, j \in DOMAIN sessions': i \in sessions'[j].taken => i \in DOMAIN sessions /\ j \in DOMAIN sessions
      BY <2>3, <3>1, <3>2
    <3>4. slot # s /\ slot' = slot
      BY <1>1, <2>s, Length DEF TypeInv
    <3> QED
      BY <2>3, <3>1, <3>3, <3>4 DEF MonitorInv
  <2>8. StatusInv'
    <3>1. Cleaning' = Cleaning
      BY <2>3 DEF Cleaning, Ids, NewSession
    <3> QED
      BY <1>8, <3>1
  <2> QED
    BY <1>5, <1>6, <2>4, <2>5, <2>6, <2>7, <2>8
<1>12. GoesOn(dial[p], e) => UNCHANGED sessions /\ e.session = dial[p].session
  BY DEF GoesOn
<1> QED
  BY <1>3, <1>9, <1>10, <1>11, <1>12

\* A monitor that has taken nothing goes on, or is done.
LEMMA GoesKeeps ==
    ASSUME Inv, NEW i \in DOMAIN sessions, NEW stage \in {"sleep", "check", "probe", "lost", "done"}, Goes(i, stage),
           sessions[i].monitor \in {"sleep", "check", "probe", "lost"},
           sessions[i].monitor = "sleep" /\ stage # "done" => ~sessions[i].stop,
           UNCHANGED <<scenario, dial, linkVars>>
    PROVE  Inv' /\ (ClockInv => ClockInv')
<1> USE DEF Inv
<1>r. PICK r : r = [sessions[i] EXCEPT !.monitor = stage]
  OBVIOUS
<1>0. UNCHANGED <<slot, writer, readers, todo, status, tangled>>
  BY DEF linkVars
<1>1. sessions[i] \in SessionSet
  BY SessionIs
<1>2. /\ r \in SessionSet /\ r.monitor = stage /\ r.state = sessions[i].state /\ r.taken = sessions[i].taken
      /\ r.told = sessions[i].told /\ r.late = sessions[i].late /\ r.stop = sessions[i].stop /\ r.by = sessions[i].by
  BY <1>1, <1>r DEF SessionSet
<1>3. Sets(i, r)
  BY <1>2, <1>r, SetSession DEF Goes
<1>4. \A j \in DOMAIN sessions: /\ sessions'[j].state = sessions[j].state /\ sessions'[j].taken = sessions[j].taken
                                /\ sessions'[j].told = sessions[j].told /\ sessions'[j].late = sessions[j].late
                                /\ sessions'[j].stop = sessions[j].stop /\ sessions'[j].by = sessions[j].by
                                /\ j # i => sessions'[j].monitor = sessions[j].monitor
  BY <1>2, <1>3 DEF Sets
<1>5. DOMAIN sessions' = DOMAIN sessions /\ sessions'[i].monitor = stage
  BY <1>2, <1>3 DEF Sets
<1>6. \A j \in DOMAIN sessions: i \notin sessions[j].taken
  BY DEF MonitorInv
<1>7. TypeInv'
  BY <1>0, <1>3 DEF TypeInv, Sets
<1>8. LockInv'
  BY <1>0 DEF LockInv
<1>9. AttemptInv'
  <2>1. ASSUME NEW q \in Callers PROVE Attempting(q)'
    <3>1. Attempting(q)
      BY DEF AttemptInv
    <3>2. CASE dial[q].stage \in Chain \cup {"dispose", "bye"}
      <4>1. dial[q].session \in DOMAIN sessions
        BY <3>2, HasSession
      <4> QED
        BY <1>4, <3>1, <4>1 DEF Attempting
    <3>3. CASE dial[q].stage \notin Chain \cup {"dispose", "bye"}
      BY <3>1, <3>3 DEF Attempting
    <3> QED
      BY <3>2, <3>3
  <2> QED
    BY <2>1 DEF AttemptInv
<1>10. OwnerInv'
  <2>1. ASSUME NEW j \in DOMAIN sessions PROVE Owned(j)'
    <3>1. Owned(j)
      BY DEF OwnerInv
    <3>2. CASE j = i
      <4>1. sessions[i].state \notin {"open", "dropped"}
        BY <3>1, <3>2 DEF Owned
      <4>2. ASSUME NEW x \in sessions[j].taken, NEW s \in {"dispose", "bye"}, CallerHas(x, j, s) \/ MonitorHas(x, s)
            PROVE  CallerHas(x, j, s)' \/ MonitorHas(x, s)'
        BY <1>4, <1>5, <1>6, <4>2 DEF CallerHas, MonitorHas
      <4> QED
        BY <1>0, <1>4, <1>5, <3>1, <3>2, <4>1, <4>2 DEF Owned
    <3>3. CASE j # i
      <4>1. \A k \in DOMAIN sessions: sessions[k].monitor \in {"dispose", "bye"} => sessions'[k].monitor = sessions[k].monitor
        BY <1>4
      <4> QED
        BY <1>0, <1>3, <3>3, <4>1, OwnerKept DEF Sets
    <3> QED
      BY <3>2, <3>3
  <2> QED
    BY <1>5, <2>1 DEF OwnerInv
<1>11. MonitorInv'
  <2>1. ASSUME NEW k \in DOMAIN sessions
        PROVE  /\ sessions'[k].monitor = "dispose" => \E j \in DOMAIN sessions: k \in sessions'[j].taken /\ sessions'[j].state = "taken"
               /\ sessions'[k].monitor = "bye" => \E j \in DOMAIN sessions: k \in sessions'[j].taken /\ sessions'[j].state = "disposed"
               /\ sessions'[k].monitor \in {"check", "probe", "lost"} /\ slot' # k => sessions'[k].late
               /\ sessions'[k].monitor = "sleep" /\ slot' # k => sessions'[k].late \/ sessions'[k].stop
    <3>1. CASE k = i
      BY <1>0, <1>4, <1>5, <3>1 DEF MonitorInv
    <3>2. CASE k # i
      BY <1>0, <1>4, <3>2 DEF MonitorInv
    <3> QED
      BY <3>1, <3>2
  <2>2. ASSUME NEW k \in DOMAIN sessions, NEW j \in DOMAIN sessions, k \in sessions'[j].taken
        PROVE  /\ sessions'[k].monitor \in {"dispose", "bye", "done"}
               /\ sessions'[k].state \notin {"open", "held"}
               /\ k # j => sessions'[k].late
    BY <1>4, <1>6, <2>2 DEF MonitorInv
  <2>3. \A k, j, l \in DOMAIN sessions: k \in sessions'[j].taken /\ k \in sessions'[l].taken => j = l
    BY <1>4 DEF MonitorInv
  <2> QED
    BY <1>5, <2>1, <2>2, <2>3 DEF MonitorInv
<1>12. StatusInv'
  <2>1. Cleaning' = Cleaning
    BY <1>4, <1>5 DEF Cleaning, Ids
  <2> QED
    BY <1>0, <2>1 DEF StatusInv
<1>13. ClockInv => ClockInv'
  BY DEF ClockInv
<1> QED
  BY <1>7, <1>8, <1>9, <1>10, <1>11, <1>12, <1>13

LEMMA WatchesKeeps ==
    ASSUME Inv, NEW i \in DOMAIN sessions, Watches(i)
    PROVE  Inv' /\ (ClockInv => ClockInv')
<1>1. UNCHANGED <<scenario, dial, linkVars>>
  BY DEF Watches
<1>2. PICK stage : /\ stage \in {"sleep", "check", "probe", "lost", "done"} /\ Goes(i, stage)
                   /\ sessions[i].monitor \in {"sleep", "check", "probe", "lost"}
                   /\ sessions[i].monitor = "sleep" /\ stage # "done" => ~sessions[i].stop
  <2>1. CASE Wakes(i)
    BY <2>1 DEF Wakes
  <2>2. CASE Checks(i)
    BY <2>2 DEF Checks
  <2>3. CASE ProbesSftp(i)
    BY <2>3 DEF ProbesSftp
  <2> QED
    BY <2>1, <2>2, <2>3 DEF Watches
<1> QED
  BY <1>1, <1>2, GoesKeeps

LEMMA DiesKeeps ==
    ASSUME Inv, NEW i \in DOMAIN sessions, Dies(i)
    PROVE  Inv' /\ (ClockInv => ClockInv')
<1> USE DEF Inv
<1>r. PICK r : r = [sessions[i] EXCEPT !.up = FALSE]
  OBVIOUS
<1>0. UNCHANGED <<scenario, dial, slot, writer, readers, todo, status, tangled>>
  BY DEF Dies, linkVars
<1>1. sessions[i] \in SessionSet
  BY SessionIs
<1>2. /\ r \in SessionSet /\ r.monitor = sessions[i].monitor /\ r.state = sessions[i].state /\ r.taken = sessions[i].taken
      /\ r.told = sessions[i].told /\ r.late = sessions[i].late /\ r.stop = sessions[i].stop /\ r.by = sessions[i].by
  BY <1>1, <1>r DEF SessionSet
<1>3. Sets(i, r)
  BY <1>2, <1>r, SetSession DEF Dies
<1>4. \A j \in DOMAIN sessions: /\ sessions'[j].state = sessions[j].state /\ sessions'[j].taken = sessions[j].taken
                                /\ sessions'[j].told = sessions[j].told /\ sessions'[j].late = sessions[j].late
                                /\ sessions'[j].stop = sessions[j].stop /\ sessions'[j].by = sessions[j].by
                                /\ sessions'[j].monitor = sessions[j].monitor
  BY <1>2, <1>3 DEF Sets
<1>5. DOMAIN sessions' = DOMAIN sessions
  BY <1>3 DEF Sets
<1>7. TypeInv'
  BY <1>0, <1>3 DEF TypeInv, Sets
<1>8. LockInv'
  BY <1>0 DEF LockInv
<1>9. AttemptInv'
  <2>1. ASSUME NEW q \in Callers PROVE Attempting(q)'
    <3>1. Attempting(q)
      BY DEF AttemptInv
    <3>2. CASE dial[q].stage \in Chain \cup {"dispose", "bye"}
      <4>1. dial[q].session \in DOMAIN sessions
        BY <3>2, HasSession
      <4> QED
        BY <1>0, <1>4, <3>1, <4>1 DEF Attempting
    <3>3. CASE dial[q].stage \notin Chain \cup {"dispose", "bye"}
      BY <1>0, <3>1, <3>3 DEF Attempting
    <3> QED
      BY <3>2, <3>3
  <2> QED
    BY <2>1 DEF AttemptInv
<1>10. OwnerInv'
  <2>1. ASSUME NEW j \in DOMAIN sessions PROVE Owned(j)'
    <3>1. Owned(j)
      BY DEF OwnerInv
    <3> QED
      BY <1>0, <1>4, <1>5, <3>1 DEF Owned, CallerHas, MonitorHas
  <2> QED
    BY <1>5, <2>1 DEF OwnerInv
<1>11. MonitorInv'
  BY <1>0, <1>4, <1>5 DEF MonitorInv
<1>12. StatusInv'
  <2>1. Cleaning' = Cleaning
    BY <1>4, <1>5 DEF Cleaning, Ids
  <2> QED
    BY <1>0, <2>1 DEF StatusInv
<1>13. ClockInv => ClockInv'
  BY <1>0 DEF ClockInv
<1> QED
  BY <1>7, <1>8, <1>9, <1>10, <1>11, <1>12, <1>13

\* A monitor goes on, and the connection c it takes or has taken becomes r.
Handles(i, stage, c, r) ==
    /\ sessions' \in Seq(SessionSet)
    /\ Len(sessions') = Len(sessions) /\ DOMAIN sessions' = DOMAIN sessions
    /\ \A j \in DOMAIN sessions: /\ sessions'[j].by = sessions[j].by /\ sessions'[j].stop = sessions[j].stop
                                 /\ j # i => sessions'[j].monitor = sessions[j].monitor
                                 /\ j # c => /\ sessions'[j].state = sessions[j].state
                                             /\ sessions'[j].taken = sessions[j].taken
                                             /\ sessions'[j].told = sessions[j].told
                                             /\ sessions'[j].late = sessions[j].late
    /\ sessions'[i].monitor = stage
    /\ sessions'[c].state = r.state /\ sessions'[c].taken = r.taken
    /\ sessions'[c].told = r.told /\ sessions'[c].late = r.late

LEMMA HandlesBoth ==
    ASSUME TypeInv, NEW i \in DOMAIN sessions, NEW c \in DOMAIN sessions, NEW m, NEW r \in SessionSet,
           NEW stage \in {"none", "sleep", "check", "probe", "lost", "dispose", "bye", "done"},
           m = [sessions EXCEPT ![i] = [sessions[i] EXCEPT !.monitor = stage]],
           r.monitor = m[c].monitor, r.by = m[c].by, r.stop = m[c].stop,
           sessions' = [m EXCEPT ![c] = r]
    PROVE  Handles(i, stage, c, r)
<1>r. PICK n : n = [sessions[i] EXCEPT !.monitor = stage]
  OBVIOUS
<1>1. sessions[i] \in SessionSet
  BY SessionIs
<1>2. /\ n \in SessionSet /\ n.monitor = stage /\ n.state = sessions[i].state /\ n.taken = sessions[i].taken
      /\ n.told = sessions[i].told /\ n.late = sessions[i].late /\ n.stop = sessions[i].stop /\ n.by = sessions[i].by
  BY <1>1, <1>r DEF SessionSet
<1>3. sessions \in Seq(SessionSet) /\ i \in 1 .. Len(sessions) /\ c \in 1 .. Len(sessions)
  BY DEF TypeInv
<1>4. m \in Seq(SessionSet) /\ Len(m) = Len(sessions) /\ m = [sessions EXCEPT ![i] = n]
  BY <1>2, <1>3, <1>r, ExceptSeq
<1>5. sessions' \in Seq(SessionSet) /\ Len(sessions') = Len(sessions)
  BY <1>3, <1>4, ExceptSeq
<1>6. DOMAIN sessions' = DOMAIN sessions /\ DOMAIN m = DOMAIN sessions
  BY <1>3, <1>4, <1>5
<1>7. m[i] = n /\ \A j \in DOMAIN sessions: j # i => m[j] = sessions[j]
  BY <1>3, <1>4
<1>8. sessions'[c] = r /\ \A j \in DOMAIN sessions: j # c => sessions'[j] = m[j]
  BY <1>6
<1> QED
  BY <1>2, <1>5, <1>6, <1>7, <1>8 DEF Handles

\* The session of an attempt is nobody else's.
LEMMA HandlesAttempts ==
    ASSUME Inv, NEW i \in DOMAIN sessions, NEW c \in DOMAIN sessions, NEW stage, NEW r, Handles(i, stage, c, r),
           UNCHANGED dial, sessions[c].state = "held" \/ i \in sessions[c].taken
    PROVE  AttemptInv'
<1>1. ASSUME NEW q \in Callers PROVE Attempting(q)'
  <2>1. Attempting(q)
    BY DEF Inv, AttemptInv
  <2>2. CASE dial[q].stage \in Chain \cup {"dispose", "bye"}
    <3>1. dial[q].session \in DOMAIN sessions /\ dial[q].session # c
      <4>1. sessions[c].state = "open" => sessions[c].taken = {}
        BY DEF Inv, OwnerInv, Owned
      <4>2. i # q
        BY SessionIs DEF Inv
      <4> QED
        BY <2>2, <4>1, <4>2, HasSession
    <3> QED
      BY <2>1, <3>1 DEF Attempting, Handles
  <2>3. CASE dial[q].stage \notin Chain \cup {"dispose", "bye"}
    BY <2>1, <2>3 DEF Attempting
  <2> QED
    BY <2>2, <2>3
<1> QED
  BY <1>1 DEF AttemptInv

\* The other sessions keep their owners.
LEMMA HandlesOwners ==
    ASSUME Inv, NEW i \in DOMAIN sessions, NEW c \in DOMAIN sessions, NEW stage, NEW r, Handles(i, stage, c, r),
           UNCHANGED dial, sessions[i].monitor # "none",
           \A j \in DOMAIN sessions: j # c => i \notin sessions[j].taken /\ (slot' = j <=> slot = j),
           \A j \in DOMAIN sessions: j = c => Owned(j)'
    PROVE  OwnerInv'
<1>1. ASSUME NEW j \in DOMAIN sessions, j # c PROVE Owned(j)'
  <2>1. Owned(j) /\ Owned(i)
    BY DEF Inv, OwnerInv
  <2>2. /\ sessions'[j].state = sessions[j].state /\ sessions'[j].taken = sessions[j].taken
        /\ sessions'[j].told = sessions[j].told /\ DOMAIN sessions' = DOMAIN sessions
        /\ slot' = j <=> slot = j
    BY <1>1 DEF Handles
  <2>3. sessions[j].state \in {"open", "dropped"} => sessions'[j].monitor = "none"
    BY <2>1 DEF Owned, Handles
  <2>4. ASSUME NEW x \in sessions[j].taken, NEW s \in {"dispose", "bye"}, CallerHas(x, j, s) \/ MonitorHas(x, s)
        PROVE  CallerHas(x, j, s)' \/ MonitorHas(x, s)'
    BY <1>1, <2>4 DEF CallerHas, MonitorHas, Handles
  <2> QED
    BY <2>1, <2>2, <2>3, <2>4 DEF Owned
<1> QED
  BY <1>1 DEF OwnerInv, Handles

LEMMA HandlesType ==
    ASSUME Inv, NEW i \in DOMAIN sessions, NEW c \in DOMAIN sessions, NEW stage, NEW r, Handles(i, stage, c, r),
           UNCHANGED <<scenario, dial, writer, readers, todo>>, slot' \in {0, slot}, tangled' \in BOOLEAN
    PROVE  TypeInv' /\ LockInv' /\ (ClockInv => ClockInv')
<1>1. sessions' \in Seq(SessionSet) /\ Len(sessions') = Len(sessions)
  BY DEF Handles
<1>2. slot' \in 0 .. Len(sessions)
  BY Length DEF Inv, TypeInv
<1>3. TypeInv'
  BY <1>1, <1>2 DEF Inv, TypeInv
<1>4. LockInv'
  BY DEF Inv, LockInv
<1>5. ClockInv => ClockInv'
  BY DEF ClockInv
<1> QED
  BY <1>3, <1>4, <1>5

LEMMA ClaimsKeeps ==
    ASSUME Inv, NEW i \in DOMAIN sessions, Claims(i)
    PROVE  Inv' /\ (ClockInv => ClockInv')
<1> USE DEF Inv
<1>1. /\ sessions[i].monitor = "lost" /\ slot' = 0
      /\ tangled' = (tangled \/ (slot # 0 /\ (slot # i \/ writer # Nobody)))
      /\ UNCHANGED <<scenario, config, dial, writer, readers, todo, status>>
  BY DEF Claims, Taken
<1>2. CASE slot = 0
  <2>1. tangled' = tangled
    BY <1>1, <1>2 DEF TypeInv
  <2>2. Goes(i, "done")
    BY <1>2 DEF Claims
  <2> QED
    BY <1>1, <1>2, <2>1, <2>2, GoesKeeps DEF linkVars
<1>3. CASE slot # 0
  <2>s. PICK s : s = slot
    OBVIOUS
  <2>m. PICK m : m = [sessions EXCEPT ![i] = [sessions[i] EXCEPT !.monitor = "dispose"]]
    OBVIOUS
  <2>l. PICK late : late = (s # i) /\ late \in BOOLEAN
    <3>1. (s # i) \in BOOLEAN
      OBVIOUS
    <3> QED
      BY <3>1, Zenon
  <2>r. PICK r : r = [m[s] EXCEPT !.state = "taken", !.taken = {i}, !.late = late]
    OBVIOUS
  <2>1. s \in DOMAIN sessions /\ sessions[s].state = "held" /\ sessions[s].taken = {} /\ sessions[s].told = 0
    BY <1>3, <2>s DEF TypeInv, OwnerInv, Owned
  <2>2. sessions[i] \in SessionSet /\ sessions[s] \in SessionSet /\ i \in Nat
    BY <2>1, SessionIs
  <2>3. m[s] \in SessionSet /\ m[s].taken = {} /\ m[s].told = 0
    <3>1. CASE s = i
      BY <2>1, <2>2, <2>m, <3>1 DEF SessionSet
    <3>2. CASE s # i
      BY <2>1, <2>2, <2>m, <3>2
    <3> QED
      BY <3>1, <3>2
  <2>4. /\ r \in SessionSet /\ r.monitor = m[s].monitor /\ r.by = m[s].by /\ r.stop = m[s].stop
        /\ r.state = "taken" /\ r.taken = {i} /\ r.told = 0 /\ r.late = late
    BY <2>2, <2>3, <2>l, <2>r DEF SessionSet
  <2>5. sessions' = [m EXCEPT ![s] = r]
    <3>1. sessions' = [sessions EXCEPT ![i].monitor = "dispose", ![s].state = "taken", ![s].taken = @ \cup {i},
                                       ![s].late = s # i]
      BY <1>3, <2>s DEF Claims
    <3>2. sessions' = [m EXCEPT ![s].state = "taken", ![s].taken = @ \cup {i}, ![s].late = s # i]
      BY <2>m, <3>1
    <3>3. DOMAIN m = DOMAIN sessions
      BY <2>m
    <3>4. sessions' = [m EXCEPT ![s] = [m[s] EXCEPT !.state = "taken", !.taken = m[s].taken \cup {i}, !.late = s # i]]
      BY <2>1, <3>2, <3>3
    <3> QED
      BY <2>3, <2>l, <2>r, <3>4
  <2>6. Handles(i, "dispose", s, r)
    BY <2>1, <2>4, <2>5, <2>m, HandlesBoth
  <2>7. \A j \in DOMAIN sessions: i \notin sessions[j].taken
    BY <1>1 DEF MonitorInv
  <2>8. TypeInv' /\ LockInv' /\ (ClockInv => ClockInv')
    <3>1. tangled' \in BOOLEAN
      BY <1>1 DEF TypeInv
    <3> QED
      BY <1>1, <2>1, <2>6, <3>1, HandlesType
  <2>9. AttemptInv'
    BY <1>1, <2>1, <2>6, HandlesAttempts
  <2>10. OwnerInv'
    <3>1. ASSUME NEW j \in DOMAIN sessions, j = s PROVE Owned(j)'
      <4>1. /\ sessions'[j].state = "taken" /\ sessions'[j].taken = {i} /\ sessions'[j].told = 0
            /\ slot' # j /\ DOMAIN sessions' = DOMAIN sessions
        BY <1>1, <2>4, <2>6, <3>1, SessionIs DEF Handles
      <4>2. MonitorHas(i, "dispose")'
        BY <2>6 DEF MonitorHas, Handles
      <4> QED
        BY <4>1, <4>2 DEF Owned
    <3>2. \A j \in DOMAIN sessions: j # s => (slot' = j <=> slot = j)
      BY <1>1, <2>s, SessionIs
    <3> QED
      BY <1>1, <2>1, <2>6, <2>7, <3>1, <3>2, HandlesOwners
  <2>11. MonitorInv'
    <3>1. DOMAIN sessions' = DOMAIN sessions
      BY <2>6 DEF Handles
    <3>2. ASSUME NEW k \in DOMAIN sessions, NEW j \in DOMAIN sessions, k \in sessions[j].taken
          PROVE  /\ k # i /\ j # s /\ k # s
                 /\ sessions'[k].monitor = sessions[k].monitor /\ sessions'[k].state = sessions[k].state
                 /\ sessions'[k].late = sessions[k].late
                 /\ sessions'[j].taken = sessions[j].taken /\ sessions'[j].state = sessions[j].state
      <4>1. k # i /\ j # s
        BY <2>1, <2>7, <3>2
      <4>2. k # s
        BY <2>1, <3>2 DEF MonitorInv
      <4> QED
        BY <2>6, <4>1, <4>2 DEF Handles
    <3>3. ASSUME NEW k \in DOMAIN sessions
          PROVE  /\ sessions'[k].monitor = "dispose" => \E j \in DOMAIN sessions: k \in sessions'[j].taken /\ sessions'[j].state = "taken"
                 /\ sessions'[k].monitor = "bye" => \E j \in DOMAIN sessions: k \in sessions'[j].taken /\ sessions'[j].state = "disposed"
                 /\ sessions'[k].monitor \in {"check", "probe", "lost"} /\ slot' # k => sessions'[k].late
                 /\ sessions'[k].monitor = "sleep" /\ slot' # k => sessions'[k].late \/ sessions'[k].stop
      <4>1. CASE k = i
        <5>1. sessions'[k].monitor = "dispose" /\ i \in sessions'[s].taken /\ sessions'[s].state = "taken"
          BY <2>4, <2>6, <4>1 DEF Handles
        <5> QED
          BY <2>1, <4>1, <5>1
      <4>2. CASE k # i /\ k = s
        <5>1. sessions'[k].late = TRUE /\ sessions'[k].monitor = sessions[k].monitor
          BY <2>4, <2>6, <2>l, <4>2 DEF Handles
        <5>2. sessions[k].monitor \notin {"dispose", "bye"}
          BY <2>1, <4>2 DEF MonitorInv
        <5> QED
          BY <5>1, <5>2
      <4>3. CASE k # i /\ k # s
        <5>1. /\ sessions'[k].late = sessions[k].late /\ sessions'[k].monitor = sessions[k].monitor
              /\ sessions'[k].stop = sessions[k].stop /\ slot # k
          BY <2>6, <2>s, <4>3 DEF Handles
        <5> QED
          BY <3>2, <5>1 DEF MonitorInv
      <4> QED
        BY <4>1, <4>2, <4>3
    <3>4. ASSUME NEW k \in DOMAIN sessions, NEW j \in DOMAIN sessions, k \in sessions'[j].taken
          PROVE  k \in sessions[j].taken \/ (k = i /\ j = s)
      BY <2>4, <2>6, <3>4 DEF Handles
    <3>5. ASSUME NEW k \in DOMAIN sessions, NEW j \in DOMAIN sessions, k \in sessions'[j].taken
          PROVE  /\ sessions'[k].monitor \in {"dispose", "bye", "done"}
                 /\ sessions'[k].state \notin {"open", "held"}
                 /\ k # j => sessions'[k].late
      <4>1. CASE k \in sessions[j].taken
        BY <3>2, <4>1 DEF MonitorInv
      <4>2. CASE k = i /\ j = s
        <5>1. sessions'[i].monitor = "dispose"
          BY <2>6 DEF Handles
        <5>2. sessions'[i].state \notin {"open", "held"}
          <6>1. CASE i = s
            BY <2>4, <2>6, <6>1 DEF Handles
          <6>2. CASE i # s
            <7>1. sessions'[i].state = sessions[i].state /\ Owned(i)
              BY <2>6, <6>2 DEF Handles, OwnerInv
            <7> QED
              BY <1>1, <2>s, <6>2, <7>1 DEF Owned
          <6> QED
            BY <6>1, <6>2
        <5>3. i # s => sessions'[i].late
          BY <1>1, <2>6, <2>s DEF Handles, MonitorInv
        <5> QED
          BY <4>2, <5>1, <5>2, <5>3
      <4> QED
        BY <3>4, <3>5, <4>1, <4>2
    <3>6. ASSUME NEW k \in DOMAIN sessions, NEW j \in DOMAIN sessions, NEW l \in DOMAIN sessions,
                 k \in sessions'[j].taken, k \in sessions'[l].taken
          PROVE  j = l
      BY <2>7, <3>4, <3>6 DEF MonitorInv
    <3> QED
      BY <3>1, <3>3, <3>5, <3>6 DEF MonitorInv
  <2>12. StatusInv'
    <3>1. Cleaning'
      BY <2>6 DEF Cleaning, Ids, Handles
    <3>2. ~tangled' => writer = Nobody
      BY <1>1, <1>3
    <3>3. writer = Nobody => \A q \in Callers: dial[q].stage # "stored"
      BY ConnectAssumption DEF LockInv
    <3> QED
      BY <1>1, <3>1, <3>2, <3>3 DEF StatusInv
  <2> QED
    BY <2>8, <2>9, <2>10, <2>11, <2>12
<1> QED
  BY <1>2, <1>3

\* What a monitor claimed is the one session it has taken.
LEMMA ClaimedIs ==
    ASSUME Inv, NEW i \in DOMAIN sessions, NEW c \in DOMAIN sessions, i \in sessions[c].taken
    PROVE  Claimed(i) = c
<1>1. \A j \in DOMAIN sessions: i \in sessions[j].taken => j = c
  BY DEF Inv, MonitorInv
<1> QED
  BY <1>1 DEF Claimed, Ids

\* What a monitor has to do with its claim leaves the other monitors alone.
LEMMA HandlesMonitors ==
    ASSUME Inv, NEW i \in DOMAIN sessions, NEW c \in DOMAIN sessions, NEW stage \in {"bye", "done"}, NEW r,
           Handles(i, stage, c, r), i \in sessions[c].taken, r.taken = sessions[c].taken, r.taken = {i},
           r.state \in {"disposed", "gone"}, stage = "bye" => r.state = "disposed", r.late = sessions[c].late,
           UNCHANGED slot
    PROVE  MonitorInv'
<1> USE DEF Inv
<1>1. DOMAIN sessions' = DOMAIN sessions
  BY DEF Handles
<1>2. ASSUME NEW j \in DOMAIN sessions
      PROVE  /\ sessions'[j].taken = sessions[j].taken /\ sessions'[j].late = sessions[j].late
             /\ sessions'[j].stop = sessions[j].stop
             /\ j # i => sessions'[j].monitor = sessions[j].monitor
             /\ j # c => sessions'[j].state = sessions[j].state
  BY DEF Handles
<1>3. sessions'[i].monitor = stage /\ sessions'[c].state = r.state
  BY DEF Handles
<1>4. ASSUME NEW k \in DOMAIN sessions
      PROVE  /\ sessions'[k].monitor = "dispose" => \E j \in DOMAIN sessions: k \in sessions'[j].taken /\ sessions'[j].state = "taken"
             /\ sessions'[k].monitor = "bye" => \E j \in DOMAIN sessions: k \in sessions'[j].taken /\ sessions'[j].state = "disposed"
             /\ sessions'[k].monitor \in {"check", "probe", "lost"} /\ slot' # k => sessions'[k].late
             /\ sessions'[k].monitor = "sleep" /\ slot' # k => sessions'[k].late \/ sessions'[k].stop
  <2>1. CASE k = i
    BY <1>2, <1>3, <2>1
  <2>2. CASE k # i
    <3>1. k \notin sessions[c].taken /\ sessions'[k].monitor = sessions[k].monitor
      BY <1>2, <2>2
    <3>2. ASSUME NEW j \in DOMAIN sessions, k \in sessions[j].taken
          PROVE  k \in sessions'[j].taken /\ sessions'[j].state = sessions[j].state
      BY <1>2, <3>1, <3>2
    <3> QED
      BY <1>2, <3>1, <3>2 DEF MonitorInv
  <2> QED
    BY <2>1, <2>2
<1>5. ASSUME NEW k \in DOMAIN sessions, NEW j \in DOMAIN sessions, k \in sessions'[j].taken
      PROVE  /\ sessions'[k].monitor \in {"dispose", "bye", "done"}
             /\ sessions'[k].state \notin {"open", "held"}
             /\ k # j => sessions'[k].late
  <2>1. k \in sessions[j].taken
    BY <1>2, <1>5
  <2>2. sessions[k].monitor \in {"dispose", "bye", "done"} /\ sessions[k].state \notin {"open", "held"}
        /\ (k # j => sessions[k].late)
    BY <2>1 DEF MonitorInv
  <2>3. sessions'[k].monitor \in {"dispose", "bye", "done"}
    BY <1>2, <1>3, <2>2
  <2>4. sessions'[k].state \notin {"open", "held"}
    BY <1>2, <1>3, <2>2
  <2> QED
    BY <1>2, <2>2, <2>3, <2>4
<1>6. ASSUME NEW k \in DOMAIN sessions, NEW j \in DOMAIN sessions, NEW l \in DOMAIN sessions,
             k \in sessions'[j].taken, k \in sessions'[l].taken
      PROVE  j = l
  BY <1>2, <1>6 DEF MonitorInv
<1> QED
  BY <1>1, <1>4, <1>5, <1>6 DEF MonitorInv

LEMMA ClosesSftpKeeps ==
    ASSUME Inv, NEW i \in DOMAIN sessions, ClosesSftp(i)
    PROVE  Inv' /\ (ClockInv => ClockInv')
<1> USE DEF Inv
<1>1. sessions[i].monitor = "dispose" /\ UNCHANGED <<scenario, dial, slot, writer, readers, todo, status, tangled>>
  BY DEF ClosesSftp, linkVars
<1>2. PICK c \in DOMAIN sessions : i \in sessions[c].taken /\ sessions[c].state = "taken"
  BY <1>1 DEF MonitorInv
<1>3. Claimed(i) = c
  BY <1>2, ClaimedIs
<1>4. sessions[c].taken = {i} /\ sessions[c].told = 0 /\ slot # c
  BY <1>2 DEF OwnerInv, Owned
<1>m. PICK m : m = [sessions EXCEPT ![i] = [sessions[i] EXCEPT !.monitor = "bye"]]
  OBVIOUS
<1>r. PICK r : r = [m[c] EXCEPT !.state = "disposed"]
  OBVIOUS
<1>5. m[c] \in SessionSet /\ m[c].taken = {i} /\ m[c].told = 0 /\ m[c].late = sessions[c].late
  <2>1. sessions[i] \in SessionSet /\ sessions[c] \in SessionSet
    BY SessionIs
  <2>2. CASE c = i
    BY <1>4, <1>m, <2>1, <2>2 DEF SessionSet
  <2>3. CASE c # i
    BY <1>4, <1>m, <2>1, <2>3
  <2> QED
    BY <2>2, <2>3
<1>6. /\ r \in SessionSet /\ r.monitor = m[c].monitor /\ r.by = m[c].by /\ r.stop = m[c].stop
      /\ r.state = "disposed" /\ r.taken = {i} /\ r.told = 0 /\ r.late = sessions[c].late
  BY <1>5, <1>r DEF SessionSet
<1>7. sessions' = [m EXCEPT ![c] = r]
  BY <1>3, <1>m, <1>r DEF ClosesSftp
<1>8. Handles(i, "bye", c, r)
  BY <1>6, <1>7, <1>m, HandlesBoth
<1>9. TypeInv' /\ LockInv' /\ (ClockInv => ClockInv')
  BY <1>1, <1>8, HandlesType DEF TypeInv
<1>10. AttemptInv'
  BY <1>1, <1>2, <1>8, HandlesAttempts
<1>11. OwnerInv'
  <2>1. ASSUME NEW j \in DOMAIN sessions, j = c PROVE Owned(j)'
    <3>1. /\ sessions'[j].state = "disposed" /\ sessions'[j].taken = {i} /\ sessions'[j].told = 0
          /\ slot' # j /\ DOMAIN sessions' = DOMAIN sessions
      BY <1>1, <1>4, <1>6, <1>8, <2>1 DEF Handles
    <3>2. MonitorHas(i, "bye")'
      BY <1>8 DEF MonitorHas, Handles
    <3> QED
      BY <3>1, <3>2 DEF Owned
  <2>2. \A j \in DOMAIN sessions: j # c => i \notin sessions[j].taken
    BY <1>2 DEF MonitorInv
  <2> QED
    BY <1>1, <1>8, <2>1, <2>2, HandlesOwners
<1>12. MonitorInv'
  BY <1>1, <1>2, <1>4, <1>6, <1>8, HandlesMonitors
<1>13. StatusInv'
  <2>1. Cleaning' /\ Cleaning
    BY <1>1, <1>8 DEF Cleaning, Ids, Handles
  <2> QED
    BY <1>1, <2>1 DEF StatusInv
<1> QED
  BY <1>9, <1>10, <1>11, <1>12, <1>13

LEMMA TellsLossKeeps ==
    ASSUME Inv, NEW i \in DOMAIN sessions, TellsLoss(i)
    PROVE  Inv' /\ (ClockInv => ClockInv')
<1> USE DEF Inv
<1>1. /\ sessions[i].monitor = "bye" /\ status'.state = "disconnected"
      /\ tangled' = (tangled \/ writer # Nobody \/ slot # 0)
      /\ UNCHANGED <<scenario, dial, slot, writer, readers, todo>>
  BY DEF TellsLoss, Says
<1>2. PICK c \in DOMAIN sessions : i \in sessions[c].taken /\ sessions[c].state = "disposed"
  BY <1>1 DEF MonitorInv
<1>3. Claimed(i) = c
  BY <1>2, ClaimedIs
<1>4. sessions[c].taken = {i} /\ sessions[c].told = 0 /\ slot # c
  BY <1>2 DEF OwnerInv, Owned
<1>m. PICK m : m = [sessions EXCEPT ![i] = [sessions[i] EXCEPT !.monitor = "done"]]
  OBVIOUS
<1>r. PICK r : r = [m[c] EXCEPT !.state = "gone", !.told = 1]
  OBVIOUS
<1>5. m[c] \in SessionSet /\ m[c].taken = {i} /\ m[c].told = 0 /\ m[c].late = sessions[c].late
  <2>1. sessions[i] \in SessionSet /\ sessions[c] \in SessionSet
    BY SessionIs
  <2>2. CASE c = i
    BY <1>4, <1>m, <2>1, <2>2 DEF SessionSet
  <2>3. CASE c # i
    BY <1>4, <1>m, <2>1, <2>3
  <2> QED
    BY <2>2, <2>3
<1>6. /\ r \in SessionSet /\ r.monitor = m[c].monitor /\ r.by = m[c].by /\ r.stop = m[c].stop
      /\ r.state = "gone" /\ r.taken = {i} /\ r.told = 1 /\ r.late = sessions[c].late
  BY <1>5, <1>r DEF SessionSet
<1>7. sessions' = [m EXCEPT ![c] = r]
  <2>1. sessions' = [sessions EXCEPT ![i].monitor = "done", ![c].state = "gone", ![c].told = @ + 1]
    BY <1>3 DEF TellsLoss
  <2>2. sessions' = [m EXCEPT ![c].state = "gone", ![c].told = @ + 1]
    BY <1>m, <2>1
  <2>3. DOMAIN m = DOMAIN sessions
    BY <1>m
  <2>4. sessions' = [m EXCEPT ![c] = [m[c] EXCEPT !.state = "gone", !.told = m[c].told + 1]]
    BY <2>2, <2>3
  <2> QED
    BY <1>5, <1>r, <2>4
<1>8. Handles(i, "done", c, r)
  BY <1>6, <1>7, <1>m, HandlesBoth
<1>9. TypeInv' /\ LockInv' /\ (ClockInv => ClockInv')
  <2>1. tangled' \in BOOLEAN
    BY <1>1 DEF TypeInv
  <2> QED
    BY <1>1, <1>8, <2>1, HandlesType
<1>10. AttemptInv'
  BY <1>1, <1>2, <1>8, HandlesAttempts
<1>11. OwnerInv'
  <2>1. ASSUME NEW j \in DOMAIN sessions, j = c PROVE Owned(j)'
    <3>1. /\ sessions'[j].state = "gone" /\ sessions'[j].taken = {i} /\ sessions'[j].told = 1
          /\ slot' # j /\ DOMAIN sessions' = DOMAIN sessions
      BY <1>1, <1>4, <1>6, <1>8, <2>1 DEF Handles
    <3>2. \E x \in sessions'[j].taken: sessions'[j].taken = {x}
      BY <3>1
    <3> QED
      BY <3>1, <3>2 DEF Owned
  <2>2. \A j \in DOMAIN sessions: j # c => i \notin sessions[j].taken
    BY <1>2 DEF MonitorInv
  <2> QED
    BY <1>1, <1>8, <2>1, <2>2, HandlesOwners
<1>12. MonitorInv'
  BY <1>1, <1>2, <1>4, <1>6, <1>8, HandlesMonitors
<1>13. StatusInv'
  <2>1. ~tangled' => ~tangled /\ writer = Nobody /\ slot = 0
    BY <1>1
  <2>2. writer = Nobody => \A q \in Callers: dial[q].stage # "stored"
    BY ConnectAssumption DEF LockInv
  <2> QED
    BY <1>1, <2>1, <2>2 DEF StatusInv
<1> QED
  BY <1>9, <1>10, <1>11, <1>12, <1>13

-----------------------------------------------------------------------------
(* The theorems. *)

LEMMA InitInv == Init => Inv /\ ClockInv
<1> SUFFICES ASSUME Init PROVE Inv /\ ClockInv
  OBVIOUS
<1>1. PICK k \in DOMAIN Scenarios : scenario = Scenarios[k]
  BY DEF Init
<1>2. /\ dial = [p \in Callers |-> Idle] /\ sessions = <<>> /\ slot = 0
      /\ writer = Nobody /\ readers = {} /\ todo = scenario.calls
      /\ status = [state |-> "disconnected", session |-> 0] /\ tangled = FALSE
  BY DEF Init
<1>3. \A p \in Callers: /\ DOMAIN dial[p] = DialFields
                        /\ dial[p].stage = "idle" /\ dial[p].session = 0
                        /\ dial[p].clock = 0 /\ dial[p].deadline = 0
  BY <1>2 DEF Idle, DialFields
<1>4. sessions \in Seq(SessionSet) /\ Len(sessions) = 0 /\ DOMAIN sessions = {}
  BY <1>2
<1>5. TypeInv
  <2>1. todo \in [Callers -> Seq(Call)]
    BY <1>1, <1>2, ConnectAssumption
  <2>2. 0 \in 0 .. Len(sessions)
    BY <1>4
  <2> QED
    BY <1>1, <1>2, <1>3, <1>4, <2>1, <2>2 DEF TypeInv, Stages
<1>6. LockInv
  BY <1>2, <1>3, ConnectAssumption DEF LockInv
<1>7. AttemptInv
  BY <1>3 DEF AttemptInv, Attempting, Early, Chain
<1>8. OwnerInv /\ MonitorInv
  BY <1>4 DEF OwnerInv, MonitorInv
<1>9. StatusInv
  BY <1>2, <1>3 DEF StatusInv
<1>10. Bound \in Nat
  BY <1>5, Limits
<1>11. ClockInv
  BY <1>3, <1>10 DEF ClockInv, ClockOK, Chain
<1> QED
  BY <1>5, <1>6, <1>7, <1>8, <1>9, <1>11 DEF Inv

LEMMA NextInv == Inv /\ ClockInv /\ [Next]_vars => (Inv /\ ClockInv)'
<1> SUFFICES ASSUME Inv, ClockInv, [Next]_vars PROVE (Inv /\ ClockInv)'
  OBVIOUS
<1>1. ASSUME NEW p \in Callers, CallerStep(p) PROVE (Inv /\ ClockInv)'
  BY <1>1, CallsKeeps, TakesKeeps, DisposesKeeps, DisconnectsKeeps, ProceedsKeeps, DialingKeeps,
     ReportsFailureKeeps, EndsTestKeeps, StoresKeeps, ConnectedKeeps DEF CallerStep
<1>2. ASSUME NEW i \in Ids, MonitorStep(i) \/ Dies(i) PROVE (Inv /\ ClockInv)'
  BY <1>2, WatchesKeeps, ClaimsKeeps, ClosesSftpKeeps, TellsLossKeeps, DiesKeeps DEF MonitorStep, Ids
<1>3. CASE UNCHANGED vars
  <2>1. UNCHANGED <<scenario, dial, sessions, slot, writer, readers, todo, status, tangled>>
    BY <1>3 DEF vars, linkVars
  <2>2. TypeInv' /\ LockInv' /\ StatusInv'
    BY <2>1 DEF Inv, TypeInv, LockInv, StatusInv, Cleaning, Ids
  <2>3. AttemptInv' /\ OwnerInv'
    BY <2>1 DEF Inv, AttemptInv, Attempting, OwnerInv, Owned, CallerHas, MonitorHas
  <2>4. MonitorInv' /\ ClockInv'
    BY <2>1 DEF Inv, MonitorInv, ClockInv
  <2> QED
    BY <2>2, <2>3, <2>4 DEF Inv
<1> QED
  BY <1>1, <1>2, <1>3 DEF Next

LEMMA InvIsOwned == Inv => ConnectionIsOwned
<1> SUFFICES ASSUME Inv PROVE ConnectionIsOwned
  OBVIOUS
<1> USE DEF Inv
<1>1. ASSUME NEW i \in DOMAIN sessions
      PROVE  /\ sessions[i].state = "dropped" => sessions[i].monitor = "none"
             /\ AtRest => sessions[i].state \in {"gone", "dropped"} \/ (sessions[i].state = "held" /\ slot = i)
  <2>1. Owned(i) /\ sessions[i] \in SessionSet
    BY SessionIs DEF OwnerInv
  <2>2. ASSUME AtRest PROVE sessions[i].state \notin {"open", "taken", "disposed"}
    <3>1. \A q \in Callers: dial[q].stage \notin Chain \cup {"dispose", "bye"}
      BY <2>2 DEF AtRest, At, Chain
    <3>2. \A k \in DOMAIN sessions: sessions[k].monitor \notin {"dispose", "bye"}
      BY <2>2 DEF AtRest, Cleaning, Ids
    <3> QED
      BY <2>1, <3>1, <3>2 DEF Owned, CallerHas, MonitorHas
  <2> QED
    BY <2>1, <2>2 DEF Owned, SessionSet
<1>2. ASSUME NEW i \in DOMAIN sessions
      PROVE  /\ Cardinality(sessions[i].taken) <= 1
             /\ sessions[i].told <= Cardinality(sessions[i].taken)
             /\ slot = i => sessions[i].state = "held"
  <2>1. Owned(i) /\ sessions[i] \in SessionSet
    BY SessionIs DEF OwnerInv
  <2>2. \/ sessions[i].taken = {} /\ sessions[i].told = 0
        \/ (\E x: sessions[i].taken = {x}) /\ sessions[i].told \in {0, 1}
    BY <2>1 DEF Owned, SessionSet
  <2>3. Cardinality(sessions[i].taken) \in {0, 1} /\ sessions[i].told <= Cardinality(sessions[i].taken)
    <3>1. CASE sessions[i].taken = {} /\ sessions[i].told = 0
      <4>1. Cardinality(sessions[i].taken) = 0
        BY <3>1, FS_EmptySet
      <4> QED
        BY <3>1, <4>1
    <3>2. CASE (\E x: sessions[i].taken = {x}) /\ sessions[i].told \in {0, 1}
      <4>1. Cardinality(sessions[i].taken) = 1
        BY <3>2, FS_Singleton
      <4> QED
        BY <3>2, <4>1
    <3> QED
      BY <2>2, <3>1, <3>2
  <2> QED
    BY <2>1, <2>3 DEF Owned
<1>3. MonitorClosesOwn
  BY DEF MonitorInv, MonitorClosesOwn, Ids
<1>4. StatusTellsSlot
  <2> SUFFICES ASSUME AtRest, ~tangled
               PROVE  (status.state = "connected") = (slot # 0) /\ (slot # 0 => status.session = slot)
    BY DEF StatusTellsSlot
  <2>1. ~Cleaning /\ \A q \in Callers: dial[q].stage = "idle"
    BY DEF AtRest, At
  <2>2. /\ status.state = "connected" <=> slot # 0
        /\ slot # 0 => status.session = slot
    BY <2>1 DEF StatusInv
  <2> QED
    BY <2>2
<1> QED
  BY <1>1, <1>2, <1>3, <1>4 DEF ConnectionIsOwned, NoSessionLeftBehind, ReleasedOnce, Ids

\* Whatever the callers, the monitors and the servers do, and in whatever
\* order: every session is released by one at most, told of once at most, and
\* by its own monitor unless that was late; at rest none is left behind, and the
\* status is that of the slot unless a monitor met a caller.
THEOREM SessionsAreOwned == Spec => []ConnectionIsOwned
<1>1. Spec => [](Inv /\ ClockInv)
  BY InitInv, NextInv, PTL DEF Spec
<1> QED
  BY <1>1, InvIsOwned, PTL

-----------------------------------------------------------------------------
(* Lists of whatever they hold. *)

IsList(s) == s \in Seq(ToSet(s))

LEMMA ListIs ==
    ASSUME NEW T, NEW s \in Seq(T)
    PROVE  IsList(s) /\ Len(s) \in Nat /\ DOMAIN s = 1 .. Len(s) /\ ToSet(s) \subseteq T
<1>1. DOMAIN s = 1 .. Len(s) /\ Len(s) \in Nat
  OBVIOUS
<1>2. ToSet(s) \subseteq T
  BY DEF ToSet
<1>3. \A i \in 1 .. Len(s): s[i] \in ToSet(s)
  BY <1>1 DEF ToSet
<1>4. s \in [1 .. Len(s) -> ToSet(s)]
  BY <1>1, <1>3
<1>5. s \in Seq(ToSet(s))
  BY <1>1, <1>4
<1> QED
  BY <1>1, <1>2, <1>5 DEF IsList

LEMMA ListFacts ==
    ASSUME NEW s, IsList(s)
    PROVE  /\ Len(s) \in Nat /\ DOMAIN s = 1 .. Len(s)
           /\ \A i \in 1 .. Len(s): s[i] \in ToSet(s)
           /\ \A x: x \in ToSet(s) <=> \E i \in 1 .. Len(s): s[i] = x
           /\ s = <<>> <=> Len(s) = 0
<1>1. Len(s) \in Nat /\ DOMAIN s = 1 .. Len(s) /\ (s = <<>> <=> Len(s) = 0)
  BY DEF IsList
<1>2. \A x: x \in ToSet(s) <=> \E i \in 1 .. Len(s): s[i] = x
  BY <1>1 DEF ToSet
<1> QED
  BY <1>1, <1>2

LEMMA EmptyList == IsList(<<>>) /\ Len(<<>>) = 0 /\ ToSet(<<>>) = {} /\ DOMAIN <<>> = {}
  BY DEF IsList, ToSet

LEMMA SingleList == ASSUME NEW x PROVE IsList(<<x>>) /\ Len(<<x>>) = 1 /\ <<x>>[1] = x
<1>1. <<x>> \in Seq({x}) /\ Len(<<x>>) = 1 /\ <<x>>[1] = x
  OBVIOUS
<1> QED
  BY <1>1, ListIs

LEMMA TailList ==
    ASSUME NEW s, IsList(s), s # <<>>
    PROVE  /\ IsList(Tail(s)) /\ Len(Tail(s)) = Len(s) - 1 /\ Len(s) > 0
           /\ \A i \in 1 .. Len(s) - 1: Tail(s)[i] = s[i + 1]
<1> DEFINE T == ToSet(s)
<1>1. s \in Seq(T)
  BY DEF IsList
<1> HIDE DEF T
<1>2. Tail(s) \in Seq(T) /\ Len(Tail(s)) = Len(s) - 1 /\ Len(s) > 0 /\ \A i \in 1 .. Len(s) - 1: Tail(s)[i] = s[i + 1]
  BY <1>1
<1> QED
  BY <1>2, ListIs

LEMMA AppendList ==
    ASSUME NEW s, IsList(s), NEW x
    PROVE  /\ IsList(Append(s, x)) /\ Len(Append(s, x)) = Len(s) + 1
           /\ \A i \in 1 .. Len(s): Append(s, x)[i] = s[i]
           /\ Append(s, x)[Len(s) + 1] = x
<1> DEFINE T == ToSet(s) \cup {x}
<1>1. s \in Seq(ToSet(s)) /\ ToSet(s) \subseteq T
  BY DEF IsList
<1>2. s \in Seq(T)
  BY <1>1, WiderList
<1>3. x \in T
  OBVIOUS
<1> HIDE DEF T
<1>4. /\ Append(s, x) \in Seq(T) /\ Len(Append(s, x)) = Len(s) + 1
      /\ \A i \in 1 .. Len(s): Append(s, x)[i] = s[i]
      /\ Append(s, x)[Len(s) + 1] = x
  BY <1>2, <1>3
<1> QED
  BY <1>4, ListIs

LEMMA JoinList ==
    ASSUME NEW a, NEW b, IsList(a), IsList(b)
    PROVE  /\ IsList(a \o b) /\ Len(a \o b) = Len(a) + Len(b)
           /\ \A i \in 1 .. Len(a): (a \o b)[i] = a[i]
           /\ \A i \in 1 .. Len(b): (a \o b)[Len(a) + i] = b[i]
<1> DEFINE T == ToSet(a) \cup ToSet(b)
<1>1. a \in Seq(ToSet(a)) /\ b \in Seq(ToSet(b)) /\ ToSet(a) \subseteq T /\ ToSet(b) \subseteq T
  BY DEF IsList
<1> HIDE DEF T
<1>2. a \in Seq(T) /\ b \in Seq(T)
  BY <1>1, WiderList
<1>3. /\ (a \o b) \in Seq(T) /\ Len(a \o b) = Len(a) + Len(b)
      /\ \A i \in 1 .. Len(a): (a \o b)[i] = a[i]
      /\ \A i \in 1 .. Len(b): (a \o b)[Len(a) + i] = b[i]
  BY <1>2
<1> QED
  BY <1>3, ListIs

LEMMA ChosenRanked ==
    ASSUME NEW s, IsList(s), NEW P, P \subseteq 1 .. Len(s)
    PROVE  Ranked(Chosen(s, P), P, s, ToSet(s)) /\ IsList(Chosen(s, P))
<1>1. Len(s) \in Nat /\ DOMAIN s = 1 .. Len(s) /\ \A i \in P: s[i] \in ToSet(s)
  BY ListFacts
<1>2. Chosen(s, P) = FlattenSeq(Choice(Len(s), P, s))
  BY <1>1 DEF Chosen, Choice
<1>3. Ranked(Chosen(s, P), P, s, ToSet(s))
  BY <1>1, <1>2, Selection
<1>4. Chosen(s, P) \in Seq(ToSet(s))
  BY <1>3 DEF Ranked
<1> QED
  BY <1>3, <1>4, ListIs

-----------------------------------------------------------------------------
(* The agents of an attempt. *)

\* DiscoverAgentSockets, with the world that it looks at.
Named(w, agent) == (IF agent = None THEN <<>> ELSE <<agent>>) \o w.sockets
ThereOf(w, agent) == Chosen(Named(w, agent), {i \in DOMAIN Named(w, agent): w.agent[Named(w, agent)[i]].there})
Sockets(w, agent) ==
    Chosen(ThereOf(w, agent),
           {i \in DOMAIN ThereOf(w, agent):
              \A j \in 1 .. i - 1: w.agent[ThereOf(w, agent)[j]].file # w.agent[ThereOf(w, agent)[i]].file})

LEMMA DiscoveredAre == ASSUME NEW agent PROVE DiscoverAgentSockets(agent) = Sockets(W, agent)
  BY DEF DiscoverAgentSockets, DedupeByCanonical, Sockets, ThereOf, Named

LEMMA SocketsOnce ==
    ASSUME NEW w, IsList(w.sockets), NEW agent
    PROVE  /\ IsList(Sockets(w, agent))
           /\ \A i, j \in DOMAIN Sockets(w, agent):
                 w.agent[Sockets(w, agent)[i]].file = w.agent[Sockets(w, agent)[j]].file => i = j
<1>1. IsList(Named(w, agent))
  BY JoinList, EmptyList, SingleList DEF Named
<1> DEFINE s == ThereOf(w, agent)
           P == {i \in DOMAIN s: \A j \in 1 .. i - 1: w.agent[s[j]].file # w.agent[s[i]].file}
           r == Sockets(w, agent)
<1>2. IsList(s)
  <2> DEFINE Q == {i \in DOMAIN Named(w, agent): w.agent[Named(w, agent)[i]].there}
  <2>1. Q \subseteq 1 .. Len(Named(w, agent))
    BY <1>1, ListFacts
  <2> HIDE DEF Q
  <2>2. IsList(Chosen(Named(w, agent), Q))
    BY <1>1, <2>1, ChosenRanked
  <2> QED
    BY <2>2 DEF ThereOf, Q
<1> HIDE DEF s
<1>3. P \subseteq 1 .. Len(s) /\ Len(s) \in Nat /\ DOMAIN s = 1 .. Len(s)
  BY <1>2, ListFacts
<1>4. r = Chosen(s, P)
  BY DEF Sockets, s
<1>5. \A i, k \in P: w.agent[s[i]].file = w.agent[s[k]].file => i = k
  BY <1>3
<1> HIDE DEF P
<1>6. Ranked(r, P, s, ToSet(s)) /\ IsList(r)
  BY <1>2, <1>3, <1>4, ChosenRanked
<1>7. DOMAIN r = 1 .. Len(r)
  BY <1>6, ListFacts
<1>8. ASSUME NEW i \in DOMAIN r, NEW j \in DOMAIN r, w.agent[r[i]].file = w.agent[r[j]].file PROVE i = j
  <2>1. PICK k \in P: Rank(P, k) = i /\ r[i] = s[k]
    BY <1>6, <1>7 DEF Ranked
  <2>2. PICK l \in P: Rank(P, l) = j /\ r[j] = s[l]
    BY <1>6, <1>7 DEF Ranked
  <2> QED
    BY <1>5, <1>8, <2>1, <2>2
<1> QED
  BY <1>6, <1>8
LEMMA ListIsFinite == ASSUME NEW s, IsList(s) PROVE IsFiniteSet(ToSet(s))
<1>1. Len(s) \in Nat /\ DOMAIN s = 1 .. Len(s) /\ s \in Seq(ToSet(s))
  BY ListFacts DEF IsList
<1>2. IsFiniteSet(1 .. Len(s))
  BY <1>1, FS_Interval
<1>3. s \in [1 .. Len(s) -> ToSet(s)] /\ \A x \in ToSet(s): \E i \in 1 .. Len(s): s[i] = x
  BY <1>1, ListFacts
<1>4. s \in Surjection(1 .. Len(s), ToSet(s))
  BY <1>3 DEF Surjection
<1> QED
  BY <1>2, <1>4, FS_Surjection

-----------------------------------------------------------------------------
(* What an attempt has tried, in the world w of its scenario. *)

KeyIn(w, path) == IF path \in DOMAIN w.keys THEN w.keys[path] ELSE "missing"
PlaceIn(w, source) == IF source.kind = "agent" THEN Socket(w.agent[source.path].file) ELSE source
Works(w, a) == w.agent[a].listens /\ AgentAccepts(w.agent[a])
ToAgents(d) == d.cfg.method \in {"agent", "auto"}
OfAgents(w, d) == IF ToAgents(d) THEN ToSet(Sockets(w, d.resolved.agent)) ELSE {}
OfKeys(w, d) == IF d.cfg.method = "auto" /\ w.home THEN ToSet(d.resolved.files) \cup ToSet(DEFAULT_KEY_NAMES) ELSE {}

Told(d, source) == \E i \in DOMAIN d.trace: d.trace[i].source = source
TooLong(d, source) == \E i \in DOMAIN d.trace: d.trace[i].source = source /\ d.trace[i].why = "timeout"
ManyTold(w, d) == Cardinality({a \in OfAgents(w, d): Told(d, Socket(a))}) >= AUTH_TIMEOUT \div AGENT_CANDIDATE_TIMEOUT

\* A report names each thing once, but for what it says is a repetition.
Once(w, d) ==
    \A i, j \in DOMAIN d.trace:
        i < j /\ PlaceIn(w, d.trace[i].source) = PlaceIn(w, d.trace[j].source) => d.trace[j].why = "duplicate"

\* What a failed authentication has done.
KeyTold(w, d, k) == Told(d, KeyFile(k)) /\ (KeyIn(w, k) = "accepted" => TooLong(d, KeyFile(k)))
AgentTold(w, d, a) == Told(d, Socket(a)) /\ (Works(w, a) => TooLong(d, Socket(a)))
Satisfied(w, d) ==
    /\ \A k \in OfKeys(w, d): KeyTold(w, d, k)
    /\ w.home => \A a \in OfAgents(w, d): d.cut \/ AgentTold(w, d, a)
    /\ d.cut => ManyTold(w, d)

\* The step with the agents is the next one.
AgentNext(d) == d.plan # <<>> /\ d.plan[1].kind = "agent"

\* How many of the agents were tried.
Gone(w, d) == Len(Sockets(w, d.resolved.agent)) - Len(d.sockets)

AgentsInv(w, d) ==
    /\ d.cut => d.sockets = <<>> /\ ManyTold(w, d)
    /\ ~d.cut =>
          /\ Len(d.sockets) <= Len(Sockets(w, d.resolved.agent))
          /\ \A i \in 1 .. Len(d.sockets): d.sockets[i] = Sockets(w, d.resolved.agent)[Gone(w, d) + i]
          /\ \A k \in 1 .. Gone(w, d): AgentTold(w, d, Sockets(w, d.resolved.agent)[k])
          /\ \A i \in DOMAIN d.trace: d.trace[i].source.kind = "agent" =>
                \E k \in 1 .. Gone(w, d): d.trace[i].source = Socket(Sockets(w, d.resolved.agent)[k])
          /\ AgentNext(d) => d.clock + AUTH_TIMEOUT <= d.until + Gone(w, d) * AGENT_CANDIDATE_TIMEOUT
    /\ AgentNext(d) => d.sockets # <<>> /\ ToAgents(d)
    /\ ~AgentNext(d) /\ w.home /\ ToAgents(d) => d.cut \/ d.sockets = <<>>

KeysInv(w, d) ==
    /\ \A i \in 2 .. Len(d.plan): d.plan[i].kind # "agent"
    /\ \A i \in DOMAIN d.trace:
          \/ d.trace[i].source.kind = "agent"
          \/ \E k \in d.tried: d.trace[i].source = KeyFile(k)
    /\ \A k \in d.tried: KeyTold(w, d, k)
    /\ \A k \in OfKeys(w, d):
          k \in d.tried \/ \E i \in 1 .. Len(d.plan): d.plan[i].kind \in {"file", "default"} /\ d.plan[i].path = k

AuthInv(w, d) ==
    /\ IsList(d.plan) /\ IsList(d.sockets) /\ d.cut \in BOOLEAN
    /\ AgentsInv(w, d) /\ KeysInv(w, d)

\* Nothing was tried so far.
Fresh == {"take", "dispose", "bye", "free", "merge", "resolve", "probe", "handshake", "discover"}
TryInv(w, d) ==
    /\ IsList(d.trace) /\ Once(w, d)
    /\ d.stage \in Fresh => d.trace = <<>> /\ d.tried = {} /\ d.cut = FALSE
    /\ d.stage \notin {"failed", "idle"} => d.result # "auth"
    /\ d.stage \in {"probe", "handshake", "discover", "auth"} => IsList(d.resolved.files)
    /\ d.stage = "auth" => AuthInv(w, d)
    /\ d.result = "auth" => Satisfied(w, d)

-----------------------------------------------------------------------------
(* A report that grows. *)

Grows(d, e, x) == IsList(d.trace) /\ e.trace = Append(d.trace, x)

LEMMA Grown ==
    ASSUME NEW d, NEW e, NEW x, Grows(d, e, x)
    PROVE  /\ IsList(e.trace)
           /\ \A s: (Told(d, s) => Told(e, s)) /\ (TooLong(d, s) => TooLong(e, s))
           /\ Told(e, x.source)
           /\ x.why = "timeout" => TooLong(e, x.source)
           /\ \A i \in DOMAIN e.trace: \/ i \in DOMAIN d.trace /\ e.trace[i] = d.trace[i]
                                       \/ (\A j \in DOMAIN d.trace: j < i) /\ e.trace[i] = x
<1>1. /\ IsList(e.trace) /\ Len(e.trace) = Len(d.trace) + 1
      /\ \A i \in 1 .. Len(d.trace): e.trace[i] = d.trace[i]
      /\ e.trace[Len(d.trace) + 1] = x
  BY AppendList DEF Grows
<1>2. Len(d.trace) \in Nat /\ DOMAIN d.trace = 1 .. Len(d.trace) /\ DOMAIN e.trace = 1 .. (Len(d.trace) + 1)
  BY <1>1, ListFacts DEF Grows
<1>3. \A i \in DOMAIN d.trace: i \in DOMAIN e.trace /\ e.trace[i] = d.trace[i]
  BY <1>1, <1>2
<1>4. Len(d.trace) + 1 \in DOMAIN e.trace /\ e.trace[Len(d.trace) + 1] = x
  BY <1>1, <1>2
<1>5. \A i \in DOMAIN e.trace: \/ i \in DOMAIN d.trace /\ e.trace[i] = d.trace[i]
                               \/ (\A j \in DOMAIN d.trace: j < i) /\ e.trace[i] = x
  BY <1>1, <1>2
<1> QED
  BY <1>1, <1>3, <1>4, <1>5 DEF Told, TooLong

LEMMA OnceGrown ==
    ASSUME NEW w, NEW d, NEW e, NEW x, Grows(d, e, x), Once(w, d),
           \/ x.why = "duplicate"
           \/ \A i \in DOMAIN d.trace: PlaceIn(w, d.trace[i].source) # PlaceIn(w, x.source)
    PROVE  Once(w, e)
<1> SUFFICES ASSUME NEW i \in DOMAIN e.trace, NEW j \in DOMAIN e.trace, i < j,
                    PlaceIn(w, e.trace[i].source) = PlaceIn(w, e.trace[j].source)
             PROVE  e.trace[j].why = "duplicate"
  BY DEF Once
<1>0. IsList(e.trace) /\ IsList(d.trace)
  BY Grown DEF Grows
<1>1. \A k \in DOMAIN e.trace: \/ k \in DOMAIN d.trace /\ e.trace[k] = d.trace[k]
                               \/ (\A l \in DOMAIN d.trace: l < k) /\ e.trace[k] = x
  BY Grown
<1>2. i \in Nat /\ j \in Nat /\ DOMAIN d.trace \subseteq Nat /\ \A k \in DOMAIN e.trace: k \in 1 .. Len(d.trace) + 1
  BY <1>0, ListFacts, AppendList DEF Grows
<1>3. CASE j \in DOMAIN d.trace /\ e.trace[j] = d.trace[j]
  <2>1. i \in DOMAIN d.trace /\ e.trace[i] = d.trace[i]
    BY <1>1, <1>2, <1>3
  <2> QED
    BY <1>3, <2>1 DEF Once
<1>4. CASE (\A l \in DOMAIN d.trace: l < j) /\ e.trace[j] = x
  <2>1. i \in DOMAIN d.trace /\ e.trace[i] = d.trace[i]
    <3>1. j = Len(d.trace) + 1 /\ i \in 1 .. Len(d.trace) /\ DOMAIN d.trace = 1 .. Len(d.trace)
      <4>1. DOMAIN d.trace = 1 .. Len(d.trace) /\ Len(d.trace) \in Nat
        BY <1>0, ListFacts
      <4> QED
        BY <1>2, <1>4, <4>1
    <3> QED
      BY <1>0, <3>1, AppendList DEF Grows
  <2> QED
    BY <1>4, <2>1
<1> QED
  BY <1>1, <1>3, <1>4

LEMMA EnoughGrown ==
    ASSUME NEW w, IsList(w.sockets), NEW d, NEW e, e.cfg = d.cfg, e.resolved = d.resolved,
           \A s: Told(d, s) => Told(e, s), ManyTold(w, d)
    PROVE  ManyTold(w, e)
<1> DEFINE A == OfAgents(w, d)
           S == {a \in A: Told(d, Socket(a))}
           T == {a \in A: Told(e, Socket(a))}
<1>1. OfAgents(w, e) = A
  BY DEF OfAgents, ToAgents
<1>2. IsFiniteSet(A)
  <2>1. IsFiniteSet(ToSet(Sockets(w, d.resolved.agent)))
    BY SocketsOnce, ListIsFinite
  <2> QED
    BY <2>1, FS_EmptySet DEF OfAgents
<1> HIDE DEF A
<1>3. S \subseteq T /\ T \subseteq A
  OBVIOUS
<1>4. IsFiniteSet(T) /\ IsFiniteSet(S) /\ Cardinality(S) <= Cardinality(T)
  BY <1>2, <1>3, FS_Subset
<1>5. Cardinality(S) \in Nat /\ Cardinality(T) \in Nat
  BY <1>4, FS_CardinalityType
<1>6. AUTH_TIMEOUT \div AGENT_CANDIDATE_TIMEOUT \in Nat
  BY ConnectAssumption
<1>7. Cardinality(S) >= AUTH_TIMEOUT \div AGENT_CANDIDATE_TIMEOUT
  BY DEF ManyTold, A
<1> QED
  BY <1>1, <1>4, <1>5, <1>6, <1>7 DEF ManyTold

LEMMA ToldGrown ==
    ASSUME NEW w, NEW d, NEW e, \A s: (Told(d, s) => Told(e, s)) /\ (TooLong(d, s) => TooLong(e, s))
    PROVE  /\ \A k: KeyTold(w, d, k) => KeyTold(w, e, k)
           /\ \A a: AgentTold(w, d, a) => AgentTold(w, e, a)
BY DEF KeyTold, AgentTold

-----------------------------------------------------------------------------
(* The steps of an authentication. *)

\* What the steps that try a candidate do not change.
Stays(d, e) == e.cfg = d.cfg /\ e.resolved = d.resolved /\ e.until = d.until

LEMMA SameNames ==
    ASSUME NEW w, NEW d, NEW e, Stays(d, e)
    PROVE  /\ OfAgents(w, e) = OfAgents(w, d) /\ OfKeys(w, e) = OfKeys(w, d) /\ ToAgents(e) = ToAgents(d)
           /\ Sockets(w, e.resolved.agent) = Sockets(w, d.resolved.agent)
BY DEF Stays, OfAgents, OfKeys, ToAgents

LEMMA PlanTail ==
    ASSUME NEW plan, IsList(plan), plan # <<>>, \A i \in 2 .. Len(plan): plan[i].kind # "agent"
    PROVE  /\ IsList(Tail(plan))
           /\ Tail(plan) # <<>> => Tail(plan)[1].kind # "agent"
           /\ \A i \in 2 .. Len(Tail(plan)): Tail(plan)[i].kind # "agent"
           /\ \A i \in 1 .. Len(plan): i = 1 \/ \E j \in 1 .. Len(Tail(plan)): Tail(plan)[j] = plan[i]
<1> DEFINE t == Tail(plan)
<1>1. /\ IsList(t) /\ Len(t) = Len(plan) - 1 /\ Len(plan) > 0
      /\ \A i \in 1 .. Len(plan) - 1: t[i] = plan[i + 1]
  BY TailList
<1> HIDE DEF t
<1>2. Len(plan) \in Nat /\ (t = <<>> <=> Len(t) = 0)
  BY <1>1, ListFacts
<1>3. \A i \in 1 .. Len(t): t[i].kind # "agent"
  BY <1>1, <1>2
<1>4. t # <<>> => 1 \in 1 .. Len(t)
  BY <1>1, <1>2
<1>5. \A i \in 2 .. Len(t): t[i].kind # "agent"
  BY <1>1, <1>2, <1>3
<1>6. \A i \in 1 .. Len(plan): i = 1 \/ \E j \in 1 .. Len(t): t[j] = plan[i]
  <2> SUFFICES ASSUME NEW i \in 1 .. Len(plan), i # 1 PROVE \E j \in 1 .. Len(t): t[j] = plan[i]
    OBVIOUS
  <2>1. i - 1 \in 1 .. Len(t) /\ i - 1 \in 1 .. Len(plan) - 1 /\ (i - 1) + 1 = i
    BY <1>1, <1>2
  <2>2. t[i - 1] = plan[i]
    BY <1>1, <2>1
  <2> QED
    BY <2>1, <2>2
<1> QED
  BY <1>1, <1>3, <1>4, <1>5, <1>6 DEF t

\* The next step of the plan is done.
Behind(d, e) ==
    /\ IsList(e.plan) /\ ~AgentNext(e)
    /\ \A i \in 2 .. Len(e.plan): e.plan[i].kind # "agent"
    /\ \A i \in 1 .. Len(d.plan): i = 1 \/ \E j \in 1 .. Len(e.plan): e.plan[j] = d.plan[i]

LEMMA NextDone ==
    ASSUME NEW d, d.plan # <<>>, IsList(d.plan), \A i \in 2 .. Len(d.plan): d.plan[i].kind # "agent",
           NEW e, e.plan = Tail(d.plan)
    PROVE  Behind(d, e)
<1> DEFINE plan == d.plan
<1>1. IsList(plan) /\ plan # <<>> /\ \A i \in 2 .. Len(plan): plan[i].kind # "agent"
  OBVIOUS
<1>2. e.plan = Tail(plan)
  OBVIOUS
<1> HIDE DEF plan
<1>3. /\ IsList(Tail(plan))
      /\ Tail(plan) # <<>> => Tail(plan)[1].kind # "agent"
      /\ \A i \in 2 .. Len(Tail(plan)): Tail(plan)[i].kind # "agent"
      /\ \A i \in 1 .. Len(plan): i = 1 \/ \E j \in 1 .. Len(Tail(plan)): Tail(plan)[j] = plan[i]
  BY <1>1, PlanTail, Zenon
<1>4. /\ IsList(e.plan) /\ ~AgentNext(e)
      /\ \A i \in 2 .. Len(e.plan): e.plan[i].kind # "agent"
      /\ \A i \in 1 .. Len(plan): i = 1 \/ \E j \in 1 .. Len(e.plan): e.plan[j] = plan[i]
  BY <1>2, <1>3, Zenon DEF AgentNext
<1> QED
  BY <1>4 DEF plan, Behind

\* A password or the only key was refused.
LEMMA OnlyTried ==
    ASSUME NEW w, IsList(w.sockets), NEW d, AuthInv(w, d), d.plan # <<>>, d.plan[1].kind \in {"password", "key"},
           NEW e, Stays(d, e), e.plan = Tail(d.plan), e.trace = d.trace, e.tried = d.tried, e.sockets = d.sockets,
           e.cut = d.cut
    PROVE  AuthInv(w, e)
<1>p. Behind(d, e)
  <2>1. d.plan # <<>> /\ IsList(d.plan) /\ e.plan = Tail(d.plan) /\ \A i \in 2 .. Len(d.plan): d.plan[i].kind # "agent"
    BY DEF AuthInv, KeysInv
  <2> QED
    BY <2>1, NextDone
<1>n. /\ OfAgents(w, e) = OfAgents(w, d) /\ OfKeys(w, e) = OfKeys(w, d) /\ ToAgents(e) = ToAgents(d)
      /\ Sockets(w, e.resolved.agent) = Sockets(w, d.resolved.agent)
  BY SameNames
<1>1. /\ \A s: (Told(d, s) => Told(e, s)) /\ (TooLong(d, s) => TooLong(e, s))
  BY DEF Told, TooLong
<1>2. /\ \A k: KeyTold(w, d, k) => KeyTold(w, e, k)
      /\ \A a: AgentTold(w, d, a) => AgentTold(w, e, a)
  BY <1>1, ToldGrown
<1>3. ~AgentNext(d) /\ ~AgentNext(e)
  BY <1>p DEF AgentNext, Behind
<1>4. Gone(w, e) = Gone(w, d)
  BY <1>n DEF Gone
<1>5. AgentsInv(w, e)
  <2>1. d.cut => ManyTold(w, e)
    BY <1>1, EnoughGrown DEF Stays, AuthInv, AgentsInv
  <2> QED
    BY <1>2, <1>3, <1>4, <2>1, <1>n DEF AuthInv, AgentsInv
<1>6. KeysInv(w, e)
  <2>1. \A k \in OfKeys(w, e):
           k \in e.tried \/ \E i \in 1 .. Len(e.plan): e.plan[i].kind \in {"file", "default"} /\ e.plan[i].path = k
    <3> TAKE k \in OfKeys(w, e)
    <3>1. k \in d.tried \/ \E i \in 1 .. Len(d.plan): d.plan[i].kind \in {"file", "default"} /\ d.plan[i].path = k
      BY <1>n DEF AuthInv, KeysInv
    <3>2. CASE k \in d.tried
      BY <3>2
    <3>3. ASSUME NEW i \in 1 .. Len(d.plan), d.plan[i].kind \in {"file", "default"}, d.plan[i].path = k
          PROVE  \E j \in 1 .. Len(e.plan): e.plan[j].kind \in {"file", "default"} /\ e.plan[j].path = k
      <4>1. i # 1
        BY <3>3
      <4>2. PICK j \in 1 .. Len(e.plan): e.plan[j] = d.plan[i]
        BY <4>1, <1>p DEF Behind
      <4> QED
        BY <3>3, <4>2
    <3> QED
      BY <3>1, <3>2, <3>3
  <2>2. \A i \in 2 .. Len(e.plan): e.plan[i].kind # "agent"
    BY <1>p DEF Behind
  <2> QED
    BY <1>2, <2>1, <2>2 DEF AuthInv, KeysInv
<1>7. IsList(e.plan)
  BY <1>p DEF Behind
<1> QED
  BY <1>5, <1>6, <1>7 DEF AuthInv

\* A key was skipped or refused, or took too long.
LEMMA KeyTried ==
    ASSUME NEW w, IsList(w.sockets), NEW d, AuthInv(w, d), Once(w, d),
           d.plan # <<>>, d.plan[1].kind \in {"file", "default"},
           NEW e, Stays(d, e), e.plan = Tail(d.plan), e.tried = d.tried \cup {d.plan[1].path},
           e.sockets = d.sockets, e.cut = d.cut,
           NEW x, Grows(d, e, x), x.source = KeyFile(d.plan[1].path),
           \/ d.plan[1].path \in d.tried /\ x.why = "duplicate"
           \/ d.plan[1].path \notin d.tried /\ (KeyIn(w, d.plan[1].path) = "accepted" => x.why = "timeout")
    PROVE  AuthInv(w, e)
<1> DEFINE path == d.plan[1].path
<1>p. Behind(d, e)
  <2>1. d.plan # <<>> /\ IsList(d.plan) /\ e.plan = Tail(d.plan) /\ \A i \in 2 .. Len(d.plan): d.plan[i].kind # "agent"
    BY DEF AuthInv, KeysInv
  <2> QED
    BY <2>1, NextDone
<1>n. /\ OfAgents(w, e) = OfAgents(w, d) /\ OfKeys(w, e) = OfKeys(w, d) /\ ToAgents(e) = ToAgents(d)
      /\ Sockets(w, e.resolved.agent) = Sockets(w, d.resolved.agent)
  BY SameNames
<1>1. /\ \A s: (Told(d, s) => Told(e, s)) /\ (TooLong(d, s) => TooLong(e, s))
      /\ Told(e, x.source) /\ (x.why = "timeout" => TooLong(e, x.source))
      /\ \A i \in DOMAIN e.trace: \/ i \in DOMAIN d.trace /\ e.trace[i] = d.trace[i]
                                  \/ e.trace[i] = x
  BY Grown
<1>2. /\ \A k: KeyTold(w, d, k) => KeyTold(w, e, k)
      /\ \A a: AgentTold(w, d, a) => AgentTold(w, e, a)
  BY <1>1, ToldGrown
<1>3. ~AgentNext(d) /\ ~AgentNext(e)
  BY <1>p DEF AgentNext, Behind
<1>4. Gone(w, e) = Gone(w, d)
  BY <1>n DEF Gone
<1>5. x.source.kind = "key"
  BY DEF KeyFile, Step
<1>6. AgentsInv(w, e)
  <2>1. d.cut => ManyTold(w, e)
    BY <1>1, EnoughGrown DEF Stays, AuthInv, AgentsInv
  <2>2. ~d.cut => \A i \in DOMAIN e.trace: e.trace[i].source.kind = "agent" =>
                     \E k \in 1 .. Gone(w, d): e.trace[i].source = Socket(Sockets(w, d.resolved.agent)[k])
    BY <1>1, <1>5 DEF AuthInv, AgentsInv
  <2> QED
    BY <1>2, <1>3, <1>4, <2>1, <2>2, <1>n DEF AuthInv, AgentsInv
<1>7. KeysInv(w, e)
  <2>1. \A k \in OfKeys(w, e):
           k \in e.tried \/ \E i \in 1 .. Len(e.plan): e.plan[i].kind \in {"file", "default"} /\ e.plan[i].path = k
    <3> TAKE k \in OfKeys(w, e)
    <3>1. k \in d.tried \/ \E i \in 1 .. Len(d.plan): d.plan[i].kind \in {"file", "default"} /\ d.plan[i].path = k
      BY <1>n DEF AuthInv, KeysInv
    <3>2. CASE k \in d.tried \/ k = path
      BY <3>2
    <3>3. ASSUME NEW i \in 1 .. Len(d.plan), d.plan[i].kind \in {"file", "default"}, d.plan[i].path = k, k # path
          PROVE  \E j \in 1 .. Len(e.plan): e.plan[j].kind \in {"file", "default"} /\ e.plan[j].path = k
      <4>1. i # 1
        BY <3>3
      <4>2. PICK j \in 1 .. Len(e.plan): e.plan[j] = d.plan[i]
        BY <4>1, <1>p DEF Behind
      <4> QED
        BY <3>3, <4>2
    <3> QED
      BY <3>1, <3>2, <3>3
  <2>2. \A i \in 2 .. Len(e.plan): e.plan[i].kind # "agent"
    BY <1>p DEF Behind
  <2>3. \A k \in e.tried: KeyTold(w, e, k)
    <3>1. path \in d.tried \/ KeyTold(w, e, path)
      BY <1>1 DEF KeyTold
    <3> QED
      BY <1>2, <3>1 DEF AuthInv, KeysInv
  <2>4. \A i \in DOMAIN e.trace: e.trace[i].source.kind = "agent" \/ \E k \in e.tried: e.trace[i].source = KeyFile(k)
    BY <1>1 DEF AuthInv, KeysInv
  <2> QED
    BY <2>1, <2>2, <2>3, <2>4 DEF KeysInv
<1>8. IsList(e.plan)
  BY <1>p DEF Behind
<1> QED
  BY <1>6, <1>7, <1>8 DEF AuthInv

\* Whatever becomes of a key, the report names it once.
LEMMA KeyOnce ==
    ASSUME NEW w, NEW d, AuthInv(w, d), Once(w, d), NEW path, NEW e, NEW x, Grows(d, e, x), x.source = KeyFile(path),
           path \in d.tried => x.why = "duplicate"
    PROVE  Once(w, e)
<1>1. CASE path \in d.tried
  BY <1>1, OnceGrown
<1>2. CASE path \notin d.tried
  <2>1. PlaceIn(w, x.source) = KeyFile(path)
    BY DEF PlaceIn, KeyFile, Step
  <2>2. ASSUME NEW i \in DOMAIN d.trace PROVE PlaceIn(w, d.trace[i].source) # KeyFile(path)
    <3>1. CASE d.trace[i].source.kind = "agent"
      BY <3>1 DEF PlaceIn, Socket, KeyFile, Step
    <3>2. ASSUME NEW k \in d.tried, d.trace[i].source = KeyFile(k), d.trace[i].source.kind # "agent"
          PROVE  PlaceIn(w, d.trace[i].source) # KeyFile(path)
      BY <1>2, <3>2 DEF PlaceIn, KeyFile, Step
    <3> QED
      BY <3>1, <3>2 DEF AuthInv, KeysInv
  <2> QED
    BY <2>1, <2>2, OnceGrown
<1> QED
  BY <1>1, <1>2

LEMMA OneMore ==
    ASSUME NEW n \in Nat, NEW c \in Nat
    PROVE  n * c \in Nat /\ (n + 1) * c = n * c + c
OBVIOUS

LEMMA OneLess ==
    ASSUME NEW a \in Nat, NEW b \in Nat
    PROVE  a - (b - 1) = (a - b) + 1
OBVIOUS

\* One more of the shares of a time is over.
LEMMA ShareOver ==
    ASSUME NEW t \in Nat, NEW u \in Nat, NEW a \in Nat, NEW c \in Nat, NEW b \in Nat, NEW n \in Nat,
           t + a <= b + n * c, u <= t + c
    PROVE  u + a <= b + (n + 1) * c
<1>1. n * c \in Nat /\ (n + 1) * c = n * c + c
  BY OneMore
<1> DEFINE k == n * c
           l == (n + 1) * c
<1>2. k \in Nat /\ l = k + c /\ t + a <= b + k
  BY <1>1
<1> HIDE DEF k, l
<1>3. u + a <= b + l
  BY <1>2
<1> QED
  BY <1>3 DEF l

LEMMA Shares ==
    ASSUME NEW a \in Nat, NEW c \in Nat, c # 0, NEW n \in Nat, n * c + c > a
    PROVE  n >= a \div c
<1> DEFINE q == a \div c
<1>1. q \in Nat /\ q * c <= a
  OBVIOUS
<1> HIDE DEF q
<1>2. ASSUME n < q PROVE FALSE
  <2>1. q - (n + 1) \in Nat
    BY <1>1, <1>2
  <2>2. PICK k \in Nat: k = q - (n + 1)
    BY <2>1
  <2>3. q = k + n + 1
    BY <1>1, <2>2
  <2>4. q * c = k * c + n * c + c /\ k * c \in Nat /\ n * c \in Nat
    BY <2>3
  <2> QED
    BY <1>1, <2>4
<1> QED
  BY <1>1, <1>2 DEF q

\* The agents that an attempt has tried, and the next one.
LEMMA AgentsAt ==
    ASSUME NEW w, IsList(w.sockets), NEW d, AuthInv(w, d), AgentNext(d)
    PROVE  /\ ~d.cut /\ ToAgents(d) /\ Gone(w, d) \in Nat
           /\ Gone(w, d) + 1 \in DOMAIN Sockets(w, d.resolved.agent)
           /\ 1 .. Gone(w, d) \subseteq DOMAIN Sockets(w, d.resolved.agent)
           /\ d.sockets[1] = Sockets(w, d.resolved.agent)[Gone(w, d) + 1]
           /\ d.sockets[1] \in OfAgents(w, d)
<1> DEFINE all == Sockets(w, d.resolved.agent)
<1>1. IsList(all) /\ IsList(d.sockets)
  BY SocketsOnce DEF AuthInv
<1>2. ToAgents(d) /\ d.sockets # <<>> /\ ~d.cut
  BY DEF AuthInv, AgentsInv
<1>3. /\ Len(d.sockets) <= Len(all) /\ \A i \in 1 .. Len(d.sockets): d.sockets[i] = all[Gone(w, d) + i]
  BY <1>2 DEF AuthInv, AgentsInv
<1>4. /\ Gone(w, d) = Len(all) - Len(d.sockets)
      /\ OfAgents(w, d) = ToSet(all)
  BY <1>2 DEF Gone, OfAgents
<1> HIDE DEF all
<1>5. Len(all) \in Nat /\ DOMAIN all = 1 .. Len(all) /\ Len(d.sockets) \in Nat /\ Len(d.sockets) # 0
  BY <1>1, <1>2, ListFacts
<1>6. Gone(w, d) \in Nat /\ Gone(w, d) + 1 \in DOMAIN all /\ 1 .. Gone(w, d) \subseteq DOMAIN all
  BY <1>3, <1>4, <1>5
<1>7. d.sockets[1] = all[Gone(w, d) + 1]
  BY <1>3, <1>5
<1>8. d.sockets[1] \in ToSet(all)
  BY <1>1, <1>5, <1>6, <1>7, ListFacts
<1> QED
  BY <1>2, <1>4, <1>6, <1>7, <1>8 DEF all

\* When the agents have used up their time, many of them were tried.
LEMMA ManyTried ==
    ASSUME NEW w, IsList(w.sockets), NEW d, AuthInv(w, d), AgentNext(d), d.clock \in Nat, d.until \in Nat,
           d.clock + AGENT_CANDIDATE_TIMEOUT > d.until
    PROVE  ManyTold(w, d)
<1> DEFINE all == Sockets(w, d.resolved.agent)
           n == Gone(w, d)
           S == {a \in OfAgents(w, d): Told(d, Socket(a))}
           T == {all[i] : i \in 1 .. n}
<1>1. ~d.cut /\ ToAgents(d) /\ n \in Nat /\ 1 .. n \subseteq DOMAIN all /\ OfAgents(w, d) = ToSet(all)
  BY AgentsAt DEF OfAgents
<1>2. IsList(all) /\ \A i, j \in DOMAIN all: w.agent[all[i]].file = w.agent[all[j]].file => i = j
  BY SocketsOnce
<1>3. d.clock + AUTH_TIMEOUT <= d.until + n * AGENT_CANDIDATE_TIMEOUT
  BY <1>1 DEF AuthInv, AgentsInv
<1>4. \A k \in 1 .. n: Told(d, Socket(all[k]))
  BY <1>1 DEF AuthInv, AgentsInv, AgentTold
<1> HIDE DEF all, n
<1>5. n >= AUTH_TIMEOUT \div AGENT_CANDIDATE_TIMEOUT
  <2>1. AUTH_TIMEOUT \in Nat /\ AGENT_CANDIDATE_TIMEOUT \in Nat /\ AGENT_CANDIDATE_TIMEOUT # 0
    BY ConnectAssumption
  <2>2. n * AGENT_CANDIDATE_TIMEOUT \in Nat
    BY <1>1, <2>1
  <2>3. n * AGENT_CANDIDATE_TIMEOUT + AGENT_CANDIDATE_TIMEOUT > AUTH_TIMEOUT
    BY <1>3, <2>1, <2>2
  <2> QED
    BY <1>1, <2>1, <2>3, Shares
<1>6. Cardinality(T) = n
  <2>1. \A i, j \in 1 .. n: all[i] = all[j] => i = j
    BY <1>1, <1>2
  <2> QED
    BY <1>1, <2>1, Different
<1>7. T \subseteq S
  <2>1. \A i \in 1 .. n: all[i] \in OfAgents(w, d)
    BY <1>1, <1>2, ListFacts
  <2> QED
    BY <1>4, <2>1
<1>8. IsFiniteSet(S)
  <2>1. IsFiniteSet(OfAgents(w, d))
    BY <1>1, <1>2, ListIsFinite
  <2> QED
    BY <2>1, FS_Subset
<1> HIDE DEF S, T
<1>9. Cardinality(T) <= Cardinality(S) /\ Cardinality(S) \in Nat
  BY <1>7, <1>8, FS_Subset, FS_CardinalityType
<1>10. AUTH_TIMEOUT \div AGENT_CANDIDATE_TIMEOUT \in Int
  BY ConnectAssumption
<1> QED
  BY <1>1, <1>5, <1>6, <1>9, <1>10 DEF ManyTold, S

\* The keys of the plan that are not tried yet, when a step is done.
LEMMA KeysLeft ==
    ASSUME NEW w, NEW d, KeysInv(w, d), d.plan # <<>>, NEW e, Behind(d, e), OfKeys(w, e) = OfKeys(w, d),
           e.tried = d.tried, d.plan[1].kind \notin {"file", "default"},
           \A k \in d.tried: KeyTold(w, e, k),
           \A i \in DOMAIN e.trace: e.trace[i].source.kind = "agent" \/ \E k \in e.tried: e.trace[i].source = KeyFile(k)
    PROVE  KeysInv(w, e)
<1>1. \A k \in OfKeys(w, e):
         k \in e.tried \/ \E i \in 1 .. Len(e.plan): e.plan[i].kind \in {"file", "default"} /\ e.plan[i].path = k
  <2> TAKE k \in OfKeys(w, e)
  <2>1. k \in d.tried \/ \E i \in 1 .. Len(d.plan): d.plan[i].kind \in {"file", "default"} /\ d.plan[i].path = k
    BY DEF KeysInv
  <2>2. CASE k \in d.tried
    BY <2>2
  <2>3. ASSUME NEW i \in 1 .. Len(d.plan), d.plan[i].kind \in {"file", "default"}, d.plan[i].path = k
        PROVE  \E j \in 1 .. Len(e.plan): e.plan[j].kind \in {"file", "default"} /\ e.plan[j].path = k
    <3>1. i # 1
      BY <2>3
    <3>2. PICK j \in 1 .. Len(e.plan): e.plan[j] = d.plan[i]
      BY <3>1 DEF Behind
    <3> QED
      BY <2>3, <3>2
  <2> QED
    BY <2>1, <2>2, <2>3
<1>2. \A i \in 2 .. Len(e.plan): e.plan[i].kind # "agent"
  BY DEF Behind
<1> QED
  BY <1>1, <1>2 DEF KeysInv

\* The agents have used up their time.
LEMMA AgentsCut ==
    ASSUME NEW w, IsList(w.sockets), NEW d, AuthInv(w, d), AgentNext(d), d.clock \in Nat, d.until \in Nat,
           d.clock + AGENT_CANDIDATE_TIMEOUT > d.until,
           NEW e, Stays(d, e), e.plan = Tail(d.plan), e.trace = d.trace, e.tried = d.tried, e.sockets = <<>>, e.cut = TRUE
    PROVE  AuthInv(w, e)
<1>n. /\ OfAgents(w, e) = OfAgents(w, d) /\ OfKeys(w, e) = OfKeys(w, d) /\ ToAgents(e) = ToAgents(d)
      /\ Sockets(w, e.resolved.agent) = Sockets(w, d.resolved.agent)
  BY SameNames
<1>p. Behind(d, e)
  <2>1. d.plan # <<>> /\ IsList(d.plan) /\ e.plan = Tail(d.plan) /\ \A i \in 2 .. Len(d.plan): d.plan[i].kind # "agent"
    BY DEF AuthInv, KeysInv, AgentNext
  <2> QED
    BY <2>1, NextDone
<1>1. \A s: (Told(d, s) => Told(e, s)) /\ (TooLong(d, s) => TooLong(e, s))
  BY DEF Told, TooLong
<1>2. /\ \A k: KeyTold(w, d, k) => KeyTold(w, e, k)
      /\ \A a: AgentTold(w, d, a) => AgentTold(w, e, a)
  BY <1>1, ToldGrown
<1>3. ManyTold(w, e)
  BY <1>1, ManyTried, EnoughGrown DEF Stays
<1>4. AgentsInv(w, e)
  BY <1>3, <1>p DEF AgentsInv, Behind
<1>5. KeysInv(w, e)
  <2>1. d.plan # <<>> /\ d.plan[1].kind \notin {"file", "default"}
    BY DEF AgentNext
  <2>2. KeysInv(w, d) /\ \A k \in d.tried: KeyTold(w, e, k)
    BY <1>2 DEF AuthInv, KeysInv
  <2>3. \A i \in DOMAIN e.trace: e.trace[i].source.kind = "agent" \/ \E k \in e.tried: e.trace[i].source = KeyFile(k)
    BY <2>2 DEF KeysInv
  <2> QED
    BY <1>n, <1>p, <2>1, <2>2, <2>3, KeysLeft
<1> QED
  BY <1>4, <1>5, <1>p, EmptyList DEF AuthInv, Behind

\* An agent is not there any more, has no key that is accepted, or took too long.
LEMMA AgentFailed ==
    ASSUME NEW w, IsList(w.sockets), NEW d, AuthInv(w, d), AgentNext(d), d.clock \in Nat, d.until \in Nat,
           NEW e, Stays(d, e), e.plan = IF Tail(d.sockets) = <<>> THEN Tail(d.plan) ELSE d.plan, e.tried = d.tried,
           e.sockets = Tail(d.sockets), e.cut = d.cut, e.clock \in Nat, e.clock <= d.clock + AGENT_CANDIDATE_TIMEOUT,
           NEW x, Grows(d, e, x), x.source = Socket(d.sockets[1]), Works(w, d.sockets[1]) => x.why = "timeout"
    PROVE  AuthInv(w, e)
<1> DEFINE all == Sockets(w, d.resolved.agent)
           n == Gone(w, d)
<1>n. /\ OfAgents(w, e) = OfAgents(w, d) /\ OfKeys(w, e) = OfKeys(w, d) /\ ToAgents(e) = ToAgents(d)
      /\ Sockets(w, e.resolved.agent) = all
  BY SameNames
<1>a. /\ ~d.cut /\ ToAgents(d) /\ n \in Nat /\ n + 1 \in DOMAIN all
      /\ d.sockets[1] = all[n + 1]
  BY AgentsAt
<1>s. IsList(d.sockets) /\ d.sockets # <<>> /\ IsList(all)
  BY SocketsOnce DEF AuthInv, AgentsInv
<1>1. /\ \A s: (Told(d, s) => Told(e, s)) /\ (TooLong(d, s) => TooLong(e, s))
      /\ Told(e, x.source) /\ (x.why = "timeout" => TooLong(e, x.source))
      /\ \A i \in DOMAIN e.trace: \/ i \in DOMAIN d.trace /\ e.trace[i] = d.trace[i]
                                  \/ e.trace[i] = x
  BY Grown
<1>2. /\ \A k: KeyTold(w, d, k) => KeyTold(w, e, k)
      /\ \A a: AgentTold(w, d, a) => AgentTold(w, e, a)
  BY <1>1, ToldGrown
<1>3. /\ IsList(e.sockets) /\ Len(e.sockets) = Len(d.sockets) - 1 /\ Len(d.sockets) > 0
      /\ \A i \in 1 .. Len(d.sockets) - 1: e.sockets[i] = d.sockets[i + 1]
  BY <1>s, TailList
<1>4. Len(d.sockets) \in Nat /\ Len(all) \in Nat /\ DOMAIN all = 1 .. Len(all) /\ n = Len(all) - Len(d.sockets)
  BY <1>s, ListFacts DEF Gone
<1>5. Gone(w, e) = n + 1
  <2>1. Gone(w, e) = Len(all) - Len(e.sockets)
    BY <1>n DEF Gone
  <2>2. /\ Len(d.sockets) \in Nat /\ Len(all) \in Nat /\ n = Len(all) - Len(d.sockets)
        /\ Len(e.sockets) = Len(d.sockets) - 1
    BY <1>3, <1>4
  <2>3. Len(all) - (Len(d.sockets) - 1) = (Len(all) - Len(d.sockets)) + 1
    BY <2>2, OneLess
  <2> HIDE DEF all, n
  <2> QED
    BY <2>1, <2>2, <2>3, Zenon
<1>6. x.source.kind = "agent" /\ AgentTold(w, e, d.sockets[1])
  BY <1>1 DEF Socket, Step, AgentTold
<1>7. \/ e.sockets # <<>> /\ e.plan = d.plan /\ AgentNext(e)
      \/ e.sockets = <<>> /\ e.plan = Tail(d.plan) /\ Behind(d, e)
  <2>1. CASE e.sockets # <<>>
    BY <2>1 DEF AgentNext
  <2>2. CASE e.sockets = <<>>
    <3>1. d.plan # <<>> /\ IsList(d.plan) /\ e.plan = Tail(d.plan) /\ \A i \in 2 .. Len(d.plan): d.plan[i].kind # "agent"
      BY <2>2 DEF AuthInv, KeysInv, AgentNext
    <3>2. Behind(d, e)
      BY <3>1, NextDone
    <3> QED
      BY <2>2, <3>1, <3>2
  <2> QED
    BY <2>1, <2>2
<1>8. IsList(e.plan)
  BY <1>7 DEF AuthInv, Behind
<1>9. AgentsInv(w, e)
  <2>1. Len(e.sockets) <= Len(all)
    BY <1>3, <1>4, <1>a
  <2>2. ASSUME NEW i \in 1 .. Len(e.sockets) PROVE e.sockets[i] = all[n + 1 + i]
    <3>1. i + 1 \in 1 .. Len(d.sockets) /\ i \in 1 .. Len(d.sockets) - 1
      BY <1>3, <1>4
    <3>2. e.sockets[i] = d.sockets[i + 1] /\ d.sockets[i + 1] = all[n + (i + 1)]
      BY <1>3, <1>a, <3>1 DEF AuthInv, AgentsInv
    <3> QED
      BY <1>a, <3>1, <3>2
  <2>3. ASSUME NEW k \in 1 .. n + 1 PROVE AgentTold(w, e, all[k])
    <3>1. k = n + 1 \/ k \in 1 .. n
      BY <1>a
    <3>2. CASE k = n + 1
      BY <1>a, <1>6, <3>2
    <3>3. CASE k \in 1 .. n
      BY <1>a, <1>2, <3>3 DEF AuthInv, AgentsInv
    <3> QED
      BY <3>1, <3>2, <3>3
  <2>4. ASSUME NEW i \in DOMAIN e.trace, e.trace[i].source.kind = "agent"
        PROVE  \E k \in 1 .. n + 1: e.trace[i].source = Socket(all[k])
    <3>1. CASE e.trace[i] = x
      <4>1. n + 1 \in 1 .. n + 1
        BY <1>a
      <4> QED
        BY <1>a, <3>1, <4>1
    <3>2. CASE i \in DOMAIN d.trace /\ e.trace[i] = d.trace[i]
      <4>1. PICK k \in 1 .. n: d.trace[i].source = Socket(all[k])
        BY <1>a, <2>4, <3>2 DEF AuthInv, AgentsInv
      <4>2. k \in 1 .. n + 1
        BY <1>a
      <4> QED
        BY <3>2, <4>1, <4>2
    <3> QED
      BY <1>1, <3>1, <3>2
  <2>5. e.clock + AUTH_TIMEOUT <= e.until + (n + 1) * AGENT_CANDIDATE_TIMEOUT
    <3>1. d.clock + AUTH_TIMEOUT <= d.until + n * AGENT_CANDIDATE_TIMEOUT
      BY <1>a DEF AuthInv, AgentsInv
    <3>2. AUTH_TIMEOUT \in Nat /\ AGENT_CANDIDATE_TIMEOUT \in Nat
      BY ConnectAssumption
    <3>3. e.until = d.until /\ n \in Nat
      BY <1>a DEF Stays
    <3> HIDE DEF n
    <3> QED
      BY <3>1, <3>2, <3>3, ShareOver
  <2>6. AgentNext(e) => e.sockets # <<>> /\ ToAgents(e)
    BY <1>7, <1>a, <1>n DEF Behind
  <2>7. ~AgentNext(e) => e.sockets = <<>>
    BY <1>7
  <2> HIDE DEF all, n
  <2> QED
    BY <1>5, <1>a, <1>n, <2>1, <2>2, <2>3, <2>4, <2>5, <2>6, <2>7 DEF AgentsInv
<1>10. KeysInv(w, e)
  <2>1. d.plan # <<>> /\ d.plan[1].kind \notin {"file", "default"}
    BY DEF AgentNext
  <2>2. KeysInv(w, d) /\ \A k \in d.tried: KeyTold(w, e, k)
    BY <1>2 DEF AuthInv, KeysInv
  <2>3. \A i \in DOMAIN e.trace: e.trace[i].source.kind = "agent" \/ \E k \in e.tried: e.trace[i].source = KeyFile(k)
    BY <1>1, <1>6, <2>2 DEF KeysInv
  <2>4. CASE Behind(d, e)
    BY <1>n, <2>1, <2>2, <2>3, <2>4, KeysLeft
  <2>5. CASE e.plan = d.plan
    <3>1. \A k \in OfKeys(w, e): k \in e.tried
             \/ \E i \in 1 .. Len(e.plan): e.plan[i].kind \in {"file", "default"} /\ e.plan[i].path = k
      BY <1>n, <2>2, <2>5 DEF KeysInv
    <3>2. \A i \in 2 .. Len(e.plan): e.plan[i].kind # "agent"
      BY <2>2, <2>5 DEF KeysInv
    <3>3. \A k \in e.tried: KeyTold(w, e, k)
      BY <2>2
    <3> QED
      BY <2>3, <3>1, <3>2, <3>3 DEF KeysInv
  <2> QED
    BY <1>7, <2>4, <2>5
<1> QED
  BY <1>3, <1>8, <1>9, <1>10 DEF AuthInv

\* Whatever becomes of an agent, it was not tried before, under no name.
LEMMA AgentOnce ==
    ASSUME NEW w, IsList(w.sockets), NEW d, AuthInv(w, d), Once(w, d), AgentNext(d),
           NEW e, NEW x, Grows(d, e, x), x.source = Socket(d.sockets[1])
    PROVE  Once(w, e)
<1> DEFINE all == Sockets(w, d.resolved.agent)
           n == Gone(w, d)
<1>1. /\ ~d.cut /\ n \in Nat /\ n + 1 \in DOMAIN all /\ 1 .. n \subseteq DOMAIN all
      /\ d.sockets[1] = all[n + 1]
  BY AgentsAt
<1>2. \A i, j \in DOMAIN all: w.agent[all[i]].file = w.agent[all[j]].file => i = j
  BY SocketsOnce
<1>3. PlaceIn(w, x.source) = Socket(w.agent[all[n + 1]].file)
  BY <1>1 DEF PlaceIn, Socket, Step
<1>4. ASSUME NEW i \in DOMAIN d.trace PROVE PlaceIn(w, d.trace[i].source) # PlaceIn(w, x.source)
  <2>1. CASE d.trace[i].source.kind = "agent"
    <3>1. PICK k \in 1 .. n: d.trace[i].source = Socket(all[k])
      BY <1>1, <2>1 DEF AuthInv, AgentsInv
    <3>2. k \in DOMAIN all /\ k # n + 1
      BY <1>1
    <3>3. PlaceIn(w, d.trace[i].source) = Socket(w.agent[all[k]].file)
      BY <3>1 DEF PlaceIn, Socket, Step
    <3>4. w.agent[all[k]].file # w.agent[all[n + 1]].file
      BY <1>1, <1>2, <3>2
    <3> QED
      BY <1>3, <3>3, <3>4 DEF Socket, Step
  <2>2. CASE d.trace[i].source.kind # "agent"
    <3>1. PlaceIn(w, d.trace[i].source).kind # "agent"
      BY <2>2 DEF PlaceIn
    <3> QED
      BY <1>3, <3>1 DEF Socket, Step
  <2> QED
    BY <2>1, <2>2
<1> QED
  BY <1>4, OnceGrown

\* A plan that is used up satisfies what a failed authentication promises.
LEMMA PlanDone ==
    ASSUME NEW w, IsList(w.sockets), NEW d, AuthInv(w, d), d.plan = <<>>
    PROVE  Satisfied(w, d)
<1>1. Len(d.plan) = 0 /\ ~AgentNext(d)
  BY EmptyList DEF AgentNext
<1>2. \A k \in OfKeys(w, d): KeyTold(w, d, k)
  BY <1>1 DEF AuthInv, KeysInv
<1>3. ASSUME w.home, ~d.cut, NEW a \in OfAgents(w, d) PROVE AgentTold(w, d, a)
  <2> DEFINE all == Sockets(w, d.resolved.agent)
  <2>1. ToAgents(d) /\ a \in ToSet(all)
    BY <1>3 DEF OfAgents
  <2>2. d.sockets = <<>>
    BY <1>1, <1>3, <2>1 DEF AuthInv, AgentsInv
  <2>3. IsList(all)
    BY SocketsOnce
  <2>4. Len(all) \in Nat /\ \E k \in 1 .. Len(all): all[k] = a
    BY <2>1, <2>3, ListFacts
  <2>5. Gone(w, d) = Len(all)
    BY <2>2, <2>4, EmptyList DEF Gone
  <2>6. \A k \in 1 .. Gone(w, d): AgentTold(w, d, all[k])
    BY <1>3 DEF AuthInv, AgentsInv
  <2> QED
    BY <2>4, <2>5, <2>6
<1>4. d.cut => ManyTold(w, d)
  BY DEF AuthInv, AgentsInv
<1> QED
  BY <1>2, <1>3, <1>4 DEF Satisfied

-----------------------------------------------------------------------------
(* The configuration: whatever is included, to any depth, is lines.         *)

\* f[i] is what i steps of g make of x.
Follows(f, x, g, n) == f = [i \in 0 .. n |-> IF i = 0 THEN x ELSE g[i][f[i - 1]]]

LEMMA StepsStay ==
    ASSUME NEW S, NEW n \in Nat, NEW f, f[0] \in S, \A i \in 1 .. n: f[i - 1] \in S => f[i] \in S
    PROVE  \A i \in 0 .. n: f[i] \in S
<1> DEFINE T == {i \in 0 .. n: f[i] \notin S}
<1> SUFFICES ASSUME T # {} PROVE FALSE
  OBVIOUS
<1>1. T \in SUBSET Nat
  OBVIOUS
<1>2. PICK k \in T: \A j \in T: k <= j
  BY <1>1, LeastNumber
<1>3. k \in 0 .. n /\ f[k] \notin S /\ k # 0
  OBVIOUS
<1>4. k - 1 \in 0 .. n /\ k - 1 \notin T /\ k \in 1 .. n
  BY <1>2, <1>3
<1>5. f[k - 1] \in S
  BY <1>4
<1> QED
  BY <1>3, <1>4, <1>5

LEMMA FollowsExist ==
    ASSUME NEW S, NEW n \in Nat, NEW g \in [1 .. n -> [S -> S]], NEW x \in S
    PROVE  \E f \in [0 .. n -> S]: Follows(f, x, g, n)
<1> DEFINE T == {i \in 0 .. n: ~\E f \in [0 .. i -> S]: Follows(f, x, g, i)}
<1>0. SUFFICES ASSUME T # {} PROVE FALSE
  <2>1. n \in 0 .. n
    OBVIOUS
  <2> QED
    BY <2>1
<1>1. T \in SUBSET Nat
  OBVIOUS
<1>2. PICK k \in T: \A j \in T: k <= j
  BY <1>0, <1>1, LeastNumber
<1> HIDE DEF T
<1>3. k \in 0 .. n /\ ~\E f \in [0 .. k -> S]: Follows(f, x, g, k)
  BY DEF T
<1>4. k # 0
  <2> DEFINE f == [i \in 0 .. 0 |-> x]
  <2>1. f \in [0 .. 0 -> S] /\ Follows(f, x, g, 0)
    BY DEF Follows
  <2> QED
    BY <1>3, <2>1
<1>5. k - 1 \in 0 .. n /\ k - 1 \notin T
  BY <1>2, <1>3, <1>4
<1>6. PICK f \in [0 .. (k - 1) -> S]: Follows(f, x, g, k - 1)
  BY <1>5 DEF T
<1> DEFINE h == [i \in 0 .. k |-> IF i = k THEN g[k][f[k - 1]] ELSE f[i]]
<1>7. \A i \in 0 .. k: h[i] = IF i = 0 THEN x ELSE g[i][h[i - 1]]
  <2> SUFFICES ASSUME NEW i \in 0 .. k PROVE h[i] = IF i = 0 THEN x ELSE g[i][h[i - 1]]
    OBVIOUS
  <2>1. CASE i = k
    <3>1. h[k] = g[k][f[k - 1]] /\ h[k - 1] = f[k - 1]
      BY <1>3, <1>4
    <3> QED
      BY <1>4, <2>1, <3>1
  <2>2. CASE i # k
    <3>1. i \in 0 .. (k - 1) /\ h[i] = f[i]
      BY <1>3, <2>2
    <3>2. f[i] = IF i = 0 THEN x ELSE g[i][f[i - 1]]
      BY <1>6, <3>1 DEF Follows
    <3>3. i = 0 \/ h[i - 1] = f[i - 1]
      BY <1>3, <3>1
    <3> QED
      BY <3>1, <3>2, <3>3
  <2> QED
    BY <2>1, <2>2
<1>8. h \in [0 .. k -> S]
  <2>1. k - 1 \in 0 .. (k - 1) /\ k \in 1 .. n
    BY <1>3, <1>4
  <2>2. g[k][f[k - 1]] \in S
    BY <2>1
  <2> QED
    BY <1>3, <2>2
<1>9. Follows(h, x, g, k)
  <2> HIDE DEF h
  <2>1. h = [i \in 0 .. k |-> h[i]]
    BY DEF h
  <2> QED
    BY <1>7, <2>1 DEF Follows
<1> QED
  BY <1>3, <1>8, <1>9

-----------------------------------------------------------------------------
(* The lines of a configuration with all that it includes. *)

TextSet == [lines : Seq(ConfigLine), visited : SUBSET Canonical]
DeeperSet == [DOMAIN ConfigFiles -> [SUBSET Canonical -> TextSet]]

LEMMA TakesFile ==
    ASSUME NEW text \in TextSet, NEW f, NEW deeper \in DeeperSet
    PROVE  TakeFile(text, f, deeper) \in TextSet
<1>1. CASE f \notin DOMAIN ConfigFiles \/ SameFile[f] \in text.visited
  BY <1>1 DEF TakeFile
<1>2. CASE ~(f \notin DOMAIN ConfigFiles \/ SameFile[f] \in text.visited)
  <2> DEFINE more == deeper[f][text.visited \cup {SameFile[f]}]
  <2>1. SameFile[f] \in Canonical /\ f \in DOMAIN ConfigFiles
    BY <1>2 DEF Canonical
  <2>2. text.lines \in Seq(ConfigLine) /\ text.visited \cup {SameFile[f]} \in SUBSET Canonical
    BY <2>1 DEF TextSet
  <2>3. more \in TextSet
    BY <2>1, <2>2 DEF DeeperSet
  <2>4. TakeFile(text, f, deeper) = [lines |-> text.lines \o more.lines, visited |-> more.visited]
    BY <1>2 DEF TakeFile
  <2> HIDE DEF more
  <2>5. more.lines \in Seq(ConfigLine) /\ more.visited \in SUBSET Canonical
    BY <2>3 DEF TextSet
  <2>6. text.lines \o more.lines \in Seq(ConfigLine)
    BY <2>2, <2>5
  <2> QED
    BY <2>4, <2>5, <2>6 DEF TextSet
<1> QED
  BY <1>1, <1>2

LEMMA TakesFiles ==
    ASSUME NEW text \in TextSet, NEW files \in Seq(STRING), NEW deeper \in DeeperSet
    PROVE  TakeFiles(text, files, deeper) \in TextSet
<1> DEFINE n == Len(files)
           F == CHOOSE f: f = [i \in 0 .. n |-> IF i = 0 THEN text ELSE TakeFile(f[i - 1], files[i], deeper)]
           g == [i \in 1 .. n |-> [t \in TextSet |-> TakeFile(t, files[i], deeper)]]
<1>1. TakeFiles(text, files, deeper) = F[n]
  BY Zenon DEF TakeFiles
<1>2. n \in Nat /\ g \in [1 .. n -> [TextSet -> TextSet]]
  BY TakesFile
<1>3. \A i \in 1 .. n: \A t \in TextSet: g[i][t] = TakeFile(t, files[i], deeper)
  OBVIOUS
<1> HIDE DEF n, g
<1>4. PICK f \in [0 .. n -> TextSet]: Follows(f, text, g, n)
  BY <1>2, FollowsExist
<1>5. f = [i \in 0 .. n |-> IF i = 0 THEN text ELSE TakeFile(f[i - 1], files[i], deeper)]
  <2>1. \A i \in 0 .. n: i = 0 \/ (f[i - 1] \in TextSet /\ i \in 1 .. n)
    BY <1>2
  <2>2. \A i \in 0 .. n: f[i] = IF i = 0 THEN text ELSE TakeFile(f[i - 1], files[i], deeper)
    BY <1>3, <1>4, <2>1 DEF Follows
  <2> QED
    BY <2>2
<1>6. F = [i \in 0 .. n |-> IF i = 0 THEN text ELSE TakeFile(F[i - 1], files[i], deeper)]
  BY <1>5
<1> HIDE DEF F
<1>7. F[0] = text /\ \A i \in 1 .. n: F[i] = TakeFile(F[i - 1], files[i], deeper)
  BY <1>2, <1>6
<1>8. \A i \in 0 .. n: F[i] \in TextSet
  <2>1. \A i \in 1 .. n: F[i - 1] \in TextSet => F[i] \in TextSet
    BY <1>7, TakesFile
  <2> QED
    BY <1>2, <1>7, <2>1, StepsStay
<1> QED
  BY <1>1, <1>2, <1>8

LEMMA ExpandsLine ==
    ASSUME NEW text \in TextSet, NEW line \in ConfigLine, NEW deeper \in DeeperSet
    PROVE  ExpandLine(text, line, deeper) \in TextSet
<1> DEFINE name == line.values[1]
<1>1. CASE line.key = "Include" /\ name \in DOMAIN GlobFiles
  <2>1. GlobFiles[name] \in Seq(STRING)
    BY <1>1, SshConfigAssumption
  <2>2. ExpandLine(text, line, deeper) = TakeFiles(text, GlobFiles[name], deeper)
    BY <1>1 DEF ExpandLine
  <2> QED
    BY <2>1, <2>2, TakesFiles
<1>2. CASE line.key = "Include" /\ name \in DOMAIN ConfigFiles \ DOMAIN GlobFiles
  <2>1. ExpandLine(text, line, deeper) = TakeFile(text, name, deeper)
    BY <1>2 DEF ExpandLine
  <2> QED
    BY <2>1, TakesFile
<1>3. CASE ~(line.key = "Include" /\ name \in DOMAIN GlobFiles)
           /\ ~(line.key = "Include" /\ name \in DOMAIN ConfigFiles \ DOMAIN GlobFiles)
  <2>1. ExpandLine(text, line, deeper) = [text EXCEPT !.lines = Append(@, line)]
    BY <1>3 DEF ExpandLine
  <2>2. Append(text.lines, line) \in Seq(ConfigLine)
    BY DEF TextSet
  <2> QED
    BY <2>1, <2>2 DEF TextSet
<1> QED
  BY <1>1, <1>2, <1>3

LEMMA ExpandsLines ==
    ASSUME NEW lines \in Seq(ConfigLine), NEW before \in SUBSET Canonical, NEW deeper \in DeeperSet
    PROVE  ExpandLines(lines, before, deeper) \in TextSet
<1> DEFINE n == Len(lines)
           x == [lines |-> <<>>, visited |-> before]
           F == CHOOSE f: f = [i \in 0 .. n |-> IF i = 0 THEN [lines |-> <<>>, visited |-> before]
                                               ELSE ExpandLine(f[i - 1], lines[i], deeper)]
           g == [i \in 1 .. n |-> [t \in TextSet |-> ExpandLine(t, lines[i], deeper)]]
<1>1. ExpandLines(lines, before, deeper) = F[n]
  BY Zenon DEF ExpandLines
<1>2. n \in Nat /\ \A i \in 1 .. n: lines[i] \in ConfigLine
  OBVIOUS
<1>3. g \in [1 .. n -> [TextSet -> TextSet]]
  BY <1>2, ExpandsLine
<1>4. \A i \in 1 .. n: \A t \in TextSet: g[i][t] = ExpandLine(t, lines[i], deeper)
  OBVIOUS
<1>5. x \in TextSet
  BY DEF TextSet
<1> HIDE DEF n, g
<1>6. PICK f \in [0 .. n -> TextSet]: Follows(f, x, g, n)
  BY <1>2, <1>3, <1>5, FollowsExist
<1>7. f = [i \in 0 .. n |-> IF i = 0 THEN [lines |-> <<>>, visited |-> before] ELSE ExpandLine(f[i - 1], lines[i], deeper)]
  <2>1. \A i \in 0 .. n: i = 0 \/ (f[i - 1] \in TextSet /\ i \in 1 .. n)
    BY <1>2
  <2>2. \A i \in 0 .. n: f[i] = IF i = 0 THEN x ELSE ExpandLine(f[i - 1], lines[i], deeper)
    BY <1>4, <1>6, <2>1 DEF Follows
  <2> QED
    BY <2>2
<1>8. F = [i \in 0 .. n |-> IF i = 0 THEN [lines |-> <<>>, visited |-> before] ELSE ExpandLine(F[i - 1], lines[i], deeper)]
  BY <1>7
<1> HIDE DEF F
<1>9. F[0] = x /\ \A i \in 1 .. n: F[i] = ExpandLine(F[i - 1], lines[i], deeper)
  BY <1>2, <1>8
<1>10. \A i \in 0 .. n: F[i] \in TextSet
  BY <1>2, <1>5, <1>9, StepsStay, ExpandsLine
<1> QED
  BY <1>1, <1>2, <1>10

LEMMA LevelTyped ==
    /\ Unexpanded \in DeeperSet
    /\ \A deeper \in DeeperSet: ExpandFiles(deeper) \in DeeperSet
<1>1. \A f \in DOMAIN ConfigFiles: ConfigFiles[f] \in Seq(ConfigLine)
  BY SshConfigAssumption
<1>2. Unexpanded \in DeeperSet
  BY <1>1 DEF Unexpanded, DeeperSet, TextSet
<1>3. ASSUME NEW deeper \in DeeperSet PROVE ExpandFiles(deeper) \in DeeperSet
  <2>1. \A f \in DOMAIN ConfigFiles, before \in SUBSET Canonical: ExpandLines(ConfigFiles[f], before, deeper) \in TextSet
    BY <1>1, <1>3, ExpandsLines
  <2> QED
    BY <2>1 DEF ExpandFiles, DeeperSet
<1> QED
  BY <1>2, <1>3

LEMMA ExpandsIncludes == \A depth \in 0 .. IncludeDepth: ExpandIncludes[depth] \in DeeperSet
<1> DEFINE n == IncludeDepth
           g == [i \in 1 .. n |-> [d \in DeeperSet |-> ExpandFiles(d)]]
<1>1. n \in Nat
  BY SshConfigAssumption
<1>2. g \in [1 .. n -> [DeeperSet -> DeeperSet]] /\ Unexpanded \in DeeperSet
  <2> HIDE DEF n
  <2> QED
    BY LevelTyped
<1>3. \A i \in 1 .. n: \A d \in DeeperSet: g[i][d] = ExpandFiles(d)
  OBVIOUS
<1> HIDE DEF g
<1>4. PICK e \in [0 .. n -> DeeperSet]: Follows(e, Unexpanded, g, n)
  BY <1>1, <1>2, FollowsExist
<1>5. e = [depth \in 0 .. n |-> IF depth = 0 THEN Unexpanded ELSE ExpandFiles(e[depth - 1])]
  <2>1. \A i \in 0 .. n: i = 0 \/ (e[i - 1] \in DeeperSet /\ i \in 1 .. n)
    BY <1>1
  <2>2. \A i \in 0 .. n: e[i] = IF i = 0 THEN Unexpanded ELSE ExpandFiles(e[i - 1])
    BY <1>3, <1>4, <2>1 DEF Follows
  <2> QED
    BY <2>2
<1>6. ExpandIncludes = [depth \in 0 .. n |-> IF depth = 0 THEN Unexpanded ELSE ExpandFiles(ExpandIncludes[depth - 1])]
  <2> HIDE DEF n
  <2> DEFINE F == CHOOSE f: f = [depth \in 0 .. n |-> IF depth = 0 THEN Unexpanded ELSE ExpandFiles(f[depth - 1])]
  <2>1. F = [depth \in 0 .. n |-> IF depth = 0 THEN Unexpanded ELSE ExpandFiles(F[depth - 1])]
    BY <1>5
  <2>2. ExpandIncludes = F
    BY DEF ExpandIncludes, n
  <2> QED
    BY <2>1, <2>2
<1> HIDE DEF n
<1>7. ExpandIncludes[0] = Unexpanded /\ \A i \in 1 .. n: ExpandIncludes[i] = ExpandFiles(ExpandIncludes[i - 1])
  BY <1>1, <1>6
<1>8. \A i \in 0 .. n: ExpandIncludes[i] \in DeeperSet
  BY <1>1, <1>7, LevelTyped, StepsStay
<1> QED
  BY <1>8 DEF n

LEMMA ExpandedTyped == ASSUME NEW lines \in Seq(ConfigLine) PROVE Expanded(lines).lines \in Seq(ConfigLine)
<1>1. IncludeDepth - 1 \in 0 .. IncludeDepth
  BY SshConfigAssumption
<1>2. ExpandIncludes[IncludeDepth - 1] \in DeeperSet
  BY <1>1, ExpandsIncludes
<1>3. {} \in SUBSET Canonical
  OBVIOUS
<1>4. ExpandLines(lines, {}, ExpandIncludes[IncludeDepth - 1]) \in TextSet
  BY <1>2, <1>3, ExpandsLines
<1> QED
  BY <1>4 DEF Expanded, TextSet

-----------------------------------------------------------------------------
(* What a block of the configuration says, and of whom.                     *)

LEMMA ValuesTyped ==
    ASSUME NEW lines \in Seq(ConfigLine), NEW key
    PROVE  /\ ValuesOf(lines, key) \in Seq(STRING)
           /\ \A v \in ToSet(ValuesOf(lines, key)): \E i \in DOMAIN lines: lines[i].key = key /\ v \in ToSet(lines[i].values)
<1> DEFINE part == [i \in DOMAIN lines |-> IF lines[i].key = key THEN lines[i].values ELSE <<>>]
<1>1. \A i \in DOMAIN lines: lines[i].values \in Seq(STRING)
  <2>1. \A i \in DOMAIN lines: lines[i] \in ConfigLine
    OBVIOUS
  <2>2. \A l \in ConfigLine: l.values \in Seq(STRING)
    BY DEF ConfigLine
  <2> QED
    BY <2>1, <2>2
<1>2. part \in Seq(Seq(STRING)) /\ DOMAIN part = DOMAIN lines
  <2>1. DOMAIN lines = 1 .. Len(lines) /\ Len(lines) \in Nat
    OBVIOUS
  <2> DEFINE T == Seq(STRING)
  <2>2. <<>> \in T /\ \A i \in DOMAIN lines: lines[i].values \in T
    BY <1>1
  <2> HIDE DEF T
  <2>3. \A i \in DOMAIN lines: part[i] \in T
    BY <2>2
  <2>4. part \in [1 .. Len(lines) -> T]
    BY <2>1, <2>3
  <2>5. part \in Seq(T)
    BY <2>1, <2>4
  <2> QED
    BY <2>5 DEF T
<1>3. ValuesOf(lines, key) = FlattenSeq(part)
  BY DEF ValuesOf
<1>4. \A i \in DOMAIN lines: part[i] = IF lines[i].key = key THEN lines[i].values ELSE <<>>
  OBVIOUS
<1> HIDE DEF part
<1>5. /\ FlattenSeq(part) \in Seq(STRING)
      /\ ToSet(FlattenSeq(part)) = UNION {ToSet(part[i]) : i \in DOMAIN part}
  BY <1>2, FlattenElements
<1>6. ASSUME NEW v \in ToSet(ValuesOf(lines, key))
      PROVE  \E i \in DOMAIN lines: lines[i].key = key /\ v \in ToSet(lines[i].values)
  <2>1. PICK i \in DOMAIN part: v \in ToSet(part[i])
    BY <1>3, <1>5
  <2>2. lines[i].key = key
    BY <1>2, <1>4, <2>1, EmptyList
  <2> QED
    BY <1>2, <1>4, <2>1, <2>2
<1> QED
  BY <1>3, <1>5, <1>6

\* The names of the Host lines.
LEMMA AliasesNamed ==
    ASSUME NEW text \in Seq(ConfigLine)
    PROVE  /\ IsList(HostAliases(text))
           /\ \A a \in ToSet(HostAliases(text)): \E i \in DOMAIN text: Names(text[i], a)
<1> DEFINE names == ValuesOf(text, "Host")
           P == {i \in DOMAIN names: names[i] \notin Wildcards /\ \A j \in 1 .. i - 1: names[j] # names[i]}
<1>1. names \in Seq(STRING) /\ \A v \in ToSet(names): \E i \in DOMAIN text: text[i].key = "Host" /\ v \in ToSet(text[i].values)
  BY ValuesTyped
<1> HIDE DEF names
<1>2. IsList(names) /\ P \subseteq 1 .. Len(names)
  BY <1>1, ListIs
<1>3. HostAliases(text) = Chosen(names, P)
  BY DEF HostAliases, names
<1> HIDE DEF P
<1>4. IsList(Chosen(names, P)) /\ Ranked(Chosen(names, P), P, names, ToSet(names))
  BY <1>2, ChosenRanked
<1>5. ToSet(Chosen(names, P)) \subseteq ToSet(names)
  <2>1. Chosen(names, P) \in Seq(ToSet(names))
    BY <1>4 DEF Ranked
  <2> QED
    BY <2>1, ListIs
<1> QED
  BY <1>1, <1>3, <1>4, <1>5 DEF Names, IsHost

\* The keys of the blocks that name the alias.
LEMMA BlockKeys ==
    ASSUME NEW text \in Seq(ConfigLine), NEW alias, NEW hosts, alias \in hosts, \E i \in DOMAIN text: Names(text[i], alias)
    PROVE  /\ IsList(IdentityFiles(text, alias))
           /\ ToSet(IdentityFiles(text, alias)) \subseteq KeysInBlocksOf(text, hosts)
<1> DEFINE n == Len(text)
           F == {i \in DOMAIN text: Names(text[i], alias)}
           first == Min(F)
           ends == {i \in first .. n: IsHost(text[i]) /\ ~Names(text[i], alias)}
           last == IF ends = {} THEN n ELSE Min(ends) - 1
           block == SubSeq(text, first, last)
<1>1. n \in Nat /\ DOMAIN text = 1 .. n /\ F \in SUBSET Nat /\ F # {}
  OBVIOUS
<1>2. first \in F
  BY <1>1, LeastIsMin
<1>3. first \in 1 .. n /\ Names(text[first], alias)
  BY <1>1, <1>2
<1>4. block = BlockOfAlias(text, alias)
  BY DEF BlockOfAlias
<1> HIDE DEF F, first, n
<1>5. last \in first - 1 .. n /\ \A i \in first .. last: i \notin ends
  <2>1. CASE ends = {}
    BY <1>1, <1>3, <2>1
  <2>2. CASE ends # {}
    <3>1. ends \in SUBSET Nat
      BY <1>1, <1>3
    <3>2. Min(ends) \in ends /\ \A m \in ends: Min(ends) <= m
      BY <2>2, <3>1, LeastIsMin
    <3>3. Min(ends) \in first .. n /\ last = Min(ends) - 1
      BY <2>2, <3>2
    <3> HIDE DEF ends, last
    <3>4. \A i \in first .. last: i < Min(ends)
      BY <1>1, <1>3, <3>3
    <3>5. \A i \in first .. last: i \notin ends
      BY <1>1, <1>3, <3>1, <3>2, <3>3, <3>4
    <3> QED
      BY <1>1, <1>3, <3>3, <3>5
  <2> QED
    BY <2>1, <2>2
<1>6. \A i \in first .. last: IsHost(text[i]) => Names(text[i], alias)
  BY <1>1, <1>3, <1>5
<1> HIDE DEF ends, last
<1>7. /\ block \in Seq(ConfigLine)
      /\ \A i \in DOMAIN block: first + i - 1 \in first .. last /\ block[i] = text[first + i - 1]
  <2>1. block = [i \in 1 .. (last - first + 1) |-> text[first + i - 1]]
    BY <1>1, <1>3, <1>5 DEF SubSeq
  <2>2. \A i \in 1 .. (last - first + 1): first + i - 1 \in first .. last /\ first + i - 1 \in 1 .. n
    BY <1>1, <1>3, <1>5
  <2>3. \A i \in 1 .. n: text[i] \in ConfigLine
    BY <1>1
  <2>4. last - first + 1 \in Nat
    BY <1>1, <1>3, <1>5
  <2> HIDE DEF block
  <2> QED
    BY <2>1, <2>2, <2>3, <2>4
<1> HIDE DEF block
<1>8. /\ IdentityFiles(text, alias) \in Seq(STRING)
      /\ \A v \in ToSet(IdentityFiles(text, alias)): \E i \in DOMAIN block: block[i].key = "IdentityFile" /\ v \in ToSet(block[i].values)
  BY <1>4, <1>7, ValuesTyped DEF IdentityFiles
<1>9. ASSUME NEW j \in first .. last
      PROVE  /\ j \in DOMAIN text
             /\ \E h \in 1 .. j: /\ IsHost(text[h]) /\ \A k \in h + 1 .. j: ~IsHost(text[k])
                                 /\ \E a \in hosts: Names(text[h], a)
  <2> DEFINE H == {h \in first .. j: IsHost(text[h])}
  <2>0. j \in 1 .. n /\ first <= j /\ j \in Nat /\ first \in Nat /\ first >= 1
    BY <1>1, <1>3, <1>5
  <2>1. H \in SUBSET Nat /\ H # {} /\ \A h \in H: h <= j
    <3>1. first \in H
      BY <1>3, <2>0 DEF Names
    <3> QED
      BY <2>0, <3>1
  <2>2. Max(H) \in H /\ \A h \in H: h <= Max(H)
    BY <2>0, <2>1, GreatestIsMax
  <2> DEFINE h == Max(H)
  <2>3. h \in first .. j /\ IsHost(text[h])
    BY <2>2
  <2>4. \A k \in h + 1 .. j: ~IsHost(text[k])
    <3>1. \A k \in h + 1 .. j: k \in first .. j /\ ~(k <= h)
      BY <2>0, <2>3
    <3>2. \A k \in H: k <= h
      BY <2>2
    <3>3. \A k \in first .. j: IsHost(text[k]) => k \in H
      OBVIOUS
    <3> HIDE DEF H, h
    <3> QED
      BY <3>1, <3>2, <3>3
  <2> HIDE DEF H, h
  <2>5. h \in first .. last /\ h \in 1 .. j
    BY <1>1, <1>3, <1>5, <2>0, <2>3
  <2>6. Names(text[h], alias)
    BY <1>6, <2>3, <2>5
  <2> QED
    BY <1>1, <2>0, <2>3, <2>4, <2>5, <2>6
<1>10. ASSUME NEW v \in ToSet(IdentityFiles(text, alias)) PROVE v \in KeysInBlocksOf(text, hosts)
  <2>1. PICK i \in DOMAIN block: block[i].key = "IdentityFile" /\ v \in ToSet(block[i].values)
    BY <1>8
  <2>2. PICK j \in first .. last: block[i] = text[j]
    BY <1>7
  <2>3. /\ j \in DOMAIN text
        /\ \E h \in 1 .. j: /\ IsHost(text[h]) /\ \A k \in h + 1 .. j: ~IsHost(text[k])
                            /\ \E a \in hosts: Names(text[h], a)
    BY <1>9
  <2>4. text[j].key = "IdentityFile" /\ v \in ToSet(text[j].values)
    BY <2>1, <2>2
  <2> QED
    BY <2>3, <2>4 DEF KeysInBlocksOf
<1> QED
  BY <1>8, <1>10, ListIs

\* A parser of a text.
IsParser(c) == c.text \in Seq(ConfigLine) /\ c.aliases = HostAliases(c.text)

LEMMA EntryKeys ==
    ASSUME NEW c, IsParser(c), NEW alias, NEW hosts, alias \in hosts
    PROVE  /\ IsList(Entry(c, alias).files)
           /\ ToSet(Entry(c, alias).files) \subseteq KeysInBlocksOf(c.text, hosts)
<1>1. CASE alias \notin ToSet(c.aliases)
  <2>1. Entry(c, alias).files = <<>>
    BY <1>1 DEF Entry, NoEntry
  <2> QED
    BY <2>1, EmptyList
<1>2. CASE alias \in ToSet(c.aliases)
  <2>1. Entry(c, alias).files = IdentityFiles(c.text, alias)
    BY <1>2 DEF Entry
  <2>2. \E i \in DOMAIN c.text: Names(c.text[i], alias)
    BY <1>2, AliasesNamed DEF IsParser
  <2>3. c.text \in Seq(ConfigLine)
    BY DEF IsParser
  <2> QED
    BY <2>1, <2>2, <2>3, BlockKeys
<1> QED
  BY <1>1, <1>2

-----------------------------------------------------------------------------
(* The keys of a host: those of its blocks, those ssh -G prints for it, and   *)
(* the default ones; and the plan made of them.                             *)

\* The names of a host, and the keys that are its own.
HostsOf(c, host) == {host} \cup ToSet(AliasesOf(c, host))
PrintedFor(says, hosts) == UNION {ToSet(ParseSshG(says[h]).files) : h \in hosts \cap DOMAIN says}
OwnKeys(w, c, host) ==
    KeysInBlocksOf(c.text, HostsOf(c, host)) \cup PrintedFor(w.says, HostsOf(c, host)) \cup ToSet(DEFAULT_KEY_NAMES)

LEMMA AliasesAre ==
    ASSUME NEW c, IsParser(c), NEW host
    PROVE  IsList(AliasesOf(c, host))
<1> DEFINE P == {i \in DOMAIN c.aliases: LET a == c.aliases[i] IN a # host /\ Query(c.text, a, "HostName") = host}
<1>1. IsList(c.aliases)
  BY AliasesNamed DEF IsParser
<1>2. P \subseteq 1 .. Len(c.aliases)
  BY <1>1, ListFacts
<1>3. AliasesOf(c, host) = Chosen(c.aliases, P)
  BY DEF AliasesOf
<1> HIDE DEF P
<1> QED
  BY <1>1, <1>2, <1>3, ChosenRanked

\* What ssh -G says of a host: its keys are those it prints.
SshGSays(r, says, hosts) ==
    "files" \in DOMAIN r /\ IsList(r.files) /\ ToSet(r.files) \subseteq PrintedFor(says, hosts)

LEMMA SshGKeys ==
    ASSUME NEW says, \A h \in DOMAIN says: says[h] \in Seq(ConfigLine), NEW hosts, NEW host \in hosts, NEW late
    PROVE  SshGSays(RunSshG(host, says, late), says, hosts)
<1>1. CASE host \in DOMAIN says /\ host \notin late
  <2> DEFINE r == ParseSshG(says[host])
  <2>1. RunSshG(host, says, late) = r
    BY <1>1 DEF RunSshG
  <2>2. "files" \in DOMAIN r /\ r.files = ValuesOf(says[host], "identityfile")
    BY DEF ParseSshG
  <2>3. r.files \in Seq(STRING)
    BY <1>1, <2>2, ValuesTyped
  <2>4. ToSet(r.files) \subseteq PrintedFor(says, hosts)
    BY <1>1 DEF PrintedFor
  <2> HIDE DEF r
  <2> QED
    BY <2>1, <2>2, <2>3, <2>4, ListIs DEF SshGSays
<1>2. CASE ~(host \in DOMAIN says /\ host \notin late)
  <2>1. RunSshG(host, says, late) = Fallback(host)
    BY <1>2 DEF RunSshG
  <2>2. "files" \in DOMAIN Fallback(host) /\ Fallback(host).files = <<>>
    BY DEF Fallback
  <2> QED
    BY <2>1, <2>2, EmptyList DEF SshGSays
<1> QED
  BY <1>1, <1>2

\* The keys that are found for a host.
FoundKeys(r, c, says, hosts) ==
    IsList(r.files) /\ ToSet(r.files) \subseteq KeysInBlocksOf(c.text, hosts) \cup PrintedFor(says, hosts)

LEMMA BackfillKeys ==
    ASSUME NEW c, IsParser(c), NEW says, NEW hosts, NEW r, SshGSays(r, says, hosts), NEW name \in hosts, NEW asked
    PROVE  FoundKeys(Found(r, c, name, asked).found, c, says, hosts)
<1>1. Found(r, c, name, asked).found = WithBackfill(r, c, name)
  BY DEF Found
<1>2. IsList(Entry(c, name).files) /\ ToSet(Entry(c, name).files) \subseteq KeysInBlocksOf(c.text, hosts)
  BY EntryKeys
<1>3. CASE r.files # <<>>
  BY <1>1, <1>3 DEF WithBackfill, FoundKeys, SshGSays
<1>4. CASE r.files = <<>>
  <2>1. WithBackfill(r, c, name) = [r EXCEPT !.files = Entry(c, name).files]
    BY <1>4 DEF WithBackfill
  <2>2. WithBackfill(r, c, name).files = Entry(c, name).files
    BY <2>1 DEF SshGSays
  <2> QED
    BY <1>1, <1>2, <2>2 DEF FoundKeys
<1> QED
  BY <1>3, <1>4

LEMMA ResolvedKeys ==
    ASSUME NEW c, IsParser(c), NEW says, \A h \in DOMAIN says: says[h] \in Seq(ConfigLine), NEW host, NEW late
    PROVE  FoundKeys(ResolveHost(host, c, says, late).found, c, says, HostsOf(c, host))
<1> DEFINE hosts == HostsOf(c, host)
           names == AliasesOf(c, host)
           first == RunSshG(host, says, late)
           other == RunSshG(names[1], says, late)
           r == ResolveHost(host, c, says, late)
<1>1. IsList(names) /\ host \in hosts /\ ToSet(names) \subseteq hosts
  BY AliasesAre DEF HostsOf
<1>2. names # <<>> => names[1] \in hosts
  <2> HIDE DEF names, hosts
  <2> QED
    BY <1>1, ListFacts
<1>3. SshGSays(first, says, hosts)
  BY <1>1, SshGKeys
<1>4. names # <<>> => SshGSays(other, says, hosts)
  BY <1>2, SshGKeys
<1>5. \/ r = Found(first, c, host, {host})
      \/ /\ names # <<>>
         /\ \/ r = Found(other, c, names[1], {host, names[1]})
            \/ r = Found(first, c, host, {host, names[1]})
  BY DEF ResolveHost
<1> HIDE DEF hosts, names, first, other, r
<1>6. ASSUME r = Found(first, c, host, {host}) PROVE FoundKeys(r.found, c, says, hosts)
  BY <1>1, <1>3, <1>6, BackfillKeys
<1>7. ASSUME names # <<>>, r = Found(other, c, names[1], {host, names[1]}) PROVE FoundKeys(r.found, c, says, hosts)
  BY <1>2, <1>4, <1>7, BackfillKeys
<1>8. ASSUME r = Found(first, c, host, {host, names[1]}) PROVE FoundKeys(r.found, c, says, hosts)
  BY <1>1, <1>3, <1>8, BackfillKeys
<1>9. FoundKeys(r.found, c, says, hosts)
  BY <1>5, <1>6, <1>7, <1>8
<1> QED
  BY <1>9 DEF hosts, r

-----------------------------------------------------------------------------
(* The plan of an authentication. *)

LEMMA StepsAre ==
    ASSUME NEW paths, IsList(paths), NEW kind
    PROVE  /\ IsList(Steps(kind, paths)) /\ Len(Steps(kind, paths)) = Len(paths)
           /\ \A i \in 1 .. Len(paths): Steps(kind, paths)[i] = Step(kind, paths[i])
<1> DEFINE f == [i \in DOMAIN paths |-> Step(kind, paths[i])]
           T == {Step(kind, x) : x \in ToSet(paths)}
<1>1. Len(paths) \in Nat /\ DOMAIN paths = 1 .. Len(paths) /\ \A i \in 1 .. Len(paths): paths[i] \in ToSet(paths)
  BY ListFacts
<1>2. \A i \in 1 .. Len(paths): f[i] \in T
  BY <1>1
<1>3. f \in [1 .. Len(paths) -> T]
  BY <1>1, <1>2
<1> HIDE DEF T
<1>4. f \in Seq(T) /\ Len(f) = Len(paths)
  BY <1>1, <1>3
<1>5. \A i \in 1 .. Len(paths): f[i] = Step(kind, paths[i])
  BY <1>1
<1>6. Steps(kind, paths) = f \o <<>>
  BY DEF Steps
<1> HIDE DEF f
<1>7. f \o <<>> = f
  BY <1>4
<1> QED
  BY <1>4, <1>5, <1>6, <1>7, ListIs

\* Where the agents and the keys stand in a plan.
PlanKeys(plan, keys) ==
    /\ \A i \in 1 .. Len(plan): plan[i].kind \in {"file", "default"} => plan[i].path \in keys
    /\ \A i \in 2 .. Len(plan): plan[i].kind # "agent"
Planned(plan, keys) ==
    \A k \in keys: \E i \in 1 .. Len(plan): plan[i].kind \in {"file", "default"} /\ plan[i].path = k

KeyList(plan, keys) ==
    /\ IsList(plan)
    /\ \A i \in 1 .. Len(plan): plan[i].kind \in {"file", "default"} /\ plan[i].path \in keys
    /\ Planned(plan, keys)

LEMMA FilesThenDefaults ==
    ASSUME NEW files, IsList(files)
    PROVE  KeyList(Steps("file", files) \o Steps("default", DEFAULT_KEY_NAMES), ToSet(files) \cup ToSet(DEFAULT_KEY_NAMES))
<1> DEFINE a == Steps("file", files)
           b == Steps("default", DEFAULT_KEY_NAMES)
           c == a \o b
           keys == ToSet(files) \cup ToSet(DEFAULT_KEY_NAMES)
<1>1. IsList(DEFAULT_KEY_NAMES)
  BY ConnectAssumption, ListIs
<1>2. IsList(a) /\ Len(a) = Len(files) /\ \A i \in 1 .. Len(files): a[i] = Step("file", files[i])
  BY StepsAre
<1>3. /\ IsList(b) /\ Len(b) = Len(DEFAULT_KEY_NAMES)
      /\ \A i \in 1 .. Len(DEFAULT_KEY_NAMES): b[i] = Step("default", DEFAULT_KEY_NAMES[i])
  BY <1>1, StepsAre
<1> HIDE DEF a, b
<1>4. /\ IsList(c) /\ Len(c) = Len(a) + Len(b)
      /\ \A i \in 1 .. Len(a): c[i] = a[i]
      /\ \A i \in 1 .. Len(b): c[Len(a) + i] = b[i]
  BY <1>2, <1>3, JoinList
<1>5. Len(a) \in Nat /\ Len(b) \in Nat
  BY <1>2, <1>3, ListFacts
<1>6. /\ \A i \in 1 .. Len(a): files[i] \in ToSet(files)
      /\ \A i \in 1 .. Len(b): DEFAULT_KEY_NAMES[i] \in ToSet(DEFAULT_KEY_NAMES)
  BY <1>1, <1>2, <1>3, ListFacts
<1>7. \A i \in 1 .. Len(a): a[i].kind = "file" /\ a[i].path \in keys /\ a[i].path = files[i]
  <2>1. \A x: Step("file", x).kind = "file" /\ Step("file", x).path = x
    BY DEF Step
  <2> QED
    BY <1>2, <1>6, <2>1
<1>8. \A i \in 1 .. Len(b): b[i].kind = "default" /\ b[i].path \in keys /\ b[i].path = DEFAULT_KEY_NAMES[i]
  <2>1. \A x: Step("default", x).kind = "default" /\ Step("default", x).path = x
    BY DEF Step
  <2> QED
    BY <1>3, <1>6, <2>1
<1> HIDE DEF c
<1>9. ASSUME NEW i \in 1 .. Len(c) PROVE c[i].kind \in {"file", "default"} /\ c[i].path \in keys
  <2>1. CASE i \in 1 .. Len(a)
    BY <1>4, <1>7, <2>1
  <2>2. CASE i \notin 1 .. Len(a)
    <3>1. i - Len(a) \in 1 .. Len(b) /\ Len(a) + (i - Len(a)) = i
      BY <1>4, <1>5, <2>2
    <3>2. c[i] = b[i - Len(a)]
      BY <1>4, <3>1
    <3> QED
      BY <1>8, <3>1, <3>2
  <2> QED
    BY <2>1, <2>2
<1>10. ASSUME NEW k \in keys PROVE \E i \in 1 .. Len(c): c[i].kind \in {"file", "default"} /\ c[i].path = k
  <2>1. CASE k \in ToSet(files)
    <3>1. PICK i \in 1 .. Len(files): files[i] = k
      BY <2>1, ListFacts
    <3>2. i \in 1 .. Len(a) /\ i \in 1 .. Len(c)
      BY <1>2, <1>4, <1>5
    <3> QED
      BY <1>4, <1>7, <3>1, <3>2
  <2>2. CASE k \in ToSet(DEFAULT_KEY_NAMES)
    <3>1. PICK i \in 1 .. Len(DEFAULT_KEY_NAMES): DEFAULT_KEY_NAMES[i] = k
      BY <1>1, <2>2, ListFacts
    <3>2. i \in 1 .. Len(b) /\ Len(a) + i \in 1 .. Len(c)
      BY <1>3, <1>4, <1>5
    <3> QED
      BY <1>4, <1>8, <3>1, <3>2
  <2> QED
    BY <2>1, <2>2
<1>11. KeyList(c, keys)
  BY <1>4, <1>9, <1>10 DEF KeyList, Planned
<1> QED
  BY <1>11 DEF c, a, b

\* A plan that starts with the agents, or without them.
Leads(plan) == plan # <<>> /\ plan[1].kind = "agent"
PlanRight(plan, keys) == IsList(plan) /\ PlanKeys(plan, keys)

LEMMA SinglePlan ==
    ASSUME NEW kind, kind \notin {"file", "default"}, NEW path, NEW keys
    PROVE  PlanRight(<<Step(kind, path)>>, keys) /\ (Leads(<<Step(kind, path)>>) <=> kind = "agent")
<1> DEFINE s == Step(kind, path)
<1>1. s.kind = kind
  BY DEF Step
<1> HIDE DEF s
<1>2. IsList(<<s>>) /\ Len(<<s>>) = 1 /\ <<s>>[1] = s /\ <<s>> # <<>>
  BY SingleList
<1>3. \A i \in 1 .. Len(<<s>>): <<s>>[i] = s
  BY <1>2
<1>4. \A i \in 2 .. Len(<<s>>): FALSE
  BY <1>2
<1>5. PlanKeys(<<s>>, keys)
  BY <1>1, <1>3, <1>4 DEF PlanKeys
<1>6. Leads(<<s>>) <=> kind = "agent"
  BY <1>1, <1>2 DEF Leads
<1> QED
  BY <1>2, <1>5, <1>6 DEF PlanRight, s

LEMMA EmptyPlan == ASSUME NEW keys PROVE PlanRight(<<>>, keys) /\ ~Leads(<<>>)
<1>1. \A i \in 1 .. Len(<<>>): FALSE
  BY EmptyList
<1>2. \A i \in 2 .. Len(<<>>): FALSE
  BY EmptyList
<1> QED
  BY <1>1, <1>2, EmptyList DEF PlanRight, PlanKeys, Leads

LEMMA KeysAlone ==
    ASSUME NEW keys, NEW t, KeyList(t, keys)
    PROVE  PlanRight(t, keys) /\ ~Leads(t)
<1>1. IsList(t) /\ \A i \in 1 .. Len(t): t[i].kind \in {"file", "default"} /\ t[i].path \in keys
  BY DEF KeyList
<1>2. Len(t) \in Nat /\ (t = <<>> <=> Len(t) = 0)
  BY <1>1, ListFacts
<1>3. \A i \in 2 .. Len(t): i \in 1 .. Len(t)
  BY <1>2
<1>4. t # <<>> => 1 \in 1 .. Len(t)
  BY <1>2
<1> QED
  BY <1>1, <1>3, <1>4 DEF PlanRight, PlanKeys, Leads

LEMMA KeysAfterAgents ==
    ASSUME NEW keys, NEW t, KeyList(t, keys)
    PROVE  LET q == <<Step("agent", None)>> \o t IN PlanRight(q, keys) /\ Leads(q) /\ Planned(q, keys)
<1> DEFINE s == Step("agent", None)
           q == <<s>> \o t
<1>1. s.kind = "agent"
  BY DEF Step
<1> HIDE DEF s
<1>2. IsList(t) /\ \A i \in 1 .. Len(t): t[i].kind \in {"file", "default"} /\ t[i].path \in keys
  BY DEF KeyList
<1>3. IsList(<<s>>) /\ Len(<<s>>) = 1 /\ <<s>>[1] = s
  BY SingleList
<1>4. /\ IsList(q) /\ Len(q) = 1 + Len(t)
      /\ q[1] = s
      /\ \A i \in 1 .. Len(t): q[1 + i] = t[i]
  <2>1. /\ IsList(q) /\ Len(q) = Len(<<s>>) + Len(t)
        /\ \A i \in 1 .. Len(<<s>>): q[i] = <<s>>[i]
        /\ \A i \in 1 .. Len(t): q[Len(<<s>>) + i] = t[i]
    BY <1>2, <1>3, JoinList
  <2> QED
    BY <1>3, <2>1
<1> HIDE DEF q
<1>5. Len(t) \in Nat /\ q # <<>>
  BY <1>2, <1>4, ListFacts
<1>6. \A i \in 2 .. Len(q): i - 1 \in 1 .. Len(t) /\ q[i] = t[i - 1]
  BY <1>4, <1>5
<1>7. \A i \in 1 .. Len(q): q[i].kind \in {"file", "default"} => q[i].path \in keys
  <2> TAKE i \in 1 .. Len(q)
  <2>1. i = 1 \/ i \in 2 .. Len(q)
    BY <1>4, <1>5
  <2> QED
    BY <1>1, <1>2, <1>4, <1>6, <2>1
<1>8. \A i \in 2 .. Len(q): q[i].kind # "agent"
  BY <1>2, <1>6
<1>9. Planned(q, keys)
  <2> SUFFICES ASSUME NEW k \in keys PROVE \E i \in 1 .. Len(q): q[i].kind \in {"file", "default"} /\ q[i].path = k
    BY DEF Planned
  <2>1. PICK i \in 1 .. Len(t): t[i].kind \in {"file", "default"} /\ t[i].path = k
    BY DEF KeyList, Planned
  <2>2. 1 + i \in 1 .. Len(q) /\ q[1 + i] = t[i]
    BY <1>4, <1>5
  <2> QED
    BY <2>1, <2>2
<1>10. PlanRight(q, keys) /\ Leads(q)
  BY <1>1, <1>4, <1>5, <1>7, <1>8 DEF PlanRight, PlanKeys, Leads
<1> QED
  BY <1>9, <1>10 DEF q, s

\* The plan of each method.
PlanFits(plan, method, keys, sockets) ==
    /\ PlanRight(plan, keys)
    /\ Leads(plan) => sockets # <<>> /\ method \in {"auto", "agent"}
    /\ ~Leads(plan) /\ W.home /\ method \in {"auto", "agent"} => sockets = <<>>
    /\ method = "auto" /\ W.home => Planned(plan, keys)

LEMMA PlanIs ==
    ASSUME NEW files, IsList(files), NEW sockets, NEW cfg, cfg.method \in {"auto", "agent", "key", "password"}
    PROVE  PlanFits(PlanAuthSteps(cfg, files, sockets), cfg.method, ToSet(files) \cup ToSet(DEFAULT_KEY_NAMES), sockets)
<1> DEFINE plan == PlanAuthSteps(cfg, files, sockets)
           keys == ToSet(files) \cup ToSet(DEFAULT_KEY_NAMES)
           t == Steps("file", files) \o Steps("default", DEFAULT_KEY_NAMES)
<1>t. KeyList(t, keys)
  BY FilesThenDefaults
<1>1. CASE cfg.method = "password"
  <2>1. plan = <<>> \/ plan = <<Step("password", None)>>
    BY <1>1 DEF PlanAuthSteps
  <2> QED
    BY <1>1, <2>1, EmptyPlan, SinglePlan DEF PlanFits
<1>2. CASE cfg.method = "key"
  <2>1. plan = <<>> \/ plan = <<Step("key", cfg.key)>> \/ plan = <<Step("key", DefaultKey)>>
    BY <1>2 DEF PlanAuthSteps
  <2> HIDE DEF plan, keys
  <2>2. PlanRight(plan, keys) /\ ~Leads(plan)
    BY <2>1, EmptyPlan, SinglePlan
  <2> QED
    BY <1>2, <2>2 DEF PlanFits, plan, keys
<1>3. CASE cfg.method = "agent"
  <2>1. plan = IF sockets = <<>> THEN <<>> ELSE <<Step("agent", None)>>
    BY <1>3 DEF PlanAuthSteps
  <2> HIDE DEF plan, keys
  <2>2. PlanRight(plan, keys) /\ (Leads(plan) <=> sockets # <<>>)
    BY <2>1, EmptyPlan, SinglePlan
  <2> QED
    BY <1>3, <2>2 DEF PlanFits, plan, keys
<1>4. CASE cfg.method = "auto" /\ ~W.home
  <2>1. plan = <<>>
    BY <1>4 DEF PlanAuthSteps
  <2> QED
    BY <1>4, <2>1, EmptyPlan DEF PlanFits
<1>5. CASE cfg.method = "auto" /\ W.home /\ sockets = <<>>
  <2>1. plan = t
    <3>1. plan = (<<>> \o Steps("file", files)) \o Steps("default", DEFAULT_KEY_NAMES)
      BY <1>5 DEF PlanAuthSteps
    <3>2. <<>> \o Steps("file", files) = Steps("file", files)
      <4>1. Steps("file", files) \in Seq(ToSet(Steps("file", files)))
        BY StepsAre DEF IsList
      <4> QED
        BY <4>1
    <3> QED
      BY <3>1, <3>2
  <2> HIDE DEF plan, keys, t
  <2>2. PlanRight(plan, keys) /\ ~Leads(plan) /\ Planned(plan, keys)
    BY <1>t, <2>1, KeysAlone DEF KeyList
  <2> QED
    BY <1>5, <2>2 DEF PlanFits, plan, keys
<1>6. CASE cfg.method = "auto" /\ W.home /\ sockets # <<>>
  <2>1. plan = <<Step("agent", None)>> \o t
    <3> DEFINE a == <<Step("agent", None)>>
               f == Steps("file", files)
               b == Steps("default", DEFAULT_KEY_NAMES)
    <3>1. plan = (a \o f) \o b
      BY <1>6 DEF PlanAuthSteps
    <3>2. IsList(a) /\ IsList(f) /\ IsList(b)
      BY SingleList, StepsAre, ListIs, ConnectAssumption
    <3> HIDE DEF a, f, b
    <3>3. (a \o f) \o b = a \o (f \o b)
      <4> DEFINE T == ToSet(a) \cup ToSet(f) \cup ToSet(b)
      <4>1. a \in Seq(ToSet(a)) /\ f \in Seq(ToSet(f)) /\ b \in Seq(ToSet(b))
        BY <3>2 DEF IsList
      <4>2. ToSet(a) \subseteq T /\ ToSet(f) \subseteq T /\ ToSet(b) \subseteq T
        OBVIOUS
      <4> HIDE DEF T
      <4>3. a \in Seq(T) /\ f \in Seq(T) /\ b \in Seq(T)
        BY <4>1, <4>2, WiderList
      <4> QED
        BY <4>3, ConcatAssociative
    <3> QED
      BY <3>1, <3>3 DEF a, f, b
  <2>2. PlanRight(plan, keys) /\ Leads(plan) /\ Planned(plan, keys)
    BY <1>t, <2>1, KeysAfterAgents
  <2> HIDE DEF plan, keys, t
  <2> QED
    BY <1>6, <2>2 DEF PlanFits, plan, keys
<1> QED
  BY <1>1, <1>2, <1>3, <1>4, <1>5, <1>6

-----------------------------------------------------------------------------
(* What an attempt keeps of what was typed, and whose keys it has. *)

CallFields == {"op", "host", "port", "user", "method", "key", "password"}
Methods == {"auto", "agent", "key", "password"}

Kept(call, cfg) ==
    /\ DOMAIN cfg = CallFields /\ cfg.method \in Methods
    /\ call.user # None => cfg.user = call.user
    /\ call.key # None => cfg.key = call.key
    /\ call.method # "auto" => cfg.method = call.method
PortKept(call, cfg) == call.port # DefaultPort => cfg.port = call.port

\* The settings are merged, and the host is resolved.
Later == {"probe", "handshake", "discover", "auth", "sftp", "raw", "stored", "failed"}
TypedInv(d) ==
    /\ d.stage \notin {"failed", "idle"} => d.result = "none"
    /\ d.stage = "resolve" => Kept(d.call, d.cfg) /\ PortKept(d.call, d.cfg)
    /\ d.stage \in Later /\ d.result # "host" => Kept(d.call, d.cfg) /\ (d.resolved.fallback => PortKept(d.call, d.cfg))

OwnInv(w, c, d) ==
    LET own == OwnKeys(w, c, d.call.host)
    IN  /\ d.cfg.key \in own \cup {None, d.call.key}
        /\ \A i \in DOMAIN d.trace: d.trace[i].source.kind = "key" => d.trace[i].source.path \in own
        /\ d.stage \in {"probe", "handshake", "discover", "auth"} => ToSet(d.resolved.files) \subseteq own
        /\ d.stage = "auth" => \A i \in 1 .. Len(d.plan): d.plan[i].kind \in {"file", "default"} => d.plan[i].path \in own

DialOK(w, c, d) == TryInv(w, d) /\ TypedInv(d) /\ OwnInv(w, c, d)
DialInv == IsParser(config) /\ \A p \in Callers: DialOK(W, config, dial[p])

LEMMA MergedKeeps ==
    ASSUME NEW c, IsParser(c), NEW call \in Call, NEW system
    PROVE  LET cfg == MergeWithSshConfig(call, Entry(c, call.host), system)
           IN  /\ Kept(call, cfg) /\ PortKept(call, cfg)
               /\ cfg.key \in KeysInBlocksOf(c.text, HostsOf(c, call.host)) \cup {None, call.key}
<1> DEFINE entry == Entry(c, call.host)
           mid == WithEntry(call, entry)
           cfg == MergeWithSshConfig(call, entry, system)
           hosts == HostsOf(c, call.host)
           keyed == call.method = "auto" /\ entry.files # <<>>
<1>1. IsList(entry.files) /\ ToSet(entry.files) \subseteq KeysInBlocksOf(c.text, hosts)
  BY EntryKeys DEF HostsOf
<1>2. entry.files # <<>> => entry.files[1] \in KeysInBlocksOf(c.text, hosts)
  <2> HIDE DEF entry, hosts
  <2>1. entry.files # <<>> => 1 \in 1 .. Len(entry.files)
    BY <1>1, ListFacts
  <2>2. \A i \in 1 .. Len(entry.files): entry.files[i] \in ToSet(entry.files)
    BY <1>1, ListFacts
  <2> QED
    BY <1>1, <2>1, <2>2
<1> HIDE DEF entry, hosts
<1>3. DOMAIN call = CallFields /\ call.method \in Methods
  BY DEF Call, CallFields, Methods
<1>4. /\ DOMAIN mid = CallFields
      /\ mid.user = IF call.user = None THEN entry.user ELSE call.user
      /\ mid.port = IF call.port = DefaultPort /\ entry.port # 0 THEN entry.port ELSE call.port
      /\ mid.method = IF keyed THEN "key" ELSE call.method
      /\ mid.key = IF keyed /\ call.key = None THEN entry.files[1] ELSE call.key
  BY <1>3 DEF WithEntry, CallFields
<1>5. cfg = [mid EXCEPT !.user = IF @ = None THEN system ELSE @]
  BY DEF MergeWithSshConfig
<1> HIDE DEF mid
<1>6. /\ DOMAIN cfg = CallFields
      /\ cfg.user = IF mid.user = None THEN system ELSE mid.user
      /\ cfg.port = mid.port /\ cfg.method = mid.method /\ cfg.key = mid.key
  BY <1>4, <1>5 DEF CallFields
<1> HIDE DEF cfg
<1>7. Kept(call, cfg) /\ PortKept(call, cfg)
  BY <1>3, <1>4, <1>6 DEF Kept, PortKept, Methods
<1>8. cfg.key \in KeysInBlocksOf(c.text, hosts) \cup {None, call.key}
  BY <1>2, <1>4, <1>6
<1> QED
  BY <1>7, <1>8 DEF cfg, hosts, entry

\* Where ssh -G says the port, it is not the typed one that counts.
LEMMA ResolvedKeeps ==
    ASSUME NEW call, NEW cfg, Kept(call, cfg), PortKept(call, cfg), NEW r
    PROVE  LET new == MergeResolved(cfg, r)
           IN  Kept(call, new) /\ (r.fallback => PortKept(call, new)) /\ new.key = cfg.key
<1> DEFINE new == MergeResolved(cfg, r)
<1>1. DOMAIN cfg = CallFields
  BY DEF Kept
<1>2. /\ DOMAIN new = CallFields
      /\ new.port = IF r.fallback THEN cfg.port ELSE r.port
      /\ new.user = IF cfg.user = None /\ r.user # None THEN r.user ELSE cfg.user
      /\ new.method = cfg.method /\ new.key = cfg.key
  BY <1>1 DEF MergeResolved, CallFields
<1> HIDE DEF new
<1>3. Kept(call, new) /\ (r.fallback => PortKept(call, new))
  BY <1>2 DEF Kept, PortKept
<1> QED
  BY <1>2, <1>3 DEF new

-----------------------------------------------------------------------------
(* Steps that report nothing. *)

Agrees(d, e) ==
    e.call = d.call /\ e.cfg = d.cfg /\ e.resolved = d.resolved /\ e.trace = d.trace

LEMMA FailedOK ==
    ASSUME NEW w, NEW c, NEW d, DialOK(w, c, d), d.stage \in Later \ {"failed"}, NEW e, Agrees(d, e),
           e.stage = "failed", e.result \notin {"auth", "host"}
    PROVE  DialOK(w, c, e)
<1>1. d.result = "none"
  BY DEF DialOK, TypedInv, Later
<1>2. TryInv(w, e)
  BY DEF DialOK, TryInv, Agrees, Fresh, Once
<1>3. TypedInv(e)
  BY <1>1 DEF DialOK, TypedInv, Agrees, Later
<1>4. OwnInv(w, c, e)
  BY DEF DialOK, OwnInv, Agrees
<1> QED
  BY <1>2, <1>3, <1>4 DEF DialOK

\* An attempt goes on, before or after the authentication.
LEMMA GoesOnOK ==
    ASSUME NEW w, NEW c, NEW d, DialOK(w, c, d), NEW e, Agrees(d, e), e.result = d.result,
           \/ d.stage = "probe" /\ e.stage = "handshake" /\ e.tried = d.tried /\ e.cut = d.cut
           \/ d.stage = "handshake" /\ e.stage = "discover" /\ e.tried = d.tried /\ e.cut = d.cut
           \/ d.stage = "auth" /\ e.stage = "sftp"
           \/ d.stage = "sftp" /\ e.stage = "raw"
           \/ d.stage = "raw" /\ e.stage = "stored"
    PROVE  DialOK(w, c, e)
<1>1. d.result = "none"
  BY DEF DialOK, TypedInv
<1>2. TryInv(w, e)
  BY <1>1 DEF DialOK, TryInv, Agrees, Fresh, Once
<1>3. TypedInv(e)
  BY <1>1 DEF DialOK, TypedInv, Agrees, Later
<1>4. OwnInv(w, c, e)
  BY DEF DialOK, OwnInv, Agrees
<1> QED
  BY <1>2, <1>3, <1>4 DEF DialOK

\* A caller that makes room, and one whose call is done.
LEMMA WaitsOK ==
    ASSUME NEW w, NEW c, NEW d, DialOK(w, c, d), NEW e, Agrees(d, e), e.result = d.result,
           \/ /\ d.stage \in {"take", "dispose", "bye", "free"} /\ e.stage \in {"dispose", "bye", "free", "merge"}
              /\ e.tried = d.tried /\ e.cut = d.cut
           \/ e.stage = "idle" /\ e.tried = d.tried /\ e.cut = d.cut
    PROVE  DialOK(w, c, e)
<1>1. TryInv(w, e)
  <2>1. IsList(e.trace) /\ Once(w, e)
    BY DEF DialOK, TryInv, Agrees, Once
  <2>2. e.result = "auth" => Satisfied(w, e)
    <3>1. e.result = "auth" => Satisfied(w, d)
      BY DEF DialOK, TryInv
    <3>2. OfKeys(w, e) = OfKeys(w, d) /\ OfAgents(w, e) = OfAgents(w, d)
      BY DEF OfKeys, OfAgents, ToAgents, Agrees
    <3>3. \A s: (Told(e, s) <=> Told(d, s)) /\ (TooLong(e, s) <=> TooLong(d, s))
      BY DEF Told, TooLong, Agrees
    <3>4. ManyTold(w, e) <=> ManyTold(w, d)
      BY <3>2, <3>3 DEF ManyTold
    <3>5. e.cut = d.cut
      OBVIOUS
    <3>6. ASSUME Satisfied(w, d) PROVE Satisfied(w, e)
      <4>1. \A k: KeyTold(w, d, k) => KeyTold(w, e, k)
        BY <3>3 DEF KeyTold
      <4>2. \A a: AgentTold(w, d, a) => AgentTold(w, e, a)
        BY <3>3 DEF AgentTold
      <4> QED
        BY <3>2, <3>4, <3>5, <3>6, <4>1, <4>2 DEF Satisfied
    <3> QED
      BY <3>1, <3>6
  <2> QED
    BY <2>1, <2>2 DEF DialOK, TryInv, Agrees, Fresh
<1>2. TypedInv(e)
  BY DEF DialOK, TypedInv, Agrees, Later
<1>3. OwnInv(w, c, e)
  BY DEF DialOK, OwnInv, Agrees
<1> QED
  BY <1>1, <1>2, <1>3 DEF DialOK

\* A call begins, or there is none yet.
Begun(e) ==
    /\ e.stage \in {"idle", "merge", "take"} /\ e.cfg = NoCall /\ e.trace = <<>> /\ e.tried = {} /\ e.cut = FALSE
    /\ e.result = "none"

LEMMA BegunOK ==
    ASSUME NEW w, NEW c, NEW e, Begun(e)
    PROVE  DialOK(w, c, e)
<1>1. NoCall.key = None
  BY DEF NoCall
<1>2. TryInv(w, e)
  BY EmptyList DEF TryInv, Once, Fresh, Begun
<1>3. TypedInv(e)
  BY DEF TypedInv, Later, Begun
<1>4. OwnInv(w, c, e)
  BY <1>1, EmptyList DEF OwnInv, Begun
<1> QED
  BY <1>2, <1>3, <1>4 DEF DialOK

LEMMA BeginsOK ==
    ASSUME NEW w, NEW c, NEW call, NEW stage \in {"idle", "merge", "take"}
    PROVE  DialOK(w, c, Idle) /\ DialOK(w, c, [Idle EXCEPT !.call = call, !.stage = stage])
<1>1. Begun(Idle)
  BY DEF Idle, Begun
<1>2. Begun([Idle EXCEPT !.call = call, !.stage = stage])
  BY DEF Idle, Begun
<1> QED
  BY <1>1, <1>2, BegunOK

-----------------------------------------------------------------------------
(* Before the authentication, and after it: each step is sound.              *)

LEMMA WorldIs ==
    ASSUME TypeInv
    PROVE  IsList(W.sockets) /\ \A h \in DOMAIN W.says: W.says[h] \in Seq(ConfigLine)
<1>1. W.sockets \in Seq(STRING) /\ \A h \in DOMAIN W.says: W.says[h] \in Seq(ConfigLine)
  BY ConnectAssumption DEF TypeInv, W
<1> QED
  BY <1>1, ListIs

\* A step of an attempt that keeps what is true of it.
Sound(p) == \E e: dial' = [dial EXCEPT ![p] = e] /\ DialOK(W, config, e)

\* The attempt failed, before anything was tried or for another reason.
LEMMA FailsSound ==
    ASSUME NEW p \in Callers, DialOK(W, config, dial[p]), dial[p].stage \in Later \ {"failed"},
           NEW d, DOMAIN d = DialFields, Agrees(dial[p], d), NEW why, why \notin {"auth", "host"}, Fails(p, d, why)
    PROVE  Sound(p)
<1> DEFINE e == [d EXCEPT !.stage = "failed", !.result = why]
<1>1. Agrees(dial[p], e) /\ e.stage = "failed" /\ e.result = why
  BY DEF Agrees, DialFields
<1>2. dial' = [dial EXCEPT ![p] = e]
  BY DEF Fails, Becomes
<1> HIDE DEF e
<1> QED
  BY <1>1, <1>2, FailedOK DEF Sound

LEMMA MergesSound ==
    ASSUME TypeInv, DialInv, NEW p \in Callers, Merges(p)
    PROVE  Sound(p)
<1> DEFINE d == dial[p]
           entry == Entry(config, d.call.host)
           cfg == MergeWithSshConfig(d.call, entry, W.system)
           own == OwnKeys(W, config, d.call.host)
<1>1. DOMAIN d = DialFields /\ d.stage = "merge" /\ d.call \in Call /\ IsParser(config) /\ DialOK(W, config, d)
  BY DEF TypeInv, DialInv, Merges, At
<1>2. d.trace = <<>> /\ d.tried = {} /\ d.cut = FALSE /\ d.result = "none"
  BY <1>1 DEF DialOK, TryInv, TypedInv, Fresh
<1>3. CASE Fails(p, d, "host")
  <2> DEFINE e == [d EXCEPT !.stage = "failed", !.result = "host"]
  <2>1. e.stage = "failed" /\ e.result = "host" /\ e.call = d.call /\ e.cfg = d.cfg /\ e.trace = <<>>
    BY <1>1, <1>2 DEF DialFields
  <2>2. dial' = [dial EXCEPT ![p] = e]
    BY <1>3 DEF Fails, Becomes
  <2> HIDE DEF e, d
  <2>3. TryInv(W, e)
    BY <2>1, EmptyList DEF TryInv, Once, Fresh
  <2>4. TypedInv(e)
    BY <2>1 DEF TypedInv
  <2>5. OwnInv(W, config, e)
    BY <1>1, <2>1, EmptyList DEF DialOK, OwnInv
  <2> QED
    BY <2>2, <2>3, <2>4, <2>5 DEF Sound, DialOK
<1>4. CASE Becomes(p, [d EXCEPT !.stage = "resolve", !.cfg = cfg])
  <2> DEFINE e == [d EXCEPT !.stage = "resolve", !.cfg = cfg]
  <2>1. /\ e.stage = "resolve" /\ e.result = "none" /\ e.call = d.call /\ e.cfg = cfg /\ e.trace = <<>>
        /\ e.tried = {} /\ e.cut = FALSE
    BY <1>1, <1>2 DEF DialFields
  <2>2. dial' = [dial EXCEPT ![p] = e]
    BY <1>4 DEF Becomes
  <2>3. /\ Kept(d.call, cfg) /\ PortKept(d.call, cfg)
        /\ cfg.key \in KeysInBlocksOf(config.text, HostsOf(config, d.call.host)) \cup {None, d.call.key}
    BY <1>1, MergedKeeps
  <2> HIDE DEF e, cfg
  <2>4. cfg.key \in own \cup {None, d.call.key}
    BY <2>3 DEF OwnKeys
  <2> HIDE DEF d, own
  <2>5. TryInv(W, e)
    BY <2>1, EmptyList DEF TryInv, Once, Fresh
  <2>6. TypedInv(e)
    BY <2>1, <2>3 DEF TypedInv, Later
  <2>7. OwnInv(W, config, e)
    BY <2>1, <2>4, EmptyList DEF OwnInv, own
  <2> QED
    BY <2>2, <2>5, <2>6, <2>7 DEF Sound, DialOK
<1>5. Fails(p, d, "host") \/ Becomes(p, [d EXCEPT !.stage = "resolve", !.cfg = cfg])
  BY Zenon DEF Merges
<1> QED
  BY <1>3, <1>4, <1>5

LEMMA ResolvesSound ==
    ASSUME TypeInv, DialInv, NEW p \in Callers, Resolves(p)
    PROVE  Sound(p)
<1> DEFINE d == dial[p]
           own == OwnKeys(W, config, d.call.host)
<1>1. DOMAIN d = DialFields /\ d.stage = "resolve" /\ IsParser(config) /\ DialOK(W, config, d)
  BY DEF TypeInv, DialInv, Resolves, At
<1>2. PICK late: LET r == ResolveHost(d.call.host, config, W.says, late) IN
         dial' = [dial EXCEPT ![p] = [d EXCEPT !.stage = "probe", !.resolved = r.found, !.cfg = MergeResolved(@, r.found),
                                               !.clock = @ + SSH_G_TIMEOUT * Cardinality(r.asked \cap late)]]
  BY Zenon DEF Resolves, Becomes
<1> DEFINE r == ResolveHost(d.call.host, config, W.says, late)
           f == r.found
           e == [d EXCEPT !.stage = "probe", !.resolved = f, !.cfg = MergeResolved(@, f),
                          !.clock = @ + SSH_G_TIMEOUT * Cardinality(r.asked \cap late)]
<1>3. FoundKeys(f, config, W.says, HostsOf(config, d.call.host))
  BY <1>1, WorldIs, ResolvedKeys
<1>4. /\ e.stage = "probe" /\ e.result = d.result /\ e.call = d.call /\ e.cfg = MergeResolved(d.cfg, f)
      /\ e.resolved = f /\ e.trace = d.trace /\ e.tried = d.tried /\ e.cut = d.cut
  BY <1>1 DEF DialFields
<1>5. dial' = [dial EXCEPT ![p] = e]
  BY <1>2
<1> HIDE DEF e, f, r
<1>6. IsList(f.files) /\ ToSet(f.files) \subseteq own
  BY <1>3 DEF FoundKeys, OwnKeys
<1>7. d.trace = <<>> /\ d.tried = {} /\ d.cut = FALSE /\ d.result = "none" /\ Kept(d.call, d.cfg) /\ PortKept(d.call, d.cfg)
  BY <1>1 DEF DialOK, TryInv, TypedInv, Fresh
<1>8. Kept(d.call, e.cfg) /\ (f.fallback => PortKept(d.call, e.cfg)) /\ e.cfg.key = d.cfg.key
  BY <1>4, <1>7, ResolvedKeeps
<1>9. TryInv(W, e)
  BY <1>4, <1>6, <1>7, EmptyList DEF TryInv, Once, Fresh
<1>10. TypedInv(e)
  BY <1>4, <1>7, <1>8 DEF TypedInv, Later
<1>11. OwnInv(W, config, e)
  <2>1. d.cfg.key \in own \cup {None, d.call.key}
    BY <1>1 DEF DialOK, OwnInv
  <2> HIDE DEF d
  <2> QED
    BY <1>4, <1>6, <1>7, <1>8, <2>1, EmptyList DEF OwnInv
<1> QED
  BY <1>5, <1>9, <1>10, <1>11 DEF Sound, DialOK

LEMMA ProbesSound ==
    ASSUME TypeInv, DialInv, NEW p \in Callers, Probes(p)
    PROVE  Sound(p)
<1> DEFINE d == dial[p]
<1>1. DOMAIN d = DialFields /\ d.stage = "probe" /\ DialOK(W, config, d)
  BY DEF TypeInv, DialInv, Probes, At
<1>2. ASSUME NEW n, Fails(p, [d EXCEPT !.clock = @ + n], "unreachable") PROVE Sound(p)
  <2> DEFINE f == [d EXCEPT !.clock = @ + n]
  <2>1. DOMAIN f = DialFields /\ Agrees(d, f) /\ Fails(p, f, "unreachable")
    BY <1>1, <1>2 DEF DialFields, Agrees
  <2> HIDE DEF f
  <2> QED
    BY <1>1, <2>1, FailsSound DEF Later
<1>3. ASSUME NEW x, NEW y, Becomes(p, [d EXCEPT !.stage = "handshake", !.clock = x, !.deadline = y]) PROVE Sound(p)
  <2> DEFINE e == [d EXCEPT !.stage = "handshake", !.clock = x, !.deadline = y]
  <2>1. Agrees(d, e) /\ e.stage = "handshake" /\ e.result = d.result /\ e.tried = d.tried /\ e.cut = d.cut
    BY <1>1 DEF DialFields, Agrees
  <2>2. dial' = [dial EXCEPT ![p] = e]
    BY <1>3 DEF Becomes
  <2> HIDE DEF e
  <2> QED
    BY <1>1, <2>1, <2>2, GoesOnOK DEF Sound
<1> HIDE DEF Sound
<1> QED
  BY <1>2, <1>3 DEF Probes

LEMMA HandshakesSound ==
    ASSUME TypeInv, DialInv, NEW p \in Callers, Handshakes(p)
    PROVE  Sound(p)
<1> DEFINE d == dial[p]
<1>1. DOMAIN d = DialFields /\ d.stage = "handshake" /\ DialOK(W, config, d)
  BY DEF TypeInv, DialInv, Handshakes, At
<1>2. ASSUME NEW n, NEW why \in {"chain", "handshake"}, Fails(p, [d EXCEPT !.clock = n], why) PROVE Sound(p)
  <2> DEFINE f == [d EXCEPT !.clock = n]
  <2>1. DOMAIN f = DialFields /\ Agrees(d, f) /\ Fails(p, f, why)
    BY <1>1, <1>2 DEF DialFields, Agrees
  <2> HIDE DEF f
  <2> QED
    BY <1>1, <2>1, FailsSound DEF Later
<1>3. ASSUME NEW x, NEW y, Becomes(p, [d EXCEPT !.stage = "discover", !.clock = x, !.session = y]) PROVE Sound(p)
  <2> DEFINE e == [d EXCEPT !.stage = "discover", !.clock = x, !.session = y]
  <2>1. Agrees(d, e) /\ e.stage = "discover" /\ e.result = d.result /\ e.tried = d.tried /\ e.cut = d.cut
    BY <1>1 DEF DialFields, Agrees
  <2>2. dial' = [dial EXCEPT ![p] = e]
    BY <1>3 DEF Becomes
  <2> HIDE DEF e
  <2> QED
    BY <1>1, <2>1, <2>2, GoesOnOK DEF Sound
<1> HIDE DEF Sound
<1> QED
  BY <1>2, <1>3 DEF Handshakes

LEMMA OpensSftpSound ==
    ASSUME TypeInv, DialInv, NEW p \in Callers, OpensSftp(p)
    PROVE  Sound(p)
<1> DEFINE d == dial[p]
<1>1. DOMAIN d = DialFields /\ d.stage = "sftp" /\ DialOK(W, config, d)
  BY DEF TypeInv, DialInv, OpensSftp, At
<1>2. ASSUME NEW n, NEW why \in {"chain", "sftp"}, Fails(p, [d EXCEPT !.clock = n], why) PROVE Sound(p)
  <2> DEFINE f == [d EXCEPT !.clock = n]
  <2>1. DOMAIN f = DialFields /\ Agrees(d, f) /\ Fails(p, f, why)
    BY <1>1, <1>2 DEF DialFields, Agrees
  <2> HIDE DEF f
  <2> QED
    BY <1>1, <2>1, FailsSound DEF Later
<1>3. ASSUME NEW x, Becomes(p, [d EXCEPT !.stage = "raw", !.clock = x]) PROVE Sound(p)
  <2> DEFINE e == [d EXCEPT !.stage = "raw", !.clock = x]
  <2>1. Agrees(d, e) /\ e.stage = "raw" /\ e.result = d.result
    BY <1>1 DEF DialFields, Agrees
  <2>2. dial' = [dial EXCEPT ![p] = e]
    BY <1>3 DEF Becomes
  <2> HIDE DEF e
  <2> QED
    BY <1>1, <2>1, <2>2, GoesOnOK DEF Sound
<1> HIDE DEF Sound
<1> QED
  BY <1>2, <1>3 DEF OpensSftp

LEMMA GivesUpSound ==
    ASSUME TypeInv, DialInv, NEW p \in Callers, GivesUp(p)
    PROVE  Sound(p)
<1> DEFINE d == dial[p]
           e == [d EXCEPT !.stage = "failed", !.result = "auth"]
<1>1. DOMAIN d = DialFields /\ d.stage = "auth" /\ DialOK(W, config, d) /\ d.plan = <<>>
  BY DEF TypeInv, DialInv, GivesUp, At
<1>2. dial' = [dial EXCEPT ![p] = e]
  BY DEF GivesUp, Fails, Becomes
<1>3. Agrees(d, e) /\ e.stage = "failed" /\ e.result = "auth" /\ e.cut = d.cut
  BY <1>1 DEF Agrees, DialFields
<1> HIDE DEF e
<1>4. Satisfied(W, d)
  BY <1>1, WorldIs, PlanDone DEF DialOK, TryInv
<1>5. Satisfied(W, e)
  <2>1. OfKeys(W, e) = OfKeys(W, d) /\ OfAgents(W, e) = OfAgents(W, d)
    BY <1>3 DEF OfKeys, OfAgents, ToAgents, Agrees
  <2>2. \A s: (Told(e, s) <=> Told(d, s)) /\ (TooLong(e, s) <=> TooLong(d, s))
    BY <1>3 DEF Told, TooLong, Agrees
  <2>3. ManyTold(W, e) <=> ManyTold(W, d)
    BY <2>1, <2>2 DEF ManyTold
  <2>4. (\A k: KeyTold(W, d, k) => KeyTold(W, e, k)) /\ (\A a: AgentTold(W, d, a) => AgentTold(W, e, a))
    BY <2>2 DEF KeyTold, AgentTold
  <2> QED
    BY <1>3, <1>4, <2>1, <2>3, <2>4 DEF Satisfied
<1>6. TryInv(W, e)
  BY <1>1, <1>3, <1>5 DEF DialOK, TryInv, Agrees, Fresh, Once
<1>7. TypedInv(e)
  BY <1>1, <1>3 DEF DialOK, TypedInv, Agrees, Later
<1>8. OwnInv(W, config, e)
  BY <1>1, <1>3 DEF DialOK, OwnInv, Agrees
<1> QED
  BY <1>2, <1>6, <1>7, <1>8 DEF Sound, DialOK

-----------------------------------------------------------------------------
(* The authentication: each step is sound.                                   *)

\* The authentication starts with all of its candidates.
LEMMA DiscoversSound ==
    ASSUME TypeInv, DialInv, NEW p \in Callers, Discovers(p), ClockOK(dial[p])
    PROVE  Sound(p)
<1> DEFINE d == dial[p]
           own == OwnKeys(W, config, d.call.host)
           sockets == DiscoverAgentSockets(d.resolved.agent)
           files == d.resolved.files
           plan == PlanAuthSteps(d.cfg, files, sockets)
           keys == ToSet(files) \cup ToSet(DEFAULT_KEY_NAMES)
           e == [d EXCEPT !.stage = "auth", !.sockets = sockets, !.until = d.clock + AUTH_TIMEOUT, !.plan = plan]
<1>1. DOMAIN d = DialFields /\ d.stage = "discover" /\ DialOK(W, config, d) /\ d.clock \in Nat
  BY DEF TypeInv, DialInv, Discovers, At, ClockOK
<1>2. dial' = [dial EXCEPT ![p] = e]
  BY DEF Discovers, Becomes
<1>3. /\ Agrees(d, e) /\ e.stage = "auth" /\ e.result = d.result /\ e.tried = d.tried /\ e.cut = d.cut
      /\ e.sockets = sockets /\ e.plan = plan /\ e.clock = d.clock /\ e.until = d.clock + AUTH_TIMEOUT
  BY <1>1 DEF DialFields, Agrees
<1>4. /\ d.trace = <<>> /\ d.tried = {} /\ d.cut = FALSE /\ d.result = "none" /\ IsList(files)
      /\ Kept(d.call, d.cfg) /\ (d.resolved.fallback => PortKept(d.call, d.cfg))
  BY <1>1 DEF DialOK, TryInv, TypedInv, Fresh, Later
<1>5. d.cfg.method \in Methods
  BY <1>4 DEF Kept
<1>6. sockets = Sockets(W, d.resolved.agent) /\ IsList(sockets)
  BY DiscoveredAre, WorldIs, SocketsOnce
<1> HIDE DEF e
<1>7. /\ PlanRight(plan, keys)
      /\ Leads(plan) => sockets # <<>> /\ d.cfg.method \in {"auto", "agent"}
      /\ ~Leads(plan) /\ W.home /\ d.cfg.method \in {"auto", "agent"} => sockets = <<>>
      /\ d.cfg.method = "auto" /\ W.home => Planned(plan, keys)
  <2>1. IsList(files) /\ d.cfg.method \in {"auto", "agent", "key", "password"}
    BY <1>4, <1>5 DEF Methods
  <2>2. PlanFits(plan, d.cfg.method, keys, sockets)
    BY <2>1, PlanIs
  <2> HIDE DEF plan, keys, sockets, d
  <2> QED
    BY <2>2 DEF PlanFits
<1> HIDE DEF plan, sockets
<1>8. AgentNext(e) <=> Leads(plan)
  BY <1>3 DEF AgentNext, Leads
<1>9. ToAgents(e) <=> d.cfg.method \in {"auto", "agent"}
  BY <1>3 DEF ToAgents, Agrees
<1>10. e.resolved = d.resolved /\ e.cfg = d.cfg /\ e.trace = <<>> /\ e.tried = {} /\ e.cut = FALSE
  BY <1>3, <1>4 DEF Agrees
<1>11. AgentsInv(W, e)
  <2> DEFINE all == Sockets(W, d.resolved.agent)
  <2>1. Len(all) \in Nat /\ Len(all) - Len(all) = 0 /\ \A i \in 1 .. Len(all): 0 + i = i
    <3>1. Len(all) \in Nat
      BY <1>6, ListFacts
    <3> QED
      BY <3>1
  <2>2. Gone(W, e) = 0 /\ e.sockets = all
    BY <1>3, <1>6, <1>10, <2>1 DEF Gone
  <2>3. AUTH_TIMEOUT \in Nat /\ AGENT_CANDIDATE_TIMEOUT \in Nat
    BY ConnectAssumption
  <2>4. e.clock + AUTH_TIMEOUT <= e.until + 0 * AGENT_CANDIDATE_TIMEOUT
    BY <1>1, <1>3, <2>3
  <2>5. AgentNext(e) => e.sockets # <<>> /\ ToAgents(e)
    BY <1>3, <1>7, <1>8, <1>9
  <2>6. ~AgentNext(e) /\ W.home /\ ToAgents(e) => e.sockets = <<>>
    BY <1>3, <1>7, <1>8, <1>9
  <2> HIDE DEF all
  <2>7. \A i \in 1 .. Len(e.sockets): e.sockets[i] = all[0 + i]
    BY <2>1, <2>2
  <2>8. \A k \in 1 .. 0: FALSE
    OBVIOUS
  <2>9. \A i \in DOMAIN e.trace: FALSE
    BY <1>10, EmptyList
  <2>10. Sockets(W, e.resolved.agent) = all /\ Len(e.sockets) <= Len(all)
    BY <1>10, <2>1, <2>2 DEF all
  <2> QED
    BY <1>10, <2>2, <2>4, <2>5, <2>6, <2>7, <2>8, <2>9, <2>10 DEF AgentsInv
<1>12. KeysInv(W, e)
  <2>1. \A i \in 2 .. Len(e.plan): e.plan[i].kind # "agent"
    BY <1>3, <1>7 DEF PlanRight, PlanKeys
  <2>2. \A k \in OfKeys(W, e): \E i \in 1 .. Len(e.plan): e.plan[i].kind \in {"file", "default"} /\ e.plan[i].path = k
    <3>1. ASSUME d.cfg.method = "auto", W.home
          PROVE  \A k \in keys: \E i \in 1 .. Len(e.plan): e.plan[i].kind \in {"file", "default"} /\ e.plan[i].path = k
      BY <1>3, <1>7, <3>1 DEF Planned
    <3>2. OfKeys(W, e) = IF d.cfg.method = "auto" /\ W.home THEN keys ELSE {}
      BY <1>10 DEF OfKeys
    <3> HIDE DEF keys, d
    <3> QED
      BY <3>1, <3>2
  <2>3. \A i \in DOMAIN e.trace: FALSE
    BY <1>10, EmptyList
  <2> QED
    BY <1>10, <2>1, <2>2, <2>3 DEF KeysInv
<1>13. AuthInv(W, e)
  BY <1>3, <1>6, <1>7, <1>10, <1>11, <1>12 DEF AuthInv, PlanRight
<1>14. TryInv(W, e)
  BY <1>3, <1>4, <1>10, <1>13, EmptyList DEF TryInv, Once, Fresh
<1>15. TypedInv(e)
  BY <1>3, <1>4 DEF TypedInv, Later, Agrees
<1>16. OwnInv(W, config, e)
  <2>1. ToSet(files) \subseteq own /\ d.cfg.key \in own \cup {None, d.call.key}
    BY <1>1 DEF DialOK, OwnInv
  <2>2. keys \subseteq own
    BY <2>1 DEF OwnKeys
  <2>3. \A i \in 1 .. Len(e.plan): e.plan[i].kind \in {"file", "default"} => e.plan[i].path \in own
    BY <1>3, <1>7, <2>2 DEF PlanRight, PlanKeys
  <2>4. e.call = d.call /\ e.cfg = d.cfg /\ e.resolved.files = files
    BY <1>3 DEF Agrees
  <2>5. \A i \in DOMAIN e.trace: FALSE
    BY <1>10, EmptyList
  <2> HIDE DEF d, own, keys, files
  <2>6. own = OwnKeys(W, config, e.call.host)
    BY <2>4 DEF own
  <2> QED
    BY <2>1, <2>3, <2>4, <2>5, <2>6 DEF OwnInv
<1> QED
  BY <1>2, <1>14, <1>15, <1>16 DEF Sound, DialOK

-----------------------------------------------------------------------------
(* The candidates. *)

\* What is left of a plan.
LEMMA KeysOfTail ==
    ASSUME NEW plan, IsList(plan), plan # <<>>, NEW own,
           \A i \in 1 .. Len(plan): plan[i].kind \in {"file", "default"} => plan[i].path \in own
    PROVE  \A i \in 1 .. Len(Tail(plan)): Tail(plan)[i].kind \in {"file", "default"} => Tail(plan)[i].path \in own
<1> DEFINE t == Tail(plan)
<1>1. Len(t) = Len(plan) - 1 /\ \A i \in 1 .. Len(plan) - 1: t[i] = plan[i + 1]
  BY TailList
<1>2. Len(plan) \in Nat
  BY ListFacts
<1> HIDE DEF t
<1>3. \A i \in 1 .. Len(t): i + 1 \in 1 .. Len(plan) /\ t[i] = plan[i + 1]
  BY <1>1, <1>2
<1> QED
  BY <1>3 DEF t

\* What the tries of candidates leave alone.
Tries(d, e) == e.call = d.call /\ e.cfg = d.cfg /\ e.resolved = d.resolved /\ e.result = d.result

\* The report names an own key or an agent more.
LEMMA OwnGrown ==
    ASSUME NEW own, NEW d, NEW e, NEW x, Grows(d, e, x), x.source.kind = "key" => x.source.path \in own,
           \A i \in DOMAIN d.trace: d.trace[i].source.kind = "key" => d.trace[i].source.path \in own
    PROVE  \A i \in DOMAIN e.trace: e.trace[i].source.kind = "key" => e.trace[i].source.path \in own
<1>1. \A i \in DOMAIN e.trace: (i \in DOMAIN d.trace /\ e.trace[i] = d.trace[i]) \/ e.trace[i] = x
  BY Grown
<1> QED
  BY <1>1

\* The authentication goes on with what is left of the plan, or succeeds.
LEMMA TriedOK ==
    ASSUME NEW w, NEW c, NEW d, DialOK(w, c, d), d.stage = "auth", NEW e, Tries(d, e),
           IsList(e.trace), Once(w, e),
           \A i \in DOMAIN e.trace: e.trace[i].source.kind = "key" => e.trace[i].source.path \in OwnKeys(w, c, d.call.host),
           \/ e.stage = "sftp"
           \/ /\ e.stage = "auth" /\ AuthInv(w, e)
              /\ e.plan = d.plan \/ (e.plan = Tail(d.plan) /\ d.plan # <<>>)
    PROVE  DialOK(w, c, e)
<1> DEFINE own == OwnKeys(w, c, d.call.host)
<1>1. d.result = "none" /\ IsList(d.resolved.files) /\ IsList(d.plan)
  BY DEF DialOK, TypedInv, TryInv, AuthInv
<1>2. TryInv(w, e)
  BY <1>1 DEF TryInv, Tries, Fresh
<1>3. TypedInv(e)
  BY <1>1 DEF DialOK, TypedInv, Tries, Later
<1>4. OwnInv(w, c, e)
  <2>1. /\ d.cfg.key \in own \cup {None, d.call.key} /\ ToSet(d.resolved.files) \subseteq own
        /\ \A i \in 1 .. Len(d.plan): d.plan[i].kind \in {"file", "default"} => d.plan[i].path \in own
    BY DEF DialOK, OwnInv
  <2>2. own = OwnKeys(w, c, e.call.host)
    BY DEF Tries
  <2> HIDE DEF own
  <2>3. e.stage = "auth" => \A i \in 1 .. Len(e.plan): e.plan[i].kind \in {"file", "default"} => e.plan[i].path \in own
    <3>1. d.plan # <<>> =>
             \A i \in 1 .. Len(Tail(d.plan)): Tail(d.plan)[i].kind \in {"file", "default"} => Tail(d.plan)[i].path \in own
      BY <1>1, <2>1, KeysOfTail
    <3> QED
      BY <2>1, <3>1
  <2>4. \A i \in DOMAIN e.trace: e.trace[i].source.kind = "key" => e.trace[i].source.path \in own
    BY DEF own
  <2> QED
    BY <2>1, <2>2, <2>3, <2>4 DEF OwnInv, Tries
<1> QED
  BY <1>2, <1>3, <1>4 DEF DialOK

LEMMA TriesOnlySound ==
    ASSUME TypeInv, DialInv, NEW p \in Callers, TriesOnly(p)
    PROVE  Sound(p)
<1> DEFINE d == dial[p]
<1>1. DOMAIN d = DialFields /\ d.stage = "auth" /\ DialOK(W, config, d) /\ NextStep(d).kind \in {"password", "key"}
  BY DEF TypeInv, DialInv, TriesOnly, At
<1>2. d.plan # <<>> /\ d.plan[1].kind \in {"password", "key"}
  BY <1>1 DEF NextStep, Step
<1>3. /\ IsList(d.trace) /\ Once(W, d) /\ AuthInv(W, d)
      /\ \A i \in DOMAIN d.trace: d.trace[i].source.kind = "key" => d.trace[i].source.path \in OwnKeys(W, config, d.call.host)
  BY <1>1 DEF DialOK, TryInv, OwnInv
<1>4. ASSUME NEW n, Fails(p, [d EXCEPT !.clock = n], "chain") PROVE Sound(p)
  <2> DEFINE f == [d EXCEPT !.clock = n]
  <2>1. DOMAIN f = DialFields /\ Agrees(d, f) /\ Fails(p, f, "chain")
    BY <1>1, <1>4 DEF DialFields, Agrees
  <2> HIDE DEF f
  <2> QED
    BY <1>1, <2>1, FailsSound DEF Later
<1>5. ASSUME NEW n, Becomes(p, Passed([d EXCEPT !.clock = n])) PROVE Sound(p)
  <2> DEFINE e == Passed([d EXCEPT !.clock = n])
  <2>1. Agrees(d, e) /\ e.stage = "sftp" /\ e.result = d.result
    BY <1>1 DEF DialFields, Agrees, Passed
  <2>2. dial' = [dial EXCEPT ![p] = e]
    BY <1>5 DEF Becomes
  <2> HIDE DEF e
  <2> QED
    BY <1>1, <2>1, <2>2, GoesOnOK DEF Sound
<1>6. ASSUME NEW n, Becomes(p, Rejected([d EXCEPT !.clock = n])) PROVE Sound(p)
  <2> DEFINE e == Rejected([d EXCEPT !.clock = n])
  <2>1. /\ Tries(d, e) /\ e.stage = "auth" /\ e.trace = d.trace /\ e.plan = Tail(d.plan) /\ e.tried = d.tried
        /\ e.sockets = d.sockets /\ e.cut = d.cut /\ e.until = d.until
    BY <1>1 DEF DialFields, Tries, Rejected
  <2>2. dial' = [dial EXCEPT ![p] = e]
    BY <1>6 DEF Becomes
  <2> HIDE DEF e, d
  <2>3. AuthInv(W, e)
    BY <1>2, <1>3, <2>1, WorldIs, OnlyTried DEF Stays, Tries
  <2>4. DialOK(W, config, e)
    BY <1>1, <1>2, <1>3, <2>1, <2>3, TriedOK DEF Once
  <2> QED
    BY <2>2, <2>4 DEF Sound
<1> HIDE DEF Sound
<1> QED
  BY <1>4, <1>5, <1>6 DEF TriesOnly

\* An await takes no longer than its own limit, and less when it is cut.
AwaitWithin(d, a, own) ==
    /\ a.at \in Nat /\ a.at <= d.clock + own
    /\ a.end = "cut" => a.at < d.clock + own
    /\ a.end \in {"done", "late", "cut"}

LEMMA AwaitIs ==
    ASSUME NEW d, d.clock \in Nat, d.deadline \in Nat, d.clock <= d.deadline, NEW delay \in Nat, NEW own \in Nat
    PROVE  AwaitWithin(d, Await(d, delay, own), own)
BY DEF Await, AwaitWithin

LEMMA TriesAgentSound ==
    ASSUME TypeInv, DialInv, NEW p \in Callers, TriesAgent(p), ClockOK(dial[p])
    PROVE  Sound(p)
<1> DEFINE d == dial[p]
           path == d.sockets[1]
           agent == W.agent[path]
           own == OwnKeys(W, config, d.call.host)
<1>1. /\ DOMAIN d = DialFields /\ d.stage = "auth" /\ DialOK(W, config, d) /\ NextStep(d).kind = "agent"
      /\ d.clock \in Nat /\ d.until \in Nat /\ d.deadline \in Nat /\ d.clock <= d.deadline
  BY DEF TypeInv, DialInv, TriesAgent, At, ClockOK, Chain
<1>2. AgentNext(d)
  BY <1>1 DEF NextStep, Step, AgentNext
<1>3. /\ IsList(d.trace) /\ Once(W, d) /\ AuthInv(W, d)
      /\ \A i \in DOMAIN d.trace: d.trace[i].source.kind = "key" => d.trace[i].source.path \in own
  BY <1>1 DEF DialOK, TryInv, OwnInv
<1>w. IsList(W.sockets)
  BY WorldIs
<1>4. PICK delay \in IF agent.listens THEN W.delays ELSE {0} :
         LET a == Await(d, delay, AGENT_CANDIDATE_TIMEOUT)
             won == agent.listens /\ AgentAccepts(agent) /\ a.end = "done"
             why == CASE won -> "none" [] a.end = "late" -> "timeout" [] OTHER -> "rejected"
             e == Recorded([d EXCEPT !.clock = a.at, !.sockets = Tail(@)], Socket(path),
                           IF won THEN "used" ELSE "failed", why)
         IN  IF a.at > d.until \/ (a.end = "cut" /\ a.at = d.until)
             THEN /\ Becomes(p, Rejected([d EXCEPT !.clock = d.until, !.cut = TRUE, !.sockets = <<>>]))
                  /\ UNCHANGED sessions
             ELSE IF a.end = "cut" THEN Fails(p, [d EXCEPT !.clock = a.at], "chain")
             ELSE /\ Becomes(p, IF won THEN Passed(e) ELSE IF e.sockets = <<>> THEN Rejected(e) ELSE e)
                  /\ UNCHANGED sessions
  BY Zenon DEF TriesAgent
<1>d. delay \in W.delays \cup {0}
  BY <1>4
<1> DEFINE a == Await(d, delay, AGENT_CANDIDATE_TIMEOUT)
           won == agent.listens /\ AgentAccepts(agent) /\ a.end = "done"
           why == CASE won -> "none" [] a.end = "late" -> "timeout" [] OTHER -> "rejected"
           outcome == IF won THEN "used" ELSE "failed"
           x == Attempt(Socket(path), outcome, why)
           c == Rejected([d EXCEPT !.clock = d.until, !.cut = TRUE, !.sockets = <<>>])
           e == Recorded([d EXCEPT !.clock = a.at, !.sockets = Tail(@)], Socket(path), outcome, why)
<1>5. AwaitWithin(d, a, AGENT_CANDIDATE_TIMEOUT)
  <2>1. delay \in Nat /\ AGENT_CANDIDATE_TIMEOUT \in Nat
    BY <1>d, Limits, WorldIs
  <2> HIDE DEF d
  <2> QED
    BY <1>1, <2>1, AwaitIs
<1>6. \/ /\ a.at > d.until \/ (a.end = "cut" /\ a.at = d.until)
         /\ Becomes(p, c)
      \/ a.end = "cut" /\ Fails(p, [d EXCEPT !.clock = a.at], "chain")
      \/ a.end # "cut" /\ won /\ Becomes(p, Passed(e))
      \/ a.end # "cut" /\ ~won /\ Becomes(p, IF e.sockets = <<>> THEN Rejected(e) ELSE e)
  BY <1>4, Zenon
<1>7. ~won /\ a.end # "cut" /\ Works(W, path) => why = "timeout"
  BY <1>5 DEF Works, AwaitWithin
<1> HIDE DEF a, won, why, outcome
<1>8. ASSUME a.at > d.until \/ (a.end = "cut" /\ a.at = d.until), Becomes(p, c) PROVE Sound(p)
  <2>1. d.clock + AGENT_CANDIDATE_TIMEOUT > d.until
    <3>1. AGENT_CANDIDATE_TIMEOUT \in Nat
      BY Limits
    <3> QED
      BY <1>1, <1>5, <1>8, <3>1 DEF AwaitWithin
  <2>2. /\ Tries(d, c) /\ c.stage = "auth" /\ c.trace = d.trace /\ c.plan = Tail(d.plan) /\ c.tried = d.tried
        /\ c.sockets = <<>> /\ c.cut = TRUE /\ c.until = d.until
    BY <1>1 DEF DialFields, Tries, Rejected
  <2>3. dial' = [dial EXCEPT ![p] = c]
    BY <1>8 DEF Becomes
  <2> HIDE DEF c, d
  <2>4. AuthInv(W, c)
    BY <1>1, <1>2, <1>3, <1>w, <2>1, <2>2, AgentsCut DEF Stays, Tries
  <2>5. IsList(c.trace) /\ Once(W, c)
    BY <1>3, <2>2 DEF Once
  <2>6. \A i \in DOMAIN c.trace: c.trace[i].source.kind = "key" => c.trace[i].source.path \in OwnKeys(W, config, d.call.host)
    BY <1>3, <2>2
  <2>7. c.plan = Tail(d.plan) /\ d.plan # <<>>
    BY <1>2, <2>2 DEF AgentNext
  <2>8. DialOK(W, config, c)
    BY <1>1, <2>2, <2>4, <2>5, <2>6, <2>7, TriedOK
  <2> QED
    BY <2>3, <2>8 DEF Sound
<1>9. ASSUME Fails(p, [d EXCEPT !.clock = a.at], "chain") PROVE Sound(p)
  <2> DEFINE f == [d EXCEPT !.clock = a.at]
  <2>1. DOMAIN f = DialFields /\ Agrees(d, f) /\ Fails(p, f, "chain")
    BY <1>1, <1>9 DEF DialFields, Agrees
  <2> HIDE DEF f
  <2> QED
    BY <1>1, <2>1, FailsSound DEF Later
<1>10. /\ DOMAIN e = DialFields /\ Tries(d, e) /\ e.stage = "auth" /\ e.trace = Append(d.trace, x) /\ e.plan = d.plan
       /\ e.tried = d.tried /\ e.sockets = Tail(d.sockets) /\ e.cut = d.cut /\ e.until = d.until /\ e.clock = a.at
  BY <1>1 DEF DialFields, Tries, Recorded
<1>11. x.source = Socket(path) /\ x.why = why /\ x.source.kind = "agent"
  BY DEF Attempt, Socket, Step
<1> HIDE DEF c, e, x
\* What becomes of the report in either case.
<1>12. ASSUME NEW f, f.trace = e.trace
       PROVE  /\ Grows(d, f, x) /\ IsList(f.trace) /\ Once(W, f)
              /\ \A i \in DOMAIN f.trace: f.trace[i].source.kind = "key" => f.trace[i].source.path \in own
  <2>1. Grows(d, f, x)
    BY <1>3, <1>10, <1>12 DEF Grows
  <2> HIDE DEF d, own
  <2>2. IsList(f.trace)
    BY <2>1, Grown
  <2>3. x.source = Socket(d.sockets[1])
    BY <1>11 DEF d
  <2>4. Once(W, f)
    BY <1>2, <1>3, <1>w, <2>1, <2>3, AgentOnce
  <2>5. \A i \in DOMAIN f.trace: f.trace[i].source.kind = "key" => f.trace[i].source.path \in own
    BY <1>3, <1>11, <2>1, OwnGrown
  <2> QED
    BY <2>1, <2>2, <2>4, <2>5
<1>13. ASSUME Becomes(p, Passed(e)) PROVE Sound(p)
  <2> DEFINE f == Passed(e)
  <2>1. Tries(d, f) /\ f.stage = "sftp" /\ f.trace = e.trace
    BY <1>10 DEF DialFields, Tries, Passed
  <2>2. dial' = [dial EXCEPT ![p] = f]
    BY <1>13 DEF Becomes
  <2> HIDE DEF f, d
  <2>3. /\ IsList(f.trace) /\ Once(W, f)
        /\ \A i \in DOMAIN f.trace: f.trace[i].source.kind = "key" => f.trace[i].source.path \in OwnKeys(W, config, d.call.host)
    BY <1>12, <2>1
  <2>4. DialOK(W, config, f)
    BY <1>1, <2>1, <2>3, TriedOK
  <2> QED
    BY <2>2, <2>4 DEF Sound
<1>14. ASSUME a.end # "cut", ~won, Becomes(p, IF e.sockets = <<>> THEN Rejected(e) ELSE e) PROVE Sound(p)
  <2> DEFINE f == IF e.sockets = <<>> THEN Rejected(e) ELSE e
  <2>1. /\ Tries(d, f) /\ f.stage = "auth" /\ f.trace = e.trace /\ f.tried = d.tried /\ f.sockets = Tail(d.sockets)
        /\ f.cut = d.cut /\ f.until = d.until /\ f.clock = a.at
        /\ f.plan = IF Tail(d.sockets) = <<>> THEN Tail(d.plan) ELSE d.plan
    BY <1>10 DEF DialFields, Tries, Rejected
  <2>2. dial' = [dial EXCEPT ![p] = f]
    BY <1>14 DEF Becomes
  <2>3. /\ Grows(d, f, x) /\ IsList(f.trace) /\ Once(W, f)
        /\ \A i \in DOMAIN f.trace: f.trace[i].source.kind = "key" => f.trace[i].source.path \in OwnKeys(W, config, d.call.host)
    BY <1>12, <2>1
  <2>4. f.clock \in Nat /\ f.clock <= d.clock + AGENT_CANDIDATE_TIMEOUT
    BY <1>5, <2>1 DEF AwaitWithin
  <2>5. x.source = Socket(d.sockets[1]) /\ (Works(W, d.sockets[1]) => x.why = "timeout")
    BY <1>7, <1>11, <1>14
  <2> HIDE DEF f, d
  <2>6. Stays(d, f)
    BY <2>1 DEF Stays, Tries
  <2>7. AuthInv(W, f)
    BY <1>1, <1>2, <1>3, <1>w, <2>1, <2>3, <2>4, <2>5, <2>6, AgentFailed
  <2>8. f.plan = d.plan \/ (f.plan = Tail(d.plan) /\ d.plan # <<>>)
    BY <1>2, <2>1 DEF AgentNext
  <2>9. DialOK(W, config, f)
    BY <1>1, <2>1, <2>3, <2>7, <2>8, TriedOK
  <2> QED
    BY <2>2, <2>9 DEF Sound
<1> QED
  BY <1>6, <1>8, <1>9, <1>13, <1>14

LEMMA TriesKeySound ==
    ASSUME TypeInv, DialInv, NEW p \in Callers, TriesKey(p)
    PROVE  Sound(p)
<1> DEFINE d == dial[p]
           s == NextStep(d)
           key == KeyAt(s.path)
           own == OwnKeys(W, config, d.call.host)
<1>1. DOMAIN d = DialFields /\ d.stage = "auth" /\ DialOK(W, config, d) /\ s.kind \in {"file", "default"}
  BY DEF TypeInv, DialInv, TriesKey, At
<1>2. d.plan # <<>> /\ d.plan[1] = s
  BY <1>1 DEF NextStep, Step
<1>3. /\ IsList(d.trace) /\ Once(W, d) /\ AuthInv(W, d)
      /\ \A i \in DOMAIN d.trace: d.trace[i].source.kind = "key" => d.trace[i].source.path \in own
      /\ \A i \in 1 .. Len(d.plan): d.plan[i].kind \in {"file", "default"} => d.plan[i].path \in own
  BY <1>1 DEF DialOK, TryInv, OwnInv
<1>w. IsList(W.sockets)
  BY WorldIs
<1>4. s.path \in own
  <2>1. IsList(d.plan)
    BY <1>3 DEF AuthInv
  <2>2. 1 \in 1 .. Len(d.plan)
    BY <1>2, <2>1, ListFacts
  <2> QED
    BY <1>1, <1>2, <1>3, <2>2
<1>5. key = KeyIn(W, s.path)
  BY DEF KeyAt, KeyIn
\* The next key is done, or it won.
<1>6. ASSUME NEW e, Tries(d, e), e.stage = "auth", NEW outcome, NEW why, NEW x, x = Attempt(KeyFile(s.path), outcome, why),
             e.trace = Append(d.trace, x), e.plan = Tail(d.plan), e.tried = d.tried \cup {s.path},
             e.sockets = d.sockets, e.cut = d.cut, e.until = d.until, dial' = [dial EXCEPT ![p] = e],
             \/ s.path \in d.tried /\ why = "duplicate"
             \/ s.path \notin d.tried /\ (key = "accepted" => why = "timeout")
      PROVE  Sound(p)
  <2>1. Grows(d, e, x) /\ x.source = KeyFile(s.path) /\ x.why = why
    BY <1>3, <1>6 DEF Grows, Attempt
  <2>2. x.source.kind = "key" /\ x.source.path = s.path
    BY <2>1 DEF KeyFile, Step
  <2> HIDE DEF d, s, key, own
  <2>3. IsList(e.trace)
    BY <2>1, Grown
  <2>4. Once(W, e)
    BY <1>3, <1>6, <2>1, KeyOnce
  <2>5. \A i \in DOMAIN e.trace: e.trace[i].source.kind = "key" => e.trace[i].source.path \in own
    BY <1>3, <1>4, <2>1, <2>2, OwnGrown
  <2>6. Stays(d, e)
    BY <1>6 DEF Stays, Tries
  <2>7. AuthInv(W, e)
    <3>1. /\ d.plan[1].kind \in {"file", "default"} /\ x.source = KeyFile(d.plan[1].path)
          /\ e.tried = d.tried \cup {d.plan[1].path}
      BY <1>1, <1>2, <1>6, <2>1
    <3>2. \/ d.plan[1].path \in d.tried /\ x.why = "duplicate"
          \/ d.plan[1].path \notin d.tried /\ (KeyIn(W, d.plan[1].path) = "accepted" => x.why = "timeout")
      BY <1>2, <1>5, <1>6, <2>1
    <3> QED
      BY <1>2, <1>3, <1>6, <1>w, <2>1, <2>6, <3>1, <3>2, KeyTried
  <2>8. DialOK(W, config, e)
    BY <1>1, <1>2, <1>6, <2>3, <2>4, <2>5, <2>7, TriedOK DEF own
  <2> QED
    BY <1>6, <2>8 DEF Sound
<1>7. ASSUME NEW e, Tries(d, e), e.stage = "sftp", NEW outcome, NEW why, NEW x, x = Attempt(KeyFile(s.path), outcome, why),
             e.trace = Append(d.trace, x), s.path \notin d.tried, dial' = [dial EXCEPT ![p] = e]
      PROVE  Sound(p)
  <2>1. Grows(d, e, x) /\ x.source = KeyFile(s.path)
    BY <1>3, <1>7 DEF Grows, Attempt
  <2>2. x.source.kind = "key" /\ x.source.path = s.path
    BY <2>1 DEF KeyFile, Step
  <2> HIDE DEF d, s, key, own
  <2>3. IsList(e.trace)
    BY <2>1, Grown
  <2>4. Once(W, e)
    BY <1>3, <1>7, <2>1, KeyOnce
  <2>5. \A i \in DOMAIN e.trace: e.trace[i].source.kind = "key" => e.trace[i].source.path \in own
    BY <1>3, <1>4, <2>1, <2>2, OwnGrown
  <2>6. DialOK(W, config, e)
    BY <1>1, <1>7, <2>3, <2>4, <2>5, TriedOK DEF own
  <2> QED
    BY <1>7, <2>6 DEF Sound
<1>8. CASE Skips(d, s)
  <2> DEFINE x == Attempt(KeyFile(s.path), "skipped", "duplicate")
             e == Rejected(Recorded(d, KeyFile(s.path), "skipped", "duplicate"))
  <2>1. /\ Tries(d, e) /\ e.stage = "auth" /\ e.trace = Append(d.trace, x) /\ e.plan = Tail(d.plan) /\ e.tried = d.tried
        /\ e.sockets = d.sockets /\ e.cut = d.cut /\ e.until = d.until
    BY <1>1 DEF DialFields, Tries, Rejected, Recorded
  <2>2. dial' = [dial EXCEPT ![p] = e]
    BY <1>8 DEF TriesKey, Becomes
  <2>3. s.path \in d.tried
    BY <1>8 DEF Skips
  <2>4. e.tried = d.tried \cup {s.path}
    BY <2>1, <2>3
  <2> HIDE DEF e
  <2> QED
    BY <1>6, <2>1, <2>2, <2>3, <2>4
<1>9. CASE ~Skips(d, s)
  <2>0. s.path \notin d.tried
    BY <1>9 DEF Skips
  <2>1. PICK delay:
           LET a == Await(d, delay, AUTH_TIMEOUT)
               e == [d EXCEPT !.clock = a.at, !.tried = @ \cup {s.path}]
           IN  IF a.end = "cut" THEN Fails(p, e, "chain")
               ELSE /\ Becomes(p, IF a.end = "late" THEN Rejected(Recorded(e, KeyFile(s.path), "failed", "timeout")) ELSE
                                  CASE key = "accepted" -> Passed(Recorded(e, KeyFile(s.path), "used", "none"))
                                    [] key = "encrypted" -> Rejected(Recorded(e, KeyFile(s.path), "skipped", "encrypted"))
                                    [] OTHER -> Rejected(Recorded(e, KeyFile(s.path), "failed", key)))
                    /\ UNCHANGED sessions
    BY <1>9, Zenon DEF TriesKey
  <2> DEFINE a == Await(d, delay, AUTH_TIMEOUT)
             e == [d EXCEPT !.clock = a.at, !.tried = @ \cup {s.path}]
  <2>2. CASE a.end = "cut"
    <3>1. DOMAIN e = DialFields /\ Agrees(d, e)
      BY <1>1 DEF DialFields, Agrees
    <3>2. Fails(p, e, "chain")
      BY <2>1, <2>2
    <3> HIDE DEF e, d
    <3> QED
      BY <1>1, <3>1, <3>2, FailsSound DEF d, Later
  <2>3. CASE a.end # "cut"
    <3>1. \/ \E outcome, why: /\ dial' = [dial EXCEPT ![p] = Rejected(Recorded(e, KeyFile(s.path), outcome, why))]
                              /\ key = "accepted" => why = "timeout"
          \/ dial' = [dial EXCEPT ![p] = Passed(Recorded(e, KeyFile(s.path), "used", "none"))]
      <4>1. CASE a.end = "late"
        <5>1. dial' = [dial EXCEPT ![p] = Rejected(Recorded(e, KeyFile(s.path), "failed", "timeout"))]
          BY <2>1, <2>3, <4>1 DEF Becomes
        <5> QED
          BY <5>1
      <4>2. CASE a.end # "late" /\ key = "accepted"
        <5>1. dial' = [dial EXCEPT ![p] = Passed(Recorded(e, KeyFile(s.path), "used", "none"))]
          BY <2>1, <2>3, <4>2 DEF Becomes
        <5> QED
          BY <5>1
      <4>3. CASE a.end # "late" /\ key = "encrypted"
        <5>1. dial' = [dial EXCEPT ![p] = Rejected(Recorded(e, KeyFile(s.path), "skipped", "encrypted"))]
          BY <2>1, <2>3, <4>3 DEF Becomes
        <5> QED
          BY <4>3, <5>1
      <4>4. CASE a.end # "late" /\ key \notin {"accepted", "encrypted"}
        <5>1. dial' = [dial EXCEPT ![p] = Rejected(Recorded(e, KeyFile(s.path), "failed", key))]
          BY <2>1, <2>3, <4>4 DEF Becomes
        <5> QED
          BY <4>4, <5>1
      <4> QED
        BY <4>1, <4>2, <4>3, <4>4
    <3>2. ASSUME NEW outcome, NEW why, dial' = [dial EXCEPT ![p] = Rejected(Recorded(e, KeyFile(s.path), outcome, why))],
                 key = "accepted" => why = "timeout"
          PROVE  Sound(p)
      <4> DEFINE x == Attempt(KeyFile(s.path), outcome, why)
                 f == Rejected(Recorded(e, KeyFile(s.path), outcome, why))
      <4>1. /\ Tries(d, f) /\ f.stage = "auth" /\ f.trace = Append(d.trace, x) /\ f.plan = Tail(d.plan)
            /\ f.tried = d.tried \cup {s.path} /\ f.sockets = d.sockets /\ f.cut = d.cut /\ f.until = d.until
        BY <1>1 DEF DialFields, Tries, Rejected, Recorded
      <4>2. dial' = [dial EXCEPT ![p] = f]
        BY <3>2
      <4>3. s.path \notin d.tried /\ (key = "accepted" => why = "timeout")
        BY <2>0, <3>2
      <4>4. x = Attempt(KeyFile(s.path), outcome, why)
        OBVIOUS
      <4> HIDE DEF f, x, d, s, key
      <4> QED
        BY <1>6, <4>1, <4>2, <4>3, <4>4
    <3>3. ASSUME dial' = [dial EXCEPT ![p] = Passed(Recorded(e, KeyFile(s.path), "used", "none"))]
          PROVE  Sound(p)
      <4> DEFINE x == Attempt(KeyFile(s.path), "used", "none")
                 f == Passed(Recorded(e, KeyFile(s.path), "used", "none"))
      <4>1. Tries(d, f) /\ f.stage = "sftp" /\ f.trace = Append(d.trace, x)
        BY <1>1 DEF DialFields, Tries, Passed, Recorded
      <4>2. dial' = [dial EXCEPT ![p] = f]
        BY <3>3
      <4> HIDE DEF f
      <4> QED
        BY <1>7, <2>0, <4>1, <4>2
    <3> QED
      BY <3>1, <3>2, <3>3
  <2> QED
    BY <2>2, <2>3
<1> QED
  BY <1>8, <1>9

-----------------------------------------------------------------------------
(* All the steps together.                                                   *)

LEMMA DialsSound ==
    ASSUME TypeInv, DialInv, NEW p \in Callers, ClockOK(dial[p]), Dials(p)
    PROVE  Sound(p) /\ UNCHANGED <<scenario, config>>
<1>1. Sound(p)
  BY MergesSound, ResolvesSound, ProbesSound, HandshakesSound, DiscoversSound, TriesOnlySound, TriesAgentSound,
     TriesKeySound, GivesUpSound, OpensSftpSound DEF Dials
<1>2. UNCHANGED <<scenario, config>>
  BY DEF Dials, Merges, Resolves, Probes, Handshakes, Discovers, TriesOnly, TriesAgent, TriesKey, GivesUp, OpensSftp
<1> QED
  BY <1>1, <1>2

\* A caller that makes room, goes on after the chain, or ends.
Waits(d, e) ==
    \/ d.stage \in {"take", "dispose", "bye", "free"} /\ e.stage \in {"dispose", "bye", "free", "merge"}
    \/ e.stage = "idle"
    \/ d.stage = "raw" /\ e.stage = "stored"
Remains(d, e) == Agrees(d, e) /\ e.result = d.result /\ e.tried = d.tried /\ e.cut = d.cut

LEMMA WaitsSound ==
    ASSUME TypeInv, DialInv, NEW p \in Callers, NEW e, dial' = [dial EXCEPT ![p] = e], Remains(dial[p], e), Waits(dial[p], e)
    PROVE  Sound(p)
<1>1. DialOK(W, config, dial[p])
  BY DEF DialInv
<1>2. DialOK(W, config, e)
  BY <1>1, WaitsOK, GoesOnOK DEF Remains, Waits
<1> QED
  BY <1>2 DEF Sound

LEMMA CallerSound ==
    ASSUME TypeInv, DialInv, NEW p \in Callers, ClockOK(dial[p]), CallerStep(p)
    PROVE  Sound(p) /\ UNCHANGED <<scenario, config>>
<1>d. DOMAIN dial[p] = DialFields
  BY DEF TypeInv
<1>1. ASSUME Calls(p) PROVE Sound(p)
  <2> DEFINE call == todo[p][1]
             stage == IF call.op = "test" THEN "merge" ELSE "take"
             e == [Idle EXCEPT !.call = call, !.stage = stage]
  <2>1. dial' = [dial EXCEPT ![p] = e]
    BY <1>1 DEF Calls, Becomes
  <2>2. DialOK(W, config, e)
    BY BeginsOK
  <2> QED
    BY <2>1, <2>2 DEF Sound
<1>2. ASSUME Takes(p) PROVE Sound(p)
  <2> DEFINE e == [dial[p] EXCEPT !.stage = IF slot = 0 THEN "free" ELSE "dispose", !.session = slot]
  <2>1. dial' = [dial EXCEPT ![p] = e] /\ dial[p].stage = "take"
    BY <1>2 DEF Takes, Becomes, At
  <2>2. Remains(dial[p], e) /\ Waits(dial[p], e)
    BY <1>d, <2>1 DEF Remains, Waits, Agrees, DialFields
  <2> QED
    BY <2>1, <2>2, WaitsSound
<1>3. ASSUME Disposes(p) PROVE Sound(p)
  <2> DEFINE e == [dial[p] EXCEPT !.stage = "bye"]
  <2>1. dial' = [dial EXCEPT ![p] = e] /\ dial[p].stage = "dispose"
    BY <1>3 DEF Disposes, Becomes, At
  <2>2. Remains(dial[p], e) /\ Waits(dial[p], e)
    BY <1>d, <2>1 DEF Remains, Waits, Agrees, DialFields
  <2> QED
    BY <2>1, <2>2, WaitsSound
<1>4. ASSUME Disconnects(p) PROVE Sound(p)
  <2> DEFINE e == [dial[p] EXCEPT !.stage = "free", !.session = 0]
  <2>1. dial' = [dial EXCEPT ![p] = e] /\ dial[p].stage = "bye"
    BY <1>4 DEF Disconnects, Becomes, At
  <2>2. Remains(dial[p], e) /\ Waits(dial[p], e)
    BY <1>d, <2>1 DEF Remains, Waits, Agrees, DialFields
  <2> QED
    BY <2>1, <2>2, WaitsSound
<1>i. ASSUME Ends(p) PROVE Sound(p)
  <2> DEFINE e == [dial[p] EXCEPT !.stage = "idle"]
  <2>1. dial' = [dial EXCEPT ![p] = e]
    BY <1>i DEF Ends, Becomes
  <2>2. Remains(dial[p], e) /\ Waits(dial[p], e)
    BY <1>d, <2>1 DEF Remains, Waits, Agrees, DialFields
  <2> QED
    BY <2>1, <2>2, WaitsSound
<1>5. ASSUME Proceeds(p) PROVE Sound(p)
  <2> DEFINE e == [dial[p] EXCEPT !.stage = "merge"]
  <2>1. Ends(p) \/ (dial' = [dial EXCEPT ![p] = e] /\ dial[p].stage = "free")
    BY <1>5 DEF Proceeds, Becomes, At
  <2>2. dial[p].stage = "free" => Remains(dial[p], e) /\ Waits(dial[p], e)
    BY <1>d, <2>1 DEF Remains, Waits, Agrees, DialFields
  <2> QED
    BY <1>i, <2>1, <2>2, WaitsSound
<1>6. ASSUME Stores(p) PROVE Sound(p)
  <2> DEFINE projects == RemoteProjects(HomeOf(dial[p].cfg.user), dial[p].cfg.user)
             e == [dial[p] EXCEPT !.stage = "stored", !.projects = projects]
  <2>1. dial' = [dial EXCEPT ![p] = e] /\ dial[p].stage = "raw"
    BY <1>6 DEF Stores, Becomes, At
  <2> HIDE DEF projects
  <2>2. Remains(dial[p], e) /\ Waits(dial[p], e)
    BY <1>d, <2>1 DEF Remains, Waits, Agrees, DialFields
  <2> QED
    BY <2>1, <2>2, WaitsSound
<1>7. ASSUME Connected(p) \/ ReportsFailure(p) \/ EndsTest(p) PROVE Sound(p)
  BY <1>7, <1>i DEF Connected, ReportsFailure, EndsTest
<1>8. ASSUME Dialing(p) PROVE Sound(p) /\ UNCHANGED <<scenario, config>>
  BY <1>8, DialsSound DEF Dialing
<1>9. ~Dialing(p) => UNCHANGED <<scenario, config>>
  BY DEF CallerStep, Calls, Takes, Disposes, Disconnects, Proceeds, Stores, Connected, ReportsFailure, EndsTest
<1> QED
  BY <1>1, <1>2, <1>3, <1>4, <1>5, <1>6, <1>7, <1>8, <1>9 DEF CallerStep

LEMMA DialInvInit ==
    ASSUME Init
    PROVE  DialInv
<1>1. scenario.config \in Seq(ConfigLine)
  BY ConnectAssumption DEF Init
<1>2. IsParser(config)
  BY <1>1, ExpandedTyped DEF Init, IsParser, Parser, ParserOf
<1>3. ASSUME NEW p \in Callers PROVE DialOK(W, config, dial[p])
  BY BeginsOK DEF Init
<1> QED
  BY <1>2, <1>3 DEF DialInv

LEMMA DialInvStep ==
    ASSUME TypeInv, ClockInv, DialInv, [Next]_vars
    PROVE  DialInv'
<1>1. ASSUME NEW p \in Callers, CallerStep(p) PROVE DialInv'
  <2>1. Sound(p) /\ UNCHANGED <<scenario, config>>
    BY <1>1, CallerSound DEF ClockInv
  <2>2. PICK e : dial' = [dial EXCEPT ![p] = e] /\ DialOK(W, config, e)
    BY <2>1 DEF Sound
  <2>3. W' = W /\ config' = config
    BY <2>1 DEF W
  <2>4. ASSUME NEW q \in Callers PROVE DialOK(W, config, dial'[q])
    <3>1. CASE q = p
      BY <2>2, <3>1 DEF TypeInv
    <3>2. CASE q # p
      BY <2>2, <3>2 DEF TypeInv, DialInv
    <3> QED
      BY <3>1, <3>2
  <2> QED
    BY <2>3, <2>4 DEF DialInv
<1>2. ASSUME UNCHANGED <<scenario, config, dial>> PROVE DialInv'
  <2>1. W' = W
    BY <1>2 DEF W
  <2> QED
    BY <1>2, <2>1 DEF DialInv
<1>3. ASSUME NEW i \in Ids, MonitorStep(i) \/ Dies(i) PROVE UNCHANGED <<scenario, config, dial>>
  BY <1>3 DEF MonitorStep, Watches, Claims, ClosesSftp, TellsLoss, Dies
<1> QED
  BY <1>1, <1>2, <1>3 DEF Next, vars

-----------------------------------------------------------------------------
(* How many sessions there are: no call opens two.                          *)

\* The numbers up to one are finitely many.
LEMMA UpToFinite ==
    ASSUME NEW n \in Int
    PROVE  IsFiniteSet(1 .. n)
<1>1. 1 \in Int
  OBVIOUS
<1> QED
  BY <1>1, FS_Interval

\* So are the calls of a scenario.
LEMMA CallsFinite ==
    ASSUME NEW s, s.calls \in [Callers -> Seq(Call)]
    PROVE  IsFiniteSet(CallsOf(s))
<1> DEFINE Of(p) == {p} \X (1 .. Len(s.calls[p]))
           f == [p \in Callers |-> Of(p)]
           S == {Of(p) : p \in Callers}
<1>1. f \in Surjection(Callers, S)
  BY DEF Surjection
<1>2. IsFiniteSet(Callers)
  BY ConnectAssumption
<1>3. IsFiniteSet(S)
  <2> HIDE DEF f, S
  <2> QED
    BY <1>1, <1>2, FS_Surjection
<1>4. ASSUME NEW p \in Callers PROVE IsFiniteSet(Of(p))
  <2>1. IsFiniteSet({p})
    BY FS_Singleton
  <2>2. Len(s.calls[p]) \in Int
    OBVIOUS
  <2>3. IsFiniteSet(1 .. Len(s.calls[p]))
    BY <2>2, UpToFinite
  <2> QED
    BY <2>1, <2>3, FS_Product
<1>5. IsFiniteSet(UNION S)
  <2>1. \A T \in S: IsFiniteSet(T)
    BY <1>4
  <2> HIDE DEF S
  <2> QED
    BY <1>3, <2>1, FS_UNION
<1> QED
  BY <1>5 DEF CallsOf

\* The call of a caller that has not opened its session yet, or the one after.
Before == {"take", "dispose", "bye", "free", "merge", "resolve", "probe", "handshake"}
Made(p) == Len(scenario.calls[p]) - Len(todo[p])
FirstOpen(p) == IF dial[p].stage \in Before THEN Made(p) ELSE Made(p) + 1
CanOpen == {c \in CallsOf(scenario): FirstOpen(c[1]) <= c[2]}

CountInv ==
    /\ \A p \in Callers: Len(todo[p]) <= Len(scenario.calls[p]) /\ (dial[p].stage \in Before => Made(p) >= 1)
    /\ Cardinality(CanOpen) + Len(sessions) <= Cardinality(CallsOf(scenario))

\* These are numbers, and the calls fit the bound.
Counts ==
    /\ scenario.calls \in [Callers -> Seq(Call)]
    /\ IsFiniteSet(CallsOf(scenario)) /\ IsFiniteSet(CanOpen)
    /\ Cardinality(CallsOf(scenario)) \in Nat /\ Cardinality(CanOpen) \in Nat
    /\ Cardinality(CallsOf(scenario)) <= MaxSessions
    /\ \A p \in Callers: Made(p) \in Int /\ FirstOpen(p) \in Int /\ Len(todo[p]) \in Nat

LEMMA NumbersOfCalls == TypeInv => Counts
<1> SUFFICES ASSUME TypeInv PROVE Counts
  OBVIOUS
<1>1. scenario.calls \in [Callers -> Seq(Call)] /\ Cardinality(CallsOf(scenario)) <= MaxSessions
  BY ConnectAssumption DEF TypeInv
<1>2. IsFiniteSet(CallsOf(scenario))
  BY <1>1, CallsFinite
<1>3. CanOpen \in SUBSET CallsOf(scenario)
  BY DEF CanOpen
<1>4. IsFiniteSet(CanOpen)
  BY <1>2, <1>3, FS_Subset
<1>5. \A p \in Callers: Made(p) \in Int /\ Len(todo[p]) \in Nat
  BY <1>1 DEF Made, TypeInv
<1>6. \A p \in Callers: FirstOpen(p) \in Int
  BY <1>5 DEF FirstOpen
<1> QED
  BY <1>1, <1>2, <1>4, <1>5, <1>6, FS_CardinalityType DEF Counts

\* Nothing that can still be opened is new, and the session that was opened
\* cannot be opened again.
LEMMA CountKept ==
    ASSUME TypeInv, TypeInv', CountInv, UNCHANGED scenario,
           \A p \in Callers: /\ Len(todo'[p]) <= Len(todo[p])
                             /\ FirstOpen(p) <= FirstOpen(p)'
                             /\ dial'[p].stage \in Before => Made(p)' >= 1,
           \/ Len(sessions') = Len(sessions)
           \/ /\ Len(sessions') = Len(sessions) + 1
              /\ \E p \in Callers: dial[p].stage \in Before /\ FirstOpen(p)' > Made(p)
    PROVE  CountInv'
<1>c. Counts /\ Counts'
  BY NumbersOfCalls, PTL
<1>1. /\ scenario.calls \in [Callers -> Seq(Call)] /\ CallsOf(scenario') = CallsOf(scenario)
      /\ IsFiniteSet(CanOpen) /\ Cardinality(CanOpen) \in Nat /\ Cardinality(CanOpen') \in Nat
      /\ Cardinality(CallsOf(scenario)) \in Nat
  BY <1>c DEF Counts
<1>2. \A p \in Callers: /\ Made(p) \in Int /\ FirstOpen(p) \in Int /\ Len(todo[p]) \in Nat
                        /\ Made(p)' \in Int /\ FirstOpen(p)' \in Int /\ Len(todo'[p]) \in Nat
  BY <1>c DEF Counts
<1>3. CanOpen' \subseteq CanOpen
  <2>1. ASSUME NEW c \in CallsOf(scenario), FirstOpen(c[1])' <= c[2] PROVE FirstOpen(c[1]) <= c[2]
    <3>1. c[1] \in Callers /\ c[2] \in Nat
      BY <1>1 DEF CallsOf
    <3> QED
      BY <1>2, <2>1, <3>1
  <2> QED
    BY <1>1, <2>1 DEF CanOpen
<1>4. Cardinality(CanOpen') <= Cardinality(CanOpen)
  BY <1>1, <1>3, FS_Subset
<1>5. Cardinality(CanOpen') + Len(sessions') <= Cardinality(CanOpen) + Len(sessions)
  <2>0. Len(sessions) \in Nat
    BY DEF TypeInv
  <2>1. CASE Len(sessions') = Len(sessions)
    BY <1>1, <1>4, <2>0, <2>1
  <2>2. ASSUME Len(sessions') = Len(sessions) + 1,
               NEW p \in Callers, dial[p].stage \in Before, FirstOpen(p)' > Made(p)
        PROVE  Cardinality(CanOpen') + Len(sessions') <= Cardinality(CanOpen) + Len(sessions)
    <3> DEFINE c == <<p, Made(p)>>
    <3>1. Made(p) \in 1 .. Len(scenario.calls[p])
      <4>1. Made(p) >= 1 /\ Len(todo[p]) \in Nat /\ Len(scenario.calls[p]) \in Nat
        BY <1>1, <1>2, <2>2 DEF CountInv
      <4>2. Made(p) = Len(scenario.calls[p]) - Len(todo[p])
        BY DEF Made
      <4>3. \A k, l \in Nat: k - l >= 1 => k - l \in 1 .. k
        OBVIOUS
      <4> HIDE DEF c
      <4> QED
        BY <4>1, <4>2, <4>3
    <3>2. c \in CallsOf(scenario) /\ c[1] = p /\ c[2] = Made(p)
      BY <3>1 DEF CallsOf
    <3>3. c \in CanOpen
      BY <1>2, <2>2, <3>2 DEF CanOpen, FirstOpen
    <3>4. c \notin CanOpen'
      BY <1>2, <2>2, <3>2 DEF CanOpen
    <3> HIDE DEF c
    <3>5. CanOpen' \in SUBSET (CanOpen \ {c})
      BY <1>3, <3>4
    <3>6. IsFiniteSet(CanOpen \ {c}) /\ Cardinality(CanOpen \ {c}) = Cardinality(CanOpen) - 1
      BY <1>1, <3>3, FS_RemoveElement
    <3>7. Cardinality(CanOpen') <= Cardinality(CanOpen \ {c})
      BY <3>5, <3>6, FS_Subset
    <3> QED
      BY <1>1, <2>0, <2>2, <3>6, <3>7
  <2> QED
    BY <2>1, <2>2
<1>6. \A p \in Callers: Len(todo'[p]) <= Len(scenario'.calls[p])
  <2>1. \A p \in Callers: Len(scenario.calls[p]) \in Nat
    BY <1>1
  <2> QED
    BY <1>2, <2>1 DEF CountInv
<1> HIDE DEF CanOpen
<1>7. Len(sessions) \in Nat /\ Len(sessions') \in Nat
  BY DEF TypeInv
<1>8. Cardinality(CanOpen') + Len(sessions') <= Cardinality(CallsOf(scenario'))
  BY <1>1, <1>5, <1>7 DEF CountInv
<1> QED
  BY <1>6, <1>8 DEF CountInv

\* Only one step opens a session, and only a call has a caller begin.
LEMMA OpensOne ==
    ASSUME TypeInv, TypeInv', CountInv, NEW p \in Callers,
           \A q \in Callers: q # p => dial'[q] = dial[q], UNCHANGED <<scenario, todo>>,
           dial'[p].stage \in Before => dial[p].stage \in Before,
           \/ Len(sessions') = Len(sessions)
           \/ Len(sessions') = Len(sessions) + 1 /\ dial[p].stage \in Before /\ dial'[p].stage \notin Before
    PROVE  CountInv'
<1>1. \A q \in Callers: Made(q)' = Made(q) /\ Made(q) \in Int /\ Len(todo'[q]) <= Len(todo[q])
  BY NumbersOfCalls DEF Counts, Made
<1>2. \A q \in Callers: FirstOpen(q) <= FirstOpen(q)'
  BY <1>1 DEF FirstOpen
<1>3. \A q \in Callers: dial'[q].stage \in Before => Made(q)' >= 1
  BY <1>1 DEF CountInv
<1>4. dial[p].stage \in Before /\ dial'[p].stage \notin Before => FirstOpen(p)' > Made(p)
  BY <1>1 DEF FirstOpen
<1> QED
  BY <1>1, <1>2, <1>3, <1>4, CountKept

LEMMA CountInvInit ==
    ASSUME Init, TypeInv
    PROVE  CountInv
<1>1. /\ scenario.calls \in [Callers -> Seq(Call)] /\ todo = scenario.calls /\ sessions = <<>>
      /\ \A p \in Callers: dial[p].stage = "idle"
  BY NumbersOfCalls DEF Counts, Init, Idle
<1>2. CanOpen \in SUBSET CallsOf(scenario) /\ Len(sessions) = 0
  BY <1>1 DEF CanOpen
<1>3. Cardinality(CanOpen) <= Cardinality(CallsOf(scenario)) /\ Cardinality(CanOpen) \in Nat
  BY <1>2, NumbersOfCalls, FS_Subset DEF Counts
<1> QED
  BY <1>1, <1>2, <1>3 DEF CountInv, Before

LEMMA CallerCounts ==
    ASSUME TypeInv, TypeInv', CountInv, NEW p \in Callers, CallerStep(p)
    PROVE  CountInv'
<1>d. DOMAIN dial = Callers /\ DOMAIN dial[p] = DialFields
  BY DEF TypeInv
<1>t. Len(sessions) \in Nat
  BY DEF TypeInv
<1>1. CASE Calls(p)
  <2>1. PICK call, stage: /\ dial' = [dial EXCEPT ![p] = [Idle EXCEPT !.call = call, !.stage = stage]]
                          /\ stage \in {"merge", "take"}
    BY <1>1 DEF Calls, Becomes
  <2>2. UNCHANGED <<scenario, sessions>> /\ todo[p] # <<>> /\ todo' = [todo EXCEPT ![p] = Tail(@)] /\ dial[p].stage = "idle"
    BY <1>1 DEF Calls, At
  <2>3. dial'[p].stage \in Before /\ dial[p].stage \notin Before /\ \A q \in Callers: q # p => dial'[q] = dial[q]
    BY <1>d, <2>1, <2>2 DEF Idle, Before
  <2>4. Len(todo'[p]) = Len(todo[p]) - 1 /\ Len(todo[p]) \in Nat
    BY <2>2 DEF TypeInv
  <2>5. \A q \in Callers: q # p => todo'[q] = todo[q]
    BY <2>2 DEF TypeInv
  <2>6. ASSUME NEW q \in Callers, q # p PROVE Made(q)' = Made(q) /\ FirstOpen(q)' = FirstOpen(q)
    <3>1. Made(q)' = Made(q)
      BY <2>2, <2>5, <2>6 DEF Made
    <3> QED
      BY <2>3, <2>6, <3>1 DEF FirstOpen
  <2>7. Len(scenario.calls[p]) \in Nat
    BY NumbersOfCalls DEF Counts
  <2>8. Made(p)' = Made(p) + 1 /\ Made(p) \in Int /\ Made(p)' >= 1
    <3>1. Len(todo[p]) <= Len(scenario.calls[p])
      BY DEF CountInv
    <3>2. Made(p) = Len(scenario.calls[p]) - Len(todo[p]) /\ Made(p)' = Len(scenario.calls[p]) - Len(todo'[p])
      BY <2>2 DEF Made
    <3> QED
      BY <2>4, <2>7, <3>1, <3>2
  <2>9. FirstOpen(p)' = FirstOpen(p)
    BY <2>3, <2>8 DEF FirstOpen
  <2>10. \A q \in Callers: FirstOpen(q) \in Int /\ Len(todo[q]) \in Nat
    BY NumbersOfCalls DEF Counts
  <2> QED
    <3>1. ASSUME NEW q \in Callers
          PROVE  /\ Len(todo'[q]) <= Len(todo[q])
                 /\ FirstOpen(q) <= FirstOpen(q)'
                 /\ dial'[q].stage \in Before => Made(q)' >= 1
      <4>1. CASE q = p
        BY <2>4, <2>8, <2>9, <2>10, <4>1
      <4>2. CASE q # p
        BY <2>3, <2>5, <2>6, <2>10, <4>2 DEF CountInv
      <4> QED
        BY <4>1, <4>2
    <3> QED
      BY <2>2, <3>1, CountKept
<1>2. CASE Dialing(p)
  <2>1. PICK e : DialStep(p, e) /\ UNCHANGED <<scenario, todo>>
    BY <1>2, DialsStep DEF Dialing, linkVars
  <2>2. dial'[p] = e /\ \A q \in Callers: q # p => dial'[q] = dial[q]
    BY <1>d, <2>1 DEF DialStep
  <2>3. CASE Opens(p, dial[p], e)
    <3>1. Len(sessions') = Len(sessions) + 1
      BY <2>3 DEF Opens, TypeInv
    <3> QED
      BY <2>1, <2>2, <2>3, <3>1, OpensOne DEF Opens, Before
  <2>4. CASE GivesIn(p, dial[p], e)
    <3>1. Len(sessions') = Len(sessions)
      BY <2>4 DEF GivesIn, DropSession, TypeInv
    <3> QED
      BY <2>1, <2>2, <2>4, <3>1, OpensOne DEF GivesIn, Before
  <2>5. CASE GoesOn(dial[p], e)
    <3>1. Len(sessions') = Len(sessions)
      BY <2>5 DEF GoesOn
    <3> QED
      BY <2>1, <2>2, <2>5, <3>1, OpensOne DEF GoesOn, Before
  <2> QED
    BY <2>1, <2>3, <2>4, <2>5 DEF DialStep
<1>3. ASSUME NEW stage, NEW session, Turns(p, stage, session), UNCHANGED <<scenario, todo>>,
             stage \in Before => dial[p].stage \in Before, Len(sessions') = Len(sessions)
      PROVE  CountInv'
  BY <1>3, OpensOne DEF Turns
<1>l. ASSUME NEW i, NEW r, sessions' = [sessions EXCEPT ![i] = r] PROVE Len(sessions') = Len(sessions)
  BY <1>l DEF TypeInv
<1>4. CASE Takes(p)
  <2>1. /\ Turns(p, IF slot = 0 THEN "free" ELSE "dispose", slot) /\ UNCHANGED <<scenario, todo>> /\ dial[p].stage = "take"
    BY <1>4, TurnSession DEF Takes, At
  <2>2. Len(sessions') = Len(sessions)
    BY <1>4 DEF Takes, TypeInv
  <2> QED
    BY <1>3, <2>1, <2>2 DEF Before
<1>5. CASE Disposes(p)
  <2>1. Turns(p, "bye", dial[p].session) /\ UNCHANGED <<scenario, todo>> /\ dial[p].stage = "dispose"
    BY <1>5, Turn DEF Disposes, At, linkVars
  <2>2. Len(sessions') = Len(sessions)
    BY <1>5 DEF Disposes, TypeInv
  <2> QED
    BY <1>3, <2>1, <2>2 DEF Before
<1>6. CASE Disconnects(p)
  <2>1. Turns(p, "free", 0) /\ UNCHANGED <<scenario, todo>> /\ dial[p].stage = "bye"
    BY <1>6, TurnSession DEF Disconnects, At
  <2>2. Len(sessions') = Len(sessions)
    BY <1>6 DEF Disconnects, TypeInv
  <2> QED
    BY <1>3, <2>1, <2>2 DEF Before
<1>7. CASE Proceeds(p)
  <2>1. /\ Turns(p, "idle", dial[p].session) \/ Turns(p, "merge", dial[p].session)
        /\ UNCHANGED <<scenario, todo, sessions>> /\ dial[p].stage = "free"
    BY <1>7, Turn DEF Proceeds, At, Ends
  <2> QED
    BY <1>3, <2>1 DEF Before
<1>8. CASE ReportsFailure(p) \/ Connected(p)
  <2>1. Turns(p, "idle", dial[p].session) /\ UNCHANGED <<scenario, todo, sessions>>
    BY <1>8, Turn DEF ReportsFailure, Connected, Ends
  <2> QED
    BY <1>3, <2>1 DEF Before
<1>9. CASE EndsTest(p)
  <2>1. Turns(p, "idle", dial[p].session) /\ UNCHANGED <<scenario, todo>>
    BY <1>9, Turn DEF EndsTest, Ends
  <2>2. Len(sessions') = Len(sessions)
    BY <1>9 DEF EndsTest, TypeInv
  <2> QED
    BY <1>3, <2>1, <2>2 DEF Before
<1>10. CASE Stores(p)
  <2> DEFINE projects == RemoteProjects(HomeOf(dial[p].cfg.user), dial[p].cfg.user)
  <2>1. /\ Becomes(p, [dial[p] EXCEPT !.stage = "stored", !.projects = projects])
        /\ UNCHANGED <<scenario, todo>> /\ DOMAIN sessions' = DOMAIN sessions
    BY <1>10 DEF Stores, Ids
  <2> HIDE DEF projects
  <2>2. Turns(p, "stored", dial[p].session)
    BY <2>1, TurnProjects
  <2>3. Len(sessions') = Len(sessions)
    BY <2>1 DEF TypeInv
  <2> QED
    BY <1>3, <2>1, <2>2, <2>3 DEF Before
<1> QED
  BY <1>1, <1>2, <1>4, <1>5, <1>6, <1>7, <1>8, <1>9, <1>10 DEF CallerStep

LEMMA CountInvStep ==
    ASSUME TypeInv, TypeInv', CountInv, [Next]_vars
    PROVE  CountInv'
<1>1. ASSUME UNCHANGED <<scenario, dial, todo>>, Len(sessions') = Len(sessions) PROVE CountInv'
  <2>1. CanOpen' = CanOpen /\ \A p \in Callers: Made(p)' = Made(p)
    BY <1>1 DEF CanOpen, FirstOpen, Made
  <2> QED
    BY <1>1, <2>1 DEF CountInv
<1>2. ASSUME NEW i \in Ids, MonitorStep(i) \/ Dies(i) PROVE UNCHANGED <<scenario, dial, todo>> /\ Len(sessions') = Len(sessions)
  <2>1. UNCHANGED <<scenario, dial, todo>>
    BY <1>2 DEF MonitorStep, Watches, Claims, ClosesSftp, TellsLoss, Dies, linkVars
  <2>2. Len(sessions') = Len(sessions)
    BY <1>2 DEF MonitorStep, Watches, Wakes, Checks, ProbesSftp, Goes, Claims, ClosesSftp, TellsLoss, Dies, TypeInv
  <2> QED
    BY <2>1, <2>2
<1> QED
  BY <1>1, <1>2, CallerCounts DEF Next, vars, linkVars

-----------------------------------------------------------------------------
(* What is proved of the attempts.                                          *)

LEMMA AuthInvariant == Spec => [](Inv /\ ClockInv /\ DialInv /\ CountInv)
<1>1. Spec => [](Inv /\ ClockInv)
  BY InitInv, NextInv, PTL DEF Spec
<1>2. Inv => TypeInv
  BY DEF Inv
<1>3. Init => DialInv
  BY DialInvInit
<1>4. Init /\ TypeInv => CountInv
  BY CountInvInit
<1>5. TypeInv /\ ClockInv /\ DialInv /\ [Next]_vars => DialInv'
  BY DialInvStep
<1>6. TypeInv /\ TypeInv' /\ CountInv /\ [Next]_vars => CountInv'
  BY CountInvStep
<1> QED
  BY <1>1, <1>2, <1>3, <1>4, <1>5, <1>6, PTL DEF Spec

\* The report of an attempt, in the words of the properties.
LEMMA TheReport ==
    ASSUME NEW p \in Callers, NEW source
    PROVE  /\ Reported(p, source) # {} <=> Told(dial[p], source)
           /\ (\E e \in Reported(p, source): e.why = "timeout") <=> TooLong(dial[p], source)
BY DEF Reported, Entries, ToSet, Told, TooLong

LEMMA SameAgents ==
    ASSUME NEW d
    PROVE  Agents(d) = OfAgents(W, d) /\ Keys(d) = OfKeys(W, d)
BY DiscoveredAre DEF Agents, OfAgents, ToAgents, Keys, OfKeys

LEMMA ClockBounds == ClockInv => AttemptIsBounded
<1> SUFFICES ASSUME ClockInv, NEW p \in Callers
             PROVE  /\ dial[p].clock <= 2 * SSH_G_TIMEOUT + TCP_PROBE_TIMEOUT + CONNECT_CHAIN_TIMEOUT
                    /\ dial[p].deadline > 0 => dial[p].clock <= dial[p].deadline
  BY DEF AttemptIsBounded
<1>1. ClockOK(dial[p])
  BY DEF ClockInv
<1> QED
  BY <1>1 DEF ClockOK, Bound

LEMMA AttemptsAre ==
    ASSUME Inv, ClockInv, DialInv, CountInv
    PROVE  AttemptsAreSound
<1>1. TypeOK
  <2>1. Len(sessions) <= MaxSessions
    <3>1. Counts /\ Len(sessions) \in Nat
      BY NumbersOfCalls DEF Inv, TypeInv
    <3> QED
      BY <3>1, ConnectAssumption DEF Counts, CountInv
  <2>2. \A p \in Callers: dial[p].clock \in Nat
    BY DEF ClockInv, ClockOK
  <2> QED
    BY <2>1, <2>2 DEF TypeOK, Inv, TypeInv, LockInv, At
<1>2. NothingOfferedTwice
  <2>1. \A source: Place(source) = PlaceIn(W, source)
    BY DEF Place, PlaceIn
  <2>2. \A p \in Callers: Once(W, dial[p])
    BY DEF DialInv, DialOK, TryInv
  <2> QED
    BY <2>1, <2>2 DEF NothingOfferedTwice, Once
<1>3. ASSUME NEW p \in Callers, dial[p].result = "auth" PROVE Satisfied(W, dial[p])
  BY <1>3 DEF DialInv, DialOK, TryInv
<1>4. WhatWorksIsTried
  <2> SUFFICES ASSUME NEW p \in Callers, dial[p].result = "auth"
               PROVE  LET d == dial[p]
                          TooLate(source) == \E e \in Reported(p, source): e.why = "timeout"
                      IN  /\ \A k \in Keys(d): KeyAt(k) = "accepted" => TooLate(KeyFile(k))
                          /\ \A a \in Agents(d): W.home /\ W.agent[a].listens /\ AgentAccepts(W.agent[a]) => TooLate(Socket(a)) \/ d.cut
                          /\ d.cut => Cardinality({a \in Agents(d): Reported(p, Socket(a)) # {}}) >= AUTH_TIMEOUT \div AGENT_CANDIDATE_TIMEOUT
    BY DEF WhatWorksIsTried
  <2>1. \A k \in Keys(dial[p]): KeyAt(k) = "accepted" => \E e \in Reported(p, KeyFile(k)): e.why = "timeout"
    BY <1>3, SameAgents, TheReport DEF Satisfied, KeyTold, KeyAt, KeyIn
  <2>2. \A a \in Agents(dial[p]): W.home /\ W.agent[a].listens /\ AgentAccepts(W.agent[a]) =>
           (\E e \in Reported(p, Socket(a)): e.why = "timeout") \/ dial[p].cut
    BY <1>3, SameAgents, TheReport DEF Satisfied, AgentTold, Works
  <2>3. {a \in Agents(dial[p]): Reported(p, Socket(a)) # {}} = {a \in OfAgents(W, dial[p]): Told(dial[p], Socket(a))}
    BY SameAgents, TheReport
  <2>4. dial[p].cut => Cardinality({a \in Agents(dial[p]): Reported(p, Socket(a)) # {}}) >= AUTH_TIMEOUT \div AGENT_CANDIDATE_TIMEOUT
    BY <1>3, <2>3 DEF Satisfied, ManyTold
  <2> QED
    BY <2>1, <2>2, <2>4
<1>5. FailureTellsAll
  <2> SUFFICES ASSUME NEW p \in Callers, dial[p].result = "auth"
               PROVE  /\ \A k \in Keys(dial[p]): Reported(p, KeyFile(k)) # {}
                      /\ W.home => \A a \in Agents(dial[p]): Reported(p, Socket(a)) # {} \/ dial[p].cut
    BY DEF FailureTellsAll
  <2>1. \A k \in Keys(dial[p]): Reported(p, KeyFile(k)) # {}
    BY <1>3, SameAgents, TheReport DEF Satisfied, KeyTold
  <2>2. W.home => \A a \in Agents(dial[p]): Reported(p, Socket(a)) # {} \/ dial[p].cut
    BY <1>3, SameAgents, TheReport DEF Satisfied, AgentTold
  <2> QED
    BY <2>1, <2>2
<1>6. AttemptIsBounded
  BY ClockBounds
<1> QED
  BY <1>1, <1>2, <1>4, <1>5, <1>6 DEF AttemptsAreSound

\* Whatever the configuration, the agents, the keys and the delays are: no key
\* and no agent is offered twice; an authentication fails only after all that
\* would have worked was tried, and its report names all of it; and an attempt
\* takes no longer than the two runs of ssh -G, the probe and the limit of the
\* chain.
THEOREM AttemptsSound == Spec => []AttemptsAreSound
<1>1. Inv /\ ClockInv /\ DialInv /\ CountInv => AttemptsAreSound
  BY AttemptsAre
<1> QED
  BY <1>1, AuthInvariant, PTL

\* The user, the key and the method that were typed are those of the attempt,
\* the port unless ssh -G names one; and no key is offered but those of the host
\* itself, whatever the blocks, the aliases and the includes of the
\* configuration are.
THEOREM HostIsDialled == Spec => []HostIsTheTyped
<1>1. ASSUME TypeInv, DialInv PROVE TypedSettingsKept
  <2> SUFFICES ASSUME NEW p \in Callers, Resolved(p)
               PROVE  LET call == dial[p].call
                          cfg  == dial[p].cfg
                      IN  /\ call.user # None => cfg.user = call.user
                          /\ call.key # None => cfg.key = call.key
                          /\ call.method # "auto" => cfg.method = call.method
                          /\ dial[p].resolved.fallback /\ call.port # DefaultPort => cfg.port = call.port
    BY DEF TypedSettingsKept
  <2>1. dial[p].stage \in Later /\ dial[p].result # "host"
    BY <1>1 DEF TypeInv, Stages, Resolved, Later
  <2>2. TypedInv(dial[p])
    BY <1>1 DEF DialInv, DialOK
  <2> QED
    BY <2>1, <2>2 DEF TypedInv, Kept, PortKept
<1>2. ASSUME DialInv PROVE KeysAreOfTheHost
  <2> SUFFICES ASSUME NEW p \in Callers
               PROVE  LET d     == dial[p]
                          hosts == {d.call.host} \cup ToSet(AliasesOf(config, d.call.host))
                          own   == KeysInBlocksOf(config.text, hosts) \cup KeysPrintedFor(hosts) \cup ToSet(DEFAULT_KEY_NAMES)
                      IN  /\ \A e \in Entries(p): e.source.kind = "key" => e.source.path \in own
                          /\ d.cfg.key \in own \cup {None, d.call.key}
    BY DEF KeysAreOfTheHost
  <2>1. OwnInv(W, config, dial[p])
    BY <1>2 DEF DialInv, DialOK
  <2> QED
    BY <2>1 DEF OwnInv, OwnKeys, HostsOf, PrintedFor, KeysPrintedFor, Entries, ToSet
<1>3. Inv /\ DialInv => HostIsTheTyped
  BY <1>1, <1>2 DEF Inv, HostIsTheTyped
<1> QED
  BY <1>3, AuthInvariant, PTL

-----------------------------------------------------------------------------
(* The watcher: any roots, projects, files, failures and restarts.          *)
(*                                                                          *)
(* The argument for the events is per file: until an "add" is sent a new    *)
(* file may be unknown, until an "unlink" is sent a lost one may be known,  *)
(* and with nothing pending the subscriber's files are the tracked ones.    *)
(* Only one poll task can have something to send while the watcher has been *)
(* started once.                                                            *)

Labels == {"new", "sleep", "awake", "scan", "send", "clear", "gone"}
Events == Files \X {"add", "change", "unlink"}

\* A task that is not sending has nothing to send, one not yet started is new.
TasksInv ==
    \A t \in Tasks : /\ pc[t] # "send" => pending[t] = {}
                     /\ t > starts => pc[t] = "new"

\* Without a baseline nothing is tracked, and what is tracked can be polled:
\* some task reads its root, its memory directory is not known to be absent.
TrackedInv ==
    /\ ~primed => \A f \in Files : sizes[f] = 0
    /\ \A f \in Files : sizes[f] # 0 =>
          /\ \E t \in Tasks : RootOfFile(f) \in roots[t]
          /\ f \in MemoryFiles => ProjectOf[f] \notin absent

\* What a subscriber takes for existing, and what is still to be sent.
Accounted(f, waiting) ==
    /\ <<f, "unlink">> \in waiting => sizes[f] = 0
    /\ <<f, "add">> \in waiting \/ <<f, "change">> \in waiting => sizes[f] # 0
    /\ sizes[f] # 0 /\ <<f, "add">> \notin waiting => f \in told
    /\ sizes[f] = 0 /\ <<f, "unlink">> \notin waiting => f \notin told

EventsInv ==
    starts = 1 /\ timer # 0 /\ primed =>
        \A f \in Files : ~Extra(f) => Accounted(f, pending[1])

IInv == PollingTypeOK /\ TasksInv /\ TrackedInv /\ EventsInv

-----------------------------------------------------------------------------
(* The types.                                                               *)

LEMMA ScanTypes ==
    ASSUME PollingTypeOK, NEW t \in Tasks, NEW badRoots, NEW badProjects, NEW badMemory,
           ScanWith(t, badRoots, badProjects, badMemory), fails' \in 0..MaxFails
    PROVE  PollingTypeOK'
<1> DEFINE seen == Seen(t, badRoots, badProjects, badMemory)
<1>1. UNCHANGED <<remote, timer, doomed, starts, writes>>
  BY DEF ScanWith
<1>2. CASE roots[t] \subseteq badRoots
  BY <1>1, <1>2 DEF ScanWith, Goto, PollingTypeOK, state
<1>3. CASE ~(roots[t] \subseteq badRoots)
  <2>1. /\ pc' = [pc EXCEPT ![t] = "send"]
        /\ sizes' = [f \in Files |-> IF f \in seen THEN remote[f]
                                     ELSE IF primed THEN 0 ELSE sizes[f]]
        /\ pending' = [pending EXCEPT ![t] = EventsOf(seen)]
        /\ told' = IF primed THEN told ELSE seen
        /\ absent' = absent \cup FoundAbsent(t, badRoots, badProjects, badMemory)
        /\ primed' = TRUE
        /\ UNCHANGED <<roots, busy>>
    BY <1>3 DEF ScanWith, Goto
  <2>2. seen \subseteq Files
    BY DEF Seen
  <2> HIDE DEF seen
  <2>3. sizes' \in [Files -> 0..MaxSize]
    BY <2>1, PollingAssumption DEF PollingTypeOK
  <2>4. EventsOf(seen) \subseteq Events
    BY <2>2 DEF EventsOf, Events
  <2>5. pending' \in [Tasks -> SUBSET Events]
    BY <2>1, <2>4 DEF PollingTypeOK, Events
  <2>6. absent' \subseteq MemoryProjects
    BY <2>1 DEF PollingTypeOK, FoundAbsent
  <2>7. told' \subseteq Files
    BY <2>1, <2>2 DEF PollingTypeOK
  <2> QED
    BY <1>1, <2>1, <2>3, <2>5, <2>6, <2>7 DEF PollingTypeOK, Events
<1> QED
  BY <1>2, <1>3

LEMMA DeliverTypes ==
    ASSUME PollingTypeOK, NEW t \in Tasks, NEW e \in Events, NEW ok \in BOOLEAN,
           Deliver(t, e, ok), fails' \in 0..MaxFails
    PROVE  PollingTypeOK'
<1>1. e[1] \in Files
  BY DEF Events
<1>2. told' \subseteq Files
  BY <1>1 DEF Deliver, PollingTypeOK
<1>3. pending' \in [Tasks -> SUBSET Events]
  BY DEF Deliver, PollingTypeOK, Events
<1> QED
  BY <1>2, <1>3 DEF Deliver, PollingTypeOK, Events, state

LEMMA TypeStep == PollingTypeOK /\ [PollingNext]_pollingVars => PollingTypeOK'
<1> SUFFICES ASSUME PollingTypeOK, [PollingNext]_pollingVars PROVE PollingTypeOK'
  OBVIOUS
<1> USE PollingAssumption
<1>1. ASSUME NEW f \in Files, NEW size \in 0..MaxSize, RemoteWrite(f, size) PROVE PollingTypeOK'
  BY <1>1 DEF RemoteWrite, PollingTypeOK, state
<1>2. ASSUME NEW watchable \in Watchable, Start(watchable) PROVE PollingTypeOK'
  <2>1. starts + 1 \in Tasks /\ starts \in Nat
    BY <1>2 DEF Start, PollingTypeOK, Tasks
  <2>2. pc' \in [Tasks -> Labels]
    BY <1>2, <2>1 DEF Start, Goto, PollingTypeOK, Labels
  <2>3. /\ timer' \in 0..starts' /\ starts' \in 0..MaxStarts
        /\ doomed' \subseteq 1..starts' /\ timer' \notin doomed'
    <3>1. starts' = starts + 1 /\ timer' = starts + 1 /\ doomed' = doomed
      BY <1>2 DEF Start
    <3>2. doomed \subseteq 1..starts
      BY DEF PollingTypeOK
    <3> QED
      BY <2>1, <3>1, <3>2 DEF Tasks
  <2>4. sizes' \in [Files -> 0..MaxSize] /\ roots' \in [Tasks -> SUBSET Roots]
    BY <1>2, <2>1 DEF Start, PollingTypeOK
  <2>5. /\ primed' = FALSE /\ busy' = FALSE
        /\ UNCHANGED <<remote, absent, pending, told, writes, fails>>
    BY <1>2 DEF Start
  <2>6. /\ remote' \in [Files -> 0..MaxSize] /\ absent' \subseteq MemoryProjects
        /\ pending' \in [Tasks -> SUBSET Events] /\ told' \subseteq Files
        /\ writes' \in 0..MaxWrites /\ fails' \in 0..MaxFails
    BY <2>5 DEF PollingTypeOK, Events
  <2> QED
    BY <2>2, <2>3, <2>4, <2>5, <2>6 DEF PollingTypeOK, Labels, Events
<1>3. CASE Stop
  <2>1. timer \in 1..starts /\ starts \in Nat
    BY <1>3 DEF Stop, PollingTypeOK
  <2>2. doomed' \subseteq 1..starts' /\ timer' \in 0..starts' /\ timer' \notin doomed'
    BY <1>3, <2>1 DEF Stop, PollingTypeOK
  <2>3. sizes' \in [Files -> 0..MaxSize]
    BY <1>3 DEF Stop
  <2>4. /\ primed' = FALSE /\ busy' = FALSE
        /\ UNCHANGED <<remote, roots, absent, pc, pending, told, starts, writes, fails>>
    BY <1>3 DEF Stop
  <2> QED
    BY <2>2, <2>3, <2>4 DEF PollingTypeOK
<1>4. ASSUME NEW t \in Tasks, Poll(t) PROVE PollingTypeOK'
  <2>1. CASE Wake(t)
    BY <2>1 DEF Wake, Goto, PollingTypeOK, state
  <2>2. CASE Enter(t)
    BY <2>2 DEF Enter, Goto, PollingTypeOK
  <2>3. CASE Scan(t)
    BY <2>3, ScanTypes DEF Scan, PollingTypeOK
  <2>4. CASE ScanFails(t)
    <3>1. fails' \in 0..MaxFails
      BY <2>4 DEF ScanFails, PollingTypeOK
    <3> QED
      BY <2>4, <3>1, ScanTypes DEF ScanFails
  <2>5. ASSUME NEW e \in Events, Send(t, e) PROVE PollingTypeOK'
    BY <2>5, DeliverTypes DEF Send, PollingTypeOK
  <2>6. ASSUME NEW e \in Events, SendFails(t, e) PROVE PollingTypeOK'
    <3>1. fails' \in 0..MaxFails
      BY <2>6 DEF SendFails, PollingTypeOK
    <3> QED
      BY <2>6, <3>1, DeliverTypes DEF SendFails
  <2>7. CASE Sent(t)
    BY <2>7 DEF Sent, Goto, PollingTypeOK, state
  <2>8. CASE Clear(t)
    BY <2>8 DEF Clear, Goto, PollingTypeOK
  <2> QED
    BY <1>4, <2>1, <2>2, <2>3, <2>4, <2>5, <2>6, <2>7, <2>8 DEF Poll, Events
<1>5. ASSUME NEW t \in Tasks, Die(t) PROVE PollingTypeOK'
  BY <1>5 DEF Die, Goto, PollingTypeOK, state
<1>6. ASSUME NEW p \in MemoryProjects, Expire(p) PROVE PollingTypeOK'
  BY <1>6 DEF Expire, PollingTypeOK
<1>7. CASE UNCHANGED pollingVars
  BY <1>7 DEF pollingVars, state, PollingTypeOK
<1> QED
  BY <1>1, <1>2, <1>3, <1>4, <1>5, <1>6, <1>7 DEF PollingNext

-----------------------------------------------------------------------------
(* The steps of a poll.                                                     *)

\* Which events a poll finds for a file.
LEMMA EventsFound ==
    ASSUME NEW seen \in SUBSET Files, NEW f \in Files
    PROVE  /\ <<f, "add">> \in EventsOf(seen) <=> f \in seen /\ primed /\ sizes[f] = 0
           /\ <<f, "change">> \in EventsOf(seen) <=>
                 f \in seen /\ sizes[f] # 0 /\ sizes[f] # remote[f]
           /\ <<f, "unlink">> \in EventsOf(seen) <=> f \notin seen /\ primed /\ sizes[f] # 0
<1> QED
  BY DEF EventsOf

\* What a poll that could read a root leaves behind.
LEMMA ScanLeaves ==
    ASSUME IInv, NEW t \in Tasks, NEW badRoots, NEW badProjects, NEW badMemory,
           ScanWith(t, badRoots, badProjects, badMemory), ~(roots[t] \subseteq badRoots)
    PROVE  LET seen == Seen(t, badRoots, badProjects, badMemory) IN
           /\ seen \subseteq Files
           /\ pc' = [pc EXCEPT ![t] = "send"]
           /\ pending' = [pending EXCEPT ![t] = EventsOf(seen)]
           /\ told' = IF primed THEN told ELSE seen
           /\ absent' = absent \cup FoundAbsent(t, badRoots, badProjects, badMemory)
           /\ primed' /\ roots' = roots
           /\ \A f \in Files : /\ sizes'[f] = IF f \in seen THEN remote[f] ELSE 0
                               /\ sizes'[f] # 0 <=> f \in seen
<1> DEFINE seen == Seen(t, badRoots, badProjects, badMemory)
<1>1. /\ pc' = [pc EXCEPT ![t] = "send"]
      /\ sizes' = [f \in Files |-> IF f \in seen THEN remote[f]
                                   ELSE IF primed THEN 0 ELSE sizes[f]]
      /\ pending' = [pending EXCEPT ![t] = EventsOf(seen)]
      /\ told' = IF primed THEN told ELSE seen
      /\ absent' = absent \cup FoundAbsent(t, badRoots, badProjects, badMemory)
      /\ primed' /\ roots' = roots
  BY DEF ScanWith, Goto
<1>2. seen \subseteq Files /\ \A f \in seen : remote[f] # 0
  BY DEF Seen
<1> HIDE DEF seen
<1>3. ASSUME NEW f \in Files
      PROVE  /\ sizes'[f] = IF f \in seen THEN remote[f] ELSE 0
             /\ sizes'[f] # 0 <=> f \in seen
  <2>1. ~primed => sizes[f] = 0
    BY DEF IInv, TrackedInv
  <2> QED
    BY <1>1, <1>2, <2>1
<1> QED
  BY <1>1, <1>2, <1>3 DEF seen

\* A file is seen in the roots that are read, and a memory directory that is
\* found to be absent has nothing that is seen.
LEMMA SeenIsPolled ==
    ASSUME NEW t \in Tasks, NEW badRoots, NEW badProjects, NEW badMemory,
           NEW f \in Seen(t, badRoots, badProjects, badMemory)
    PROVE  /\ RootOfFile(f) \in roots[t]
           /\ f \in MemoryFiles =>
                 ProjectOf[f] \notin absent \cup FoundAbsent(t, badRoots, badProjects, badMemory)
<1>1. f \in Files /\ remote[f] # 0
  BY DEF Seen
<1>2. RootOfFile(f) \in roots[t]
  BY DEF Seen, Scanned, RootOfFile
<1>3. ASSUME f \in MemoryFiles
      PROVE  ProjectOf[f] \notin absent \cup FoundAbsent(t, badRoots, badProjects, badMemory)
  <2>1. ProjectOf[f] \notin absent
    BY <1>3 DEF Seen
  <2>2. HasMemory(ProjectOf[f])
    BY <1>1, <1>3 DEF HasMemory
  <2> QED
    BY <2>1, <2>2 DEF FoundAbsent
<1> QED
  BY <1>2, <1>3

LEMMA ScanStep ==
    ASSUME IInv, NEW t \in Tasks, NEW badRoots, NEW badProjects, NEW badMemory,
           ScanWith(t, badRoots, badProjects, badMemory)
    PROVE  TasksInv' /\ TrackedInv' /\ EventsInv'
<1> USE DEF IInv
<1> DEFINE seen == Seen(t, badRoots, badProjects, badMemory)
<1>1. UNCHANGED <<remote, timer, doomed, starts, writes>> /\ pc[t] = "scan"
  BY DEF ScanWith
<1>2. CASE roots[t] \subseteq badRoots
  <2>1. pc' = [pc EXCEPT ![t] = "clear"] /\ UNCHANGED <<state, pending, told>>
    BY <1>2 DEF ScanWith, Goto
  <2>2. TasksInv'
    BY <1>1, <2>1 DEF TasksInv, PollingTypeOK
  <2>3. TrackedInv' /\ EventsInv'
    BY <1>1, <2>1 DEF TrackedInv, EventsInv, Accounted, state
  <2> QED
    BY <2>2, <2>3
<1>3. CASE ~(roots[t] \subseteq badRoots)
  <2>1. /\ seen \subseteq Files
        /\ pc' = [pc EXCEPT ![t] = "send"]
        /\ pending' = [pending EXCEPT ![t] = EventsOf(seen)]
        /\ told' = IF primed THEN told ELSE seen
        /\ absent' = absent \cup FoundAbsent(t, badRoots, badProjects, badMemory)
        /\ primed' /\ roots' = roots
        /\ \A f \in Files : /\ sizes'[f] = IF f \in seen THEN remote[f] ELSE 0
                            /\ sizes'[f] # 0 <=> f \in seen
    BY <1>3, ScanLeaves
  <2>2. TasksInv'
    BY <1>1, <2>1 DEF TasksInv, PollingTypeOK
  <2>3. TrackedInv'
    <3>1. ASSUME NEW f \in Files, sizes'[f] # 0
          PROVE  /\ RootOfFile(f) \in roots'[t]
                 /\ f \in MemoryFiles => ProjectOf[f] \notin absent'
      BY <2>1, <3>1, SeenIsPolled
    <3> QED
      BY <2>1, <3>1 DEF TrackedInv, RootOfFile
  <2>4. EventsInv'
    <3> SUFFICES ASSUME starts = 1, timer # 0, NEW f \in Files, ~Extra(f)
                 PROVE  Accounted(f, pending[1])'
      BY <1>1 DEF EventsInv, Extra, RootOfFile
    <3>1. t = 1 /\ 1 \in Tasks
      BY <1>1 DEF TasksInv, PollingTypeOK, Tasks
    <3>2. pending'[1] = EventsOf(seen) /\ pending[1] = {}
      BY <1>1, <2>1, <3>1 DEF PollingTypeOK, TasksInv
    <3> HIDE DEF seen
    <3>3. /\ <<f, "add">> \in pending'[1] <=> f \in seen /\ primed /\ sizes[f] = 0
          /\ <<f, "change">> \in pending'[1] <=>
                f \in seen /\ sizes[f] # 0 /\ sizes[f] # remote[f]
          /\ <<f, "unlink">> \in pending'[1] <=> f \notin seen /\ primed /\ sizes[f] # 0
      BY <2>1, <3>2, EventsFound
    <3>4. CASE primed
      <4>1. f \in told <=> sizes[f] # 0
        BY <3>2, <3>4 DEF EventsInv, Accounted
      <4> QED
        BY <2>1, <3>3, <3>4, <4>1 DEF Accounted
    <3>5. CASE ~primed
      <4>1. sizes[f] = 0
        BY <3>5 DEF TrackedInv
      <4> QED
        BY <2>1, <3>3, <3>5, <4>1 DEF Accounted
    <3> QED
      BY <3>4, <3>5
  <2> QED
    BY <2>2, <2>3, <2>4
<1> QED
  BY <1>2, <1>3

\* Sending an event brings what the subscriber knows of its file up to date,
\* and a file of the main root is always told.
LEMMA DeliverStep ==
    ASSUME IInv, NEW t \in Tasks, NEW e \in Events, NEW ok \in BOOLEAN,
           e \in pending[t], Deliver(t, e, ok), ~Extra(e[1]) => ok
    PROVE  TasksInv' /\ TrackedInv' /\ EventsInv'
<1> USE DEF IInv
<1>1. /\ pc[t] = "send"
      /\ pending' = [pending EXCEPT ![t] = @ \ {e}]
      /\ told' = IF ~ok THEN told
                 ELSE IF e[2] = "unlink" THEN told \ {e[1]} ELSE told \cup {e[1]}
      /\ UNCHANGED <<remote, state, timer, pc, doomed, starts, writes>>
  BY DEF Deliver
<1>2. TasksInv'
  BY <1>1 DEF TasksInv, PollingTypeOK
<1>3. TrackedInv'
  BY <1>1 DEF TrackedInv, RootOfFile, state
<1>4. EventsInv'
  <2> SUFFICES ASSUME starts = 1, timer # 0, primed, NEW f \in Files, ~Extra(f)
               PROVE  Accounted(f, pending[1])'
    BY <1>1 DEF EventsInv, Extra, RootOfFile, state
  <2>1. t = 1 /\ 1 \in Tasks
    BY <1>1 DEF TasksInv, PollingTypeOK, Tasks
  <2>2. pending'[1] = pending[1] \ {e} /\ e \in pending[1]
    BY <1>1, <2>1 DEF PollingTypeOK
  <2>3. Accounted(f, pending[1])
    BY DEF EventsInv
  <2>4. PICK g \in Files, kind \in {"add", "change", "unlink"} : e = <<g, kind>>
    BY DEF Events
  <2>5. sizes' = sizes
    BY <1>1 DEF state
  <2>6. CASE g # f
    BY <1>1, <2>2, <2>3, <2>4, <2>5, <2>6 DEF Accounted
  <2>7. CASE g = f
    <3>1. told' = IF kind = "unlink" THEN told \ {f} ELSE told \cup {f}
      BY <1>1, <2>4, <2>7
    <3> QED
      BY <2>2, <2>3, <2>4, <2>5, <2>7, <3>1 DEF Accounted
  <2> QED
    BY <2>6, <2>7
<1> QED
  BY <1>2, <1>3, <1>4

LEMMA OtherSteps ==
    ASSUME IInv, NEW t \in Tasks, Wake(t) \/ Enter(t) \/ Sent(t) \/ Clear(t) \/ Die(t)
    PROVE  TasksInv' /\ TrackedInv' /\ EventsInv'
<1> USE DEF IInv
<1>1. /\ UNCHANGED <<roots, sizes, absent, primed, pending, told, timer, starts>>
      /\ pc[t] # "send" \/ pending[t] = {}
      /\ pc[t] # "new"
      /\ \E label \in Labels : pc' = [pc EXCEPT ![t] = label]
  BY DEF Wake, Enter, Sent, Clear, Die, Goto, state, Labels
<1>2. TasksInv'
  BY <1>1 DEF TasksInv, PollingTypeOK
<1>3. TrackedInv' /\ EventsInv'
  BY <1>1 DEF TrackedInv, EventsInv, Accounted
<1> QED
  BY <1>2, <1>3

LEMMA InvariantStep == IInv /\ [PollingNext]_pollingVars => TasksInv' /\ TrackedInv' /\ EventsInv'
<1> SUFFICES ASSUME IInv, [PollingNext]_pollingVars PROVE TasksInv' /\ TrackedInv' /\ EventsInv'
  OBVIOUS
<1> USE DEF IInv
<1>1. ASSUME NEW f \in Files, NEW size \in 0..MaxSize, RemoteWrite(f, size)
      PROVE  TasksInv' /\ TrackedInv' /\ EventsInv'
  BY <1>1 DEF RemoteWrite, TasksInv, TrackedInv, EventsInv, Accounted, state
<1>2. ASSUME NEW watchable \in Watchable, Start(watchable)
      PROVE  TasksInv' /\ TrackedInv' /\ EventsInv'
  <2>1. starts + 1 \in Tasks /\ starts \in Nat
    BY <1>2, PollingAssumption DEF Start, PollingTypeOK, Tasks
  <2>2. starts' = starts + 1 /\ pc' = [pc EXCEPT ![starts + 1] = "sleep"] /\ pending' = pending
    BY <1>2 DEF Start, Goto
  <2>3. pc[starts + 1] = "new"
    BY <2>1 DEF TasksInv, Tasks
  <2>4. TasksInv'
    <3> SUFFICES ASSUME NEW t \in Tasks
                 PROVE  /\ pc'[t] # "send" => pending'[t] = {}
                        /\ t > starts' => pc'[t] = "new"
      BY DEF TasksInv
    <3>1. CASE t = starts + 1
      BY <2>1, <2>2, <2>3, <3>1 DEF TasksInv, Tasks
    <3>2. CASE t # starts + 1
      BY <2>1, <2>2, <3>2 DEF TasksInv, PollingTypeOK, Tasks
    <3> QED
      BY <3>1, <3>2
  <2>5. primed' = FALSE /\ \A f \in Files : sizes'[f] = 0
    BY <1>2 DEF Start
  <2> QED
    BY <2>4, <2>5 DEF TrackedInv, EventsInv
<1>3. CASE Stop
  <2>1. TasksInv'
    BY <1>3 DEF Stop, TasksInv
  <2>2. timer' = 0 /\ \A f \in Files : sizes'[f] = 0
    BY <1>3 DEF Stop
  <2> QED
    BY <2>1, <2>2 DEF TrackedInv, EventsInv
<1>4. ASSUME NEW t \in Tasks, Poll(t) PROVE TasksInv' /\ TrackedInv' /\ EventsInv'
  <2>1. CASE Scan(t) \/ ScanFails(t)
    BY <2>1, ScanStep DEF Scan, ScanFails
  <2>2. ASSUME NEW e \in Events, Send(t, e) PROVE TasksInv' /\ TrackedInv' /\ EventsInv'
    BY <2>2, DeliverStep DEF Send
  <2>3. ASSUME NEW e \in Events, SendFails(t, e) PROVE TasksInv' /\ TrackedInv' /\ EventsInv'
    BY <2>3, DeliverStep DEF SendFails
  <2> QED
    BY <1>4, <2>1, <2>2, <2>3, OtherSteps DEF Poll, Events
<1>5. ASSUME NEW t \in Tasks, Die(t) PROVE TasksInv' /\ TrackedInv' /\ EventsInv'
  BY <1>5, OtherSteps
<1>6. ASSUME NEW p \in MemoryProjects, Expire(p) PROVE TasksInv' /\ TrackedInv' /\ EventsInv'
  BY <1>6 DEF Expire, TasksInv, TrackedInv, EventsInv, Accounted, RootOfFile
<1>7. CASE UNCHANGED pollingVars
  BY <1>7 DEF pollingVars, state, TasksInv, TrackedInv, EventsInv, Accounted, RootOfFile
<1> QED
  BY <1>1, <1>2, <1>3, <1>4, <1>5, <1>6, <1>7 DEF PollingNext

-----------------------------------------------------------------------------
LEMMA InitIInv == PollingInit => IInv
<1> SUFFICES ASSUME PollingInit PROVE IInv
  OBVIOUS
<1>1. PollingTypeOK
  <2>1. /\ sizes \in [Files -> 0..MaxSize] /\ pc \in [Tasks -> Labels]
        /\ pending \in [Tasks -> SUBSET Events] /\ roots \in [Tasks -> SUBSET Roots]
    BY PollingAssumption DEF PollingInit, Labels
  <2>2. starts \in 0..MaxStarts /\ writes \in 0..MaxWrites /\ fails \in 0..MaxFails
    BY PollingAssumption DEF PollingInit
  <2>3. timer \in 0..starts /\ doomed \subseteq 1..starts /\ timer \notin doomed
    BY DEF PollingInit
  <2> QED
    BY <2>1, <2>2, <2>3 DEF PollingInit, PollingTypeOK, Labels, Events
<1>2. TasksInv /\ TrackedInv /\ EventsInv
  BY DEF PollingInit, TasksInv, TrackedInv, EventsInv
<1> QED
  BY <1>1, <1>2 DEF IInv

LEMMA Inductive == IInv /\ [PollingNext]_pollingVars => IInv'
BY TypeStep, InvariantStep DEF IInv

LEMMA Invariance == PollingSpec => []IInv
<1> QED
  BY InitIInv, Inductive, PTL DEF PollingSpec

\* With everything sent, the files of the main root that a subscriber takes to
\* exist are the tracked ones, whatever failed, for any remote side.
THEOREM WatcherSound == PollingSpec => []WatcherIsSound
<1>1. IInv => WatcherIsSound
  <2> SUFFICES ASSUME IInv, starts = 1, timer # 0, primed, NothingToSend,
                      NEW f \in Files, ~Extra(f)
               PROVE  f \in told <=> f \in Tracked
    BY DEF WatcherIsSound, EventsAddUp, IInv
  <2>1. pending[1] = {}
    BY PollingAssumption DEF NothingToSend, IInv, PollingTypeOK, Tasks
  <2> QED
    BY <2>1 DEF IInv, EventsInv, Accounted, Tracked
<1> QED
  BY <1>1, Invariance, PTL

\* A poll reports a file as removed only when it is gone, unless a read failed or
\* only another task reads its root: what is tracked lies where some task looks.
LEMMA UnlinkIsGone ==
    ASSUME IInv, [PollingNext]_pollingVars, fails' = 0, NEW t \in Tasks, NEW f \in Files,
           <<f, "unlink">> \in pending'[t] \ pending[t]
    PROVE  remote[f] = 0 \/ f \in OnlyOthersRead(t)
<1> USE DEF IInv
<1>1. PICK s \in Tasks : Scan(s)
  <2>1. CASE UNCHANGED pending
    BY <2>1
  <2>2. ASSUME NEW s \in Tasks, NEW e \in Events, NEW ok, Deliver(s, e, ok) PROVE FALSE
    BY <2>2 DEF Deliver, PollingTypeOK
  <2>3. ASSUME NEW s \in Tasks, ScanFails(s) PROVE FALSE
    BY <2>3 DEF ScanFails, PollingTypeOK
  <2> QED
    BY <2>1, <2>2, <2>3
    DEF PollingNext, pollingVars, RemoteWrite, Start, Stop, Poll, Wake, Enter, Send, SendFails, Sent,
        Clear, Die, Expire, Events
<1> DEFINE seen == Seen(s, {}, {}, {})
<1>2. pending' = [pending EXCEPT ![s] = EventsOf(seen)] /\ seen \subseteq Files
  <2>1. CASE roots[s] \subseteq {}
    BY <1>1, <2>1 DEF Scan, ScanWith
  <2>2. CASE ~(roots[s] \subseteq {})
    BY <1>1, <2>2, ScanLeaves DEF Scan
  <2> QED
    BY <2>1, <2>2
<1>3. s = t /\ f \notin seen /\ sizes[f] # 0
  <2> HIDE DEF seen
  <2>1. s = t /\ <<f, "unlink">> \in EventsOf(seen)
    BY <1>2 DEF PollingTypeOK
  <2> QED
    BY <1>2, <2>1, EventsFound
<1>4. PICK u \in Tasks : RootOfFile(f) \in roots[u] /\ (f \in MemoryFiles => ProjectOf[f] \notin absent)
  BY <1>3 DEF TrackedInv
<1>5. CASE RootOfFile(f) \in roots[t]
  <2>1. ProjectOf[f] \in Scanned(t, {}, {})
    BY <1>5, PollingAssumption DEF Scanned, RootOfFile
  <2> QED
    BY <1>3, <1>4, <2>1 DEF Seen
<1>6. CASE RootOfFile(f) \notin roots[t]
  BY <1>4, <1>6 DEF OnlyOthersRead
<1> QED
  BY <1>5, <1>6

\* The same of every step of every behaviour.
THEOREM OnlyGoneIsRemoved == PollingSpec => RemovedIsGone
<1>1. IInv /\ [PollingNext]_pollingVars =>
        (fails' = 0 =>
            \A t \in Tasks, f \in Files :
                <<f, "unlink">> \in pending'[t] \ pending[t] =>
                    remote[f] = 0 \/ f \in OnlyOthersRead(t))
  BY UnlinkIsGone
<1> QED
  BY <1>1, Invariance, PTL DEF PollingSpec, RemovedIsGone

-----------------------------------------------------------------------------
(* The lines of a file and of a piece of it.                                *)

Byte == {"byte", "end"}

\* The first bytes of a file.
Piece(c, b) ==
    /\ c \in Seq(Byte) /\ b \in Seq(Byte)
    /\ Len(c) <= Len(b)
    /\ \A j \in 1 .. Len(c): c[j] = b[j]

LEMMA SmallerOfTwo ==
    ASSUME NEW m \in Nat, NEW n \in Nat
    PROVE  Min({m, n}) = IF m <= n THEN m ELSE n
<1>1. {m, n} \in SUBSET Nat /\ {m, n} # {}
  OBVIOUS
<1>2. Min({m, n}) \in {m, n} /\ \A x \in {m, n}: Min({m, n}) <= x
  BY <1>1, LeastIsMin
<1> HIDE DEF Min
<1> QED
  BY <1>2

LEMMA EndsWhere ==
    ASSUME NEW b \in Seq(Byte), NEW i \in 1 .. Len(b)
    PROVE  /\ EndOf(b, i) \in Nat /\ i <= EndOf(b, i) + 1 /\ EndOf(b, i) <= Len(b)
           /\ \A j \in i .. EndOf(b, i): b[j] # "end"
           /\ EndOf(b, i) < Len(b) => b[EndOf(b, i) + 1] = "end"
<1> DEFINE E == {j \in DOMAIN b: j >= i /\ b[j] = "end"} \cup {Len(b) + 1}
<1>1. E \in SUBSET Nat /\ E # {} /\ DOMAIN b = 1 .. Len(b)
  OBVIOUS
<1>2. Min(E) \in E /\ \A x \in E: Min(E) <= x
  BY <1>1, LeastIsMin
<1>3. EndOf(b, i) = Min(E) - 1
  BY DEF EndOf
<1> DEFINE m == Min(E)
<1>4. m \in E /\ (\A x \in E: m <= x) /\ EndOf(b, i) = m - 1
  BY <1>2, <1>3
<1> HIDE DEF m
<1>5. m \in Nat /\ i <= m /\ m <= Len(b) + 1 /\ (m < Len(b) + 1 => b[m] = "end")
  BY <1>1, <1>4
<1>6. ASSUME NEW j \in i .. (m - 1), b[j] = "end"
      PROVE  FALSE
  <2>1. j \in 1 .. Len(b) /\ j < m
    BY <1>5
  <2>2. j \in E
    BY <1>1, <1>6, <2>1
  <2> QED
    BY <1>4, <1>5, <2>1, <2>2
<1> QED
  BY <1>4, <1>5, <1>6

LEMMA EndsOnce ==
    ASSUME NEW b \in Seq(Byte), NEW i \in 1 .. Len(b), NEW e \in Int, i <= e + 1, e <= Len(b),
           \A j \in i .. e: b[j] # "end", e < Len(b) => b[e + 1] = "end"
    PROVE  e = EndOf(b, i)
<1> DEFINE m == EndOf(b, i)
<1>1. /\ m \in Nat /\ i <= m + 1 /\ m <= Len(b)
      /\ \A j \in i .. m: b[j] # "end"
      /\ m < Len(b) => b[m + 1] = "end"
  BY EndsWhere
<1> HIDE DEF m
<1>2. ~(m < e)
  <2> SUFFICES ASSUME m < e PROVE FALSE
    OBVIOUS
  <2>1. m + 1 \in i .. e /\ m < Len(b)
    BY <1>1
  <2> QED
    BY <1>1, <2>1
<1>3. ~(e < m)
  <2> SUFFICES ASSUME e < m PROVE FALSE
    OBVIOUS
  <2>1. e + 1 \in i .. m /\ e < Len(b)
    BY <1>1
  <2> QED
    BY <1>1, <2>1
<1>4. e = m
  BY <1>1, <1>2, <1>3
<1> QED
  BY <1>4 DEF m

LEMMA StartsWhere ==
    ASSUME NEW b \in Seq(Byte)
    PROVE  /\ Starts(b) \in SUBSET (1 .. Len(b))
           /\ \A i \in 1 .. Len(b): i \in Starts(b) <=> i = 1 \/ b[i - 1] = "end"
<1>1. DOMAIN b = 1 .. Len(b)
  OBVIOUS
<1> QED
  BY <1>1 DEF Starts

\* A file has a line for each start, in their order.
LEMMA LinesWhere ==
    ASSUME NEW b \in Seq(Byte)
    PROVE  /\ Lines(b) \in Seq(Nat \X Nat) /\ Len(Lines(b)) = Cardinality(Starts(b))
           /\ \A k \in 1 .. Len(Lines(b)): \E i \in Starts(b): Rank(Starts(b), i) = k /\ Lines(b)[k] = <<i, EndOf(b, i)>>
           /\ \A i \in Starts(b): /\ Rank(Starts(b), i) \in 1 .. Len(Lines(b))
                                  /\ Lines(b)[Rank(Starts(b), i)] = <<i, EndOf(b, i)>>
<1> DEFINE e == [i \in 1 .. Len(b) |-> <<i, EndOf(b, i)>>]
           n == Len(b)
           S == Starts(b)
<1>1. n \in Nat /\ S \in SUBSET (1 .. n)
  BY StartsWhere
<1>2. \A i \in S: e[i] = <<i, EndOf(b, i)>> /\ e[i] \in Nat \X Nat
  BY <1>1, EndsWhere
<1>3. Lines(b) = FlattenSeq(Choice(n, S, e))
  <2>1. \A i \in 1 .. n: e[i] = <<i, EndOf(b, i)>>
    OBVIOUS
  <2>2. Choice(n, S, e) = [i \in 1 .. n |-> IF i \in S THEN << <<i, EndOf(b, i)>> >> ELSE <<>>]
    <3> HIDE DEF e
    <3> QED
      BY <2>1 DEF Choice
  <2> QED
    BY <2>2 DEF Lines
<1> HIDE DEF e, n, S
<1>4. /\ Lines(b) \in Seq(Nat \X Nat) /\ Len(Lines(b)) = Cardinality(S)
      /\ \A k \in 1 .. Len(Lines(b)): \E i \in S: Rank(S, i) = k /\ Lines(b)[k] = e[i]
      /\ \A i \in S: Rank(S, i) \in 1 .. Len(Lines(b)) /\ Lines(b)[Rank(S, i)] = e[i]
  <2> DEFINE T == Nat \X Nat
             r == Lines(b)
  <2>1. (\A i \in S: e[i] \in T) /\ r = FlattenSeq(Choice(n, S, e))
    BY <1>2, <1>3
  <2> HIDE DEF T, r
  <2>2. Ranked(FlattenSeq(Choice(n, S, e)), S, e, T)
    BY <1>1, <2>1, Selection
  <2> QED
    BY <2>1, <2>2 DEF T, r, Ranked
<1>5. ASSUME NEW k \in 1 .. Len(Lines(b))
      PROVE  \E i \in S: Rank(S, i) = k /\ Lines(b)[k] = <<i, EndOf(b, i)>>
  BY <1>2, <1>4
<1>6. ASSUME NEW i \in S
      PROVE  Rank(S, i) \in 1 .. Len(Lines(b)) /\ Lines(b)[Rank(S, i)] = <<i, EndOf(b, i)>>
  BY <1>2, <1>4
<1> QED
  BY <1>4, <1>5, <1>6 DEF S

\* The line that starts at i is one of the file's.
LEMMA LineThere ==
    ASSUME NEW b \in Seq(Byte), NEW i \in Starts(b)
    PROVE  <<i, EndOf(b, i)>> \in ToSet(Lines(b))
<1>1. Rank(Starts(b), i) \in 1 .. Len(Lines(b)) /\ Lines(b)[Rank(Starts(b), i)] = <<i, EndOf(b, i)>>
  BY LinesWhere
<1>2. Lines(b) \in Seq(Nat \X Nat)
  BY LinesWhere
<1>3. DOMAIN Lines(b) = 1 .. Len(Lines(b))
  BY <1>2
<1> QED
  BY <1>1, <1>3 DEF ToSet

LEMMA PieceStarts ==
    ASSUME NEW c, NEW b, Piece(c, b)
    PROVE  \A i \in 1 .. Len(c): i \in Starts(c) <=> i \in Starts(b)
<1> SUFFICES ASSUME NEW i \in 1 .. Len(c) PROVE i \in Starts(c) <=> i \in Starts(b)
  OBVIOUS
<1>1. c \in Seq(Byte) /\ b \in Seq(Byte) /\ Len(c) \in Nat /\ Len(b) \in Nat /\ Len(c) <= Len(b)
  BY DEF Piece
<1>2. i \in 1 .. Len(b) /\ (i = 1 \/ i - 1 \in 1 .. Len(c))
  BY <1>1
<1>3. i = 1 \/ c[i - 1] = b[i - 1]
  BY <1>2 DEF Piece
<1> QED
  BY <1>1, <1>2, <1>3, StartsWhere

\* A line that ends within a piece, or a piece that is all of the file, is the
\* same line in both.
LEMMA PieceLine ==
    ASSUME NEW c, NEW b, Piece(c, b), NEW i \in Starts(c),
           Len(c) = Len(b) \/ \E j \in i .. Len(c): c[j] = "end"
    PROVE  <<i, EndOf(c, i)>> \in ToSet(Lines(b))
<1>1. c \in Seq(Byte) /\ b \in Seq(Byte) /\ Len(c) \in Nat /\ Len(b) \in Nat /\ Len(c) <= Len(b)
  BY DEF Piece
<1>2. i \in 1 .. Len(c) /\ i \in 1 .. Len(b)
  BY <1>1, StartsWhere
<1> DEFINE m == EndOf(c, i)
<1>3. /\ m \in Nat /\ i <= m + 1 /\ m <= Len(c)
      /\ \A j \in i .. m: c[j] # "end"
      /\ m < Len(c) => c[m + 1] = "end"
  BY <1>1, <1>2, EndsWhere
<1> HIDE DEF m
<1>4. \A j \in i .. m: b[j] # "end"
  BY <1>1, <1>2, <1>3 DEF Piece
<1>5. m < Len(b) => b[m + 1] = "end"
  <2>1. m < Len(c) => m + 1 \in 1 .. Len(c)
    BY <1>1, <1>3
  <2>2. m < Len(b) => m < Len(c)
    BY <1>1, <1>2, <1>3
  <2> QED
    BY <1>3, <2>1, <2>2 DEF Piece
<1>6. m = EndOf(b, i)
  <2>1. m \in Int /\ m <= Len(b)
    BY <1>1, <1>3
  <2> QED
    BY <1>1, <1>2, <1>3, <1>4, <1>5, <2>1, EndsOnce
<1>7. i \in Starts(b)
  BY <1>2, PieceStarts
<1> QED
  BY <1>1, <1>6, <1>7, LineThere DEF m

\* What a line's number among the lines says of where it starts.
LEMMA LineStart ==
    ASSUME NEW b \in Seq(Byte), NEW k \in DOMAIN Lines(b)
    PROVE  \E i \in Starts(b): /\ i \in 1 .. Len(b) /\ Rank(Starts(b), i) = k
                               /\ Lines(b)[k] = <<i, EndOf(b, i)>>
<1>1. Lines(b) \in Seq(Nat \X Nat)
  BY LinesWhere
<1>2. k \in 1 .. Len(Lines(b))
  BY <1>1
<1>3. PICK i \in Starts(b): Rank(Starts(b), i) = k /\ Lines(b)[k] = <<i, EndOf(b, i)>>
  BY <1>2, LinesWhere
<1>4. i \in 1 .. Len(b)
  BY StartsWhere
<1> QED
  BY <1>3, <1>4

\* Every line of a piece that is all of the file or ends with a line's end is
\* one of the file's.
LEMMA WholePiece ==
    ASSUME NEW c, NEW b, Piece(c, b), Len(c) = Len(b) \/ Len(c) = 0 \/ c[Len(c)] = "end",
           NEW k \in DOMAIN Lines(c)
    PROVE  Lines(c)[k] \in ToSet(Lines(b))
<1>1. c \in Seq(Byte) /\ Len(c) \in Nat
  BY DEF Piece
<1>2. PICK i \in Starts(c): i \in 1 .. Len(c) /\ Lines(c)[k] = <<i, EndOf(c, i)>>
  BY <1>1, LineStart
<1>3. Len(c) = Len(b) \/ \E j \in i .. Len(c): c[j] = "end"
  BY <1>1, <1>2
<1> QED
  BY <1>2, <1>3, PieceLine

\* Only the last line of a piece may be cut.
LEMMA TornPiece ==
    ASSUME NEW c, NEW b, Piece(c, b), NEW k \in DOMAIN Lines(c), k < Len(Lines(c))
    PROVE  Lines(c)[k] \in ToSet(Lines(b))
<1>1. c \in Seq(Byte) /\ Len(c) \in Nat
  BY DEF Piece
<1>2. Lines(c) \in Seq(Nat \X Nat) /\ DOMAIN Lines(c) = 1 .. Len(Lines(c))
  BY <1>1, LinesWhere
<1>3. PICK i \in Starts(c): /\ i \in 1 .. Len(c) /\ Rank(Starts(c), i) = k
                            /\ Lines(c)[k] = <<i, EndOf(c, i)>>
  BY <1>1, LineStart
<1>4. k + 1 \in DOMAIN Lines(c)
  BY <1>2
<1>5. PICK m \in Starts(c): m \in 1 .. Len(c) /\ Rank(Starts(c), m) = k + 1
  BY <1>1, <1>4, LineStart
<1>6. RankLaws(Len(c), Starts(c))
  BY <1>1, StartsWhere, Ranks
<1>7. i < m
  <2> SUFFICES ASSUME m <= i PROVE FALSE
    BY <1>3, <1>5
  <2>1. m \in 0 .. Len(c) /\ i \in 0 .. Len(c)
    BY <1>3, <1>5
  <2>2. Rank(Starts(c), m) <= Rank(Starts(c), i)
    BY <1>6, <2>1 DEF RankLaws
  <2>3. k \in Nat
    BY <1>2
  <2> QED
    BY <1>3, <1>5, <2>2, <2>3
<1>8. c[m - 1] = "end" /\ m - 1 \in i .. Len(c)
  <2>1. m # 1 /\ m - 1 \in i .. Len(c)
    BY <1>3, <1>5, <1>7
  <2> QED
    BY <1>1, <1>5, <2>1, StartsWhere
<1> QED
  BY <1>3, <1>8, PieceLine

\* A line that is not after more lines than there are ends is not cut.
LEMMA CountedPiece ==
    ASSUME NEW c, NEW b, Piece(c, b), NEW k \in DOMAIN Lines(c), k <= LineEnds(c)
    PROVE  Lines(c)[k] \in ToSet(Lines(b))
<1>1. c \in Seq(Byte) /\ Len(c) \in Nat /\ DOMAIN c = 1 .. Len(c)
  BY DEF Piece
<1>2. PICK i \in Starts(c): /\ i \in 1 .. Len(c) /\ Rank(Starts(c), i) = k
                            /\ Lines(c)[k] = <<i, EndOf(c, i)>>
  BY <1>1, LineStart
<1>3. k \in Nat
  <2>1. Lines(c) \in Seq(Nat \X Nat)
    BY <1>1, LinesWhere
  <2> QED
    BY <2>1
<1>4. \E j \in i .. Len(c): c[j] = "end"
  <2> SUFFICES ASSUME \A j \in i .. Len(c): c[j] # "end" PROVE FALSE
    OBVIOUS
  <2> DEFINE E == {j \in DOMAIN c: c[j] = "end"}
             S == Starts(c) \cap (1 .. i)
             f == [j \in E |-> j + 1]
  <2>1. S \subseteq 1 .. i /\ IsFiniteSet(S) /\ Cardinality(S) = k
    <3>1. IsFiniteSet(1 .. i)
      BY <1>2, FS_Interval
    <3> QED
      BY <1>2, <3>1, FS_Subset DEF Rank
  <2>2. \A j \in E: j \in 1 .. Len(c) /\ j < i /\ j + 1 \in Starts(c)
    <3> SUFFICES ASSUME NEW j \in E PROVE j \in 1 .. Len(c) /\ j < i /\ j + 1 \in Starts(c)
      OBVIOUS
    <3>1. j \in 1 .. Len(c) /\ c[j] = "end" /\ j \notin i .. Len(c)
      BY <1>1
    <3>2. j < i
      BY <1>2, <3>1
    <3>3. j + 1 \in 1 .. Len(c) /\ (j + 1) - 1 = j
      BY <1>2, <3>1, <3>2
    <3> QED
      BY <1>1, <3>1, <3>2, <3>3, StartsWhere
  <2>3. 1 \in S /\ \A j \in E: j + 1 \in S \ {1}
    <3>1. 1 \in Starts(c)
      BY <1>1, <1>2, StartsWhere
    <3> QED
      BY <1>2, <2>2, <3>1
  <2>4. f \in Injection(E, S \ {1})
    <3>1. f \in [E -> S \ {1}]
      BY <2>3
    <3>2. \A x, y \in E: f[x] = f[y] => x = y
      BY <2>2
    <3> QED
      BY <3>1, <3>2 DEF Injection, IsInjective
  <2>5. IsFiniteSet(S \ {1}) /\ Cardinality(S \ {1}) = k - 1
    BY <2>1, <2>3, FS_RemoveElement
  <2>6. Cardinality(E) <= k - 1
    BY <2>4, <2>5, FS_Injection
  <2>7. Cardinality(E) = LineEnds(c) /\ Cardinality(E) \in Nat
    <3>1. IsFiniteSet(E)
      BY <2>4, <2>5, FS_Injection
    <3> QED
      BY <3>1, FS_CardinalityType DEF LineEnds
  <2> QED
    BY <1>3, <2>6, <2>7
<1> QED
  BY <1>2, <1>4, PieceLine

\* There are as many lines as ends, at least.
LEMMA EndedLines ==
    ASSUME NEW c \in Seq(Byte)
    PROVE  LineEnds(c) \in Nat /\ LineEnds(c) <= Len(Lines(c))
<1> DEFINE E == {j \in DOMAIN c: c[j] = "end"}
           S == Starts(c)
           n == Len(c)
           f == [j \in E \ {n} |-> j + 1]
<1>1. DOMAIN c = 1 .. n /\ n \in Nat
  OBVIOUS
<1>2. S \in SUBSET (1 .. n) /\ Len(Lines(c)) = Cardinality(S)
  BY StartsWhere, LinesWhere
<1>3. E \in SUBSET (1 .. n)
  BY <1>1
<1>4. IsFiniteSet(1 .. n)
  BY <1>1, FS_Interval
<1>5. IsFiniteSet(E) /\ IsFiniteSet(S) /\ IsFiniteSet(E \ {n}) /\ IsFiniteSet(S \ {1})
  BY <1>2, <1>3, <1>4, FS_Subset
<1>6. CASE E = {}
  <2>1. Cardinality(E) = 0 /\ Cardinality(S) \in Nat
    BY <1>5, <1>6, FS_EmptySet, FS_CardinalityType
  <2> QED
    BY <1>2, <2>1 DEF LineEnds
<1>7. CASE E # {}
  <2>1. 1 \in S
    <3>1. 1 \in 1 .. n
      BY <1>3, <1>7
    <3> QED
      BY <3>1, StartsWhere
  <2>2. ASSUME NEW j \in E \ {n}
        PROVE  j \in 1 .. n /\ j + 1 \in S \ {1}
    <3>1. j \in 1 .. n /\ c[j] = "end" /\ j # n
      BY <1>1
    <3>2. j + 1 \in 1 .. n /\ (j + 1) - 1 = j
      BY <1>1, <3>1
    <3>3. j + 1 \in S
      BY <3>1, <3>2, StartsWhere
    <3> QED
      BY <3>1, <3>3
  <2>3. f \in Injection(E \ {n}, S \ {1})
    <3>1. f \in [E \ {n} -> S \ {1}]
      BY <2>2
    <3>2. \A x, y \in E \ {n}: f[x] = f[y] => x = y
      BY <2>2
    <3> QED
      BY <3>1, <3>2 DEF Injection, IsInjective
  <2>4. Cardinality(E \ {n}) <= Cardinality(S \ {1})
    BY <1>5, <2>3, FS_Injection
  <2>5. Cardinality(S \ {1}) = Cardinality(S) - 1
    BY <1>5, <2>1, FS_RemoveElement
  <2>6. Cardinality(E \ {n}) = Cardinality(E) \/ Cardinality(E \ {n}) = Cardinality(E) - 1
    BY <1>5, FS_RemoveElement
  <2>7. Cardinality(E) \in Nat /\ Cardinality(S) \in Nat
    BY <1>5, FS_CardinalityType
  <2>8. Cardinality(E) <= Cardinality(S)
    BY <2>4, <2>5, <2>6, <2>7
  <2> QED
    BY <1>2, <2>7, <2>8 DEF LineEnds
<1> QED
  BY <1>6, <1>7

\* A piece that has every line that ends early enough is long enough.
LEMMA EarlyLines ==
    ASSUME NEW c, NEW b, Piece(c, b), NEW n \in Nat,
           \A i \in Starts(b): EndOf(b, i) < n => i <= Len(c)
    PROVE  Cardinality({k \in DOMAIN Lines(b): Lines(b)[k][2] < n}) <= Len(Lines(c))
<1> DEFINE K == {k \in DOMAIN Lines(b): Lines(b)[k][2] < n}
           S == Starts(c)
           f == [k \in K |-> Lines(b)[k][1]]
<1>1. c \in Seq(Byte) /\ b \in Seq(Byte) /\ Len(c) \in Nat /\ Len(b) \in Nat /\ Len(c) <= Len(b)
  BY DEF Piece
<1>2. \A k \in K: \E i \in Starts(b): Rank(Starts(b), i) = k /\ f[k] = i /\ i \in S
  <2> SUFFICES ASSUME NEW k \in K
               PROVE  \E i \in Starts(b): Rank(Starts(b), i) = k /\ f[k] = i /\ i \in S
    OBVIOUS
  <2>1. PICK i \in Starts(b): /\ i \in 1 .. Len(b) /\ Rank(Starts(b), i) = k
                              /\ Lines(b)[k] = <<i, EndOf(b, i)>>
    BY <1>1, LineStart
  <2>2. EndOf(b, i) < n /\ f[k] = i
    BY <2>1
  <2>3. i \in 1 .. Len(c)
    BY <1>1, <2>1, <2>2
  <2>4. i \in S
    BY <2>3, PieceStarts
  <2> QED
    BY <2>1, <2>2, <2>4
<1>3. f \in Injection(K, S)
  <2>1. f \in [K -> S]
    <3>1. \A k \in K: f[k] \in S
      BY <1>2
    <3> QED
      BY <3>1
  <2>2. \A x, y \in K: f[x] = f[y] => x = y
    <3> HIDE DEF f, K
    <3> QED
      BY <1>2
  <2> QED
    BY <2>1, <2>2 DEF Injection, IsInjective
<1>4. IsFiniteSet(S) /\ Len(Lines(c)) = Cardinality(S)
  <2>1. S \in SUBSET (1 .. Len(c)) /\ IsFiniteSet(1 .. Len(c))
    BY <1>1, StartsWhere, FS_Interval
  <2> QED
    BY <1>1, <2>1, FS_Subset, LinesWhere
<1> HIDE DEF f, S
<1>5. Cardinality(K) <= Cardinality(S)
  BY <1>3, <1>4, FS_Injection
<1> QED
  BY <1>4, <1>5

LEMMA FirstBytes ==
    ASSUME NEW b \in Seq(Byte), NEW m \in 0 .. Len(b)
    PROVE  Piece(SubSeq(b, 1, m), b) /\ Len(SubSeq(b, 1, m)) = m
<1>1. SubSeq(b, 1, m) \in Seq(Byte) /\ Len(SubSeq(b, 1, m)) = m
  OBVIOUS
<1>2. \A j \in 1 .. m: SubSeq(b, 1, m)[j] = b[j]
  OBVIOUS
<1> QED
  BY <1>1, <1>2 DEF Piece

LEMMA ChunkIsPiece ==
    ASSUME NEW b \in Seq(Byte), NEW n \in Nat
    PROVE  LET c == SubSeq(b, 1, Min({n, Len(b)}))
           IN  Piece(c, b) /\ Len(c) = IF n <= Len(b) THEN n ELSE Len(b)
<1> DEFINE m == Min({n, Len(b)})
<1>1. m = IF n <= Len(b) THEN n ELSE Len(b)
  BY SmallerOfTwo
<1> HIDE DEF m
<1>2. m \in 0 .. Len(b)
  BY <1>1
<1>3. Piece(SubSeq(b, 1, m), b) /\ Len(SubSeq(b, 1, m)) = m
  BY <1>2, FirstBytes
<1> QED
  BY <1>1, <1>3 DEF m

LEMMA TakesFirst ==
    ASSUME NEW T, NEW s \in Seq(T), NEW n \in Nat
    PROVE  /\ Len(Take(s, n)) = IF n <= Len(s) THEN n ELSE Len(s)
           /\ DOMAIN Take(s, n) = 1 .. Len(Take(s, n))
           /\ \A k \in DOMAIN Take(s, n): k \in DOMAIN s /\ k <= n /\ Take(s, n)[k] = s[k]
<1> DEFINE m == Min({n, Len(s)})
<1>1. m = (IF n <= Len(s) THEN n ELSE Len(s)) /\ Take(s, n) = SubSeq(s, 1, m)
  BY SmallerOfTwo DEF Take
<1> HIDE DEF m
<1>2. m \in 0 .. Len(s) /\ m <= n
  BY <1>1
<1>3. Len(SubSeq(s, 1, m)) = m /\ DOMAIN SubSeq(s, 1, m) = 1 .. m
  BY <1>2
<1>4. \A k \in 1 .. m: SubSeq(s, 1, m)[k] = s[k] /\ k \in DOMAIN s /\ k <= n
  BY <1>2
<1> QED
  BY <1>1, <1>3, <1>4

\* A head that has whole lines of the file only, and enough of them.
EarlyOf(b) == {k \in DOMAIN Lines(b): Lines(b)[k][2] < FULL_CHUNK}
RightHead(lines, b, max) ==
    /\ \A k \in DOMAIN lines: lines[k] \in ToSet(Lines(b))
    /\ Len(lines) >= Min({max, Cardinality(EarlyOf(b))})

LEMMA EarlyCount ==
    ASSUME NEW b \in Seq(Byte)
    PROVE  Cardinality(EarlyOf(b)) \in Nat
<1>1. Lines(b) \in Seq(Nat \X Nat)
  BY LinesWhere
<1>2. IsFiniteSet(1 .. Len(Lines(b))) /\ EarlyOf(b) \in SUBSET (1 .. Len(Lines(b)))
  <2>1. Len(Lines(b)) \in Nat /\ DOMAIN Lines(b) = 1 .. Len(Lines(b))
    BY <1>1
  <2>2. EarlyOf(b) \in SUBSET (1 .. Len(Lines(b)))
    BY <2>1 DEF EarlyOf
  <2> QED
    BY <2>1, <2>2, FS_Interval
<1> QED
  BY <1>2, FS_Subset, FS_CardinalityType

\* The head is taken from a piece whose lines are whole and that has all that
\* end early.
LEMMA PieceIsRight ==
    ASSUME NEW c, NEW b, Piece(c, b), NEW max \in Nat,
           Len(c) = Len(b) \/ Len(c) = 0 \/ c[Len(c)] = "end",
           \A i \in Starts(b): EndOf(b, i) < FULL_CHUNK => i <= Len(c)
    PROVE  RightHead(Take(Lines(c), max), b, max)
<1>1. c \in Seq(Byte) /\ b \in Seq(Byte)
  BY DEF Piece
<1>2. Lines(c) \in Seq(Nat \X Nat)
  BY <1>1, LinesWhere
<1> DEFINE lines == Take(Lines(c), max)
<1>3. /\ Len(lines) = IF max <= Len(Lines(c)) THEN max ELSE Len(Lines(c))
      /\ \A k \in DOMAIN lines: k \in DOMAIN Lines(c) /\ lines[k] = Lines(c)[k]
  BY <1>2, TakesFirst
<1> HIDE DEF lines
<1>4. \A k \in DOMAIN lines: lines[k] \in ToSet(Lines(b))
  BY <1>3, WholePiece
<1>5. Cardinality(EarlyOf(b)) <= Len(Lines(c))
  BY EarlyLines, SftpReadAssumption DEF EarlyOf
<1>6. Cardinality(EarlyOf(b)) \in Nat /\ Len(Lines(c)) \in Nat
  BY <1>1, <1>2, EarlyCount
<1>7. Min({max, Cardinality(EarlyOf(b))}) = IF max <= Cardinality(EarlyOf(b)) THEN max ELSE Cardinality(EarlyOf(b))
  BY <1>6, SmallerOfTwo
<1>8. Len(lines) >= Min({max, Cardinality(EarlyOf(b))})
  BY <1>3, <1>5, <1>6, <1>7
<1> QED
  BY <1>4, <1>8 DEF RightHead, lines

LEMMA FileIsRight ==
    ASSUME NEW b \in Seq(Byte), NEW max \in Nat
    PROVE  RightHead(Take(Lines(b), max), b, max)
<1>1. Piece(b, b)
  BY DEF Piece
<1>2. \A i \in Starts(b): i <= Len(b)
  BY StartsWhere
<1> QED
  BY <1>1, <1>2, PieceIsRight

LEMMA FirstIsRight ==
    ASSUME NEW b \in Seq(Byte), NEW max \in Nat, NEW c, Piece(c, b),
           Len(c) = IF FIRST_CHUNK <= Len(b) THEN FIRST_CHUNK ELSE Len(b), Enough(c, max)
    PROVE  RightHead(Take(Lines(WithoutTornLine(c)), max), b, max)
<1>1. FIRST_CHUNK \in Nat /\ FULL_CHUNK \in Nat /\ FIRST_CHUNK < FULL_CHUNK /\ Len(b) \in Nat
  BY SftpReadAssumption
<1>2. Piece(c, b) /\ Len(c) = IF FIRST_CHUNK <= Len(b) THEN FIRST_CHUNK ELSE Len(b)
  OBVIOUS
<1>3. WithoutTornLine(c) = c
  BY <1>1, <1>2 DEF WithoutTornLine
<1>4. CASE Len(c) < FIRST_CHUNK
  <2>1. Len(c) = Len(b)
    BY <1>1, <1>2, <1>4
  <2>2. \A i \in Starts(b): i <= Len(c)
    BY <2>1, StartsWhere
  <2> QED
    BY <1>2, <1>3, <2>1, <2>2, PieceIsRight
<1>5. CASE LineEnds(c) >= max
  <2>1. c \in Seq(Byte)
    BY <1>2 DEF Piece
  <2>2. Lines(c) \in Seq(Nat \X Nat) /\ LineEnds(c) \in Nat /\ LineEnds(c) <= Len(Lines(c))
    BY <2>1, LinesWhere, EndedLines
  <2> DEFINE lines == Take(Lines(c), max)
  <2>3. /\ Len(lines) = IF max <= Len(Lines(c)) THEN max ELSE Len(Lines(c))
        /\ \A k \in DOMAIN lines: k \in DOMAIN Lines(c) /\ k <= max /\ lines[k] = Lines(c)[k]
    BY <2>2, TakesFirst
  <2> HIDE DEF lines
  <2>4. \A k \in DOMAIN lines: lines[k] \in ToSet(Lines(b))
    <3> SUFFICES ASSUME NEW k \in DOMAIN lines PROVE lines[k] \in ToSet(Lines(b))
      OBVIOUS
    <3>1. k \in DOMAIN Lines(c) /\ k <= max /\ lines[k] = Lines(c)[k]
      BY <2>3
    <3>2. k \in Nat
      BY <2>2, <3>1
    <3>3. k <= LineEnds(c)
      BY <1>5, <2>2, <3>1, <3>2
    <3> QED
      BY <1>2, <3>1, <3>3, CountedPiece
  <2>5. Len(lines) = max
    BY <1>5, <2>2, <2>3
  <2>6. Cardinality(EarlyOf(b)) \in Nat
    BY EarlyCount
  <2>7. Min({max, Cardinality(EarlyOf(b))}) = IF max <= Cardinality(EarlyOf(b)) THEN max ELSE Cardinality(EarlyOf(b))
    BY <2>6, SmallerOfTwo
  <2>8. Len(lines) >= Min({max, Cardinality(EarlyOf(b))})
    BY <2>5, <2>6, <2>7
  <2> QED
    BY <1>3, <2>4, <2>8 DEF RightHead, lines
<1> QED
  BY <1>4, <1>5 DEF Enough

LEMMA FullIsRight ==
    ASSUME NEW b \in Seq(Byte), NEW max \in Nat, NEW c, Piece(c, b),
           Len(c) = IF FULL_CHUNK <= Len(b) THEN FULL_CHUNK ELSE Len(b)
    PROVE  RightHead(Take(Lines(WithoutTornLine(c)), max), b, max)
<1>1. FULL_CHUNK \in Nat /\ 0 < FULL_CHUNK /\ Len(b) \in Nat
  BY SftpReadAssumption
<1>2. Piece(c, b) /\ Len(c) = IF FULL_CHUNK <= Len(b) THEN FULL_CHUNK ELSE Len(b)
  OBVIOUS
<1>3. c \in Seq(Byte) /\ Len(c) <= Len(b) /\ DOMAIN c = 1 .. Len(c)
  BY <1>2 DEF Piece
<1>4. \A i \in Starts(b): /\ i \in 1 .. Len(b) /\ EndOf(b, i) \in Nat /\ i <= EndOf(b, i) + 1
                          /\ EndOf(b, i) < Len(b) => b[EndOf(b, i) + 1] = "end"
  BY StartsWhere, EndsWhere
<1>5. CASE Len(c) < FULL_CHUNK
  <2>1. WithoutTornLine(c) = c /\ Len(c) = Len(b)
    BY <1>1, <1>2, <1>5 DEF WithoutTornLine
  <2>2. \A i \in Starts(b): i <= Len(c)
    BY <1>4, <2>1
  <2> QED
    BY <1>2, <2>1, <2>2, PieceIsRight
<1>6. CASE ~(Len(c) < FULL_CHUNK) /\ c[Len(c)] = "end"
  <2>1. WithoutTornLine(c) = c /\ Len(c) = FULL_CHUNK
    BY <1>1, <1>2, <1>6 DEF WithoutTornLine
  <2>2. \A i \in Starts(b): EndOf(b, i) < FULL_CHUNK => i <= Len(c)
    BY <1>1, <1>4, <2>1
  <2> QED
    BY <1>2, <1>6, <2>1, <2>2, PieceIsRight
<1>7. CASE ~(Len(c) < FULL_CHUNK) /\ c[Len(c)] # "end"
  <2> DEFINE E == {i \in DOMAIN c: c[i] = "end"} \cup {0}
             m == Max(E)
             d == SubSeq(c, 1, m)
  <2>1. Len(c) = FULL_CHUNK /\ FULL_CHUNK <= Len(b)
    BY <1>1, <1>2, <1>7
  <2>2. WithoutTornLine(c) = d
    BY <1>7 DEF WithoutTornLine
  <2>3. E \in SUBSET Nat /\ E # {} /\ \A x \in E: x <= Len(c)
    BY <1>1, <1>3, <2>1
  <2>4. m \in E /\ \A x \in E: x <= m
    BY <1>1, <2>1, <2>3, GreatestIsMax
  <2> HIDE DEF m
  <2>5. m \in 0 .. Len(c) /\ (m = 0 \/ c[m] = "end")
    BY <2>3, <2>4
  <2>6. Piece(d, c) /\ Len(d) = m
    BY <1>3, <2>5, FirstBytes
  <2>7. Piece(d, b) /\ (Len(d) = 0 \/ d[Len(d)] = "end")
    <3> HIDE DEF d
    <3>1. /\ d \in Seq(Byte) /\ Len(d) <= Len(b) /\ \A j \in 1 .. Len(d): d[j] = c[j] /\ j \in 1 .. Len(c)
      BY <1>1, <1>3, <2>1, <2>5, <2>6 DEF Piece
    <3>2. Piece(d, b)
      BY <1>2, <3>1 DEF Piece
    <3>3. m = 0 \/ m \in 1 .. Len(d)
      BY <2>5, <2>6
    <3> QED
      BY <2>5, <2>6, <3>1, <3>2, <3>3
  <2>8. ASSUME NEW i \in Starts(b), EndOf(b, i) < FULL_CHUNK
        PROVE  i <= Len(d)
    <3> DEFINE e == EndOf(b, i)
    <3>1. e \in Nat /\ i <= e + 1 /\ e < FULL_CHUNK /\ (e < Len(b) => b[e + 1] = "end") /\ i \in Nat
      BY <1>4, <2>8
    <3> HIDE DEF e
    <3>2. e + 1 \in 1 .. Len(c) /\ b[e + 1] = "end"
      BY <1>1, <2>1, <3>1
    <3>3. c[e + 1] = "end"
      BY <1>2, <3>2 DEF Piece
    <3>4. e + 1 \in E
      BY <1>3, <3>2, <3>3
    <3>5. e + 1 <= m /\ m \in Nat
      BY <2>4, <2>5, <3>4
    <3> QED
      BY <2>6, <3>1, <3>5
  <2> QED
    BY <2>2, <2>7, <2>8, PieceIsRight
<1> QED
  BY <1>5, <1>6, <1>7

\* Of a piece that may be cut, only the last line may not be the file's.
LEMMA TornIsLast ==
    ASSUME NEW c, NEW b, Piece(c, b), NEW max \in Nat
    PROVE  \A k \in DOMAIN Take(Lines(c), max): \/ Take(Lines(c), max)[k] \in ToSet(Lines(b))
                                                \/ k = Len(Take(Lines(c), max))
<1>1. Lines(c) \in Seq(Nat \X Nat)
  BY LinesWhere DEF Piece
<1> DEFINE lines == Take(Lines(c), max)
<1>2. /\ Len(lines) = IF max <= Len(Lines(c)) THEN max ELSE Len(Lines(c))
      /\ DOMAIN lines = 1 .. Len(lines)
      /\ \A k \in DOMAIN lines: k \in DOMAIN Lines(c) /\ lines[k] = Lines(c)[k]
  BY <1>1, TakesFirst
<1> HIDE DEF lines
<1>3. ASSUME NEW k \in DOMAIN lines, k # Len(lines)
      PROVE  lines[k] \in ToSet(Lines(b))
  <2>1. k \in DOMAIN Lines(c) /\ lines[k] = Lines(c)[k] /\ k < Len(Lines(c))
    BY <1>1, <1>2, <1>3
  <2> QED
    BY <2>1, TornPiece
<1> QED
  BY <1>3 DEF lines

-----------------------------------------------------------------------------
(* One request.                                                             *)

ReadFields == {"op", "max", "step", "attempt", "bytes", "answer", "lines", "asked", "last", "saw", "degraded"}

ReadType ==
    /\ DOMAIN read = ReadFields
    /\ file \in Seq(Byte)
    /\ read.max \in Nat /\ read.attempt \in 0 .. MAX_RETRIES /\ read.asked \in Nat
    /\ read.step \in {"idle", "first", "full", "file", "stat", "exists", "done"}

\* The piece a head falls back to is the file's as it was read, and too small
\* for a cut to be looked for.
PieceInv == read.step = "full" => Piece(read.bytes, read.saw) /\ Len(read.bytes) < FULL_CHUNK

\* What the steps before the present one, and this one so far, have cost.
CostInv ==
    /\ read.step = "first" => read.asked = read.attempt
    /\ read.step \in {"full", "file", "stat"} =>
          read.attempt <= read.asked /\ read.asked <= MAX_RETRIES + 1 + read.attempt
    /\ read.step \in {"idle", "exists"} => read.asked = 0

PendingInv ==
    /\ read.step # "done" => read.answer = "none" /\ read.degraded = FALSE
    /\ read.step \in {"stat", "exists"} => read.op = read.step

ReadInv == ReadType /\ PieceInv /\ CostInv /\ PendingInv /\ ReadsAreTrue

LEMMA ReadInvInit == SftpInit => ReadInv
<1> SUFFICES ASSUME SftpInit PROVE ReadInv
  OBVIOUS
<1>1. file \in Seq(Byte)
  <2>1. PICK n \in 0 .. MaxBytes: file \in [1 .. n -> Byte]
    BY DEF SftpInit, Byte
  <2>2. n \in Nat
    BY <2>1, SftpReadAssumption
  <2> QED
    BY <2>1, <2>2
<1>2. read = NoRead
  BY DEF SftpInit
<1>3. ReadType /\ PieceInv /\ CostInv /\ PendingInv
  BY <1>1, <1>2, SftpReadAssumption DEF NoRead, ReadType, ReadFields, PieceInv, CostInv, PendingInv
<1>4. ReadsAreTrue
  BY <1>2, SftpReadAssumption DEF NoRead, ReadsAreTrue, HeadLinesAreWhole, HeadIsEnough, Headed, FailsOnlyAfterRetries,
     ExistsIsCautious
<1> QED
  BY <1>3, <1>4 DEF ReadInv

\* One more question is still within the bound.
LEMMA Cost ==
    ASSUME ReadType, CostInv, read.step \notin {"idle", "done"}
    PROVE  read.asked + 1 <= 2 * (MAX_RETRIES + 1)
  BY SftpReadAssumption DEF ReadType, CostInv

LEMMA Transient ==
    /\ classify_sftp_error("io") = "transient"
    /\ \A err \in Errors: classify_sftp_error(err) \in {"not_found", "permanent", "transient"}
  BY DEF classify_sftp_error

LEMMA AsksKeeps ==
    ASSUME ReadInv, Asks
    PROVE  ReadInv'
<1>1. PICK op \in {"head", "file", "stat", "exists"}: \E max \in IF op = "head" THEN HeadLines ELSE {0}:
          read' = [NoRead EXCEPT !.op = op, !.max = max, !.step = FirstStep(op)]
  BY DEF Asks
<1>2. PICK max \in IF op = "head" THEN HeadLines ELSE {0}:
          read' = [NoRead EXCEPT !.op = op, !.max = max, !.step = FirstStep(op)]
  BY <1>1
<1>3. max \in Nat /\ file' = file
  BY SftpReadAssumption DEF Asks
<1>4. /\ DOMAIN read' = ReadFields /\ read'.op = op /\ read'.max = max /\ read'.attempt = 0 /\ read'.asked = 0
      /\ read'.answer = "none" /\ read'.degraded = FALSE
      /\ read'.step = IF op = "head" THEN "first" ELSE op
  BY <1>2 DEF NoRead, ReadFields, FirstStep
<1>5. (ReadType /\ PieceInv /\ CostInv /\ PendingInv)'
  BY <1>3, <1>4, SftpReadAssumption DEF ReadInv, ReadType, PieceInv, CostInv, PendingInv
<1>6. ReadsAreTrue'
  BY <1>4, SftpReadAssumption DEF ReadsAreTrue, HeadLinesAreWhole, HeadIsEnough, Headed, FailsOnlyAfterRetries,
     ExistsIsCautious
<1> QED
  BY <1>5, <1>6 DEF ReadInv

LEMMA ReadsFirstKeeps ==
    ASSUME ReadInv, ReadsFirst
    PROVE  ReadInv'
<1> DEFINE c == Chunk(FIRST_CHUNK)
           r == [Asked("ok") EXCEPT !.bytes = c, !.saw = file]
<1>1. ReadType /\ CostInv /\ PendingInv /\ read.step = "first" /\ file' = file /\ file \in Seq(Byte) /\ read.max \in Nat
  BY DEF ReadInv, ReadsFirst, ReadType
<1>2. Piece(c, file) /\ Len(c) = IF FIRST_CHUNK <= Len(file) THEN FIRST_CHUNK ELSE Len(file)
  BY <1>1, SftpReadAssumption, ChunkIsPiece DEF Chunk
<1> HIDE DEF c
<1>3. /\ DOMAIN r = ReadFields /\ r.bytes = c /\ r.saw = file /\ r.asked = read.asked + 1 /\ r.max = read.max
      /\ r.attempt = read.attempt /\ r.op = read.op /\ r.answer = read.answer /\ r.degraded = read.degraded
      /\ r.last = "ok"
  BY <1>1 DEF Asked, ReadType, ReadFields
<1> HIDE DEF r
<1>4. read' = IF Enough(c, read.max) THEN HeadOf(r, c) ELSE Advances(r, "full")
  BY DEF ReadsFirst, c, r
<1>5. read.asked + 1 <= 2 * (MAX_RETRIES + 1) /\ read.asked = read.attempt /\ read.attempt \in 0 .. MAX_RETRIES
  BY <1>1, Cost DEF CostInv, ReadType
<1>6. CASE Enough(c, read.max)
  <2>1. /\ DOMAIN read' = ReadFields /\ read'.step = "done" /\ read'.answer = "ok" /\ read'.saw = file
        /\ read'.lines = Take(Lines(WithoutTornLine(c)), read.max) /\ read'.asked = read.asked + 1
        /\ read'.max = read.max /\ read'.attempt = read.attempt /\ read'.op = read.op
        /\ read'.degraded = read.degraded /\ read'.last = "ok"
    BY <1>3, <1>4, <1>6 DEF HeadOf, Answers, ReadFields
  <2>2. RightHead(read'.lines, read'.saw, read'.max)
    BY <1>1, <1>2, <1>6, <2>1, FirstIsRight
  <2>3. (ReadType /\ PieceInv /\ CostInv /\ PendingInv)'
    BY <1>1, <2>1 DEF ReadType, PieceInv, CostInv, PendingInv
  <2>4. ReadsAreTrue'
    BY <1>5, <2>1, <2>2 DEF RightHead, EarlyOf, ReadsAreTrue, HeadLinesAreWhole, HeadIsEnough, Headed,
       FailsOnlyAfterRetries, ExistsIsCautious
  <2> QED
    BY <2>3, <2>4 DEF ReadInv
<1>7. CASE ~Enough(c, read.max)
  <2>1. /\ DOMAIN read' = ReadFields /\ read'.step = "full" /\ read'.answer = read.answer /\ read'.saw = file
        /\ read'.bytes = c /\ read'.asked = read.asked + 1
        /\ read'.max = read.max /\ read'.attempt = 0 /\ read'.op = read.op
        /\ read'.degraded = read.degraded
    BY <1>3, <1>4, <1>7 DEF Advances, ReadFields
  <2>2. Len(c) < FULL_CHUNK
    BY <1>1, <1>2, SftpReadAssumption
  <2>3. (ReadType /\ PieceInv /\ CostInv /\ PendingInv)'
    <3>1. /\ MAX_RETRIES \in Nat /\ read'.asked <= MAX_RETRIES + 1 /\ read'.asked \in Nat
      BY <1>1, <1>5, <2>1, SftpReadAssumption DEF ReadType
    <3>2. ReadType'
      BY <1>1, <2>1, <3>1 DEF ReadType
    <3>3. PieceInv'
      BY <1>2, <2>1, <2>2 DEF PieceInv
    <3>4. CostInv' /\ PendingInv'
      BY <1>1, <2>1, <3>1 DEF CostInv, PendingInv
    <3> QED
      BY <3>2, <3>3, <3>4
  <2>4. ReadsAreTrue'
    BY <1>1, <1>5, <2>1 DEF PendingInv, ReadsAreTrue, HeadLinesAreWhole, HeadIsEnough, Headed,
       FailsOnlyAfterRetries, ExistsIsCautious
  <2> QED
    BY <2>3, <2>4 DEF ReadInv
<1> QED
  BY <1>6, <1>7

LEMMA ReadsFullKeeps ==
    ASSUME ReadInv, ReadsFull
    PROVE  ReadInv'
<1> DEFINE c == Chunk(FULL_CHUNK)
<1>1. ReadType /\ CostInv /\ PendingInv /\ read.step = "full" /\ file' = file /\ file \in Seq(Byte) /\ read.max \in Nat
  BY DEF ReadInv, ReadsFull, ReadType
<1>2. Piece(c, file) /\ Len(c) = IF FULL_CHUNK <= Len(file) THEN FULL_CHUNK ELSE Len(file)
  BY <1>1, SftpReadAssumption, ChunkIsPiece DEF Chunk
<1> HIDE DEF c
<1>3. read' = HeadOf([Asked("ok") EXCEPT !.bytes = c, !.saw = file], c)
  BY DEF ReadsFull, c
<1>4. /\ DOMAIN read' = ReadFields /\ read'.step = "done" /\ read'.answer = "ok" /\ read'.saw = file
      /\ read'.lines = Take(Lines(WithoutTornLine(c)), read.max) /\ read'.asked = read.asked + 1
      /\ read'.max = read.max /\ read'.attempt = read.attempt /\ read'.op = read.op
      /\ read'.degraded = read.degraded /\ read'.last = "ok"
  BY <1>1, <1>3 DEF Asked, HeadOf, Answers, ReadType, ReadFields
<1>5. RightHead(read'.lines, read'.saw, read'.max)
  BY <1>1, <1>2, <1>4, FullIsRight
<1>6. read.asked + 1 <= 2 * (MAX_RETRIES + 1)
  BY <1>1, Cost
<1>7. (ReadType /\ PieceInv /\ CostInv /\ PendingInv)'
  BY <1>1, <1>4 DEF ReadType, PieceInv, CostInv, PendingInv
<1>8. ReadsAreTrue'
  BY <1>4, <1>5, <1>6 DEF RightHead, EarlyOf, ReadsAreTrue, HeadLinesAreWhole, HeadIsEnough, Headed,
     FailsOnlyAfterRetries, ExistsIsCautious
<1> QED
  BY <1>7, <1>8 DEF ReadInv

LEMMA ReadsFileKeeps ==
    ASSUME ReadInv, ReadsFile
    PROVE  ReadInv'
<1>1. ReadType /\ CostInv /\ PendingInv /\ read.step = "file" /\ file' = file /\ file \in Seq(Byte) /\ read.max \in Nat
  BY DEF ReadInv, ReadsFile, ReadType
<1>2. read' = [Answers(Asked("ok"), "ok") EXCEPT !.saw = file,
                   !.lines = IF read.op = "head" THEN Take(Lines(file), read.max) ELSE Lines(file)]
  BY DEF ReadsFile
<1>3. /\ DOMAIN read' = ReadFields /\ read'.step = "done" /\ read'.answer = "ok" /\ read'.saw = file
      /\ read.op = "head" => read'.lines = Take(Lines(file), read.max)
      /\ read'.asked = read.asked + 1
      /\ read'.max = read.max /\ read'.attempt = read.attempt /\ read'.op = read.op
      /\ read'.degraded = read.degraded /\ read'.last = "ok"
  BY <1>1, <1>2 DEF Asked, Answers, ReadType, ReadFields
<1>4. read.op = "head" => RightHead(read'.lines, read'.saw, read'.max)
  BY <1>1, <1>3, FileIsRight
<1>5. read.asked + 1 <= 2 * (MAX_RETRIES + 1)
  BY <1>1, Cost
<1>6. (ReadType /\ PieceInv /\ CostInv /\ PendingInv)'
  BY <1>1, <1>3 DEF ReadType, PieceInv, CostInv, PendingInv
<1>7. ReadsAreTrue'
  BY <1>3, <1>4, <1>5 DEF RightHead, EarlyOf, ReadsAreTrue, HeadLinesAreWhole, HeadIsEnough, Headed,
     FailsOnlyAfterRetries, ExistsIsCautious
<1> QED
  BY <1>6, <1>7 DEF ReadInv

LEMMA LooksKeeps ==
    ASSUME ReadInv, Looks
    PROVE  ReadInv'
<1>1. ReadType /\ CostInv /\ PendingInv /\ read.step \in {"stat", "exists"} /\ file' = file
  BY DEF ReadInv, Looks
<1>2. /\ DOMAIN read' = ReadFields /\ read'.step = "done" /\ read'.answer = "ok"
      /\ read'.asked = read.asked + 1
      /\ read'.max = read.max /\ read'.attempt = read.attempt /\ read'.op = read.op
      /\ read'.degraded = read.degraded /\ read'.last = "ok"
  BY <1>1 DEF Looks, Asked, Answers, ReadType, ReadFields
<1>3. read.asked + 1 <= 2 * (MAX_RETRIES + 1) /\ read.op # "head"
  BY <1>1, Cost DEF PendingInv
<1>4. (ReadType /\ PieceInv /\ CostInv /\ PendingInv)'
  BY <1>1, <1>2 DEF ReadType, PieceInv, CostInv, PendingInv
<1>5. ReadsAreTrue'
  BY <1>2, <1>3 DEF ReadsAreTrue, HeadLinesAreWhole, HeadIsEnough, Headed, FailsOnlyAfterRetries, ExistsIsCautious
<1> QED
  BY <1>4, <1>5 DEF ReadInv

LEMMA RetriesKeeps ==
    ASSUME ReadInv, NEW err \in Errors, Retries(err)
    PROVE  ReadInv'
<1>1. /\ ReadType /\ CostInv /\ PendingInv /\ PieceInv /\ read.step \in {"first", "full", "file", "stat"}
      /\ file' = file /\ read.attempt < MAX_RETRIES
  BY DEF ReadInv, Retries, Retry
<1>2. /\ DOMAIN read' = ReadFields /\ read'.step = read.step /\ read'.answer = read.answer
      /\ read'.asked = read.asked + 1 /\ read'.bytes = read.bytes /\ read'.saw = read.saw
      /\ read'.max = read.max /\ read'.attempt = read.attempt + 1 /\ read'.op = read.op
      /\ read'.degraded = read.degraded
  BY <1>1 DEF Retries, Asked, ReadType, ReadFields
<1>3. read.asked + 1 <= 2 * (MAX_RETRIES + 1)
  BY <1>1, Cost
<1>4. (ReadType /\ PieceInv /\ CostInv /\ PendingInv)'
  <2>1. ReadType'
    BY <1>1, <1>2, SftpReadAssumption DEF ReadType
  <2>2. PieceInv' /\ PendingInv'
    BY <1>1, <1>2 DEF PieceInv, PendingInv
  <2>3. CostInv'
    BY <1>1, <1>2, SftpReadAssumption DEF CostInv, ReadType
  <2> QED
    BY <2>1, <2>2, <2>3
<1>5. ReadsAreTrue'
  BY <1>1, <1>2, <1>3 DEF PendingInv, ReadsAreTrue, HeadLinesAreWhole, HeadIsEnough, Headed, FailsOnlyAfterRetries,
     ExistsIsCautious
<1> QED
  BY <1>4, <1>5 DEF ReadInv

LEMMA GivesUpKeeps ==
    ASSUME ReadInv, NEW err \in Errors, GivesUpReading(err)
    PROVE  ReadInv'
<1>1. /\ ReadType /\ CostInv /\ PendingInv /\ PieceInv /\ read.step \notin {"idle", "done"} /\ file' = file
      /\ read.step = "exists" \/ ~Retry(err)
  BY DEF ReadInv, GivesUpReading
<1>2. /\ read.asked + 1 <= 2 * (MAX_RETRIES + 1) /\ read.asked \in Nat /\ MAX_RETRIES \in Nat
      /\ read.attempt \in 0 .. MAX_RETRIES
  BY <1>1, Cost, SftpReadAssumption DEF ReadType
<1> DEFINE a == Asked(err)
<1>3. /\ DOMAIN a = ReadFields /\ a.asked = read.asked + 1 /\ a.last = err /\ a.max = read.max /\ a.op = read.op
      /\ a.attempt = read.attempt /\ a.answer = read.answer /\ a.degraded = read.degraded /\ a.saw = read.saw
      /\ a.step = read.step /\ a.bytes = read.bytes
  BY <1>1 DEF Asked, ReadType, ReadFields
<1>4. read' = CASE read.step = "first" -> Advances(a, "file")
                [] read.step = "full" -> [HeadOf(a, read.bytes) EXCEPT !.degraded = TRUE]
                [] read.step = "exists" -> Answers(a, ExistsAfter(err))
                [] OTHER -> Answers(a, "error")
  BY DEF GivesUpReading
<1> HIDE DEF a
<1>5. CASE read.step = "first"
  <2>1. /\ DOMAIN read' = ReadFields /\ read'.step = "file" /\ read'.answer = read.answer
        /\ read'.asked = read.asked + 1 /\ read'.max = read.max /\ read'.attempt = 0 /\ read'.op = read.op
        /\ read'.degraded = read.degraded
    BY <1>3, <1>4, <1>5 DEF Advances, ReadFields
  <2>2. (ReadType /\ PieceInv /\ CostInv /\ PendingInv)'
    BY <1>1, <1>2, <1>5, <2>1 DEF ReadType, PieceInv, CostInv, PendingInv
  <2>3. ReadsAreTrue'
    BY <1>1, <1>2, <2>1 DEF PendingInv, ReadsAreTrue, HeadLinesAreWhole, HeadIsEnough, Headed, FailsOnlyAfterRetries,
       ExistsIsCautious
  <2> QED
    BY <2>2, <2>3 DEF ReadInv
<1>6. CASE read.step = "full"
  <2>1. read' = [HeadOf(a, read.bytes) EXCEPT !.degraded = TRUE]
    BY <1>4, <1>6
  <2>2. /\ DOMAIN read' = ReadFields /\ read'.step = "done" /\ read'.answer = "ok" /\ read'.saw = read.saw
        /\ read'.lines = Take(Lines(WithoutTornLine(read.bytes)), read.max) /\ read'.asked = read.asked + 1
        /\ read'.max = read.max /\ read'.attempt = read.attempt /\ read'.op = read.op
        /\ read'.degraded = TRUE
    BY <1>3, <2>1 DEF HeadOf, Answers, ReadFields
  <2>3. Piece(read.bytes, read.saw) /\ WithoutTornLine(read.bytes) = read.bytes /\ read.max \in Nat
    BY <1>1, <1>6 DEF PieceInv, WithoutTornLine, ReadType
  <2>4. \A k \in DOMAIN read'.lines: read'.lines[k] \in ToSet(Lines(read'.saw)) \/ k = Len(read'.lines)
    BY <2>2, <2>3, TornIsLast
  <2>5. (ReadType /\ PieceInv /\ CostInv /\ PendingInv)'
    BY <1>1, <1>2, <2>2 DEF ReadType, PieceInv, CostInv, PendingInv
  <2>6. ReadsAreTrue'
    BY <1>2, <2>2, <2>4 DEF ReadsAreTrue, HeadLinesAreWhole, HeadIsEnough, Headed, FailsOnlyAfterRetries,
       ExistsIsCautious
  <2> QED
    BY <2>5, <2>6 DEF ReadInv
<1>7. CASE read.step \in {"exists", "file", "stat"}
  <2> DEFINE ans == IF read.step = "exists" THEN ExistsAfter(err) ELSE "error"
  <2>1. read' = Answers(a, ans)
    BY <1>4, <1>7
  <2>2. /\ DOMAIN read' = ReadFields /\ read'.step = "done" /\ read'.answer = ans
        /\ read'.asked = read.asked + 1 /\ read'.last = err
        /\ read'.max = read.max /\ read'.attempt = read.attempt /\ read'.op = read.op
    BY <1>3, <2>1 DEF Answers, ReadFields
  <2>3. ans # "ok" /\ (ans = "no" => classify_sftp_error(err) # "transient") /\ (ans = "error" => read.step # "exists")
    BY DEF ExistsAfter
  <2>4. ans = "error" /\ classify_sftp_error(err) = "transient" => read.asked >= MAX_RETRIES
    <3> SUFFICES ASSUME ans = "error", classify_sftp_error(err) = "transient" PROVE read.asked >= MAX_RETRIES
      OBVIOUS
    <3>1. read.step \in {"file", "stat"} /\ ~Retry(err)
      BY <1>1, <1>7, <2>3
    <3>2. ~(read.attempt < MAX_RETRIES)
      BY <3>1 DEF Retry, Wrapped
    <3> QED
      BY <1>1, <1>2, <3>1, <3>2 DEF CostInv
  <2> HIDE DEF ans
  <2>5. (ReadType /\ PieceInv /\ CostInv /\ PendingInv)'
    BY <1>1, <1>2, <2>2 DEF ReadType, PieceInv, CostInv, PendingInv
  <2>6. ReadsAreTrue'
    BY <1>2, <2>2, <2>3, <2>4 DEF ReadsAreTrue, HeadLinesAreWhole, HeadIsEnough, Headed, FailsOnlyAfterRetries,
       ExistsIsCautious
  <2> QED
    BY <2>5, <2>6 DEF ReadInv
<1> QED
  BY <1>1, <1>5, <1>6, <1>7 DEF ReadType

LEMMA AgentWritesKeeps ==
    ASSUME ReadInv, AgentWrites
    PROVE  ReadInv'
<1>1. read' = read
  BY DEF AgentWrites
<1>2. file' \in Seq(Byte)
  BY DEF AgentWrites, Byte, ReadInv, ReadType
<1> QED
  BY <1>1, <1>2 DEF ReadInv, ReadType, PieceInv, CostInv, PendingInv, ReadsAreTrue, HeadLinesAreWhole, HeadIsEnough,
     Headed, FailsOnlyAfterRetries, ExistsIsCautious

LEMMA ReadInvStep == ReadInv /\ [SftpNext]_sftpVars => ReadInv'
<1> SUFFICES ASSUME ReadInv, [SftpNext]_sftpVars PROVE ReadInv'
  OBVIOUS
<1>1. CASE UNCHANGED sftpVars
  BY <1>1 DEF sftpVars, ReadInv, ReadType, PieceInv, CostInv, PendingInv, ReadsAreTrue, HeadLinesAreWhole,
     HeadIsEnough, Headed, FailsOnlyAfterRetries, ExistsIsCautious
<1>2. CASE \E err \in Errors: Meets(err) /\ (Retries(err) \/ GivesUpReading(err))
  BY <1>2, RetriesKeeps, GivesUpKeeps
<1> QED
  BY <1>1, <1>2, AsksKeeps, ReadsFirstKeeps, ReadsFullKeeps, ReadsFileKeeps, LooksKeeps, AgentWritesKeeps DEF SftpNext

\* However often the server fails and the agent writes on, a head shows whole
\* lines of the file only, but for one at the end of a piece that could not be
\* made larger, and as many as were asked for if the larger piece has them; no
\* request is tried beyond its attempts or given up before them because of an
\* error that may pass, and no such error makes a file disappear.
THEOREM WhatIsReadIsTrue == SftpSpec => []ReadsAreTrue
<1>1. ReadInv => ReadsAreTrue
  BY DEF ReadInv
<1> QED
  BY <1>1, ReadInvInit, ReadInvStep, PTL DEF SftpSpec
=============================================================================
