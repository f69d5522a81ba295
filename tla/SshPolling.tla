------------------------------ MODULE SshPolling ------------------------------
(***************************************************************************)
(* The FileWatcher of an SSH context: a task polls the remote roots,       *)
(* compares the sizes it finds with those of the last poll and broadcasts  *)
(* what was added, changed or removed.                                     *)
(*                                                                         *)
(* The poll state is behind one lock, which do_poll holds while it reads   *)
(* the remote side, but not between taking the guard and reading, nor      *)
(* while it sends.  stop() aborts the task, which only ends at its next    *)
(* await that has to wait: until then it polls on, over the roots it was   *)
(* started with, next to the task of a new start.                          *)
(***************************************************************************)
EXTENDS Naturals, FiniteSets

CONSTANTS Roots,      \* directories given to watch()
          Watchable,  \* the sets of them that may exist when a watcher is started
          ExtraRoots, \* those that belong to another agent
          Projects,   \* their subdirectories
          RootOf,     \* Projects -> Roots
          Files,      \* what may exist in them
          ProjectOf,  \* Files -> Projects
          MemoryFiles,\* the files in the memory directory of their project
          MaxSize,    \* bound: length of a file
          HeadSize,   \* length from which on a session's header is complete
          MaxWrites,  \* bound: changes of the remote files
          MaxFails,   \* bound: polls and events met by a transient failure
          MaxStarts   \* bound: times the watcher is started

ASSUME PollingAssumption ==
    /\ Watchable \subseteq SUBSET Roots
    /\ ExtraRoots \subseteq Roots
    /\ RootOf \in [Projects -> Roots]
    /\ ProjectOf \in [Files -> Projects]
    /\ MemoryFiles \subseteq Files
    /\ MaxSize \in Nat \ {0}
    /\ HeadSize \in 1..MaxSize
    /\ MaxWrites \in Nat
    /\ MaxFails \in Nat
    /\ MaxStarts \in Nat

Tasks == 1..MaxStarts

VARIABLES remote,  \* the length of every remote file, 0 when there is none
          roots,   \* the roots each poll task was started with
          timer,   \* the task whose handle is kept, 0 when not watching
          primed,  \* the baseline has been read
          sizes,   \* polled_file_sizes, 0 when not tracked
          busy,    \* poll_in_progress
          absent,  \* projects whose memory directory is known not to exist
          pc,      \* the next step of every task
          doomed,  \* aborted tasks
          pending, \* the events a task is still to send
          told,    \* files a subscriber that saw the baseline takes to exist
          starts,
          writes,
          fails

state == <<roots, primed, sizes, busy, absent>>
pollingVars == <<remote, state, timer, pc, doomed, pending, told, starts, writes, fails>>

RootOfFile(f) == RootOf[ProjectOf[f]]
Extra(f) == RootOfFile(f) \in ExtraRoots
Goto(t, label) == pc' = [pc EXCEPT ![t] = label]

\* Sessions are created at any length; only files of other agents are told
\* by their header.
Readable(f) == remote[f] >= HeadSize

\* Only these may have a memory directory.
MemoryProjects == {ProjectOf[f] : f \in MemoryFiles}
HasMemory(p) == \E f \in MemoryFiles : ProjectOf[f] = p /\ remote[f] # 0

-----------------------------------------------------------------------------
PollingInit ==
    /\ remote \in [Files -> 0..MaxSize]
    /\ roots = [t \in Tasks |-> {}]
    /\ timer = 0
    /\ primed = FALSE
    /\ sizes = [f \in Files |-> 0]
    /\ busy = FALSE
    /\ absent = {}
    /\ pc = [t \in Tasks |-> "new"]
    /\ doomed = {}
    /\ pending = [t \in Tasks |-> {}]
    /\ told = {}
    /\ starts = 0
    /\ writes = 0
    /\ fails = 0

\* A remote program writes, appends to or removes a file.
RemoteWrite(f, size) ==
    /\ writes < MaxWrites
    /\ remote[f] # size
    /\ remote' = [remote EXCEPT ![f] = size]
    /\ writes' = writes + 1
    /\ UNCHANGED <<state, timer, pc, doomed, pending, told, starts, fails>>

-----------------------------------------------------------------------------
\* start_ssh_polling: the new task takes its roots along; the memory cache survives.
Start(watchable) ==
    /\ timer = 0
    /\ starts < MaxStarts
    /\ watchable # {}
    /\ starts' = starts + 1
    /\ roots' = [roots EXCEPT ![starts + 1] = watchable]
    /\ primed' = FALSE
    /\ sizes' = [f \in Files |-> 0]
    /\ busy' = FALSE
    /\ timer' = starts + 1
    /\ Goto(starts + 1, "sleep")
    /\ UNCHANGED <<remote, absent, doomed, pending, told, writes, fails>>

\* FileWatcher::stop.
Stop ==
    /\ timer # 0
    /\ doomed' = doomed \cup {timer}
    /\ timer' = 0
    /\ primed' = FALSE
    /\ sizes' = [f \in Files |-> 0]
    /\ busy' = FALSE
    /\ UNCHANGED <<remote, roots, absent, pc, pending, told, starts, writes, fails>>

-----------------------------------------------------------------------------
(* The poll task.                                                           *)

Wake(t) ==
    /\ pc[t] = "sleep"
    /\ t \notin doomed
    /\ Goto(t, "awake")
    /\ UNCHANGED <<remote, state, timer, doomed, pending, told, starts, writes, fails>>

\* poll_for_changes: take the guard, or leave.
Enter(t) ==
    /\ pc[t] = "awake"
    /\ Goto(t, IF busy THEN "sleep" ELSE "scan")
    /\ busy' = TRUE
    /\ UNCHANGED <<remote, roots, primed, sizes, absent, timer, doomed, pending, told,
                   starts, writes, fails>>

\* What is read when these directories cannot be: a project directory takes
\* its memory directory along, and a memory directory known to be absent is
\* not looked at.
Scanned(t, badRoots, badProjects) ==
    {p \in Projects : RootOf[p] \in roots[t] \ badRoots /\ p \notin badProjects}

Seen(t, badRoots, badProjects, badMemory) ==
    {f \in Files :
        /\ remote[f] # 0
        /\ ProjectOf[f] \in Scanned(t, badRoots, badProjects)
        /\ f \in MemoryFiles => ProjectOf[f] \notin badMemory \cup absent}


\* Mutant: only what a poll sees is reported.
EventsOfSeen(seen) ==
    {<<f, "add">> : f \in {g \in seen : primed /\ sizes[g] = 0}}
    \cup {<<f, "change">> : f \in {g \in seen : sizes[g] \notin {0, remote[g]}}}

EventsOf(seen) ==
    {<<f, "add">> : f \in {g \in seen : primed /\ sizes[g] = 0}}
    \cup {<<f, "change">> : f \in {g \in seen : sizes[g] \notin {0, remote[g]}}}
    \cup {<<f, "unlink">> : f \in {g \in Files \ seen : primed /\ sizes[g] # 0}}

\* Mutant: whatever the look at a memory directory finds, it is not looked at again.
FoundAbsentAlways(t, badRoots, badProjects, badMemory) ==
    (MemoryProjects \cap Scanned(t, badRoots, badProjects)) \ badMemory

\* The memory directories that are found not to exist.
FoundAbsent(t, badRoots, badProjects, badMemory) ==
    {p \in (MemoryProjects \cap Scanned(t, badRoots, badProjects)) \ badMemory : ~HasMemory(p)}

\* do_poll of a task over its own roots, until it releases the lock: nothing
\* when every root fails.
ScanWith(t, badRoots, badProjects, badMemory) ==
    LET seen == Seen(t, badRoots, badProjects, badMemory) IN
    /\ pc[t] = "scan"
    /\ IF roots[t] \subseteq badRoots
       THEN Goto(t, "clear") /\ UNCHANGED <<state, pending, told>>
       ELSE /\ Goto(t, "send")
            /\ sizes' = [f \in Files |-> IF f \in seen THEN remote[f]
                                         ELSE IF primed THEN 0 ELSE sizes[f]]
            /\ pending' = [pending EXCEPT ![t] = EventsOf(seen)]
            /\ told' = IF primed THEN told ELSE seen
            /\ absent' = absent \cup FoundAbsent(t, badRoots, badProjects, badMemory)
            /\ primed' = TRUE
            /\ UNCHANGED <<roots, busy>>
    /\ UNCHANGED <<remote, timer, doomed, starts, writes>>

Scan(t) == ScanWith(t, {}, {}, {}) /\ UNCHANGED fails

ScanFails(t) ==
    /\ fails < MaxFails
    /\ fails' = fails + 1
    /\ \E badRoots \in SUBSET roots[t], badProjects \in SUBSET Projects,
          badMemory \in SUBSET MemoryProjects :
          /\ badRoots \cup badProjects \cup badMemory # {}
          /\ ScanWith(t, badRoots, badProjects, badMemory)

Deliver(t, e, ok) ==
    /\ pc[t] = "send"
    /\ pending' = [pending EXCEPT ![t] = @ \ {e}]
    /\ told' = IF ~ok THEN told
               ELSE IF e[2] = "unlink" THEN told \ {e[1]} ELSE told \cup {e[1]}
    /\ UNCHANGED <<remote, state, timer, pc, doomed, starts, writes>>

\* emit_event: the header of another agent's session is read again, even if
\* the file has just been removed.
Send(t, e) ==
    /\ e \in pending[t]
    /\ Deliver(t, e, Extra(e[1]) => Readable(e[1]))
    /\ UNCHANGED fails

SendFails(t, e) ==
    /\ e \in pending[t]
    /\ Extra(e[1])
    /\ fails < MaxFails
    /\ fails' = fails + 1
    /\ Deliver(t, e, FALSE)

Sent(t) ==
    /\ pc[t] = "send"
    /\ pending[t] = {}
    /\ Goto(t, "clear")
    /\ UNCHANGED <<remote, state, timer, doomed, pending, told, starts, writes, fails>>

\* Mutant: the guard is not given back.
ClearKeepsGuard(t) ==
    /\ pc[t] = "clear"
    /\ Goto(t, "sleep")
    /\ UNCHANGED <<remote, state, timer, doomed, pending, told, starts, writes, fails>>

Clear(t) ==
    /\ pc[t] = "clear"
    /\ Goto(t, "sleep")
    /\ busy' = FALSE
    /\ UNCHANGED <<remote, roots, primed, sizes, absent, timer, doomed, pending, told,
                   starts, writes, fails>>

\* An aborted task ends where it has to wait: for the time or for the lock.
Die(t) ==
    /\ t \in doomed
    /\ pc[t] \in {"sleep", "awake", "scan", "clear"}
    /\ Goto(t, "gone")
    /\ UNCHANGED <<remote, state, timer, doomed, pending, told, starts, writes, fails>>

\* MemoryDirCacheEntry::is_fresh: 60 seconds have passed.
Expire(p) ==
    /\ p \in absent
    /\ absent' = absent \ {p}
    /\ UNCHANGED <<remote, roots, primed, sizes, busy, timer, pc, doomed, pending, told,
                   starts, writes, fails>>

-----------------------------------------------------------------------------
Poll(t) ==
    \/ Wake(t)
    \/ Enter(t)
    \/ Scan(t)
    \/ ScanFails(t)
    \/ \E e \in Files \X {"add", "change", "unlink"} : Send(t, e) \/ SendFails(t, e)
    \/ Sent(t)
    \/ Clear(t)

PollingNext ==
    \/ \E f \in Files, size \in 0..MaxSize : RemoteWrite(f, size)
    \/ \E watchable \in Watchable : Start(watchable)
    \/ Stop
    \/ \E t \in Tasks : Poll(t) \/ Die(t)
    \/ \E p \in MemoryProjects : Expire(p)

PollingSpec == PollingInit /\ [][PollingNext]_pollingVars

\* The runtime's timer fires and runs what is ready, and 60 seconds pass.
FairSpec ==
    /\ PollingSpec
    /\ \A t \in Tasks : WF_pollingVars(Poll(t))
    /\ \A p \in MemoryProjects : WF_pollingVars(Expire(p))

-----------------------------------------------------------------------------
(* Properties.                                                              *)

Tracked == {f \in Files : sizes[f] # 0}
NothingToSend == \A t \in Tasks : pending[t] = {}
Present == {f \in Files : remote[f] # 0 /\ timer # 0 /\ RootOfFile(f) \in roots[timer]}

\* Every variable has its type; a watcher that is not watching has no
\* baseline, and the task whose handle is kept was not aborted (mod.rs:192).
PollingTypeOK ==
    /\ remote \in [Files -> 0..MaxSize]
    /\ roots \in [Tasks -> SUBSET Roots]
    /\ timer \in 0..starts
    /\ primed \in BOOLEAN
    /\ sizes \in [Files -> 0..MaxSize]
    /\ busy \in BOOLEAN
    /\ absent \subseteq MemoryProjects
    /\ pc \in [Tasks -> {"new", "sleep", "awake", "scan", "send", "clear", "gone"}]
    /\ doomed \subseteq 1..starts
    /\ timer \notin doomed
    /\ pending \in [Tasks -> SUBSET (Files \X {"add", "change", "unlink"})]
    /\ told \subseteq Files
    /\ starts \in 0..MaxStarts
    /\ writes \in 0..MaxWrites
    /\ fails \in 0..MaxFails

\* The events of a poll are the difference between what it tracks and what
\* the polls before it tracked (ssh_polling.rs:139): whatever fails, once they
\* are sent a subscriber knows just the tracked files of the main root.  (A
\* watcher that is started again may still send events of before.)
EventsAddUp ==
    starts = 1 /\ timer # 0 /\ primed /\ NothingToSend =>
        \A f \in Files : ~Extra(f) => (f \in told <=> f \in Tracked)

\* Files under a root that another task reads and this one does not.
OnlyOthersRead(t) ==
    {f \in Files : \E u \in Tasks \ {t} : RootOfFile(f) \in roots[u] \ roots[t]}

\* While no read fails, a poll reports as removed only a file that is gone
\* (ssh_polling.rs:158), also when its memory directory comes and goes and over
\* any restart - or one it does not read: the sizes are those of the watcher, and
\* a task that was aborted reads other roots (ssh_polling.rs:41) next to its successor.
RemovedIsGone ==
    [][fails' = 0 =>
          \A t \in Tasks, f \in Files :
              <<f, "unlink">> \in pending'[t] \ pending[t] =>
                  remote[f] = 0 \/ f \in OnlyOthersRead(t)]_pollingVars

\* However the polls failed before: while a watcher that was started once runs
\* and the remote side is quiet, the subscribers come to know the files of the
\* main root.
CatchesUp ==
    [](starts <= 1) =>
        <>[](timer # 0 => \A f \in Files : ~Extra(f) => (f \in told <=> f \in Present))

\* The watcher keeps its form, and what it has sent adds up to what it tracks.
WatcherIsSound == PollingTypeOK /\ EventsAddUp
=============================================================================
