-------------------------- MODULE ContextLifecycle --------------------------
(***************************************************************************)
(* The workspace contexts of the application and their watcher tasks.      *)
(*                                                                         *)
(* A ContextManager (one RwLock) maps context ids to ServiceContexts and   *)
(* remembers the active id.  Every ServiceContext owns two FileWatchers,   *)
(* the main one and the todo one, and a slot for the CancellationToken of  *)
(* the tasks spawned last.  Spawning creates a token and starts one task   *)
(* per kind; the tasks run on their own: a task that was cancelled before  *)
(* it ran still starts its watcher when it is scheduled.                   *)
(*                                                                         *)
(* Requests (Tauri commands and HTTP handlers) run concurrently and take   *)
(* the manager's lock for writing (switch, connect, disconnect) or, for    *)
(* the second half of a rebuild, for reading.  One more process, the       *)
(* listener of lib.rs, reacts to the Disconnected statuses that the SSH    *)
(* connection manager broadcasts.                                          *)
(***************************************************************************)
EXTENDS Naturals, FiniteSets

CONSTANTS Hosts,      \* the remote hosts; a host is also its context's id
          Requests,   \* the requests that may be in flight at a time
          Kinds,      \* the tasks of a spawn: a subset of AllKinds
          NoHost,     \* "no SSH connection" and "no host in this request"
          NoProc,     \* nobody holds the lock
          MaxInst,    \* bound: ServiceContexts ever created
          MaxGen,     \* bound: spawns (tokens) ever created
          MaxDisc     \* bound: Disconnected statuses waiting in the channel

Local == "local"
Listener == "listener"

Ids == Hosts \cup {Local}
Procs == Requests \cup {Listener}

\* The main listener and the todo listener start a FileWatcher; the error
\* pipeline only subscribes to the main one.
WatchKinds == {"main", "todo"}
AllKinds == WatchKinds \cup {"errors"}

Insts == 1..MaxInst
Gens == 1..MaxGen

ASSUME ConstantsAssumption ==
    /\ MaxInst \in Nat \ {0}
    /\ MaxGen \in Nat \ {0}
    /\ MaxDisc \in Nat
    /\ Kinds \subseteq AllKinds
    /\ NoHost \notin Ids
    /\ Local \notin Hosts
    /\ NoProc \notin Procs
    /\ Listener \notin Requests

VARIABLES contexts,   \* id -> the registered instance, 0 when there is none
          active,     \* ContextManager.active_id
          writer,     \* who holds the manager's lock for writing
          readers,    \* who holds it for reading across an await
          from,       \* the writer's move: the context it stops,
          to,         \*   the context it starts,
          after,      \*   and what it does once that is done
          pc,         \* the next step of every process
          spawned,    \* the spawn a process has not stored yet, 0: none
          host,       \* the host a connect is for
          built,      \* the instance a connect has built, 0: none
          insts,      \* instances created so far
          gens,       \* spawns so far
          slot,       \* watcher_cancel_token of every instance, 0 when None
          owner,      \* the instance a spawn belongs to
          cancelled,  \* the spawns whose token was cancelled
          task,       \* the state of every task of every spawn
          watching,   \* the FileWatchers of an instance that are running
          link,       \* the host SshConnectionManager is connected to
          dialing,    \* who holds the SSH manager's lock while connecting
          disc        \* Disconnected statuses the listener has not taken

lockVars == <<writer, readers>>
moveVars == <<from, to, after>>
connVars == <<host, built>>
tokenVars == <<slot, cancelled>>
taskVars == <<gens, owner, task, watching>>
sshVars == <<link, dialing, disc>>
vars == <<contexts, active, writer, readers, from, to, after, pc, spawned, host,
          built, insts, gens, slot, owner, cancelled, task, watching, link,
          dialing, disc>>

-----------------------------------------------------------------------------
PCs == {"idle", "dial", "linked", "built", "leave", "unlink", "respawn",
        "cancel", "stopMain", "stopTodo", "toLocal", "spawn", "store",
        "destroy", "register"}

\* What a writer does when its move is done: release the lock, destroy the
\* context it left, or (connect, which only stopped the old context so far)
\* make the move to the local context.
Afters == {"release", "destroy", "toLocal"}

At(p, label) == pc[p] = label
Goto(p, label) == pc' = [pc EXCEPT ![p] = label]

WriteLockFree == writer = NoProc /\ readers = {}
ReadLockFree == writer = NoProc

\* The context a process spawns tasks for: a rebuild holds the lock for
\* reading and means the local context.
Target(p) == IF p \in readers THEN contexts[Local] ELSE contexts[to]

CancelSlot(i) ==
    cancelled' = IF slot[i] = 0 THEN cancelled ELSE cancelled \cup {slot[i]}

\* active_id := n, then watcher lifecycle o -> n under the write lock.
BeginMove(o, n, then) ==
    /\ active' = n
    /\ from' = o
    /\ to' = n
    /\ after' = then

EndMove ==
    /\ from' = Local
    /\ to' = Local
    /\ after' = "release"

-----------------------------------------------------------------------------
(* lib.rs registers the local context and spawns its tasks before any       *)
(* command can run.                                                         *)
Init ==
    /\ contexts = [id \in Ids |-> IF id = Local THEN 1 ELSE 0]
    /\ active = Local
    /\ writer = NoProc
    /\ readers = {}
    /\ from = Local /\ to = Local /\ after = "release"
    /\ pc = [p \in Procs |-> "idle"]
    /\ spawned = [p \in Procs |-> 0]
    /\ host = [p \in Procs |-> NoHost]
    /\ built = [p \in Procs |-> 0]
    /\ insts = 1
    /\ gens = 1
    /\ slot = [i \in Insts |-> IF i = 1 THEN 1 ELSE 0]
    /\ owner = [g \in Gens |-> IF g = 1 THEN 1 ELSE 0]
    /\ cancelled = {}
    /\ task = [g \in Gens |-> [k \in Kinds |-> IF g = 1 THEN "pending" ELSE "none"]]
    /\ watching = [i \in Insts |-> {}]
    /\ link = NoHost
    /\ dialing = NoProc
    /\ disc = 0

-----------------------------------------------------------------------------
(* The watcher lifecycle: stop_watcher_tasks of the old context, then       *)
(* spawn_watcher_tasks of the new one.                                      *)

\* stop_watcher_tasks: take the token out of the slot and cancel it.
CancelToken(p) ==
    /\ At(p, "cancel")
    /\ Goto(p, "stopMain")
    /\ CancelSlot(contexts[from])
    /\ slot' = [slot EXCEPT ![contexts[from]] = 0]
    /\ UNCHANGED <<contexts, active, lockVars, moveVars, spawned, connVars, insts,
                   taskVars, sshVars>>

\* FileWatcher::stop of the main watcher, then of the todo watcher.
StopMain(p) ==
    /\ At(p, "stopMain")
    /\ Goto(p, "stopTodo")
    /\ watching' = [watching EXCEPT ![contexts[from]] = @ \ {"main"}]
    /\ UNCHANGED <<contexts, active, lockVars, moveVars, spawned, connVars, insts,
                   tokenVars, gens, owner, task, sshVars>>

StopTodo(p) ==
    /\ At(p, "stopTodo")
    /\ Goto(p, IF after = "toLocal" THEN "toLocal" ELSE "spawn")
    /\ watching' = [watching EXCEPT ![contexts[from]] = @ \ {"todo"}]
    /\ UNCHANGED <<contexts, active, lockVars, moveVars, spawned, connVars, insts,
                   tokenVars, gens, owner, task, sshVars>>

\* spawn_all: a fresh token and one task per kind.
SpawnAll(p) ==
    /\ At(p, "spawn")
    /\ gens < MaxGen
    /\ Goto(p, "store")
    /\ gens' = gens + 1
    /\ owner' = [owner EXCEPT ![gens + 1] = Target(p)]
    /\ task' = [task EXCEPT ![gens + 1] = [k \in Kinds |-> "pending"]]
    /\ spawned' = [spawned EXCEPT ![p] = gens + 1]
    /\ UNCHANGED <<contexts, active, lockVars, moveVars, connVars, insts, tokenVars,
                   watching, sshVars>>

\* Mutant: the new token overwrites the old one, which is not cancelled.
StoreTokenOverwrites(p) ==
    /\ At(p, "store")
    /\ slot' = [slot EXCEPT ![Target(p)] = spawned[p]]
    /\ spawned' = [spawned EXCEPT ![p] = 0]
    /\ IF p \in readers \/ after = "release"
       THEN /\ Goto(p, "idle")
            /\ writer' = NoProc
            /\ readers' = readers \ {p}
            /\ EndMove
       ELSE /\ Goto(p, "destroy")
            /\ UNCHANGED <<lockVars, moveVars>>
    /\ UNCHANGED <<contexts, active, connVars, insts, cancelled, taskVars, sshVars>>

\* spawn_watcher_tasks: cancel the token found in the slot, store the new
\* one.  The caller is done unless it has to destroy the old context.
StoreToken(p) ==
    /\ At(p, "store")
    /\ CancelSlot(Target(p))
    /\ slot' = [slot EXCEPT ![Target(p)] = spawned[p]]
    /\ spawned' = [spawned EXCEPT ![p] = 0]
    /\ IF p \in readers \/ after = "release"
       THEN /\ Goto(p, "idle")
            /\ writer' = NoProc
            /\ readers' = readers \ {p}
            /\ EndMove
       ELSE /\ Goto(p, "destroy")
            /\ UNCHANGED <<lockVars, moveVars>>
    /\ UNCHANGED <<contexts, active, connVars, insts, taskVars, sshVars>>

-----------------------------------------------------------------------------
\* Mutant: the new context is stopped and the old one started.
ContextSwitchSwapped(p, id) ==
    /\ At(p, "idle")
    /\ WriteLockFree
    /\ contexts[id] # 0
    /\ id # active
    /\ active' = id /\ from' = id /\ to' = active /\ after' = "release"
    /\ writer' = p
    /\ Goto(p, "cancel")
    /\ UNCHANGED <<contexts, readers, spawned, connVars, insts, tokenVars, taskVars,
                   sshVars>>

\* Mutant: the tasks of the old context are not stopped.
ContextSwitchKeepsOld(p, id) ==
    /\ At(p, "idle")
    /\ WriteLockFree
    /\ contexts[id] # 0
    /\ id # active
    /\ BeginMove(active, id, "release")
    /\ writer' = p
    /\ Goto(p, "spawn")
    /\ UNCHANGED <<contexts, readers, spawned, connVars, insts, tokenVars, taskVars,
                   sshVars>>

(* context_switch, the command and the HTTP route.  An unknown id is an     *)
(* error, the active id a no-op: neither changes anything.                  *)
ContextSwitch(p, id) ==
    /\ At(p, "idle")
    /\ WriteLockFree
    /\ contexts[id] # 0
    /\ id # active
    /\ BeginMove(active, id, "release")
    /\ writer' = p
    /\ Goto(p, "cancel")
    /\ UNCHANGED <<contexts, readers, spawned, connVars, insts, tokenVars, taskVars,
                   sshVars>>

-----------------------------------------------------------------------------
(* SshService::connect.                                                     *)

\* SshConnectionManager::connect first drops the connection there is, which
\* broadcasts Disconnected; the SSH manager's lock is kept until the end.
ConnectDial(p, h) ==
    /\ At(p, "idle")
    /\ dialing = NoProc
    /\ disc < MaxDisc
    /\ Goto(p, "dial")
    /\ dialing' = p
    /\ link' = NoHost
    /\ disc' = IF link = NoHost THEN disc ELSE disc + 1
    /\ host' = [host EXCEPT ![p] = h]
    /\ UNCHANGED <<contexts, active, lockVars, moveVars, spawned, built, insts,
                   tokenVars, taskVars>>

ConnectEstablished(p) ==
    /\ At(p, "dial")
    /\ Goto(p, "linked")
    /\ link' = host[p]
    /\ dialing' = NoProc
    /\ UNCHANGED <<contexts, active, lockVars, moveVars, spawned, connVars, insts,
                   tokenVars, taskVars, disc>>

ConnectFailed(p) ==
    /\ At(p, "dial")
    /\ Goto(p, "idle")
    /\ dialing' = NoProc
    /\ host' = [host EXCEPT ![p] = NoHost]
    /\ UNCHANGED <<contexts, active, lockVars, moveVars, spawned, built, insts,
                   tokenVars, taskVars, link, disc>>

\* build_ssh_context: the connection may be gone again, then the request
\* ends with an error.
BuildSshContext(p) ==
    /\ At(p, "linked")
    /\ dialing = NoProc
    /\ IF link = NoHost
       THEN /\ Goto(p, "idle")
            /\ host' = [host EXCEPT ![p] = NoHost]
            /\ UNCHANGED <<insts, built>>
       ELSE /\ insts < MaxInst
            /\ Goto(p, "built")
            /\ insts' = insts + 1
            /\ built' = [built EXCEPT ![p] = insts + 1]
            /\ UNCHANGED host
    /\ UNCHANGED <<contexts, active, lockVars, moveVars, spawned, tokenVars,
                   taskVars, sshVars>>

\* The write-locked block of connect.  On an SSH context the request first
\* stops its watchers; then it registers the new context.
EnterSsh(p) ==
    /\ At(p, "built")
    /\ WriteLockFree
    /\ writer' = p
    /\ IF active = Local
       THEN /\ Goto(p, "register")
            /\ UNCHANGED moveVars
       ELSE /\ Goto(p, "cancel")
            /\ from' = active
            /\ after' = "toLocal"
            /\ UNCHANGED to
    /\ UNCHANGED <<contexts, active, readers, spawned, connVars, insts, tokenVars,
                   taskVars, sshVars>>

\* ... switches to the local context, whose lifecycle stops the old watchers
\* once more, starts the local ones, and then destroys the old context ...
TearDown(p) ==
    /\ At(p, "toLocal")
    /\ BeginMove(active, Local, "destroy")
    /\ Goto(p, "cancel")
    /\ UNCHANGED <<contexts, lockVars, spawned, connVars, insts, tokenVars, taskVars,
                   sshVars>>

\* destroy_context: cancel the token, forget the context, never stop its
\* FileWatchers.  connect goes on to register, disconnect to the SSH manager.
DestroyContext(p) ==
    /\ At(p, "destroy")
    /\ contexts' = [contexts EXCEPT ![from] = 0]
    /\ CancelSlot(contexts[from])
    /\ slot' = [slot EXCEPT ![contexts[from]] = 0]
    /\ active' = IF active = from THEN Local ELSE active
    /\ EndMove
    /\ IF host[p] # NoHost
       THEN /\ Goto(p, "register")
            /\ UNCHANGED writer
       ELSE /\ Goto(p, IF p = Listener THEN "idle" ELSE "unlink")
            /\ writer' = NoProc
    /\ UNCHANGED <<readers, spawned, connVars, insts, taskVars, sshVars>>

\* register_context fails when the host still has a context; the request
\* then ends with an error and leaves the connection up.
RegisterContext(p) ==
    LET h == host[p] IN
    /\ At(p, "register")
    /\ IF contexts[h] # 0
       THEN /\ Goto(p, "idle")
            /\ writer' = NoProc
            /\ UNCHANGED <<contexts, active, moveVars>>
       ELSE /\ Goto(p, "cancel")
            /\ contexts' = [contexts EXCEPT ![h] = built[p]]
            /\ BeginMove(active, h, "release")
            /\ UNCHANGED writer
    /\ host' = [host EXCEPT ![p] = NoHost]
    /\ built' = [built EXCEPT ![p] = 0]
    /\ UNCHANGED <<readers, spawned, insts, tokenVars, taskVars, sshVars>>

-----------------------------------------------------------------------------
(* SshService::disconnect and handle_remote_disconnect, which share         *)
(* switch_to_local_context: a check under the read lock, and again under    *)
(* the write lock.                                                          *)

Disconnect(p) ==
    /\ At(p, "idle")
    /\ ReadLockFree
    /\ Goto(p, IF active = Local THEN "unlink" ELSE "leave")
    /\ UNCHANGED <<contexts, active, lockVars, moveVars, spawned, connVars, insts,
                   tokenVars, taskVars, sshVars>>

\* Mutant: the listener does not wait for a status.
RemoteDisconnectUnguarded ==
    /\ At(Listener, "idle")
    /\ ReadLockFree
    /\ disc' = disc - 1
    /\ Goto(Listener, IF active = Local THEN "idle" ELSE "leave")
    /\ UNCHANGED <<contexts, active, lockVars, moveVars, spawned, connVars, insts,
                   tokenVars, taskVars, link, dialing>>

\* The listener takes a Disconnected status off the channel.
RemoteDisconnect ==
    /\ At(Listener, "idle")
    /\ disc > 0
    /\ ReadLockFree
    /\ disc' = disc - 1
    /\ Goto(Listener, IF active = Local THEN "idle" ELSE "leave")
    /\ UNCHANGED <<contexts, active, lockVars, moveVars, spawned, connVars, insts,
                   tokenVars, taskVars, link, dialing>>

LeaveSsh(p) ==
    /\ At(p, "leave")
    /\ WriteLockFree
    /\ IF active = Local
       THEN /\ Goto(p, IF p = Listener THEN "idle" ELSE "unlink")
            /\ UNCHANGED <<active, writer, moveVars>>
       ELSE /\ Goto(p, "cancel")
            /\ writer' = p
            /\ BeginMove(active, Local, "destroy")
    /\ UNCHANGED <<contexts, readers, spawned, connVars, insts, tokenVars, taskVars,
                   sshVars>>

\* SshConnectionManager::disconnect broadcasts only if it took a connection.
Unlink(p) ==
    /\ At(p, "unlink")
    /\ dialing = NoProc
    /\ disc < MaxDisc
    /\ Goto(p, "idle")
    /\ link' = NoHost
    /\ disc' = IF link = NoHost THEN disc ELSE disc + 1
    /\ UNCHANGED <<contexts, active, lockVars, moveVars, spawned, connVars, insts,
                   tokenVars, taskVars, dialing>>

\* The health monitor finds the connection dead and takes it.
LinkDies ==
    /\ link # NoHost
    /\ disc < MaxDisc
    /\ link' = NoHost
    /\ disc' = disc + 1
    /\ UNCHANGED <<contexts, active, lockVars, moveVars, pc, spawned, connVars, insts,
                   tokenVars, taskVars, dialing>>

-----------------------------------------------------------------------------
(* rebuild_local_context, when the Claude root path changes: replace the    *)
(* local context under the write lock, then spawn its tasks under the read  *)
(* lock, whatever context is active by then.                                *)

RebuildReplace(p) ==
    /\ At(p, "idle")
    /\ WriteLockFree
    /\ insts < MaxInst
    /\ Goto(p, "respawn")
    /\ insts' = insts + 1
    /\ CancelSlot(contexts[Local])
    /\ slot' = [slot EXCEPT ![contexts[Local]] = 0]
    /\ contexts' = [contexts EXCEPT ![Local] = insts + 1]
    /\ UNCHANGED <<active, lockVars, moveVars, spawned, connVars, taskVars, sshVars>>

RebuildSpawn(p) ==
    /\ At(p, "respawn")
    /\ ReadLockFree
    /\ Goto(p, "spawn")
    /\ readers' = readers \cup {p}
    /\ UNCHANGED <<contexts, active, writer, moveVars, spawned, connVars, insts,
                   tokenVars, taskVars, sshVars>>

-----------------------------------------------------------------------------
(* The spawned tasks.                                                       *)

\* What no task changes.
ctlVars == <<contexts, active, writer, readers, from, to, after, pc, spawned, host,
             built, insts, gens, slot, owner, cancelled, link, dialing, disc>>

\* Mutant: watch() without the is_watching check.
WatchStartsTwice(g, k) ==
    /\ task[g][k] = "pending"
    /\ task' = [task EXCEPT ![g][k] = "live"]
    /\ watching' = [watching EXCEPT ![owner[g]] = @ \cup ({k} \cap WatchKinds)]
    /\ UNCHANGED ctlVars

\* FileWatcher::watch refuses to start twice, and the task then gives up; the
\* error pipeline starts no watcher, it subscribes to the main one.  Nothing
\* looks at the token before the first event.
WatchStarts(g, k) ==
    /\ task[g][k] = "pending"
    /\ IF k \in watching[owner[g]]
       THEN /\ task' = [task EXCEPT ![g][k] = "exited"]
            /\ UNCHANGED watching
       ELSE /\ task' = [task EXCEPT ![g][k] = "live"]
            /\ watching' = [watching EXCEPT ![owner[g]] = @ \cup ({k} \cap WatchKinds)]
    /\ UNCHANGED ctlVars

\* The directory cannot be created or the OS refuses the watch.
WatchFails(g, k) ==
    /\ k \in WatchKinds
    /\ task[g][k] = "pending"
    /\ task' = [task EXCEPT ![g][k] = "exited"]
    /\ UNCHANGED <<ctlVars, watching>>

\* The loop's select sees the cancelled token; no FileWatcher is stopped.
TaskCancelled(g, k) ==
    /\ task[g][k] = "live"
    /\ g \in cancelled
    /\ task' = [task EXCEPT ![g][k] = "exited"]
    /\ UNCHANGED <<ctlVars, watching>>

-----------------------------------------------------------------------------
Lifecycle(p) ==
    \/ CancelToken(p)
    \/ StopMain(p)
    \/ StopTodo(p)
    \/ SpawnAll(p)
    \/ StoreToken(p)

Connect(p) ==
    \/ \E h \in Hosts : ConnectDial(p, h)
    \/ ConnectEstablished(p)
    \/ ConnectFailed(p)
    \/ BuildSshContext(p)
    \/ EnterSsh(p)
    \/ TearDown(p)
    \/ RegisterContext(p)

TaskStep(g) ==
    \E k \in Kinds : WatchStarts(g, k) \/ WatchFails(g, k) \/ TaskCancelled(g, k)

Next ==
    \/ \E p \in Requests :
          \/ \E id \in Ids : ContextSwitch(p, id)
          \/ Connect(p)
          \/ Disconnect(p)
          \/ Unlink(p)
          \/ RebuildReplace(p)
          \/ RebuildSpawn(p)
    \/ \E p \in Procs : Lifecycle(p) \/ LeaveSsh(p) \/ DestroyContext(p)
    \/ RemoteDisconnect
    \/ LinkDies
    \/ \E g \in Gens : TaskStep(g)

Spec == Init /\ [][Next]_vars

-----------------------------------------------------------------------------
(* Properties.                                                              *)

TypeOK ==
    /\ contexts \in [Ids -> 0..MaxInst]
    /\ active \in Ids
    /\ writer \in Procs \cup {NoProc}
    /\ readers \subseteq Requests
    /\ from \in Ids /\ to \in Ids /\ after \in Afters
    /\ pc \in [Procs -> PCs]
    /\ spawned \in [Procs -> 0..MaxGen]
    /\ host \in [Procs -> Hosts \cup {NoHost}]
    /\ built \in [Procs -> 0..MaxInst]
    /\ insts \in Insts
    /\ gens \in Gens
    /\ slot \in [Insts -> 0..MaxGen]
    /\ owner \in [Gens -> 0..MaxInst]
    /\ cancelled \subseteq Gens
    /\ task \in [Gens -> [Kinds -> {"none", "pending", "live", "exited"}]]
    /\ watching \in [Insts -> SUBSET WatchKinds]
    /\ link \in Hosts \cup {NoHost}
    /\ dialing \in Requests \cup {NoProc}
    /\ disc \in 0..MaxDisc

\* The spawn g is about to be stored by some process.
InFlight(g) == \E p \in Procs : At(p, "store") /\ spawned[p] = g

\* No token is ever lost: a spawn whose token is not cancelled is either in
\* the slot of its context or about to be stored there, so a later stop, a
\* destroy or a replacement reaches its tasks; and its context is registered.
NoOrphanToken ==
    \A g \in 1..gens \ cancelled :
        /\ slot[owner[g]] = g \/ InFlight(g)
        /\ \E id \in Ids : contexts[id] = owner[g]

\* The frontend never gets a file event twice: two running listeners of one
\* FileWatcher never both go on, one of them has been cancelled.
OneListener ==
    \A g1, g2 \in Gens \ cancelled, k \in Kinds \cap WatchKinds :
        /\ task[g1][k] = "live"
        /\ task[g2][k] = "live"
        /\ owner[g1] = owner[g2]
        => g1 = g2

\* When nobody is moving contexts, the active one has a stop handle: its
\* tasks were started and not cancelled.
ActiveHasToken ==
    (/\ writer = NoProc
     /\ \A p \in Requests : pc[p] \notin {"respawn", "spawn", "store"})
        => slot[contexts[active]] # 0

\* When nobody is moving contexts, every spawn of an SSH context that is not
\* the active one is cancelled: a context left behind by a switch goes quiet.
InactiveSshQuiet ==
    writer = NoProc =>
        \A h \in Hosts \ {active}, g \in 1..gens \ cancelled :
            contexts[h] # 0 => owner[g] # contexts[h]

-----------------------------------------------------------------------------
(* What a comment of the code says of it; a run shows that it can be         *)
(* violated.                                                                *)

\* lib.rs:242-244: a repeated Disconnected is a no-op.  While no request is
\* at work, the listener then never takes the user off an SSH context whose
\* connection is up.
RepeatedDisconnectIsNoOp ==
    [][(/\ writer # Listener
        /\ writer' = Listener
        /\ \A p \in Requests : At(p, "idle")) => link # active]_vars

=============================================================================
