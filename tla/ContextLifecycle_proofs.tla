------------------------ MODULE ContextLifecycle_proofs ------------------------
(***************************************************************************)
(* Proofs about ContextLifecycle, for any number of hosts, requests,       *)
(* instances and spawns.                                                   *)
(*                                                                         *)
(* The inductive invariant says who holds the manager's lock at which      *)
(* program counter (LockInv), that contexts are distinct instances         *)
(* (RegistryInv), what a move and a connect still refer to (MoveInv,       *)
(* ConnectInv), and where the token of every spawn is (TokenInv); the last *)
(* three conjuncts strengthen OneListener, ActiveHasToken and              *)
(* InactiveSshQuiet so that every step preserves them.                     *)
(***************************************************************************)
EXTENDS ContextLifecycle, TLAPS

StopPCs == {"cancel", "stopMain", "stopTodo"}
WriterPCs == StopPCs \cup {"toLocal", "destroy", "register"}
SpawnPCs == {"spawn", "store"}

\* The lock excludes: a process at a step that needs the lock holds it.
LockInv ==
    /\ writer # NoProc => readers = {}
    /\ \A p \in Procs :
         /\ pc[p] \in WriterPCs => writer = p
         /\ pc[p] \in SpawnPCs => writer = p \/ p \in readers
         /\ writer = p => pc[p] \in WriterPCs \cup SpawnPCs
         /\ p \in readers => pc[p] \in SpawnPCs

\* Registered contexts are distinct instances, and the instance a connect
\* has built is nobody else's.
RegistryInv ==
    /\ contexts[active] # 0
    /\ contexts[Local] # 0
    /\ \A id \in Ids : contexts[id] <= insts
    /\ \A a, b \in Ids : contexts[a] = contexts[b] /\ contexts[a] # 0 => a = b
    /\ \A p \in Procs :
         built[p] # 0 =>
            /\ built[p] <= insts
            /\ \A id \in Ids : contexts[id] # built[p]
            /\ \A q \in Procs : built[q] = built[p] => q = p

\* What the holder of the write lock is moving between.
MoveInv ==
    /\ writer = NoProc => after = "release"
    /\ \A p \in Procs :
         /\ pc[p] \in StopPCs =>
              /\ contexts[from] # 0
              /\ IF after = "toLocal"
                 THEN active \in Hosts
                 ELSE to = active /\ from # active
         /\ pc[p] \in {"stopMain", "stopTodo"} => slot[contexts[from]] = 0
         /\ pc[p] = "toLocal" => active \in Hosts
         /\ pc[p] \in SpawnPCs /\ writer = p => to = active /\ after # "toLocal"
         /\ pc[p] \in {"destroy", "register"} => active = Local
         /\ pc[p] = "destroy" => after = "destroy"
         /\ pc[p] = "register" => after = "release"
    /\ after = "destroy" => active = Local /\ from # Local /\ contexts[from] # 0
    /\ after = "toLocal" => writer # NoProc

\* A connect keeps its host and, once it is built, its instance.
ConnectInv ==
    \A p \in Procs :
        /\ pc[p] \in {"dial", "linked", "built", "register"} => host[p] # NoHost
        /\ pc[p] \in {"built", "register"} => built[p] # 0
        /\ host[p] # NoHost => built[p] # 0 \/ pc[p] \in {"dial", "linked"}
        /\ pc[p] \in {"idle", "respawn", "leave", "unlink"} => host[p] = NoHost
        /\ host[p] # NoHost /\ pc[p] \in StopPCs \cup {"toLocal"} \cup SpawnPCs =>
              after # "release" /\ p \notin readers

TokenInv ==
    /\ \A g \in 1..gens : owner[g] # 0
    /\ \A p \in Procs : pc[p] = "store" =>
          spawned[p] \in 1..gens /\ owner[spawned[p]] = Target(p)
    /\ NoOrphanToken

\* A listener that goes on has its FileWatcher running.
ListenInv ==
    /\ \A g \in Gens, k \in Kinds : task[g][k] # "none" => g <= gens
    /\ \A g \in Gens \ cancelled, k \in Kinds \cap WatchKinds :
          task[g][k] = "live" => k \in watching[owner[g]]
    /\ OneListener

\* The active context has a token, or somebody is about to give it one.
ActiveInv ==
    \/ slot[contexts[active]] # 0
    \/ \E p \in Procs : writer = p /\ pc[p] \in StopPCs \cup {"toLocal"} \cup SpawnPCs
    \/ /\ active = Local
       /\ \E p \in Requests : pc[p] \in {"respawn", "spawn", "store"}

\* An inactive SSH context has no token, or is just being stopped.
QuietInv ==
    \A h \in Hosts \ {active} :
        \/ contexts[h] = 0
        \/ slot[contexts[h]] = 0
        \/ from = h /\ \E p \in Procs : writer = p /\ pc[p] = "cancel"

IInv == /\ TypeOK
        /\ LockInv
        /\ RegistryInv
        /\ MoveInv
        /\ ConnectInv
        /\ TokenInv
        /\ ListenInv
        /\ ActiveInv
        /\ QuietInv

\* The numbers the types mention.
LEMMA Bounds ==
    /\ MaxInst \in Nat /\ MaxGen \in Nat /\ MaxDisc \in Nat
    /\ 0 \in 0..MaxInst
    /\ 0 \in 0..MaxGen
    /\ \A i \in Insts : i \in 0..MaxInst /\ i \in Nat /\ i # 0
    /\ \A g \in Gens : g \in 0..MaxGen /\ g \in Nat /\ g # 0
    /\ \A i \in 0..MaxInst : i # 0 => i \in Insts
    /\ \A g \in 0..MaxGen : g # 0 => g \in Gens
<1>1. MaxInst \in Nat /\ MaxGen \in Nat /\ MaxDisc \in Nat
  BY ConstantsAssumption
<1> QED
  BY <1>1 DEF Insts, Gens

\* Cancelling the token of a slot cancels a spawn.
LEMMA CancelSlotType ==
    ASSUME TypeOK, NEW i \in Insts, CancelSlot(i)
    PROVE  cancelled' \subseteq Gens
<1>1. slot[i] \in 0..MaxGen /\ cancelled \subseteq Gens
  BY DEF TypeOK
<1>2. CASE slot[i] = 0
  BY <1>1, <1>2 DEF CancelSlot
<1>3. CASE slot[i] # 0
  <2>1. slot[i] \in Gens
    BY <1>1, <1>3, Bounds
  <2> QED
    BY <1>1, <1>3, <2>1 DEF CancelSlot
<1> QED
  BY <1>2, <1>3

\* The names are distinct.
LEMMA Names ==
    /\ NoProc \notin Procs /\ NoProc \notin Requests
    /\ Listener \notin Requests
    /\ NoHost \notin Ids /\ NoHost \notin Hosts
    /\ Local \notin Hosts
    /\ Local \in Ids
    /\ \A h \in Hosts : h \in Ids
    /\ \A p \in Requests : p \in Procs
  BY ConstantsAssumption DEF Procs, Ids

-----------------------------------------------------------------------------
(* Every step preserves each conjunct.                                      *)

\* Every step keeps the types.
LEMMA TypeStep == IInv /\ [Next]_vars => TypeOK'
<1> SUFFICES ASSUME IInv, [Next]_vars PROVE TypeOK'
  OBVIOUS
<1>a. TypeOK
  BY DEF IInv
<1>b. RegistryInv /\ MoveInv /\ ConnectInv
  BY DEF IInv
<1>c. LockInv
  BY DEF IInv
<1>1. ASSUME NEW p \in Requests, NEW id \in Ids, ContextSwitch(p, id)
      PROVE  TypeOK'
  BY <1>1, <1>a, ConstantsAssumption
  DEF ContextSwitch, At, Goto, WriteLockFree, BeginMove, lockVars, moveVars,
      connVars, tokenVars, taskVars, sshVars, TypeOK, PCs, Afters, Procs,
      Ids, Insts, Gens
<1>2. ASSUME NEW p \in Requests, NEW h \in Hosts, ConnectDial(p, h)
      PROVE  TypeOK'
  <2>1. pc' \in [Procs -> PCs]
    BY <1>2, <1>a DEF ConnectDial, At, Goto, TypeOK, PCs, Procs
  <2>2. disc' \in 0..MaxDisc
    BY <1>2, <1>a, Bounds DEF ConnectDial, TypeOK
  <2>3. host' \in [Procs -> Hosts \cup {NoHost}]
    BY <1>2, <1>a DEF ConnectDial, TypeOK
  <2> QED
    BY <1>2, <1>a, <2>1, <2>2, <2>3
    DEF ConnectDial, lockVars, moveVars, connVars, tokenVars, taskVars,
        sshVars, TypeOK
<1>3. ASSUME NEW p \in Requests, ConnectEstablished(p)
      PROVE  TypeOK'
  BY <1>3, <1>a, ConstantsAssumption
  DEF ConnectEstablished, At, Goto, lockVars, moveVars, connVars, tokenVars,
      taskVars, sshVars, TypeOK, PCs, Afters, Procs, Ids, Insts, Gens
<1>4. ASSUME NEW p \in Requests, ConnectFailed(p)
      PROVE  TypeOK'
  BY <1>4, <1>a, ConstantsAssumption
  DEF ConnectFailed, At, Goto, lockVars, moveVars, connVars, tokenVars,
      taskVars, sshVars, TypeOK, PCs, Afters, Procs, Ids, Insts, Gens
<1>5. ASSUME NEW p \in Requests, BuildSshContext(p)
      PROVE  TypeOK'
  <2>1. pc' \in [Procs -> PCs] /\ host' \in [Procs -> Hosts \cup {NoHost}]
    BY <1>5, <1>a DEF BuildSshContext, At, Goto, TypeOK, PCs, Procs
  <2>2. CASE link = NoHost
    BY <1>5, <1>a, <2>1, <2>2 DEF BuildSshContext, lockVars, moveVars, tokenVars,
       taskVars, sshVars, TypeOK
  <2>3. CASE link # NoHost
    <3>1. insts + 1 \in Insts /\ insts + 1 \in 0..MaxInst
      BY <1>5, <1>a, <2>3, Bounds DEF BuildSshContext, TypeOK, Insts
    <3>2. insts' \in Insts /\ built' \in [Procs -> 0..MaxInst]
      BY <1>5, <1>a, <2>3, <3>1 DEF BuildSshContext, TypeOK
    <3> QED
      BY <1>5, <1>a, <2>1, <3>2 DEF BuildSshContext, lockVars, moveVars, tokenVars,
         taskVars, sshVars, TypeOK
  <2> QED
    BY <2>2, <2>3
<1>6. ASSUME NEW p \in Requests, EnterSsh(p)
      PROVE  TypeOK'
  BY <1>6, <1>a, ConstantsAssumption
  DEF EnterSsh, At, Goto, WriteLockFree, lockVars, moveVars, connVars,
      tokenVars, taskVars, sshVars, TypeOK, PCs, Afters, Procs, Ids, Insts,
      Gens
<1>7. ASSUME NEW p \in Requests, TearDown(p)
      PROVE  TypeOK'
  BY <1>7, <1>a, ConstantsAssumption
  DEF TearDown, At, Goto, BeginMove, lockVars, moveVars, connVars, tokenVars,
      taskVars, sshVars, TypeOK, PCs, Afters, Procs, Ids, Insts, Gens
<1>8. ASSUME NEW p \in Requests, RegisterContext(p)
      PROVE  TypeOK'
  <2>1. host[p] \in Hosts /\ p \in Procs
    BY <1>8, <1>a, <1>b DEF RegisterContext, At, TypeOK, ConnectInv, Procs
  <2>2. built' \in [Procs -> 0..MaxInst] /\ host' \in [Procs -> Hosts \cup {NoHost}]
    BY <1>8, <1>a, Bounds DEF RegisterContext, TypeOK
  <2>3. CASE contexts[host[p]] # 0
    <3>1. pc' \in [Procs -> PCs]
      BY <1>8, <1>a, <2>3 DEF RegisterContext, Goto, TypeOK, PCs
    <3> QED
      BY <1>8, <1>a, <2>2, <2>3, <3>1 DEF RegisterContext, moveVars, tokenVars, taskVars,
         sshVars, TypeOK
  <2>4. CASE contexts[host[p]] = 0
    <3>1. pc' \in [Procs -> PCs]
      BY <1>8, <1>a, <2>4 DEF RegisterContext, Goto, TypeOK, PCs
    <3>2. contexts' \in [Ids -> 0..MaxInst]
      BY <1>8, <1>a, <2>1, <2>4 DEF RegisterContext, TypeOK
    <3>3. active' \in Ids /\ from' \in Ids /\ to' \in Ids /\ after' \in Afters
      BY <1>8, <1>a, <2>1, <2>4 DEF RegisterContext, BeginMove, TypeOK, Ids, Afters
    <3> QED
      BY <1>8, <1>a, <2>2, <2>4, <3>1, <3>2, <3>3 DEF RegisterContext, tokenVars,
         taskVars, sshVars, TypeOK
  <2> QED
    BY <2>3, <2>4
<1>9. ASSUME NEW p \in Requests, Disconnect(p)
      PROVE  TypeOK'
  BY <1>9, <1>a, ConstantsAssumption
  DEF Disconnect, At, Goto, ReadLockFree, lockVars, moveVars, connVars,
      tokenVars, taskVars, sshVars, TypeOK, PCs, Afters, Procs, Ids, Insts,
      Gens
<1>10. ASSUME NEW p \in Requests, Unlink(p)
      PROVE  TypeOK'
  <2>1. pc' \in [Procs -> PCs]
    BY <1>10, <1>a DEF Unlink, At, Goto, TypeOK, PCs, Procs
  <2>2. disc' \in 0..MaxDisc
    BY <1>10, <1>a, Bounds DEF Unlink, TypeOK
  <2> QED
    BY <1>10, <1>a, <2>1, <2>2
    DEF Unlink, lockVars, moveVars, connVars, tokenVars, taskVars, sshVars,
        TypeOK
<1>11. ASSUME NEW p \in Requests, RebuildReplace(p)
      PROVE  TypeOK'
  <2>1. pc' \in [Procs -> PCs]
    BY <1>11, <1>a DEF RebuildReplace, At, Goto, TypeOK, PCs, Procs
  <2>2. contexts[Local] \in Insts
    BY <1>a, <1>b, Bounds DEF TypeOK, RegistryInv, Ids
  <2>3. insts + 1 \in Insts /\ insts + 1 \in 0..MaxInst
    BY <1>11, <1>a, Bounds DEF RebuildReplace, TypeOK, Insts
  <2>4. slot' \in [Insts -> 0..MaxGen]
    BY <1>11, <1>a, Bounds DEF RebuildReplace, TypeOK
  <2>5. contexts' \in [Ids -> 0..MaxInst]
    BY <1>11, <1>a, <2>3 DEF RebuildReplace, TypeOK
  <2>6. cancelled' \subseteq Gens
    BY <1>11, <1>a, <2>2, CancelSlotType DEF RebuildReplace
  <2> QED
    BY <1>11, <1>a, <2>1, <2>2, <2>3, <2>4, <2>5, <2>6
    DEF RebuildReplace, lockVars, moveVars, connVars, tokenVars, taskVars,
        sshVars, TypeOK
<1>12. ASSUME NEW p \in Requests, RebuildSpawn(p)
      PROVE  TypeOK'
  BY <1>12, <1>a, ConstantsAssumption
  DEF RebuildSpawn, At, Goto, ReadLockFree, lockVars, moveVars, connVars,
      tokenVars, taskVars, sshVars, TypeOK, PCs, Afters, Procs, Ids, Insts,
      Gens
<1>13. ASSUME NEW p \in Procs, CancelToken(p)
      PROVE  TypeOK'
  <2>1. pc' \in [Procs -> PCs]
    BY <1>13, <1>a DEF CancelToken, At, Goto, TypeOK, PCs, Procs
  <2>2. contexts[from] \in Insts
    BY <1>13, <1>a, <1>b, Bounds DEF CancelToken, At, TypeOK, MoveInv, StopPCs
  <2>3. slot' \in [Insts -> 0..MaxGen]
    BY <1>13, <1>a, Bounds DEF CancelToken, TypeOK
  <2>4. cancelled' \subseteq Gens
    BY <1>13, <1>a, <2>2, CancelSlotType DEF CancelToken
  <2> QED
    BY <1>13, <1>a, <2>1, <2>2, <2>3, <2>4
    DEF CancelToken, lockVars, moveVars, connVars, tokenVars, taskVars,
        sshVars, TypeOK
<1>14. ASSUME NEW p \in Procs, StopMain(p)
      PROVE  TypeOK'
  BY <1>14, <1>a, ConstantsAssumption
  DEF StopMain, At, Goto, lockVars, moveVars, connVars, tokenVars, taskVars,
      sshVars, TypeOK, PCs, Afters, Procs, Ids, Insts, Gens
<1>15. ASSUME NEW p \in Procs, StopTodo(p)
      PROVE  TypeOK'
  BY <1>15, <1>a, ConstantsAssumption
  DEF StopTodo, At, Goto, lockVars, moveVars, connVars, tokenVars, taskVars,
      sshVars, TypeOK, PCs, Afters, Procs, Ids, Insts, Gens
<1>16. ASSUME NEW p \in Procs, SpawnAll(p)
      PROVE  TypeOK'
  <2>1. pc' \in [Procs -> PCs]
    BY <1>16, <1>a DEF SpawnAll, At, Goto, TypeOK, PCs, Procs
  <2>2. gens + 1 \in Gens /\ gens + 1 \in 0..MaxGen
    BY <1>16, <1>a, Bounds DEF SpawnAll, TypeOK, Gens
  <2>3. Target(p) \in 0..MaxInst
    BY <1>a DEF TypeOK, Target, Ids
  <2>4. owner' \in [Gens -> 0..MaxInst]
    BY <1>16, <1>a, <2>3 DEF SpawnAll, TypeOK
  <2>5. spawned' \in [Procs -> 0..MaxGen]
    BY <1>16, <1>a, <2>2 DEF SpawnAll, TypeOK
  <2>6. task' \in [Gens -> [Kinds -> {"none", "pending", "live", "exited"}]]
    BY <1>16, <1>a DEF SpawnAll, TypeOK
  <2> QED
    BY <1>16, <1>a, <2>1, <2>2, <2>3, <2>4, <2>5, <2>6
    DEF SpawnAll, lockVars, moveVars, connVars, tokenVars, taskVars, sshVars,
        TypeOK
<1>17. ASSUME NEW p \in Procs, StoreToken(p)
      PROVE  TypeOK'
  <2>1. pc' \in [Procs -> PCs]
    BY <1>17, <1>a DEF StoreToken, At, Goto, TypeOK, PCs, Procs
  <2>2. Target(p) \in Insts
    BY <1>17, <1>a, <1>b, <1>c, Bounds DEF StoreToken, At, TypeOK, MoveInv, LockInv, RegistryInv,
       SpawnPCs, Ids, Target
  <2>3. spawned[p] \in 0..MaxGen
    BY <1>a, <1>17 DEF TypeOK
  <2>4. slot' \in [Insts -> 0..MaxGen]
    BY <1>17, <1>a, <2>3 DEF StoreToken, TypeOK
  <2>5. cancelled' \subseteq Gens
    BY <1>17, <1>a, <2>2, CancelSlotType DEF StoreToken
  <2>6. spawned' \in [Procs -> 0..MaxGen]
    BY <1>17, <1>a, Bounds DEF StoreToken, TypeOK
  <2>7. from' \in Ids /\ to' \in Ids /\ after' \in Afters
    BY <1>17, <1>a DEF StoreToken, EndMove, moveVars, TypeOK, Ids, Afters
  <2>8. writer' \in Procs \cup {NoProc} /\ readers' \subseteq Requests
    BY <1>17, <1>a DEF StoreToken, lockVars, TypeOK
  <2> QED
    BY <1>17, <1>a, <2>1, <2>2, <2>3, <2>4, <2>5, <2>6, <2>7, <2>8
    DEF StoreToken, lockVars, moveVars, connVars, tokenVars, taskVars,
        sshVars, TypeOK
<1>18. ASSUME NEW p \in Procs, LeaveSsh(p)
      PROVE  TypeOK'
  BY <1>18, <1>a, ConstantsAssumption
  DEF LeaveSsh, At, Goto, WriteLockFree, BeginMove, lockVars, moveVars,
      connVars, tokenVars, taskVars, sshVars, TypeOK, PCs, Afters, Procs,
      Ids, Insts, Gens
<1>19. ASSUME NEW p \in Procs, DestroyContext(p)
      PROVE  TypeOK'
  <2>1. pc' \in [Procs -> PCs]
    BY <1>19, <1>a DEF DestroyContext, At, Goto, TypeOK, PCs, Procs
  <2>2. contexts[from] \in Insts
    BY <1>19, <1>a, <1>b, Bounds DEF DestroyContext, At, TypeOK, MoveInv
  <2>3. slot' \in [Insts -> 0..MaxGen]
    BY <1>19, <1>a, Bounds DEF DestroyContext, TypeOK
  <2>4. cancelled' \subseteq Gens
    BY <1>19, <1>a, <2>2, CancelSlotType DEF DestroyContext
  <2>5. contexts' \in [Ids -> 0..MaxInst]
    BY <1>19, <1>a, Bounds DEF DestroyContext, TypeOK
  <2>6. active' \in Ids /\ from' \in Ids /\ to' \in Ids /\ after' \in Afters
    BY <1>19, <1>a DEF DestroyContext, EndMove, TypeOK, Ids, Afters
  <2> QED
    BY <1>19, <1>a, <2>1, <2>2, <2>3, <2>4, <2>5, <2>6
    DEF DestroyContext, lockVars, moveVars, connVars, tokenVars, taskVars,
        sshVars, TypeOK
<1>20. ASSUME RemoteDisconnect
      PROVE  TypeOK'
  <2>1. pc' \in [Procs -> PCs]
    BY <1>20, <1>a DEF RemoteDisconnect, At, Goto, TypeOK, PCs, Procs
  <2>2. disc' \in 0..MaxDisc
    BY <1>20, <1>a, Bounds DEF RemoteDisconnect, TypeOK
  <2> QED
    BY <1>20, <1>a, <2>1, <2>2
    DEF RemoteDisconnect, lockVars, moveVars, connVars, tokenVars, taskVars,
        sshVars, TypeOK
<1>21. ASSUME LinkDies
      PROVE  TypeOK'
  <2>1. disc' \in 0..MaxDisc
    BY <1>21, <1>a, Bounds DEF LinkDies, TypeOK
  <2> QED
    BY <1>21, <1>a, <2>1
    DEF LinkDies, lockVars, moveVars, connVars, tokenVars, taskVars, sshVars,
        TypeOK
<1>22. ASSUME NEW g \in Gens, NEW k \in Kinds, WatchStarts(g, k)
      PROVE  TypeOK'
  <2>1. CASE k \in watching[owner[g]]
    <3>1. task' = [task EXCEPT ![g][k] = "exited"] /\ watching' = watching
      BY <1>22, <2>1 DEF WatchStarts
    <3>2. task' \in [Gens -> [Kinds -> {"none", "pending", "live", "exited"}]]
      BY <3>1, <1>a DEF TypeOK
    <3> QED
      BY <1>22, <1>a, <3>1, <3>2 DEF WatchStarts, ctlVars, TypeOK
  <2>2. CASE k \notin watching[owner[g]]
    <3>1. /\ task' = [task EXCEPT ![g][k] = "live"]
          /\ watching' = [watching EXCEPT ![owner[g]] = @ \cup ({k} \cap WatchKinds)]
      BY <1>22, <2>2 DEF WatchStarts
    <3>2. task' \in [Gens -> [Kinds -> {"none", "pending", "live", "exited"}]]
      BY <3>1, <1>a DEF TypeOK
    <3>3. watching' \in [Insts -> SUBSET WatchKinds]
      BY <3>1, <1>a DEF TypeOK
    <3> QED
      BY <1>22, <1>a, <3>2, <3>3 DEF WatchStarts, ctlVars, TypeOK
  <2> QED
    BY <2>1, <2>2
<1>23. ASSUME NEW g \in Gens, NEW k \in Kinds, WatchFails(g, k)
      PROVE  TypeOK'
  BY <1>23, <1>a, ConstantsAssumption
  DEF WatchFails, ctlVars, TypeOK, PCs, Afters, Procs, Ids, Insts, Gens
<1>24. ASSUME NEW g \in Gens, NEW k \in Kinds, TaskCancelled(g, k)
      PROVE  TypeOK'
  BY <1>24, <1>a, ConstantsAssumption
  DEF TaskCancelled, ctlVars, TypeOK, PCs, Afters, Procs, Ids, Insts, Gens
<1>25. CASE UNCHANGED vars
  BY <1>25, <1>a
  DEF vars, TypeOK, PCs, Afters, Procs, Ids, Insts, Gens
<1> QED
  BY <1>1, <1>2, <1>3, <1>4, <1>5, <1>6, <1>7, <1>8, <1>9, <1>10, <1>11,
     <1>12, <1>13, <1>14, <1>15, <1>16, <1>17, <1>18, <1>19, <1>20, <1>21,
     <1>22, <1>23, <1>24, <1>25
  DEF Next, Lifecycle, Connect, TaskStep

\* Every step keeps the lock's discipline.
LEMMA LockStep == IInv /\ [Next]_vars => LockInv'
<1> SUFFICES ASSUME IInv, [Next]_vars PROVE LockInv'
  OBVIOUS
<1>a. TypeOK /\ LockInv
  BY DEF IInv
<1>b. /\ NoProc \notin Procs
      /\ \A p \in Requests : p \in Procs
      /\ pc \in [Procs -> PCs]
      /\ readers \subseteq Requests
  BY <1>a, Names DEF TypeOK
<1>c. LockInv
  BY DEF IInv
<1>1. ASSUME NEW p \in Requests, NEW id \in Ids, ContextSwitch(p, id)
      PROVE  LockInv'
  BY <1>1, <1>b, <1>c
  DEF ContextSwitch, At, Goto, WriteLockFree, BeginMove, lockVars, moveVars,
      connVars, tokenVars, taskVars, sshVars, LockInv, StopPCs, WriterPCs,
      SpawnPCs
<1>2. ASSUME NEW p \in Requests, NEW h \in Hosts, ConnectDial(p, h)
      PROVE  LockInv'
  BY <1>2, <1>b, <1>c
  DEF ConnectDial, At, Goto, lockVars, moveVars, connVars, tokenVars,
      taskVars, sshVars, LockInv, StopPCs, WriterPCs, SpawnPCs
<1>3. ASSUME NEW p \in Requests, ConnectEstablished(p)
      PROVE  LockInv'
  BY <1>3, <1>b, <1>c
  DEF ConnectEstablished, At, Goto, lockVars, moveVars, connVars, tokenVars,
      taskVars, sshVars, LockInv, StopPCs, WriterPCs, SpawnPCs
<1>4. ASSUME NEW p \in Requests, ConnectFailed(p)
      PROVE  LockInv'
  BY <1>4, <1>b, <1>c
  DEF ConnectFailed, At, Goto, lockVars, moveVars, connVars, tokenVars,
      taskVars, sshVars, LockInv, StopPCs, WriterPCs, SpawnPCs
<1>5. ASSUME NEW p \in Requests, BuildSshContext(p)
      PROVE  LockInv'
  BY <1>5, <1>b, <1>c
  DEF BuildSshContext, At, Goto, lockVars, moveVars, connVars, tokenVars,
      taskVars, sshVars, LockInv, StopPCs, WriterPCs, SpawnPCs
<1>6. ASSUME NEW p \in Requests, EnterSsh(p)
      PROVE  LockInv'
  BY <1>6, <1>b, <1>c
  DEF EnterSsh, At, Goto, WriteLockFree, lockVars, moveVars, connVars,
      tokenVars, taskVars, sshVars, LockInv, StopPCs, WriterPCs, SpawnPCs
<1>7. ASSUME NEW p \in Requests, TearDown(p)
      PROVE  LockInv'
  BY <1>7, <1>b, <1>c
  DEF TearDown, At, Goto, BeginMove, lockVars, moveVars, connVars, tokenVars,
      taskVars, sshVars, LockInv, StopPCs, WriterPCs, SpawnPCs
<1>8. ASSUME NEW p \in Requests, RegisterContext(p)
      PROVE  LockInv'
  BY <1>8, <1>b, <1>c
  DEF RegisterContext, At, Goto, BeginMove, lockVars, moveVars, connVars,
      tokenVars, taskVars, sshVars, LockInv, StopPCs, WriterPCs, SpawnPCs
<1>9. ASSUME NEW p \in Requests, Disconnect(p)
      PROVE  LockInv'
  BY <1>9, <1>b, <1>c
  DEF Disconnect, At, Goto, ReadLockFree, lockVars, moveVars, connVars,
      tokenVars, taskVars, sshVars, LockInv, StopPCs, WriterPCs, SpawnPCs
<1>10. ASSUME NEW p \in Requests, Unlink(p)
      PROVE  LockInv'
  BY <1>10, <1>b, <1>c
  DEF Unlink, At, Goto, lockVars, moveVars, connVars, tokenVars, taskVars,
      sshVars, LockInv, StopPCs, WriterPCs, SpawnPCs
<1>11. ASSUME NEW p \in Requests, RebuildReplace(p)
      PROVE  LockInv'
  BY <1>11, <1>b, <1>c
  DEF RebuildReplace, At, Goto, WriteLockFree, CancelSlot, lockVars,
      moveVars, connVars, tokenVars, taskVars, sshVars, LockInv, StopPCs,
      WriterPCs, SpawnPCs
<1>12. ASSUME NEW p \in Requests, RebuildSpawn(p)
      PROVE  LockInv'
  BY <1>12, <1>b, <1>c
  DEF RebuildSpawn, At, Goto, ReadLockFree, lockVars, moveVars, connVars,
      tokenVars, taskVars, sshVars, LockInv, StopPCs, WriterPCs, SpawnPCs
<1>13. ASSUME NEW p \in Procs, CancelToken(p)
      PROVE  LockInv'
  BY <1>13, <1>b, <1>c
  DEF CancelToken, At, Goto, CancelSlot, lockVars, moveVars, connVars,
      tokenVars, taskVars, sshVars, LockInv, StopPCs, WriterPCs, SpawnPCs
<1>14. ASSUME NEW p \in Procs, StopMain(p)
      PROVE  LockInv'
  BY <1>14, <1>b, <1>c
  DEF StopMain, At, Goto, lockVars, moveVars, connVars, tokenVars, taskVars,
      sshVars, LockInv, StopPCs, WriterPCs, SpawnPCs
<1>15. ASSUME NEW p \in Procs, StopTodo(p)
      PROVE  LockInv'
  BY <1>15, <1>b, <1>c
  DEF StopTodo, At, Goto, lockVars, moveVars, connVars, tokenVars, taskVars,
      sshVars, LockInv, StopPCs, WriterPCs, SpawnPCs
<1>16. ASSUME NEW p \in Procs, SpawnAll(p)
      PROVE  LockInv'
  BY <1>16, <1>b, <1>c
  DEF SpawnAll, At, Goto, Target, lockVars, moveVars, connVars, tokenVars,
      taskVars, sshVars, LockInv, StopPCs, WriterPCs, SpawnPCs
<1>17. ASSUME NEW p \in Procs, StoreToken(p)
      PROVE  LockInv'
  <2>1. CASE p \in readers \/ after = "release"
    <3>1. /\ pc' = [pc EXCEPT ![p] = "idle"]
          /\ writer' = NoProc
          /\ readers' = readers \ {p}
      BY <1>17, <2>1 DEF StoreToken, Goto
    <3>2. \A q \in Procs : q # p => pc'[q] = pc[q]
      BY <1>b, <3>1
    <3>3. pc'[p] = "idle"
      BY <1>b, <3>1
    <3>4. writer = p \/ p \in readers
      BY <1>17, <1>c DEF StoreToken, At, LockInv, SpawnPCs
    <3>5. \A q \in Procs : pc[q] \in WriterPCs => q = p
      BY <1>b, <1>c, <3>4 DEF LockInv
    <3>6. \A q \in Procs : pc[q] \in SpawnPCs => q = p \/ q \in readers'
      BY <1>b, <1>c, <3>1, <3>4 DEF LockInv
    <3> QED
      BY <1>b, <1>c, <3>1, <3>2, <3>3, <3>5, <3>6 DEF LockInv, StopPCs, WriterPCs,
         SpawnPCs
  <2>2. CASE ~(p \in readers \/ after = "release")
    BY <1>17, <1>b, <1>c, <2>2 DEF StoreToken, At, Goto, lockVars, LockInv, StopPCs,
       WriterPCs, SpawnPCs
  <2> QED
    BY <2>1, <2>2
<1>18. ASSUME NEW p \in Procs, LeaveSsh(p)
      PROVE  LockInv'
  BY <1>18, <1>b, <1>c
  DEF LeaveSsh, At, Goto, WriteLockFree, BeginMove, lockVars, moveVars,
      connVars, tokenVars, taskVars, sshVars, LockInv, StopPCs, WriterPCs,
      SpawnPCs
<1>19. ASSUME NEW p \in Procs, DestroyContext(p)
      PROVE  LockInv'
  BY <1>19, <1>b, <1>c
  DEF DestroyContext, At, Goto, CancelSlot, EndMove, lockVars, moveVars,
      connVars, tokenVars, taskVars, sshVars, LockInv, StopPCs, WriterPCs,
      SpawnPCs
<1>20. ASSUME RemoteDisconnect
      PROVE  LockInv'
  BY <1>20, <1>b, <1>c
  DEF RemoteDisconnect, At, Goto, ReadLockFree, lockVars, moveVars, connVars,
      tokenVars, taskVars, sshVars, LockInv, StopPCs, WriterPCs, SpawnPCs
<1>21. ASSUME LinkDies
      PROVE  LockInv'
  BY <1>21, <1>b, <1>c
  DEF LinkDies, lockVars, moveVars, connVars, tokenVars, taskVars, sshVars,
      LockInv, StopPCs, WriterPCs, SpawnPCs
<1>22. ASSUME NEW g \in Gens, NEW k \in Kinds, WatchStarts(g, k)
      PROVE  LockInv'
  BY <1>22, <1>b, <1>c
  DEF WatchStarts, ctlVars, LockInv, StopPCs, WriterPCs, SpawnPCs
<1>23. ASSUME NEW g \in Gens, NEW k \in Kinds, WatchFails(g, k)
      PROVE  LockInv'
  BY <1>23, <1>b, <1>c
  DEF WatchFails, ctlVars, LockInv, StopPCs, WriterPCs, SpawnPCs
<1>24. ASSUME NEW g \in Gens, NEW k \in Kinds, TaskCancelled(g, k)
      PROVE  LockInv'
  BY <1>24, <1>b, <1>c
  DEF TaskCancelled, ctlVars, LockInv, StopPCs, WriterPCs, SpawnPCs
<1>25. CASE UNCHANGED vars
  BY <1>25, <1>c
  DEF vars, LockInv, StopPCs, WriterPCs, SpawnPCs
<1> QED
  BY <1>1, <1>2, <1>3, <1>4, <1>5, <1>6, <1>7, <1>8, <1>9, <1>10, <1>11,
     <1>12, <1>13, <1>14, <1>15, <1>16, <1>17, <1>18, <1>19, <1>20, <1>21,
     <1>22, <1>23, <1>24, <1>25
  DEF Next, Lifecycle, Connect, TaskStep

\* Every step keeps what a connect remembers.
LEMMA ConnectStep == IInv /\ [Next]_vars => ConnectInv'
<1> SUFFICES ASSUME IInv, [Next]_vars PROVE ConnectInv'
  OBVIOUS
<1>a. TypeOK /\ LockInv /\ ConnectInv
  BY DEF IInv
<1>b. /\ \A p \in Requests : p \in Procs
      /\ NoProc \notin Procs
      /\ \A h \in Hosts : h # NoHost
      /\ pc \in [Procs -> PCs]
      /\ built \in [Procs -> 0..MaxInst]
      /\ host \in [Procs -> Hosts \cup {NoHost}]
      /\ insts \in Nat
  BY <1>a, Names, Bounds DEF TypeOK
<1>c. ConnectInv
  BY DEF IInv
<1>d. LockInv
  BY DEF IInv
<1>1. ASSUME NEW p \in Requests, NEW id \in Ids, ContextSwitch(p, id)
      PROVE  ConnectInv'
  BY <1>1, <1>b, <1>c, <1>d
  DEF ContextSwitch, At, Goto, WriteLockFree, BeginMove, lockVars, moveVars,
      connVars, tokenVars, taskVars, sshVars, ConnectInv, LockInv, StopPCs,
      WriterPCs, SpawnPCs
<1>2. ASSUME NEW p \in Requests, NEW h \in Hosts, ConnectDial(p, h)
      PROVE  ConnectInv'
  BY <1>2, <1>b, <1>c, <1>d
  DEF ConnectDial, At, Goto, lockVars, moveVars, connVars, tokenVars,
      taskVars, sshVars, ConnectInv, LockInv, StopPCs, WriterPCs, SpawnPCs
<1>3. ASSUME NEW p \in Requests, ConnectEstablished(p)
      PROVE  ConnectInv'
  BY <1>3, <1>b, <1>c, <1>d
  DEF ConnectEstablished, At, Goto, lockVars, moveVars, connVars, tokenVars,
      taskVars, sshVars, ConnectInv, LockInv, StopPCs, WriterPCs, SpawnPCs
<1>4. ASSUME NEW p \in Requests, ConnectFailed(p)
      PROVE  ConnectInv'
  BY <1>4, <1>b, <1>c, <1>d
  DEF ConnectFailed, At, Goto, lockVars, moveVars, connVars, tokenVars,
      taskVars, sshVars, ConnectInv, LockInv, StopPCs, WriterPCs, SpawnPCs
<1>5. ASSUME NEW p \in Requests, BuildSshContext(p)
      PROVE  ConnectInv'
  BY <1>5, <1>b, <1>c, <1>d
  DEF BuildSshContext, At, Goto, lockVars, moveVars, connVars, tokenVars,
      taskVars, sshVars, ConnectInv, LockInv, StopPCs, WriterPCs, SpawnPCs
<1>6. ASSUME NEW p \in Requests, EnterSsh(p)
      PROVE  ConnectInv'
  BY <1>6, <1>b, <1>c, <1>d
  DEF EnterSsh, At, Goto, WriteLockFree, lockVars, moveVars, connVars,
      tokenVars, taskVars, sshVars, ConnectInv, LockInv, StopPCs, WriterPCs,
      SpawnPCs
<1>7. ASSUME NEW p \in Requests, TearDown(p)
      PROVE  ConnectInv'
  BY <1>7, <1>b, <1>c, <1>d
  DEF TearDown, At, Goto, BeginMove, lockVars, moveVars, connVars, tokenVars,
      taskVars, sshVars, ConnectInv, LockInv, StopPCs, WriterPCs, SpawnPCs
<1>8. ASSUME NEW p \in Requests, RegisterContext(p)
      PROVE  ConnectInv'
  BY <1>8, <1>b, <1>c, <1>d
  DEF RegisterContext, At, Goto, BeginMove, lockVars, moveVars, connVars,
      tokenVars, taskVars, sshVars, ConnectInv, LockInv, StopPCs, WriterPCs,
      SpawnPCs
<1>9. ASSUME NEW p \in Requests, Disconnect(p)
      PROVE  ConnectInv'
  BY <1>9, <1>b, <1>c, <1>d
  DEF Disconnect, At, Goto, ReadLockFree, lockVars, moveVars, connVars,
      tokenVars, taskVars, sshVars, ConnectInv, LockInv, StopPCs, WriterPCs,
      SpawnPCs
<1>10. ASSUME NEW p \in Requests, Unlink(p)
      PROVE  ConnectInv'
  BY <1>10, <1>b, <1>c, <1>d
  DEF Unlink, At, Goto, lockVars, moveVars, connVars, tokenVars, taskVars,
      sshVars, ConnectInv, LockInv, StopPCs, WriterPCs, SpawnPCs
<1>11. ASSUME NEW p \in Requests, RebuildReplace(p)
      PROVE  ConnectInv'
  BY <1>11, <1>b, <1>c, <1>d
  DEF RebuildReplace, At, Goto, WriteLockFree, CancelSlot, lockVars,
      moveVars, connVars, tokenVars, taskVars, sshVars, ConnectInv, LockInv,
      StopPCs, WriterPCs, SpawnPCs
<1>12. ASSUME NEW p \in Requests, RebuildSpawn(p)
      PROVE  ConnectInv'
  BY <1>12, <1>b, <1>c, <1>d
  DEF RebuildSpawn, At, Goto, ReadLockFree, lockVars, moveVars, connVars,
      tokenVars, taskVars, sshVars, ConnectInv, LockInv, StopPCs, WriterPCs,
      SpawnPCs
<1>13. ASSUME NEW p \in Procs, CancelToken(p)
      PROVE  ConnectInv'
  BY <1>13, <1>b, <1>c, <1>d
  DEF CancelToken, At, Goto, CancelSlot, lockVars, moveVars, connVars,
      tokenVars, taskVars, sshVars, ConnectInv, LockInv, StopPCs, WriterPCs,
      SpawnPCs
<1>14. ASSUME NEW p \in Procs, StopMain(p)
      PROVE  ConnectInv'
  BY <1>14, <1>b, <1>c, <1>d
  DEF StopMain, At, Goto, lockVars, moveVars, connVars, tokenVars, taskVars,
      sshVars, ConnectInv, LockInv, StopPCs, WriterPCs, SpawnPCs
<1>15. ASSUME NEW p \in Procs, StopTodo(p)
      PROVE  ConnectInv'
  BY <1>15, <1>b, <1>c, <1>d
  DEF StopTodo, At, Goto, lockVars, moveVars, connVars, tokenVars, taskVars,
      sshVars, ConnectInv, LockInv, StopPCs, WriterPCs, SpawnPCs
<1>16. ASSUME NEW p \in Procs, SpawnAll(p)
      PROVE  ConnectInv'
  BY <1>16, <1>b, <1>c, <1>d
  DEF SpawnAll, At, Goto, Target, lockVars, moveVars, connVars, tokenVars,
      taskVars, sshVars, ConnectInv, LockInv, StopPCs, WriterPCs, SpawnPCs
<1>17. ASSUME NEW p \in Procs, StoreToken(p)
      PROVE  ConnectInv'
  <2>1. host' = host /\ built' = built
    BY <1>17 DEF StoreToken, connVars
  <2>2. CASE p \in readers \/ after = "release"
    <3>1. pc' = [pc EXCEPT ![p] = "idle"] /\ readers' = readers \ {p}
      BY <1>17, <2>2 DEF StoreToken, Goto
    <3>2. \A q \in Procs : q # p => pc'[q] = pc[q]
      BY <1>b, <3>1
    <3>3. pc'[p] = "idle"
      BY <1>b, <3>1
    <3>4. writer = p \/ p \in readers
      BY <1>17, <1>d DEF StoreToken, At, LockInv, SpawnPCs
    <3>5. host[p] = NoHost
      BY <1>17, <1>c, <2>2 DEF StoreToken, At, ConnectInv, SpawnPCs
    <3>6. ASSUME NEW q \in Procs, q # p, host[q] # NoHost
          PROVE  pc[q] \notin StopPCs \cup {"toLocal"} \cup SpawnPCs
      BY <1>b, <1>c, <1>d, <3>4, <3>6 DEF ConnectInv, LockInv, WriterPCs
    <3> QED
      BY <1>b, <1>c, <2>1, <3>2, <3>3, <3>5, <3>6 DEF ConnectInv, StopPCs, SpawnPCs
  <2>3. CASE ~(p \in readers \/ after = "release")
    <3>1. pc' = [pc EXCEPT ![p] = "destroy"] /\ UNCHANGED <<readers, after>>
      BY <1>17, <2>3 DEF StoreToken, Goto, lockVars, moveVars
    <3>2. pc[p] = "store"
      BY <1>17 DEF StoreToken, At
    <3> QED
      BY <1>b, <1>c, <2>1, <3>1, <3>2 DEF ConnectInv, StopPCs, SpawnPCs
  <2> QED
    BY <2>2, <2>3
<1>18. ASSUME NEW p \in Procs, LeaveSsh(p)
      PROVE  ConnectInv'
  BY <1>18, <1>b, <1>c, <1>d
  DEF LeaveSsh, At, Goto, WriteLockFree, BeginMove, lockVars, moveVars,
      connVars, tokenVars, taskVars, sshVars, ConnectInv, LockInv, StopPCs,
      WriterPCs, SpawnPCs
<1>19. ASSUME NEW p \in Procs, DestroyContext(p)
      PROVE  ConnectInv'
  BY <1>19, <1>b, <1>c, <1>d
  DEF DestroyContext, At, Goto, CancelSlot, EndMove, lockVars, moveVars,
      connVars, tokenVars, taskVars, sshVars, ConnectInv, LockInv, StopPCs,
      WriterPCs, SpawnPCs
<1>20. ASSUME RemoteDisconnect
      PROVE  ConnectInv'
  BY <1>20, <1>b, <1>c, <1>d
  DEF RemoteDisconnect, At, Goto, ReadLockFree, lockVars, moveVars, connVars,
      tokenVars, taskVars, sshVars, ConnectInv, LockInv, StopPCs, WriterPCs,
      SpawnPCs
<1>21. ASSUME LinkDies
      PROVE  ConnectInv'
  BY <1>21, <1>b, <1>c, <1>d
  DEF LinkDies, lockVars, moveVars, connVars, tokenVars, taskVars, sshVars,
      ConnectInv, LockInv, StopPCs, WriterPCs, SpawnPCs
<1>22. ASSUME NEW g \in Gens, NEW k \in Kinds, WatchStarts(g, k)
      PROVE  ConnectInv'
  BY <1>22, <1>b, <1>c, <1>d
  DEF WatchStarts, ctlVars, ConnectInv, LockInv, StopPCs, WriterPCs,
      SpawnPCs
<1>23. ASSUME NEW g \in Gens, NEW k \in Kinds, WatchFails(g, k)
      PROVE  ConnectInv'
  BY <1>23, <1>b, <1>c, <1>d
  DEF WatchFails, ctlVars, ConnectInv, LockInv, StopPCs, WriterPCs, SpawnPCs
<1>24. ASSUME NEW g \in Gens, NEW k \in Kinds, TaskCancelled(g, k)
      PROVE  ConnectInv'
  BY <1>24, <1>b, <1>c, <1>d
  DEF TaskCancelled, ctlVars, ConnectInv, LockInv, StopPCs, WriterPCs,
      SpawnPCs
<1>25. CASE UNCHANGED vars
  BY <1>25, <1>c
  DEF vars, ConnectInv, LockInv, StopPCs, WriterPCs, SpawnPCs
<1> QED
  BY <1>1, <1>2, <1>3, <1>4, <1>5, <1>6, <1>7, <1>8, <1>9, <1>10, <1>11,
     <1>12, <1>13, <1>14, <1>15, <1>16, <1>17, <1>18, <1>19, <1>20, <1>21,
     <1>22, <1>23, <1>24, <1>25
  DEF Next, Lifecycle, Connect, TaskStep

\* Every step keeps the contexts distinct.
LEMMA RegistryStep == IInv /\ [Next]_vars => RegistryInv'
<1> SUFFICES ASSUME IInv, [Next]_vars PROVE RegistryInv'
  OBVIOUS
<1>b. /\ NoProc \notin Procs /\ Local \in Ids /\ Local \notin Hosts
      /\ \A p \in Requests : p \in Procs
      /\ \A h \in Hosts : h \in Ids
      /\ NoHost \notin Hosts
  BY Names
<1>d. /\ contexts \in [Ids -> 0..MaxInst]
      /\ active \in Ids /\ from \in Ids /\ to \in Ids
      /\ readers \subseteq Requests
      /\ pc \in [Procs -> PCs]
      /\ built \in [Procs -> 0..MaxInst]
      /\ host \in [Procs -> Hosts \cup {NoHost}]
      /\ insts \in Nat
  BY Bounds DEF IInv, TypeOK
<1>e. \A i \in 0..MaxInst : i \in Nat
  BY Bounds
<1>c. RegistryInv /\ ConnectInv /\ LockInv /\ MoveInv
  BY DEF IInv
<1>1. ASSUME NEW p \in Requests, NEW id \in Ids, ContextSwitch(p, id)
      PROVE  RegistryInv'
  BY <1>1, <1>b, <1>c, <1>d, <1>e
  DEF ContextSwitch, At, Goto, WriteLockFree, BeginMove, lockVars, moveVars,
      connVars, tokenVars, taskVars, sshVars, RegistryInv
<1>2. ASSUME NEW p \in Requests, NEW h \in Hosts, ConnectDial(p, h)
      PROVE  RegistryInv'
  BY <1>2, <1>b, <1>c, <1>d, <1>e
  DEF ConnectDial, At, Goto, lockVars, moveVars, connVars, tokenVars,
      taskVars, sshVars, RegistryInv
<1>3. ASSUME NEW p \in Requests, ConnectEstablished(p)
      PROVE  RegistryInv'
  BY <1>3, <1>b, <1>c, <1>d, <1>e
  DEF ConnectEstablished, At, Goto, lockVars, moveVars, connVars, tokenVars,
      taskVars, sshVars, RegistryInv
<1>4. ASSUME NEW p \in Requests, ConnectFailed(p)
      PROVE  RegistryInv'
  BY <1>4, <1>b, <1>c, <1>d, <1>e
  DEF ConnectFailed, At, Goto, lockVars, moveVars, connVars, tokenVars,
      taskVars, sshVars, RegistryInv
<1>5. ASSUME NEW p \in Requests, BuildSshContext(p)
      PROVE  RegistryInv'
  BY <1>5, <1>b, <1>c, <1>d, <1>e
  DEF BuildSshContext, At, Goto, lockVars, moveVars, connVars, tokenVars,
      taskVars, sshVars, RegistryInv
<1>6. ASSUME NEW p \in Requests, EnterSsh(p)
      PROVE  RegistryInv'
  BY <1>6, <1>b, <1>c, <1>d, <1>e
  DEF EnterSsh, At, Goto, WriteLockFree, lockVars, moveVars, connVars,
      tokenVars, taskVars, sshVars, RegistryInv
<1>7. ASSUME NEW p \in Requests, TearDown(p)
      PROVE  RegistryInv'
  BY <1>7, <1>b, <1>c, <1>d, <1>e
  DEF TearDown, At, Goto, BeginMove, lockVars, moveVars, connVars, tokenVars,
      taskVars, sshVars, RegistryInv
<1>8. ASSUME NEW p \in Requests, RegisterContext(p)
      PROVE  RegistryInv'
  BY <1>8, <1>b, <1>c, <1>d, <1>e
  DEF RegisterContext, At, Goto, BeginMove, lockVars, moveVars, connVars,
      tokenVars, taskVars, sshVars, RegistryInv, ConnectInv
<1>9. ASSUME NEW p \in Requests, Disconnect(p)
      PROVE  RegistryInv'
  BY <1>9, <1>b, <1>c, <1>d, <1>e
  DEF Disconnect, At, Goto, ReadLockFree, lockVars, moveVars, connVars,
      tokenVars, taskVars, sshVars, RegistryInv
<1>10. ASSUME NEW p \in Requests, Unlink(p)
      PROVE  RegistryInv'
  BY <1>10, <1>b, <1>c, <1>d, <1>e
  DEF Unlink, At, Goto, lockVars, moveVars, connVars, tokenVars, taskVars,
      sshVars, RegistryInv
<1>11. ASSUME NEW p \in Requests, RebuildReplace(p)
      PROVE  RegistryInv'
  BY <1>11, <1>b, <1>c, <1>d, <1>e
  DEF RebuildReplace, At, Goto, WriteLockFree, CancelSlot, lockVars,
      moveVars, connVars, tokenVars, taskVars, sshVars, RegistryInv
<1>12. ASSUME NEW p \in Requests, RebuildSpawn(p)
      PROVE  RegistryInv'
  BY <1>12, <1>b, <1>c, <1>d, <1>e
  DEF RebuildSpawn, At, Goto, ReadLockFree, lockVars, moveVars, connVars,
      tokenVars, taskVars, sshVars, RegistryInv
<1>13. ASSUME NEW p \in Procs, CancelToken(p)
      PROVE  RegistryInv'
  BY <1>13, <1>b, <1>c, <1>d, <1>e
  DEF CancelToken, At, Goto, CancelSlot, lockVars, moveVars, connVars,
      tokenVars, taskVars, sshVars, RegistryInv
<1>14. ASSUME NEW p \in Procs, StopMain(p)
      PROVE  RegistryInv'
  BY <1>14, <1>b, <1>c, <1>d, <1>e
  DEF StopMain, At, Goto, lockVars, moveVars, connVars, tokenVars, taskVars,
      sshVars, RegistryInv
<1>15. ASSUME NEW p \in Procs, StopTodo(p)
      PROVE  RegistryInv'
  BY <1>15, <1>b, <1>c, <1>d, <1>e
  DEF StopTodo, At, Goto, lockVars, moveVars, connVars, tokenVars, taskVars,
      sshVars, RegistryInv
<1>16. ASSUME NEW p \in Procs, SpawnAll(p)
      PROVE  RegistryInv'
  BY <1>16, <1>b, <1>c, <1>d, <1>e
  DEF SpawnAll, At, Goto, Target, lockVars, moveVars, connVars, tokenVars,
      taskVars, sshVars, RegistryInv
<1>17. ASSUME NEW p \in Procs, StoreToken(p)
      PROVE  RegistryInv'
  BY <1>17, <1>b, <1>c, <1>d, <1>e
  DEF StoreToken, At, Goto, CancelSlot, Target, EndMove, lockVars, moveVars,
      connVars, tokenVars, taskVars, sshVars, RegistryInv
<1>18. ASSUME NEW p \in Procs, LeaveSsh(p)
      PROVE  RegistryInv'
  BY <1>18, <1>b, <1>c, <1>d, <1>e
  DEF LeaveSsh, At, Goto, WriteLockFree, BeginMove, lockVars, moveVars,
      connVars, tokenVars, taskVars, sshVars, RegistryInv
<1>19. ASSUME NEW p \in Procs, DestroyContext(p)
      PROVE  RegistryInv'
  BY <1>19, <1>b, <1>c, <1>d, <1>e
  DEF DestroyContext, At, Goto, CancelSlot, EndMove, lockVars, moveVars,
      connVars, tokenVars, taskVars, sshVars, RegistryInv, MoveInv
<1>20. ASSUME RemoteDisconnect
      PROVE  RegistryInv'
  BY <1>20, <1>b, <1>c, <1>d, <1>e
  DEF RemoteDisconnect, At, Goto, ReadLockFree, lockVars, moveVars, connVars,
      tokenVars, taskVars, sshVars, RegistryInv
<1>21. ASSUME LinkDies
      PROVE  RegistryInv'
  BY <1>21, <1>b, <1>c, <1>d, <1>e
  DEF LinkDies, lockVars, moveVars, connVars, tokenVars, taskVars, sshVars,
      RegistryInv
<1>22. ASSUME NEW g \in Gens, NEW k \in Kinds, WatchStarts(g, k)
      PROVE  RegistryInv'
  BY <1>22, <1>b, <1>c, <1>d, <1>e
  DEF WatchStarts, ctlVars, RegistryInv
<1>23. ASSUME NEW g \in Gens, NEW k \in Kinds, WatchFails(g, k)
      PROVE  RegistryInv'
  BY <1>23, <1>b, <1>c, <1>d, <1>e
  DEF WatchFails, ctlVars, RegistryInv
<1>24. ASSUME NEW g \in Gens, NEW k \in Kinds, TaskCancelled(g, k)
      PROVE  RegistryInv'
  BY <1>24, <1>b, <1>c, <1>d, <1>e
  DEF TaskCancelled, ctlVars, RegistryInv
<1>25. CASE UNCHANGED vars
  BY <1>25, <1>c
  DEF vars, RegistryInv
<1> QED
  BY <1>1, <1>2, <1>3, <1>4, <1>5, <1>6, <1>7, <1>8, <1>9, <1>10, <1>11,
     <1>12, <1>13, <1>14, <1>15, <1>16, <1>17, <1>18, <1>19, <1>20, <1>21,
     <1>22, <1>23, <1>24, <1>25
  DEF Next, Lifecycle, Connect, TaskStep

\* Every step keeps what the holder of the write lock moves between.
LEMMA MoveStep == IInv /\ [Next]_vars => MoveInv'
<1> SUFFICES ASSUME IInv, [Next]_vars PROVE MoveInv'
  OBVIOUS
<1>b. /\ NoProc \notin Procs /\ Local \in Ids /\ Local \notin Hosts
      /\ \A p \in Requests : p \in Procs
      /\ \A h \in Hosts : h \in Ids
      /\ NoHost \notin Hosts
  BY Names
<1>d. /\ contexts \in [Ids -> 0..MaxInst]
      /\ active \in Ids /\ from \in Ids /\ to \in Ids
      /\ readers \subseteq Requests
      /\ pc \in [Procs -> PCs]
      /\ built \in [Procs -> 0..MaxInst]
      /\ host \in [Procs -> Hosts \cup {NoHost}]
      /\ insts \in Nat
  BY Bounds DEF IInv, TypeOK
<1>e. \A i \in 0..MaxInst : i \in Nat
  BY Bounds
<1>c. RegistryInv /\ ConnectInv /\ LockInv /\ MoveInv
  BY DEF IInv
<1>1. ASSUME NEW p \in Requests, NEW id \in Ids, ContextSwitch(p, id)
      PROVE  MoveInv'
  <2>1. \A q \in Procs : q # p => pc[q] \notin WriterPCs /\ writer # q
    BY <1>1, <1>b, <1>c DEF ContextSwitch, At, WriteLockFree, LockInv, WriterPCs, SpawnPCs
  <2>2. /\ pc' = [pc EXCEPT ![p] = "cancel"]
        /\ active' = id /\ from' = active /\ to' = id /\ after' = "release"
        /\ writer' = p /\ contexts' = contexts /\ id # active
    BY <1>1 DEF ContextSwitch, Goto, BeginMove
  <2>3. pc'[p] = "cancel" /\ \A q \in Procs : q # p => pc'[q] = pc[q]
    BY <1>b, <1>d, <2>2
  <2>4. contexts[active] # 0
    BY <1>c DEF RegistryInv
  <2> QED
    BY <1>b, <2>1, <2>2, <2>3, <2>4 DEF MoveInv, StopPCs, WriterPCs, SpawnPCs
<1>2. ASSUME NEW p \in Requests, NEW h \in Hosts, ConnectDial(p, h)
      PROVE  MoveInv'
  BY <1>2, <1>b, <1>c, <1>d, <1>e
  DEF ConnectDial, At, Goto, lockVars, moveVars, connVars, tokenVars,
      taskVars, sshVars, MoveInv, LockInv, StopPCs, WriterPCs, SpawnPCs
<1>3. ASSUME NEW p \in Requests, ConnectEstablished(p)
      PROVE  MoveInv'
  BY <1>3, <1>b, <1>c, <1>d, <1>e
  DEF ConnectEstablished, At, Goto, lockVars, moveVars, connVars, tokenVars,
      taskVars, sshVars, MoveInv, LockInv, StopPCs, WriterPCs, SpawnPCs
<1>4. ASSUME NEW p \in Requests, ConnectFailed(p)
      PROVE  MoveInv'
  BY <1>4, <1>b, <1>c, <1>d, <1>e
  DEF ConnectFailed, At, Goto, lockVars, moveVars, connVars, tokenVars,
      taskVars, sshVars, MoveInv, LockInv, StopPCs, WriterPCs, SpawnPCs
<1>5. ASSUME NEW p \in Requests, BuildSshContext(p)
      PROVE  MoveInv'
  BY <1>5, <1>b, <1>c, <1>d, <1>e
  DEF BuildSshContext, At, Goto, lockVars, moveVars, connVars, tokenVars,
      taskVars, sshVars, MoveInv, LockInv, StopPCs, WriterPCs, SpawnPCs
<1>6. ASSUME NEW p \in Requests, EnterSsh(p)
      PROVE  MoveInv'
  <2>1. \A q \in Procs : q # p => pc[q] \notin WriterPCs /\ writer # q
    BY <1>6, <1>b, <1>c DEF EnterSsh, At, WriteLockFree, LockInv, WriterPCs, SpawnPCs
  <2>2. contexts[active] # 0
    BY <1>c DEF RegistryInv
  <2>3. writer' = p /\ UNCHANGED <<contexts, active>> /\ after = "release"
    BY <1>6, <1>c DEF EnterSsh, WriteLockFree, MoveInv
  <2>4. CASE active = Local
    <3>1. /\ pc' = [pc EXCEPT ![p] = "register"] /\ UNCHANGED <<from, to, after>>
      BY <1>6, <2>4 DEF EnterSsh, Goto, moveVars
    <3>2. pc'[p] = "register" /\ \A q \in Procs : q # p => pc'[q] = pc[q]
      BY <1>b, <1>d, <3>1
    <3> QED
      BY <1>b, <2>1, <2>3, <2>4, <3>1, <3>2 DEF MoveInv, StopPCs, WriterPCs, SpawnPCs
  <2>5. CASE active # Local
    <3>1. /\ pc' = [pc EXCEPT ![p] = "cancel"] /\ from' = active /\ after' = "toLocal"
      BY <1>6, <2>5 DEF EnterSsh, Goto
    <3>2. pc'[p] = "cancel" /\ \A q \in Procs : q # p => pc'[q] = pc[q]
      BY <1>b, <1>d, <3>1
    <3>3. active \in Hosts
      BY <1>d, <2>5 DEF Ids
    <3> QED
      BY <1>b, <2>1, <2>2, <2>3, <3>1, <3>2, <3>3 DEF MoveInv, StopPCs, WriterPCs,
         SpawnPCs
  <2> QED
    BY <2>4, <2>5
<1>7. ASSUME NEW p \in Requests, TearDown(p)
      PROVE  MoveInv'
  <2>1. \A q \in Procs : q # p => pc[q] \notin WriterPCs /\ writer # q
    BY <1>7, <1>b, <1>c DEF TearDown, At, LockInv, WriterPCs, SpawnPCs
  <2>2. /\ pc' = [pc EXCEPT ![p] = "cancel"]
        /\ active' = Local /\ from' = active /\ to' = Local /\ after' = "destroy"
        /\ writer' = writer /\ contexts' = contexts
    BY <1>7 DEF TearDown, Goto, BeginMove, lockVars
  <2>3. pc'[p] = "cancel" /\ \A q \in Procs : q # p => pc'[q] = pc[q]
    BY <1>b, <1>d, <2>2
  <2>4. contexts[active] # 0 /\ active # Local
    BY <1>7, <1>b, <1>c DEF RegistryInv, MoveInv, TearDown, At
  <2>5. writer = p
    BY <1>7, <1>b, <1>c DEF LockInv, WriterPCs, TearDown, At
  <2> QED
    BY <1>b, <2>1, <2>2, <2>3, <2>4, <2>5 DEF MoveInv, StopPCs, WriterPCs, SpawnPCs
<1>8. ASSUME NEW p \in Requests, RegisterContext(p)
      PROVE  MoveInv'
  <2>1. \A q \in Procs : q # p => pc[q] \notin WriterPCs /\ writer # q
    BY <1>8, <1>b, <1>c DEF RegisterContext, At, LockInv, WriterPCs, SpawnPCs
  <2>2. writer = p /\ active = Local /\ after = "release"
    BY <1>8, <1>b, <1>c DEF LockInv, MoveInv, WriterPCs, RegisterContext, At
  <2>3. host[p] \in Hosts /\ built[p] # 0
    BY <1>8, <1>b, <1>c, <1>d DEF ConnectInv, RegisterContext, At
  <2>4. CASE contexts[host[p]] # 0
    <3>1. /\ pc' = [pc EXCEPT ![p] = "idle"] /\ writer' = NoProc
          /\ UNCHANGED <<contexts, active, from, to, after>>
      BY <1>8, <2>4 DEF RegisterContext, Goto, moveVars
    <3>2. pc'[p] = "idle" /\ \A q \in Procs : q # p => pc'[q] = pc[q]
      BY <1>b, <1>d, <3>1
    <3> QED
      BY <1>b, <2>1, <2>2, <3>1, <3>2 DEF MoveInv, StopPCs, WriterPCs, SpawnPCs
  <2>5. CASE contexts[host[p]] = 0
    <3>1. /\ pc' = [pc EXCEPT ![p] = "cancel"] /\ writer' = p
          /\ contexts' = [contexts EXCEPT ![host[p]] = built[p]]
          /\ active' = host[p] /\ from' = Local /\ to' = host[p] /\ after' = "release"
      BY <1>8, <2>2, <2>5 DEF RegisterContext, Goto, BeginMove
    <3>2. pc'[p] = "cancel" /\ \A q \in Procs : q # p => pc'[q] = pc[q]
      BY <1>b, <1>d, <3>1
    <3>3. contexts'[Local] # 0 /\ host[p] # Local
      BY <1>b, <1>c, <1>d, <2>3, <3>1 DEF RegistryInv
    <3> QED
      BY <1>b, <2>1, <3>1, <3>2, <3>3 DEF MoveInv, StopPCs, WriterPCs, SpawnPCs
  <2> QED
    BY <2>4, <2>5
<1>9. ASSUME NEW p \in Requests, Disconnect(p)
      PROVE  MoveInv'
  BY <1>9, <1>b, <1>c, <1>d, <1>e
  DEF Disconnect, At, Goto, ReadLockFree, lockVars, moveVars, connVars,
      tokenVars, taskVars, sshVars, MoveInv, LockInv, StopPCs, WriterPCs,
      SpawnPCs
<1>10. ASSUME NEW p \in Requests, Unlink(p)
      PROVE  MoveInv'
  BY <1>10, <1>b, <1>c, <1>d, <1>e
  DEF Unlink, At, Goto, lockVars, moveVars, connVars, tokenVars, taskVars,
      sshVars, MoveInv, LockInv, StopPCs, WriterPCs, SpawnPCs
<1>11. ASSUME NEW p \in Requests, RebuildReplace(p)
      PROVE  MoveInv'
  BY <1>11, <1>b, <1>c, <1>d, <1>e
  DEF RebuildReplace, At, Goto, WriteLockFree, CancelSlot, lockVars,
      moveVars, connVars, tokenVars, taskVars, sshVars, MoveInv, LockInv,
      StopPCs, WriterPCs, SpawnPCs
<1>12. ASSUME NEW p \in Requests, RebuildSpawn(p)
      PROVE  MoveInv'
  BY <1>12, <1>b, <1>c, <1>d, <1>e
  DEF RebuildSpawn, At, Goto, ReadLockFree, lockVars, moveVars, connVars,
      tokenVars, taskVars, sshVars, MoveInv, LockInv, StopPCs, WriterPCs,
      SpawnPCs
<1>13. ASSUME NEW p \in Procs, CancelToken(p)
      PROVE  MoveInv'
  <2>1. \A q \in Procs : q # p => pc[q] \notin WriterPCs /\ writer # q
    BY <1>13, <1>b, <1>c DEF CancelToken, At, StopPCs, LockInv, WriterPCs, SpawnPCs
  <2>2. writer = p /\ contexts[from] \in Insts
    BY <1>13, <1>b, <1>c, <1>d, Bounds DEF LockInv, MoveInv, WriterPCs, StopPCs,
       CancelToken, At
  <2>3. /\ pc' = [pc EXCEPT ![p] = "stopMain"]
        /\ slot' = [slot EXCEPT ![contexts[from]] = 0]
        /\ UNCHANGED <<contexts, active, writer, from, to, after>>
    BY <1>13 DEF CancelToken, Goto, lockVars, moveVars
  <2>4. pc'[p] = "stopMain" /\ \A q \in Procs : q # p => pc'[q] = pc[q]
    BY <1>b, <1>d, <2>3
  <2>5. slot \in [Insts -> 0..MaxGen]
    BY DEF IInv, TypeOK
  <2>6. slot'[contexts'[from']] = 0
    BY <2>2, <2>3, <2>5
  <2>7. pc[p] = "cancel"
    BY <1>13 DEF CancelToken, At
  <2> QED
    BY <1>b, <1>c, <2>1, <2>2, <2>3, <2>4, <2>6, <2>7 DEF MoveInv, StopPCs, WriterPCs,
       SpawnPCs
<1>14. ASSUME NEW p \in Procs, StopMain(p)
      PROVE  MoveInv'
  BY <1>14, <1>b, <1>c, <1>d, <1>e
  DEF StopMain, At, Goto, lockVars, moveVars, connVars, tokenVars, taskVars,
      sshVars, MoveInv, LockInv, StopPCs, WriterPCs, SpawnPCs
<1>15. ASSUME NEW p \in Procs, StopTodo(p)
      PROVE  MoveInv'
  BY <1>15, <1>b, <1>c, <1>d, <1>e
  DEF StopTodo, At, Goto, lockVars, moveVars, connVars, tokenVars, taskVars,
      sshVars, MoveInv, LockInv, StopPCs, WriterPCs, SpawnPCs
<1>16. ASSUME NEW p \in Procs, SpawnAll(p)
      PROVE  MoveInv'
  BY <1>16, <1>b, <1>c, <1>d, <1>e
  DEF SpawnAll, At, Goto, Target, lockVars, moveVars, connVars, tokenVars,
      taskVars, sshVars, MoveInv, LockInv, StopPCs, WriterPCs, SpawnPCs
<1>17. ASSUME NEW p \in Procs, StoreToken(p)
      PROVE  MoveInv'
  <2>1. contexts' = contexts /\ active' = active /\ pc[p] = "store"
    BY <1>17 DEF StoreToken, At
  <2>2. \A q \in Procs : q # p => pc[q] \notin WriterPCs /\ writer # q
    BY <1>b, <1>c, <2>1 DEF LockInv, WriterPCs, SpawnPCs
  <2>3. CASE p \in readers \/ after = "release"
    <3>1. /\ pc' = [pc EXCEPT ![p] = "idle"] /\ writer' = NoProc
          /\ after' = "release"
      BY <1>17, <2>3 DEF StoreToken, Goto, EndMove
    <3>2. pc'[p] = "idle" /\ \A q \in Procs : q # p => pc'[q] = pc[q]
      BY <1>b, <1>d, <3>1
    <3> QED
      BY <1>b, <2>2, <3>1, <3>2 DEF MoveInv, StopPCs, WriterPCs, SpawnPCs
  <2>4. CASE ~(p \in readers \/ after = "release")
    <3>1. /\ pc' = [pc EXCEPT ![p] = "destroy"]
          /\ UNCHANGED <<writer, from, to, after>>
      BY <1>17, <2>4 DEF StoreToken, Goto, lockVars, moveVars
    <3>2. pc'[p] = "destroy" /\ \A q \in Procs : q # p => pc'[q] = pc[q]
      BY <1>b, <1>d, <3>1
    <3>3. writer = p
      BY <1>c, <2>1, <2>4 DEF LockInv, SpawnPCs
    <3>4. after = "destroy"
      <4>1. after \in Afters
        BY DEF IInv, TypeOK
      <4> QED
        BY <1>c, <2>1, <2>4, <3>3, <4>1 DEF MoveInv, SpawnPCs, Afters
    <3> QED
      BY <1>b, <1>c, <2>1, <2>2, <3>1, <3>2, <3>3, <3>4 DEF MoveInv, StopPCs,
         WriterPCs, SpawnPCs
  <2> QED
    BY <2>3, <2>4
<1>18. ASSUME NEW p \in Procs, LeaveSsh(p)
      PROVE  MoveInv'
  <2>1. \A q \in Procs : q # p => pc[q] \notin WriterPCs /\ writer # q
    BY <1>18, <1>b, <1>c DEF LeaveSsh, At, WriteLockFree, LockInv, WriterPCs, SpawnPCs
  <2>2. contexts[active] # 0
    BY <1>c DEF RegistryInv
  <2>3. contexts' = contexts /\ slot' = slot
    BY <1>18 DEF LeaveSsh, tokenVars
  <2>4. CASE active = Local
    <3>1. /\ pc' = [pc EXCEPT ![p] = IF p = Listener THEN "idle" ELSE "unlink"]
          /\ UNCHANGED <<active, writer, from, to, after>>
      BY <1>18, <2>4 DEF LeaveSsh, Goto, moveVars
    <3>2. /\ pc'[p] \in {"idle", "unlink"}
          /\ \A q \in Procs : q # p => pc'[q] = pc[q]
      BY <1>b, <1>d, <3>1
    <3> QED
      BY <1>c, <2>3, <3>1, <3>2 DEF MoveInv, StopPCs, SpawnPCs
  <2>5. CASE active # Local
    <3>1. /\ pc' = [pc EXCEPT ![p] = "cancel"] /\ writer' = p
          /\ active' = Local /\ from' = active /\ to' = Local /\ after' = "destroy"
      BY <1>18, <2>5 DEF LeaveSsh, Goto, BeginMove
    <3>2. pc'[p] = "cancel" /\ \A q \in Procs : q # p => pc'[q] = pc[q]
      BY <1>b, <1>d, <3>1
    <3> QED
      BY <1>b, <2>1, <2>2, <2>3, <2>5, <3>1, <3>2 DEF MoveInv, StopPCs, WriterPCs,
         SpawnPCs
  <2> QED
    BY <2>4, <2>5
<1>19. ASSUME NEW p \in Procs, DestroyContext(p)
      PROVE  MoveInv'
  BY <1>19, <1>b, <1>c, <1>d, <1>e
  DEF DestroyContext, At, Goto, CancelSlot, EndMove, lockVars, moveVars,
      connVars, tokenVars, taskVars, sshVars, MoveInv, LockInv, StopPCs,
      WriterPCs, SpawnPCs
<1>20. ASSUME RemoteDisconnect
      PROVE  MoveInv'
  BY <1>20, <1>b, <1>c, <1>d, <1>e
  DEF RemoteDisconnect, At, Goto, ReadLockFree, lockVars, moveVars, connVars,
      tokenVars, taskVars, sshVars, MoveInv, LockInv, StopPCs, WriterPCs,
      SpawnPCs
<1>21. ASSUME LinkDies
      PROVE  MoveInv'
  BY <1>21, <1>b, <1>c, <1>d, <1>e
  DEF LinkDies, lockVars, moveVars, connVars, tokenVars, taskVars, sshVars,
      MoveInv, LockInv, StopPCs, WriterPCs, SpawnPCs
<1>22. ASSUME NEW g \in Gens, NEW k \in Kinds, WatchStarts(g, k)
      PROVE  MoveInv'
  BY <1>22, <1>b, <1>c, <1>d, <1>e
  DEF WatchStarts, ctlVars, MoveInv, LockInv, StopPCs, WriterPCs, SpawnPCs
<1>23. ASSUME NEW g \in Gens, NEW k \in Kinds, WatchFails(g, k)
      PROVE  MoveInv'
  BY <1>23, <1>b, <1>c, <1>d, <1>e
  DEF WatchFails, ctlVars, MoveInv, LockInv, StopPCs, WriterPCs, SpawnPCs
<1>24. ASSUME NEW g \in Gens, NEW k \in Kinds, TaskCancelled(g, k)
      PROVE  MoveInv'
  BY <1>24, <1>b, <1>c, <1>d, <1>e
  DEF TaskCancelled, ctlVars, MoveInv, LockInv, StopPCs, WriterPCs, SpawnPCs
<1>25. CASE UNCHANGED vars
  BY <1>25, <1>c
  DEF vars, MoveInv, LockInv, StopPCs, WriterPCs, SpawnPCs
<1> QED
  BY <1>1, <1>2, <1>3, <1>4, <1>5, <1>6, <1>7, <1>8, <1>9, <1>10, <1>11,
     <1>12, <1>13, <1>14, <1>15, <1>16, <1>17, <1>18, <1>19, <1>20, <1>21,
     <1>22, <1>23, <1>24, <1>25
  DEF Next, Lifecycle, Connect, TaskStep

\* Every step keeps track of the tokens.
LEMMA TokenStep == IInv /\ [Next]_vars => TokenInv'
<1> SUFFICES ASSUME IInv, [Next]_vars PROVE TokenInv'
  OBVIOUS
<1>b. /\ NoProc \notin Procs /\ Local \in Ids /\ Local \notin Hosts
      /\ \A p \in Requests : p \in Procs
      /\ \A h \in Hosts : h \in Ids
      /\ NoHost \notin Hosts
  BY Names
<1>c. /\ TypeOK /\ LockInv /\ RegistryInv /\ MoveInv /\ ConnectInv /\ TokenInv
  BY DEF IInv
<1>d. /\ contexts \in [Ids -> 0..MaxInst]
      /\ active \in Ids /\ from \in Ids /\ to \in Ids
      /\ readers \subseteq Requests
      /\ pc \in [Procs -> PCs]
      /\ spawned \in [Procs -> 0..MaxGen]
      /\ host \in [Procs -> Hosts \cup {NoHost}]
      /\ slot \in [Insts -> 0..MaxGen]
      /\ owner \in [Gens -> 0..MaxInst]
      /\ gens \in Nat /\ gens \in Gens
  BY <1>c, Bounds DEF TypeOK
<1>e. /\ \A i \in 0..MaxInst : i # 0 => i \in Insts
      /\ \A g \in 1..gens : g \in Gens /\ g # 0 /\ g \in Nat
  BY <1>d, Bounds DEF Gens
<1>1. ASSUME NEW p \in Requests, NEW id \in Ids, ContextSwitch(p, id)
      PROVE  TokenInv'
  BY <1>1, <1>b, <1>c, <1>d
  DEF ContextSwitch, At, Goto, WriteLockFree, BeginMove, lockVars, moveVars,
      connVars, tokenVars, taskVars, sshVars, Target, TokenInv,
      NoOrphanToken, InFlight, LockInv, StopPCs, WriterPCs, SpawnPCs
<1>2. ASSUME NEW p \in Requests, NEW h \in Hosts, ConnectDial(p, h)
      PROVE  TokenInv'
  BY <1>2, <1>b, <1>c, <1>d
  DEF ConnectDial, At, Goto, lockVars, moveVars, connVars, tokenVars,
      taskVars, sshVars, Target, TokenInv, NoOrphanToken, InFlight, LockInv,
      StopPCs, WriterPCs, SpawnPCs
<1>3. ASSUME NEW p \in Requests, ConnectEstablished(p)
      PROVE  TokenInv'
  BY <1>3, <1>b, <1>c, <1>d
  DEF ConnectEstablished, At, Goto, lockVars, moveVars, connVars, tokenVars,
      taskVars, sshVars, Target, TokenInv, NoOrphanToken, InFlight, LockInv,
      StopPCs, WriterPCs, SpawnPCs
<1>4. ASSUME NEW p \in Requests, ConnectFailed(p)
      PROVE  TokenInv'
  BY <1>4, <1>b, <1>c, <1>d
  DEF ConnectFailed, At, Goto, lockVars, moveVars, connVars, tokenVars,
      taskVars, sshVars, Target, TokenInv, NoOrphanToken, InFlight, LockInv,
      StopPCs, WriterPCs, SpawnPCs
<1>5. ASSUME NEW p \in Requests, BuildSshContext(p)
      PROVE  TokenInv'
  BY <1>5, <1>b, <1>c, <1>d
  DEF BuildSshContext, At, Goto, lockVars, moveVars, connVars, tokenVars,
      taskVars, sshVars, Target, TokenInv, NoOrphanToken, InFlight, LockInv,
      StopPCs, WriterPCs, SpawnPCs
<1>6. ASSUME NEW p \in Requests, EnterSsh(p)
      PROVE  TokenInv'
  BY <1>6, <1>b, <1>c, <1>d
  DEF EnterSsh, At, Goto, WriteLockFree, lockVars, moveVars, connVars,
      tokenVars, taskVars, sshVars, Target, TokenInv, NoOrphanToken,
      InFlight, LockInv, StopPCs, WriterPCs, SpawnPCs
<1>7. ASSUME NEW p \in Requests, TearDown(p)
      PROVE  TokenInv'
  BY <1>7, <1>b, <1>c, <1>d
  DEF TearDown, At, Goto, BeginMove, lockVars, moveVars, connVars, tokenVars,
      taskVars, sshVars, Target, TokenInv, NoOrphanToken, InFlight, LockInv,
      StopPCs, WriterPCs, SpawnPCs
<1>8. ASSUME NEW p \in Requests, RegisterContext(p)
      PROVE  TokenInv'
  <2>1. UNCHANGED <<slot, cancelled, gens, owner, spawned, readers>>
    BY <1>8 DEF RegisterContext, tokenVars, taskVars
  <2>2. \A q \in Procs : pc[q] # "store"
    BY <1>8, <1>b, <1>c DEF RegisterContext, At, LockInv, WriterPCs, SpawnPCs
  <2>3. \A q \in Procs : pc'[q] # "store"
    <3>1. \E l \in {"idle", "cancel"} : pc' = [pc EXCEPT ![p] = l]
      BY <1>8 DEF RegisterContext, Goto
    <3> QED
      BY <1>d, <2>2, <3>1
  <2>4. \A id \in Ids : contexts[id] # 0 => contexts'[id] = contexts[id]
    BY <1>8, <1>d DEF RegisterContext
  <2>5. \A g \in 1..gens \ cancelled :
           /\ slot[owner[g]] = g
           /\ \E id \in Ids : contexts'[id] = owner[g]
    BY <1>c, <2>2, <2>4 DEF TokenInv, NoOrphanToken, InFlight, At
  <2> QED
    BY <1>c, <2>1, <2>3, <2>5 DEF TokenInv, NoOrphanToken
<1>9. ASSUME NEW p \in Requests, Disconnect(p)
      PROVE  TokenInv'
  BY <1>9, <1>b, <1>c, <1>d
  DEF Disconnect, At, Goto, ReadLockFree, lockVars, moveVars, connVars,
      tokenVars, taskVars, sshVars, Target, TokenInv, NoOrphanToken,
      InFlight, LockInv, StopPCs, WriterPCs, SpawnPCs
<1>10. ASSUME NEW p \in Requests, Unlink(p)
      PROVE  TokenInv'
  BY <1>10, <1>b, <1>c, <1>d
  DEF Unlink, At, Goto, lockVars, moveVars, connVars, tokenVars, taskVars,
      sshVars, Target, TokenInv, NoOrphanToken, InFlight, LockInv, StopPCs,
      WriterPCs, SpawnPCs
<1>11. ASSUME NEW p \in Requests, RebuildReplace(p)
      PROVE  TokenInv'
  <2>1. contexts[Local] \in Insts
    BY <1>11, <1>b, <1>c, <1>d, <1>e DEF RebuildReplace, At, RegistryInv
  <2>2. \A q \in Procs : pc[q] # "store"
    BY <1>11, <1>b, <1>c DEF RebuildReplace, At, WriteLockFree, LockInv, WriterPCs, StopPCs,
       SpawnPCs
  <2>3. /\ slot' = [slot EXCEPT ![contexts[Local]] = 0]
        /\ cancelled' = IF slot[contexts[Local]] = 0 THEN cancelled
                        ELSE cancelled \cup {slot[contexts[Local]]}
        /\ UNCHANGED <<gens, owner, spawned>>
    BY <1>11 DEF RebuildReplace, CancelSlot, taskVars
  <2>4. ASSUME NEW g \in 1..gens \ cancelled'
        PROVE  /\ slot'[owner[g]] = g
               /\ owner[g] # contexts[Local]
               /\ owner[g] # 0
               /\ \E id \in Ids : contexts[id] = owner[g]
    <3>1. g \notin cancelled /\ g # 0
      BY <1>e, <2>3
    <3>2. /\ slot[owner[g]] = g /\ owner[g] \in Insts /\ owner[g] # 0
          /\ \E id \in Ids : contexts[id] = owner[g]
      BY <1>c, <1>d, <1>e, <2>2, <3>1 DEF TokenInv, NoOrphanToken, InFlight, At
    <3>3. owner[g] # contexts[Local]
      BY <2>3, <3>1, <3>2
    <3> QED
      BY <1>d, <2>3, <3>2, <3>3
  <2>5. contexts' = [contexts EXCEPT ![Local] = insts + 1]
    BY <1>11 DEF RebuildReplace
  <2>6. \A q \in Procs : pc'[q] # "store"
    BY <1>11, <1>d, <2>2 DEF RebuildReplace, Goto
  <2>7. \A g \in 1..gens \ cancelled' : \E id \in Ids : contexts'[id] = owner[g]
    BY <1>d, <2>4, <2>5
  <2> QED
    BY <1>c, <2>3, <2>4, <2>6, <2>7 DEF TokenInv, NoOrphanToken
<1>12. ASSUME NEW p \in Requests, RebuildSpawn(p)
      PROVE  TokenInv'
  BY <1>12, <1>b, <1>c, <1>d
  DEF RebuildSpawn, At, Goto, ReadLockFree, lockVars, moveVars, connVars,
      tokenVars, taskVars, sshVars, Target, TokenInv, NoOrphanToken,
      InFlight, LockInv, StopPCs, WriterPCs, SpawnPCs
<1>13. ASSUME NEW p \in Procs, CancelToken(p)
      PROVE  TokenInv'
  <2>1. contexts[from] \in Insts
    BY <1>13, <1>b, <1>c, <1>d, <1>e DEF CancelToken, At, MoveInv, StopPCs
  <2>2. \A q \in Procs : pc[q] # "store"
    BY <1>13, <1>b, <1>c DEF CancelToken, At, WriteLockFree, LockInv, WriterPCs, StopPCs,
       SpawnPCs
  <2>3. /\ slot' = [slot EXCEPT ![contexts[from]] = 0]
        /\ cancelled' = IF slot[contexts[from]] = 0 THEN cancelled
                        ELSE cancelled \cup {slot[contexts[from]]}
        /\ UNCHANGED <<gens, owner, spawned>>
    BY <1>13 DEF CancelToken, CancelSlot, taskVars
  <2>4. ASSUME NEW g \in 1..gens \ cancelled'
        PROVE  /\ slot'[owner[g]] = g
               /\ owner[g] # contexts[from]
               /\ owner[g] # 0
               /\ \E id \in Ids : contexts[id] = owner[g]
    <3>1. g \notin cancelled /\ g # 0
      BY <1>e, <2>3
    <3>2. /\ slot[owner[g]] = g /\ owner[g] \in Insts /\ owner[g] # 0
          /\ \E id \in Ids : contexts[id] = owner[g]
      BY <1>c, <1>d, <1>e, <2>2, <3>1 DEF TokenInv, NoOrphanToken, InFlight, At
    <3>3. owner[g] # contexts[from]
      BY <2>3, <3>1, <3>2
    <3> QED
      BY <1>d, <2>3, <3>2, <3>3
  <2>5. contexts' = contexts /\ \A q \in Procs : pc'[q] # "store"
    BY <1>13, <1>d, <2>2 DEF CancelToken, Goto
  <2> QED
    BY <1>c, <2>3, <2>4, <2>5 DEF TokenInv, NoOrphanToken
<1>14. ASSUME NEW p \in Procs, StopMain(p)
      PROVE  TokenInv'
  BY <1>14, <1>b, <1>c, <1>d
  DEF StopMain, At, Goto, lockVars, moveVars, connVars, tokenVars, taskVars,
      sshVars, Target, TokenInv, NoOrphanToken, InFlight, LockInv, StopPCs,
      WriterPCs, SpawnPCs
<1>15. ASSUME NEW p \in Procs, StopTodo(p)
      PROVE  TokenInv'
  BY <1>15, <1>b, <1>c, <1>d
  DEF StopTodo, At, Goto, lockVars, moveVars, connVars, tokenVars, taskVars,
      sshVars, Target, TokenInv, NoOrphanToken, InFlight, LockInv, StopPCs,
      WriterPCs, SpawnPCs
<1>16. ASSUME NEW p \in Procs, SpawnAll(p)
      PROVE  TokenInv'
  <2>1. /\ pc[p] = "spawn" /\ pc' = [pc EXCEPT ![p] = "store"]
        /\ gens' = gens + 1
        /\ owner' = [owner EXCEPT ![gens + 1] = Target(p)]
        /\ spawned' = [spawned EXCEPT ![p] = gens + 1]
        /\ UNCHANGED <<contexts, readers, to, slot, cancelled>>
    BY <1>16 DEF SpawnAll, At, Goto, lockVars, moveVars, tokenVars
  <2>2. gens + 1 \in Gens
    BY <1>16, <1>d, Bounds DEF SpawnAll, Gens
  <2>3. Target(p) # 0 /\ \E id \in Ids : contexts[id] = Target(p)
    BY <1>b, <1>c, <1>d, <2>1 DEF LockInv, RegistryInv, MoveInv, SpawnPCs, Target
  <2>4. \A q \in Procs : Target(q)' = Target(q)
    BY <2>1 DEF Target
  <2>5. \A g \in 1..gens : owner'[g] = owner[g] /\ g # gens + 1
    BY <1>d, <1>e, <2>1
  <2>6. /\ owner'[gens + 1] = Target(p) /\ spawned'[p] = gens + 1 /\ pc'[p] = "store"
        /\ \A q \in Procs : q # p => pc'[q] = pc[q] /\ spawned'[q] = spawned[q]
    BY <1>d, <2>1, <2>2
  <2>7. 1..gens' = (1..gens) \cup {gens + 1}
    BY <1>d, <2>1
  <2>8. \A g \in 1..gens : InFlight(g) => InFlight(g)'
    BY <2>1, <2>6 DEF InFlight, At
  <2>9. \A g : g = gens + 1 => InFlight(g)'
    BY <2>6 DEF InFlight, At
  <2>10. \A g \in 1..gens' : owner'[g] # 0
    BY <1>c, <2>3, <2>5, <2>6, <2>7 DEF TokenInv
  <2>11. ASSUME NEW q \in Procs, pc'[q] = "store"
         PROVE  spawned'[q] \in 1..gens' /\ owner'[spawned'[q]] = Target(q)'
    <3>1. CASE q = p
      BY <2>4, <2>6, <2>7, <3>1
    <3>2. CASE q # p
      BY <1>c, <2>4, <2>5, <2>6, <2>7, <2>11, <3>2 DEF TokenInv
    <3> QED
      BY <3>1, <3>2
  <2>12. NoOrphanToken'
    <3>1. SUFFICES ASSUME NEW g \in 1..gens', g \notin cancelled'
          PROVE /\ slot'[owner'[g]] = g \/ InFlight(g)'
                /\ \E id \in Ids : contexts'[id] = owner'[g]
      BY DEF NoOrphanToken
    <3>2. CASE g = gens + 1
      BY <2>1, <2>3, <2>6, <2>9, <3>2
    <3>3. CASE g \in 1..gens
      BY <1>c, <2>1, <2>5, <2>8, <3>1, <3>3 DEF TokenInv, NoOrphanToken
    <3> QED
      BY <2>7, <3>2, <3>3
  <2> QED
    BY <2>10, <2>11, <2>12 DEF TokenInv
<1>17. ASSUME NEW p \in Procs, StoreToken(p)
      PROVE  TokenInv'
  <2>1. /\ pc[p] = "store"
        /\ slot' = [slot EXCEPT ![Target(p)] = spawned[p]]
        /\ spawned' = [spawned EXCEPT ![p] = 0]
        /\ cancelled' = IF slot[Target(p)] = 0 THEN cancelled
                        ELSE cancelled \cup {slot[Target(p)]}
        /\ UNCHANGED <<contexts, gens, owner>>
    BY <1>17 DEF StoreToken, At, CancelSlot, taskVars
  <2>2. /\ spawned[p] \in 1..gens /\ owner[spawned[p]] = Target(p)
        /\ Target(p) # 0
    BY <1>c, <2>1 DEF TokenInv
  <2>3. Target(p) \in Insts
    BY <1>d, <1>e, <2>2
  <2>4. /\ \A q \in Procs : q # p => pc'[q] = pc[q] /\ spawned'[q] = spawned[q]
        /\ pc'[p] # "store"
    <3>1. \E l \in {"idle", "destroy"} : pc' = [pc EXCEPT ![p] = l]
      BY <1>17 DEF StoreToken, Goto
    <3> QED
      BY <1>d, <2>1, <3>1
  <2>5. ASSUME NEW q \in Procs, q # p, pc[q] = "store"
        PROVE  q \in readers /\ q \in readers' /\ Target(q)' = Target(q)
    <3>1. q \in readers
      BY <1>b, <1>c, <2>1, <2>5 DEF LockInv, SpawnPCs
    <3>2. q \in readers'
      BY <1>17, <2>5, <3>1 DEF StoreToken, lockVars
    <3> QED
      BY <2>1, <3>1, <3>2 DEF Target
  <2>6. ASSUME NEW g \in 1..gens, g \notin cancelled'
        PROVE  slot'[owner[g]] = g \/ InFlight(g)'
    <3>1. CASE g = spawned[p]
      BY <1>d, <2>1, <2>2, <2>3, <3>1
    <3>2. CASE g # spawned[p]
      <4>1. g \notin cancelled /\ g # 0
        BY <1>e, <2>1, <2>6
      <4>2. slot[owner[g]] = g \/ InFlight(g)
        BY <1>c, <4>1 DEF TokenInv, NoOrphanToken
      <4>3. CASE InFlight(g)
        BY <2>4, <3>2, <4>3 DEF InFlight, At
      <4>4. CASE slot[owner[g]] = g
        <5>1. owner[g] # Target(p)
          BY <2>1, <2>6, <4>1, <4>4
        <5> QED
          BY <1>c, <1>d, <1>e, <2>1, <4>4, <5>1 DEF TokenInv
      <4> QED
        BY <4>2, <4>3, <4>4
    <3> QED
      BY <3>1, <3>2
  <2>7. \A g \in 1..gens : g \notin cancelled' => g \notin cancelled
    BY <2>1
  <2>8. \A q \in Procs : pc'[q] = "store" =>
           spawned'[q] \in 1..gens' /\ owner'[spawned'[q]] = Target(q)'
    BY <1>c, <2>1, <2>4, <2>5 DEF TokenInv
  <2> QED
    BY <1>c, <2>1, <2>6, <2>7, <2>8 DEF TokenInv, NoOrphanToken
<1>18. ASSUME NEW p \in Procs, LeaveSsh(p)
      PROVE  TokenInv'
  BY <1>18, <1>b, <1>c, <1>d
  DEF LeaveSsh, At, Goto, WriteLockFree, BeginMove, lockVars, moveVars,
      connVars, tokenVars, taskVars, sshVars, Target, TokenInv,
      NoOrphanToken, InFlight, LockInv, StopPCs, WriterPCs, SpawnPCs
<1>19. ASSUME NEW p \in Procs, DestroyContext(p)
      PROVE  TokenInv'
  <2>1. contexts[from] \in Insts
    BY <1>19, <1>b, <1>c, <1>d, <1>e DEF DestroyContext, At, MoveInv
  <2>2. \A q \in Procs : pc[q] # "store"
    BY <1>19, <1>b, <1>c DEF DestroyContext, At, WriteLockFree, LockInv, WriterPCs, StopPCs,
       SpawnPCs
  <2>3. /\ slot' = [slot EXCEPT ![contexts[from]] = 0]
        /\ cancelled' = IF slot[contexts[from]] = 0 THEN cancelled
                        ELSE cancelled \cup {slot[contexts[from]]}
        /\ UNCHANGED <<gens, owner, spawned>>
    BY <1>19 DEF DestroyContext, CancelSlot, taskVars
  <2>4. ASSUME NEW g \in 1..gens \ cancelled'
        PROVE  /\ slot'[owner[g]] = g
               /\ owner[g] # contexts[from]
               /\ owner[g] # 0
               /\ \E id \in Ids : contexts[id] = owner[g]
    <3>1. g \notin cancelled /\ g # 0
      BY <1>e, <2>3
    <3>2. /\ slot[owner[g]] = g /\ owner[g] \in Insts /\ owner[g] # 0
          /\ \E id \in Ids : contexts[id] = owner[g]
      BY <1>c, <1>d, <1>e, <2>2, <3>1 DEF TokenInv, NoOrphanToken, InFlight, At
    <3>3. owner[g] # contexts[from]
      BY <2>3, <3>1, <3>2
    <3> QED
      BY <1>d, <2>3, <3>2, <3>3
  <2>5. contexts' = [contexts EXCEPT ![from] = 0]
    BY <1>19 DEF DestroyContext
  <2>6. \A q \in Procs : pc'[q] # "store"
    <3>1. \E l \in {"register", "idle", "unlink"} : pc' = [pc EXCEPT ![p] = l]
      BY <1>19 DEF DestroyContext, Goto
    <3> QED
      BY <1>d, <2>2, <3>1
  <2>7. \A g \in 1..gens \ cancelled' : \E id \in Ids : contexts'[id] = owner[g]
    BY <1>d, <2>4, <2>5
  <2> QED
    BY <1>c, <2>3, <2>4, <2>6, <2>7 DEF TokenInv, NoOrphanToken
<1>20. ASSUME RemoteDisconnect
      PROVE  TokenInv'
  BY <1>20, <1>b, <1>c, <1>d
  DEF RemoteDisconnect, At, Goto, ReadLockFree, lockVars, moveVars, connVars,
      tokenVars, taskVars, sshVars, Target, TokenInv, NoOrphanToken,
      InFlight, LockInv, StopPCs, WriterPCs, SpawnPCs
<1>21. ASSUME LinkDies
      PROVE  TokenInv'
  BY <1>21, <1>b, <1>c, <1>d
  DEF LinkDies, lockVars, moveVars, connVars, tokenVars, taskVars, sshVars,
      At, Target, TokenInv, NoOrphanToken, InFlight, LockInv, StopPCs,
      WriterPCs, SpawnPCs
<1>22. ASSUME NEW g \in Gens, NEW k \in Kinds, WatchStarts(g, k)
      PROVE  TokenInv'
  BY <1>22, <1>b, <1>c, <1>d
  DEF WatchStarts, ctlVars, At, Target, TokenInv, NoOrphanToken, InFlight,
      LockInv, StopPCs, WriterPCs, SpawnPCs
<1>23. ASSUME NEW g \in Gens, NEW k \in Kinds, WatchFails(g, k)
      PROVE  TokenInv'
  BY <1>23, <1>b, <1>c, <1>d
  DEF WatchFails, ctlVars, At, Target, TokenInv, NoOrphanToken, InFlight,
      LockInv, StopPCs, WriterPCs, SpawnPCs
<1>24. ASSUME NEW g \in Gens, NEW k \in Kinds, TaskCancelled(g, k)
      PROVE  TokenInv'
  BY <1>24, <1>b, <1>c, <1>d
  DEF TaskCancelled, ctlVars, At, Target, TokenInv, NoOrphanToken, InFlight,
      LockInv, StopPCs, WriterPCs, SpawnPCs
<1>25. CASE UNCHANGED vars
  BY <1>25, <1>c
  DEF vars, At, Target, TokenInv, NoOrphanToken, InFlight, LockInv, StopPCs, WriterPCs,
      SpawnPCs
<1> QED
  BY <1>1, <1>2, <1>3, <1>4, <1>5, <1>6, <1>7, <1>8, <1>9, <1>10, <1>11,
     <1>12, <1>13, <1>14, <1>15, <1>16, <1>17, <1>18, <1>19, <1>20, <1>21,
     <1>22, <1>23, <1>24, <1>25
  DEF Next, Lifecycle, Connect, TaskStep

\* Every step keeps one running listener per FileWatcher.
LEMMA ListenStep == IInv /\ [Next]_vars => ListenInv'
<1> SUFFICES ASSUME IInv, [Next]_vars PROVE ListenInv'
  OBVIOUS
<1>b. /\ NoProc \notin Procs
      /\ \A p \in Requests : p \in Procs
  BY Names
<1>c. /\ TypeOK /\ LockInv /\ RegistryInv /\ MoveInv /\ TokenInv /\ ListenInv
  BY DEF IInv
<1>d. /\ contexts \in [Ids -> 0..MaxInst]
      /\ from \in Ids
      /\ owner \in [Gens -> 0..MaxInst]
      /\ gens \in Nat /\ gens \in Gens
      /\ task \in [Gens -> [Kinds -> {"none", "pending", "live", "exited"}]]
      /\ watching \in [Insts -> SUBSET WatchKinds]
  BY <1>c, Bounds DEF TypeOK
<1>e. /\ \A i \in 0..MaxInst : i # 0 => i \in Insts
      /\ \A g \in Gens : g \in Nat /\ g # 0
  BY Bounds
<1>f. ListenInv
  BY <1>c
<1>1. ASSUME NEW p \in Requests, NEW id \in Ids, ContextSwitch(p, id)
      PROVE  ListenInv'
  BY <1>1, <1>f
  DEF ContextSwitch, At, Goto, WriteLockFree, BeginMove, lockVars, moveVars,
      connVars, tokenVars, taskVars, sshVars, ListenInv, OneListener
<1>2. ASSUME NEW p \in Requests, NEW h \in Hosts, ConnectDial(p, h)
      PROVE  ListenInv'
  BY <1>2, <1>f
  DEF ConnectDial, At, Goto, lockVars, moveVars, connVars, tokenVars,
      taskVars, sshVars, ListenInv, OneListener
<1>3. ASSUME NEW p \in Requests, ConnectEstablished(p)
      PROVE  ListenInv'
  BY <1>3, <1>f
  DEF ConnectEstablished, At, Goto, lockVars, moveVars, connVars, tokenVars,
      taskVars, sshVars, ListenInv, OneListener
<1>4. ASSUME NEW p \in Requests, ConnectFailed(p)
      PROVE  ListenInv'
  BY <1>4, <1>f
  DEF ConnectFailed, At, Goto, lockVars, moveVars, connVars, tokenVars,
      taskVars, sshVars, ListenInv, OneListener
<1>5. ASSUME NEW p \in Requests, BuildSshContext(p)
      PROVE  ListenInv'
  BY <1>5, <1>f
  DEF BuildSshContext, At, Goto, lockVars, moveVars, connVars, tokenVars,
      taskVars, sshVars, ListenInv, OneListener
<1>6. ASSUME NEW p \in Requests, EnterSsh(p)
      PROVE  ListenInv'
  BY <1>6, <1>f
  DEF EnterSsh, At, Goto, WriteLockFree, lockVars, moveVars, connVars,
      tokenVars, taskVars, sshVars, ListenInv, OneListener
<1>7. ASSUME NEW p \in Requests, TearDown(p)
      PROVE  ListenInv'
  BY <1>7, <1>f
  DEF TearDown, At, Goto, BeginMove, lockVars, moveVars, connVars, tokenVars,
      taskVars, sshVars, ListenInv, OneListener
<1>8. ASSUME NEW p \in Requests, RegisterContext(p)
      PROVE  ListenInv'
  BY <1>8, <1>f
  DEF RegisterContext, At, Goto, BeginMove, lockVars, moveVars, connVars,
      tokenVars, taskVars, sshVars, ListenInv, OneListener
<1>9. ASSUME NEW p \in Requests, Disconnect(p)
      PROVE  ListenInv'
  BY <1>9, <1>f
  DEF Disconnect, At, Goto, ReadLockFree, lockVars, moveVars, connVars,
      tokenVars, taskVars, sshVars, ListenInv, OneListener
<1>10. ASSUME NEW p \in Requests, Unlink(p)
      PROVE  ListenInv'
  BY <1>10, <1>f
  DEF Unlink, At, Goto, lockVars, moveVars, connVars, tokenVars, taskVars,
      sshVars, ListenInv, OneListener
<1>11. ASSUME NEW p \in Requests, RebuildReplace(p)
      PROVE  ListenInv'
  <2>1. cancelled \subseteq cancelled' /\ UNCHANGED <<gens, owner, task, watching>>
    BY <1>11 DEF RebuildReplace, CancelSlot, taskVars
  <2> QED
    BY <1>f, <2>1 DEF ListenInv, OneListener
<1>12. ASSUME NEW p \in Requests, RebuildSpawn(p)
      PROVE  ListenInv'
  BY <1>12, <1>f
  DEF RebuildSpawn, At, Goto, ReadLockFree, lockVars, moveVars, connVars,
      tokenVars, taskVars, sshVars, ListenInv, OneListener
<1>13. ASSUME NEW p \in Procs, CancelToken(p)
      PROVE  ListenInv'
  <2>1. cancelled \subseteq cancelled' /\ UNCHANGED <<gens, owner, task, watching>>
    BY <1>13 DEF CancelToken, CancelSlot, taskVars
  <2> QED
    BY <1>f, <2>1 DEF ListenInv, OneListener
<1>14. ASSUME NEW p \in Procs, StopMain(p)
      PROVE  ListenInv'
  <2>1. \A q \in Procs : pc[q] # "store"
    BY <1>14, <1>b, <1>c DEF StopMain, At, LockInv, WriterPCs, StopPCs, SpawnPCs
  <2>2. slot[contexts[from]] = 0
    BY <1>14, <1>c DEF StopMain, At, MoveInv
  <2>3. /\ watching' = [watching EXCEPT ![contexts[from]] = @ \ {"main"}]
        /\ UNCHANGED <<cancelled, gens, owner, task>>
    BY <1>14 DEF StopMain, tokenVars
  <2>4. ASSUME NEW g \in Gens \ cancelled, NEW j \in Kinds \cap WatchKinds,
               task[g][j] = "live"
        PROVE  owner[g] \in Insts /\ owner[g] # contexts[from]
    <3>1. g \in 1..gens
      BY <1>d, <1>e, <1>f, <2>4 DEF ListenInv
    <3>2. slot[owner[g]] = g /\ owner[g] # 0
      BY <1>c, <2>1, <2>4, <3>1 DEF TokenInv, NoOrphanToken, InFlight, At
    <3> QED
      BY <1>d, <1>e, <2>2, <3>2
  <2>5. \A i \in Insts : i # contexts[from] => watching'[i] = watching[i]
    BY <1>d, <2>3
  <2> QED
    BY <1>f, <2>3, <2>4, <2>5 DEF ListenInv, OneListener
<1>15. ASSUME NEW p \in Procs, StopTodo(p)
      PROVE  ListenInv'
  <2>1. \A q \in Procs : pc[q] # "store"
    BY <1>15, <1>b, <1>c DEF StopTodo, At, LockInv, WriterPCs, StopPCs, SpawnPCs
  <2>2. slot[contexts[from]] = 0
    BY <1>15, <1>c DEF StopTodo, At, MoveInv
  <2>3. /\ watching' = [watching EXCEPT ![contexts[from]] = @ \ {"todo"}]
        /\ UNCHANGED <<cancelled, gens, owner, task>>
    BY <1>15 DEF StopTodo, tokenVars
  <2>4. ASSUME NEW g \in Gens \ cancelled, NEW j \in Kinds \cap WatchKinds,
               task[g][j] = "live"
        PROVE  owner[g] \in Insts /\ owner[g] # contexts[from]
    <3>1. g \in 1..gens
      BY <1>d, <1>e, <1>f, <2>4 DEF ListenInv
    <3>2. slot[owner[g]] = g /\ owner[g] # 0
      BY <1>c, <2>1, <2>4, <3>1 DEF TokenInv, NoOrphanToken, InFlight, At
    <3> QED
      BY <1>d, <1>e, <2>2, <3>2
  <2>5. \A i \in Insts : i # contexts[from] => watching'[i] = watching[i]
    BY <1>d, <2>3
  <2> QED
    BY <1>f, <2>3, <2>4, <2>5 DEF ListenInv, OneListener
<1>16. ASSUME NEW p \in Procs, SpawnAll(p)
      PROVE  ListenInv'
  <2>1. /\ gens' = gens + 1
        /\ owner' = [owner EXCEPT ![gens + 1] = Target(p)]
        /\ task' = [task EXCEPT ![gens + 1] = [k \in Kinds |-> "pending"]]
        /\ UNCHANGED <<cancelled, watching>>
    BY <1>16 DEF SpawnAll, tokenVars
  <2>2. \A g \in Gens : g # gens + 1 => task'[g] = task[g] /\ owner'[g] = owner[g]
    BY <1>d, <2>1
  <2>3. \A k \in Kinds : gens + 1 \in Gens => task'[gens + 1][k] = "pending"
    BY <1>d, <2>1
  <2>4. \A g \in Gens, k \in Kinds : task'[g][k] = "live" => g # gens + 1
    BY <2>3
  <2>5. \A g \in Gens, k \in Kinds : task'[g][k] # "none" => g <= gens'
    BY <1>d, <1>e, <1>f, <2>1, <2>2 DEF ListenInv
  <2> QED
    BY <1>f, <2>1, <2>2, <2>4, <2>5 DEF ListenInv, OneListener
<1>17. ASSUME NEW p \in Procs, StoreToken(p)
      PROVE  ListenInv'
  <2>1. cancelled \subseteq cancelled' /\ UNCHANGED <<gens, owner, task, watching>>
    BY <1>17 DEF StoreToken, CancelSlot, taskVars
  <2> QED
    BY <1>f, <2>1 DEF ListenInv, OneListener
<1>18. ASSUME NEW p \in Procs, LeaveSsh(p)
      PROVE  ListenInv'
  BY <1>18, <1>f
  DEF LeaveSsh, At, Goto, WriteLockFree, BeginMove, lockVars, moveVars,
      connVars, tokenVars, taskVars, sshVars, ListenInv, OneListener
<1>19. ASSUME NEW p \in Procs, DestroyContext(p)
      PROVE  ListenInv'
  <2>1. cancelled \subseteq cancelled' /\ UNCHANGED <<gens, owner, task, watching>>
    BY <1>19 DEF DestroyContext, CancelSlot, taskVars
  <2> QED
    BY <1>f, <2>1 DEF ListenInv, OneListener
<1>20. ASSUME RemoteDisconnect
      PROVE  ListenInv'
  BY <1>20, <1>f
  DEF RemoteDisconnect, At, Goto, ReadLockFree, lockVars, moveVars, connVars,
      tokenVars, taskVars, sshVars, ListenInv, OneListener
<1>21. ASSUME LinkDies
      PROVE  ListenInv'
  BY <1>21, <1>f
  DEF LinkDies, lockVars, moveVars, connVars, tokenVars, taskVars, sshVars,
      ListenInv, OneListener
<1>22. ASSUME NEW g \in Gens, NEW k \in Kinds, WatchStarts(g, k)
      PROVE  ListenInv'
  <2>1. /\ task[g][k] = "pending"
        /\ UNCHANGED <<cancelled, gens, owner>>
    BY <1>22 DEF WatchStarts, ctlVars
  <2>2. CASE k \in watching[owner[g]]
    <3>1. task' = [task EXCEPT ![g][k] = "exited"] /\ watching' = watching
      BY <1>22, <2>2 DEF WatchStarts
    <3>2. \A h \in Gens, j \in Kinds : task'[h][j] = "live" => task[h][j] = "live"
      BY <1>d, <3>1
    <3>3. \A h \in Gens, j \in Kinds : task'[h][j] # "none" => task[h][j] # "none"
      BY <1>d, <2>1, <3>1
    <3> QED
      BY <1>f, <2>1, <3>1, <3>2, <3>3 DEF ListenInv, OneListener
  <2>3. CASE k \notin watching[owner[g]]
    <3>1. /\ task' = [task EXCEPT ![g][k] = "live"]
          /\ watching' = [watching EXCEPT ![owner[g]] = @ \cup ({k} \cap WatchKinds)]
      BY <1>22, <2>3 DEF WatchStarts
    <3>2. \A h \in Gens, j \in Kinds :
             task'[h][j] = "live" => task[h][j] = "live" \/ (h = g /\ j = k)
      BY <1>d, <3>1
    <3>3. \A h \in Gens, j \in Kinds : task'[h][j] # "none" => task[h][j] # "none"
      BY <1>d, <2>1, <3>1
    <3>4. owner[g] \in Insts
      <4>1. g \in 1..gens
        BY <1>d, <1>e, <1>f, <2>1 DEF ListenInv
      <4> QED
        BY <1>c, <1>d, <1>e, <4>1 DEF TokenInv
    <3>5. /\ k \in WatchKinds => k \in watching'[owner[g]]
          /\ \A i \in Insts : watching[i] \subseteq watching'[i]
      BY <1>d, <3>1, <3>4
    <3>6. ASSUME NEW h \in Gens \ cancelled, NEW j \in Kinds \cap WatchKinds,
                 task[h][j] = "live"
          PROVE  /\ j \in watching'[owner[h]]
                 /\ j = k => owner[h] # owner[g]
      <4>1. j \in watching[owner[h]]
        BY <1>f, <3>6 DEF ListenInv
      <4>2. h \in 1..gens
        BY <1>d, <1>e, <1>f, <3>6 DEF ListenInv
      <4>3. owner[h] \in Insts
        BY <1>c, <1>d, <1>e, <4>2 DEF TokenInv
      <4> QED
        BY <2>3, <3>5, <4>1, <4>3
    <3> QED
      BY <1>f, <2>1, <3>2, <3>3, <3>5, <3>6 DEF ListenInv, OneListener
  <2> QED
    BY <2>2, <2>3
<1>23. ASSUME NEW g \in Gens, NEW k \in Kinds, WatchFails(g, k)
      PROVE  ListenInv'
  <2>1. /\ task' = [task EXCEPT ![g][k] = "exited"]
        /\ task[g][k] # "none"
        /\ UNCHANGED <<cancelled, gens, owner, watching>>
    BY <1>23 DEF WatchFails, ctlVars
  <2>2. /\ \A h \in Gens, j \in Kinds \cap WatchKinds :
              task'[h][j] = "live" => task[h][j] = "live"
        /\ \A h \in Gens, j \in Kinds : task'[h][j] # "none" => task[h][j] # "none"
    BY <1>d, <2>1
  <2> QED
    BY <1>f, <2>1, <2>2 DEF ListenInv, OneListener
<1>24. ASSUME NEW g \in Gens, NEW k \in Kinds, TaskCancelled(g, k)
      PROVE  ListenInv'
  <2>1. /\ task' = [task EXCEPT ![g][k] = "exited"]
        /\ task[g][k] # "none"
        /\ UNCHANGED <<cancelled, gens, owner, watching>>
    BY <1>24 DEF TaskCancelled, ctlVars
  <2>2. /\ \A h \in Gens, j \in Kinds \cap WatchKinds :
              task'[h][j] = "live" => task[h][j] = "live"
        /\ \A h \in Gens, j \in Kinds : task'[h][j] # "none" => task[h][j] # "none"
    BY <1>d, <2>1
  <2> QED
    BY <1>f, <2>1, <2>2 DEF ListenInv, OneListener
<1>25. CASE UNCHANGED vars
  BY <1>25, <1>f
  DEF vars, ListenInv, OneListener
<1> QED
  BY <1>1, <1>2, <1>3, <1>4, <1>5, <1>6, <1>7, <1>8, <1>9, <1>10, <1>11,
     <1>12, <1>13, <1>14, <1>15, <1>16, <1>17, <1>18, <1>19, <1>20, <1>21,
     <1>22, <1>23, <1>24, <1>25
  DEF Next, Lifecycle, Connect, TaskStep

\* Every step leaves the active context with a token, or a promise of one.
LEMMA ActiveStep == IInv /\ [Next]_vars => ActiveInv'
<1> SUFFICES ASSUME IInv, [Next]_vars PROVE ActiveInv'
  OBVIOUS
<1>b. /\ NoProc \notin Procs /\ Local \in Ids /\ Local \notin Hosts
      /\ \A p \in Requests : p \in Procs
      /\ \A h \in Hosts : h \in Ids
  BY Names
<1>c. /\ TypeOK /\ LockInv /\ RegistryInv /\ MoveInv /\ ConnectInv /\ TokenInv
      /\ ActiveInv /\ QuietInv
  BY DEF IInv
<1>d. /\ contexts \in [Ids -> 0..MaxInst]
      /\ active \in Ids /\ from \in Ids /\ to \in Ids
      /\ readers \subseteq Requests
      /\ pc \in [Procs -> PCs]
      /\ spawned \in [Procs -> 0..MaxGen]
      /\ host \in [Procs -> Hosts \cup {NoHost}]
      /\ slot \in [Insts -> 0..MaxGen]
  BY <1>c, Bounds DEF TypeOK
<1>e. /\ \A i \in 0..MaxInst : i # 0 => i \in Insts
      /\ \A g \in Gens : g # 0
  BY Bounds
<1>f. \A a, b \in Ids : contexts[a] = contexts[b] /\ contexts[a] # 0 => a = b
  BY <1>c DEF RegistryInv
<1>g. /\ contexts[active] \in Insts /\ contexts[Local] \in Insts
      /\ contexts[active] # 0 /\ contexts[Local] # 0
  BY <1>b, <1>c, <1>d, <1>e DEF RegistryInv
<1>1. ASSUME NEW p \in Requests, NEW id \in Ids, ContextSwitch(p, id)
      PROVE  ActiveInv'
  <2>1. writer' = p /\ pc' = [pc EXCEPT ![p] = "cancel"]
    BY <1>1 DEF ContextSwitch, Goto
  <2> QED
    BY <1>b, <1>d, <2>1 DEF ActiveInv, StopPCs
<1>2. ASSUME NEW p \in Requests, NEW h \in Hosts, ConnectDial(p, h)
      PROVE  ActiveInv'
  BY <1>2, <1>b, <1>c, <1>d
  DEF ConnectDial, At, Goto, lockVars, moveVars, connVars, tokenVars,
      taskVars, sshVars, ActiveInv, LockInv, StopPCs, WriterPCs, SpawnPCs
<1>3. ASSUME NEW p \in Requests, ConnectEstablished(p)
      PROVE  ActiveInv'
  BY <1>3, <1>b, <1>c, <1>d
  DEF ConnectEstablished, At, Goto, lockVars, moveVars, connVars, tokenVars,
      taskVars, sshVars, ActiveInv, LockInv, StopPCs, WriterPCs, SpawnPCs
<1>4. ASSUME NEW p \in Requests, ConnectFailed(p)
      PROVE  ActiveInv'
  BY <1>4, <1>b, <1>c, <1>d
  DEF ConnectFailed, At, Goto, lockVars, moveVars, connVars, tokenVars,
      taskVars, sshVars, ActiveInv, LockInv, StopPCs, WriterPCs, SpawnPCs
<1>5. ASSUME NEW p \in Requests, BuildSshContext(p)
      PROVE  ActiveInv'
  BY <1>5, <1>b, <1>c, <1>d
  DEF BuildSshContext, At, Goto, lockVars, moveVars, connVars, tokenVars,
      taskVars, sshVars, ActiveInv, LockInv, StopPCs, WriterPCs, SpawnPCs
<1>6. ASSUME NEW p \in Requests, EnterSsh(p)
      PROVE  ActiveInv'
  BY <1>6, <1>b, <1>c, <1>d
  DEF EnterSsh, At, Goto, WriteLockFree, lockVars, moveVars, connVars,
      tokenVars, taskVars, sshVars, ActiveInv, LockInv, StopPCs, WriterPCs,
      SpawnPCs
<1>7. ASSUME NEW p \in Requests, TearDown(p)
      PROVE  ActiveInv'
  <2>1. writer = p
    BY <1>7, <1>b, <1>c DEF LockInv, WriterPCs, TearDown, At
  <2>2. writer' = p /\ pc' = [pc EXCEPT ![p] = "cancel"]
    BY <1>7, <2>1 DEF TearDown, Goto, lockVars
  <2> QED
    BY <1>b, <1>d, <2>2 DEF ActiveInv, StopPCs
<1>8. ASSUME NEW p \in Requests, RegisterContext(p)
      PROVE  ActiveInv'
  <2>1. writer = p /\ pc[p] = "register"
    BY <1>8, <1>b, <1>c DEF LockInv, WriterPCs, RegisterContext, At
  <2>2. CASE contexts[host[p]] # 0
    <3>1. pc' = [pc EXCEPT ![p] = "idle"] /\ UNCHANGED <<contexts, active, slot>>
      BY <1>8, <2>2 DEF RegisterContext, Goto, tokenVars
    <3>2. \/ slot[contexts[active]] # 0
          \/ active = Local /\ \E q \in Requests : pc[q] \in {"respawn", "spawn", "store"}
      BY <1>b, <1>c, <2>1 DEF ActiveInv, StopPCs, SpawnPCs
    <3> QED
      BY <1>b, <1>d, <2>1, <3>1, <3>2 DEF ActiveInv
  <2>3. CASE contexts[host[p]] = 0
    <3>1. writer' = p /\ pc' = [pc EXCEPT ![p] = "cancel"]
      BY <1>8, <2>1, <2>3 DEF RegisterContext, Goto
    <3> QED
      BY <1>b, <1>d, <3>1 DEF ActiveInv, StopPCs
  <2> QED
    BY <2>2, <2>3
<1>9. ASSUME NEW p \in Requests, Disconnect(p)
      PROVE  ActiveInv'
  BY <1>9, <1>b, <1>c, <1>d
  DEF Disconnect, At, Goto, ReadLockFree, lockVars, moveVars, connVars,
      tokenVars, taskVars, sshVars, ActiveInv, LockInv, StopPCs, WriterPCs,
      SpawnPCs
<1>10. ASSUME NEW p \in Requests, Unlink(p)
      PROVE  ActiveInv'
  BY <1>10, <1>b, <1>c, <1>d
  DEF Unlink, At, Goto, lockVars, moveVars, connVars, tokenVars, taskVars,
      sshVars, ActiveInv, LockInv, StopPCs, WriterPCs, SpawnPCs
<1>11. ASSUME NEW p \in Requests, RebuildReplace(p)
      PROVE  ActiveInv'
  <2>1. /\ contexts' = [contexts EXCEPT ![Local] = insts + 1]
        /\ slot' = [slot EXCEPT ![contexts[Local]] = 0]
        /\ active' = active
        /\ pc' = [pc EXCEPT ![p] = "respawn"]
        /\ writer = NoProc
    BY <1>11 DEF RebuildReplace, Goto, WriteLockFree
  <2>2. CASE active = Local
    BY <1>b, <1>d, <2>1, <2>2 DEF ActiveInv
  <2>3. CASE active # Local
    <3>1. slot[contexts[active]] # 0
      BY <1>b, <1>c, <2>1, <2>3 DEF ActiveInv
    <3>2. /\ contexts'[active] = contexts[active]
          /\ slot'[contexts[active]] = slot[contexts[active]]
      BY <1>b, <1>d, <1>f, <1>g, <2>1, <2>3
    <3> QED
      BY <2>1, <3>1, <3>2 DEF ActiveInv
  <2> QED
    BY <2>2, <2>3
<1>12. ASSUME NEW p \in Requests, RebuildSpawn(p)
      PROVE  ActiveInv'
  BY <1>12, <1>b, <1>c, <1>d
  DEF RebuildSpawn, At, Goto, ReadLockFree, lockVars, moveVars, connVars,
      tokenVars, taskVars, sshVars, ActiveInv, LockInv, StopPCs, WriterPCs,
      SpawnPCs
<1>13. ASSUME NEW p \in Procs, CancelToken(p)
      PROVE  ActiveInv'
  <2>1. writer = p
    BY <1>13, <1>b, <1>c DEF LockInv, WriterPCs, StopPCs, CancelToken, At
  <2>2. writer' = p /\ pc' = [pc EXCEPT ![p] = "stopMain"]
    BY <1>13, <2>1 DEF CancelToken, Goto, lockVars
  <2> QED
    BY <1>d, <2>2 DEF ActiveInv, StopPCs
<1>14. ASSUME NEW p \in Procs, StopMain(p)
      PROVE  ActiveInv'
  BY <1>14, <1>b, <1>c, <1>d
  DEF StopMain, At, Goto, lockVars, moveVars, connVars, tokenVars, taskVars,
      sshVars, ActiveInv, LockInv, StopPCs, WriterPCs, SpawnPCs
<1>15. ASSUME NEW p \in Procs, StopTodo(p)
      PROVE  ActiveInv'
  BY <1>15, <1>b, <1>c, <1>d
  DEF StopTodo, At, Goto, lockVars, moveVars, connVars, tokenVars, taskVars,
      sshVars, ActiveInv, LockInv, StopPCs, WriterPCs, SpawnPCs
<1>16. ASSUME NEW p \in Procs, SpawnAll(p)
      PROVE  ActiveInv'
  BY <1>16, <1>b, <1>c, <1>d
  DEF SpawnAll, At, Goto, Target, lockVars, moveVars, connVars, tokenVars,
      taskVars, sshVars, ActiveInv, LockInv, StopPCs, WriterPCs, SpawnPCs
<1>17. ASSUME NEW p \in Procs, StoreToken(p)
      PROVE  ActiveInv'
  <2>1. /\ pc[p] = "store"
        /\ slot' = [slot EXCEPT ![Target(p)] = spawned[p]]
        /\ UNCHANGED <<contexts, active>>
    BY <1>17 DEF StoreToken, At
  <2>2. spawned[p] # 0
    <3>1. spawned[p] \in 1..gens /\ gens \in Nat
      BY <1>c, <2>1, Bounds DEF TokenInv, TypeOK
    <3> QED
      BY <3>1
  <2>3. CASE p \in readers
    <3>1. Target(p) = contexts[Local] /\ p \in Requests
      BY <1>d, <2>3 DEF Target
    <3>2. CASE active = Local
      BY <1>d, <1>g, <2>1, <2>2, <3>1, <3>2 DEF ActiveInv
    <3>3. CASE active # Local
      <4>1. slot[contexts[active]] # 0
        BY <1>b, <1>c, <2>3, <3>3 DEF ActiveInv, LockInv
      <4> QED
        BY <1>b, <1>d, <1>f, <1>g, <2>1, <3>1, <3>3, <4>1 DEF ActiveInv
    <3> QED
      BY <3>2, <3>3
  <2>4. CASE p \notin readers
    <3>1. Target(p) = contexts[active]
      BY <1>c, <2>1, <2>4 DEF LockInv, MoveInv, SpawnPCs, Target
    <3> QED
      BY <1>d, <1>g, <2>1, <2>2, <3>1 DEF ActiveInv
  <2> QED
    BY <2>3, <2>4
<1>18. ASSUME NEW p \in Procs, LeaveSsh(p)
      PROVE  ActiveInv'
  <2>1. CASE active = Local
    BY <1>18, <1>b, <1>c, <1>d, <2>1 DEF LeaveSsh, At, Goto, WriteLockFree, moveVars, tokenVars,
       ActiveInv, StopPCs, SpawnPCs
  <2>2. CASE active # Local
    <3>1. writer' = p /\ pc' = [pc EXCEPT ![p] = "cancel"]
      BY <1>18, <2>2 DEF LeaveSsh, Goto
    <3> QED
      BY <1>d, <3>1 DEF ActiveInv, StopPCs
  <2> QED
    BY <2>1, <2>2
<1>19. ASSUME NEW p \in Procs, DestroyContext(p)
      PROVE  ActiveInv'
  <2>1. /\ writer = p /\ pc[p] = "destroy" /\ active = Local
        /\ from # Local /\ contexts[from] # 0
    BY <1>19, <1>b, <1>c DEF LockInv, MoveInv, WriterPCs, DestroyContext, At
  <2>2. /\ active' = Local
        /\ contexts' = [contexts EXCEPT ![from] = 0]
        /\ slot' = [slot EXCEPT ![contexts[from]] = 0]
    BY <1>19, <2>1 DEF DestroyContext
  <2>3. \E l \in {"register", "idle", "unlink"} : pc' = [pc EXCEPT ![p] = l]
    BY <1>19 DEF DestroyContext, Goto
  <2>4. contexts'[Local] = contexts[Local] /\ slot'[contexts[Local]] = slot[contexts[Local]]
    BY <1>b, <1>d, <1>e, <1>f, <1>g, <2>1, <2>2
  <2>5. \/ slot[contexts[Local]] # 0
        \/ \E q \in Requests : pc[q] \in {"respawn", "spawn", "store"}
    BY <1>b, <1>c, <2>1 DEF ActiveInv, StopPCs, SpawnPCs
  <2>6. \A q \in Requests : q # p => pc'[q] = pc[q]
    BY <1>b, <1>d, <2>3
  <2> QED
    BY <2>1, <2>2, <2>4, <2>5, <2>6 DEF ActiveInv
<1>20. ASSUME RemoteDisconnect
      PROVE  ActiveInv'
  BY <1>20, <1>b, <1>c, <1>d
  DEF RemoteDisconnect, At, Goto, ReadLockFree, lockVars, moveVars, connVars,
      tokenVars, taskVars, sshVars, ActiveInv, LockInv, StopPCs, WriterPCs,
      SpawnPCs
<1>21. ASSUME LinkDies
      PROVE  ActiveInv'
  BY <1>21, <1>b, <1>c, <1>d
  DEF LinkDies, lockVars, moveVars, connVars, tokenVars, taskVars, sshVars,
      ActiveInv, LockInv, StopPCs, WriterPCs, SpawnPCs
<1>22. ASSUME NEW g \in Gens, NEW k \in Kinds, WatchStarts(g, k)
      PROVE  ActiveInv'
  BY <1>22, <1>b, <1>c, <1>d
  DEF WatchStarts, ctlVars, ActiveInv, LockInv, StopPCs, WriterPCs, SpawnPCs
<1>23. ASSUME NEW g \in Gens, NEW k \in Kinds, WatchFails(g, k)
      PROVE  ActiveInv'
  BY <1>23, <1>b, <1>c, <1>d
  DEF WatchFails, ctlVars, ActiveInv, LockInv, StopPCs, WriterPCs, SpawnPCs
<1>24. ASSUME NEW g \in Gens, NEW k \in Kinds, TaskCancelled(g, k)
      PROVE  ActiveInv'
  BY <1>24, <1>b, <1>c, <1>d
  DEF TaskCancelled, ctlVars, ActiveInv, LockInv, StopPCs, WriterPCs,
      SpawnPCs
<1>25. CASE UNCHANGED vars
  BY <1>25, <1>c
  DEF vars, ActiveInv, LockInv, StopPCs, WriterPCs, SpawnPCs
<1> QED
  BY <1>1, <1>2, <1>3, <1>4, <1>5, <1>6, <1>7, <1>8, <1>9, <1>10, <1>11,
     <1>12, <1>13, <1>14, <1>15, <1>16, <1>17, <1>18, <1>19, <1>20, <1>21,
     <1>22, <1>23, <1>24, <1>25
  DEF Next, Lifecycle, Connect, TaskStep

\* Every step keeps the inactive SSH contexts quiet.
LEMMA QuietStep == IInv /\ [Next]_vars => QuietInv'
<1> SUFFICES ASSUME IInv, [Next]_vars PROVE QuietInv'
  OBVIOUS
<1>b. /\ NoProc \notin Procs /\ Local \in Ids /\ Local \notin Hosts
      /\ \A p \in Requests : p \in Procs
      /\ \A h \in Hosts : h \in Ids
  BY Names
<1>c. /\ TypeOK /\ LockInv /\ RegistryInv /\ MoveInv /\ ConnectInv /\ TokenInv
      /\ ActiveInv /\ QuietInv
  BY DEF IInv
<1>d. /\ contexts \in [Ids -> 0..MaxInst]
      /\ active \in Ids /\ from \in Ids /\ to \in Ids
      /\ readers \subseteq Requests
      /\ pc \in [Procs -> PCs]
      /\ spawned \in [Procs -> 0..MaxGen]
      /\ host \in [Procs -> Hosts \cup {NoHost}]
      /\ slot \in [Insts -> 0..MaxGen]
  BY <1>c, Bounds DEF TypeOK
<1>e. /\ \A i \in 0..MaxInst : i # 0 => i \in Insts
      /\ \A g \in Gens : g # 0
  BY Bounds
<1>f. \A a, b \in Ids : contexts[a] = contexts[b] /\ contexts[a] # 0 => a = b
  BY <1>c DEF RegistryInv
<1>g. /\ contexts[active] \in Insts /\ contexts[Local] \in Insts
      /\ contexts[active] # 0 /\ contexts[Local] # 0
  BY <1>b, <1>c, <1>d, <1>e DEF RegistryInv
<1>1. ASSUME NEW p \in Requests, NEW id \in Ids, ContextSwitch(p, id)
      PROVE  QuietInv'
  <2>1. /\ writer' = p /\ pc' = [pc EXCEPT ![p] = "cancel"]
        /\ from' = active
        /\ UNCHANGED <<contexts, slot>>
    BY <1>1 DEF ContextSwitch, Goto, tokenVars, BeginMove
  <2>2. \A q \in Procs : writer = q => pc[q] # "cancel"
    BY <1>1, <1>b, <1>c DEF ContextSwitch, At, WriteLockFree, LockInv, WriterPCs
  <2> QED
    BY <1>b, <1>c, <1>d, <2>1, <2>2 DEF QuietInv
<1>2. ASSUME NEW p \in Requests, NEW h \in Hosts, ConnectDial(p, h)
      PROVE  QuietInv'
  BY <1>2, <1>b, <1>c, <1>d
  DEF ConnectDial, At, Goto, lockVars, moveVars, connVars, tokenVars,
      taskVars, sshVars, QuietInv, LockInv, StopPCs, WriterPCs, SpawnPCs
<1>3. ASSUME NEW p \in Requests, ConnectEstablished(p)
      PROVE  QuietInv'
  BY <1>3, <1>b, <1>c, <1>d
  DEF ConnectEstablished, At, Goto, lockVars, moveVars, connVars, tokenVars,
      taskVars, sshVars, QuietInv, LockInv, StopPCs, WriterPCs, SpawnPCs
<1>4. ASSUME NEW p \in Requests, ConnectFailed(p)
      PROVE  QuietInv'
  BY <1>4, <1>b, <1>c, <1>d
  DEF ConnectFailed, At, Goto, lockVars, moveVars, connVars, tokenVars,
      taskVars, sshVars, QuietInv, LockInv, StopPCs, WriterPCs, SpawnPCs
<1>5. ASSUME NEW p \in Requests, BuildSshContext(p)
      PROVE  QuietInv'
  BY <1>5, <1>b, <1>c, <1>d
  DEF BuildSshContext, At, Goto, lockVars, moveVars, connVars, tokenVars,
      taskVars, sshVars, QuietInv, LockInv, StopPCs, WriterPCs, SpawnPCs
<1>6. ASSUME NEW p \in Requests, EnterSsh(p)
      PROVE  QuietInv'
  <2>3. CASE active = Local
    BY <1>6, <1>b, <1>c, <1>d, <2>3 DEF EnterSsh, WriteLockFree, Goto, At, moveVars, tokenVars,
       QuietInv
  <2>4. CASE active # Local
    <3>1. /\ writer' = p /\ pc' = [pc EXCEPT ![p] = "cancel"]
          /\ from' = active
          /\ UNCHANGED <<contexts, slot>>
      BY <1>6, <2>4 DEF EnterSsh, Goto, tokenVars
    <3>2. \A q \in Procs : writer = q => pc[q] # "cancel"
      BY <1>6, <1>b, <1>c DEF EnterSsh, At, WriteLockFree, LockInv, WriterPCs
    <3> QED
      BY <1>b, <1>c, <1>d, <3>1, <3>2 DEF QuietInv
  <2> QED
    BY <2>3, <2>4
<1>7. ASSUME NEW p \in Requests, TearDown(p)
      PROVE  QuietInv'
  <2>3. writer = p
    BY <1>7, <1>b, <1>c DEF LockInv, WriterPCs, TearDown, At
  <2>1. /\ writer' = p /\ pc' = [pc EXCEPT ![p] = "cancel"]
        /\ from' = active
        /\ UNCHANGED <<contexts, slot>>
    BY <1>7, <2>3 DEF TearDown, Goto, tokenVars, BeginMove, lockVars
  <2>2. \A q \in Procs : writer = q => pc[q] # "cancel"
    BY <1>7, <1>b, <1>c DEF TearDown, At, WriteLockFree, LockInv, WriterPCs
  <2> QED
    BY <1>b, <1>c, <1>d, <2>1, <2>2 DEF QuietInv
<1>8. ASSUME NEW p \in Requests, RegisterContext(p)
      PROVE  QuietInv'
  <2>1. /\ writer = p /\ pc[p] = "register" /\ active = Local /\ host[p] \in Hosts
    BY <1>8, <1>b, <1>c, <1>d DEF LockInv, MoveInv, ConnectInv, WriterPCs, RegisterContext, At
  <2>2. \A h \in Hosts \ {active} : contexts[h] = 0 \/ slot[contexts[h]] = 0
    BY <1>c, <2>1 DEF QuietInv
  <2>3. slot' = slot
    BY <1>8 DEF RegisterContext, tokenVars
  <2>4. CASE contexts[host[p]] # 0
    <3>1. UNCHANGED <<contexts, active>>
      BY <1>8, <2>4 DEF RegisterContext
    <3> QED
      BY <2>2, <2>3, <3>1 DEF QuietInv
  <2>5. CASE contexts[host[p]] = 0
    <3>1. contexts' = [contexts EXCEPT ![host[p]] = built[p]] /\ active' = host[p]
      BY <1>8, <2>5 DEF RegisterContext, BeginMove
    <3>2. \A h \in Hosts : h # host[p] => contexts'[h] = contexts[h]
      BY <1>b, <1>d, <3>1
    <3> QED
      BY <1>b, <2>1, <2>2, <2>3, <3>1, <3>2 DEF QuietInv
  <2> QED
    BY <2>4, <2>5
<1>9. ASSUME NEW p \in Requests, Disconnect(p)
      PROVE  QuietInv'
  BY <1>9, <1>b, <1>c, <1>d
  DEF Disconnect, At, Goto, ReadLockFree, lockVars, moveVars, connVars,
      tokenVars, taskVars, sshVars, QuietInv, LockInv, StopPCs, WriterPCs,
      SpawnPCs
<1>10. ASSUME NEW p \in Requests, Unlink(p)
      PROVE  QuietInv'
  BY <1>10, <1>b, <1>c, <1>d
  DEF Unlink, At, Goto, lockVars, moveVars, connVars, tokenVars, taskVars,
      sshVars, QuietInv, LockInv, StopPCs, WriterPCs, SpawnPCs
<1>11. ASSUME NEW p \in Requests, RebuildReplace(p)
      PROVE  QuietInv'
  <2>1. /\ contexts' = [contexts EXCEPT ![Local] = insts + 1]
        /\ slot' = [slot EXCEPT ![contexts[Local]] = 0]
        /\ active' = active /\ writer = NoProc
    BY <1>11 DEF RebuildReplace, WriteLockFree
  <2>2. \A h \in Hosts \ {active} : contexts[h] = 0 \/ slot[contexts[h]] = 0
    BY <1>b, <1>c, <2>1 DEF QuietInv
  <2>3. \A i \in Insts : slot[i] = 0 => slot'[i] = 0
    BY <1>d, <2>1
  <2>4. \A h \in Hosts : contexts'[h] = contexts[h]
    BY <1>b, <1>d, <2>1
  <2>5. \A h \in Hosts : contexts[h] = 0 \/ contexts[h] \in Insts
    BY <1>b, <1>d, <1>e
  <2> QED
    BY <2>1, <2>2, <2>3, <2>4, <2>5 DEF QuietInv
<1>12. ASSUME NEW p \in Requests, RebuildSpawn(p)
      PROVE  QuietInv'
  BY <1>12, <1>b, <1>c, <1>d
  DEF RebuildSpawn, At, Goto, ReadLockFree, lockVars, moveVars, connVars,
      tokenVars, taskVars, sshVars, QuietInv, LockInv, StopPCs, WriterPCs,
      SpawnPCs
<1>13. ASSUME NEW p \in Procs, CancelToken(p)
      PROVE  QuietInv'
  <2>1. /\ contexts' = contexts /\ active' = active /\ from' = from
        /\ slot' = [slot EXCEPT ![contexts[from]] = 0]
    BY <1>13 DEF CancelToken, moveVars
  <2>2. contexts[from] \in Insts
    BY <1>13, <1>c, <1>d, <1>e DEF MoveInv, StopPCs, CancelToken, At
  <2>3. \A h \in Hosts \ {active} :
           contexts[h] = 0 \/ slot[contexts[h]] = 0 \/ from = h
    BY <1>c DEF QuietInv
  <2> QED
    BY <1>b, <1>d, <1>e, <2>1, <2>2, <2>3 DEF QuietInv
<1>14. ASSUME NEW p \in Procs, StopMain(p)
      PROVE  QuietInv'
  BY <1>14, <1>b, <1>c, <1>d
  DEF StopMain, At, Goto, lockVars, moveVars, connVars, tokenVars, taskVars,
      sshVars, QuietInv, LockInv, StopPCs, WriterPCs, SpawnPCs
<1>15. ASSUME NEW p \in Procs, StopTodo(p)
      PROVE  QuietInv'
  BY <1>15, <1>b, <1>c, <1>d
  DEF StopTodo, At, Goto, lockVars, moveVars, connVars, tokenVars, taskVars,
      sshVars, QuietInv, LockInv, StopPCs, WriterPCs, SpawnPCs
<1>16. ASSUME NEW p \in Procs, SpawnAll(p)
      PROVE  QuietInv'
  BY <1>16, <1>b, <1>c, <1>d
  DEF SpawnAll, At, Goto, Target, lockVars, moveVars, connVars, tokenVars,
      taskVars, sshVars, QuietInv, LockInv, StopPCs, WriterPCs, SpawnPCs
<1>17. ASSUME NEW p \in Procs, StoreToken(p)
      PROVE  QuietInv'
  <2>1. /\ pc[p] = "store"
        /\ slot' = [slot EXCEPT ![Target(p)] = spawned[p]]
        /\ UNCHANGED <<contexts, active>>
    BY <1>17 DEF StoreToken, At
  <2>2. Target(p) \in {contexts[Local], contexts[active]}
    BY <1>c, <2>1 DEF LockInv, MoveInv, SpawnPCs, Target
  <2>3. \A q \in Procs : writer = q => pc[q] # "cancel"
    BY <1>b, <1>c, <2>1 DEF LockInv, WriterPCs, StopPCs, SpawnPCs
  <2>4. \A h \in Hosts \ {active} : contexts[h] = 0 \/ slot[contexts[h]] = 0
    BY <1>c, <2>3 DEF QuietInv
  <2>5. ASSUME NEW h \in Hosts \ {active}, contexts[h] # 0
        PROVE  slot'[contexts[h]] = 0
    <3>1. h \in Ids /\ h # Local /\ h # active
      BY <1>b
    <3>2. contexts[h] # Target(p) /\ contexts[h] \in Insts
      BY <1>b, <1>d, <1>e, <1>f, <2>2, <2>5, <3>1
    <3> QED
      BY <1>d, <2>1, <2>4, <2>5, <3>2
  <2> QED
    BY <2>1, <2>5 DEF QuietInv
<1>18. ASSUME NEW p \in Procs, LeaveSsh(p)
      PROVE  QuietInv'
  <2>3. CASE active = Local
    BY <1>18, <1>b, <1>c, <1>d, <2>3 DEF LeaveSsh, WriteLockFree, Goto, At, moveVars, tokenVars,
       QuietInv
  <2>4. CASE active # Local
    <3>1. /\ writer' = p /\ pc' = [pc EXCEPT ![p] = "cancel"]
          /\ from' = active
          /\ UNCHANGED <<contexts, slot>>
      BY <1>18, <2>4 DEF LeaveSsh, Goto, tokenVars, BeginMove
    <3>2. \A q \in Procs : writer = q => pc[q] # "cancel"
      BY <1>18, <1>b, <1>c DEF LeaveSsh, At, WriteLockFree, LockInv, WriterPCs
    <3> QED
      BY <1>b, <1>c, <1>d, <3>1, <3>2 DEF QuietInv
  <2> QED
    BY <2>3, <2>4
<1>19. ASSUME NEW p \in Procs, DestroyContext(p)
      PROVE  QuietInv'
  <2>1. /\ writer = p /\ pc[p] = "destroy" /\ active = Local /\ contexts[from] \in Insts
    BY <1>19, <1>b, <1>c, <1>d, <1>e DEF LockInv, MoveInv, WriterPCs, DestroyContext, At
  <2>2. /\ active' = Local
        /\ contexts' = [contexts EXCEPT ![from] = 0]
        /\ slot' = [slot EXCEPT ![contexts[from]] = 0]
    BY <1>19, <2>1 DEF DestroyContext
  <2>3. \A h \in Hosts \ {active} : contexts[h] = 0 \/ slot[contexts[h]] = 0
    BY <1>c, <2>1 DEF QuietInv
  <2>4. \A i \in Insts : slot[i] = 0 => slot'[i] = 0
    BY <1>d, <2>2
  <2>5. \A h \in Hosts : contexts'[h] = 0 \/ contexts'[h] = contexts[h]
    BY <1>b, <1>d, <2>2
  <2>6. \A h \in Hosts : contexts[h] = 0 \/ contexts[h] \in Insts
    BY <1>b, <1>d, <1>e
  <2> QED
    BY <2>1, <2>2, <2>3, <2>4, <2>5, <2>6 DEF QuietInv
<1>20. ASSUME RemoteDisconnect
      PROVE  QuietInv'
  BY <1>20, <1>b, <1>c, <1>d
  DEF RemoteDisconnect, At, Goto, ReadLockFree, lockVars, moveVars, connVars,
      tokenVars, taskVars, sshVars, QuietInv, LockInv, StopPCs, WriterPCs,
      SpawnPCs
<1>21. ASSUME LinkDies
      PROVE  QuietInv'
  BY <1>21, <1>b, <1>c, <1>d
  DEF LinkDies, lockVars, moveVars, connVars, tokenVars, taskVars, sshVars,
      QuietInv, LockInv, StopPCs, WriterPCs, SpawnPCs
<1>22. ASSUME NEW g \in Gens, NEW k \in Kinds, WatchStarts(g, k)
      PROVE  QuietInv'
  BY <1>22, <1>b, <1>c, <1>d
  DEF WatchStarts, ctlVars, QuietInv, LockInv, StopPCs, WriterPCs, SpawnPCs
<1>23. ASSUME NEW g \in Gens, NEW k \in Kinds, WatchFails(g, k)
      PROVE  QuietInv'
  BY <1>23, <1>b, <1>c, <1>d
  DEF WatchFails, ctlVars, QuietInv, LockInv, StopPCs, WriterPCs, SpawnPCs
<1>24. ASSUME NEW g \in Gens, NEW k \in Kinds, TaskCancelled(g, k)
      PROVE  QuietInv'
  BY <1>24, <1>b, <1>c, <1>d
  DEF TaskCancelled, ctlVars, QuietInv, LockInv, StopPCs, WriterPCs,
      SpawnPCs
<1>25. CASE UNCHANGED vars
  BY <1>25, <1>c
  DEF vars, QuietInv, LockInv, StopPCs, WriterPCs, SpawnPCs
<1> QED
  BY <1>1, <1>2, <1>3, <1>4, <1>5, <1>6, <1>7, <1>8, <1>9, <1>10, <1>11,
     <1>12, <1>13, <1>14, <1>15, <1>16, <1>17, <1>18, <1>19, <1>20, <1>21,
     <1>22, <1>23, <1>24, <1>25
  DEF Next, Lifecycle, Connect, TaskStep

-----------------------------------------------------------------------------
(* The theorems.                                                            *)

\* Setup leaves the local context active with its token in its slot.
LEMMA InitIInv == Init => IInv
<1> SUFFICES ASSUME Init PROVE IInv
  OBVIOUS
<1>a. /\ MaxInst \in Nat /\ 1 <= MaxInst /\ MaxGen \in Nat /\ 1 <= MaxGen
      /\ MaxDisc \in Nat
  BY ConstantsAssumption
<1>b. 1 \in Insts /\ 1 \in Gens /\ 1 \in 0..MaxInst /\ 1 \in 0..MaxGen /\ 0 \in 0..MaxDisc
  BY <1>a DEF Insts, Gens
<1>1. TypeOK
  BY <1>b, Bounds DEF Init, TypeOK, Ids, Afters, PCs
<1>2. LockInv
  BY Names DEF Init, LockInv, StopPCs, WriterPCs, SpawnPCs
<1>3. RegistryInv
  BY Names DEF Init, RegistryInv
<1>4. MoveInv
  BY Names DEF Init, MoveInv, StopPCs, SpawnPCs
<1>5. ConnectInv
  BY Names DEF Init, ConnectInv, StopPCs, SpawnPCs
<1>6. TokenInv
  <2>1. /\ slot[1] = 1 /\ owner[1] = 1 /\ gens = 1 /\ contexts[Local] = 1
        /\ \A p \in Procs : pc[p] = "idle"
    BY <1>b, Names DEF Init
  <2>2. \A g \in 1..gens : g = 1
    BY <2>1
  <2> QED
    BY <2>1, <2>2, Names DEF TokenInv, NoOrphanToken
<1>7. ListenInv
  <2>1. /\ gens = 1
        /\ \A g \in Gens, k \in Kinds : task[g][k] \in {"none", "pending"}
        /\ \A g \in Gens, k \in Kinds : task[g][k] # "none" => g = 1
    BY DEF Init
  <2> QED
    BY <2>1 DEF ListenInv, OneListener
<1>8. ActiveInv
  BY <1>b, Names DEF Init, ActiveInv
<1>9. QuietInv
  BY Names DEF Init, QuietInv
<1> QED
  BY <1>1, <1>2, <1>3, <1>4, <1>5, <1>6, <1>7, <1>8, <1>9 DEF IInv

\* The invariant is inductive.
LEMMA NextIInv == IInv /\ [Next]_vars => IInv'
  BY TypeStep, LockStep, RegistryStep, MoveStep, ConnectStep, TokenStep, ListenStep,
     ActiveStep, QuietStep DEF IInv

\* Every reachable state satisfies the inductive invariant.
THEOREM Invariance == Spec => []IInv
  BY InitIInv, NextIInv, PTL DEF Spec

\* Every variable keeps its type.
THEOREM TypeCorrect == Spec => []TypeOK
<1>1. IInv => TypeOK
  BY DEF IInv
<1> QED
  BY <1>1, Invariance, PTL

\* No spawn's token is ever lost (spawn_watcher_tasks, stop_watcher_tasks,
\* destroy_context, replace_context).
THEOREM NoOrphan == Spec => []NoOrphanToken
<1>1. IInv => NoOrphanToken
  BY DEF IInv, TokenInv
<1> QED
  BY <1>1, Invariance, PTL

\* No FileWatcher ever has two listeners that both go on.
THEOREM SingleListener == Spec => []OneListener
<1>1. IInv => OneListener
  BY DEF IInv, ListenInv
<1> QED
  BY <1>1, Invariance, PTL

\* Between two moves the active context has a stop handle.
THEOREM ActiveToken == Spec => []ActiveHasToken
<1>1. IInv => ActiveHasToken
  BY Names DEF IInv, ActiveInv, ActiveHasToken
<1> QED
  BY <1>1, Invariance, PTL

\* Between two moves no SSH context but the active one has tasks that go on.
THEOREM InactiveQuiet == Spec => []InactiveSshQuiet
<1>1. IInv => InactiveSshQuiet
  <2> SUFFICES ASSUME IInv, writer = NoProc,
                      NEW h \in Hosts \ {active}, NEW g \in 1..gens \ cancelled,
                      contexts[h] # 0, owner[g] = contexts[h]
               PROVE  FALSE
    BY DEF InactiveSshQuiet
  <2>1. slot[contexts[h]] = 0
    BY Names DEF IInv, QuietInv
  <2>2. g # 0
    BY Bounds DEF IInv, TypeOK
  <2>3. PICK p \in Procs : pc[p] = "store" /\ spawned[p] = g
    BY <2>1, <2>2 DEF IInv, TokenInv, NoOrphanToken, InFlight, At
  <2>4. p \in readers
    BY <2>3, Names DEF IInv, LockInv, SpawnPCs
  <2>5. contexts[h] = contexts[Local]
    BY <2>3, <2>4 DEF IInv, TokenInv, Target
  <2> QED
    BY <2>5, Names DEF IInv, RegistryInv
<1> QED
  BY <1>1, Invariance, PTL

=============================================================================
