---------------------- MODULE NotificationStore_proofs ----------------------
(***************************************************************************)
(* Proofs about NotificationStore, for any number of workers and errors    *)
(* and any MAX_NOTIFICATIONS.                                              *)
(*                                                                         *)
(* The bound on the list needs no more than that the list is a sequence:   *)
(* every step that makes it longer leaves its worker at "prune".           *)
(***************************************************************************)
EXTENDS NotificationStore, FiniteSetTheorems, SequenceTheorems, TLAPS

IsSequence(s) == \E S : s \in Seq(S)

BoundInv ==
    /\ IsSequence(store)
    /\ IsSequence(file.list)
    /\ \A p \in Procs : IsSequence(snap[p])
    /\ DOMAIN pc = Procs
    /\ DOMAIN snap = Procs
    /\ PruneBound

\* What the edits of the list do to its length.
LEMMA EditLengths ==
    ASSUME NEW s, IsSequence(s)
    PROVE  /\ Len(s) \in Nat
           /\ DOMAIN s = 1..Len(s)
           /\ \A x : IsSequence(<<x>> \o s)
           /\ \A i \in DOMAIN s : IsSequence(RemoveAt(s, i)) /\ Len(RemoveAt(s, i)) <= Len(s)
<1>1. PICK S : s \in Seq(S)
  BY DEF IsSequence
<1>2. Len(s) \in Nat /\ DOMAIN s = 1..Len(s)
  BY <1>1
<1>3. ASSUME NEW x PROVE IsSequence(<<x>> \o s)
  <2>1. s \in Seq(S \cup {x}) /\ <<x>> \in Seq(S \cup {x})
    BY <1>1
  <2> QED
    BY <2>1 DEF IsSequence
<1>4. ASSUME NEW i \in DOMAIN s
      PROVE  IsSequence(RemoveAt(s, i)) /\ Len(RemoveAt(s, i)) <= Len(s)
  <2>1. i \in 1..Len(s)
    BY <1>2
  <2>2. /\ SubSeq(s, 1, i - 1) \in Seq(S) /\ Len(SubSeq(s, 1, i - 1)) = i - 1
        /\ SubSeq(s, i + 1, Len(s)) \in Seq(S)
        /\ Len(SubSeq(s, i + 1, Len(s))) = Len(s) - i
    BY <1>1, <1>2, <2>1
  <2>3. RemoveAt(s, i) = SubSeq(s, 1, i - 1) \o SubSeq(s, i + 1, Len(s))
    BY DEF RemoveAt
  <2>4. /\ RemoveAt(s, i) \in Seq(S)
        /\ Len(RemoveAt(s, i)) = (i - 1) + (Len(s) - i)
    BY <2>2, <2>3
  <2>5. (i - 1) + (Len(s) - i) <= Len(s)
    BY <1>2, <2>1
  <2> QED
    BY <2>4, <2>5 DEF IsSequence
<1> QED
  BY <1>2, <1>3, <1>4

\* A pruned list is a list of at most MAX_NOTIFICATIONS entries.
LEMMA PrunedLength ==
    ASSUME NEW s, IsSequence(s)
    PROVE  IsSequence(Pruned(s)) /\ Len(Pruned(s)) <= MaxNotifications
<1>0. MaxNotifications \in Nat
  BY NotificationAssumption
<1>1. CASE Len(s) > MaxNotifications
  <2> DEFINE e(k) == s[CHOOSE i \in DOMAIN s : Rank(s, i) = k - 1]
             S == {e(k) : k \in 1..MaxNotifications}
             t == [k \in 1..MaxNotifications |-> e(k)]
  <2>1. Newest(s) = t
    BY DEF Newest
  <2>2. t \in [1..MaxNotifications -> S]
    OBVIOUS
  <2> HIDE DEF t, S
  <2>3. t \in Seq(S) /\ Len(t) = MaxNotifications
    BY <1>0, <2>2
  <2> QED
    BY <1>0, <1>1, <2>1, <2>3 DEF Pruned, IsSequence
<1>2. CASE ~(Len(s) > MaxNotifications)
  BY <1>0, <1>2, EditLengths DEF Pruned
<1> QED
  BY <1>1, <1>2

-----------------------------------------------------------------------------
(* Every step preserves the invariant.                                      *)

\* An edit by a command.
LEMMA EditStep ==
    ASSUME BoundInv, NEW p \in Procs, NEW list, IsSequence(list), Len(list) <= Len(store),
           Len(list) \in Nat, Edit(p, list)
    PROVE  BoundInv'
<1>1. Len(store) \in Nat /\ MaxNotifications \in Nat
  BY EditLengths, NotificationAssumption DEF BoundInv
<1>2. /\ store' = list /\ UNCHANGED <<file, snap, poisoned>>
      /\ pc' = [pc EXCEPT ![p] = "snapshot"]
      /\ pc[p] = "idle"
  BY DEF Edit, Goto, Ready, At
<1>3. /\ pc'[p] = "snapshot"
      /\ \A q \in Procs : q # p => pc'[q] = pc[q]
      /\ DOMAIN pc' = Procs
  BY <1>2 DEF BoundInv
<1>4. PruneBound'
  BY <1>1, <1>2, <1>3 DEF BoundInv, PruneBound, At
<1> QED
  BY <1>2, <1>3, <1>4 DEF BoundInv

LEMMA BoundStep == BoundInv /\ [Next]_vars => BoundInv'
<1> SUFFICES ASSUME BoundInv, [Next]_vars PROVE BoundInv'
  OBVIOUS
<1>a. /\ IsSequence(store) /\ IsSequence(file.list) /\ DOMAIN pc = Procs /\ DOMAIN snap = Procs
      /\ \A p \in Procs : IsSequence(snap[p])
      /\ PruneBound
  BY DEF BoundInv
<1>b. /\ Len(store) \in Nat /\ DOMAIN store = 1..Len(store)
      /\ \A x : IsSequence(<<x>> \o store)
      /\ \A i \in DOMAIN store :
            IsSequence(RemoveAt(store, i)) /\ Len(RemoveAt(store, i)) <= Len(store)
  BY <1>a, EditLengths
<1>c. MaxNotifications \in Nat /\ \A p \in Workers : p \in Procs
  BY NotificationAssumption DEF Procs
<1>d. IsSequence(<<>>)
  BY DEF IsSequence
<1>1. ASSUME NEW p \in Workers, NEW tool, NEW sub, Detect(p, tool, sub)
      PROVE  BoundInv'
  BY <1>1, <1>a, <1>c DEF Detect, Ready, At, Goto, BoundInv, PruneBound
<1>2. ASSUME NEW p \in Workers, Find(p)
      PROVE  BoundInv'
  <2>1. \E l \in {"idle", "stamp", "compare"} : pc' = [pc EXCEPT ![p] = l]
    BY <1>2 DEF Find, Goto
  <2>2. UNCHANGED <<store, file, snap, poisoned>> /\ pc[p] = "find"
    BY <1>2 DEF Find, At
  <2> QED
    BY <2>1, <2>2, <1>a, <1>c DEF At, BoundInv, PruneBound
<1>3. ASSUME NEW p \in Workers, Compare(p)
      PROVE  BoundInv'
  <2>1. \E l \in {"idle", "replace"} : pc' = [pc EXCEPT ![p] = l]
    BY <1>3 DEF Compare, Goto
  <2>2. UNCHANGED <<store, file, snap, poisoned>> /\ pc[p] = "compare"
    BY <1>3 DEF Compare, At
  <2> QED
    BY <2>1, <2>2, <1>a, <1>c DEF At, BoundInv, PruneBound
<1>4. ASSUME NEW p \in Workers, Replace(p)
      PROVE  BoundInv'
  <2>0. UNCHANGED <<file, snap>> /\ pc[p] = "replace"
    BY <1>4 DEF Replace, At
  <2>1. CASE poisoned
    BY <1>4, <2>0, <2>1, <1>a, <1>c DEF Replace, At, Goto, BoundInv, PruneBound
  <2>2. CASE ~poisoned /\ idx[p] \in DOMAIN store
    <3>1. /\ pc' = [pc EXCEPT ![p] = "stamp"] /\ poisoned' = poisoned
          /\ store' = RemoveAt(store, idx[p])
      BY <1>4, <2>2 DEF Replace, Goto
    <3>2. IsSequence(store') /\ Len(store') <= Len(store) /\ Len(store') \in Nat
      BY <2>2, <3>1, <1>b, EditLengths
    <3> QED
      BY <2>0, <3>1, <3>2, <1>a, <1>b, <1>c DEF At, BoundInv, PruneBound
  <2>3. CASE ~poisoned /\ idx[p] \notin DOMAIN store
    BY <1>4, <2>0, <2>3, <1>a, <1>c DEF Replace, At, Goto, BoundInv, PruneBound
  <2> QED
    BY <2>1, <2>2, <2>3
<1>5. ASSUME NEW p \in Workers, Stamp(p)
      PROVE  BoundInv'
  BY <1>5, <1>a, <1>c DEF Stamp, At, Goto, BoundInv, PruneBound
<1>6. ASSUME NEW p \in Workers, Insert(p)
      PROVE  BoundInv'
  <2>0. UNCHANGED <<file, snap, poisoned>> /\ pc[p] = "insert"
    BY <1>6 DEF Insert, At
  <2>1. CASE poisoned
    BY <1>6, <2>0, <2>1, <1>a, <1>c DEF Insert, At, Goto, BoundInv, PruneBound
  <2>2. CASE ~poisoned
    <3>1. /\ pc' = [pc EXCEPT ![p] = "prune"]
          /\ store' = <<StoredOf(p)>> \o store
      BY <1>6, <2>2 DEF Insert, Goto
    <3>2. pc'[p] = "prune" /\ DOMAIN pc' = Procs
      BY <3>1, <1>a, <1>c
    <3> QED
      BY <2>0, <3>1, <3>2, <1>a, <1>b, <1>c DEF At, BoundInv, PruneBound
  <2> QED
    BY <2>1, <2>2
<1>7. ASSUME NEW p \in Procs, Prune(p)
      PROVE  BoundInv'
  <2>1. /\ UNCHANGED <<file, snap, poisoned>>
        /\ DOMAIN pc' = Procs
        /\ store' = IF poisoned THEN store ELSE Pruned(store)
    BY <1>7, <1>a DEF Prune, Goto
  <2>2. IsSequence(store') /\ (~poisoned => Len(store') <= MaxNotifications)
    BY <2>1, <1>a, PrunedLength
  <2> QED
    BY <2>1, <2>2, <1>a DEF BoundInv, PruneBound
<1>8. ASSUME NEW p \in Procs, Snapshot(p)
      PROVE  BoundInv'
  <2>1. /\ UNCHANGED <<store, file, poisoned>> /\ pc[p] = "snapshot"
        /\ pc' = [pc EXCEPT ![p] = "open"]
        /\ snap' = [snap EXCEPT ![p] = IF poisoned THEN <<>> ELSE store]
    BY <1>8 DEF Snapshot, At, Goto
  <2>2. \A q \in Procs : IsSequence(snap'[q])
    BY <2>1, <1>a, <1>d
  <2> QED
    BY <2>1, <2>2, <1>a DEF At, BoundInv, PruneBound
<1>9. ASSUME NEW p \in Procs, Open(p)
      PROVE  BoundInv'
  <2>1. UNCHANGED <<store, snap, poisoned>> /\ pc[p] = "open"
        /\ pc' = [pc EXCEPT ![p] = "write"] /\ file'.list = <<>>
    BY <1>9 DEF Open, At, Goto, Garbage
  <2> QED
    BY <2>1, <1>a, <1>d DEF At, BoundInv, PruneBound
<1>10. ASSUME NEW p \in Procs, Write(p)
       PROVE  BoundInv'
  <2>1. UNCHANGED <<store, poisoned>> /\ pc[p] = "write"
        /\ pc' = [pc EXCEPT ![p] = "idle"] /\ snap' = [snap EXCEPT ![p] = <<>>]
        /\ file'.list \in {<<>>, snap[p]}
    BY <1>10 DEF Write, At, Goto, Garbage, FileOf
  <2>2. IsSequence(file'.list) /\ \A q \in Procs : IsSequence(snap'[q])
    BY <2>1, <1>a, <1>d
  <2> QED
    BY <2>1, <2>2, <1>a DEF At, BoundInv, PruneBound
<1>11. ASSUME NEW p \in Procs, SaveFails(p)
       PROVE  BoundInv'
  <2>1. UNCHANGED <<store, file, poisoned>> /\ pc[p] \in {"open", "write"}
        /\ pc' = [pc EXCEPT ![p] = "idle"] /\ snap' = [snap EXCEPT ![p] = <<>>]
    BY <1>11 DEF SaveFails, Goto
  <2>2. \A q \in Procs : IsSequence(snap'[q])
    BY <2>1, <1>a, <1>d
  <2> QED
    BY <2>1, <2>2, <1>a DEF At, BoundInv, PruneBound
<1>12. ASSUME NEW p \in Workers, NEW i, MarkRead(p, i)
       PROVE  BoundInv'
  <2> DEFINE list == [store EXCEPT ![i].read = TRUE]
  <2>1. Edit(p, list)
    BY <1>12 DEF MarkRead
  <2>2. IsSequence(list) /\ Len(list) = Len(store)
    <3>1. DOMAIN list = 1..Len(store)
      BY <1>b
    <3>2. list \in [1..Len(store) -> {list[j] : j \in 1..Len(store)}]
      BY <3>1
    <3> HIDE DEF list
    <3>3. list \in Seq({list[j] : j \in 1..Len(store)}) /\ Len(list) = Len(store)
      BY <1>b, <3>2
    <3> QED
      BY <3>3 DEF IsSequence
  <2> HIDE DEF list
  <2> QED
    BY <2>1, <2>2, <1>b, <1>c, EditStep
<1>13. ASSUME NEW p \in Workers, MarkAllRead(p)
       PROVE  BoundInv'
  <2> DEFINE list == [i \in DOMAIN store |-> [store[i] EXCEPT !.read = TRUE]]
  <2>1. Edit(p, list)
    BY <1>13 DEF MarkAllRead
  <2>2. IsSequence(list) /\ Len(list) = Len(store)
    <3>1. list \in [1..Len(store) -> {list[j] : j \in 1..Len(store)}]
      BY <1>b
    <3> HIDE DEF list
    <3>2. list \in Seq({list[j] : j \in 1..Len(store)}) /\ Len(list) = Len(store)
      BY <1>b, <3>1
    <3> QED
      BY <3>2 DEF IsSequence
  <2> HIDE DEF list
  <2> QED
    BY <2>1, <2>2, <1>b, <1>c, EditStep
<1>14. ASSUME NEW p \in Workers, ClearAll(p)
       PROVE  BoundInv'
  <2>1. Len(<<>>) <= Len(store) /\ Len(<<>>) \in Nat
    BY <1>b
  <2> QED
    BY <1>14, <2>1, <1>c, <1>d, EditStep DEF ClearAll
<1>15. ASSUME NEW p \in Workers, NEW i, Delete(p, i)
       PROVE  BoundInv'
  <2>1. IsSequence(RemoveAt(store, i)) /\ Len(RemoveAt(store, i)) <= Len(store)
    BY <1>15, <1>b DEF Delete
  <2>2. Len(RemoveAt(store, i)) \in Nat
    BY <2>1, EditLengths
  <2> QED
    BY <1>15, <2>1, <2>2, <1>c, EditStep DEF Delete
<1>16. CASE Load
  <2>1. UNCHANGED <<file, snap, poisoned>> /\ pc' = [pc EXCEPT ![Boot] = "prune"]
        /\ store' \in {store, file.list}
    BY <1>16 DEF Load, Goto
  <2>2. pc'[Boot] = "prune" /\ Boot \in Procs
    BY <2>1, <1>a DEF Procs
  <2> QED
    BY <2>1, <2>2, <1>a DEF At, BoundInv, PruneBound
<1>17. CASE LoadFails
  <2>1. UNCHANGED <<store, file, snap, poisoned>> /\ pc' = [pc EXCEPT ![Boot] = "prune"]
    BY <1>17 DEF LoadFails, Goto
  <2>2. pc'[Boot] = "prune" /\ Boot \in Procs
    BY <2>1, <1>a DEF Procs
  <2> QED
    BY <2>1, <2>2, <1>a DEF At, BoundInv, PruneBound
<1>18. CASE Crash
  <2>1. file' = file /\ store' = <<>> /\ DOMAIN pc' = Procs /\ DOMAIN snap' = Procs
        /\ \A p \in Procs : snap'[p] = <<>>
    BY <1>18 DEF Crash
  <2>2. Len(<<>>) <= MaxNotifications
    BY <1>c
  <2> QED
    BY <2>1, <2>2, <1>a, <1>d DEF BoundInv, PruneBound
<1>19. CASE UNCHANGED vars
  BY <1>19, <1>a DEF vars, At, BoundInv, PruneBound
<1> QED
  BY <1>1, <1>2, <1>3, <1>4, <1>5, <1>6, <1>7, <1>8, <1>9, <1>10, <1>11, <1>12, <1>13,
     <1>14, <1>15, <1>16, <1>17, <1>18, <1>19 DEF Next, Add, Save, Command

\* However many workers add errors at a time and wherever the application is
\* killed, the list exceeds MAX_NOTIFICATIONS only on the way to a prune
\* (add_error, prune_notifications, initialize).
THEOREM ListIsBounded == Spec => []PruneBound
<1>1. Init => BoundInv
  <2> SUFFICES ASSUME Init PROVE BoundInv
    OBVIOUS
  <2>1. IsSequence(<<>>) /\ Len(<<>>) <= MaxNotifications
    BY NotificationAssumption DEF IsSequence
  <2> QED
    BY <2>1 DEF Init, NoFile, BoundInv, PruneBound
<1>2. BoundInv => PruneBound
  BY DEF BoundInv
<1> QED
  BY <1>1, <1>2, BoundStep, PTL DEF Spec

-----------------------------------------------------------------------------
(* The inductive invariant of the history.  Three lists are watched: the   *)
(* one in memory, the one in the file and the copies that are being saved, *)
(* for a restart brings the second back and a save the third.              *)

OverlapFree == ~overlapped
Tidy == OneAdder \/ OverlapFree

Finding == {"find", "compare", "replace"}
Unstamped == Finding \cup {"stamp"}
Adding == Unstamped \cup {"insert"}
Saving == {"prune", "snapshot", "open", "write"}
Busy(p) == pc[p] \in Adding \cup Saving

\* The timestamps of the errors about to be inserted.
Taken == {idx[p] : p \in {q \in Procs : pc[q] = "insert"}}

\* A list: its timestamps were handed out once each and none is taken; when
\* tidy it is in order and older than what is about to be inserted; when
\* nothing overlapped it has each tool use once.
ListOk(s, latest, taken, tidy, free) ==
    /\ s \in Seq(Stored)
    /\ \A i \in DOMAIN s : /\ s[i].at <= latest
                           /\ s[i].at \notin taken
                           /\ tidy => \A n \in taken : s[i].at < n
    /\ \A i, j \in DOMAIN s : s[i].at = s[j].at => i = j
    /\ tidy => \A i, j \in DOMAIN s : i < j => s[i].at > s[j].at
    /\ free => \A i, j \in DOMAIN s : s[i].tool = s[j].tool /\ s[i].tool # NoTool => i = j

OkList(s) == ListOk(s, stamps, Taken, Tidy, OverlapFree)

ListsInv ==
    /\ OkList(store)
    /\ OkList(file.list)
    /\ \A p \in Procs : OkList(snap[p])

\* What a process that has come to its step has for it; timestamps are not
\* shared, and there are never more than errors.
StageInv ==
    /\ \A p \in Procs : /\ pc[p] \in Adding => p \in Adders /\ cand[p] \in Errors
                        /\ pc[p] \in Finding => cand[p].tool # NoTool
                        /\ pc[p] = "load" => p = Boot
                        /\ pc[p] = "dead" => p # Boot
                        /\ pc[p] = "insert" => idx[p] \in 1..stamps
    /\ \A p, q \in Procs : pc[p] = "insert" /\ pc[q] = "insert" /\ idx[p] = idx[q] => p = q
    /\ stamps + Cardinality({p \in Procs : pc[p] \in Unstamped}) <= errors

\* initialize() runs alone, and until two requests overlap so does every one.
AloneInv ==
    /\ Booting => \A p \in Workers : ~Busy(p)
    /\ OverlapFree => \A p, q \in Procs : Busy(p) /\ Busy(q) => p = q

\* Where the index a worker found points, as long as it is alone; and past the
\* look-up the list has no twin of its error.
IndexInv ==
    OverlapFree =>
        /\ ~poisoned
        /\ \A p \in Procs :
            /\ pc[p] \in {"compare", "replace"} =>
                  /\ idx[p] \in DOMAIN store
                  /\ store[idx[p]].tool = cand[p].tool
            /\ pc[p] = "replace" => ~store[idx[p]].sub /\ cand[p].sub
            /\ pc[p] \in {"stamp", "insert"} /\ cand[p].tool # NoTool =>
                  \A i \in DOMAIN store : store[i].tool # cand[p].tool

\* What is being saved is the list, and a list nobody is about to change or
\* save is the file.
SaveInv ==
    OverlapFree =>
        /\ \A p \in Procs : /\ pc[p] \in {"open", "write"} => snap[p] = store
                            /\ pc[p] = "write" => file.size = 0
        /\ fails = 0 /\ pc[Boot] = "idle"
             /\ (\A p \in Workers : pc[p] \in {"idle", "dead", "find", "compare"})
           => file = FileOf(store)

IInv == TypeOK /\ ListsInv /\ StageInv /\ AloneInv /\ IndexInv /\ SaveInv

-----------------------------------------------------------------------------
(* Lists.                                                                   *)

LEMMA StoredFields ==
    ASSUME NEW e \in Stored
    PROVE  e.at \in 1..MaxErrors /\ e.tool \in Tools \cup {NoTool} /\ e.sub \in BOOLEAN
<1> QED
  BY DEF Stored

LEMMA Intervals ==
    ASSUME NEW n \in Nat
    PROVE  /\ IsFiniteSet(1..n) /\ Cardinality(1..n) = n
           /\ IsFiniteSet(0..(n - 1)) /\ Cardinality(0..(n - 1)) = n
<1>1. /\ IsFiniteSet(1..n)
      /\ Cardinality(1..n) = IF 1 > n THEN 0 ELSE n - 1 + 1
  BY FS_Interval
<1>2. n - 1 \in Int /\ 0 \in Int
  OBVIOUS
<1>3. /\ IsFiniteSet(0..(n - 1))
      /\ Cardinality(0..(n - 1)) = IF 0 > n - 1 THEN 0 ELSE (n - 1) - 0 + 1
  BY <1>2, FS_Interval
<1> QED
  BY <1>1, <1>3

\* The conditions on a list hold the more, the fewer timestamps are taken and
\* the later the latest.
LEMMA ListKept ==
    ASSUME NEW s, NEW n \in Nat, NEW taken, NEW tidy, NEW free,
           NEW n2 \in Nat, NEW taken2, NEW tidy2, NEW free2,
           ListOk(s, n, taken, tidy, free),
           n <= n2, taken2 \subseteq taken, tidy2 => tidy, free2 => free
    PROVE  ListOk(s, n2, taken2, tidy2, free2)
<1>1. \A i \in DOMAIN s : s[i] \in Stored
  BY DEF ListOk
<1>2. \A i \in DOMAIN s : s[i].at \in Nat
  BY <1>1, NotificationAssumption, StoredFields
<1> QED
  BY <1>2 DEF ListOk

LEMMA EmptyOk ==
    ASSUME NEW n, NEW taken, NEW tidy, NEW free
    PROVE  ListOk(<<>>, n, taken, tidy, free)
<1> QED
  BY DEF ListOk

\* A list is not longer than there are timestamps.
LEMMA ListLength ==
    ASSUME NEW s, NEW n \in Nat, NEW taken, NEW tidy, NEW free,
           ListOk(s, n, taken, tidy, free)
    PROVE  Len(s) \in Nat /\ Len(s) <= n
<1>1. s \in Seq(Stored) /\ DOMAIN s = 1..Len(s) /\ Len(s) \in Nat
  BY DEF ListOk
<1>2. \A i \in 1..Len(s) : s[i].at \in 1..n
  BY <1>1, NotificationAssumption, StoredFields DEF ListOk
<1> DEFINE f == [i \in 1..Len(s) |-> s[i].at]
<1>3. f \in Injection(1..Len(s), 1..n)
  BY <1>1, <1>2 DEF Injection, IsInjective, ListOk
<1> HIDE DEF f
<1>4. Cardinality(1..Len(s)) <= Cardinality(1..n)
  BY <1>1, <1>3, Intervals, FS_Injection
<1>5. Cardinality(1..Len(s)) = Len(s) /\ Cardinality(1..n) = n
  BY <1>1, Intervals
<1> QED
  BY <1>1, <1>4, <1>5

\* A list whose entries are different entries of a good one.
LEMMA PartOk ==
    ASSUME NEW s, NEW n, NEW taken, NEW tidy, NEW free, ListOk(s, n, taken, tidy, free),
           NEW t \in Seq(Stored), NEW m \in [DOMAIN t -> DOMAIN s],
           \A i, j \in DOMAIN t : m[i] = m[j] => i = j,
           \A i \in DOMAIN t : t[i].at = s[m[i]].at /\ t[i].tool = s[m[i]].tool,
           tidy => \A i, j \in DOMAIN t : i < j => t[i].at > t[j].at
    PROVE  ListOk(t, n, taken, tidy, free)
<1>1. \A i \in DOMAIN t : m[i] \in DOMAIN s
  OBVIOUS
<1>2. \A i \in DOMAIN t : /\ t[i].at <= n
                          /\ t[i].at \notin taken
                          /\ tidy => \A x \in taken : t[i].at < x
  BY <1>1 DEF ListOk
<1>3. \A i, j \in DOMAIN t : t[i].at = t[j].at => i = j
  BY <1>1 DEF ListOk
<1>4. free => \A i, j \in DOMAIN t : t[i].tool = t[j].tool /\ t[i].tool # NoTool => i = j
  BY <1>1 DEF ListOk
<1> QED
  BY <1>2, <1>3, <1>4 DEF ListOk

LEMMA Removed ==
    ASSUME NEW s \in Seq(Stored), NEW i \in DOMAIN s
    PROVE  /\ RemoveAt(s, i) \in Seq(Stored)
           /\ Len(RemoveAt(s, i)) = Len(s) - 1
           /\ \A j \in 1..(Len(s) - 1) : RemoveAt(s, i)[j] = IF j < i THEN s[j] ELSE s[j + 1]
<1>1. Len(s) \in Nat /\ i \in 1..Len(s)
  OBVIOUS
<1> DEFINE a == SubSeq(s, 1, i - 1)
           b == SubSeq(s, i + 1, Len(s))
<1>2. RemoveAt(s, i) = a \o b
  BY DEF RemoveAt
<1>3. a \in Seq(Stored) /\ Len(a) = i - 1 /\ \A j \in 1..(i - 1) : a[j] = s[j]
  BY <1>1
<1>4. b \in Seq(Stored) /\ Len(b) = Len(s) - i /\ \A j \in 1..(Len(s) - i) : b[j] = s[j + i]
  BY <1>1
<1> HIDE DEF a, b
<1>5. a \o b \in Seq(Stored) /\ Len(a \o b) = Len(s) - 1
  BY <1>1, <1>3, <1>4
<1>6. ASSUME NEW j \in 1..(Len(s) - 1) PROVE (a \o b)[j] = IF j < i THEN s[j] ELSE s[j + 1]
  <2>1. CASE j < i
    BY <1>1, <1>3, <1>4, <2>1
  <2>2. CASE ~(j < i)
    <3>1. (a \o b)[j] = b[j - (i - 1)]
      <4>1. j \in 1 .. Len(a) + Len(b) /\ ~(j <= Len(a))
        BY <1>1, <1>3, <1>4, <2>2
      <4>2. (a \o b)[j] = b[j - Len(a)]
        BY <1>3, <1>4, <4>1, ConcatProperties
      <4> QED
        BY <1>3, <4>2
    <3>2. j - (i - 1) \in 1..(Len(s) - i) /\ (j - (i - 1)) + i = j + 1
      BY <1>1, <2>2
    <3> QED
      BY <1>4, <2>2, <3>1, <3>2
  <2> QED
    BY <2>1, <2>2
<1> QED
  BY <1>2, <1>5, <1>6

LEMMA RemoveOk ==
    ASSUME NEW s, NEW n, NEW taken, NEW tidy, NEW free, ListOk(s, n, taken, tidy, free),
           NEW i \in DOMAIN s
    PROVE  ListOk(RemoveAt(s, i), n, taken, tidy, free)
<1> DEFINE t == RemoveAt(s, i)
           m == [j \in DOMAIN t |-> IF j < i THEN j ELSE j + 1]
<1>1. s \in Seq(Stored) /\ Len(s) \in Nat /\ i \in 1..Len(s) /\ DOMAIN s = 1..Len(s)
  BY DEF ListOk
<1>2. /\ t \in Seq(Stored) /\ DOMAIN t = 1..(Len(s) - 1)
      /\ \A j \in 1..(Len(s) - 1) : t[j] = IF j < i THEN s[j] ELSE s[j + 1]
  BY <1>1, Removed
<1> HIDE DEF t
<1>3. /\ m \in [DOMAIN t -> DOMAIN s]
      /\ \A j, k \in DOMAIN t : j < k => m[j] < m[k]
      /\ \A j \in DOMAIN t : t[j] = s[m[j]] /\ m[j] \in Nat
  BY <1>1, <1>2
<1> HIDE DEF m
<1>4. \A j, k \in DOMAIN t : j \in Nat /\ k \in Nat
  BY <1>2
<1>5. \A j, k \in DOMAIN t : m[j] = m[k] => j = k
  BY <1>3, <1>4
<1>6. tidy => \A j, k \in DOMAIN t : j < k => t[j].at > t[k].at
  BY <1>3 DEF ListOk
<1>7. /\ t \in Seq(Stored) /\ m \in [DOMAIN t -> DOMAIN s]
      /\ \A j \in DOMAIN t : t[j].at = s[m[j]].at /\ t[j].tool = s[m[j]].tool
  BY <1>2, <1>3
<1>8. ListOk(t, n, taken, tidy, free)
  BY <1>5, <1>6, <1>7, PartOk
<1> QED
  BY <1>8 DEF t

\* Marking entries as read.
LEMMA MarkOk ==
    ASSUME NEW s, NEW n, NEW taken, NEW tidy, NEW free, ListOk(s, n, taken, tidy, free),
           NEW t, DOMAIN t = DOMAIN s, t = [i \in DOMAIN s |-> t[i]],
           \A i \in DOMAIN s : t[i] = s[i] \/ t[i] = [s[i] EXCEPT !.read = TRUE]
    PROVE  ListOk(t, n, taken, tidy, free)
<1>1. s \in Seq(Stored) /\ Len(s) \in Nat /\ DOMAIN s = 1..Len(s)
  BY DEF ListOk
<1>2. ASSUME NEW i \in DOMAIN s
      PROVE  t[i] \in Stored /\ t[i].at = s[i].at /\ t[i].tool = s[i].tool
  <2>1. s[i] \in Stored
    BY <1>1
  <2> QED
    BY <1>2, <2>1 DEF Stored
<1>3. t \in [1..Len(s) -> Stored]
  BY <1>1, <1>2
<1>4. t \in Seq(Stored)
  BY <1>1, <1>3
<1> QED
  BY <1>1, <1>2, <1>4 DEF ListOk

\* Sorting gives every place up to the length of the list to one entry.
LEMMA Ranks ==
    ASSUME NEW s \in Seq(Stored)
    PROVE  /\ \A i \in DOMAIN s : Rank(s, i) \in 0..(Len(s) - 1)
           /\ \A i, j \in DOMAIN s : Rank(s, i) < Rank(s, j) => s[i].at >= s[j].at
           /\ \A i, j \in DOMAIN s : Rank(s, i) = Rank(s, j) => i = j
           /\ \A k \in 0..(Len(s) - 1) : \E i \in DOMAIN s : Rank(s, i) = k
<1> DEFINE ahead(i) ==
        {j \in DOMAIN s : s[j].at > s[i].at \/ (s[j].at = s[i].at /\ j < i)}
<1>1. Len(s) \in Nat /\ DOMAIN s = 1..Len(s) /\ IsFiniteSet(1..Len(s))
      /\ Cardinality(1..Len(s)) = Len(s)
  BY Intervals
<1>2. \A i \in DOMAIN s : s[i].at \in Nat
  BY NotificationAssumption, StoredFields
<1>3. \A i \in DOMAIN s : Rank(s, i) = Cardinality(ahead(i))
  BY DEF Rank
<1>4. \A i \in DOMAIN s : /\ ahead(i) \subseteq 1..Len(s) /\ i \notin ahead(i)
                          /\ IsFiniteSet(ahead(i)) /\ Cardinality(ahead(i)) \in Nat
  <2> TAKE i \in DOMAIN s
  <2>1. ahead(i) \subseteq 1..Len(s) /\ i \notin ahead(i)
    BY <1>1, <1>2
  <2> HIDE DEF ahead
  <2>2. IsFiniteSet(ahead(i))
    BY <1>1, <2>1, FS_Subset
  <2> QED
    BY <2>1, <2>2, FS_CardinalityType
<1>5. ASSUME NEW i \in DOMAIN s PROVE Rank(s, i) \in 0..(Len(s) - 1)
  <2>1. ahead(i) \subseteq (1..Len(s)) \ {i} /\ i \in 1..Len(s)
    BY <1>1, <1>4
  <2> HIDE DEF ahead
  <2>2. /\ IsFiniteSet((1..Len(s)) \ {i})
        /\ Cardinality((1..Len(s)) \ {i}) = Len(s) - 1
    BY <1>1, <2>1, FS_RemoveElement
  <2>3. Cardinality(ahead(i)) <= Len(s) - 1
    BY <2>1, <2>2, FS_Subset
  <2> QED
    BY <1>1, <1>3, <1>4, <2>3
<1>6. ASSUME NEW i \in DOMAIN s, NEW j \in DOMAIN s, i \in ahead(j)
      PROVE  Rank(s, i) < Rank(s, j)
  <2>1. ahead(i) \subseteq ahead(j) /\ i \notin ahead(i)
    BY <1>1, <1>2, <1>6
  <2> HIDE DEF ahead
  <2>2. /\ Cardinality(ahead(i)) <= Cardinality(ahead(j))
        /\ Cardinality(ahead(i)) # Cardinality(ahead(j))
    BY <1>4, <1>6, <2>1, FS_Subset
  <2> QED
    BY <1>3, <1>4, <2>2
<1>7. ASSUME NEW i \in DOMAIN s, NEW j \in DOMAIN s, i # j
      PROVE  i \in ahead(j) \/ j \in ahead(i)
  BY <1>1, <1>2, <1>7
<1>8. ASSUME NEW i \in DOMAIN s, NEW j \in DOMAIN s, i \in ahead(j)
      PROVE  s[i].at >= s[j].at
  BY <1>2, <1>8
<1> HIDE DEF ahead
<1>9. \A i \in DOMAIN s : Rank(s, i) \in Nat
  BY <1>3, <1>4
<1>10. \A i, j \in DOMAIN s : Rank(s, i) < Rank(s, j) => s[i].at >= s[j].at
  BY <1>6, <1>7, <1>8, <1>9
<1>11. \A i, j \in DOMAIN s : Rank(s, i) = Rank(s, j) => i = j
  BY <1>6, <1>7, <1>9
<1> DEFINE f == [i \in 1..Len(s) |-> Rank(s, i)]
<1>12. f \in Injection(1..Len(s), 0..(Len(s) - 1))
  BY <1>1, <1>5, <1>11 DEF Injection, IsInjective
<1>13. f \in Surjection(1..Len(s), 0..(Len(s) - 1))
  <2> HIDE DEF f
  <2>1. /\ IsFiniteSet(0..(Len(s) - 1))
        /\ Cardinality(0..(Len(s) - 1)) = Len(s)
    BY <1>1, Intervals
  <2> QED
    BY <1>1, <1>12, <2>1, FS_Injection
<1>14. ASSUME NEW k \in 0..(Len(s) - 1) PROVE \E i \in DOMAIN s : Rank(s, i) = k
  BY <1>1, <1>13 DEF Surjection
<1> QED
  BY <1>5, <1>10, <1>11, <1>14

\* prune_notifications keeps the newest entries, newest first.
LEMMA PruneOk ==
    ASSUME NEW s, NEW n, NEW taken, NEW tidy, NEW free, ListOk(s, n, taken, tidy, free)
    PROVE  ListOk(Pruned(s), n, taken, tidy, free)
<1>1. s \in Seq(Stored) /\ Len(s) \in Nat /\ DOMAIN s = 1..Len(s)
  BY DEF ListOk
<1>2. CASE ~(Len(s) > MaxNotifications)
  BY <1>2 DEF Pruned
<1>3. CASE Len(s) > MaxNotifications
  <2> DEFINE m == [k \in 1..MaxNotifications |-> CHOOSE i \in DOMAIN s : Rank(s, i) = k - 1]
             t == Newest(s)
  <2>0. MaxNotifications \in Nat
    BY NotificationAssumption
  <2>1. \A k \in 1..MaxNotifications : k - 1 \in 0..(Len(s) - 1)
    BY <1>1, <1>3, <2>0
  <2>2. \A k \in 1..MaxNotifications : m[k] \in DOMAIN s /\ Rank(s, m[k]) = k - 1
    BY <1>1, <2>1, Ranks
  <2>3. /\ t = [k \in 1..MaxNotifications |-> s[m[k]]]
        /\ m = [k \in 1..MaxNotifications |-> m[k]]
    BY DEF Newest
  <2> HIDE DEF m, t
  <2>4. \A k \in 1..MaxNotifications : s[m[k]] \in Stored
    BY <1>1, <2>2
  <2>5. t \in Seq(Stored) /\ DOMAIN t = 1..MaxNotifications
    <3>1. t \in [1..MaxNotifications -> Stored]
      BY <2>3, <2>4
    <3> QED
      BY <2>0, <3>1
  <2>6. m \in [DOMAIN t -> DOMAIN s]
    BY <2>2, <2>3, <2>5
  <2>7. \A k, l \in DOMAIN t : m[k] = m[l] => k = l
    BY <2>0, <2>2, <2>5
  <2>8. \A k \in DOMAIN t : t[k].at = s[m[k]].at /\ t[k].tool = s[m[k]].tool
    BY <2>3, <2>5
  <2>9. \A k, l \in DOMAIN t : k < l => t[k].at > t[l].at
    <3> SUFFICES ASSUME NEW k \in DOMAIN t, NEW l \in DOMAIN t, k < l
                 PROVE  t[k].at > t[l].at
      OBVIOUS
    <3>1. k \in Nat /\ l \in Nat /\ Rank(s, m[k]) < Rank(s, m[l])
      BY <2>0, <2>2, <2>5
    <3>2. s[m[k]].at >= s[m[l]].at
      BY <1>1, <2>2, <2>5, <3>1, Ranks
    <3>5. m[k] # m[l]
      BY <2>7, <3>1
    <3>3. s[m[k]].at # s[m[l]].at
      BY <2>2, <2>5, <3>5 DEF ListOk
    <3>4. s[m[k]].at \in Nat /\ s[m[l]].at \in Nat
      BY <2>4, <2>5, NotificationAssumption, StoredFields
    <3> QED
      BY <2>8, <3>2, <3>3, <3>4
  <2>10. ListOk(t, n, taken, tidy, free)
    BY <2>5, <2>6, <2>7, <2>8, <2>9, PartOk
  <2> QED
    BY <1>3, <2>10 DEF Pruned, t
<1> QED
  BY <1>2, <1>3

\* An entry that is newer than the list comes to its front.
LEMMA InsertOk ==
    ASSUME NEW s, NEW n \in Nat, NEW taken, NEW tidy, NEW free,
           ListOk(s, n, taken, tidy, free),
           NEW e \in Stored, e.at \in taken, e.at <= n,
           tidy => taken = {e.at},
           free => e.tool = NoTool \/ \A i \in DOMAIN s : s[i].tool # e.tool
    PROVE  ListOk(<<e>> \o s, n, taken \ {e.at}, tidy, free)
<1> DEFINE t == <<e>> \o s
<1>1. s \in Seq(Stored) /\ Len(s) \in Nat /\ DOMAIN s = 1..Len(s)
  BY DEF ListOk
<1>2. /\ t \in Seq(Stored) /\ Len(t) = Len(s) + 1 /\ DOMAIN t = 1..(Len(s) + 1)
      /\ t[1] = e /\ \A i \in 2..(Len(s) + 1) : t[i] = s[i - 1] /\ i - 1 \in DOMAIN s
  BY <1>1
<1> HIDE DEF t
<1>3. \A i \in DOMAIN t : i = 1 \/ i \in 2..(Len(s) + 1)
  BY <1>1, <1>2
<1>4. \A i \in DOMAIN s : s[i].at \in Nat /\ s[i].at # e.at /\ (tidy => s[i].at < e.at)
  BY <1>1, NotificationAssumption, StoredFields DEF ListOk
<1>5. e.at \in Nat
  BY NotificationAssumption, StoredFields
<1>6. ASSUME NEW i \in DOMAIN t
      PROVE  /\ t[i].at <= n
             /\ t[i].at \notin taken \ {e.at}
             /\ tidy => \A x \in taken \ {e.at} : t[i].at < x
  BY <1>2, <1>3 DEF ListOk
<1>7. ASSUME NEW i \in DOMAIN t, NEW j \in DOMAIN t, t[i].at = t[j].at PROVE i = j
  <2>1. CASE i = 1 \/ j = 1
    BY <1>2, <1>3, <1>4, <1>7, <2>1
  <2>2. CASE i # 1 /\ j # 1
    <3>1. i - 1 = j - 1 /\ i \in 2..(Len(s) + 1) /\ j \in 2..(Len(s) + 1)
      BY <1>2, <1>3, <1>7, <2>2 DEF ListOk
    <3> QED
      BY <1>1, <3>1
  <2> QED
    BY <2>1, <2>2
<1>8. ASSUME tidy, NEW i \in DOMAIN t, NEW j \in DOMAIN t, i < j PROVE t[i].at > t[j].at
  <2>1. j \in 2..(Len(s) + 1)
    BY <1>1, <1>2, <1>3, <1>8
  <2>2. CASE i = 1
    BY <1>2, <1>4, <1>5, <1>8, <2>1, <2>2
  <2>3. CASE i # 1
    <3>1. i \in 2..(Len(s) + 1) /\ i - 1 < j - 1
      BY <1>1, <1>3, <1>8, <2>1, <2>3
    <3> QED
      BY <1>2, <1>8, <2>1, <3>1 DEF ListOk
  <2> QED
    BY <2>2, <2>3
<1>9. ASSUME free, NEW i \in DOMAIN t, NEW j \in DOMAIN t, t[i].tool = t[j].tool,
             t[i].tool # NoTool
      PROVE  i = j
  <2>1. CASE i = 1 \/ j = 1
    BY <1>2, <1>3, <1>9, <2>1
  <2>2. CASE i # 1 /\ j # 1
    <3>1. i - 1 = j - 1 /\ i \in 2..(Len(s) + 1) /\ j \in 2..(Len(s) + 1)
      BY <1>2, <1>3, <1>9, <2>2 DEF ListOk
    <3> QED
      BY <1>1, <3>1
  <2> QED
    BY <2>1, <2>2
<1>10. ListOk(t, n, taken \ {e.at}, tidy, free)
  BY <1>2, <1>6, <1>7, <1>8, <1>9 DEF ListOk
<1> QED
  BY <1>10 DEF t

-----------------------------------------------------------------------------
(* Steps.                                                                   *)

LEMMA ProcsAre ==
    /\ \A p \in Workers : p \in Procs /\ p # Boot
    /\ \A p \in Procs : p # Boot => p \in Workers
    /\ Boot \in Procs
    /\ IsFiniteSet(Procs)
<1>1. IsFiniteSet(Workers \cup {Boot})
  BY NotificationAssumption, FS_AddElement
<1> QED
  BY <1>1, NotificationAssumption DEF Procs

\* Who is at work while nothing has overlapped is the only one.
LEMMA OthersRest ==
    ASSUME IInv, OverlapFree, NEW p \in Procs, Busy(p), NEW q \in Procs, q # p
    PROVE  /\ pc[q] \notin Adding \cup Saving
           /\ q \in Workers => pc[q] \in {"idle", "dead"}
           /\ p \in Workers => pc[Boot] \in {"load", "idle"}
           /\ p = Boot => pc[Boot] \notin {"load", "idle"}
<1>1. pc[q] \notin Adding \cup Saving
  BY DEF IInv, AloneInv, Busy
<1>2. pc[q] \in PCs /\ (pc[q] = "load" => q = Boot)
  BY DEF IInv, TypeOK, StageInv
<1>3. pc[q] \in {"idle", "dead", "load"}
  BY <1>1, <1>2 DEF PCs, Adding, Unstamped, Finding, Saving
<1>4. p \in Workers => pc[Boot] \in {"load", "idle"}
  BY DEF IInv, AloneInv, Booting
<1>5. p = Boot => pc[Boot] \notin {"load", "idle"}
  BY DEF Busy, Adding, Unstamped, Finding, Saving
<1> QED
  BY <1>1, <1>2, <1>3, <1>4, <1>5, ProcsAre

\* A list that stays, while nothing new is taken.
LEMMA ListStays ==
    ASSUME IInv, NEW s, OkList(s), stamps' = stamps, Taken' \subseteq Taken,
           overlapped => overlapped'
    PROVE  ListOk(s, stamps', Taken', Tidy', OverlapFree')
<1>1. stamps \in Nat
  BY DEF IInv, TypeOK
<1>2. (Tidy' => Tidy) /\ (OverlapFree' => OverlapFree)
  BY DEF Tidy, OverlapFree, OneAdder
<1> QED
  BY <1>1, <1>2, ListKept DEF OkList

\* All lists are old ones, but for some that are known to be good.
LEMMA ListsStay ==
    ASSUME IInv, stamps' = stamps, Taken' \subseteq Taken, overlapped => overlapped',
           OkList(store'), OkList(file'.list), \A p \in Procs : OkList(snap'[p])
    PROVE  ListsInv'
<1>1. ListOk(store', stamps', Taken', Tidy', OverlapFree')
  BY ListStays
<1>2. ListOk(file'.list, stamps', Taken', Tidy', OverlapFree')
  BY ListStays
<1>3. \A p \in Procs : ListOk(snap'[p], stamps', Taken', Tidy', OverlapFree')
  BY ListStays
<1> QED
  BY <1>1, <1>2, <1>3 DEF ListsInv, OkList

LEMMA ListsAreTyped ==
    ASSUME NEW s, OkList(s)
    PROVE  s \in Seq(Stored)
<1> QED
  BY DEF OkList, ListOk

LEMMA EmptyIsOk == OkList(<<>>)
<1> QED
  BY EmptyOk DEF OkList

\* A process at work goes on: it adds or finds only if it did before.
GoesOn(p, label) ==
    /\ Busy(p)
    /\ label \in PCs \ {"insert", "load"}
    /\ label \in Unstamped => pc[p] \in Unstamped
    /\ label \in Finding => pc[p] \in Finding
    /\ label = "dead" => p # Boot
    /\ pc' = [pc EXCEPT ![p] = label]
    /\ \A q \in Procs : q # p => idx'[q] = idx[q]
    /\ UNCHANGED <<cand, errors, stamps, crashes, overlapped>>

LEMMA Onwards ==
    ASSUME IInv, NEW p \in Procs, NEW label, GoesOn(p, label)
    PROVE  StageInv' /\ AloneInv' /\ Taken' \subseteq Taken /\ pc' \in [Procs -> PCs]
<1> USE DEF IInv
<1>1. pc \in [Procs -> PCs] /\ errors \in Nat /\ stamps \in Nat
  BY NotificationAssumption DEF TypeOK
<1>2. /\ pc' = [pc EXCEPT ![p] = label] /\ label \in PCs
      /\ pc' \in [Procs -> PCs]
      /\ pc'[p] = label /\ \A q \in Procs : q # p => pc'[q] = pc[q] /\ idx'[q] = idx[q]
  BY <1>1 DEF GoesOn
<1>3. Taken' \subseteq Taken
  BY <1>2 DEF Taken, GoesOn
<1>4. StageInv'
  <2>1. \A q \in Procs : /\ pc'[q] \in Adding => q \in Adders /\ cand'[q] \in Errors
                         /\ pc'[q] \in Finding => cand'[q].tool # NoTool
                         /\ pc'[q] = "load" => q = Boot
                         /\ pc'[q] = "dead" => q # Boot
                         /\ pc'[q] = "insert" => idx'[q] \in 1..stamps'
    BY <1>2 DEF StageInv, GoesOn, Adding
  <2>2. \A q, r \in Procs :
           pc'[q] = "insert" /\ pc'[r] = "insert" /\ idx'[q] = idx'[r] => q = r
    BY <1>2 DEF StageInv, GoesOn
  <2>3. stamps' + Cardinality({q \in Procs : pc'[q] \in Unstamped}) <= errors'
    <3> DEFINE S == {q \in Procs : pc[q] \in Unstamped}
               T == {q \in Procs : pc'[q] \in Unstamped}
    <3>1. T \subseteq S
      BY <1>2 DEF GoesOn
    <3>2. IsFiniteSet(S) /\ Cardinality(S) \in Nat
      <4>1. S \subseteq Procs
        OBVIOUS
      <4> HIDE DEF S
      <4> QED
        BY <4>1, ProcsAre, FS_Subset, FS_CardinalityType
    <3>3. stamps + Cardinality(S) <= errors
      BY DEF StageInv
    <3> HIDE DEF S, T
    <3>4. Cardinality(T) \in Nat /\ Cardinality(T) <= Cardinality(S)
      BY <3>1, <3>2, FS_Subset, FS_CardinalityType
    <3>5. stamps' + Cardinality(T) <= errors'
      BY <1>1, <3>2, <3>3, <3>4 DEF GoesOn
    <3> QED
      BY <3>5 DEF T
  <2> QED
    BY <2>1, <2>2, <2>3 DEF StageInv
<1>5. AloneInv'
  <2>1. \A q \in Procs : Busy(q)' => Busy(q)
    BY <1>2 DEF Busy, GoesOn
  <2>2. Booting' => Booting
    BY <1>2, ProcsAre DEF Booting, GoesOn, Busy, Adding, Unstamped, Finding, Saving
  <2> QED
    BY <2>1, <2>2, ProcsAre DEF AloneInv, GoesOn, OverlapFree
<1> QED
  BY <1>2, <1>3, <1>4, <1>5

-----------------------------------------------------------------------------
(* Saving.                                                                  *)

\* A process that saves has found nothing to replace.
LEMMA SavingKeepsIndex ==
    ASSUME IInv, NEW p \in Procs, pc[p] \in Saving, NEW label \in PCs, label \notin Adding,
           pc' = [pc EXCEPT ![p] = label], UNCHANGED <<poisoned, overlapped>>
    PROVE  IndexInv'
<1> SUFFICES ASSUME OverlapFree PROVE IndexInv'
  BY DEF IndexInv, OverlapFree
<1>1. Busy(p) /\ pc \in [Procs -> PCs]
  BY DEF Busy, IInv, TypeOK
<1>2. \A q \in Procs : pc'[q] \notin Adding
  BY <1>1, OthersRest
<1>3. ~poisoned'
  BY DEF IInv, IndexInv
<1> QED
  BY <1>2, <1>3 DEF IndexInv, Adding, Unstamped, Finding

LEMMA PruneStep == ASSUME IInv, NEW p \in Procs, Prune(p) PROVE IInv'
<1> USE DEF IInv
<1>1. /\ pc[p] = "prune" /\ pc' = [pc EXCEPT ![p] = "snapshot"]
      /\ store' = IF poisoned THEN store ELSE Pruned(store)
      /\ UNCHANGED <<poisoned, file, cand, idx, snap, counters>>
  BY DEF Prune, At, Goto
<1>2. GoesOn(p, "snapshot")
  BY <1>1 DEF GoesOn, Busy, Saving, PCs, Unstamped, Finding, counters
<1>3. StageInv' /\ AloneInv' /\ Taken' \subseteq Taken /\ pc' \in [Procs -> PCs]
  BY <1>2, Onwards
<1>4. OkList(store')
  BY <1>1, PruneOk DEF ListsInv, OkList
<1>5. ListsInv'
  BY <1>1, <1>3, <1>4, ListsStay DEF ListsInv, counters
<1>6. TypeOK'
  BY <1>1, <1>3, <1>4, ListsAreTyped DEF TypeOK, counters
<1>7. IndexInv'
  BY <1>1, SavingKeepsIndex DEF PCs, Saving, Adding, Unstamped, Finding, counters
<1>8. SaveInv'
  <2> SUFFICES ASSUME OverlapFree PROVE SaveInv'
    BY <1>1 DEF SaveInv, OverlapFree, counters
  <2>1. \A q \in Procs : pc'[q] \notin {"open", "write"}
    BY <1>1, <1>2, OthersRest DEF GoesOn, Saving, TypeOK
  <2>2. pc'[p] = "snapshot"
    BY <1>1 DEF TypeOK
  <2> QED
    BY <2>1, <2>2, ProcsAre DEF SaveInv
<1> QED
  BY <1>3, <1>5, <1>6, <1>7, <1>8

LEMMA SnapshotStep == ASSUME IInv, NEW p \in Procs, Snapshot(p) PROVE IInv'
<1> USE DEF IInv
<1>1. /\ pc[p] = "snapshot" /\ pc' = [pc EXCEPT ![p] = "open"]
      /\ snap' = [snap EXCEPT ![p] = IF poisoned THEN <<>> ELSE store]
      /\ UNCHANGED <<store, poisoned, file, cand, idx, counters>>
  BY DEF Snapshot, At, Goto
<1>2. GoesOn(p, "open")
  BY <1>1 DEF GoesOn, Busy, Saving, PCs, Unstamped, Finding, counters
<1>3. StageInv' /\ AloneInv' /\ Taken' \subseteq Taken /\ pc' \in [Procs -> PCs]
  BY <1>2, Onwards
<1>4. \A q \in Procs : OkList(snap'[q])
  BY <1>1, EmptyIsOk DEF ListsInv, TypeOK
<1>5. ListsInv'
  BY <1>1, <1>3, <1>4, ListsStay DEF ListsInv, counters
<1>6. TypeOK'
  <2>1. snap' \in [Procs -> Seq(Stored)]
    BY <1>1 DEF TypeOK
  <2> QED
    BY <1>1, <1>3, <2>1 DEF TypeOK, counters
<1>7. IndexInv'
  BY <1>1, SavingKeepsIndex DEF PCs, Saving, Adding, Unstamped, Finding, counters
<1>8. SaveInv'
  <2> SUFFICES ASSUME OverlapFree PROVE SaveInv'
    BY <1>1 DEF SaveInv, OverlapFree, counters
  <2>1. snap'[p] = store' /\ pc'[p] = "open"
    BY <1>1 DEF TypeOK, IndexInv
  <2>2. \A q \in Procs : q # p => pc'[q] \notin {"open", "write"}
    BY <1>1, <1>2, OthersRest DEF GoesOn, Saving, TypeOK
  <2> QED
    BY <2>1, <2>2, ProcsAre DEF SaveInv
<1> QED
  BY <1>3, <1>5, <1>6, <1>7, <1>8

LEMMA OpenStep == ASSUME IInv, NEW p \in Procs, Open(p) PROVE IInv'
<1> USE DEF IInv
<1>1. /\ pc[p] = "open" /\ pc' = [pc EXCEPT ![p] = "write"]
      /\ file' = Garbage(0)
      /\ UNCHANGED <<store, poisoned, cand, idx, snap, counters>>
  BY DEF Open, At, Goto
<1>2. GoesOn(p, "write")
  BY <1>1 DEF GoesOn, Busy, Saving, PCs, Unstamped, Finding, counters
<1>3. StageInv' /\ AloneInv' /\ Taken' \subseteq Taken /\ pc' \in [Procs -> PCs]
  BY <1>2, Onwards
<1>4. file'.valid = FALSE /\ file'.list = <<>> /\ file'.size = 0
  BY <1>1 DEF Garbage
<1>5. ListsInv'
  BY <1>1, <1>3, <1>4, EmptyIsOk, ListsStay DEF ListsInv, counters
<1>6. TypeOK'
  <2>1. file'.valid \in BOOLEAN
    BY <1>4
  <2>2. file'.list \in Seq(Stored) /\ file'.size \in Nat
    BY <1>4
  <2> QED
    BY <1>1, <1>3, <2>1, <2>2 DEF TypeOK, counters
<1>7. IndexInv'
  BY <1>1, SavingKeepsIndex DEF PCs, Saving, Adding, Unstamped, Finding, counters
<1>8. SaveInv'
  <2> SUFFICES ASSUME OverlapFree PROVE SaveInv'
    BY <1>1 DEF SaveInv, OverlapFree, counters
  <2>1. snap'[p] = store' /\ pc'[p] = "write"
    BY <1>1 DEF TypeOK, SaveInv
  <2>2. \A q \in Procs : q # p => pc'[q] \notin {"open", "write"}
    BY <1>1, <1>2, OthersRest DEF GoesOn, Saving, TypeOK
  <2> QED
    BY <1>4, <2>1, <2>2, ProcsAre DEF SaveInv
<1> QED
  BY <1>3, <1>5, <1>6, <1>7, <1>8

LEMMA WriteStep == ASSUME IInv, NEW p \in Procs, Write(p) PROVE IInv'
<1> USE DEF IInv
<1>1. /\ pc[p] = "write" /\ pc' = [pc EXCEPT ![p] = "idle"]
      /\ file' = IF file.size > Len(snap[p]) + 1 THEN Garbage(file.size)
                 ELSE FileOf(snap[p])
      /\ snap' = [snap EXCEPT ![p] = <<>>]
      /\ UNCHANGED <<store, poisoned, cand, idx, counters>>
  BY DEF Write, At, Goto
<1>2. GoesOn(p, "idle")
  BY <1>1 DEF GoesOn, Busy, Saving, PCs, Unstamped, Finding, counters
<1>3. StageInv' /\ AloneInv' /\ Taken' \subseteq Taken /\ pc' \in [Procs -> PCs]
  BY <1>2, Onwards
<1>4. /\ file'.list \in {<<>>, snap[p]} /\ file'.valid \in BOOLEAN
      /\ file'.size \in {file.size, Len(snap[p]) + 1}
  BY <1>1 DEF Garbage, FileOf
<1>5. ListsInv'
  <2>1. \A q \in Procs : OkList(snap'[q])
    BY <1>1, EmptyIsOk DEF ListsInv, TypeOK
  <2> QED
    BY <1>1, <1>3, <1>4, <2>1, EmptyIsOk, ListsStay DEF ListsInv, counters
<1>6. TypeOK'
  <2>1. snap[p] \in Seq(Stored) /\ <<>> \in Seq(Stored)
    BY DEF TypeOK
  <2>2. snap' \in [Procs -> Seq(Stored)]
    BY <1>1, <2>1 DEF TypeOK
  <2>4. file.size \in Nat /\ Len(snap[p]) + 1 \in Nat
    BY <2>1 DEF TypeOK
  <2>3. file'.list \in Seq(Stored) /\ file'.size \in Nat
    BY <1>4, <2>1, <2>4
  <2> QED
    BY <1>1, <1>3, <1>4, <2>2, <2>3 DEF TypeOK, counters
<1>7. IndexInv'
  BY <1>1, SavingKeepsIndex DEF PCs, Saving, Adding, Unstamped, Finding, counters
<1>8. SaveInv'
  <2> SUFFICES ASSUME OverlapFree PROVE SaveInv'
    BY <1>1 DEF SaveInv, OverlapFree, counters
  <2>1. \A q \in Procs : pc'[q] \notin {"open", "write"}
    BY <1>1, <1>2, OthersRest DEF GoesOn, Saving, TypeOK
  <2>2. file.size = 0 /\ snap[p] = store /\ Len(store) \in Nat
    BY <1>1 DEF SaveInv, TypeOK
  <2>3. file' = FileOf(store')
    BY <1>1, <2>2
  <2> QED
    BY <2>1, <2>3 DEF SaveInv
<1> QED
  BY <1>3, <1>5, <1>6, <1>7, <1>8

LEMMA SaveFailsStep == ASSUME IInv, NEW p \in Procs, SaveFails(p) PROVE IInv'
<1> USE DEF IInv
<1>1. /\ pc[p] \in {"open", "write"} /\ pc' = [pc EXCEPT ![p] = "idle"]
      /\ fails < MaxFails /\ fails' = fails + 1
      /\ snap' = [snap EXCEPT ![p] = <<>>]
      /\ UNCHANGED <<store, poisoned, file, cand, idx, errors, stamps, crashes, overlapped>>
  BY DEF SaveFails, Goto
<1>2. GoesOn(p, "idle")
  BY <1>1 DEF GoesOn, Busy, Saving, PCs, Unstamped, Finding
<1>3. StageInv' /\ AloneInv' /\ Taken' \subseteq Taken /\ pc' \in [Procs -> PCs]
  BY <1>2, Onwards
<1>4. \A q \in Procs : OkList(snap'[q])
  BY <1>1, EmptyIsOk DEF ListsInv, TypeOK
<1>5. ListsInv'
  BY <1>1, <1>3, <1>4, ListsStay DEF ListsInv
<1>6. TypeOK'
  <2>1. snap' \in [Procs -> Seq(Stored)]
    BY <1>1 DEF TypeOK
  <2>2. fails' \in 1..MaxFails
    BY <1>1, NotificationAssumption DEF TypeOK
  <2> QED
    BY <1>1, <1>3, <2>1, <2>2 DEF TypeOK
<1>7. IndexInv'
  BY <1>1, SavingKeepsIndex DEF PCs, Saving, Adding, Unstamped, Finding
<1>8. SaveInv'
  <2> SUFFICES ASSUME OverlapFree PROVE SaveInv'
    BY <1>1 DEF SaveInv, OverlapFree
  <2>1. \A q \in Procs : pc'[q] \notin {"open", "write"}
    BY <1>1, <1>2, OthersRest DEF GoesOn, Saving, TypeOK
  <2>2. fails' # 0
    BY <1>1 DEF TypeOK
  <2> QED
    BY <2>1, <2>2 DEF SaveInv
<1> QED
  BY <1>3, <1>5, <1>6, <1>7, <1>8

-----------------------------------------------------------------------------
(* Adding.                                                                  *)

\* A finite set of naturals has a least element.
LEMMA Least ==
    ASSUME NEW T \in SUBSET Nat, T # {}, IsFiniteSet(T)
    PROVE  \E i \in T : \A j \in T : i <= j
<1> DEFINE below(i) == {j \in T : j < i}
           n == Cardinality(T)
           f == [i \in T |-> Cardinality(below(i))]
<1>1. n \in Nat /\ n # 0
  BY FS_CardinalityType, FS_EmptySet
<1>2. \A i \in T : IsFiniteSet(below(i)) /\ Cardinality(below(i)) \in 0..(n - 1)
  <2> TAKE i \in T
  <2>1. below(i) \subseteq T /\ i \notin below(i)
    OBVIOUS
  <2> HIDE DEF below
  <2>2. /\ IsFiniteSet(below(i))
        /\ Cardinality(below(i)) <= n /\ Cardinality(below(i)) # n
    BY <2>1, FS_Subset
  <2>3. Cardinality(below(i)) \in Nat
    BY <2>2, FS_CardinalityType
  <2> QED
    BY <1>1, <2>2, <2>3
<1>3. ASSUME NEW i \in T, NEW j \in T, i < j
      PROVE  Cardinality(below(i)) # Cardinality(below(j))
  <2>1. below(i) \subseteq below(j) /\ i \in below(j) /\ i \notin below(i)
    <3>1. i \in Nat /\ j \in Nat /\ \A x \in T : x \in Nat
      OBVIOUS
    <3>2. \A x \in T : x < i => x < j
      BY <1>3, <3>1
    <3>3. ~ (i < i)
      BY <3>1
    <3> QED
      BY <1>3, <3>2, <3>3
  <2> HIDE DEF below
  <2> QED
    BY <1>2, <2>1, FS_Subset
<1> HIDE DEF below, n
<1>4. f \in Injection(T, 0..(n - 1))
  <2>1. \A i, j \in T : i # j => i < j \/ j < i
    OBVIOUS
  <2> QED
    BY <1>2, <1>3, <2>1 DEF Injection, IsInjective
<1>5. f \in Surjection(T, 0..(n - 1))
  <2> HIDE DEF f
  <2>1. IsFiniteSet(0..(n - 1)) /\ Cardinality(0..(n - 1)) = Cardinality(T)
    BY <1>1, Intervals DEF n
  <2> QED
    BY <1>4, <2>1, FS_Injection
<1>6. PICK i \in T : Cardinality(below(i)) = 0
  <2>1. 0 \in 0..(n - 1)
    BY <1>1
  <2> QED
    BY <1>5, <2>1 DEF Surjection
<1>7. below(i) = {}
  BY <1>2, <1>6, FS_EmptySet
<1> QED
  BY <1>7 DEF below

\* What a step of an adding process leaves of the indices and the file while
\* nothing has overlapped: the others have none, and only the one that looks
\* for a twin may stop without a save.
LEMMA OthersHaveNothing ==
    ASSUME IInv, OverlapFree, NEW p \in Procs, Busy(p), NEW label, pc' = [pc EXCEPT ![p] = label]
    PROVE  /\ pc'[p] = label
           /\ \A q \in Procs : q # p => pc'[q] \notin Adding \cup Saving
<1> QED
  BY OthersRest DEF IInv, TypeOK

LEMMA FindStep == ASSUME IInv, NEW p \in Workers, Find(p) PROVE IInv'
<1> USE DEF IInv
<1> DEFINE twins == {i \in DOMAIN store : store[i].tool = cand[p].tool}
           first == CHOOSE i \in twins : \A j \in twins : i <= j
<1>0. p \in Procs /\ p # Boot
  BY ProcsAre
<1>1. /\ pc[p] = "find"
      /\ UNCHANGED <<store, poisoned, file, cand, snap, counters>>
      /\ \/ poisoned /\ pc' = [pc EXCEPT ![p] = "idle"] /\ idx' = idx
         \/ ~poisoned /\ twins = {} /\ pc' = [pc EXCEPT ![p] = "stamp"] /\ idx' = idx
         \/ ~poisoned /\ twins # {} /\ pc' = [pc EXCEPT ![p] = "compare"]
              /\ idx' = [idx EXCEPT ![p] = first]
  BY DEF Find, At, Goto
<1>2. Len(store) \in Nat /\ Len(store) <= stamps /\ DOMAIN store = 1..Len(store)
  BY ListLength DEF ListsInv, OkList, TypeOK
<1>3. twins # {} => first \in twins
  <2> SUFFICES ASSUME twins # {} PROVE first \in twins
    OBVIOUS
  <2>1. twins \in SUBSET Nat /\ twins \subseteq 1..Len(store)
    BY <1>2
  <2> HIDE DEF twins
  <2>2. \E i \in twins : \A j \in twins : i <= j
    BY <1>2, <2>1, Intervals, FS_Subset, Least
  <2> QED
    BY <2>2
<1>4. twins # {} => first \in DOMAIN store /\ store[first].tool = cand[p].tool
  BY <1>3
<1>5. twins = {} => \A i \in DOMAIN store : store[i].tool # cand[p].tool
  OBVIOUS
<1> HIDE DEF twins, first
<1>6. PICK label \in {"idle", "stamp", "compare"} :
        /\ pc' = [pc EXCEPT ![p] = label]
        /\ label = "idle" => poisoned
        /\ label = "stamp" => twins = {}
        /\ label = "compare" => twins # {} /\ idx' = [idx EXCEPT ![p] = first]
        /\ label # "compare" => idx' = idx
  BY <1>1
<1>7. GoesOn(p, label)
  BY <1>0, <1>1, <1>6 DEF GoesOn, Busy, Adding, PCs, Unstamped, Finding, counters, TypeOK
<1>8. StageInv' /\ AloneInv' /\ Taken' \subseteq Taken /\ pc' \in [Procs -> PCs]
  BY <1>0, <1>7, Onwards
<1>9. ListsInv'
  BY <1>1, <1>8, ListsStay DEF ListsInv, counters
<1>10. TypeOK'
  <2>1. first \in 0..MaxErrors \/ twins = {}
    BY <1>2, <1>4, NotificationAssumption DEF TypeOK
  <2>2. idx' \in [Procs -> 0..MaxErrors]
    BY <1>6, <2>1 DEF TypeOK
  <2> QED
    BY <1>1, <1>8, <2>2 DEF TypeOK, counters
<1>11. IndexInv' /\ SaveInv'
  <2> SUFFICES ASSUME OverlapFree PROVE IndexInv' /\ SaveInv'
    BY <1>1 DEF IndexInv, SaveInv, OverlapFree, counters
  <2>1. pc'[p] = label /\ \A q \in Procs : q # p => pc'[q] \notin Adding \cup Saving
    BY <1>0, <1>6, <1>7, OthersHaveNothing DEF GoesOn
  <2>2. ~poisoned /\ label # "idle"
    BY <1>6 DEF IndexInv
  <2>3. IndexInv'
    BY <1>0, <1>1, <1>4, <1>5, <1>6, <2>1, <2>2
    DEF IndexInv, Adding, Unstamped, Finding, TypeOK
  <2>4. \A q \in Procs : pc'[q] \notin {"open", "write"}
    BY <1>6, <2>1, <2>2 DEF Saving
  <2>5. pc'[Boot] = pc[Boot] /\ \A q \in Workers : q # p => pc'[q] = pc[q]
    BY <1>0, <1>6, ProcsAre DEF TypeOK
  <2>6. SaveInv'
    BY <1>1, <2>1, <2>2, <2>4, <2>5, <1>0 DEF SaveInv, counters
  <2> QED
    BY <2>3, <2>6
<1> QED
  BY <1>8, <1>9, <1>10, <1>11

LEMMA CompareStep == ASSUME IInv, NEW p \in Workers, Compare(p) PROVE IInv'
<1> USE DEF IInv
<1>0. p \in Procs /\ p # Boot
  BY ProcsAre
<1>1. /\ pc[p] = "compare"
      /\ UNCHANGED <<store, poisoned, file, cand, idx, snap, counters>>
  BY DEF Compare, At
<1>2. PICK label \in {"idle", "replace"} :
        /\ pc' = [pc EXCEPT ![p] = label]
        /\ label = "replace" => ~store[idx[p]].sub /\ cand[p].sub
  BY DEF Compare, Goto
<1>3. GoesOn(p, label)
  BY <1>0, <1>1, <1>2 DEF GoesOn, Busy, Adding, PCs, Unstamped, Finding, counters
<1>4. StageInv' /\ AloneInv' /\ Taken' \subseteq Taken /\ pc' \in [Procs -> PCs]
  BY <1>0, <1>3, Onwards
<1>5. ListsInv'
  BY <1>1, <1>4, ListsStay DEF ListsInv, counters
<1>6. TypeOK'
  BY <1>1, <1>4 DEF TypeOK, counters
<1>7. IndexInv' /\ SaveInv'
  <2> SUFFICES ASSUME OverlapFree PROVE IndexInv' /\ SaveInv'
    BY <1>1 DEF IndexInv, SaveInv, OverlapFree, counters
  <2>1. pc'[p] = label /\ \A q \in Procs : q # p => pc'[q] \notin Adding \cup Saving
    BY <1>0, <1>2, <1>3, OthersHaveNothing DEF GoesOn
  <2>2. IndexInv'
    BY <1>0, <1>1, <1>2, <2>1 DEF IndexInv, Adding, Unstamped, Finding
  <2>3. \A q \in Procs : pc'[q] \notin {"open", "write"}
    BY <1>2, <2>1 DEF Saving
  <2>4. pc'[Boot] = pc[Boot] /\ \A q \in Workers : q # p => pc'[q] = pc[q]
    BY <1>0, <1>2, ProcsAre DEF TypeOK
  <2>5. SaveInv'
    BY <1>1, <2>1, <2>3, <2>4, <1>0 DEF SaveInv, counters
  <2> QED
    BY <2>2, <2>5
<1> QED
  BY <1>4, <1>5, <1>6, <1>7

\* What is left of a list with each tool use once, without the twin.
LEMMA TwinIsGone ==
    ASSUME NEW s, NEW n, NEW taken, NEW tidy, ListOk(s, n, taken, tidy, TRUE),
           NEW i \in DOMAIN s, s[i].tool # NoTool, NEW j \in DOMAIN RemoveAt(s, i)
    PROVE  RemoveAt(s, i)[j].tool # s[i].tool
<1>1. s \in Seq(Stored) /\ Len(s) \in Nat /\ i \in 1..Len(s) /\ DOMAIN s = 1..Len(s)
  BY DEF ListOk
<1> DEFINE t == RemoveAt(s, i)
<1>5. /\ t \in Seq(Stored) /\ Len(t) = Len(s) - 1
      /\ \A k \in 1..(Len(s) - 1) : t[k] = IF k < i THEN s[k] ELSE s[k + 1]
  BY <1>1, Removed
<1> HIDE DEF t
<1>2. /\ DOMAIN t = 1..(Len(s) - 1)
      /\ \A k \in 1..(Len(s) - 1) : t[k] = IF k < i THEN s[k] ELSE s[k + 1]
  BY <1>5
<1>3. PICK k \in DOMAIN s : k # i /\ t[j] = s[k]
  <2>1. j \in 1..(Len(s) - 1)
    BY <1>2 DEF t
  <2>2. CASE j < i
    BY <1>1, <1>2, <2>1, <2>2
  <2>3. CASE ~(j < i)
    <3>1. j + 1 \in DOMAIN s /\ j + 1 # i /\ t[j] = s[j + 1]
      BY <1>1, <1>2, <2>1, <2>3
    <3> QED
      BY <3>1
  <2> QED
    BY <2>2, <2>3
<1>4. s[k].tool # s[i].tool
  BY <1>3 DEF ListOk
<1> QED
  BY <1>3, <1>4 DEF t

LEMMA ReplaceStep == ASSUME IInv, NEW p \in Workers, Replace(p) PROVE IInv'
<1> USE DEF IInv
<1>0. p \in Procs /\ p # Boot
  BY ProcsAre
<1>1. /\ pc[p] = "replace"
      /\ UNCHANGED <<file, cand, idx, snap, counters>>
      /\ \/ /\ poisoned /\ pc' = [pc EXCEPT ![p] = "idle"]
            /\ UNCHANGED <<store, poisoned>>
         \/ /\ idx[p] \in DOMAIN store /\ pc' = [pc EXCEPT ![p] = "stamp"]
            /\ store' = RemoveAt(store, idx[p]) /\ UNCHANGED poisoned
         \/ /\ idx[p] \notin DOMAIN store /\ pc' = [pc EXCEPT ![p] = "dead"]
            /\ poisoned' = TRUE /\ UNCHANGED store
  BY DEF Replace, At, Goto
<1>2. PICK label \in {"idle", "stamp", "dead"} : pc' = [pc EXCEPT ![p] = label]
  BY <1>1
<1>3. GoesOn(p, label)
  BY <1>0, <1>1, <1>2 DEF GoesOn, Busy, Adding, PCs, Unstamped, Finding, counters
<1>4. StageInv' /\ AloneInv' /\ Taken' \subseteq Taken /\ pc' \in [Procs -> PCs]
  BY <1>0, <1>3, Onwards
<1>5. OkList(store')
  BY <1>1, RemoveOk DEF ListsInv, OkList
<1>6. ListsInv'
  BY <1>1, <1>4, <1>5, ListsStay DEF ListsInv, counters
<1>7. TypeOK'
  <2>1. store' \in Seq(Stored) /\ poisoned' \in BOOLEAN
    BY <1>1, <1>5, ListsAreTyped DEF TypeOK
  <2> QED
    BY <1>1, <1>4, <2>1 DEF TypeOK, counters
<1>8. IndexInv' /\ SaveInv'
  <2> SUFFICES ASSUME OverlapFree PROVE IndexInv' /\ SaveInv'
    BY <1>1 DEF IndexInv, SaveInv, OverlapFree, counters
  <2>1. /\ ~poisoned /\ idx[p] \in DOMAIN store
        /\ store[idx[p]].tool = cand[p].tool /\ cand[p].tool # NoTool
    BY <1>0, <1>1 DEF IndexInv, StageInv, Finding
  <2>2. /\ pc' = [pc EXCEPT ![p] = "stamp"] /\ ~poisoned'
        /\ store' = RemoveAt(store, idx[p])
    BY <1>1, <2>1
  <2>3. pc'[p] = "stamp" /\ \A q \in Procs : q # p => pc'[q] \notin Adding \cup Saving
    BY <1>0, <1>3, <2>2, OthersHaveNothing DEF GoesOn
  <2>4. ListOk(store, stamps, Taken, Tidy, TRUE)
    BY DEF ListsInv, OkList, ListOk
  <2>5. \A i \in DOMAIN store' : store'[i].tool # cand[p].tool
    BY <2>1, <2>2, <2>4, TwinIsGone
  <2>6. IndexInv'
    BY <1>0, <1>1, <2>2, <2>3, <2>5 DEF IndexInv, Adding, Unstamped, Finding
  <2>7. SaveInv'
    BY <2>3 DEF SaveInv, Saving
  <2> QED
    BY <2>6, <2>7
<1> QED
  BY <1>4, <1>6, <1>7, <1>8

LEMMA StampStep == ASSUME IInv, NEW p \in Workers, Stamp(p) PROVE IInv'
<1> USE DEF IInv
<1>0. p \in Procs /\ p # Boot
  BY ProcsAre
<1>1. /\ pc[p] = "stamp" /\ pc' = [pc EXCEPT ![p] = "insert"]
      /\ stamps' = stamps + 1 /\ idx' = [idx EXCEPT ![p] = stamps + 1]
      /\ UNCHANGED <<store, poisoned, file, cand, snap, errors, fails, crashes, overlapped>>
  BY DEF Stamp, At, Goto
<1>2. stamps \in Nat /\ errors \in Nat /\ errors <= MaxErrors /\ MaxErrors \in Nat
  BY NotificationAssumption DEF TypeOK
<1>3. stamps' + Cardinality({q \in Procs : pc'[q] \in Unstamped}) <= errors'
      /\ stamps + 1 <= errors
  <2> DEFINE S == {q \in Procs : pc[q] \in Unstamped}
             T == {q \in Procs : pc'[q] \in Unstamped}
  <2>1. p \in S /\ T = S \ {p} /\ S \subseteq Procs
    BY <1>0, <1>1 DEF TypeOK, Unstamped, Finding
  <2>2. stamps + Cardinality(S) <= errors
    BY DEF StageInv
  <2> HIDE DEF S, T
  <2>3. IsFiniteSet(S) /\ Cardinality(S) \in Nat
    BY <2>1, ProcsAre, FS_Subset, FS_CardinalityType
  <2>4. Cardinality(T) = Cardinality(S) - 1 /\ Cardinality(T) \in Nat
    BY <2>1, <2>3, FS_RemoveElement, FS_CardinalityType
  <2>5. stamps' + Cardinality(T) <= errors' /\ stamps + 1 <= errors
    BY <1>1, <1>2, <2>2, <2>3, <2>4
  <2> QED
    BY <2>5 DEF T
<1>4. /\ pc' \in [Procs -> PCs] /\ pc'[p] = "insert" /\ idx'[p] = stamps + 1
      /\ \A q \in Procs : q # p => pc'[q] = pc[q] /\ idx'[q] = idx[q]
  BY <1>0, <1>1 DEF TypeOK, PCs
<1>5. Taken' = Taken \cup {stamps + 1}
  BY <1>0, <1>1, <1>4 DEF Taken
<1>6. TypeOK'
  <2>1. idx' \in [Procs -> 0..MaxErrors]
    <3>1. stamps + 1 \in 0..MaxErrors
      BY <1>2, <1>3
    <3> QED
      BY <1>1, <3>1 DEF TypeOK
  <2>2. stamps' \in 0..errors'
    BY <1>1, <1>2, <1>3
  <2> QED
    BY <1>1, <1>4, <2>1, <2>2 DEF TypeOK
<1>7. StageInv'
  <2>1. \A q \in Procs : /\ pc'[q] \in Adding => q \in Adders /\ cand'[q] \in Errors
                         /\ pc'[q] \in Finding => cand'[q].tool # NoTool
                         /\ pc'[q] = "load" => q = Boot
                         /\ pc'[q] = "dead" => q # Boot
                         /\ pc'[q] = "insert" => idx'[q] \in 1..stamps'
    BY <1>0, <1>1, <1>2, <1>4 DEF StageInv, Adding, Unstamped, Finding
  <2>2. \A q, r \in Procs :
           pc'[q] = "insert" /\ pc'[r] = "insert" /\ idx'[q] = idx'[r] => q = r
    BY <1>2, <1>4 DEF StageInv
  <2> QED
    BY <1>3, <2>1, <2>2 DEF StageInv
<1>8. AloneInv'
  <2>1. \A q \in Procs : Busy(q)' => Busy(q)
    BY <1>1, <1>4 DEF Busy, Adding, Unstamped
  <2> QED
    BY <1>0, <1>1, <1>4, <2>1, ProcsAre DEF AloneInv, OverlapFree, Booting
<1>9. ASSUME NEW s, OkList(s) PROVE ListOk(s, stamps', Taken', Tidy', OverlapFree')
  <2>1. \A i \in DOMAIN s : s[i] \in Stored
    BY <1>9 DEF OkList, ListOk
  <2>2. \A i \in DOMAIN s : s[i].at \in Nat
    BY <2>1, NotificationAssumption, StoredFields
  <2>3. (Tidy' <=> Tidy) /\ (OverlapFree' <=> OverlapFree)
    BY <1>1 DEF Tidy, OverlapFree, OneAdder
  <2> QED
    BY <1>1, <1>2, <1>5, <1>9, <2>2, <2>3 DEF OkList, ListOk
<1>10. ListsInv'
  <2>1. ListOk(store, stamps', Taken', Tidy', OverlapFree')
    BY <1>9 DEF ListsInv
  <2>2. ListOk(file.list, stamps', Taken', Tidy', OverlapFree')
    BY <1>9 DEF ListsInv
  <2>3. \A q \in Procs : ListOk(snap[q], stamps', Taken', Tidy', OverlapFree')
    BY <1>9 DEF ListsInv
  <2> QED
    BY <1>1, <2>1, <2>2, <2>3 DEF ListsInv, OkList
<1>11. IndexInv' /\ SaveInv'
  <2> SUFFICES ASSUME OverlapFree PROVE IndexInv' /\ SaveInv'
    BY <1>1 DEF IndexInv, SaveInv, OverlapFree
  <2>1. pc'[p] = "insert" /\ \A q \in Procs : q # p => pc'[q] \notin Adding \cup Saving
    BY <1>0, <1>1, OthersHaveNothing DEF Busy, Adding, Unstamped
  <2>2. IndexInv'
    BY <1>0, <1>1, <2>1 DEF IndexInv, Adding, Unstamped, Finding
  <2>3. SaveInv'
    BY <2>1 DEF SaveInv, Saving
  <2> QED
    BY <2>2, <2>3
<1> QED
  BY <1>6, <1>7, <1>8, <1>10, <1>11

LEMMA InsertStep == ASSUME IInv, NEW p \in Workers, Insert(p) PROVE IInv'
<1> USE DEF IInv
<1>0. p \in Procs /\ p # Boot
  BY ProcsAre
<1>1. /\ pc[p] = "insert"
      /\ cand' = [cand EXCEPT ![p] = NoError] /\ idx' = [idx EXCEPT ![p] = 0]
      /\ UNCHANGED <<poisoned, file, snap, counters>>
      /\ \/ poisoned /\ pc' = [pc EXCEPT ![p] = "idle"] /\ store' = store
         \/ pc' = [pc EXCEPT ![p] = "prune"] /\ store' = <<StoredOf(p)>> \o store
  BY DEF Insert, At, Goto
<1>2. PICK label \in {"idle", "prune"} :
        /\ pc' = [pc EXCEPT ![p] = label]
        /\ label = "idle" => poisoned /\ store' = store
        /\ label = "prune" => store' = <<StoredOf(p)>> \o store
  BY <1>1
<1>3. /\ pc' \in [Procs -> PCs] /\ pc'[p] = label
      /\ \A q \in Procs : q # p => pc'[q] = pc[q] /\ idx'[q] = idx[q] /\ cand'[q] = cand[q]
  BY <1>0, <1>1, <1>2 DEF TypeOK, PCs
<1>4. /\ idx[p] \in 1..stamps /\ cand[p] \in Errors /\ p \in Adders
      /\ \A q \in Procs : pc[q] = "insert" /\ idx[q] = idx[p] => q = p
  BY <1>0, <1>1 DEF StageInv, Adding, Unstamped, Finding
<1>5. Taken' = Taken \ {idx[p]} /\ idx[p] \in Taken
  BY <1>0, <1>1, <1>2, <1>3, <1>4 DEF Taken
<1>6. stamps \in Nat /\ stamps <= MaxErrors /\ stamps' = stamps
  BY <1>1, NotificationAssumption DEF TypeOK, counters
<1>7. StoredOf(p) \in Stored /\ StoredOf(p).at = idx[p] /\ StoredOf(p).tool = cand[p].tool
  BY <1>4, <1>6, NotificationAssumption DEF StoredOf, Stored, Errors
<1>8. Tidy => Taken = {idx[p]}
  <2>1. ASSUME Tidy, NEW q \in Procs, pc[q] = "insert" PROVE q = p
    <3>1. CASE OneAdder
      BY <1>4, <2>1, <3>1 DEF StageInv, Adding, OneAdder
    <3>2. CASE OverlapFree
      BY <1>0, <1>1, <2>1, <3>2 DEF AloneInv, Busy, Adding
    <3> QED
      BY <2>1, <3>1, <3>2 DEF Tidy
  <2> QED
    BY <1>0, <1>1, <2>1 DEF Taken
<1>9. ListOk(store', stamps', Taken', Tidy', OverlapFree')
  <2>1. (Tidy' <=> Tidy) /\ (OverlapFree' <=> OverlapFree)
    BY <1>1 DEF Tidy, OverlapFree, OneAdder, counters
  <2>2. CASE label = "prune"
    <3>1. OverlapFree => cand[p].tool = NoTool
                         \/ \A i \in DOMAIN store : store[i].tool # cand[p].tool
      BY <1>0, <1>1 DEF IndexInv
    <3>2. ListOk(<<StoredOf(p)>> \o store, stamps, Taken \ {StoredOf(p).at}, Tidy, OverlapFree)
      BY <1>4, <1>5, <1>6, <1>7, <1>8, <3>1, InsertOk DEF ListsInv, OkList
    <3> QED
      BY <1>2, <1>5, <1>6, <1>7, <2>1, <2>2, <3>2 DEF ListOk
  <2>3. CASE label = "idle"
    <3>1. Taken' \subseteq Taken /\ (overlapped => overlapped')
      BY <1>1, <1>5 DEF counters
    <3> QED
      BY <1>2, <1>6, <2>3, <3>1, ListStays DEF ListsInv
  <2> QED
    BY <2>2, <2>3
<1>10. ListsInv'
  <2>1. Taken' \subseteq Taken /\ (overlapped => overlapped')
    BY <1>1, <1>5 DEF counters
  <2>2. ListOk(file.list, stamps', Taken', Tidy', OverlapFree')
    BY <1>6, <2>1, ListStays DEF ListsInv
  <2>3. \A q \in Procs : ListOk(snap[q], stamps', Taken', Tidy', OverlapFree')
    BY <1>6, <2>1, ListStays DEF ListsInv
  <2> QED
    BY <1>1, <1>9, <2>2, <2>3 DEF ListsInv, OkList
<1>11. TypeOK'
  <2>1. store' \in Seq(Stored)
    BY <1>9 DEF ListOk
  <2>2. cand' \in [Procs -> Errors \cup {NoError}]
    BY <1>1 DEF TypeOK
  <2>3. idx' \in [Procs -> 0..MaxErrors]
    <3>1. 0 \in 0..MaxErrors
      BY NotificationAssumption
    <3> QED
      BY <1>1, <3>1 DEF TypeOK
  <2> QED
    BY <1>1, <1>3, <2>1, <2>2, <2>3 DEF TypeOK, counters
<1>12. StageInv'
  <2>1. \A q \in Procs : /\ pc'[q] \in Adding => q \in Adders /\ cand'[q] \in Errors
                         /\ pc'[q] \in Finding => cand'[q].tool # NoTool
                         /\ pc'[q] = "load" => q = Boot
                         /\ pc'[q] = "dead" => q # Boot
                         /\ pc'[q] = "insert" => idx'[q] \in 1..stamps'
    BY <1>2, <1>3, <1>6 DEF StageInv, Adding, Unstamped, Finding
  <2>2. \A q, r \in Procs :
           pc'[q] = "insert" /\ pc'[r] = "insert" /\ idx'[q] = idx'[r] => q = r
    BY <1>2, <1>3 DEF StageInv
  <2>3. {q \in Procs : pc'[q] \in Unstamped} = {q \in Procs : pc[q] \in Unstamped}
    BY <1>0, <1>1, <1>2, <1>3 DEF Unstamped, Finding
  <2>4. errors' = errors
    BY <1>1 DEF counters
  <2> QED
    BY <1>6, <2>1, <2>2, <2>3, <2>4 DEF StageInv
<1>13. AloneInv'
  <2>1. \A q \in Procs : Busy(q)' => Busy(q)
    BY <1>1, <1>3 DEF Busy, Adding, Unstamped
  <2> QED
    BY <1>0, <1>1, <1>3, <2>1, ProcsAre DEF AloneInv, OverlapFree, Booting, counters
<1>14. IndexInv' /\ SaveInv'
  <2> SUFFICES ASSUME OverlapFree PROVE IndexInv' /\ SaveInv'
    BY <1>1 DEF IndexInv, SaveInv, OverlapFree, counters
  <2>1. pc'[p] = label /\ \A q \in Procs : q # p => pc'[q] \notin Adding \cup Saving
    BY <1>0, <1>1, <1>2, OthersHaveNothing DEF Busy, Adding
  <2>2. ~poisoned /\ label = "prune"
    BY <1>2 DEF IndexInv
  <2>3. IndexInv'
    BY <1>1, <2>1, <2>2 DEF IndexInv, Adding, Unstamped, Finding
  <2>4. SaveInv'
    BY <2>1, <2>2 DEF SaveInv, Saving
  <2> QED
    BY <2>3, <2>4
<1> QED
  BY <1>10, <1>11, <1>12, <1>13, <1>14

-----------------------------------------------------------------------------
(* Beginnings.                                                              *)

\* A request begins when initialize() is not at work, and if nothing overlaps
\* even then it is alone.
LEMMA Begun ==
    ASSUME IInv, NEW p \in Workers, Ready(p), Begins, NEW label \in PCs \ {"load"},
           pc' = [pc EXCEPT ![p] = label]
    PROVE  /\ AloneInv' /\ pc' \in [Procs -> PCs] /\ overlapped' \in BOOLEAN
           /\ OverlapFree' => OverlapFree
           /\ pc[p] = "idle" /\ pc'[p] = label
           /\ \A q \in Procs : q # p => pc'[q] = pc[q]
           /\ OverlapFree' => \A q \in Procs : q # p => pc[q] \notin Adding \cup Saving
<1> USE DEF IInv
<1>1. p \in Procs /\ p # Boot /\ Boot \in Procs
  BY ProcsAre
<1>2. /\ pc[p] = "idle" /\ pc'[p] = label /\ pc' \in [Procs -> PCs]
      /\ \A q \in Procs : q # p => pc'[q] = pc[q]
  BY <1>1 DEF Ready, At, TypeOK
<1>3. ~Booting
  BY DEF Ready
<1>4. overlapped' \in BOOLEAN /\ (OverlapFree' => OverlapFree)
  BY DEF Begins, OverlapFree, TypeOK
<1>5. OverlapFree' => \A q \in Procs : q # p => pc[q] \notin Adding \cup Saving
  <2> SUFFICES ASSUME OverlapFree', NEW q \in Procs PROVE pc[q] \notin Adding \cup Saving
    OBVIOUS
  <2>1. CASE q = Boot
    BY <1>3, <2>1 DEF Booting, Adding, Unstamped, Finding, Saving
  <2>2. CASE q # Boot
    BY <2>2, ProcsAre DEF Begins, OverlapFree, Adding, Unstamped, Finding, Saving
  <2> QED
    BY <2>1, <2>2
<1>6. AloneInv'
  <2>1. ~Booting'
    BY <1>1, <1>2, <1>3 DEF Booting
  <2>2. OverlapFree' => \A q \in Procs : Busy(q)' => q = p
    BY <1>2, <1>5 DEF Busy
  <2> QED
    BY <2>1, <2>2 DEF AloneInv
<1> QED
  BY <1>2, <1>4, <1>5, <1>6

LEMMA DetectStep ==
    ASSUME IInv, NEW p \in Workers, NEW tool \in Tools \cup {NoTool}, NEW sub \in BOOLEAN,
           Detect(p, tool, sub)
    PROVE  IInv'
<1> USE DEF IInv
<1> DEFINE label == IF tool = NoTool THEN "stamp" ELSE "find"
<1>0. p \in Procs /\ p # Boot
  BY ProcsAre
<1>1. /\ p \in Adders /\ errors < MaxErrors /\ errors' = errors + 1
      /\ cand' = [cand EXCEPT ![p] = [id |-> errors + 1, tool |-> tool, sub |-> sub]]
      /\ pc' = [pc EXCEPT ![p] = label]
      /\ Ready(p) /\ Begins
      /\ UNCHANGED <<store, poisoned, file, idx, snap, stamps, fails, crashes>>
  BY DEF Detect, Goto
<1>2. label \in PCs \ {"load"} /\ label \in {"stamp", "find"} /\ (label = "find" => tool # NoTool)
      /\ (label = "stamp" => tool = NoTool)
  BY DEF PCs
<1> HIDE DEF label
<1>3. /\ AloneInv' /\ pc' \in [Procs -> PCs] /\ overlapped' \in BOOLEAN
      /\ OverlapFree' => OverlapFree
      /\ pc[p] = "idle" /\ pc'[p] = label
      /\ \A q \in Procs : q # p => pc'[q] = pc[q]
      /\ OverlapFree' => \A q \in Procs : q # p => pc[q] \notin Adding \cup Saving
  BY <1>1, <1>2, Begun
<1>4. errors \in Nat /\ stamps \in Nat /\ errors + 1 \in 1..MaxErrors
  BY <1>1, NotificationAssumption DEF TypeOK
<1>5. /\ cand'[p] = [id |-> errors + 1, tool |-> tool, sub |-> sub]
      /\ cand'[p] \in Errors /\ cand'[p].tool = tool
      /\ \A q \in Procs : q # p => cand'[q] = cand[q]
  BY <1>0, <1>1, <1>4 DEF TypeOK, Errors
<1>6. Taken' \subseteq Taken
  BY <1>0, <1>1, <1>2, <1>3 DEF Taken
<1>7. ListsInv'
  BY <1>1, <1>3, <1>6, ListsStay DEF ListsInv, OverlapFree
<1>8. TypeOK'
  <2>1. cand' \in [Procs -> Errors \cup {NoError}]
    BY <1>1, <1>4 DEF TypeOK, Errors
  <2>2. errors' \in 0..MaxErrors /\ stamps' \in 0..errors'
    BY <1>1, <1>4 DEF TypeOK
  <2> QED
    BY <1>1, <1>3, <2>1, <2>2 DEF TypeOK
<1>9. StageInv'
  <2>1. \A q \in Procs : /\ pc'[q] \in Adding => q \in Adders /\ cand'[q] \in Errors
                         /\ pc'[q] \in Finding => cand'[q].tool # NoTool
                         /\ pc'[q] = "load" => q = Boot
                         /\ pc'[q] = "dead" => q # Boot
                         /\ pc'[q] = "insert" => idx'[q] \in 1..stamps'
    BY <1>1, <1>2, <1>3, <1>5 DEF StageInv, Adding, Unstamped, Finding
  <2>2. \A q, r \in Procs :
           pc'[q] = "insert" /\ pc'[r] = "insert" /\ idx'[q] = idx'[r] => q = r
    BY <1>1, <1>2, <1>3 DEF StageInv
  <2>3. stamps' + Cardinality({q \in Procs : pc'[q] \in Unstamped}) <= errors'
    <3> DEFINE S == {q \in Procs : pc[q] \in Unstamped}
               T == {q \in Procs : pc'[q] \in Unstamped}
    <3>1. p \notin S /\ T = S \cup {p} /\ S \subseteq Procs
      BY <1>0, <1>2, <1>3 DEF Unstamped, Finding
    <3>2. stamps + Cardinality(S) <= errors
      BY DEF StageInv
    <3> HIDE DEF S, T
    <3>3. IsFiniteSet(S) /\ Cardinality(S) \in Nat
      BY <3>1, ProcsAre, FS_Subset, FS_CardinalityType
    <3>4. Cardinality(T) = Cardinality(S) + 1
      BY <3>1, <3>3, FS_AddElement
    <3>5. stamps' + Cardinality(T) <= errors'
      BY <1>1, <1>4, <3>2, <3>3, <3>4
    <3> QED
      BY <3>5 DEF T
  <2> QED
    BY <2>1, <2>2, <2>3 DEF StageInv
<1>10. IndexInv' /\ SaveInv'
  <2> SUFFICES ASSUME OverlapFree' PROVE IndexInv' /\ SaveInv'
    BY DEF IndexInv, SaveInv
  <2>1. OverlapFree /\ \A q \in Procs : q # p => pc'[q] \notin Adding \cup Saving
    BY <1>3
  <2>2. IndexInv'
    BY <1>1, <1>2, <1>3, <1>5, <2>1 DEF IndexInv, Adding, Unstamped, Finding
  <2>3. \A q \in Procs : pc'[q] \notin {"open", "write"}
    BY <1>2, <1>3, <2>1 DEF Saving
  <2>4. pc'[Boot] = pc[Boot] /\ \A q \in Workers : q # p => pc'[q] = pc[q]
    BY <1>0, <1>3, ProcsAre
  <2>5. SaveInv'
    BY <1>1, <1>2, <1>3, <2>1, <2>3, <2>4 DEF SaveInv
  <2> QED
    BY <2>2, <2>5
<1> QED
  BY <1>3, <1>7, <1>8, <1>9, <1>10

LEMMA EditStepInv ==
    ASSUME IInv, NEW p \in Workers, NEW list, OkList(list), Edit(p, list)
    PROVE  IInv'
<1> USE DEF IInv
<1>0. p \in Procs /\ p # Boot
  BY ProcsAre
<1>1. /\ Ready(p) /\ Begins /\ ~poisoned /\ store' = list
      /\ pc' = [pc EXCEPT ![p] = "snapshot"]
      /\ UNCHANGED <<poisoned, file, cand, idx, snap, errors, stamps, fails, crashes>>
  BY DEF Edit, Goto
<1>2. "snapshot" \in PCs \ {"load"}
  BY DEF PCs
<1>3. /\ AloneInv' /\ pc' \in [Procs -> PCs] /\ overlapped' \in BOOLEAN
      /\ OverlapFree' => OverlapFree
      /\ pc[p] = "idle" /\ pc'[p] = "snapshot"
      /\ \A q \in Procs : q # p => pc'[q] = pc[q]
      /\ OverlapFree' => \A q \in Procs : q # p => pc[q] \notin Adding \cup Saving
  BY <1>1, <1>2, Begun
<1>4. Taken' \subseteq Taken
  BY <1>1, <1>3 DEF Taken
<1>5. ListsInv'
  BY <1>1, <1>3, <1>4, ListsStay DEF ListsInv, OverlapFree
<1>6. TypeOK'
  BY <1>1, <1>3, ListsAreTyped DEF TypeOK
<1>7. StageInv'
  <2>1. \A q \in Procs : /\ pc'[q] \in Adding => q \in Adders /\ cand'[q] \in Errors
                         /\ pc'[q] \in Finding => cand'[q].tool # NoTool
                         /\ pc'[q] = "load" => q = Boot
                         /\ pc'[q] = "dead" => q # Boot
                         /\ pc'[q] = "insert" => idx'[q] \in 1..stamps'
    BY <1>1, <1>3 DEF StageInv, Adding, Unstamped, Finding
  <2>2. \A q, r \in Procs :
           pc'[q] = "insert" /\ pc'[r] = "insert" /\ idx'[q] = idx'[r] => q = r
    BY <1>1, <1>3 DEF StageInv
  <2>3. {q \in Procs : pc'[q] \in Unstamped} = {q \in Procs : pc[q] \in Unstamped}
    BY <1>0, <1>3 DEF Unstamped, Finding
  <2> QED
    BY <1>1, <2>1, <2>2, <2>3 DEF StageInv
<1>8. IndexInv' /\ SaveInv'
  <2> SUFFICES ASSUME OverlapFree' PROVE IndexInv' /\ SaveInv'
    BY DEF IndexInv, SaveInv
  <2>1. \A q \in Procs : /\ pc'[q] \notin Adding
                         /\ pc'[q] \notin {"open", "write"}
    BY <1>3 DEF Adding, Unstamped, Finding, Saving
  <2>2. IndexInv'
    BY <1>1, <2>1 DEF IndexInv, Adding, Unstamped, Finding
  <2>3. SaveInv'
    BY <1>3, <2>1 DEF SaveInv
  <2> QED
    BY <2>2, <2>3
<1> QED
  BY <1>3, <1>5, <1>6, <1>7, <1>8

LEMMA CommandStep == ASSUME IInv, NEW p \in Workers, Command(p) PROVE IInv'
<1> USE DEF IInv
<1>1. ASSUME NEW i \in 1..MaxErrors, MarkRead(p, i) PROVE IInv'
  <2> DEFINE list == [store EXCEPT ![i].read = TRUE]
  <2>1. Edit(p, list)
    BY <1>1 DEF MarkRead
  <2>2. /\ DOMAIN list = DOMAIN store /\ list = [j \in DOMAIN store |-> list[j]]
        /\ \A j \in DOMAIN store : list[j] = store[j] \/ list[j] = [store[j] EXCEPT !.read = TRUE]
    OBVIOUS
  <2> HIDE DEF list
  <2>3. OkList(list)
    BY <2>2, MarkOk DEF ListsInv, OkList
  <2> QED
    BY <2>1, <2>3, EditStepInv
<1>2. CASE MarkAllRead(p)
  <2> DEFINE list == [j \in DOMAIN store |-> [store[j] EXCEPT !.read = TRUE]]
  <2>1. Edit(p, list)
    BY <1>2 DEF MarkAllRead
  <2>2. /\ DOMAIN list = DOMAIN store /\ list = [j \in DOMAIN store |-> list[j]]
        /\ \A j \in DOMAIN store : list[j] = store[j] \/ list[j] = [store[j] EXCEPT !.read = TRUE]
    OBVIOUS
  <2> HIDE DEF list
  <2>3. OkList(list)
    BY <2>2, MarkOk DEF ListsInv, OkList
  <2> QED
    BY <2>1, <2>3, EditStepInv
<1>3. CASE ClearAll(p)
  BY <1>3, EmptyIsOk, EditStepInv DEF ClearAll
<1>4. ASSUME NEW i \in 1..MaxErrors, Delete(p, i) PROVE IInv'
  <2>1. OkList(RemoveAt(store, i))
    BY <1>4, RemoveOk DEF Delete, ListsInv, OkList
  <2> QED
    BY <1>4, <2>1, EditStepInv DEF Delete
<1> QED
  BY <1>1, <1>2, <1>3, <1>4 DEF Command

-----------------------------------------------------------------------------
(* initialize() and the end of the application.                             *)

LEMMA BootStep == ASSUME IInv, Load \/ LoadFails PROVE IInv'
<1> USE DEF IInv
<1>1. /\ pc[Boot] = "load" /\ \A p \in Workers : pc[p] \in {"idle", "dead"}
      /\ pc' = [pc EXCEPT ![Boot] = "prune"]
      /\ store' \in {store, file.list}
      /\ fails' = fails \/ (fails' = fails + 1 /\ fails < MaxFails)
      /\ UNCHANGED <<poisoned, file, cand, idx, snap, errors, stamps, crashes, overlapped>>
  <2>1. CASE Load
    BY <2>1 DEF Load, At, Goto, counters
  <2>2. CASE LoadFails
    BY <2>2 DEF LoadFails, At, Goto
  <2> QED
    BY <2>1, <2>2
<1>2. /\ pc' \in [Procs -> PCs] /\ pc'[Boot] = "prune"
      /\ \A p \in Workers : pc'[p] = pc[p]
      /\ \A p \in Procs : p # Boot => pc'[p] \in {"idle", "dead"}
  BY <1>1, ProcsAre DEF TypeOK, PCs
<1>3. \A p \in Procs : pc'[p] \notin Adding /\ pc'[p] \notin {"open", "write", "load"}
  BY <1>2 DEF Adding, Unstamped, Finding
<1>4. Taken' \subseteq Taken
  BY <1>3 DEF Taken, Adding
<1>5. ListsInv'
  BY <1>1, <1>4, ListsStay DEF ListsInv
<1>6. TypeOK'
  <2>1. store' \in Seq(Stored)
    BY <1>1 DEF TypeOK
  <2>2. fails' \in 0..MaxFails
    BY <1>1, NotificationAssumption DEF TypeOK
  <2> QED
    BY <1>1, <1>2, <2>1, <2>2 DEF TypeOK
<1>7. StageInv'
  <2>1. {q \in Procs : pc'[q] \in Unstamped} = {} /\ stamps' <= errors' /\ stamps' \in Nat
    BY <1>1, <1>3 DEF Adding, TypeOK
  <2>2. Cardinality({q \in Procs : pc'[q] \in Unstamped}) = 0
    BY <2>1, FS_EmptySet
  <2>3. stamps' + Cardinality({q \in Procs : pc'[q] \in Unstamped}) <= errors'
    BY <1>1, <2>1, <2>2 DEF TypeOK
  <2> QED
    BY <1>2, <1>3, <2>3 DEF StageInv, Adding, Unstamped
<1>8. AloneInv'
  <2>1. \A p \in Procs : Busy(p)' => p = Boot
    BY <1>2 DEF Busy, Adding, Unstamped, Finding, Saving
  <2> QED
    BY <2>1, ProcsAre DEF AloneInv
<1>9. IndexInv'
  BY <1>1, <1>3 DEF IndexInv, OverlapFree, Adding, Unstamped, Finding
<1>10. SaveInv'
  BY <1>2, <1>3 DEF SaveInv
<1> QED
  BY <1>5, <1>6, <1>7, <1>8, <1>9, <1>10

\* At a start, the list and the copies are empty, and nobody is at work.
Starting ==
    /\ OkList(file.list) /\ store = <<>> /\ poisoned = FALSE
    /\ file.valid \in BOOLEAN /\ file.list \in Seq(Stored) /\ file.size \in Nat
    /\ pc = [p \in Procs |-> IF p = Boot THEN "load" ELSE "idle"]
    /\ cand = [p \in Procs |-> NoError]
    /\ idx = [p \in Procs |-> 0]
    /\ snap = [p \in Procs |-> <<>>]
    /\ errors \in 0..MaxErrors /\ stamps \in 0..errors /\ fails \in 0..MaxFails
    /\ crashes \in 0..MaxCrashes /\ overlapped \in BOOLEAN

LEMMA StartOk == Starting => IInv
<1> SUFFICES ASSUME Starting PROVE IInv
  OBVIOUS
<1> USE DEF Starting
<1>1. /\ \A p \in Procs : pc[p] \in {"load", "idle"}
      /\ \A p \in Procs : pc[p] = "load" => p = Boot
  OBVIOUS
<1>2. TypeOK
  <2>1. pc \in [Procs -> PCs] /\ snap \in [Procs -> Seq(Stored)]
    BY DEF PCs
  <2>2. idx \in [Procs -> 0..MaxErrors]
    BY NotificationAssumption
  <2>3. cand \in [Procs -> Errors \cup {NoError}]
    OBVIOUS
  <2>4. store \in Seq(Stored)
    OBVIOUS
  <2>5. poisoned \in BOOLEAN
    OBVIOUS
  <2> QED
    BY <2>1, <2>2, <2>3, <2>4, <2>5 DEF TypeOK
<1>3. ListsInv
  BY EmptyIsOk DEF ListsInv
<1>4. StageInv
  <2>1. {q \in Procs : pc[q] \in Unstamped} = {}
    BY <1>1 DEF Unstamped, Finding
  <2>2. Cardinality({q \in Procs : pc[q] \in Unstamped}) = 0
    BY <2>1, FS_EmptySet
  <2>3. stamps + Cardinality({q \in Procs : pc[q] \in Unstamped}) <= errors
    BY <2>2, NotificationAssumption
  <2> QED
    BY <1>1, <2>3 DEF StageInv, Adding, Unstamped, Finding
<1>5. \A p \in Procs : ~Busy(p)
  BY <1>1 DEF Busy, Adding, Unstamped, Finding, Saving
<1>6. AloneInv /\ IndexInv
  BY <1>1, <1>5, ProcsAre DEF AloneInv, IndexInv
<1>7. SaveInv
  BY <1>1, ProcsAre DEF SaveInv
<1> QED
  BY <1>2, <1>3, <1>4, <1>6, <1>7 DEF IInv

LEMMA CrashStep == ASSUME IInv, Crash PROVE IInv'
<1> USE DEF IInv
<1>1. /\ crashes < MaxCrashes /\ crashes' = crashes + 1
      /\ store' = <<>> /\ poisoned' = FALSE
      /\ pc' = [p \in Procs |-> IF p = Boot THEN "load" ELSE "idle"]
      /\ cand' = [p \in Procs |-> NoError] /\ idx' = [p \in Procs |-> 0]
      /\ snap' = [p \in Procs |-> <<>>]
      /\ UNCHANGED <<file, errors, stamps, fails, overlapped>>
  BY DEF Crash
<1>2. Taken' \subseteq Taken
  BY <1>1 DEF Taken
<1>3. OkList(file.list)'
  BY <1>1, <1>2, ListStays DEF ListsInv, OkList
<1>4. crashes' \in 0..MaxCrashes
  BY <1>1, NotificationAssumption DEF TypeOK
<1>5. /\ (file.valid \in BOOLEAN)' /\ (file.list \in Seq(Stored))' /\ (file.size \in Nat)'
      /\ (errors \in 0..MaxErrors)' /\ (stamps \in 0..errors)' /\ (fails \in 0..MaxFails)'
      /\ (overlapped \in BOOLEAN)'
  BY <1>1 DEF TypeOK
<1>6. Starting'
  BY <1>1, <1>3, <1>4, <1>5 DEF Starting
<1>7. Starting' => IInv'
  BY StartOk, PTL
<1> QED
  BY <1>6, <1>7

LEMMA InitIInv == Init => IInv
<1> SUFFICES ASSUME Init PROVE IInv
  OBVIOUS
<1>1. file.valid \in BOOLEAN /\ file.list = <<>> /\ file.size = 0
  BY DEF Init, NoFile
<1>2. /\ errors \in 0..MaxErrors /\ stamps \in 0..errors /\ fails \in 0..MaxFails
      /\ crashes \in 0..MaxCrashes
  BY NotificationAssumption DEF Init
<1>3. OkList(file.list) /\ file.list \in Seq(Stored) /\ file.size \in Nat
  BY <1>1, EmptyIsOk
<1>4. Starting
  BY <1>1, <1>2, <1>3 DEF Init, Starting
<1> QED
  BY <1>4, StartOk

LEMMA Inductive == IInv /\ [Next]_vars => IInv'
<1> SUFFICES ASSUME IInv, [Next]_vars PROVE IInv'
  OBVIOUS
<1>1. ASSUME NEW p \in Workers, Add(p) PROVE IInv'
  BY <1>1, DetectStep, FindStep, CompareStep, ReplaceStep, StampStep, InsertStep DEF Add
<1>2. ASSUME NEW p \in Procs, Prune(p) \/ Save(p) PROVE IInv'
  BY <1>2, PruneStep, SnapshotStep, OpenStep, WriteStep, SaveFailsStep DEF Save
<1>3. CASE UNCHANGED vars
  <2>1. Taken' = Taken
    BY <1>3 DEF vars, Taken
  <2> QED
    BY <1>3, <2>1 DEF vars, counters, IInv, TypeOK, ListsInv, OkList, StageInv, AloneInv,
       IndexInv, SaveInv, Tidy, OverlapFree, OneAdder, Busy, Booting
<1> QED
  BY <1>1, <1>2, <1>3, CommandStep, BootStep, CrashStep DEF Next

LEMMA Invariance == Spec => []IInv
<1> QED
  BY InitIInv, Inductive, PTL DEF Spec

\* Every variable has its type, each tool use is in the list once as long as no
\* two requests overlapped, and it is newest first then or with one adder
\* (add_error, prune_notifications, load_notifications).
THEOREM HistorySound == Spec => []HistoryIsSound
<1>1. IInv => HistoryIsSound
  BY DEF IInv, ListsInv, OkList, ListOk, HistoryIsSound, NoDuplicateTool, NewestFirst,
     Tidy, OverlapFree
<1> QED
  BY <1>1, Invariance, PTL

\* What add_error removes is the version without a subagent of what it adds,
\* unless requests have overlapped.
THEOREM TwinIsReplaced == Spec => []ReplacesTwin
<1>1. IInv => ReplacesTwin
  BY ProcsAre DEF IInv, IndexInv, ReplacesTwin, OverlapFree, At
<1> QED
  BY <1>1, Invariance, PTL

\* At rest the file is the list, if every access succeeded and no two requests
\* overlapped, over any number of requests and restarts.
THEOREM SavedWhenQuiet == Spec => []SavedAtRest
<1>1. IInv => SavedAtRest
  <2> SUFFICES ASSUME IInv, AtRest, fails = 0, ~overlapped PROVE file = FileOf(store)
    BY DEF SavedAtRest
  <2>1. pc[Boot] = "idle"
    <3>1. pc[Boot] \in {"idle", "dead"}
      BY ProcsAre DEF AtRest
    <3>2. pc[Boot] # "dead"
      BY ProcsAre DEF IInv, StageInv
    <3> QED
      BY <3>1, <3>2
  <2> QED
    BY <2>1, ProcsAre DEF AtRest, IInv, SaveInv, OverlapFree
<1> QED
  BY <1>1, Invariance, PTL
=============================================================================
