-------------------------- MODULE NotificationStore --------------------------
(***************************************************************************)
(* The notification history of NotificationManager: a list in memory,      *)
(* newest first, behind a std RwLock, and a JSON file that every change    *)
(* rewrites.                                                               *)
(*                                                                         *)
(* The methods take &self, so the tasks that add errors (the error         *)
(* pipeline and its catch-up scan) and the commands that edit the list run *)
(* at the same time: only the single accesses to the list are atomic, and  *)
(* the file is truncated and written without any lock.  initialize() takes *)
(* &mut self and so excludes the others, but not those that came before    *)
(* it.                                                                     *)
(***************************************************************************)
EXTENDS Naturals, FiniteSets, Sequences, SequencesExt

CONSTANTS Workers,     \* the tasks and commands in flight at a time
          Adders,      \* those that may add errors
          Tools,       \* tool use ids
          NoTool,      \* an error without a tool use id
          MaxNotifications,  \* MAX_NOTIFICATIONS
          MaxErrors,   \* bound: errors ever detected
          MaxFails,    \* bound: file accesses that fail
          MaxCrashes   \* bound: times the application is killed

Boot == "boot"
Procs == Workers \cup {Boot}

ASSUME NotificationAssumption ==
    /\ IsFiniteSet(Workers)
    /\ Adders \subseteq Workers
    /\ Boot \notin Workers
    /\ NoTool \notin Tools
    /\ MaxNotifications \in Nat \ {0}
    /\ MaxErrors \in Nat
    /\ MaxFails \in Nat
    /\ MaxCrashes \in Nat

VARIABLES store,      \* the list in memory
          poisoned,   \* a writer panicked: every later lock() is an Err
          file,       \* the JSON file
          pc,         \* the next step of every worker and of initialize()
          cand,       \* the error a worker adds
          idx,        \* the index its look-up found
          snap,       \* the copy of the list it is saving
          errors,     \* errors detected so far, the ids
          stamps,     \* timestamps handed out so far
          fails,
          crashes,
          overlapped  \* a request has begun while another was under way

counters == <<errors, stamps, fails, crashes, overlapped>>
vars == <<store, poisoned, file, pc, cand, idx, snap, counters>>

-----------------------------------------------------------------------------
Errors == [id : 1..MaxErrors, tool : Tools \cup {NoTool}, sub : BOOLEAN]
Stored == [id : 1..MaxErrors, tool : Tools \cup {NoTool}, sub : BOOLEAN,
           read : BOOLEAN, at : 1..MaxErrors]
NoError == [id |-> 0, tool |-> NoTool, sub |-> FALSE]

\* The file: the list it parses to, whether it parses at all, and its length
\* (a list is one longer than its entries: its brackets).
FileOf(list) == [valid |-> TRUE, list |-> list, size |-> Len(list) + 1]
Garbage(size) == [valid |-> FALSE, list |-> <<>>, size |-> size]
NoFile == [valid |-> TRUE, list |-> <<>>, size |-> 0]

At(p, label) == pc[p] = label
Goto(p, label) == pc' = [pc EXCEPT ![p] = label]

\* initialize() holds the manager's own lock from its first step to its last.
Booting == pc[Boot] \notin {"load", "idle"}
Ready(p) == p \in Workers /\ At(p, "idle") /\ ~Booting

\* A request begins.
Begins == overlapped' = (overlapped \/ \E q \in Workers : pc[q] \notin {"idle", "dead"})

\* Sorting by created_at, newest first, keeps the order of equal stamps.
Rank(s, i) ==
    Cardinality({j \in DOMAIN s : s[j].at > s[i].at \/ (s[j].at = s[i].at /\ j < i)})
Newest(s) == [k \in 1..MaxNotifications |-> s[CHOOSE i \in DOMAIN s : Rank(s, i) = k - 1]]

Pruned(s) == IF Len(s) > MaxNotifications THEN Newest(s) ELSE s

-----------------------------------------------------------------------------
Init ==
    /\ store = <<>>
    /\ poisoned = FALSE
    /\ file = NoFile
    /\ pc = [p \in Procs |-> IF p = Boot THEN "load" ELSE "idle"]
    /\ cand = [p \in Procs |-> NoError]
    /\ idx = [p \in Procs |-> 0]
    /\ snap = [p \in Procs |-> <<>>]
    /\ errors = 0
    /\ stamps = 0
    /\ fails = 0
    /\ crashes = 0
    /\ overlapped = FALSE

-----------------------------------------------------------------------------
(* add_error.                                                               *)

Detect(p, tool, sub) ==
    /\ p \in Adders
    /\ Ready(p)
    /\ errors < MaxErrors
    /\ tool = NoTool => ~sub
    /\ errors' = errors + 1
    /\ cand' = [cand EXCEPT ![p] = [id |-> errors + 1, tool |-> tool, sub |-> sub]]
    /\ Goto(p, IF tool = NoTool THEN "stamp" ELSE "find")
    /\ Begins
    /\ UNCHANGED <<store, poisoned, file, idx, snap, stamps, fails, crashes>>

\* Mutant: the look-up compares the ids of the errors.
FindById(p) ==
    LET twins == {i \in DOMAIN store : store[i].id = cand[p].id} IN
    /\ At(p, "find")
    /\ IF poisoned
       THEN Goto(p, "idle") /\ UNCHANGED idx
       ELSE IF twins = {}
       THEN Goto(p, "stamp") /\ UNCHANGED idx
       ELSE /\ Goto(p, "compare")
            /\ idx' = [idx EXCEPT ![p] = CHOOSE i \in twins : \A j \in twins : i <= j]
    /\ UNCHANGED <<store, poisoned, file, cand, snap, counters>>

\* The index of the entry with the same tool use id, under the read lock.
Find(p) ==
    LET twins == {i \in DOMAIN store : store[i].tool = cand[p].tool} IN
    /\ At(p, "find")
    /\ IF poisoned
       THEN Goto(p, "idle") /\ UNCHANGED idx
       ELSE IF twins = {}
       THEN Goto(p, "stamp") /\ UNCHANGED idx
       ELSE /\ Goto(p, "compare")
            /\ idx' = [idx EXCEPT ![p] = CHOOSE i \in twins : \A j \in twins : i <= j]
    /\ UNCHANGED <<store, poisoned, file, cand, snap, counters>>

\* Mutant: an error without a subagent replaces its twin, too.
CompareAlwaysReplaces(p) ==
    /\ At(p, "compare")
    /\ Goto(p, IF ~poisoned /\ idx[p] \in DOMAIN store THEN "replace" ELSE "idle")
    /\ UNCHANGED <<store, poisoned, file, cand, idx, snap, counters>>

\* Under the read lock again: is what is at that index now the version
\* without a subagent, and the new one with?
Compare(p) ==
    /\ At(p, "compare")
    /\ Goto(p, IF /\ ~poisoned
                  /\ idx[p] \in DOMAIN store
                  /\ ~store[idx[p]].sub
                  /\ cand[p].sub
               THEN "replace" ELSE "idle")
    /\ UNCHANGED <<store, poisoned, file, cand, idx, snap, counters>>

\* Under the write lock: Vec::remove of the index, which panics past the end.
Replace(p) ==
    /\ At(p, "replace")
    /\ IF poisoned
       THEN Goto(p, "idle") /\ UNCHANGED <<store, poisoned>>
       ELSE IF idx[p] \in DOMAIN store
       THEN /\ Goto(p, "stamp")
            /\ store' = RemoveAt(store, idx[p])
            /\ UNCHANGED poisoned
       ELSE /\ Goto(p, "dead")
            /\ poisoned' = TRUE
            /\ UNCHANGED store
    /\ UNCHANGED <<file, cand, idx, snap, counters>>

\* created_at, taken before the lock; the clock never stands still here.
Stamp(p) ==
    /\ At(p, "stamp")
    /\ Goto(p, "insert")
    /\ stamps' = stamps + 1
    /\ idx' = [idx EXCEPT ![p] = stamps + 1]
    /\ UNCHANGED <<store, poisoned, file, cand, snap, errors, fails, crashes, overlapped>>

StoredOf(p) == [id |-> cand[p].id, tool |-> cand[p].tool, sub |-> cand[p].sub,
                read |-> FALSE, at |-> idx[p]]

Insert(p) ==
    /\ At(p, "insert")
    /\ IF poisoned
       THEN Goto(p, "idle") /\ UNCHANGED store
       ELSE Goto(p, "prune") /\ store' = <<StoredOf(p)>> \o store
    /\ cand' = [cand EXCEPT ![p] = NoError]
    /\ idx' = [idx EXCEPT ![p] = 0]
    /\ UNCHANGED <<poisoned, file, snap, counters>>

\* Mutant: one too many.
PruneLate(p) ==
    /\ At(p, "prune")
    /\ Goto(p, "snapshot")
    /\ store' = IF poisoned \/ Len(store) = MaxNotifications + 1 THEN store ELSE Pruned(store)
    /\ UNCHANGED <<poisoned, file, cand, idx, snap, counters>>

\* prune_notifications.
Prune(p) ==
    /\ At(p, "prune")
    /\ Goto(p, "snapshot")
    /\ store' = IF poisoned THEN store ELSE Pruned(store)
    /\ UNCHANGED <<poisoned, file, cand, idx, snap, counters>>

-----------------------------------------------------------------------------
(* save_notifications: a copy of the list under the read lock (an empty one *)
(* if that fails), then fs::write, which truncates and then writes.         *)

Snapshot(p) ==
    /\ At(p, "snapshot")
    /\ Goto(p, "open")
    /\ snap' = [snap EXCEPT ![p] = IF poisoned THEN <<>> ELSE store]
    /\ UNCHANGED <<store, poisoned, file, cand, idx, counters>>

Open(p) ==
    /\ At(p, "open")
    /\ Goto(p, "write")
    /\ file' = Garbage(0)
    /\ UNCHANGED <<store, poisoned, cand, idx, snap, counters>>

\* What another save has written since the truncation stays behind the end
\* of a shorter list.
Write(p) ==
    /\ At(p, "write")
    /\ Goto(p, "idle")
    /\ file' = IF file.size > Len(snap[p]) + 1 THEN Garbage(file.size) ELSE FileOf(snap[p])
    /\ snap' = [snap EXCEPT ![p] = <<>>]
    /\ UNCHANGED <<store, poisoned, cand, idx, counters>>

\* The directory cannot be made, the file not opened or not written: the
\* error is logged.
SaveFails(p) ==
    /\ pc[p] \in {"open", "write"}
    /\ fails < MaxFails
    /\ fails' = fails + 1
    /\ Goto(p, "idle")
    /\ snap' = [snap EXCEPT ![p] = <<>>]
    /\ UNCHANGED <<store, poisoned, file, cand, idx, errors, stamps, crashes, overlapped>>

-----------------------------------------------------------------------------
(* The commands.  None does anything once the lock is poisoned, and one     *)
(* that changes nothing saves nothing.                                      *)

Edit(p, list) ==
    /\ Ready(p)
    /\ ~poisoned
    /\ store' = list
    /\ Goto(p, "snapshot")
    /\ Begins
    /\ UNCHANGED <<poisoned, file, cand, idx, snap, errors, stamps, fails, crashes>>

\* mark_read saves even when the entry was read already.
MarkRead(p, i) ==
    /\ i \in DOMAIN store
    /\ Edit(p, [store EXCEPT ![i].read = TRUE])

MarkAllRead(p) ==
    /\ \E i \in DOMAIN store : ~store[i].read
    /\ Edit(p, [i \in DOMAIN store |-> [store[i] EXCEPT !.read = TRUE]])

\* Mutant: the list is cleared but not saved.
ClearAllUnsaved(p) ==
    /\ Ready(p)
    /\ ~poisoned
    /\ store' = <<>>
    /\ UNCHANGED <<poisoned, file, pc, cand, idx, snap, counters>>

ClearAll(p) == Edit(p, <<>>)

\* delete_notification; ids are unique.
Delete(p, i) ==
    /\ i \in DOMAIN store
    /\ Edit(p, RemoveAt(store, i))

-----------------------------------------------------------------------------
(* initialize() and its absence.                                            *)

\* Waits for whoever came first; then load_notifications.  A file that does
\* not parse is an empty list, a missing one leaves the list alone.
Load ==
    /\ At(Boot, "load")
    /\ \A p \in Workers : pc[p] \in {"idle", "dead"}
    /\ Goto(Boot, "prune")
    /\ store' = IF poisoned \/ file = NoFile THEN store ELSE file.list
    /\ UNCHANGED <<poisoned, file, cand, idx, snap, counters>>

\* The file cannot be read: the error is logged, and initialize() goes on.
LoadFails ==
    /\ At(Boot, "load")
    /\ \A p \in Workers : pc[p] \in {"idle", "dead"}
    /\ file # NoFile
    /\ fails < MaxFails
    /\ fails' = fails + 1
    /\ Goto(Boot, "prune")
    /\ UNCHANGED <<store, poisoned, file, cand, idx, snap, errors, stamps, crashes, overlapped>>

\* The application is killed and started again.
Crash ==
    /\ crashes < MaxCrashes
    /\ crashes' = crashes + 1
    /\ store' = <<>>
    /\ poisoned' = FALSE
    /\ pc' = [p \in Procs |-> IF p = Boot THEN "load" ELSE "idle"]
    /\ cand' = [p \in Procs |-> NoError]
    /\ idx' = [p \in Procs |-> 0]
    /\ snap' = [p \in Procs |-> <<>>]
    /\ UNCHANGED <<file, errors, stamps, fails, overlapped>>

-----------------------------------------------------------------------------
Add(p) ==
    \/ \E tool \in Tools \cup {NoTool}, sub \in BOOLEAN : Detect(p, tool, sub)
    \/ Find(p)
    \/ Compare(p)
    \/ Replace(p)
    \/ Stamp(p)
    \/ Insert(p)

Save(p) ==
    \/ Snapshot(p)
    \/ Open(p)
    \/ Write(p)
    \/ SaveFails(p)

Command(p) ==
    \/ \E i \in 1..MaxErrors : MarkRead(p, i) \/ Delete(p, i)
    \/ MarkAllRead(p)
    \/ ClearAll(p)

Next ==
    \/ \E p \in Workers : Add(p) \/ Command(p)
    \/ \E p \in Procs : Prune(p) \/ Save(p)
    \/ Load
    \/ LoadFails
    \/ Crash

Spec == Init /\ [][Next]_vars

-----------------------------------------------------------------------------
(* Properties.                                                              *)

PCs == {"idle", "dead", "load", "find", "compare", "replace", "stamp", "insert",
        "prune", "snapshot", "open", "write"}

\* Every variable has its type, and created_at is taken once for an error
\* (crud.rs:57).
TypeOK ==
    /\ store \in Seq(Stored)
    /\ poisoned \in BOOLEAN
    /\ file.valid \in BOOLEAN /\ file.list \in Seq(Stored) /\ file.size \in Nat
    /\ pc \in [Procs -> PCs]
    /\ cand \in [Procs -> Errors \cup {NoError}]
    /\ idx \in [Procs -> 0..MaxErrors]
    /\ snap \in [Procs -> Seq(Stored)]
    /\ errors \in 0..MaxErrors
    /\ stamps \in 0..errors
    /\ fails \in 0..MaxFails
    /\ crashes \in 0..MaxCrashes
    /\ overlapped \in BOOLEAN

Ids(list) == {list[i].id : i \in DOMAIN list}

AtRest == \A p \in Procs : pc[p] \in {"idle", "dead"}

\* However many errors come in at once, the list is over MAX_NOTIFICATIONS
\* only while somebody is about to prune it (or cannot, after a panic).
PruneBound ==
    ~poisoned /\ (\A p \in Procs : ~At(p, "prune")) => Len(store) <= MaxNotifications

\* add_error deduplicates by tool use id (crud.rs:21), as long as no two
\* requests have overlapped: an index that was found before a delete may point
\* at another entry after it.
NoDuplicateTool ==
    ~overlapped =>
        \A i, j \in DOMAIN store :
            store[i].tool = store[j].tool /\ store[i].tool # NoTool => i = j

OneAdder == \A p, q \in Adders : p = q

\* The list is kept newest first (notification/mod.rs:58): always when one
\* task adds, else as long as no two requests have overlapped.
NewestFirst ==
    OneAdder \/ ~overlapped =>
        \A i, j \in DOMAIN store : i < j => store[i].at > store[j].at

\* Only an entry without a subagent is replaced, by the same error with one
\* (crud.rs:42): what a worker is about to remove still is that entry, as long
\* as no two requests have overlapped.
ReplacesTwin ==
    ~overlapped =>
        \A p \in Workers : At(p, "replace") =>
            /\ idx[p] \in DOMAIN store
            /\ store[idx[p]].tool = cand[p].tool
            /\ ~store[idx[p]].sub
            /\ cand[p].sub

\* save_notifications writes the current list (persistence.rs:44): when all
\* is quiet, no file access has failed and no two requests have overlapped, a
\* restart would bring back just the list there is, however often the
\* application was killed.
SavedAtRest ==
    AtRest /\ fails = 0 /\ ~overlapped => file = FileOf(store)

\* The list is in order: each tool use is in it once, and it stays newest
\* first.
HistoryIsSound == TypeOK /\ NoDuplicateTool /\ NewestFirst
=============================================================================
