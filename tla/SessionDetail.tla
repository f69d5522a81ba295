---------------------------- MODULE SessionDetail ----------------------------
(***************************************************************************)
(* get_session_detail for one project and session id, and the DataCache it *)
(* answers from.  The cache is one instance for all contexts, and its key, *)
(* projectId/sessionId, does not name the context.                         *)
(*                                                                         *)
(* A request reads the active context again at several points and awaits   *)
(* between its accesses to the files, so that writes, other requests, the  *)
(* main listener's invalidations and context switches come in between.     *)
(*                                                                         *)
(* A stamp is a version of a file of a context: it is both what a          *)
(* fingerprint (mtime and size) tells apart and what a parse returns.      *)
(* Files are only appended to, and each context has directories that the   *)
(* other context's file system does not know.                              *)
(***************************************************************************)
EXTENDS Naturals

CONSTANTS Clients,     \* windows and HTTP clients that ask for the session
          Contexts,    \* the contexts that have a project of that id
          Local,       \* the one active at the start
          MaxWrites,   \* bound: writes to the files
          MaxAsks,     \* bound: requests made
          MaxTroubles  \* bound: context switches and accesses to files that fail

ASSUME DetailAssumption ==
    /\ Local \in Contexts
    /\ "none" \notin Contexts
    /\ MaxWrites \in Nat
    /\ MaxAsks \in Nat
    /\ MaxTroubles \in Nat

VARIABLES file,     \* versions of the session file and of its subagents' files
          active,   \* the active context
          entry,    \* what the cache has under the key
          pending,  \* a change event the main listener has not handled
          told,     \* versions of the active context's files when it last did
          late,     \* requests that were being served then
          pc,
          req,      \* what each request has read so far
          held,     \* what each client shows, and the fingerprint it knows
          answer,   \* the last answer to each client
          writes,
          asks,
          switches,
          fails

env == <<writes, asks, switches, fails>>
requests == <<pc, req, held, answer>>
vars == <<file, active, entry, pending, told, late, requests, env>>

Stamps == [ctx : Contexts \cup {"none"}, version : 0..(MaxWrites + 1)]
Nothing == [ctx |-> "none", version |-> 0]
Main(c) == [ctx |-> c, version |-> file[c].main]
Subs(c) == [ctx |-> c, version |-> file[c].subs]

NoEntry == [main |-> Nothing, subs |-> Nothing, fp |-> Nothing, stored |-> FALSE, late |-> FALSE]
NoReq == [known |-> Nothing, path |-> Local, fs |-> Local, fp |-> Nothing,
          main |-> Nothing, subs |-> Nothing, failed |-> FALSE]
NoAnswer == [kind |-> "none", main |-> Nothing, fp |-> Nothing,
             asked |-> Nothing, failed |-> FALSE, floor |-> Nothing]

-----------------------------------------------------------------------------
Init ==
    /\ file \in [Contexts -> [main : {0, 1}, subs : {0}]]
    /\ active = Local
    /\ entry = NoEntry
    /\ pending = FALSE
    /\ told = file[Local]
    /\ late = {}
    /\ pc = [r \in Clients |-> "idle"]
    /\ req = [r \in Clients |-> NoReq]
    /\ held = [r \in Clients |-> [main |-> Nothing, fp |-> Nothing]]
    /\ answer = [r \in Clients |-> NoAnswer]
    /\ writes = 0
    /\ asks = 0
    /\ switches = 0
    /\ fails = 0

Goto(r, label) == pc' = [pc EXCEPT ![r] = label]

Trouble == switches + fails < MaxTroubles

\* An access to a file fails.
Fail == Trouble /\ fails' = fails + 1

(* The session, or one of its subagents, writes its file; the watchers of   *)
(* the active context report it.                                            *)
Write(c, part) ==
    /\ writes < MaxWrites
    /\ file[c].main > 0
    /\ file' = [file EXCEPT ![c][part] = @ + 1]
    /\ pending' = (pending \/ c = active)
    /\ writes' = writes + 1
    /\ UNCHANGED <<active, entry, told, late, requests, asks, switches, fails>>

\* Mutant: the subagent's events carry no session id, and invalidate nothing.
HandleEventMainOnly ==
    /\ pending
    /\ pending' = FALSE
    /\ entry' = IF file[active].main # told.main THEN NoEntry ELSE entry
    /\ told' = file[active]
    /\ late' = {r \in Clients : pc[r] # "idle"}
    /\ UNCHANGED <<file, active, requests, env>>

(* The main listener handles the change events so far: it invalidates the   *)
(* key.  An event of a subagent's file carries the parent session's id.     *)
HandleEvent ==
    /\ pending
    /\ pending' = FALSE
    /\ entry' = NoEntry
    /\ told' = file[active]
    /\ late' = {r \in Clients : pc[r] # "idle"}
    /\ UNCHANGED <<file, active, requests, env>>

\* The entry is evicted, or is ten minutes old.
Evict ==
    /\ entry.stored
    /\ entry' = NoEntry
    /\ UNCHANGED <<file, active, pending, told, late, requests, env>>

SwitchContext(c) ==
    /\ Trouble
    /\ c # active
    /\ active' = c
    /\ switches' = switches + 1
    /\ UNCHANGED <<file, entry, pending, told, late, requests, writes, asks, fails>>

-----------------------------------------------------------------------------
(* A client asks, with the fingerprint it knows or with none, and the path  *)
(* is built from the active context's directory.                            *)
Ask(r, known) ==
    /\ pc[r] = "idle"
    /\ asks < MaxAsks
    /\ req' = [req EXCEPT ![r] = [NoReq EXCEPT !.known = known, !.path = active]]
    /\ answer' = [answer EXCEPT ![r] = [NoAnswer EXCEPT !.floor = Main(active)]]
    /\ late' = late \ {r}
    /\ asks' = asks + 1
    /\ Goto(r, "check")
    /\ UNCHANGED <<file, active, entry, pending, told, held, writes, switches, fails>>

\* The answer the request ends with.
Answer(r, kind, main, fp) ==
    /\ answer' = [answer EXCEPT ![r] = [@ EXCEPT !.kind = kind, !.main = main, !.fp = fp,
                    !.asked = req'[r].fp, !.failed = req'[r].failed]]
    /\ held' = IF kind # "full" THEN held
               ELSE [held EXCEPT ![r] = [main |-> main, fp |-> IF fp = Nothing THEN @.fp ELSE fp]]
    /\ Goto(r, "idle")

(* path_exists, on the file system of the context that is active by now; an *)
(* error reads as absence.                                                  *)
Check(r) ==
    /\ pc[r] = "check"
    /\ \/ /\ req[r].path = active
          /\ file[active].main > 0
          /\ Goto(r, "stat")
          /\ UNCHANGED <<req, held, answer, fails>>
       \/ /\ \/ (req[r].path # active \/ file[active].main = 0) /\ UNCHANGED fails
             \/ Fail
          /\ UNCHANGED req
          /\ Answer(r, "missing", Nothing, Nothing)
    /\ UNCHANGED <<file, active, entry, pending, told, late, writes, asks, switches>>

(* The cache and the file system are taken from the active context, and the *)
(* fingerprint from a stat of the path; the one the client knows ends it.   *)
Stat(r) ==
    /\ pc[r] = "stat"
    /\ \/ /\ req[r].path = active
          /\ req' = [req EXCEPT ![r].fs = active, ![r].fp = Main(active)]
          /\ UNCHANGED fails
       \/ /\ req[r].path # active
          /\ req' = [req EXCEPT ![r].fs = active]
          /\ UNCHANGED fails
       \/ /\ Fail
          /\ req' = [req EXCEPT ![r].fs = active, ![r].failed = TRUE]
    /\ IF req[r].known # Nothing /\ req[r].known = req'[r].fp
       THEN Answer(r, "unchanged", Nothing, req[r].known)
       ELSE Goto(r, "look") /\ UNCHANGED <<held, answer>>
    /\ UNCHANGED <<file, active, entry, pending, told, late, writes, asks, switches>>

\* Mutant: DataCache.get does not compare the fingerprints.
DiffersNever(r) == FALSE

\* The entry is stored under another fingerprint; none agrees with every one.
Differs(r) == req[r].fp # Nothing /\ entry.fp # Nothing /\ req[r].fp # entry.fp

Look(r) ==
    /\ pc[r] = "look"
    /\ UNCHANGED req
    /\ \/ /\ entry.stored
          /\ ~Differs(r)
          /\ Answer(r, "full", entry.main, entry.fp)
          /\ UNCHANGED entry
       \/ /\ ~entry.stored \/ Differs(r)
          /\ entry' = NoEntry
          /\ Goto(r, "parse")
          /\ UNCHANGED <<held, answer>>
    /\ UNCHANGED <<file, active, pending, told, late, env>>

\* A file that cannot be read parses as a session without messages.
Parse(r) ==
    /\ pc[r] = "parse"
    /\ \/ /\ req' = [req EXCEPT ![r].main =
                        IF req[r].path = req[r].fs THEN Main(req[r].fs) ELSE Nothing]
          /\ UNCHANGED fails
       \/ /\ Fail
          /\ req' = [req EXCEPT ![r].main = Nothing, ![r].failed = TRUE]
    /\ Goto(r, "subs")
    /\ UNCHANGED <<file, active, entry, pending, told, late, held, answer, writes, asks, switches>>

\* resolve_subagents takes directory and file system from the active context.
ResolveSubagents(r) ==
    /\ pc[r] = "subs"
    /\ \/ req' = [req EXCEPT ![r].subs = Subs(active)] /\ UNCHANGED fails
       \/ Fail /\ req' = [req EXCEPT ![r].subs = Nothing, ![r].failed = TRUE]
    /\ Goto(r, "store")
    /\ UNCHANGED <<file, active, entry, pending, told, late, held, answer, writes, asks, switches>>

\* Mutant: the fingerprint is of the second stat, after the parse.
StoreLateLabel(r) ==
    /\ pc[r] = "store"
    /\ req' = [req EXCEPT ![r].fp = IF @ = Nothing THEN @ ELSE Main(req[r].fs)]
    /\ entry' = [main |-> req[r].main, subs |-> req[r].subs, fp |-> req'[r].fp,
                 stored |-> TRUE, late |-> r \in late]
    /\ Answer(r, "full", req[r].main, req'[r].fp)
    /\ UNCHANGED <<file, active, pending, told, late, env>>

Store(r) ==
    /\ pc[r] = "store"
    /\ UNCHANGED req
    /\ entry' = [main |-> req[r].main, subs |-> req[r].subs, fp |-> req[r].fp,
                 stored |-> TRUE, late |-> r \in late]
    /\ Answer(r, "full", req[r].main, req[r].fp)
    /\ UNCHANGED <<file, active, pending, told, late, env>>

-----------------------------------------------------------------------------
Serve(r) == Check(r) \/ Stat(r) \/ Look(r) \/ Parse(r) \/ ResolveSubagents(r) \/ Store(r)

Next ==
    \/ \E c \in Contexts, part \in {"main", "subs"} : Write(c, part)
    \/ HandleEvent
    \/ Evict
    \/ \E c \in Contexts : SwitchContext(c)
    \/ \E r \in Clients : \E known \in {Nothing, held[r].fp} : Ask(r, known)
    \/ \E r \in Clients : Serve(r)

Spec == Init /\ [][Next]_vars

-----------------------------------------------------------------------------
TypeOK ==
    /\ file \in [Contexts -> [main : 0..(MaxWrites + 1), subs : 0..MaxWrites]]
    /\ active \in Contexts
    /\ entry \in [main : Stamps, subs : Stamps, fp : Stamps, stored : BOOLEAN, late : BOOLEAN]
    /\ pending \in BOOLEAN
    /\ told \in [main : 0..(MaxWrites + 1), subs : 0..MaxWrites]
    /\ late \subseteq Clients
    /\ pc \in [Clients -> {"idle", "check", "stat", "look", "parse", "subs", "store"}]
    /\ req \in [Clients -> [known : Stamps, path : Contexts, fs : Contexts, fp : Stamps,
                            main : Stamps, subs : Stamps, failed : BOOLEAN]]
    /\ held \in [Clients -> [main : Stamps, fp : Stamps]]
    /\ answer \in [Clients -> [kind : {"none", "missing", "unchanged", "full"},
                    main : Stamps, fp : Stamps, asked : Stamps, failed : BOOLEAN,
                    floor : Stamps]]
    /\ writes \in 0..MaxWrites
    /\ asks \in 0..MaxAsks
    /\ switches \in 0..MaxTroubles
    /\ fails \in 0..MaxTroubles
    /\ \A r \in Clients : pc[r] \in {"check", "stat"} => req[r].fp = Nothing /\ req[r].main = Nothing

Fresh(main, floor) == main.ctx = floor.ctx /\ main.version >= floor.version

(* What the cache has under a fingerprint was read when the file had it or  *)
(* later, and from the same context, although the one entry is filled by    *)
(* requests that began in either context and were overtaken by writes,      *)
(* invalidations and switches: get_session_detail takes the fingerprint     *)
(* before it parses.                                                        *)
LabelIsHonest == entry.fp # Nothing /\ entry.main # Nothing => Fresh(entry.main, entry.fp)

(* A request that could stat the file, answered with messages that carry a  *)
(* fingerprint, gets them from its own context and no older than the file   *)
(* was when it asked: the fingerprint in DataCache.get keeps an entry that  *)
(* the invalidation missed, or another context's entry under the same key,  *)
(* from being served.                                                       *)
FullIsFresh ==
    \A r \in Clients :
        LET a == answer[r] IN
        (a.kind = "full" /\ Nothing \notin {a.asked, a.fp, a.main}) => Fresh(a.main, a.floor)

\* No access has failed, and the context is the one of the start.
Quiet == fails = 0 /\ switches = 0

(* As long as all is quiet: told that nothing changed, the client shows     *)
(* what the file held when it asked, or later content                       *)
(* (refreshSessionInPlace keeps what it shows).                             *)
UnchangedIsTrue ==
    Quiet => \A r \in Clients :
        answer[r].kind = "unchanged" => Fresh(held[r].main, answer[r].floor)

(* As long as all is quiet: an entry that is older than an event the main   *)
(* listener has handled comes from a request that was being served at that  *)
(* time; no other keeps a subagent's earlier state, which the fingerprint   *)
(* does not cover, in the cache past the invalidation.                      *)
InvalidationReaches ==
    Quiet /\ entry.stored /\ ~entry.late => entry.subs.version >= told.subs

(* The cache does not claim more than it holds, an answer with a            *)
(* fingerprint is of the context and the time it was asked for, and an      *)
(* answer that nothing has changed is true.                                 *)
AnswersAreHonest == TypeOK /\ LabelIsHonest /\ FullIsFresh /\ UnchangedIsTrue
=============================================================================
