--------------------------- MODULE SessionDeletion ---------------------------
(***************************************************************************)
(* Deleting a session (delete_session of services/session_service.rs): its  *)
(* file, what belongs to it in other places, its line in the index of the   *)
(* project, and its pin and its hiding in the settings. Any removal may     *)
(* fail, and so may any look that comes before one: that is no error of the *)
(* deletion. All of it is done on this machine, with the paths of the       *)
(* context: of a session on a host, the file, the directory and the index   *)
(* are not seen. The agent may go on writing the session meanwhile. A       *)
(* deletion may be asked again.                                             *)
(***************************************************************************)
EXTENDS Integers, Sequences, FiniteSets

CONSTANTS
    Deletions,  \* how often it is asked
    Artifacts   \* what there is of the session before

\* In the order of the code.
Order == <<"main", "directory", "history", "todos", "debug", "security", "env", "tasks", "plans">>

ASSUME DeletionAssumption ==
    Deletions \in Nat /\ \A i \in DOMAIN Artifacts: Artifacts[i] \subseteq {Order[k] : k \in DOMAIN Order}

VARIABLE del

\* What is found by the name of its file, in a directory that several sessions
\* share; what lies with the project.
ByName == {"todos", "debug", "plans"}
WithProject == {"main", "directory", "index"}

\* index: whether the index of the project names the session, or cannot be
\* read; marked: whether the settings still name it; rewritten: what the agent
\* wrote after it was removed; cached: whether the caches know of it; host:
\* whether the session is one of a host; failed, overlooked: what this deletion
\* could not remove, and what it passed over though it was there.
DeletionInit ==
    \E i \in DOMAIN Artifacts, index \in {"named", "clean", "unreadable"}, host \in BOOLEAN:
        del = [step |-> 0, left |-> Artifacts[i], index |-> index, marked |-> TRUE, cached |-> TRUE, host |-> host,
               rewritten |-> {}, main |-> FALSE, associated |-> 0, errors |-> 0, runs |-> 0,
               failed |-> {}, overlooked |-> {}]

AskDeletion ==
    /\ del.step \in {0, 13} /\ del.runs < Deletions
    /\ del' = [del EXCEPT !.step = 1, !.main = FALSE, !.associated = 0, !.errors = 0, !.runs = @ + 1,
                          !.failed = {}, !.overlooked = {}, !.rewritten = {}]

Here == Order[del.step]
InReach(a) == ~(del.host /\ a \in WithProject)

\* How many files of several are gone when one of them could not be removed, or
\* the directory did not give all of them.
Some == IF Here \in ByName THEN {0, 1} ELSE {0}

\* What is not there is passed over.
Skip ==
    /\ del.step \in DOMAIN Order /\ Here \notin del.left
    /\ del' = [del EXCEPT !.step = @ + 1]

RemoveArtifact ==
    /\ del.step \in DOMAIN Order /\ Here \in del.left /\ InReach(Here)
    /\ del' = IF Here = "main" THEN [del EXCEPT !.step = @ + 1, !.left = @ \ {Here}, !.main = TRUE]
              ELSE [del EXCEPT !.step = @ + 1, !.left = @ \ {Here}, !.associated = @ + 1]

\* A removal that fails is counted, and the next one is tried.
FailToRemove ==
    /\ del.step \in DOMAIN Order /\ Here \in del.left /\ InReach(Here)
    /\ \E n \in Some: del' = [del EXCEPT !.step = @ + 1, !.associated = @ + n, !.errors = @ + 1,
                                          !.failed = @ \cup {Here}]

\* What is there is passed over when the look at it fails, when the directory
\* cannot be listed or gives only some of its entries, and when it is on the
\* host: nothing is counted.
Overlook ==
    /\ del.step \in DOMAIN Order /\ Here \in del.left
    /\ \E n \in (IF InReach(Here) THEN Some ELSE {0}):
          del' = [del EXCEPT !.step = @ + 1, !.associated = @ + n, !.overlooked = @ \cup {Here}]

OverlookIndex == del' = [del EXCEPT !.step = 11, !.overlooked = @ \cup {"index"}]

\* Mutant: an index that cannot be written is no error.
CleanIndexQuietly ==
    /\ del.step = 10
    /\ \/ InReach("index") /\ del' = [del EXCEPT !.step = 11, !.index = IF @ = "named" THEN "clean" ELSE @]
       \/ del.index = "named" /\ InReach("index") /\ del' = [del EXCEPT !.step = 11]
       \/ OverlookIndex

\* The index is written only when it named the session; one that cannot be
\* read, or looked at, is no error.
CleanIndex ==
    /\ del.step = 10
    /\ \/ InReach("index") /\ del' = [del EXCEPT !.step = 11, !.index = IF @ = "named" THEN "clean" ELSE @]
       \/ del.index = "named" /\ InReach("index") /\ del' = [del EXCEPT !.step = 11, !.errors = @ + 1, !.failed = @ \cup {"index"}]
       \/ OverlookIndex

\* Pin and hiding go from the settings; whether they could be saved is not
\* looked at.
CleanSettings ==
    /\ del.step = 11
    /\ \E saved \in BOOLEAN: del' = [del EXCEPT !.step = 12, !.marked = ~saved /\ @]

DropCached ==
    /\ del.step = 12
    /\ del' = [del EXCEPT !.step = 13, !.cached = FALSE]

\* The agent writes on.
WriteOn ==
    /\ del.step \in 2 .. 12 /\ "main" \notin del.left
    /\ del' = [del EXCEPT !.left = @ \cup {"main"}, !.rewritten = @ \cup {"main"}]

DeletionNext ==
    \/ AskDeletion \/ Skip \/ RemoveArtifact \/ FailToRemove \/ Overlook
    \/ CleanIndex \/ CleanSettings \/ DropCached \/ WriteOn

DeletionSpec == DeletionInit /\ [][DeletionNext]_del

\* A deletion without an error has removed all that it saw of the session:
\* what is left was written again meanwhile, or the deletion passed it over (on
\* the host, or because a look or a listing failed), of which nothing is
\* reported; and the file is answered as deleted only when this deletion
\* removed it.
DeletionReports ==
    del.step = 13 =>
        /\ ~del.cached
        /\ del.errors = 0 => /\ del.left \subseteq del.rewritten \cup del.overlooked
                             /\ del.index = "named" => "index" \in del.overlooked
        /\ del.main => "main" \notin del.left \ del.rewritten
=============================================================================
