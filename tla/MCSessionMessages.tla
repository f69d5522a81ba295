-------------------------- MODULE MCSessionMessages --------------------------
(***************************************************************************)
(* What is made of the messages of a session: the detail the window shows,   *)
(* and the errors that are found in them. The two only read the files, so    *)
(* each behaviour is about one of them.                                     *)
(***************************************************************************)
EXTENDS SessionAnalysis, ErrorDetector

VARIABLE about

\* One project with the sessions of a repository and of a worktree of
\* another, and a second project without sessions.
MCProjects == <<"p", "q">>
MCFilesOf == [p \in {"p", "q"} |-> IF p = "p" THEN <<"f", "g">> ELSE <<>>]
MCPathOf == [p \in {"p", "q"} |-> IF p = "p" THEN "main" ELSE "plain"]
MCCwds == [f \in {"f", "g"} |-> IF f = "f" THEN {"main"} ELSE {"worktree"}]
MCUses == [f \in {"f", "g"} |-> {IF f = "f" THEN <<"plain", 1>> ELSE <<"plain", 2>>}]
MCResults == [f \in {"f", "g"} |-> {<<"plain", TRUE>>} \cup
                  IF f = "f" THEN {<<"plain", FALSE>>, <<"interrupt", TRUE>>} ELSE {}]
MCRepoOf == [d \in {"main", "worktree", "plain"} |->
                CASE d = "main" -> "r1" [] d = "worktree" -> "r2" [] OTHER -> None]

Trigger == [id |-> "t", mode |-> "content_match", content |-> "tool_result", tool |-> None,
            requireError |-> FALSE, field |-> None, pattern |-> <<>>, ignore |-> {}, threshold |-> 0,
            tokens |-> "total", repos |-> {}]
MCTriggers ==
    <<[Trigger EXCEPT !.id = "failed", !.mode = "error_status", !.requireError = TRUE, !.ignore = {"interrupt"}],
      [Trigger EXCEPT !.id = "content", !.tool = "Bash", !.field = "content", !.pattern = <<{"plain"}>>],
      [Trigger EXCEPT !.id = "use", !.content = "tool_use", !.tool = "Bash", !.field = "command",
                      !.pattern = <<{"plain"}>>, !.repos = {"r1"}],
      [Trigger EXCEPT !.id = "dear", !.mode = "token_threshold", !.content = "tool_use", !.threshold = 3]>>

Symmetry == Permutations(Workers)

MCInit == about \in {"detail", "errors"} /\ Init /\ DetectorInit
MCNext ==
    /\ \/ about = "detail" /\ Next /\ UNCHANGED detectorVars
       \/ about = "errors" /\ DetectorNext /\ UNCHANGED vars
    /\ UNCHANGED about
MCSpec == MCInit /\ [][MCNext]_<<about, vars, detectorVars>>
=============================================================================
