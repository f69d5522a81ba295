---------------------------- MODULE ListingPromise ----------------------------
(***************************************************************************)
(* What an answer promises, whatever is cached on the way to it: it shows   *)
(* no file as it was before the last change the program was told of, and    *)
(* none as it never was.                                                    *)
(*                                                                         *)
(* A file has a version that grows. known is the version of the last change *)
(* that was handled while no call was at work, 0 when there is none: a      *)
(* change handled during a call promises nothing, for the call may have     *)
(* read the file before it and keep what it read after it.                  *)
(***************************************************************************)
EXTENDS Integers

CONSTANT Promised  \* the files

\* trouble: what has gone wrong, a read that failed or a context that changed.
VARIABLES version, known, working, trouble, told

PromiseInit ==
    /\ \A f \in Promised: version[f] \in Nat
    /\ known = [f \in Promised |-> 0]
    /\ working = {}

Withdrawn == \A f \in Promised: known'[f] \in {known[f], 0}

\* A file changes, or goes; another one may be hidden by it.
Change(f) ==
    /\ version'[f] > version[f]
    /\ \A g \in Promised \ {f}: version'[g] = version[g]
    /\ Withdrawn
    /\ UNCHANGED <<working, trouble, told>>

\* The program is told of the change while it answers nobody.
Tell(f) ==
    /\ working = {}
    /\ known' = [known EXCEPT ![f] = version[f]]
    /\ UNCHANGED <<version, working, trouble, told>>

\* Trouble may end the promise, but only under a call.
Withdraw ==
    /\ trouble' # trouble
    /\ Withdrawn /\ (working = {} => UNCHANGED known)
    /\ UNCHANGED <<version, working, told>>

Ask(c) ==
    /\ c \notin working
    /\ working' = working \cup {c}
    /\ UNCHANGED <<version, known, told>>

\* The answer is about the files of its domain, 0 is for one that it misses.
Reply(c) ==
    /\ c \in working
    /\ working' = working \ {c}
    /\ \A f \in DOMAIN told'[c]: known[f] <= told'[c][f] /\ told'[c][f] <= version[f]
    /\ \A d \in DOMAIN told \ {c}: told'[d] = told[d]
    /\ UNCHANGED <<version, known>>

PromiseNext ==
    \/ \E f \in Promised: Change(f) \/ Tell(f)
    \/ Withdraw
    \/ \E c \in DOMAIN told: Ask(c) \/ Reply(c)

Promise == PromiseInit /\ [][PromiseNext]_<<version, known, working, trouble, told>>
=============================================================================
