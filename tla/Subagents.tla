------------------------------ MODULE Subagents ------------------------------
(***************************************************************************)
(* The subagents of a session (discovery/subagent_identity.rs,              *)
(* subagent_linking.rs, subagent_resolver.rs): which files they are, and    *)
(* which task of the session each of them works on.                         *)
(*                                                                         *)
(* calls: the tasks of the session in their order, each with its id, its    *)
(* description desc, and team and member (None when it starts no member of  *)
(* a team). notes: what the session's answers say, each with the task it    *)
(* answers, the agent it names, whether source names that task (and not the *)
(* first result only), whether a member was spawned and its colour.         *)
(* A file of a subagent is a record: new tells a file in the session's own  *)
(* directory from one next to the session's file, owner is the session its  *)
(* first line names, name its agent id, compact and warmup what its name    *)
(* and first message say, times the times of its messages, summary the one  *)
(* of the first message when it comes from a team, parent the message its   *)
(* first one follows, prev the one its last one follows, and last its last  *)
(* message.                                                                 *)
(***************************************************************************)
EXTENDS Messages

CONSTANTS
    ParallelWindow,  \* PARALLEL_WINDOW_MS
    MaxParentDepth   \* MAX_PARENT_DEPTH

ASSUME SubagentsAssumption == ParallelWindow \in Nat /\ MaxParentDepth \in Nat \ {0}

-----------------------------------------------------------------------------
(* The files of a session. *)

\* Files in the session's directory come first; one next to the session's
\* file counts when its first line names the session and no file of that
\* name was found before.
ListSubagentFiles(files, session) ==
    LET Real(f) == f.there /\ ~f.compact
        own     == SelectSeq(files, LAMBDA f: Real(f) /\ f.new /\ f.dir = session)
        others  == SelectSeq(files, LAMBDA f: /\ Real(f) /\ ~f.new /\ f.owner = session
                                              /\ \A i \in DOMAIN own: own[i].name # f.name)
    IN  own \o others

\* A subagent that has no message, or was only warmed up, is left out.
ParseSubagentFile(f) ==
    IF f.times = {} \/ f.warmup THEN <<>>
    ELSE <<[id |-> f.name, start |-> Min(f.times), end |-> Max(f.times), parallel |-> FALSE,
            task |-> None, desc |-> None, team |-> None, member |-> None, color |-> None,
            summary |-> f.summary, parent |-> f.parent, prev |-> f.prev, last |-> f.last]>>

-----------------------------------------------------------------------------
(* Which task a subagent works on. subs is the sequence of subagents.       *)

Enrich(s, t) ==
    [s EXCEPT !.task = t.id, !.desc = t.desc,
              !.team = IF t.team # None /\ t.member # None THEN t.team ELSE @,
              !.member = IF t.team # None /\ t.member # None THEN t.member ELSE @]

\* The task an answer names for an agent: the last answer counts.
TaskOfAgent(notes, agent) ==
    LET naming == {i \in DOMAIN notes: notes[i].agent = agent /\ notes[i].task # None}
    IN  IF naming = {} THEN None ELSE notes[Max(naming)].task

TaskWith(calls, id) == SelectSeq(calls, LAMBDA t: t.id = id)

\* First, what the answers say.
MatchResults(subs, calls, notes) ==
    LET named(i) == TaskWith(calls, TaskOfAgent(notes, subs[i].id))
        known == {i \in DOMAIN subs: named(i) # <<>>}
    IN  [subs  |-> Listed([i \in DOMAIN subs |-> IF i \in known THEN Enrich(subs[i], Last(named(i)))
                                                 ELSE subs[i]]),
         found |-> {subs[i].id : i \in known}, tasks |-> {Last(named(i)).id : i \in known}]

\* Then, for each member of a team, the earliest subagent whose summary is
\* the description of the task.
MatchMember(s, t) ==
    LET fits == {i \in DOMAIN s.subs: /\ s.subs[i].id \notin s.found
                                      /\ s.subs[i].summary = t.desc}
        first == CHOOSE i \in fits: \A k \in fits: \/ s.subs[i].start < s.subs[k].start
                                                   \/ s.subs[i].start = s.subs[k].start /\ i <= k
    IN  IF t.desc = None \/ fits = {} THEN s
        ELSE [subs |-> [s.subs EXCEPT ![first] = Enrich(@, t)],
              found |-> s.found \cup {s.subs[first].id},
              tasks |-> s.tasks \cup {t.id}]

MatchDescriptions(s, calls) ==
    FoldLeft(MatchMember, s, SelectSeq(calls, LAMBDA t: t.id \notin s.tasks /\ t.team # None /\ t.member # None))

\* Last, the rest in the order of their start, without members of teams.
MatchPositions(s, calls) ==
    LET left  == {i \in DOMAIN s.subs: s.subs[i].id \notin s.found}
        free  == SelectSeq(calls, LAMBDA t: t.id \notin s.tasks /\ t.team = None)
        Rank(i) == Cardinality({k \in left: \/ s.subs[k].start < s.subs[i].start
                                            \/ s.subs[k].start = s.subs[i].start /\ k <= i})
    IN  Listed([i \in DOMAIN s.subs |-> IF i \in left /\ Rank(i) <= Len(free)
                                        THEN Enrich(s.subs[i], free[Rank(i)]) ELSE s.subs[i]])

LinkToTaskCalls(subs, calls, notes) ==
    IF calls = <<>> THEN subs
    ELSE MatchPositions(MatchDescriptions(MatchResults(subs, calls, notes), calls), calls)

-----------------------------------------------------------------------------
(* A subagent that goes on where another one stopped is of its team.        *)

\* The ancestor with a team, 0 when there is none: from a message to the
\* subagent it is the last one of, and on with what that message follows.
Ancestor(subs, uuid) ==
    LET Ending(u) == {i \in DOMAIN subs: u # None /\ subs[i].last = u}
        walk[d \in 0 .. MaxParentDepth - 1] ==
            IF d = 0 THEN uuid
            ELSE LET u == walk[d - 1]
                 IN  IF Ending(u) = {} \/ subs[Max(Ending(u))].team # None THEN u
                     ELSE subs[Max(Ending(u))].prev
        reached == walk[MaxParentDepth - 1]
    IN  IF Ending(reached) # {} /\ subs[Max(Ending(reached))].team # None
        THEN Max(Ending(reached)) ELSE 0

\* Mutant: only a subagent without a task inherits.
PropagateToTaskless(subs) ==
    LET From(i) == IF subs[i].team # None \/ subs[i].task # None \/ subs[i].parent = None THEN 0
                   ELSE Ancestor(subs, subs[i].parent)
    IN  Listed([i \in DOMAIN subs |->
            IF From(i) = 0 THEN subs[i]
            ELSE [subs[i] EXCEPT !.team = subs[From(i)].team, !.member = subs[From(i)].member,
                                 !.task = subs[From(i)].task]])

PropagateTeamMetadata(subs) ==
    LET From(i) == IF subs[i].team # None \/ subs[i].parent = None THEN 0 ELSE Ancestor(subs, subs[i].parent)
        Or(a, b) == IF a = None THEN b ELSE a
        Inherit(s, a) == [s EXCEPT !.team = a.team, !.member = a.member, !.color = a.color,
                                   !.task = Or(@, a.task), !.desc = Or(@, a.desc)]
    IN  Listed([i \in DOMAIN subs |-> IF From(i) = 0 THEN subs[i] ELSE Inherit(subs[i], subs[From(i)])])

\* Two subagents whose times overlap by more than the window are parallel.
DetectParallelExecution(subs) ==
    LET Overlap(a, b) == Min({a.end, b.end}) > Max({a.start, b.start}) + ParallelWindow
    IN  Listed([i \in DOMAIN subs |->
            [subs[i] EXCEPT !.parallel = \E k \in DOMAIN subs \ {i}: Overlap(subs[i], subs[k])]])

\* The colour a spawned member was given, the last one.
EnrichTeamColors(subs, notes) ==
    LET Given(s) == {i \in DOMAIN notes: /\ notes[i].spawned /\ notes[i].source /\ notes[i].color # None
                                         /\ notes[i].task # None /\ notes[i].task = s.task}
    IN  Listed([i \in DOMAIN subs |->
            IF subs[i].team = None \/ Given(subs[i]) = {} THEN subs[i]
            ELSE [subs[i] EXCEPT !.color = notes[Max(Given(subs[i]))].color]])

ResolveSubagents(files, session, calls, notes) ==
    LET listed == ListSubagentFiles(files, session)
        subs   == FlattenSeq([i \in DOMAIN listed |-> ParseSubagentFile(listed[i])])
        linked == LinkToTaskCalls(subs, calls, notes)
        done   == EnrichTeamColors(DetectParallelExecution(PropagateTeamMetadata(linked)), notes)
    IN  SortSeq(done, LAMBDA a, b: a.start < b.start)

-----------------------------------------------------------------------------
(* The session and its subagents as they are written: Tasks, Files and      *)
(* Notes are what may come, in any order of the three.                      *)

CONSTANTS
    Tasks, Files, Notes,
    Session,   \* the session they are of
    MaxSpoken  \* messages of all subagents
VARIABLE crew

CrewInit == crew = [calls |-> <<>>, notes |-> <<>>, files |-> Files, clock |-> 0]

CallTask ==
    /\ Len(crew.calls) < Len(Tasks)
    /\ crew' = [crew EXCEPT !.calls = Append(@, Tasks[Len(crew.calls) + 1])]

\* A subagent writes a message.
Speak(k) ==
    /\ Cardinality(crew.files[k].times) < 2 /\ crew.clock < MaxSpoken
    /\ crew' = [crew EXCEPT !.files[k].there = TRUE, !.clock = @ + 1,
                            !.files[k].times = @ \cup {crew.clock + 1}]

\* An answer in the session.
AnswerTask(n) ==
    /\ Notes[n] \notin ToSet(crew.notes)
    /\ crew' = [crew EXCEPT !.notes = Append(@, Notes[n])]

CrewNext ==
    \/ CallTask
    \/ \E k \in DOMAIN Files: Speak(k)
    \/ \E n \in DOMAIN Notes: AnswerTask(n)

Resolved == ResolveSubagents(crew.files, Session, crew.calls, crew.notes)

\* A subagent that an answer names works on the task of that answer, whatever
\* the summaries and the order say (link_to_task_calls, phase 1).
ResultsWin ==
    \A i \in DOMAIN Resolved:
        LET named == TaskOfAgent(crew.notes, Resolved[i].id)
        IN  TaskWith(crew.calls, named) # <<>> => Resolved[i].task = named

\* A task has one subagent, but for those that answers name and for those
\* that go on in the place of another one.
TaskLinkedOnce ==
    \A i, k \in DOMAIN Resolved:
        /\ Resolved[i].task # None
        /\ Resolved[i].task = Resolved[k].task
        => \/ i = k
           \/ /\ Resolved[i].id # Resolved[k].id
              /\ \A n \in {i, k}: TaskOfAgent(crew.notes, Resolved[n].id) = Resolved[n].task
           \/ \E n \in {i, k}: Resolved[n].parent # None /\ Resolved[n].team # None

\* Who goes on where a member of a team stopped is of that team, whatever
\* task its place in the order gave it (propagate_team_metadata).
TeamIsKept ==
    \A i, k \in DOMAIN Resolved:
        /\ Resolved[i].parent # None
        /\ Resolved[i].parent = Resolved[k].last
        /\ Resolved[k].team # None
        => Resolved[i].team # None

\* The subagents of a session are given to its tasks and teams consistently,
\* in whatever order files and answers appear.
CrewIsLinked == ResultsWin /\ TaskLinkedOnce /\ TeamIsKept
=============================================================================
