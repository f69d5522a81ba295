-------------------------- MODULE SessionAnalysis ---------------------------
(***************************************************************************)
(* A session file that grows while its detail is looked at again and again: *)
(* every line the CLI appends, every subagent it starts, and after each of   *)
(* them everything the window shows of the session, rebuilt from nothing as  *)
(* the code does (services/session_service.rs, analysis/chunk_builder.rs).   *)
(***************************************************************************)
EXTENDS ChunkBuilder

CONSTANTS
    Texts,       \* kinds of text a user's line may have
    Tools,       \* names of the tools that may be called
    Calls,       \* ids of tool calls
    Ticks,       \* how much later than the line before a line may come
    MaxLines,    \* bounds of the runs, not of the program
    MaxProcs

ASSUME SessionAnalysisAssumption ==
    /\ Texts \subseteq TextKinds /\ Ticks \subseteq Nat
    /\ MaxLines \in Nat /\ MaxProcs \in Nat

VARIABLES
    lines,   \* the file
    procs,   \* the subagents found for the session
    view     \* what the window shows of them

vars == <<lines, procs, view>>

Now == Last(lines).ts

Messages == view.session.messages

-----------------------------------------------------------------------------
(* What the CLI writes. *)

Block(type) == [type |-> type, text |-> "empty", id |-> None, name |-> None, size |-> 1, error |-> FALSE]
TextBlock(text) == [Block("text") EXCEPT !.text = text]

\* A session starts with a question.
FirstLine == [type |-> "user", uuid |-> 1, ts |-> 1, side |-> FALSE, meta |-> FALSE,
              model |-> "model", rid |-> None, usage |-> 0, agent |-> FALSE, source |-> None,
              rejected |-> FALSE, compact |-> FALSE, string |-> TRUE, content |-> <<TextBlock("plain")>>]

Line == [FirstLine EXCEPT !.uuid = Len(lines) + 1, !.ts = Now, !.string = FALSE, !.content = <<>>]

\* The detail of the session, rebuilt from the whole file, and that of a
\* subagent, whose file holds the lines of the side thread.
DetailOf(session, chunks, subagents) ==
    [session |-> session, chunks |-> chunks,
     waterfall |-> BuildWaterfallData(chunks, subagents),
     groups |-> BuildGroups(session.messages, subagents)]

Parsed(file) == ProcessMessages(ParseLines(file))

Detail(session, subagents) ==
    DetailOf(session, BuildChunks(session.messages, subagents), subagents)
        @@ [subagent |-> BuildSubagentDetail(session.sidechain, <<>>)]

Show(file, subagents) == Detail(Parsed(file), subagents) @@ [of |-> <<Len(file), Len(subagents)>>]

Current == view.of = <<Len(lines), Len(procs)>>

\* The detail is a function of the file: no run needs two lines between two
\* looks at it (a bound of the runs).
Write(line) ==
    /\ Len(lines) < MaxLines /\ Current
    /\ \E dt \in Ticks: lines' = Append(lines, [line EXCEPT !.ts = Now + dt])
    /\ UNCHANGED <<procs, view>>

GetSessionDetail ==
    /\ ~Current
    /\ view' = Show(lines, procs)
    /\ UNCHANGED <<lines, procs>>

Called == {lines[i].content[1].id : i \in {j \in DOMAIN lines: lines[j].type = "assistant"}} \ {None}

\* Only the plain text also comes as an internal message.
UserSays ==
    \E text \in Texts, meta \in BOOLEAN:
        /\ meta => text = "plain"
        /\ Write([Line EXCEPT !.string = TRUE, !.content = <<TextBlock(text)>>, !.meta = meta])

Compacts == Write([Line EXCEPT !.string = TRUE, !.content = <<TextBlock("plain")>>, !.compact = TRUE])

\* The blocks of one answer come in lines of their own with the same request.
ModelSays ==
    \E type \in {"thinking", "text"}, side \in BOOLEAN:
        /\ side => type = "text"
        /\ Write([Line EXCEPT !.type = "assistant", !.rid = "r1", !.usage = Len(lines) + 1, !.side = side,
                  !.content = <<IF type = "text" THEN TextBlock("plain") ELSE Block(type)>>])

CallsTool ==
    \E name \in Tools, id \in {CHOOSE x \in Calls \cup {None}: x \notin Called /\ (x = None => Calls \subseteq Called)}:
        /\ id # None
        /\ Write([Line EXCEPT !.type = "assistant", !.rid = "r2", !.usage = 1,
                  !.content = <<[Block("tool_use") EXCEPT !.id = id, !.name = name]>>])

\* An answer may come again (a resumed session repeats its last lines), may
\* be one of the application's internal messages, and may carry a text.
ToolAnswers ==
    \E id \in Called, how \in {"plain", "internal", "rejected", "interrupted"}:
        LET result == [Block("tool_result") EXCEPT !.id = id]
        IN  Write([Line EXCEPT !.meta = (how = "internal"), !.rejected = (how = "rejected"),
                   !.source = IF how = "internal" THEN id ELSE None,
                   !.content = IF how = "interrupted" THEN <<result, TextBlock("interrupt")>>
                               ELSE <<result>>])

Bookkeeping == \E type \in {"system", "garbage"}: Write([Line EXCEPT !.type = type])

\* A subagent found on disk, with the Task call it answers where the linking
\* found one.
SpawnsSubagent ==
    /\ Len(procs) < MaxProcs /\ Current
    /\ TaskCalls(Messages) # <<>>
    /\ \E start \in {Now, Now + 2}, length \in {0, MEANINGFUL_SUBAGENT_DURATION_MS + 1},
          parent \in {None} \cup IdsOf(TaskCalls(Messages)):
          procs' = Append(procs, [id |-> IF procs = <<>> THEN "p1" ELSE "p2", start |-> start,
                                  end |-> start + length, parent |-> parent, usage |-> 1])
    /\ UNCHANGED <<lines, view>>

Init ==
    /\ lines = <<FirstLine>>
    /\ procs = <<>>
    /\ view = Show(lines, procs)

Next == UserSays \/ Compacts \/ ModelSays \/ CallsTool \/ ToolAnswers \/ Bookkeeping \/ SpawnsSubagent
        \/ GetSessionDetail

Spec == Init /\ [][Next]_vars

-----------------------------------------------------------------------------
(* What the window gets. *)

Chunks == view.chunks
AiChunks == {i \in DOMAIN Chunks: Chunks[i].kind = "ai"}

\* Every message has the type of the program's own record; processes and the
\* detail of the side thread end after they start.
TypeOK ==
    /\ \A i \in DOMAIN Messages: IsParsedMessage(Messages[i], Calls)
    /\ \A i \in DOMAIN procs: procs[i].start <= procs[i].end /\ procs[i].parent \in Calls \cup {None}
    /\ view.session.metrics.duration \in Nat /\ view.subagent.start <= view.subagent.end

\* Every message of the main thread that is not noise is in exactly one
\* chunk, and the chunks show them in the order of the file.
MessagesOnceInOrder ==
    LET shown == FlattenSeq([i \in DOMAIN Chunks |-> Chunks[i].msgs])
    IN  shown = SelectSeq(Messages, LAMBDA m: ~m.side /\ Classify(m) # "noise")

\* Each tool call of a chunk is shown, with a result if a message of the
\* chunk has one and as pending otherwise; and as often as it was answered,
\* once unless the answer was repeated.
ExecutionsMatchResults ==
    \A c \in AiChunks:
        LET chunk   == Chunks[c]
            Shown(id) == {i \in DOMAIN chunk.executions: chunk.executions[i].call = id}
            Answers(id) == {i \in DOMAIN chunk.msgs: id \in IdsOf(chunk.msgs[i].results)}
        IN  \A id \in IdsOf(CallsIn(chunk.msgs)):
                IF Answers(id) = {}
                THEN \E i \in Shown(id): Shown(id) = {i} /\ chunk.executions[i].result = <<>>
                ELSE /\ \A i \in Shown(id): chunk.executions[i].result # <<>>
                     /\ 1 <= Cardinality(Shown(id)) /\ Cardinality(Shown(id)) <= Cardinality(Answers(id))

\* No step of a chunk ends before it starts, and none that stands alone in
\* its window reaches past the start of the next one, as long as every
\* process of the chunk started before the chunk ended.
StepsFillTheirGaps ==
    \A c \in AiChunks:
        LET chunk == Chunks[c]
            steps == chunk.steps
        IN  (\A i \in DOMAIN chunk.processes: chunk.processes[i].start <= chunk.end) =>
                \A i \in DOMAIN steps:
                    /\ steps[i].effEnd >= steps[i].start
                    /\ steps[i].kind # "subagent" /\ i < Len(steps) =>
                           steps[i].effEnd <= steps[i + 1].start

\* Every process is drawn in the waterfall, and it is drawn twice only
\* when it has no known parent and two chunks met at the moment it started.
ProcessesInWaterfall ==
    LET items == view.waterfall
        Drawn(p) == {i \in DOMAIN items: items[i].type = "subagent" /\ items[i].id = p.id}
        At(p) == {c \in AiChunks: Chunks[c].start <= p.start /\ p.start <= Chunks[c].end}
    IN  \A k \in 1 .. view.of[2]:
            LET p == procs[k]
            IN  /\ Drawn(p) # {}
                /\ Cardinality(Drawn(p)) > 1 => p.parent = None /\ Cardinality(At(p)) > 1
                /\ \A i \in Drawn(p): items[i].level = 1 =>
                       \E j \in DOMAIN items: items[j].type = "chunk" /\ items[j].id = items[i].parent

\* A message of the model belongs to at most one conversation group, and to
\* the group of the last real message of the user before it in time.
GroupsAreDisjoint ==
    LET groups == view.groups
        In(m) == {g \in DOMAIN groups: \E i \in DOMAIN groups[g].responses:
                                           groups[g].responses[i].uuid = m.uuid}
    IN  \A k \in DOMAIN Messages:
            LET m == Messages[k]
            IN  /\ Cardinality(In(m)) <= 1
                /\ \A g \in In(m): \A h \in DOMAIN groups:
                       h > g => groups[h].user.ts > m.ts

\* A session runs exactly when the last thing that happened in it is work of
\* the model: a later text, interruption or plan ends it, a later tool call
\* or result starts it again.
OngoingIsLastActivity ==
    LET acts == Activities(Messages)
    IN  view.session.ongoing <=> (acts # <<>> /\ Last(acts) \in AiActivity)

\* Chunks keep their ids while the session grows: what was expanded in the
\* window stays what it was.
Ids(v) == [i \in DOMAIN v.chunks |-> <<v.chunks[i].kind, v.chunks[i].id>>]

ChunkIdsStable == [][IsPrefix(Ids(view), Ids(view'))]_vars

\* A further line of a request replaces the usage of the lines before it: the
\* total counts every request once, by its latest line.
RequestsCountedOnce ==
    LET Of(rid) == {i \in DOMAIN Messages: Messages[i].rid = rid}
        Latest(rid) == IF Of(rid) = {} THEN 0 ELSE Messages[Max(Of(rid))].usage
    IN  view.session.metrics.tokens = Latest("r1") + Latest("r2")

\* The detail shows the session and only that: each message in one place,
\* calls with their results, processes, steps and groups where they belong,
\* and the numbers and the state that its messages give.
DetailIsWhole ==
    /\ TypeOK
    /\ MessagesOnceInOrder /\ GroupsAreDisjoint
    /\ ExecutionsMatchResults /\ StepsFillTheirGaps /\ ProcessesInWaterfall
    /\ RequestsCountedOnce /\ OngoingIsLastActivity
=============================================================================
