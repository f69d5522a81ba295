---------------------------- MODULE ChunkBuilder ----------------------------
(***************************************************************************)
(* From the messages of a session to what the window shows of it: chunks,   *)
(* tool executions, linked processes, semantic steps with their times and   *)
(* groups (analysis/chunk_builder.rs and the modules it calls), the          *)
(* waterfall (analysis/waterfall_builder.rs) and the conversation groups     *)
(* (analysis/conversation_group_builder.rs).                                 *)
(*                                                                         *)
(* A process is a subagent: [id, start, end, parent, usage], where parent    *)
(* is the id of the Task call it is known to answer, or None.                *)
(***************************************************************************)
EXTENDS Messages

CONSTANTS
    PARALLEL_WINDOW_MS,               \* in ticks, like every time of the model
    MEANINGFUL_SUBAGENT_DURATION_MS

ASSUME WindowsAssumption ==
    PARALLEL_WINDOW_MS \in Nat /\ MEANINGFUL_SUBAGENT_DURATION_MS \in Nat

\* A stable sort, as sort_by_key of a list is.
StableSortBy(s, Key(_)) ==
    LET Before(i) == {j \in DOMAIN s: Key(s[j]) < Key(s[i]) \/ (Key(s[j]) = Key(s[i]) /\ j <= i)}
    IN  Listed([k \in DOMAIN s |-> s[CHOOSE i \in DOMAIN s: Cardinality(Before(i)) = k]])

Minus(a, b) == IF a > b THEN a - b ELSE 0
Duration(p) == Minus(p.end, p.start)

-----------------------------------------------------------------------------
(* Tool executions. *)

Execution(call, start, result, end) == [call |-> call, start |-> start, result |-> result, end |-> end]

\* What the results of one message match: the result of the call named by
\* source_tool_use_id first, then every result whose id was not matched
\* that way so far.
MatchesOf(m, calls, seen) ==
    LET bySource == m.source \in DOMAIN calls /\ m.results # <<>>
        ids      == IF bySource THEN seen \cup {m.results[1].id} ELSE seen
        rest     == SelectSeq(m.results, LAMBDA r: r.id \notin ids /\ r.id \in DOMAIN calls)
        Of(id, r) == Execution(id, calls[id].start, <<r>>, m.ts)
    IN  [found |-> (IF bySource THEN <<Of(m.source, m.results[1])>> ELSE <<>>)
                   \o [i \in DOMAIN rest |-> Of(rest[i].id, rest[i])],
         seen  |-> ids]

\* The calls of the messages with the time of their message; the last with an
\* id stays.
TimedCalls(msgs) ==
    LET timed == FlattenSeq([i \in DOMAIN msgs |-> [k \in DOMAIN msgs[i].calls |->
                    [id |-> msgs[i].calls[k].id, start |-> msgs[i].ts, call |-> msgs[i].calls[k]]]])
    IN  [id \in IdsOf(timed) |-> LastWithId(timed, id)]

\* A pending execution has no result and ends, for whoever draws it, where it
\* starts. Matched executions in order, then the calls without a result, whose order
\* among themselves is that of a hash map: no property depends on it.
BuildToolExecutions(msgs) ==
    LET calls == TimedCalls(msgs)
        Step(acc, m) == LET x == MatchesOf(m, calls, acc.seen)
                        IN  [found |-> acc.found \o x.found, seen |-> x.seen]
        matched == FoldLeft(Step, [found |-> <<>>, seen |-> {}], msgs).found
        pending == SetToSeq(DOMAIN calls \ {matched[i].call : i \in DOMAIN matched})
        all     == matched \o [i \in DOMAIN pending |->
                                  Execution(pending[i], calls[pending[i]].start, <<>>, calls[pending[i]].start)]
    IN  StableSortBy(all, LAMBDA x: x.start)

-----------------------------------------------------------------------------
(* Processes of a chunk: those that answer one of its Task calls; of those *)
(* without a known parent, the ones that started within its time.           *)

LinkProcesses(responses, start, end, procs) ==
    LET tasks  == IdsOf(TaskCalls(responses))
        byTask == SelectSeq(procs, LAMBDA p: p.parent \in tasks)
        byTime == SelectSeq(procs, LAMBDA p: p.parent = None /\ start <= p.start /\ p.start <= end)
    IN  StableSortBy(byTask \o byTime, LAMBDA p: p.start)

-----------------------------------------------------------------------------
(* Semantic steps. *)

\* A step: what it is, when it starts, the message it comes from (0 for a
\* process). A step without an end of its own ends where it starts.
Step(kind, id, m) == [kind |-> kind, id |-> id, start |-> m.ts, end |-> m.ts, duration |-> 0,
                      source |-> m.uuid, sub |-> m.agent, usage |-> 0]

AssistantSteps(m) ==
    LET Of(b) == CASE b.type = "thinking" -> <<Step("thinking", None, m)>>
                   [] b.type = "tool_use" -> <<Step("tool_call", b.id, m)>>
                   [] b.type = "text" /\ b.text # "empty" -> <<Step("output", None, m)>>
                   [] OTHER -> <<>>
    IN  FlattenSeq([i \in DOMAIN m.content |-> Of(m.content[i])])

\* An interruption is one text block with its words, or a rejected tool use.
UserSteps(m) ==
    LET results   == [i \in DOMAIN m.results |-> Step("tool_result", m.results[i].id, m)]
        texts     == SelectSeq(m.content, LAMBDA b: b.type = "text" /\ b.text = "interrupt")
        interrupt == IF m.string THEN <<>>
                     ELSE IF texts # <<>> THEN [i \in DOMAIN texts |-> Step("interruption", None, m)]
                     ELSE IF m.rejected THEN <<Step("interruption", None, m)>>
                     ELSE <<>>
    IN  results \o interrupt

BuildSubagentStep(p) ==
    [kind |-> "subagent", id |-> p.id, start |-> p.start, end |-> p.end, duration |-> Duration(p),
     source |-> 0, sub |-> TRUE, usage |-> p.usage]

ExtractSemanticSteps(responses, procs) ==
    LET Of(m) == IF m.type = "assistant" THEN AssistantSteps(m)
                 ELSE IF m.type = "user" THEN UserSteps(m) ELSE <<>>
        own   == FlattenSeq([i \in DOMAIN responses |-> Of(responses[i])])
    IN  StableSortBy(own \o [i \in DOMAIN procs |-> BuildSubagentStep(procs[i])], LAMBDA s: s.start)

\* A long subagent keeps its own end; another step lasts until the next one
\* unless both started together; the last one lasts until the chunk ends.
EffectiveEnd(steps, i, chunkEnd) ==
    LET s == steps[i]
    IN  IF s.kind = "subagent" /\ s.duration > MEANINGFUL_SUBAGENT_DURATION_MS THEN s.end
        ELSE IF i = Len(steps) THEN chunkEnd
        ELSE IF Minus(steps[i + 1].start, s.start) <= PARALLEL_WINDOW_MS THEN s.start + s.duration
        ELSE steps[i + 1].start

FillTimelineGaps(steps, chunkEnd) ==
    Listed([i \in DOMAIN steps |-> steps[i] @@ [effEnd |-> EffectiveEnd(steps, i, chunkEnd)]])

\* The context a step has used up: its own for a subagent, that of its
\* message for another step, nothing when there is no usage to read.
StepContext(s, responses) ==
    LET from == {i \in DOMAIN responses: responses[i].uuid = s.source /\ responses[i].type = "assistant"}
    IN  IF s.kind = "subagent" THEN {s.usage}
        ELSE IF from = {} THEN {} ELSE {responses[Max(from)].usage}

CalculateStepContext(steps, responses) ==
    Listed([i \in DOMAIN steps |-> steps[i] @@ [context |-> StepContext(steps[i], responses)]])

GroupLabel(steps) ==
    LET Has(kind) == \E i \in DOMAIN steps: steps[i].kind = kind
    IN  IF Has("tool_call") THEN "Tools"
        ELSE IF Has("thinking") /\ Has("output") THEN "Assistant Response"
        ELSE IF Has("thinking") THEN "Thinking"
        ELSE IF Has("output") THEN "Output"
        ELSE "Response"

\* One group for every source message; every step without one, that is every
\* process of the chunk, comes in one group together.
BuildSemanticStepGroups(steps) ==
    LET Of(source) == SelectSeq(steps, LAMBDA s: s.source = source)
        Group(g, source) ==
            [source |-> source, steps |-> g, label |-> GroupLabel(g),
             start |-> Min({g[i].start : i \in DOMAIN g}), end |-> Max({g[i].end : i \in DOMAIN g})]
    IN  {Group(Of(source), source) : source \in {steps[i].source : i \in DOMAIN steps}}
-----------------------------------------------------------------------------
(* Chunks. *)

CollectSidechains(msgs, start, end) ==
    SelectSeq(msgs, LAMBDA m: m.side /\ start <= m.ts /\ m.ts <= end)

SingleChunk(kind, m) == [kind |-> kind, id |-> m.uuid, start |-> m.ts, end |-> m.ts, msgs |-> <<m>>]

AiChunk(buf, linked, steps, msgs) ==
    [kind |-> "ai", id |-> Head(buf).uuid, start |-> Head(buf).ts, end |-> Last(buf).ts, msgs |-> buf,
     metrics |-> CalculateMetrics(buf), sidechain |-> CollectSidechains(msgs, Head(buf).ts, Last(buf).ts),
     executions |-> BuildToolExecutions(buf), processes |-> linked,
     steps |-> steps, groups |-> BuildSemanticStepGroups(steps)]

WithSteps(buf, linked, msgs) ==
    AiChunk(buf, linked, CalculateStepContext(
        FillTimelineGaps(ExtractSemanticSteps(buf, linked), Last(buf).ts), buf), msgs)

BuildAiChunk(buf, procs, msgs) ==
    WithSteps(buf, LinkProcesses(buf, Head(buf).ts, Last(buf).ts, procs), msgs)

\* Mutant: noise ends the run, and the messages after it go to the next one only.
BuildChunksNoiseCuts(msgs, procs) ==
    LET shown == SelectSeq(msgs, LAMBDA m: ~m.side)
        Ai(i)  == Classify(shown[i]) = "ai"
        starts == {i \in DOMAIN shown: Classify(shown[i]) # "noise" /\ (i = 1 \/ ~Ai(i) \/ ~Ai(i - 1))}
        Next(i) == Min({j \in starts: j > i} \cup {Len(shown) + 1})
        Chunk(i) == IF Ai(i) THEN BuildAiChunk(SubSeq(shown, i, Next(i) - 1), procs, msgs)
                    ELSE SingleChunk(Classify(shown[i]), shown[i])
    IN  FlattenSeq([i \in DOMAIN shown |-> IF i \in starts THEN <<Chunk(i)>> ELSE <<>>])

\* The main messages in order, without the noise: a run of messages of the
\* model makes one chunk, any other message ends the run and stands alone.
BuildChunks(msgs, procs) ==
    LET shown == SelectSeq(msgs, LAMBDA m: ~m.side /\ Classify(m) # "noise")
        Ai(i)  == Classify(shown[i]) = "ai"
        starts == {i \in DOMAIN shown: i = 1 \/ ~Ai(i) \/ ~Ai(i - 1)}
        Next(i) == Min({j \in starts: j > i} \cup {Len(shown) + 1})
        Chunk(i) == IF Ai(i) THEN BuildAiChunk(SubSeq(shown, i, Next(i) - 1), procs, msgs)
                    ELSE SingleChunk(Classify(shown[i]), shown[i])
    IN  FlattenSeq([i \in DOMAIN shown |-> IF i \in starts THEN <<Chunk(i)>> ELSE <<>>])

\* The detail of a subagent adds the times of its messages to its chunks.
SubagentDetail(msgs, chunks) ==
    LET ai == SelectSeq(chunks, LAMBDA c: c.kind = "ai")
    IN  [chunks |-> chunks,
         groups |-> BuildSemanticStepGroups(FlattenSeq([i \in DOMAIN ai |-> ai[i].steps])),
         start |-> IF Times(msgs) = {} THEN 0 ELSE Min(Times(msgs)),
         end |-> IF Times(msgs) = {} THEN 0 ELSE Max(Times(msgs)),
         metrics |-> CalculateMetrics(msgs)]

BuildSubagentDetail(msgs, procs) == SubagentDetail(msgs, BuildChunks(msgs, procs))

-----------------------------------------------------------------------------
(* The waterfall. *)

Item(type, id, start, end, level, parent) ==
    [type |-> type, id |-> id, start |-> start, end |-> end, level |-> level, parent |-> parent]

ProcessItem(p, level, parent) == Item("subagent", p.id, p.start, p.end, level, parent)

ChunkItems(c) ==
    LET Tool(x) == Item("tool", x.call, x.start, x.end, 1, c.id)
    IN  <<Item("chunk", c.id, c.start, c.end, 0, 0)>>
        \o IF c.kind # "ai" THEN <<>>
           ELSE [i \in DOMAIN c.executions |-> Tool(c.executions[i])]
                \o [i \in DOMAIN c.processes |-> ProcessItem(c.processes[i], 1, c.id)]

\* A process no chunk has comes at the top level.
BuildWaterfallData(chunks, procs) ==
    LET inChunks == FlattenSeq([i \in DOMAIN chunks |-> ChunkItems(chunks[i])])
        linked   == IdsOf(SelectSeq(inChunks, LAMBDA x: x.type = "subagent"))
        orphans  == SelectSeq(procs, LAMBDA p: p.id \notin linked)
    IN  StableSortBy(inChunks \o [i \in DOMAIN orphans |-> ProcessItem(orphans[i], 0, 0)],
                     LAMBDA x: x.start)

-----------------------------------------------------------------------------
(* Conversation groups: one for every real message of the user, with what   *)
(* the model says strictly between its time and the time of the next one.   *)

\* next is the list of that next message, if there is one.
CollectAiResponses(main, from, next) ==
    SelectSeq(main, LAMBDA m: /\ m.ts > from.ts
                              /\ \A k \in DOMAIN next: m.ts < next[k].ts
                              /\ m.type = "assistant" \/ IsInternalUser(m))

\* The internal messages that name a known call: an execution of its own for
\* a Task whose process is known, otherwise a tool execution if there is a
\* result.
SeparateTaskExecutions(responses, procs) ==
    LET calls   == TimedCalls(SelectSeq(responses, LAMBDA m: m.type = "assistant"))
        answers == SelectSeq(responses, LAMBDA m: IsInternalUser(m) /\ m.source \in DOMAIN calls)
        IsTask(m) == calls[m.source].call.task /\ \E i \in DOMAIN procs: procs[i].parent = m.source
        regular == SelectSeq(answers, LAMBDA m: ~IsTask(m) /\ m.results # <<>>)
    IN  [tasks |-> SelectSeq(answers, IsTask),
         tools |-> [i \in DOMAIN regular |->
                       Execution(regular[i].source, calls[regular[i].source].start,
                                 <<regular[i].results[1]>>, regular[i].ts)]]

LinkSubagentsToGroup(from, next, procs) ==
    SelectSeq(procs, LAMBDA p: p.start >= from.ts /\ \A k \in DOMAIN next: p.start < next[k].ts)

BuildGroups(msgs, procs) ==
    LET main  == SelectSeq(msgs, LAMBDA m: ~m.side)
        users == SelectSeq(main, IsRealUser)
        Group(i) ==
            LET next == IF i < Len(users) THEN <<users[i + 1]>> ELSE <<>>
                responses == CollectAiResponses(main, users[i], next)
            IN  [user |-> users[i], responses |-> responses,
                 executions |-> SeparateTaskExecutions(responses, procs),
                 processes |-> LinkSubagentsToGroup(users[i], next, procs),
                 start |-> users[i].ts, end |-> Max({users[i].ts} \cup Times(responses)),
                 metrics |-> CalculateMetrics(<<users[i]>> \o responses)]
    IN  [i \in DOMAIN users |-> Group(i)]
=============================================================================
