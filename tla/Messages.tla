------------------------------ MODULE Messages ------------------------------
(***************************************************************************)
(* Lines of a session file and the messages they become: parsing           *)
(* (parsing/jsonl_parser.rs), the four categories of the view               *)
(* (parsing/message_classifier.rs), the maps from tool uses to results      *)
(* (analysis/tool_extraction.rs), the question whether a session still runs *)
(* (utils/session_state_detection.rs) and the totals of a list of messages. *)
(*                                                                         *)
(* A text is one of a few kinds, told apart by its tags; a timestamp is a   *)
(* natural number of ticks, 0 when it cannot be parsed; a size stands for   *)
(* the length of a text in estimated tokens.                                *)
(***************************************************************************)
EXTENDS Naturals, Sequences, FiniteSets, SequencesExt, FiniteSetsExt

None == "none"

\* The list with the values of f, evaluated once.
Listed(f) == f \o <<>>

\* What a text starts and ends with, as far as any guard looks at it.
TextKinds == {"empty", "plain", "stdout", "emptyOutput", "stderr", "caveat",
              "reminder", "reminderThenText", "interrupt", "teammate"}

\* Entry variants the reader knows, and a line that is no entry at all.
EntryTypes == {"user", "assistant", "system", "summary", "other", "garbage"}
MessageTypes == {"user", "assistant", "system", "summary"}

IdsOf(s) == {s[i].id : i \in DOMAIN s}

Blocks(ids, names, sizes) ==
    [type: {"text", "thinking", "tool_use", "tool_result", "image"}, text: TextKinds,
     id: ids, name: names, size: sizes, error: BOOLEAN]

-----------------------------------------------------------------------------
(* Parsing of one line. *)

BlocksOf(content, type) == SelectSeq(content, LAMBDA b: b.type = type)

\* The entries of a list at the chosen places, in their order.
Chosen(s, places) == FlattenSeq([i \in DOMAIN s |-> IF i \in places THEN <<s[i]>> ELSE <<>>])

\* Blocks without an id or a name are left out.
ExtractToolCalls(content) ==
    FlattenSeq([i \in DOMAIN content |->
        LET b == content[i]
        IN  IF b.type = "tool_use" /\ b.id # None /\ b.name # None
            THEN <<[id |-> b.id, name |-> b.name, size |-> b.size, task |-> b.name = "Task"]>>
            ELSE <<>>])

ExtractToolResults(content) ==
    FlattenSeq([i \in DOMAIN content |->
        LET b == content[i]
        IN  IF b.type = "tool_result" /\ b.id # None
            THEN <<[id |-> b.id, size |-> b.size, text |-> b.text, error |-> b.error]>>
            ELSE <<>>])

\* A line that is no entry, an entry without uuid and the entries of the
\* application's own bookkeeping become no message.
IsMessage(e) == e.type \in MessageTypes /\ e.uuid # 0

\* The record of a message. Only an answer of the model has a model, a
\* request and a usage, and only a line of the user answers a tool.
IsParsedMessage(m, ids) ==
    /\ m.uuid \in Nat \ {0} /\ m.type \in MessageTypes /\ m.ts \in Nat /\ m.usage \in Nat
    /\ \A b \in {"string", "side", "meta", "agent", "rejected", "compact"}: m[b] \in BOOLEAN
    /\ m.model # None \/ m.rid # None \/ m.usage # 0 => m.type = "assistant"
    /\ m.source # None \/ m.rejected \/ m.compact => m.type = "user"
    /\ m.source \in ids \cup {None}
    /\ IdsOf(m.calls) \cup IdsOf(m.results) \subseteq ids

ParseEntry(e) ==
    LET user    == e.type = "user"
        content == IF e.type = "system" THEN <<>> ELSE e.content
        string  == e.type = "summary" \/ (e.type # "system" /\ e.string)
    IN  [uuid |-> e.uuid, type |-> e.type, ts |-> e.ts, content |-> content, string |-> string,
         side   |-> e.type # "summary" /\ e.side,
         meta   |-> e.type = "summary" \/ (e.type \in {"user", "system"} /\ e.meta),
         model  |-> IF e.type = "assistant" THEN e.model ELSE None,
         rid    |-> IF e.type = "assistant" THEN e.rid ELSE None,
         usage  |-> IF e.type = "assistant" THEN e.usage ELSE 0,
         agent  |-> e.type \in {"user", "assistant"} /\ e.agent,
         source |-> IF user THEN e.source ELSE None,
         rejected |-> user /\ e.rejected,
         compact  |-> user /\ e.compact,
         calls   |-> IF string THEN <<>> ELSE ExtractToolCalls(content),
         results |-> IF string THEN <<>> ELSE ExtractToolResults(content)]

\* Mutant: the earlier lines of a request are left out of the list.
ParseLinesDeduplicated(lines) ==
    LET entries == SelectSeq(lines, IsMessage)
        kept == {i \in DOMAIN entries: entries[i].rid = None
                    \/ \A j \in DOMAIN entries: j > i => entries[j].rid # entries[i].rid}
    IN  FlattenSeq([i \in DOMAIN entries |-> IF i \in kept THEN <<ParseEntry(entries[i])>> ELSE <<>>])

ParseLines(lines) ==
    LET entries == SelectSeq(lines, IsMessage)
    IN  Listed([i \in DOMAIN entries |-> ParseEntry(entries[i])])

-----------------------------------------------------------------------------
(* Categories. *)

\* The text of a message: its string, or its text blocks joined. A message
\* of this model has at most one text block.
ContentText(m) ==
    IF m.string THEN m.content[1].text
    ELSE LET texts == BlocksOf(m.content, "text")
         IN  IF texts = <<>> THEN "empty" ELSE texts[1].text

IsHardNoise(m) ==
    \/ m.type \in {"system", "summary"}
    \/ m.type = "assistant" /\ m.model = "<synthetic>"
    \/ m.type = "user" /\ ContentText(m) \in {"emptyOutput", "caveat", "reminder", "interrupt"}

IsSystemChunk(m) == m.type = "user" /\ ContentText(m) \in {"stdout", "emptyOutput", "stderr"}

IsRealUser(m) == m.type = "user" /\ ~m.meta
IsInternalUser(m) == m.type = "user" /\ m.meta
IsTeammate(m) == IsRealUser(m) /\ ContentText(m) = "teammate"

IsUserChunk(m) ==
    /\ IsRealUser(m)
    /\ ~IsTeammate(m)
    /\ IF m.string
       THEN ContentText(m) \notin {"empty", "stderr", "stdout", "emptyOutput", "caveat", "reminder"}
       ELSE \E i \in DOMAIN m.content: m.content[i].type \in {"text", "image"}

Classify(m) ==
    IF IsHardNoise(m) THEN "noise"
    ELSE IF m.compact THEN "compact"
    ELSE IF IsSystemChunk(m) THEN "system"
    ELSE IF IsUserChunk(m) THEN "user"
    ELSE "ai"

-----------------------------------------------------------------------------
(* Tool uses and results of a list of messages: a later entry with the     *)
(* same id replaces an earlier one.                                         *)

CallsIn(msgs) == FlattenSeq([i \in DOMAIN msgs |-> msgs[i].calls])
ResultsIn(msgs) == FlattenSeq([i \in DOMAIN msgs |-> msgs[i].results])
LastWithId(s, id) == s[Max({i \in DOMAIN s: s[i].id = id})]

ToolUseMap(msgs) ==
    LET calls == CallsIn(Chosen(msgs, {i \in DOMAIN msgs: msgs[i].type = "assistant"}))
    IN  [id \in IdsOf(calls) |-> LastWithId(calls, id)]

ToolResultMap(msgs) ==
    LET results == ResultsIn(msgs) IN [id \in IdsOf(results) |-> LastWithId(results, id)]

TaskCalls(msgs) == SelectSeq(CallsIn(msgs), LAMBDA c: c.task)

-----------------------------------------------------------------------------
(* Does the session still run? *)

AiActivity == {"thinking", "tool_use", "tool_result"}
Endings == {"text_output", "interruption", "exit_plan_mode"}

\* The tool uses whose result ends the session: a SendMessage that agrees to
\* shut down (the name "Shutdown" stands for that input).
AssistantActivity(m) ==
    LET Of(b) == CASE b.type = "thinking" -> <<"thinking">>
                   [] b.type = "tool_use" -> IF b.name = "ExitPlanMode" THEN <<"exit_plan_mode">>
                                             ELSE IF b.name = "Shutdown" THEN <<"interruption">>
                                             ELSE <<"tool_use">>
                   [] b.type = "text" /\ b.text # "empty" -> <<"text_output">>
                   [] OTHER -> <<>>
    IN  FlattenSeq([i \in DOMAIN m.content |-> Of(m.content[i])])

UserActivity(m, shutdowns) ==
    LET Of(b) == CASE b.type = "tool_result" ->
                        IF b.id \in shutdowns \/ m.rejected THEN <<"interruption">> ELSE <<"tool_result">>
                   [] b.type = "text" /\ b.text = "interrupt" -> <<"interruption">>
                   [] OTHER -> <<>>
    IN  FlattenSeq([i \in DOMAIN m.content |-> Of(m.content[i])])

\* A result is matched with the shutdowns of the messages before it.
Activities(msgs) ==
    LET Shutdown(b) == b.type = "tool_use" /\ b.name = "Shutdown"
        Shutdowns(i) == UNION {IdsOf(SelectSeq(msgs[j].content, Shutdown)) :
                                  j \in {k \in 1 .. i - 1: msgs[k].type = "assistant"}}
        Of(i) == IF msgs[i].string THEN <<>>
                 ELSE IF msgs[i].type = "assistant" THEN AssistantActivity(msgs[i])
                 ELSE IF msgs[i].type = "user" THEN UserActivity(msgs[i], Shutdowns(i))
                 ELSE <<>>
    IN  FlattenSeq([i \in DOMAIN msgs |-> Of(i)])

\* There is work of the model after the last ending, if there is an ending.
IsOngoing(acts) ==
    LET endings == {i \in DOMAIN acts: acts[i] \in Endings}
        last    == IF endings = {} THEN 0 ELSE Max(endings)
    IN  \E i \in DOMAIN acts: i > last /\ acts[i] \in AiActivity

CheckMessagesOngoing(msgs) == IsOngoing(Activities(msgs))

-----------------------------------------------------------------------------
(* Totals. *)

\* Of the entries of one request only the last is kept.
DeduplicateByRequestId(msgs) ==
    LET LastOf(rid) == Max({i \in DOMAIN msgs: msgs[i].rid = rid})
        kept == {i \in DOMAIN msgs: msgs[i].rid = None \/ LastOf(msgs[i].rid) = i}
    IN  [k \in 1 .. Cardinality(kept) |-> msgs[Min({i \in kept: Cardinality({j \in kept: j < i}) = k - 1})]]

SumOf(s) == FoldLeft(LAMBDA total, m: total + m.usage, 0, s)

Times(msgs) == {msgs[i].ts : i \in DOMAIN msgs} \ {0}

CalculateMetrics(msgs) ==
    [tokens |-> SumOf(DeduplicateByRequestId(msgs)), count |-> Len(msgs),
     duration |-> IF Times(msgs) = {} THEN 0 ELSE Max(Times(msgs)) - Min(Times(msgs))]

-----------------------------------------------------------------------------
(* What the session parser keeps next to the messages. *)

ProcessMessages(msgs) ==
    [messages |-> msgs,
     realUser |-> SelectSeq(msgs, IsRealUser), internalUser |-> SelectSeq(msgs, IsInternalUser),
     main |-> SelectSeq(msgs, LAMBDA m: ~m.side), sidechain |-> SelectSeq(msgs, LAMBDA m: m.side),
     metrics |-> CalculateMetrics(msgs), tasks |-> TaskCalls(msgs),
     ongoing |-> CheckMessagesOngoing(msgs)]
=============================================================================
