------------------------------ MODULE AgentLogs ------------------------------
(***************************************************************************)
(* The logs of the other agents (agents/codex.rs, pi.rs, dsh.rs and         *)
(* opencode.rs): what their rows become in the view, what the list shows    *)
(* of them, and how their files are found.                                  *)
(*                                                                         *)
(* A row is a record with the same fields for every agent: its kind, its    *)
(* role, its time ts, the size of its text (0: no text), id and name of a   *)
(* call, error, the number of tokens, blocks (parts of an answer), cwd of a *)
(* header, and flag, which is set for a text that no person wrote, for the  *)
(* header of a subagent and for a text that is put in by the tool. Texts    *)
(* have different sizes where a property tells them apart.                  *)
(***************************************************************************)
EXTENDS Messages

Agents == {"claude", "codex", "opencode", "pi", "dsh"}

\* How many rows at the head of a log a preview reads.
CONSTANT PreviewRows
ASSUME PreviewAssumption == PreviewRows \in Nat \ {0}

TextOfSize(size) == IF size = 0 THEN "empty" ELSE "plain"
Block(type, size) == [type |-> type, text |-> TextOfSize(size), id |-> None, name |-> None,
                      size |-> size, error |-> FALSE]
UseBlock(b) == [Block("tool_use", b.size) EXCEPT !.id = b.id, !.name = b.name]
ResultBlock(b) == [Block("tool_result", b.size) EXCEPT !.id = b.id, !.error = b.error]

\* A message with only its identity.
NewMessage(uuid, type, ts) ==
    [uuid |-> uuid, type |-> type, ts |-> ts, content |-> <<>>, string |-> FALSE, side |-> FALSE,
     meta |-> FALSE, model |-> None, rid |-> None, usage |-> 0, agent |-> FALSE, source |-> None,
     rejected |-> FALSE, compact |-> FALSE, calls |-> <<>>, results |-> <<>>]

\* Calls of an answer of another agent are never tasks.
CallsOf(content) == Listed([i \in DOMAIN ExtractToolCalls(content) |->
                               [ExtractToolCalls(content)[i] EXCEPT !.task = FALSE]])

\* What answers tools: a user message nobody typed.
Carrier(uuid, ts, blocks) ==
    [NewMessage(uuid, "user", ts) EXCEPT !.meta = TRUE, !.content = blocks,
                                         !.results = ExtractToolResults(blocks)]

-----------------------------------------------------------------------------
(* Codex: p is what the parser carries from row to row.                     *)

CodexStart == [messages |-> <<>>, model |-> None, total |-> 0]

Say(p, m) == [p EXCEPT !.messages = Append(@, m)]
SayLast(p, m) == [p EXCEPT !.messages = Append(Front(@), m)]
NextMessage(p, row, type) == NewMessage(Len(p.messages) + 1, type, row.ts)
EndsInAnswer(p) == p.messages # <<>> /\ Last(p.messages).type = "assistant"

CodexText(p, row) ==
    IF row.size = 0 THEN p
    ELSE LET text == <<Block("text", row.size)>>
         IN  CASE row.role = "user" ->
                  Say(p, [NextMessage(p, row, "user") EXCEPT !.meta = row.flag, !.string = TRUE,
                                                             !.content = text])
               [] row.role = "assistant" ->
                  Say(p, [NextMessage(p, row, "assistant") EXCEPT !.content = text, !.model = p.model])
               [] OTHER ->
                  Say(p, [NextMessage(p, row, "system") EXCEPT !.meta = TRUE, !.string = TRUE,
                                                               !.content = text])

\* A thought joins an answer that has no thought and no call yet.
CodexReasoning(p, row) ==
    LET thought == Block("thinking", row.size)
        joins   == /\ EndsInAnswer(p)
                   /\ BlocksOf(Last(p.messages).content, "thinking") = <<>>
                   /\ Last(p.messages).calls = <<>>
    IN  IF row.size = 0 THEN p
        ELSE IF joins THEN SayLast(p, [Last(p.messages) EXCEPT !.content = <<thought>> \o @])
        ELSE Say(p, [NextMessage(p, row, "assistant") EXCEPT !.content = <<thought>>,
                                                             !.model = p.model])

\* A call joins the answer it follows, or a new one.
CodexCall(p, row) ==
    LET host == IF EndsInAnswer(p) THEN p ELSE Say(p, NextMessage(p, row, "assistant"))
        last == Last(host.messages)
        call == [id |-> row.id, name |-> row.name, size |-> row.size, task |-> FALSE]
    IN  SayLast(host, [last EXCEPT !.content = Append(@, UseBlock(row)), !.calls = Append(@, call),
                                   !.model = IF @ = None THEN p.model ELSE @])

\* The counter runs over the whole log: its growth goes to the answer it
\* follows, or nowhere. A counter that goes back is ignored.
CodexTokens(p, row) ==
    IF row.tokens < p.total THEN p
    ELSE LET grown == IF EndsInAnswer(p)
                      THEN SayLast(p, [Last(p.messages) EXCEPT !.usage = @ + (row.tokens - p.total)])
                      ELSE p
         IN  [grown EXCEPT !.total = row.tokens]

CodexStep(p, row) ==
    CASE row.kind = "turn_context" -> IF row.name = None THEN p ELSE [p EXCEPT !.model = row.name]
      [] row.kind = "compacted" ->
         Say(p, [NextMessage(p, row, "user") EXCEPT !.meta = TRUE, !.compact = TRUE, !.string = TRUE,
                                                    !.content = <<Block("text", 1)>>])
      [] row.kind = "message" -> CodexText(p, row)
      [] row.kind = "reasoning" -> CodexReasoning(p, row)
      [] row.kind = "call" -> CodexCall(p, row)
      [] row.kind = "output" -> Say(p, Carrier(Len(p.messages) + 1, row.ts, <<ResultBlock(row)>>))
      [] row.kind = "tokens" -> CodexTokens(p, row)
      [] OTHER -> p

CodexState(rows) == FoldLeft(CodexStep, CodexStart, rows)
ParseCodex(rows) == CodexState(rows).messages

-----------------------------------------------------------------------------
(* Pi: every row with an id stands for itself.                              *)

PiBlock(b) == CASE b.type = "thinking" -> Block("thinking", b.size)
                [] b.type = "tool" -> UseBlock(b)
                [] OTHER -> Block("text", b.size)

PiMessage(row) ==
    LET converted == Listed([i \in DOMAIN row.blocks |-> PiBlock(row.blocks[i])])
    IN  CASE row.role = "user" ->
             [NewMessage(row.uuid, "user", row.ts) EXCEPT !.content = <<Block("text", row.size)>>]
          [] row.role = "assistant" ->
             [NewMessage(row.uuid, "assistant", row.ts) EXCEPT
                 !.content = converted, !.calls = CallsOf(converted), !.usage = row.tokens,
                 !.model = row.name]
          [] OTHER -> Carrier(row.uuid, row.ts, <<ResultBlock(row)>>)

ParsePi(rows) ==
    LET said == SelectSeq(rows, LAMBDA r: /\ r.kind = "message" /\ r.uuid # 0
                                          /\ r.role \in {"user", "assistant", "toolResult"})
    IN  Listed([i \in DOMAIN said |-> PiMessage(said[i])])

-----------------------------------------------------------------------------
(* Dsh. *)

DshStart == [messages |-> <<>>, model |-> None, usage |-> 0, title |-> 0, last |-> 0]

\* The number of a message is raised twice for each.
DshMessage(p, row, type) == NewMessage(2 * (Len(p.messages) + 1), type, row.ts)

\* Thoughts come first, empty texts are dropped.
DshBlocks(row) ==
    LET kept == SelectSeq(row.blocks, LAMBDA b: b.type = "tool" \/ b.size # 0)
        all  == Listed([i \in DOMAIN kept |-> PiBlock(kept[i])])
    IN  BlocksOf(all, "thinking") \o SelectSeq(all, LAMBDA b: b.type # "thinking")

\* The usage of the log so far is the usage of the answer, and it is counted
\* before an answer without content is left out.
DshAnswer(p, row) ==
    LET counted == [p EXCEPT !.usage = @ + row.tokens,
                             !.model = IF row.name = None THEN @ ELSE row.name]
        blocks  == DshBlocks(row)
    IN  IF blocks = <<>> THEN counted
        ELSE Say(counted, [DshMessage(p, row, "assistant") EXCEPT
                              !.content = blocks, !.calls = CallsOf(blocks), !.model = row.name,
                              !.usage = counted.usage])

DshStep(p, row) ==
    LET q == [p EXCEPT !.last = Max({@, row.ts})]
    IN  CASE row.kind = "replaced" -> p
          [] row.kind = "message" /\ row.role = "user" /\ row.size # 0 ->
             Say(q, [DshMessage(q, row, "user") EXCEPT !.meta = row.flag,
                                                       !.content = <<Block("text", row.size)>>])
          [] row.kind = "message" /\ row.role = "assistant" -> DshAnswer(q, row)
          [] row.kind = "output" ->
             Say(q, Carrier(2 * (Len(q.messages) + 1), row.ts, <<ResultBlock(row)>>))
          [] row.kind = "title" /\ row.size # 0 -> [q EXCEPT !.title = row.size]
          [] row.kind = "context" -> [q EXCEPT !.model = IF @ = None THEN row.name ELSE @]
          [] OTHER -> q

DshState(rows) == FoldLeft(DshStep, DshStart, rows)
ParseDsh(rows) == DshState(rows).messages

-----------------------------------------------------------------------------
(* Opencode: the rows of a session in its database, in the order of time.   *)
(* A message of version 1 has its parts in a table of their own.            *)

OcKept(row) == SelectSeq(row.blocks, LAMBDA b: b.type = "tool" \/ (b.type # "finish" /\ b.size # 0))
OcContent(row) == Listed([i \in DOMAIN OcKept(row) |-> PiBlock(OcKept(row)[i])])

\* A tool that still runs is answered too, with an empty text.
OcResults(row) ==
    LET tools == SelectSeq(row.blocks, LAMBDA b: b.type = "tool" /\ b.id # None)
    IN  Listed([i \in DOMAIN tools |->
                   [ResultBlock(tools[i]) EXCEPT !.size = IF tools[i].done THEN @ ELSE 0,
                                                 !.text = TextOfSize(IF tools[i].done THEN tools[i].size
                                                                     ELSE 0)]])

\* Of the finished steps of an answer only the last one counts.
LastStep(row) ==
    LET steps == SelectSeq(row.blocks, LAMBDA b: b.type = "finish")
    IN  IF steps = <<>> THEN 0 ELSE Last(steps).size

OcAnswer(row, tokens, model) ==
    LET answer == [NewMessage(2 * row.uuid, "assistant", row.ts) EXCEPT
                      !.content = OcContent(row), !.calls = CallsOf(OcContent(row)),
                      !.usage = tokens, !.model = model]
        results == OcResults(row)
    IN  IF OcContent(row) = <<>> THEN <<>>
        ELSE <<answer>> \o (IF results = <<>> THEN <<>>
                            ELSE <<Carrier(2 * row.uuid + 1, row.ts, results)>>)

OcUser(row, meta, texts) ==
    <<[NewMessage(2 * row.uuid, "user", row.ts) EXCEPT !.meta = meta, !.content = texts]>>

\* Parts put in by the tool are marked; a message of nothing else is meta.
OcUserV1(row) ==
    LET texts == SelectSeq(row.blocks, LAMBDA b: b.type = "text" /\ b.size # 0)
        typed == SelectSeq(texts, LAMBDA b: ~b.flag)
    IN  IF texts = <<>> THEN <<>>
        ELSE OcUser(row, typed = <<>>, Listed([i \in DOMAIN typed |-> PiBlock(typed[i])]))

\* The model is the one of the last answer that names it.
OcModel(rows, i) ==
    LET named == {j \in 1 .. i: rows[j].role = "assistant" /\ rows[j].name # None}
    IN  IF named = {} THEN None ELSE rows[Max(named)].name

ParseOpencodeV1(rows) ==
    LET Of(i) == CASE rows[i].role = "user" -> OcUserV1(rows[i])
                   [] rows[i].role = "assistant" ->
                      OcAnswer(rows[i], LastStep(rows[i]), OcModel(rows, i))
                   [] OTHER -> <<>>
    IN  FlattenSeq([i \in DOMAIN rows |-> Of(i)])

\* A command of the person's own shell is a call and its result.
OcShell(row) ==
    LET tool == [row EXCEPT !.name = "shell"]
        use  == <<UseBlock(tool)>>
    IN  <<[NewMessage(2 * row.uuid, "assistant", row.ts) EXCEPT !.content = use, !.calls = CallsOf(use)],
          Carrier(2 * row.uuid + 1, row.ts, <<ResultBlock(tool)>>)>>

ParseOpencodeV2(rows) ==
    LET Of(row) == CASE row.kind \in {"user", "synthetic", "system"} ->
                        IF row.size = 0 THEN <<>>
                        ELSE OcUser(row, row.kind # "user", <<Block("text", row.size)>>)
                     [] row.kind = "assistant" -> OcAnswer(row, row.tokens, row.name)
                     [] row.kind = "shell" -> OcShell(row)
                     [] OTHER -> <<>>
    IN  FlattenSeq([i \in DOMAIN rows |-> Of(rows[i])])

-----------------------------------------------------------------------------
(* What the list shows: a title (0: none) and the number of messages, where *)
(* an answer counts if it is the first after what a person or a tool said.  *)

PairCount(marks) ==
    LET said == {i \in DOMAIN marks: marks[i] = "said"}
        answered == {i \in DOMAIN marks: /\ marks[i] = "answer"
                                         /\ \E j \in said: j < i /\ \A k \in j + 1 .. i - 1: marks[k] = "skip"}
    IN  Cardinality(said) + Cardinality(answered)

HeadRows(rows) == SubSeq(rows, 1, Min({PreviewRows, Len(rows)}))
MarksOf(rows, Mark(_)) == Listed([i \in DOMAIN rows |-> Mark(rows[i])])

\* The size of the first row that Fits, 0 when there is none.
FirstText(rows, Fits(_)) ==
    LET fit == SelectSeq(rows, Fits) IN IF fit = <<>> THEN 0 ELSE fit[1].size

CodexMark(row) ==
    IF row.kind = "output" \/ (row.kind = "message" /\ row.role = "user") THEN "said"
    ELSE IF row.kind = "message" /\ row.role = "assistant" THEN "answer"
    ELSE "skip"

CodexPreview(rows) ==
    [title |-> FirstText(HeadRows(rows), LAMBDA r: r.kind = "message" /\ r.role = "user"
                                                   /\ r.size # 0 /\ ~r.flag),
     count |-> PairCount(MarksOf(HeadRows(rows), CodexMark))]

PiMark(row) ==
    IF row.kind = "message" /\ row.role \in {"user", "toolResult"} THEN "said"
    ELSE IF row.kind = "message" /\ row.role = "assistant" THEN "answer"
    ELSE "skip"

PiPreview(rows) ==
    [title |-> FirstText(HeadRows(rows), LAMBDA r: PiMark(r) = "said" /\ r.size # 0),
     count |-> PairCount(MarksOf(HeadRows(rows), PiMark))]

\* The title of the log itself, else the first text a person wrote.
DshPreview(rows) ==
    LET Typed(messages) == SelectSeq(messages, LAMBDA m: m.type = "user" /\ ~m.meta)
        Title(own, typed) == IF own # 0 THEN own ELSE IF typed = <<>> THEN 0 ELSE typed[1].content[1].size
        Of(state) == [title |-> Title(state.title, Typed(state.messages)), count |-> 0, last |-> state.last]
    IN  Of(DshState(HeadRows(rows)))

OcMarkV2(row) == CASE row.kind \in {"user", "synthetic", "shell"} -> "said"
                   [] row.kind = "assistant" -> "answer"
                   [] OTHER -> "skip"
OcMarkV1(row) == CASE row.role = "user" -> "said" [] row.role = "assistant" -> "answer" [] OTHER -> "skip"

OcPreviewV2(rows) ==
    [title |-> FirstText(rows, LAMBDA r: r.kind = "user" /\ r.size # 0),
     count |-> PairCount(MarksOf(rows, OcMarkV2))]

\* Only the first message of a person is asked for its first own text.
OcPreviewV1(rows) ==
    LET users == SelectSeq(rows, LAMBDA r: r.role = "user")
        texts == IF users = <<>> THEN <<>>
                 ELSE SelectSeq(users[1].blocks, LAMBDA b: b.type = "text" /\ ~b.flag)
    IN  [title |-> IF texts = <<>> THEN 0 ELSE texts[1].size,
         count |-> PairCount(MarksOf(rows, OcMarkV1))]
=============================================================================
