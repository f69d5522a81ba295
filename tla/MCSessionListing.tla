--------------------------- MODULE MCSessionListing ---------------------------
(***************************************************************************)
(* Files of two contexts, and what one behaviour does with them.            *)
(***************************************************************************)
EXTENDS SessionListing, Subagents, SessionDeletion

Path(ctx, agent, dir, sid) == [ctx |-> ctx, agent |-> agent, dir |-> dir, sid |-> sid,
                               zstd |-> FALSE, sub |-> FALSE]

MCPaths == <<
    Path("local", "claude", "-a", "c1"),
    Path("local", "claude", "-a", "c2"),
    Path("local", "codex", "x", "x1"),
    Path("local", "pi", "p", "p1"),
    [Path("local", "dsh", "d", "h1") EXCEPT !.zstd = TRUE],
    Path("local", "dsh", "d", "h1"),
    Path("local", "opencode", "db1", "o1"),
    [Path("local", "opencode", "db2", "o2") EXCEPT !.zstd = TRUE],
    Path("host", "claude", "-a", "c9"),
    Path("host", "pi", "p", "p9"),
    [Path("local", "claude", "-a", "c1") EXCEPT !.sub = TRUE],
    Path("local", "claude", "-o", "c3"),
    Path("local", "claude", "-a-wt", "c4") >>

MCDirs == {"-a", "-o", "-p", "-a-wt"}
MCEncode == [cwd \in {"a", "o", "w"} |-> CASE cwd = "a" -> "-a" [] cwd = "o" -> "-p" [] OTHER -> "-a-wt"]
MCDecode == [dir \in MCDirs |-> CASE dir = "-a" -> "a" [] dir = "-o" -> "o" [] dir = "-p" -> "p" [] OTHER -> "a-wt"]
MCLongerIds == {<<"-a-wt", "-a">>}
MCFacts == [cwd \in {"a", "o", "w", "p", "a-wt"} |->
               CASE cwd = "a" -> [repo |-> "r", main |-> TRUE]
                 [] cwd = "w" -> [repo |-> "r", main |-> FALSE]
                 [] OTHER -> [repo |-> None, main |-> FALSE]]

-----------------------------------------------------------------------------
(* Rows. *)

Row(kind) == [kind |-> kind, role |-> None, ts |-> 0, size |-> 0, id |-> None, name |-> None,
              error |-> FALSE, tokens |-> 0, blocks |-> <<>>, cwd |-> None, flag |-> FALSE, uuid |-> 1]
Header(kind, cwd) == [Row(kind) EXCEPT !.cwd = cwd, !.id = "h1", !.uuid = 0]
Text(role, size) == [Row("message") EXCEPT !.role = role, !.size = size]
Part(type, size) == [type |-> type, size |-> size, id |-> None, name |-> None, error |-> FALSE,
                     flag |-> FALSE, done |-> TRUE]
Tool(done) == [Part("tool", 5) EXCEPT !.id = "t", !.name = "run", !.done = done]
Parts(role, tokens, blocks) == [Row("message") EXCEPT !.role = role, !.tokens = tokens, !.blocks = blocks]

CodexRows == <<
    [Text("user", 1) EXCEPT !.flag = TRUE],
    Text("user", 2),
    Text("assistant", 3),
    [Row("call") EXCEPT !.id = "t", !.name = "run"],
    [Row("tokens") EXCEPT !.tokens = 10],
    [Row("tokens") EXCEPT !.tokens = 25] >>

CodexToolRows == <<
    Text("assistant", 3),
    [Row("reasoning") EXCEPT !.size = 4],
    [Row("call") EXCEPT !.id = "t", !.name = "run"],
    [Row("output") EXCEPT !.id = "t", !.size = 5],
    [Row("tokens") EXCEPT !.tokens = 10] >>

PiRows == <<
    Text("user", 2),
    Parts("assistant", 3, <<Part("thinking", 4), Part("text", 3)>>),
    Parts("assistant", 3, <<Tool(TRUE)>>),
    [Text("toolResult", 5) EXCEPT !.id = "t"] >>

DshRows == <<
    [Text("user", 1) EXCEPT !.flag = TRUE],
    Text("user", 2),
    [Parts("assistant", 3, <<Part("text", 3), Part("thinking", 4)>>) EXCEPT !.name = "m"],
    Parts("assistant", 4, <<Part("text", 0)>>),
    [Row("output") EXCEPT !.id = "t", !.size = 5],
    [Row("title") EXCEPT !.size = 6] >>

OcRowsV1 == <<
    Parts("user", 0, <<[Part("text", 1) EXCEPT !.flag = TRUE]>>),
    Parts("user", 0, <<Part("text", 2), [Part("text", 1) EXCEPT !.flag = TRUE]>>),
    Parts("assistant", 0, <<Part("text", 3), Tool(FALSE), Part("finish", 7)>>),
    Parts("assistant", 0, <<Part("finish", 1), Part("finish", 2)>>) >>

OcRowsV2 == <<
    [Row("user") EXCEPT !.size = 2],
    [Row("synthetic") EXCEPT !.size = 1],
    [Row("assistant") EXCEPT !.blocks = <<Part("text", 3), Tool(TRUE)>>, !.tokens = 4],
    [Row("shell") EXCEPT !.id = "t", !.size = 5] >>

Entry(type, size, cwd) ==
    [type |-> type, uuid |-> 1, ts |-> 1, content |-> <<Block("text", size)>>, string |-> FALSE, side |-> FALSE,
     meta |-> FALSE, model |-> IF type = "assistant" THEN "m" ELSE None, rid |-> None, usage |-> 0,
     agent |-> FALSE, source |-> None, rejected |-> FALSE, compact |-> FALSE, cwd |-> cwd]

ClaudeRows == << Entry("user", 2, "a"), Entry("assistant", 3, None) >>

-----------------------------------------------------------------------------
(* Files. *)

NoFile == [there |-> FALSE, lines |-> <<>>, mtime |-> 0, open |-> TRUE]
File(mtime, lines) == [there |-> TRUE, lines |-> lines, mtime |-> mtime, open |-> TRUE]

Claude(mtime, cwd) == File(mtime, << Entry("user", 2, cwd), [Entry("assistant", 3, None) EXCEPT !.uuid = 2] >>)
FilesAt(pairs) == [p \in DOMAIN MCPaths |-> IF p \in DOMAIN pairs THEN pairs[p] ELSE NoFile]

NoRows == [p \in DOMAIN MCPaths |-> <<>>]
RowsFor(rows) == [p \in DOMAIN MCPaths |-> IF p \in DOMAIN rows THEN rows[p] ELSE <<>>]

Call(op, dir, after, about) == [op |-> op, dir |-> dir, after |-> after, about |-> about, file |-> 0]
List(after, about) == Call("list", "-a", after, about)
Page(after, about) == Call("page", "-a", after, about)

Start == [files |-> FilesAt(1 :> NoFile), rows |-> NoRows, lines |-> 4, clock |-> 0, calls |-> <<>>,
          active |-> "local", switches |-> {}, removed |-> {}, todo |-> FALSE, expire |-> FALSE, slow |-> FALSE, fails |-> 0, about |-> "calls"]

Race == [Start EXCEPT
    !.files = FilesAt(1 :> Claude(1, "a") @@ 2 :> Claude(2, "a")),
    !.rows = RowsFor(1 :> ClaudeRows), !.lines = 3, !.clock = 3,
    !.calls = <<List(0, {1, 2}), List(0, {1, 2}), Call("projects", "-a", 0, {})>>, !.todo = TRUE]

Switching == [Start EXCEPT
    !.files = FilesAt(1 :> Claude(1, "a") @@ 9 :> Claude(2, "a")),
    !.rows = RowsFor(1 :> ClaudeRows), !.lines = 3, !.clock = 3,
    !.calls = <<List(0, {1, 9}), List(1, {1, 9})>>, !.switches = {"local", "host"}]

Others == [Start EXCEPT
    !.files = FilesAt(1 :> Claude(1, "a") @@ 3 :> File(2, <<Header("session_meta", "a"), Text("user", 2)>>)),
    !.rows = RowsFor(3 :> <<Text("assistant", 3)>> @@ 4 :> <<Header("session", "a")>>), !.lines = 3, !.clock = 3,
    !.calls = <<List(0, {1, 3, 4}), List(1, {1, 3, 4})>>, !.expire = TRUE]

Expiring == [Start EXCEPT
    !.files = FilesAt(1 :> Claude(1, "a")), !.clock = 1,
    !.calls = <<List(0, {1}), Call("projects", "-a", 0, {})>>, !.expire = TRUE]

\* The files of a project name another directory than the one it is called
\* after, and two reads may fail.
Moved == [Start EXCEPT
    !.files = FilesAt(1 :> Claude(1, "o") @@ 3 :> File(2, <<Header("session_meta", "o")>>)),
    !.rows = RowsFor(1 :> ClaudeRows @@ 3 :> <<Text("user", 2)>>), !.lines = 3, !.clock = 4,
    !.calls = <<List(0, {1, 3}), List(1, {1, 3})>>, !.fails = 2]

Siblings == [Start EXCEPT
    !.files = FilesAt(5 :> File(1, <<Header("session", "a"), Text("user", 2)>>)
                      @@ 6 :> File(2, <<Header("session", "a"), Text("user", 2)>>)),
    !.rows = RowsFor(5 :> <<Text("user", 3)>> @@ 6 :> <<Text("user", 3)>>), !.lines = 3, !.clock = 4,
    !.calls = <<List(0, {5, 6}), List(0, {5, 6})>>]

Paging == [Start EXCEPT
    !.files = FilesAt(1 :> Claude(1, "a") @@ 2 :> Claude(2, "a")
                      @@ 3 :> File(3, <<Header("session_meta", "a"), Text("user", 2)>>)),
    !.rows = RowsFor(1 :> ClaudeRows @@ 2 :> ClaudeRows), !.lines = 3, !.clock = 4,
    !.calls = <<Page(0, {1, 2, 3}), Page(1, {1, 2, 3}), Page(2, {1, 2, 3})>>, !.removed = {2, 3}, !.fails = 1]

Searching == [Start EXCEPT
    !.files = FilesAt(9 :> File(1, <<Entry("user", 2, "a")>>) @@ 10 :> File(2, <<Header("session", "a")>>)),
    !.rows = RowsFor(9 :> ClaudeRows), !.lines = 4, !.clock = 4, !.active = "host",
    !.calls = <<Call("search", "-a", 0, {}), Call("search", "-a", 1, {})>>, !.slow = TRUE, !.removed = {9}, !.fails = 1]

Details == [Start EXCEPT
    !.files = FilesAt(1 :> Claude(1, "a") @@ 11 :> Claude(2, "a")),
    !.rows = RowsFor(11 :> ClaudeRows), !.lines = 4, !.clock = 4, !.fails = 1,
    !.calls = <<[Call("detail", "-a", 0, {}) EXCEPT !.file = 11], [Call("detail", "-a", 0, {}) EXCEPT !.file = 11],
                [Call("detail", "-a", 1, {}) EXCEPT !.file = 11]>>]

Grow(p, header, rows, n) == [Start EXCEPT
    !.files = FilesAt(p :> File(1, <<header>>)), !.rows = RowsFor(p :> rows), !.lines = n, !.clock = 9, !.active = "host",
    !.about = "log"]

Merging == [Start EXCEPT
    !.files = FilesAt(3 :> File(1, <<Header("session_meta", "o")>>) @@ 4 :> File(2, <<Header("session", "w")>>)),
    !.rows = RowsFor(1 :> ClaudeRows @@ 12 :> <<Entry("user", 2, "o"), Entry("assistant", 3, None)>>
                     @@ 13 :> <<Entry("user", 2, "w")>>),
    !.lines = 2, !.clock = 6, !.active = "host", !.about = "projects"]

MCScenarios == << Race, Switching, Others, Moved, Expiring, Siblings, Paging, Searching, Details, Merging,
                  Grow(3, Header("session_meta", "a"), CodexRows, 5),
                  Grow(3, Header("session_meta", "a"), CodexToolRows, 5),
                  Grow(4, Header("session", "a"), PiRows, 5),
                  Grow(5, Header("session", "a"), DshRows, 5),
                  Grow(7, Header("row", "a"), OcRowsV1, 5),
                  Grow(8, Header("row", "a"), OcRowsV2, 5),
                  [Start EXCEPT !.lines = 0] >>

-----------------------------------------------------------------------------
(* A session with subagents: the first goes on as the second, one that an   *)
(* answer names is in both places, and another one of its own.              *)

Task(id, desc, team) == [id |-> id, desc |-> desc, team |-> team, member |-> team]
MCTasks == << Task("t1", "scout", "red"), Task("t2", "look", None), Task("t3", "read", None) >>

Sub(name, new, summary, parent, last) ==
    [there |-> FALSE, new |-> new, dir |-> "c1", owner |-> "c1", name |-> name, compact |-> FALSE, warmup |-> FALSE,
     times |-> {}, summary |-> summary, parent |-> parent, prev |-> None, last |-> last]
MCFiles == << Sub("s1", TRUE, "scout", None, "m1"), Sub("s2", TRUE, None, "m1", "m2"),
              Sub("s3", TRUE, None, None, "m3"), Sub("s3", FALSE, None, None, "m3"),
              Sub("s4", FALSE, "scout", None, "m4") >>
Note(task, agent) == [task |-> task, source |-> TRUE, agent |-> agent, spawned |-> TRUE, color |-> "red"]
MCNotes == << Note("t2", "s3"), Note("t1", "s1") >>

-----------------------------------------------------------------------------
MCArtifacts == << {"main", "directory"}, {"main", "todos", "plans"} >>

\* The three do not meet: the last scenario leaves the files alone, for the
\* behaviours that write one session with its subagents or delete sessions.
Apart == S.lines = 0

Untouched == del.runs = 0 /\ del.index = "clean" /\ del.left = MCArtifacts[1] /\ ~del.host

MCInit == Init /\ CrewInit /\ DeletionInit /\ (~Apart => Untouched)
MCNext ==
    \/ ~Apart /\ Next /\ UNCHANGED <<crew, del>>
    \/ Apart /\ CrewNext /\ Untouched /\ UNCHANGED <<vars, del>>
    \/ Apart /\ DeletionNext /\ crew.clock = 0 /\ crew.calls = <<>> /\ crew.notes = <<>> /\ UNCHANGED <<vars, crew>>
MCSpec == MCInit /\ [][MCNext]_<<vars, crew, del>>
=============================================================================
