----------------------------- MODULE SessionFiles -----------------------------
(***************************************************************************)
(* From files to lists: which files hold a session, what a list shows of    *)
(* one, how projects of several agents are merged, how a session is found   *)
(* again from a project and an id, how a project is searched, and how       *)
(* projects become groups of one repository (discovery/project_scanner.rs,  *)
(* session_searcher.rs, worktree_grouper.rs and the functions of            *)
(* agents/mod.rs that keep no state).                                       *)
(*                                                                         *)
(* A path is a number, and Paths tells its context, agent, directory and    *)
(* session id.  disk maps a path to its file: whether it is there, its      *)
(* lines, its time of change mtime, and for a database whether it opens.    *)
(***************************************************************************)
EXTENDS AgentLogs, ChunkBuilder

CONSTANTS
    Paths,       \* the paths there can be, in the order a directory is read
    Encode,      \* the project id a working directory is encoded to
    Decode,      \* the working directory a project id is decoded to
    CwdRows,     \* how many rows are read for the working directory of a project
    StageLimits  \* after how many files a remote search may stop

ASSUME FilesAssumption ==
    /\ CwdRows \in Nat \ {0}
    /\ \A p \in DOMAIN Paths: Paths[p].agent \in Agents /\ {Paths[p].zstd, Paths[p].sub} \subseteq BOOLEAN

PathIds == DOMAIN Paths
Extras == <<"codex", "opencode", "pi", "dsh">>

\* The paths that hold a file and fit, in the order of the directory.
FilesWhere(disk, Fits(_)) ==
    SelectSeq(Listed([p \in PathIds |-> p]), LAMBDA p: disk[p].there /\ Fits(p))

\* Sorted by a key, the largest first.
LatestFirst(s, Key(_)) == Reverse(StableSortBy(Reverse(s), Key))

-----------------------------------------------------------------------------
(* Claude sessions. *)

ClaudeFiles(disk, c, dir) ==
    FilesWhere(disk, LAMBDA p: Paths[p].ctx = c /\ Paths[p].agent = "claude" /\ ~Paths[p].sub
                             /\ Paths[p].dir = dir)

ClaudeDirs(disk, c) ==
    {Paths[p].dir : p \in {q \in PathIds: /\ disk[q].there /\ ~Paths[q].sub
                                         /\ Paths[q].ctx = c /\ Paths[q].agent = "claude"}}

\* The filter looks for the text of a user's line where no line has it: of
\* these lines only the meta ones show anything.
HasNonNoiseMessages(lines) ==
    \E i \in DOMAIN HeadRows(lines):
        /\ ~lines[i].side
        /\ \/ lines[i].type = "assistant" /\ lines[i].model # "<synthetic>"
           \/ lines[i].type = "user" /\ lines[i].meta

ClaudeMark(e) ==
    IF e.type = "user" /\ ~e.side THEN "said"
    ELSE IF e.type = "assistant" /\ ~e.side THEN "answer"
    ELSE "skip"

\* The text of a user's line, none for a list of results only.
LineText(e) ==
    IF e.string THEN SubSeq(e.content, 1, 1)
    ELSE LET texts == BlocksOf(e.content, "text") IN SubSeq(texts, 1, Min({1, Len(texts)}))

\* The title: the first text a person wrote, else the first command. Output
\* of commands, interruptions and texts put in by the tool are passed over.
TitleOf(texts) ==
    LET real     == SelectSeq(texts, LAMBDA b: b.text \in {"plain", "reminderThenText", "teammate"})
        commands == SelectSeq(texts, LAMBDA b: b.text = "command")
    IN  IF real # <<>> THEN real[1].size
        ELSE IF commands # <<>> THEN commands[1].size
        ELSE 0

ExtractSessionPreview(lines) ==
    LET head == HeadRows(lines)
        cwds == SelectSeq(head, LAMBDA e: e.cwd # None)
        users == SelectSeq(head, LAMBDA e: e.type = "user")
    IN  [cwd   |-> IF cwds = <<>> THEN None ELSE cwds[1].cwd,
         count |-> PairCount(MarksOf(head, ClaudeMark)),
         title |-> TitleOf(FlattenSeq([i \in DOMAIN users |-> LineText(users[i])])),
         tasks |-> \E i \in DOMAIN head: /\ ~head[i].string
                                         /\ \E k \in DOMAIN head[i].content:
                                               /\ head[i].content[k].type = "tool_use"
                                               /\ head[i].content[k].name = "Task"]

\* A row of a list: file and mtime tell which file it is about, and of when.
SessionRow(p, id, mtime, cwd, title, count) ==
    [file |-> p, id |-> id, agent |-> Paths[p].agent, cwd |-> cwd, mtime |-> mtime, updated |-> mtime,
     title |-> title, count |-> count]

\* A local session of nothing but noise, and one without text and messages,
\* is not listed.
BuildSessionForListing(remote, p, mtime, file) ==
    LET Cwd(cwd) == IF cwd = None THEN Decode[Paths[p].dir] ELSE cwd
        Row(preview) ==
            IF preview.count = 0 /\ preview.title = 0 THEN <<>>
            ELSE <<SessionRow(p, Paths[p].sid, mtime, Cwd(preview.cwd), preview.title, preview.count)>>
    IN  IF file.there /\ (remote \/ HasNonNoiseMessages(file.lines))
        THEN Row(ExtractSessionPreview(file.lines)) ELSE <<>>

\* The files of a project with their times, as they come and the last changed first.
ClaudeInfos(disk, c, dir) ==
    LET files == ClaudeFiles(disk, c, dir)
    IN  Listed([i \in DOMAIN files |-> [file |-> files[i], mtime |-> disk[files[i]].mtime]])

CollectSessionFiles(disk, c, dir) == LatestFirst(ClaudeInfos(disk, c, dir), LAMBDA f: f.mtime)

ListSessions(disk, remote, infos) ==
    FlattenSeq([i \in DOMAIN infos |->
        BuildSessionForListing(remote, infos[i].file, infos[i].mtime, disk[infos[i].file])])

GetSessionById(disk, c, remote, dir, sid) ==
    LET files == SelectSeq(ClaudeFiles(disk, c, dir), LAMBDA p: Paths[p].sid = sid)
    IN  IF files = <<>> THEN <<>>
        ELSE BuildSessionForListing(remote, files[1], disk[files[1]].mtime, disk[files[1]])

\* A project: all its files, whether a list shows them or not.
ScanProject(disk, c, dir) ==
    LET files == ClaudeFiles(disk, c, dir)
        cwds  == SelectSeq(Listed([i \in DOMAIN files |-> ExtractSessionPreview(disk[files[i]].lines).cwd]),
                           LAMBDA cwd: cwd # None)
    IN  IF files = <<>> THEN <<>>
        ELSE <<[id |-> dir, cwd |-> IF cwds = <<>> THEN Decode[dir] ELSE cwds[1],
                sessions |-> Listed([i \in DOMAIN files |-> Paths[files[i]].sid]),
                recent |-> Max({disk[files[i]].mtime : i \in DOMAIN files})]>>

Scan(disk, c) ==
    LET dirs == SetToSeq(ClaudeDirs(disk, c))
    IN  LatestFirst(FlattenSeq([i \in DOMAIN dirs |-> ScanProject(disk, c, dirs[i])]), LAMBDA p: p.recent)

-----------------------------------------------------------------------------
(* Sessions of other agents. *)

\* What the first line of a log says of it.
LogHead(p, file) ==
    LET kind == CASE Paths[p].agent = "codex" -> "session_meta"
                  [] Paths[p].agent = "opencode" -> "row"
                  [] OTHER -> "session"
        first == file.lines[1]
    IN  IF /\ file.there /\ file.lines # <<>> /\ first.kind = kind
           /\ Paths[p].agent \in {"dsh", "opencode"} \/ first.cwd # None
        THEN <<[id |-> IF Paths[p].agent = "dsh" THEN first.id ELSE Paths[p].sid,
                cwd |-> first.cwd, sub |-> first.flag]>>
        ELSE <<>>

\* Of two copies of a dsh log in one directory the newer one holds; of two
\* of the same age the compressed one.
StaleSiblingLoses(disk, p) ==
    \A q \in PathIds \ {p}:
        Paths[q].agent = "dsh" /\ Paths[q].ctx = Paths[p].ctx /\ Paths[q].dir = Paths[p].dir /\ disk[q].there =>
            disk[q].mtime < disk[p].mtime \/ (disk[q].mtime = disk[p].mtime /\ Paths[p].zstd)

IsListed(disk, p) ==
    CASE Paths[p].agent = "dsh" ->
           /\ StaleSiblingLoses(disk, p)
           /\ LogHead(p, disk[p]) # <<>> /\ ~LogHead(p, disk[p])[1].sub
      [] Paths[p].agent = "opencode" ->
           disk[p].open /\ LogHead(p, disk[p]) # <<>> /\ LogHead(p, disk[p])[1].cwd # None /\ ~LogHead(p, disk[p])[1].sub
      [] OTHER -> LogHead(p, disk[p]) # <<>>

EntryOf(disk, p) ==
    [file |-> p, id |-> LogHead(p, disk[p])[1].id, cwd |-> LogHead(p, disk[p])[1].cwd, mtime |-> disk[p].mtime]

\* The databases of opencode cannot be read over SSH.
ScanSessions(disk, c, remote, agent) ==
    LET found == FilesWhere(disk, LAMBDA p: Paths[p].ctx = c /\ Paths[p].agent = agent /\ IsListed(disk, p))
    IN  IF agent = "opencode" /\ remote THEN <<>>
        ELSE Listed([i \in DOMAIN found |-> EntryOf(disk, found[i])])

\* The first rows of a project's first file that name a working directory.
ClaudeProjectCwd(disk, c, dir) ==
    LET files == ClaudeFiles(disk, c, dir)
        rows  == IF files = <<>> THEN <<>>
                 ELSE SelectSeq(SubSeq(disk[files[1]].lines, 1, Min({CwdRows, Len(disk[files[1]].lines)})),
                                LAMBDA e: e.cwd # None)
    IN  IF rows = <<>> THEN None ELSE rows[1].cwd

EncodeCwd(cwd) == IF cwd = None THEN None ELSE Encode[cwd]

\* Mutant: only the encoded id counts.
EntryBelongsToById(e, dir, cwd) == EncodeCwd(e.cwd) = dir

EntryBelongsTo(e, dir, cwd) == (cwd # None /\ cwd = e.cwd) \/ EncodeCwd(e.cwd) = dir

\* The preview of a log: it is read when the list is made, and shows the
\* time the log had when it was found.
OpencodeRows(file) == Tail(file.lines)
IsV2(p) == Paths[p].zstd

PreviewOf(p, file) ==
    CASE Paths[p].agent = "codex" -> CodexPreview(file.lines)
      [] Paths[p].agent = "pi" -> PiPreview(file.lines)
      [] Paths[p].agent = "dsh" -> DshPreview(file.lines)
      [] OTHER -> LET own == IF IsV2(p) THEN OcPreviewV2(OpencodeRows(file)) ELSE OcPreviewV1(OpencodeRows(file))
                  IN  [own EXCEPT !.title = IF @ = 0 THEN file.lines[1].size ELSE @]

IsReadable(disk, e) ==
    /\ disk[e.file].there
    /\ Paths[e.file].agent = "dsh" => LogHead(e.file, disk[e.file]) # <<>>
    /\ Paths[e.file].agent = "opencode" => disk[e.file].open

\* A pi log that cannot be read any more keeps its place without a preview;
\* a dsh log was last changed at the last time its head names.
LightSession(disk, e) ==
    LET Row(p) == SessionRow(e.file, e.id, e.mtime, e.cwd, p.title, p.count)
        From(p) == IF Paths[e.file].agent = "dsh" /\ p.last > 0 THEN [Row(p) EXCEPT !.updated = p.last] ELSE Row(p)
    IN  IF IsReadable(disk, e) THEN <<From(PreviewOf(e.file, disk[e.file]))>>
        ELSE IF Paths[e.file].agent = "pi" THEN <<SessionRow(e.file, e.id, e.mtime, e.cwd, 0, 0)>>
        ELSE <<>>

-----------------------------------------------------------------------------
(* Projects of all agents: those with the working directory of a Claude     *)
(* project are merged into it.                                              *)

MergeExtraProjects(claude, entries) ==
    LET Ids(rows) == Listed([i \in DOMAIN rows |-> rows[i].id])
        IdsIn(cwd) == Ids(SelectSeq(entries, LAMBDA e: e.cwd = cwd))
        RecentIn(cwd) == Max({entries[i].mtime : i \in {k \in DOMAIN entries: entries[k].cwd = cwd}})
        cwds == {entries[i].cwd : i \in DOMAIN entries}
        First(cwd) == Min({i \in DOMAIN claude: claude[i].cwd = cwd})
        Grown(i) ==
            LET p == claude[i]
            IN  IF p.cwd \notin cwds \/ First(p.cwd) # i THEN p
                ELSE [p EXCEPT !.sessions = @ \o SelectSeq(IdsIn(p.cwd), LAMBDA id: id \notin ToSet(p.sessions)),
                               !.recent = Max({@, RecentIn(p.cwd)})]
        own == SetToSeq({cwd \in cwds: \A i \in DOMAIN claude: claude[i].cwd # cwd})
        new == Listed([k \in DOMAIN own |-> [id |-> EncodeCwd(own[k]), cwd |-> own[k],
                                              sessions |-> IdsIn(own[k]), recent |-> RecentIn(own[k])]])
    IN  LatestFirst(Listed([i \in DOMAIN claude |-> Grown(i)]) \o new, LAMBDA p: p.recent)

AppendSessions(claude, extra) == LatestFirst(claude \o extra, LAMBDA s: s.updated)

-----------------------------------------------------------------------------
(* A session is found again from its project and its id. *)

LocateSession(disk, c, agent, dir, cwd, sid) ==
    LET Matches(p) == LogHead(p, disk[p]) # <<>> /\ LogHead(p, disk[p])[1].id = sid
                      /\ EntryBelongsTo(LogHead(p, disk[p])[1], dir, cwd)
        \* A database that does not open ends the search.
        Reached(p) == agent = "opencode" =>
            \A q \in 1 .. p: Paths[q].ctx = c /\ Paths[q].agent = agent /\ disk[q].there => disk[q].open
    IN  FilesWhere(disk, LAMBDA p: Paths[p].ctx = c /\ Paths[p].agent = agent /\ Reached(p) /\ Matches(p))

LocateExtraSession(disk, c, remote, dir, cwd, sid) ==
    FlattenSeq([k \in DOMAIN Extras |->
        IF remote /\ Extras[k] = "opencode" THEN <<>> ELSE LocateSession(disk, c, Extras[k], dir, cwd, sid)])

\* The path of a session, 0 when there is no file.
SessionPath(disk, c, remote, dir, cwd, sid) ==
    LET Path(found) == IF found = <<>> THEN 0 ELSE found[1]
    IN  Path(SelectSeq(ClaudeFiles(disk, c, dir), LAMBDA p: Paths[p].sid = sid)
             \o LocateExtraSession(disk, c, remote, dir, cwd, sid))

\* The messages of a file, by the agent its path belongs to.
ParseMessages(p, file) ==
    IF ~file.there \/ file.lines = <<>> THEN <<>>
    ELSE CASE Paths[p].agent = "claude" -> DeduplicateByRequestId(ParseLines(file.lines))
           [] Paths[p].agent = "codex" -> ParseCodex(file.lines)
           [] Paths[p].agent = "pi" -> ParsePi(file.lines)
           [] Paths[p].agent = "dsh" -> ParseDsh(file.lines)
           [] OTHER -> IF ~file.open THEN <<>>
                       ELSE IF IsV2(p) THEN ParseOpencodeV2(OpencodeRows(file))
                       ELSE ParseOpencodeV1(OpencodeRows(file))

-----------------------------------------------------------------------------
(* Groups of one repository: facts tells the repository (None: none) of a   *)
(* working directory, and whether it is the main worktree; what is known of *)
(* a project is kept under its id.                                          *)

SumOfLengths(projects) == FoldLeft(LAMBDA n, p: n + Len(p.sessions), 0, projects)

GroupByRepository(projects, facts) ==
    LET OfId(id) == facts[projects[Max({i \in DOMAIN projects: projects[i].id = id})].cwd]
        Key(p) == IF OfId(p.id).repo = None THEN p.id ELSE OfId(p.id).repo
        Trees(key) == SelectSeq(projects, LAMBDA p: Key(p) = key /\ p.sessions # <<>>)
        Main(trees) == SelectSeq(trees, LAMBDA p: OfId(p.id).main)
        Rest(trees) == SelectSeq(trees, LAMBDA p: ~OfId(p.id).main)
        Sorted(trees) == LatestFirst(Main(trees), LAMBDA p: p.recent) \o LatestFirst(Rest(trees), LAMBDA p: p.recent)
        keys == SetToSeq({Key(projects[i]) : i \in {k \in DOMAIN projects: projects[k].sessions # <<>>}})
        Group(k, trees) == [id |-> k, worktrees |-> Sorted(trees), total |-> SumOfLengths(trees),
                            recent |-> Max({trees[i].recent : i \in DOMAIN trees})]
    IN  LatestFirst(Listed([n \in DOMAIN keys |-> Group(keys[n], Trees(keys[n]))]), LAMBDA g: g.recent)

-----------------------------------------------------------------------------
(* Search. *)

\* What a search looks at in a session: the texts of persons and, of each
\* group of answers, the last text. Texts put in by the tool are not there.
ExtractSearchableEntries(lines) ==
    LET msgs   == Listed(DeduplicateByRequestId(ParseLines(lines)))
        Ai(i)  == Classify(msgs[i]) = "ai"
        starts == {i \in DOMAIN msgs: i = 1 \/ ~Ai(i) \/ ~Ai(i - 1)}
        End(i) == Min({j \in starts: j > i} \cup {Len(msgs) + 1}) - 1
        Texts(s) == FlattenSeq([i \in DOMAIN s |-> SelectSeq(s[i].content, LAMBDA b: b.type = "text" /\ b.size # 0)])
        Of(i) == IF Ai(i)
                 THEN LET said == Texts(SelectSeq(SubSeq(msgs, i, End(i)), LAMBDA m: m.type = "assistant"))
                      IN  IF said = <<>> THEN <<>> ELSE <<Last(said).size>>
                 ELSE IF Classify(msgs[i]) = "user" /\ Texts(<<msgs[i]>>) # <<>>
                 THEN <<Texts(<<msgs[i]>>)[1].size>>
                 ELSE <<>>
    IN  FlattenSeq([i \in DOMAIN msgs |-> IF i \in starts THEN Of(i) ELSE <<>>])

\* The searcher reads every file with the parser for Claude's, and a database
\* not at all.
Readable(p, file) == file.there /\ Paths[p].agent # "opencode"
SearchableEntries(p, file) ==
    IF Paths[p].agent = "claude" THEN ExtractSearchableEntries(file.lines) ELSE <<>>

\* The files a search goes through, the last changed first.
SearchFiles(claude, extra) ==
    LatestFirst(claude \o Listed([i \in DOMAIN extra |-> [file |-> extra[i].file, mtime |-> extra[i].mtime]]),
                LAMBDA f: f.mtime)

\* The places where a remote search may stop.
StageBoundaries(total) == {limit \in StageLimits: limit < total}

-----------------------------------------------------------------------------
(* A session is found by its id in any project.                             *)

AllEntriesOf(disk, c, remote) == FlattenSeq([k \in DOMAIN Extras |-> ScanSessions(disk, c, remote, Extras[k])])

\* The project of another agent's session: the first of Claude's with its
\* working directory, else the one it is encoded to.
ResolvedProject(disk, c, cwd) ==
    LET same == SelectSeq(SetToSeq(ClaudeDirs(disk, c)), LAMBDA d: ClaudeProjectCwd(disk, c, d) = cwd)
    IN  IF same = <<>> THEN EncodeCwd(cwd) ELSE same[1]

FindExtraSessions(disk, c, remote, sid) ==
    LET found == SelectSeq(AllEntriesOf(disk, c, remote), LAMBDA e:
                    e.id = sid /\ (IsReadable(disk, e) \/ Paths[e.file].agent = "pi"))
    IN  Listed([i \in DOMAIN found |-> [project |-> ResolvedProject(disk, c, found[i].cwd), file |-> found[i].file]])

First(rows) == SubSeq(rows, 1, Min({1, Len(rows)}))

\* A file of Claude's with that id ends the search, shown or not.
FindSessionById(disk, c, remote, sid) ==
    LET dirs == SelectSeq(SetToSeq(ClaudeDirs(disk, c)), LAMBDA d: \E p \in PathIds:
                    /\ disk[p].there /\ Paths[p].ctx = c /\ Paths[p].agent = "claude" /\ ~Paths[p].sub
                    /\ Paths[p].dir = d /\ Paths[p].sid = sid)
        Mine(rows) == Listed([i \in DOMAIN rows |-> [project |-> dirs[1], file |-> rows[i].file]])
    IN  IF dirs # <<>> THEN Mine(GetSessionById(disk, c, remote, dirs[1], sid))
        ELSE First(FindExtraSessions(disk, c, remote, sid))
=============================================================================
