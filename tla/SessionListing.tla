---------------------------- MODULE SessionListing ----------------------------
(***************************************************************************)
(* The lists of the program and their caches: projects and sessions         *)
(* (services/project_service.rs, infrastructure/listing_cache.rs and the    *)
(* aggregation of agents/mod.rs), the pages of a list (session_service.rs), *)
(* the search in a project (session_searcher.rs) and the detail of a        *)
(* subagent (subagent_service.rs).                                          *)
(*                                                                         *)
(* A call takes the active context when it is asked (deps) and a second     *)
(* time when it scans (from). What is cached is cached under the first.     *)
(* Files are written by the agents meanwhile; the watcher tells of changes  *)
(* of the active context, and handling the change drops what is cached.     *)
(* Any read may fail: the code goes on without what it could not read, says *)
(* nothing of it, and keeps what it has.                                    *)
(***************************************************************************)
EXTENDS SessionFiles

CONSTANTS
    Contexts,    \* the local context and those of hosts
    Remote,      \* those of hosts
    Dirs,        \* project ids
    LongerIds,   \* pairs of project ids of which the first begins with the second
    Scenarios,   \* what one behaviour starts from and may do
    PageLimit,   \* sessions on a page
    Query,       \* the text that is searched for
    MaxResults,  \* of one search
    MinResults,  \* SSH_FAST_SEARCH_MIN_RESULTS
    Facts        \* the repository of a working directory, and whether it is the main worktree

ASSUME ListingAssumption ==
    /\ Remote \subseteq Contexts
    /\ {PageLimit, MaxResults, MinResults} \subseteq Nat \ {0}

VARIABLES
    scenario,  \* one of the Scenarios
    disk,      \* the files
    clock,     \* the time of the last change
    active,    \* the active context
    events,    \* the files the watcher has seen changed, not handled yet
    listing,   \* ListingCache: sessions by context and project, projects by context
    agg,       \* AggCache: scan, root_exists, light, claude_cwd
    looked,    \* the searcher's cache
    details,   \* the subagents' part of DataCache
    flight,    \* the locks: who scans sessions, projects, other agents, who searches
    calls,     \* the calls and how far they are
    walk,      \* the pages of one list: cursor, ended, and what they showed
    known,     \* the promise, see ListingPromise
    failures   \* what each read that failed has left out

vars == <<scenario, disk, clock, active, events, listing, agg, looked, details, flight, calls, walk, known, failures>>

S == scenario
CallIds == DOMAIN S.calls
IsRemote(c) == c \in Remote

Idle == [pc |-> "idle", deps |-> None, from |-> None, infos |-> <<>>, base |-> <<>>, cwd |-> None,
         entries |-> <<>>, fresh |-> {}, answer |-> <<>>, files |-> <<>>, partial |-> FALSE,
         since |-> 0, missed |-> {}]

Init ==
    /\ \E i \in DOMAIN Scenarios: scenario = Scenarios[i]
    /\ disk = S.files
    /\ clock = Max({S.files[p].mtime : p \in PathIds})
    /\ active = S.active
    /\ events = {}
    /\ listing = [sessions |-> [k \in Contexts \X Dirs |-> <<>>], projects |-> [c \in Contexts |-> <<>>]]
    /\ agg = [scan |-> [k \in Contexts \X ToSet(Extras) |-> <<>>],
              root |-> [k \in Contexts \X ToSet(Extras) |-> <<>>],
              light |-> [p \in PathIds |-> <<>>],
              cwd |-> [k \in Contexts \X Dirs |-> <<>>]]
    /\ looked = [p \in PathIds |-> <<>>]
    /\ details = [p \in PathIds |-> <<>>]
    /\ flight = [sessions |-> 0, projects |-> 0, scan |-> 0, search |-> 0]
    /\ calls = [c \in CallIds |-> Idle]
    /\ walk = [cursor |-> 0, ended |-> FALSE, seen |-> {}, since |-> 0]
    /\ known = [p \in PathIds |-> 0]
    /\ failures = <<>>

AtWork == {c \in CallIds: calls[c].pc \notin {"idle", "done"}}

-----------------------------------------------------------------------------
(* Reads that fail. What a step reads are files with their places and their *)
(* lines; one that fails does not see the lines of some, or finds some not  *)
(* there.                                                                   *)

\* At most S.fails steps of a behaviour fail.
Losses(files) == IF Len(failures) < S.fails THEN SUBSET {p \in files: disk[p].there} ELSE {{}}

Unread(lost) == [p \in PathIds |-> IF p \in lost THEN [disk[p] EXCEPT !.lines = <<>>] ELSE disk[p]]
Unlisted(lost) == [p \in PathIds |-> IF p \in lost THEN [disk[p] EXCEPT !.there = FALSE, !.mtime = 0] ELSE disk[p]]

\* A directory is listed with all its files or not at all; of the two copies of
\* a dsh log each is looked at.
Beside(p) == {q \in PathIds: /\ Paths[q].ctx = Paths[p].ctx /\ Paths[q].agent = Paths[p].agent
                             /\ Paths[q].dir = Paths[p].dir /\ Paths[p].agent # "dsh"}
Sights(lost) == {Unread(lost)} \cup (IF \A p \in lost: Beside(p) \subseteq lost THEN {Unlisted(lost)} ELSE {})

FilesOf(ctx, agents) == {p \in PathIds: Paths[p].ctx = ctx /\ Paths[p].agent \in agents}

\* What was left out is remembered when it made a difference.
Miss(files) == failures' = IF files = {} THEN failures ELSE Append(failures, files)

\* What is kept without these files is promised to nobody.
MissAndKeep(files) ==
    /\ Miss(files)
    /\ known' = [p \in PathIds |-> IF p \in files THEN 0 ELSE known[p]]

-----------------------------------------------------------------------------
(* Files change, and the watcher of the active context sees it: never a     *)
(* database, and over SSH no log of codex and no subagent's file.           *)

Watched(p) ==
    /\ Paths[p].ctx = active
    /\ Paths[p].agent # "opencode"
    /\ Paths[p].agent = "codex" \/ Paths[p].sub => ~IsRemote(active)

Seen(p) == IF Watched(p) THEN events \cup {p} ELSE events

\* What a changed file may hide: a copy of the same log.
HiddenBy(p) == {q \in PathIds: Paths[p].agent = "dsh" /\ Paths[q].agent = "dsh" /\ Paths[q].dir = Paths[p].dir}

\* A row is written; rows of a message have their own number.
Write(p) ==
    /\ Len(disk[p].lines) < S.lines
    /\ clock < S.clock
    /\ \E i \in DOMAIN S.rows[p]:
         LET row == S.rows[p][i]
             new == IF row.uuid = 0 THEN row ELSE [row EXCEPT !.uuid = Len(disk[p].lines) + 1]
         IN  disk' = [disk EXCEPT ![p].there = TRUE, ![p].lines = Append(@, new), ![p].mtime = clock + 1]
    /\ clock' = clock + 1
    /\ events' = Seen(p)
    /\ known' = [q \in PathIds |-> IF q \in HiddenBy(p) THEN 0 ELSE known[q]]
    /\ UNCHANGED <<scenario, active, listing, agg, looked, details, flight, calls, walk, failures>>

\* A file is removed.
RemoveFile(p) ==
    /\ p \in S.removed /\ disk[p].there
    /\ disk' = [disk EXCEPT ![p].there = FALSE, ![p].mtime = clock + 1]
    /\ clock' = clock + 1
    /\ events' = Seen(p)
    /\ known' = [known EXCEPT ![p] = 0]
    /\ UNCHANGED <<scenario, active, listing, agg, looked, details, flight, calls, walk, failures>>

-----------------------------------------------------------------------------
(* What a change drops. *)

Begins(dir, base) == dir = base \/ <<dir, base>> \in LongerIds


\* Of every context, the lists of projects whose id begins with this one,
\* and the projects.
InvalidateProject(l, base) ==
    [sessions |-> [k \in DOMAIN l.sessions |-> IF Begins(k[2], base) THEN <<>> ELSE l.sessions[k]],
     projects |-> [c \in Contexts |-> <<>>]]

InvalidateAggregate(a, p) ==
    LET root == <<Paths[p].ctx, Paths[p].agent>>
    IN  [a EXCEPT !.scan[root] = <<>>, !.root[root] = <<>>, !.light[p] = <<>>]

\* The project of a changed file: a log of another agent is dropped when its
\* head cannot be read, or is a subagent's.
ProjectOf(p, file) ==
    IF Paths[p].agent = "claude" THEN <<Paths[p].dir>>
    ELSE LET head == LogHead(p, file)
         IN  IF head = <<>> \/ (Paths[p].agent = "dsh" /\ head[1].sub) THEN <<>>
             ELSE <<EncodeCwd(head[1].cwd)>>

\* Whether a list of everything would show the file.
Shown(p) ==
    /\ disk[p].there
    /\ IF Paths[p].sub THEN TRUE
       ELSE IF Paths[p].agent = "claude"
       THEN BuildSessionForListing(IsRemote(Paths[p].ctx), p, disk[p].mtime, disk[p]) # <<>>
       ELSE IsListed(disk, p) /\ LightSession(disk, EntryOf(disk, p)) # <<>>

\* A project whose files could not be read, or had no line yet, keeps that it
\* has no working directory, which no change drops: the other agents' files
\* that only the directory joins to it are not listed.
Blind(ctx) ==
    \E dir \in Dirs: agg.cwd[<<ctx, dir>>] = <<None>> /\ ClaudeProjectCwd(disk, ctx, dir) # None

Tellable(p) == Shown(p) /\ (Paths[p].agent # "claude" => ~Blind(Paths[p].ctx))

HandleEvent(p) ==
    /\ p \in events
    /\ events' = events \ {p}
    /\ \E lost \in Losses({p}):
         LET project == ProjectOf(p, Unread(lost)[p])
         IN  /\ Miss(IF project = ProjectOf(p, disk[p]) THEN {} ELSE lost)
             /\ IF project = <<>> THEN UNCHANGED <<listing, agg, details, known>>
                ELSE /\ listing' = InvalidateProject(listing, project[1])
                     /\ agg' = IF Paths[p].agent = "claude" THEN agg ELSE InvalidateAggregate(agg, p)
                     /\ details' = [q \in PathIds |-> IF Paths[q].sid = Paths[p].sid THEN <<>> ELSE details[q]]
                     /\ known' = IF AtWork = {} /\ Tellable(p) THEN [known EXCEPT ![p] = disk[p].mtime] ELSE known
    /\ UNCHANGED <<scenario, disk, clock, active, looked, flight, calls, walk>>

\* A change of a todo drops the lists of sessions.
TodoChange ==
    /\ S.todo /\ listing.sessions # [k \in Contexts \X Dirs |-> <<>>]
    /\ listing' = [listing EXCEPT !.sessions = [k \in Contexts \X Dirs |-> <<>>]]
    /\ UNCHANGED <<scenario, disk, clock, active, events, agg, looked, details, flight, calls, walk, known, failures>>

\* Everything that is cached has its time.
Expire ==
    /\ S.expire
    /\ \/ \E k \in Contexts \X Dirs: /\ listing.sessions[k] # <<>>
                                     /\ listing' = [listing EXCEPT !.sessions[k] = <<>>]
                                     /\ UNCHANGED agg
       \/ \E c \in Contexts: /\ listing.projects[c] # <<>>
                             /\ listing' = [listing EXCEPT !.projects[c] = <<>>]
                             /\ UNCHANGED agg
       \/ \E k \in DOMAIN agg.scan: /\ agg.scan[k] # <<>> \/ agg.root[k] # <<>>
                                    /\ agg' = [agg EXCEPT !.scan[k] = <<>>, !.root[k] = <<>>]
                                    /\ UNCHANGED listing
       \/ \E k \in Contexts \X Dirs: /\ agg.cwd[k] # <<>>
                                     /\ agg' = [agg EXCEPT !.cwd[k] = <<>>]
                                     /\ UNCHANGED listing
    /\ UNCHANGED <<scenario, disk, clock, active, events, looked, details, flight, calls, walk, known, failures>>

\* The watcher of the context that is left is stopped with what it has not
\* handled. What a call is about to keep under the wrong context is not
\* promised to anyone.
Switch(c) ==
    /\ c # active /\ c \in S.switches
    /\ active' = c
    /\ events' = {}
    /\ known' = IF AtWork = {} THEN known ELSE [p \in PathIds |-> 0]
    /\ UNCHANGED <<scenario, disk, clock, listing, agg, looked, details, flight, calls, walk, failures>>

-----------------------------------------------------------------------------
(* Calls. *)

Op(c) == S.calls[c].op
Dir(c) == S.calls[c].dir
Set(c, fields) == calls' = [calls EXCEPT ![c] = fields @@ calls[c]]

\* A page waits for the page before it.
MayAsk(c) ==
    /\ calls[c].pc = "idle"
    /\ S.calls[c].after # 0 => calls[S.calls[c].after].pc = "done"
    /\ Op(c) = "page" => ~walk.ended

CachedFor(c, ctx) ==
    IF Op(c) = "projects" THEN listing.projects[ctx] ELSE listing.sessions[<<ctx, Dir(c)>>]

\* Projects have no working directory to look for.
AfterClaude(c) == IF Op(c) = "projects" THEN "entries" ELSE "cwd"

Ask(c) ==
    /\ MayAsk(c)
    /\ Op(c) \in {"list", "page", "projects"}
    /\ LET hit == CachedFor(c, active)
       IN  Set(c, [deps |-> active, pc |-> IF hit = <<>> THEN "fly" ELSE AfterClaude(c),
                   base |-> IF hit = <<>> THEN <<>> ELSE hit[1]])
    /\ walk' = IF Op(c) = "page" /\ walk.since = 0 THEN [walk EXCEPT !.since = clock] ELSE walk
    /\ UNCHANGED <<scenario, disk, clock, active, events, listing, agg, looked, details, flight, known, failures>>

Lock(c) == IF Op(c) = "projects" THEN "projects" ELSE "sessions"

\* What a scan of Claude's files begins with.
Found(c, sight, ctx) ==
    IF Op(c) = "projects" THEN Scan(sight, ctx) ELSE CollectSessionFiles(sight, ctx, Dir(c))

\* One scan at a time; who waited for it looks into the cache again. The
\* scanner is of the context that is active now.
Fly(c) ==
    /\ calls[c].pc = "fly" /\ flight[Lock(c)] = 0
    /\ LET hit == CachedFor(c, calls[c].deps)
       IN  \/ /\ hit # <<>>
              /\ Set(c, [pc |-> AfterClaude(c), base |-> hit[1]])
              /\ UNCHANGED <<flight, known, failures>>
           \/ /\ hit = <<>>
              /\ \E lost \in Losses(FilesOf(active, {"claude"})): \E sight \in Sights(lost):
                   LET found == Found(c, sight, active)
                       out   == IF found = Found(c, disk, active) THEN {} ELSE lost
                   IN  /\ Set(c, [pc |-> "read", from |-> active, infos |-> found])
                       /\ IF Op(c) = "projects" THEN Miss(out) /\ UNCHANGED known ELSE MissAndKeep(out)
              /\ flight' = [flight EXCEPT ![Lock(c)] = c]
    /\ UNCHANGED <<scenario, disk, clock, active, events, listing, agg, looked, details, walk>>

\* The sessions are read after the directory. The result is kept under the
\* context of the question.
Read(c) ==
    /\ calls[c].pc = "read"
    /\ \E lost \in Losses(FilesOf(calls[c].from, {"claude"})):
         LET Rows(sight) == IF Op(c) = "projects" THEN calls[c].infos
                            ELSE ListSessions(sight, IsRemote(calls[c].from), calls[c].infos)
             base == Rows(Unread(lost))
         IN  /\ Set(c, [pc |-> AfterClaude(c), base |-> base, infos |-> <<>>])
             /\ listing' = IF Op(c) = "projects"
                           THEN [listing EXCEPT !.projects[calls[c].deps] = <<base>>]
                           ELSE [listing EXCEPT !.sessions[<<calls[c].deps, Dir(c)>>] = <<base>>]
             /\ MissAndKeep(IF base = Rows(disk) THEN {} ELSE lost)
    /\ flight' = [flight EXCEPT ![Lock(c)] = 0]
    /\ UNCHANGED <<scenario, disk, clock, active, events, agg, looked, details, walk>>

\* The files that only the working directory joins to a project.
OnlyByCwd(ctx, dir) ==
    {p \in FilesOf(ctx, ToSet(Extras)): LogHead(p, disk[p]) = <<>> \/ EncodeCwd(LogHead(p, disk[p])[1].cwd) # dir}

\* The working directory of the project, which no change drops.
Cwd(c) ==
    /\ calls[c].pc = "cwd"
    /\ \E lost \in Losses(FilesOf(calls[c].deps, {"claude"})):
         LET key == <<calls[c].deps, Dir(c)>>
             CwdOf(sight) == IF agg.cwd[key] # <<>> THEN agg.cwd[key][1]
                             ELSE ClaudeProjectCwd(sight, calls[c].deps, Dir(c))
             cwd == CwdOf(Unread(lost))
         IN  /\ Set(c, [pc |-> "entries", cwd |-> cwd])
             /\ agg' = [agg EXCEPT !.cwd[key] = <<cwd>>]
             /\ MissAndKeep(IF cwd = CwdOf(disk) THEN {} ELSE OnlyByCwd(calls[c].deps, Dir(c)))
    /\ UNCHANGED <<scenario, disk, clock, active, events, listing, looked, details, flight, walk>>

\* The root of an agent is there as soon as a file was written in it.
RootExists(sight, ctx, agent) ==
    IF agg.root[<<ctx, agent>>] # <<>> THEN agg.root[<<ctx, agent>>][1]
    ELSE \E p \in FilesOf(ctx, {agent}): sight[p].mtime > 0

ScanOf(sight, ctx, agent) ==
    IF agg.scan[<<ctx, agent>>] # <<>> THEN agg.scan[<<ctx, agent>>]
    ELSE IF RootExists(sight, ctx, agent) THEN <<ScanSessions(sight, ctx, IsRemote(ctx), agent)>>
    ELSE <<>>

\* All agents are scanned under one lock, each of them unless it is cached.
Entries(c) ==
    /\ calls[c].pc = "entries" /\ flight.scan = 0
    /\ \E lost \in Losses(FilesOf(calls[c].deps, ToSet(Extras))): \E sight \in Sights(lost):
         LET ctx == calls[c].deps
             Scans(d) == Listed([k \in DOMAIN Extras |-> ScanOf(d, ctx, Extras[k])])
         IN  /\ Set(c, [pc |-> "keep", entries |-> Scans(sight),
                        fresh |-> {agent \in ToSet(Extras): agg.scan[<<ctx, agent>>] = <<>>}])
             /\ MissAndKeep(IF Scans(sight) = Scans(disk) THEN {} ELSE lost)
    /\ flight' = [flight EXCEPT !.scan = c]
    /\ UNCHANGED <<scenario, disk, clock, active, events, listing, agg, looked, details, walk>>

AllEntries(found) == FlattenSeq([k \in DOMAIN Extras |-> IF found[k] = <<>> THEN <<>> ELSE found[k][1]])

\* A light session is read again when the file has another time.
Light(sight, e) == IF agg.light[e.file] # <<>> /\ agg.light[e.file][1].mtime = e.mtime
                   THEN agg.light[e.file] ELSE LightSession(sight, e)

\* What was scanned is kept, and whether there is a root for it; what came
\* from the cache is not kept again.
KeepScan(a, c) ==
    LET Scanned(k) == k[1] = calls[c].deps /\ k[2] \in calls[c].fresh
        Of(agent)  == calls[c].entries[CHOOSE i \in DOMAIN Extras: Extras[i] = agent]
    IN  [a EXCEPT !.scan = [k \in DOMAIN @ |-> IF Scanned(k) THEN Of(k[2]) ELSE @[k]],
                  !.root = [k \in DOMAIN @ |-> IF Scanned(k) /\ @[k] = <<>> THEN <<Of(k[2]) # <<>>>> ELSE @[k]]]

Matching(c) ==
    SelectSeq(AllEntries(calls[c].entries), LAMBDA e: EntryBelongsTo(e, Dir(c), calls[c].cwd))

\* Mutant: a cursor that is gone ends the list.
PageOfGone(list, cursor) ==
    LET at  == {i \in DOMAIN list: list[i].file = cursor}
        from == IF cursor = 0 THEN 1 ELSE IF at = {} THEN Len(list) + 1 ELSE Min(at) + 1
    IN  SubSeq(list, from, Min({from + PageLimit - 1, Len(list)}))

\* A page of the list after the session of the cursor, from the start when
\* that session is not in it.
PageOf(list, cursor) ==
    LET at  == {i \in DOMAIN list: list[i].file = cursor}
        from == IF at = {} THEN 1 ELSE Min(at) + 1
    IN  SubSeq(list, from, Min({from + PageLimit - 1, Len(list)}))

WalkOn(list, page) ==
    LET more == page # <<>> /\ Last(list).file # Last(page).file
    IN  [walk EXCEPT !.seen = @ \cup {page[i].file : i \in DOMAIN page},
                     !.ended = ~more, !.cursor = IF more THEN Last(page).file ELSE 0]

Answer(c, list, missed) ==
    Set(c, [Idle EXCEPT !.pc = "done", !.deps = calls[c].deps, !.answer = list, !.missed = missed])

Finish(c, list, missed) ==
    IF Op(c) = "page"
    THEN Answer(c, PageOf(list, walk.cursor), missed) /\ walk' = WalkOn(list, PageOf(list, walk.cursor))
    ELSE Answer(c, list, missed) /\ UNCHANGED walk

Hunt(c, files) ==
    /\ Set(c, [pc |-> "hunt", infos |-> files, files |-> files, entries |-> <<>>])
    /\ UNCHANGED walk

\* Light sessions that were read are kept.
KeepLight(a, mine, lights) ==
    LET At(p) == {i \in DOMAIN mine: mine[i].file = p /\ lights[i] # <<>>}
    IN  [a EXCEPT !.light = [p \in PathIds |-> IF At(p) = {} THEN a.light[p] ELSE lights[Min(At(p))]]]

\* A preview that cannot be read is missed by this answer only.
Join(c, mine) ==
    \E lost \in Losses({mine[i].file : i \in DOMAIN mine}):
        LET Lights(sight) == Listed([i \in DOMAIN mine |-> Light(sight, mine[i])])
            lights == Lights(Unlisted(lost))
            missed == IF lights = Lights(disk) THEN {} ELSE lost
        IN  /\ agg' = KeepLight(KeepScan(agg, c), mine, lights)
            /\ Finish(c, AppendSessions(calls[c].base, FlattenSeq(lights)), missed)
            /\ Miss(missed)

KeepFor(c, mine) ==
    CASE Op(c) = "projects" ->
         /\ agg' = KeepScan(agg, c)
         /\ Answer(c, MergeExtraProjects(calls[c].base, AllEntries(calls[c].entries)), {})
         /\ UNCHANGED <<walk, failures>>
      [] Op(c) = "search" ->
         /\ agg' = KeepScan(agg, c)
         /\ Hunt(c, SearchFiles(calls[c].infos, mine))
         /\ UNCHANGED failures
      [] OTHER -> Join(c, mine)

\* The scan is kept, the lock is given back, and the other agents' sessions
\* of the project join the list.
Keep(c) ==
    /\ calls[c].pc = "keep"
    /\ KeepFor(c, Matching(c))
    /\ flight' = [flight EXCEPT !.scan = 0]
    /\ UNCHANGED <<scenario, disk, clock, active, events, listing, looked, details, known>>

-----------------------------------------------------------------------------
(* Search in a project: one search at a time, file by file.                 *)

\* Without a directory, or one that cannot be listed, nothing is searched, and
\* the answer is empty.
AskSearch(c) ==
    /\ MayAsk(c) /\ Op(c) = "search" /\ flight.search = 0
    /\ LET begun  == [deps |-> active, since |-> clock]
           folder == {p \in FilesOf(active, {"claude"}): Paths[p].dir = Dir(c) /\ disk[p].mtime > 0}
       IN  \/ /\ folder # {}
              /\ Set(c, begun @@ [pc |-> "cwd", infos |-> ClaudeInfos(disk, active, Dir(c))])
              /\ flight' = [flight EXCEPT !.search = c]
              /\ UNCHANGED failures
           \/ \E lost \in Losses(folder):
              /\ \A p \in folder: disk[p].there => p \in lost
              /\ Set(c, begun @@ [pc |-> "done", missed |-> lost])
              /\ Miss(lost)
              /\ UNCHANGED flight
    /\ UNCHANGED <<scenario, disk, clock, active, events, listing, agg, looked, details, walk, known>>

Fresh(f) == looked[f.file] # <<>> /\ looked[f.file][1].mtime = f.mtime

\* What the searcher has kept of a file of this time, or the file itself.
LookInto(f) ==
    IF Fresh(f) THEN looked[f.file][1]
    ELSE [mtime |-> f.mtime, entries |-> SearchableEntries(f.file, disk[f.file])]

Searched(c) == Len(calls[c].files) - Len(calls[c].infos)
Enough(c) == Len(calls[c].answer) >= MaxResults

\* Over SSH a search may stop at a stage that has found something.
StageEnds(c) ==
    /\ IsRemote(calls[c].deps)
    /\ Searched(c) \in StageBoundaries(Len(calls[c].files))
    /\ Len(calls[c].answer) >= MinResults

\* A file that is gone or cannot be read is passed over.
HuntFile(c) ==
    /\ calls[c].pc = "hunt" /\ calls[c].infos # <<>> /\ ~Enough(c) /\ ~StageEnds(c)
    /\ LET f     == calls[c].infos[1]
           found == LookInto(f)
           hits  == SelectSeq(found.entries, LAMBDA size: size = Query)
           room  == MaxResults - Len(calls[c].answer)
       IN  \/ /\ Fresh(f) \/ Readable(f.file, disk[f.file])
              /\ looked' = [looked EXCEPT ![f.file] = <<found>>]
              /\ Set(c, [infos |-> Tail(calls[c].infos),
                         answer |-> calls[c].answer \o [i \in 1 .. Min({room, Len(hits)}) |-> f.file]])
              /\ UNCHANGED failures
           \/ \E lost \in Losses({f.file}):
              /\ ~Fresh(f) /\ (lost = {} => ~Readable(f.file, disk[f.file]))
              /\ Set(c, [infos |-> Tail(calls[c].infos), missed |-> calls[c].missed \cup lost])
              /\ Miss(lost)
              /\ UNCHANGED looked
    /\ UNCHANGED <<scenario, disk, clock, active, events, listing, agg, details, flight, walk, known>>

\* The result says whether files were left out.
HuntEnds(c, partial) ==
    /\ calls[c].pc = "hunt"
    /\ Set(c, [Idle EXCEPT !.pc = "done", !.deps = calls[c].deps, !.answer = calls[c].answer,
                           !.partial = partial, !.since = calls[c].since, !.missed = calls[c].missed])
    /\ flight' = [flight EXCEPT !.search = 0]
    /\ UNCHANGED <<scenario, disk, clock, active, events, listing, agg, looked, details, walk, known, failures>>

HuntDone(c) ==
    /\ calls[c].infos = <<>> \/ Enough(c)
    /\ HuntEnds(c, IsRemote(calls[c].deps) /\ calls[c].infos # <<>>)

\* The time for a search over SSH is up, or it has enough at a stage.
HuntStops(c) ==
    /\ calls[c].infos # <<>> /\ ~Enough(c)
    /\ IsRemote(calls[c].deps)
    /\ S.slow \/ StageEnds(c)
    /\ HuntEnds(c, TRUE)

-----------------------------------------------------------------------------
(* The detail of a subagent: what is cached is taken without a look at the  *)
(* file. The answer is the time of the file that was read.                  *)

AskDetail(c) ==
    /\ MayAsk(c) /\ Op(c) = "detail"
    /\ LET p == S.calls[c].file
       IN  \/ /\ details[p] # <<>>
              /\ Set(c, [pc |-> "hit", deps |-> Paths[p].ctx, answer |-> details[p]])
              /\ UNCHANGED failures
           \/ /\ details[p] = <<>>
              /\ \E lost \in Losses({p}):
                   /\ Set(c, [pc |-> "store", deps |-> Paths[p].ctx, missed |-> lost,
                              answer |-> IF disk[p].there /\ lost = {} THEN <<disk[p].mtime>> ELSE <<>>])
                   /\ Miss(lost)
    /\ UNCHANGED <<scenario, disk, clock, active, events, listing, agg, looked, details, flight, walk, known>>

StoreDetail(c) ==
    /\ calls[c].pc \in {"hit", "store"}
    /\ details' = IF calls[c].pc = "hit" \/ calls[c].answer = <<>> THEN details
                  ELSE [details EXCEPT ![S.calls[c].file] = calls[c].answer]
    /\ Set(c, [pc |-> "done"])
    /\ UNCHANGED <<scenario, disk, clock, active, events, listing, agg, looked, flight, walk, known, failures>>

-----------------------------------------------------------------------------
Advance(c) ==
    \/ Fly(c) \/ Read(c) \/ Cwd(c) \/ Entries(c) \/ Keep(c)
    \/ HuntFile(c) \/ HuntDone(c) \/ HuntStops(c)
    \/ StoreDetail(c)

Next ==
    \/ \E c \in CallIds: Ask(c) \/ AskSearch(c) \/ AskDetail(c) \/ Advance(c)
    \/ \E p \in PathIds: Write(p) \/ RemoveFile(p) \/ HandleEvent(p)
    \/ \E c \in Contexts: Switch(c)
    \/ TodoChange
    \/ Expire

Spec == Init /\ [][Next]_vars

-----------------------------------------------------------------------------
(* Properties. *)

PCs == {"idle", "fly", "read", "cwd", "entries", "keep", "hunt", "hit", "store", "done"}

TypeOK ==
    /\ clock \in Nat /\ active \in Contexts
    /\ events \subseteq PathIds
    /\ DOMAIN disk = PathIds /\ \A p \in PathIds: disk[p].mtime \in 0 .. clock
    /\ \A l \in DOMAIN flight: flight[l] \in {0} \cup CallIds
    /\ \A c \in CallIds: calls[c].pc \in PCs /\ (calls[c].pc # "idle" => calls[c].deps \in Contexts)
    /\ \A p \in PathIds: known[p] \in 0 .. disk[p].mtime
    /\ walk.ended \in BOOLEAN /\ walk.seen \subseteq PathIds

Done(c) == calls[c].pc = "done"

\* What an answer showed of the files it is about, but for those it could not
\* read itself.
ToldBy(c) ==
    IF ~Done(c) \/ Op(c) \notin {"list", "detail"} THEN [f \in {} |-> 0]
    ELSE IF Op(c) = "detail"
    THEN [f \in {S.calls[c].file} \ calls[c].missed |-> IF calls[c].answer = <<>> THEN 0 ELSE calls[c].answer[1]]
    ELSE [f \in {p \in S.calls[c].about: Paths[p].ctx = calls[c].deps} \ calls[c].missed |->
             Max({0} \cup {calls[c].answer[i].mtime : i \in {k \in DOMAIN calls[c].answer:
                                                              calls[c].answer[k].file = f}})]

Promised == INSTANCE ListingPromise WITH
    Promised <- PathIds,
    version  <- [p \in PathIds |-> disk[p].mtime],
    known    <- known,
    working  <- AtWork,
    trouble  <- <<active, failures>>,
    told     <- [c \in CallIds |-> ToldBy(c)]


\* The calls never all wait for each other: the locks of the scans are given
\* back by who took them, and are not taken in two orders (project_service.rs,
\* agents/mod.rs).
Waiting(c) ==
    \/ calls[c].pc = "fly" /\ flight[Lock(c)] # 0
    \/ calls[c].pc = "entries" /\ flight.scan # 0
SomeoneGoesOn == AtWork # {} => \E c \in AtWork: ~Waiting(c)

LeftOut(p) == \E k \in DOMAIN failures: p \in failures[k]

\* Who reads the pages of a list to the end has seen every session that did
\* not change meanwhile and that no failing read left out, whatever the others
\* did (get_sessions_paginated).
WalkMissesNothing ==
    walk.ended =>
        \A c \in CallIds: Op(c) = "page" /\ Done(c) =>
            \A p \in S.calls[c].about:
                disk[p].there /\ disk[p].mtime <= walk.since /\ Shown(p) /\ ~LeftOut(p) => p \in walk.seen

\* A search that is not called partial has all that it looks for in the files
\* of the project that are as they were when it began, whatever the searcher
\* keeps; except for the files that it could not read itself, of which it says
\* nothing: a directory that cannot be listed is an empty answer, and a file
\* that cannot be read is passed over (session_searcher.rs:122, :133, :226).
Searchable(p, c) ==
    /\ p \in FilesOf(calls[c].deps, {"claude"}) /\ ~Paths[p].sub /\ Paths[p].dir = Dir(c)
    /\ disk[p].there /\ disk[p].mtime <= calls[c].since
    /\ Query \in ToSet(SearchableEntries(p, disk[p]))

SearchIsHonest ==
    \A c \in CallIds: Done(c) /\ Op(c) = "search" /\ ~calls[c].partial =>
        \A p \in PathIds \ calls[c].missed:
            Searchable(p, c) => p \in ToSet(calls[c].answer) \/ Len(calls[c].answer) = MaxResults

\* A session that a list shows can be opened from the list, and what opens is
\* the session (session_path, locate_extra_session): unless it has changed,
\* or its project has lost the working directory that it was found by.
OpenedIsTheSession ==
    \A c \in CallIds: Done(c) /\ Op(c) = "list" =>
        \A i \in DOMAIN calls[c].answer:
            LET row    == calls[c].answer[i]
                key    == <<calls[c].deps, Dir(c)>>
                cwd    == IF agg.cwd[key] # <<>> THEN agg.cwd[key][1]
                          ELSE ClaudeProjectCwd(disk, calls[c].deps, Dir(c))
                opened == SessionPath(disk, calls[c].deps, IsRemote(calls[c].deps), Dir(c), cwd, row.id)
            IN  /\ disk[row.file].there /\ disk[row.file].mtime = row.mtime
                /\ Paths[row.file].ctx = calls[c].deps
                /\ row.agent # "claude" => row.cwd = cwd \/ EncodeCwd(row.cwd) = Dir(c)
                /\ row.agent = "opencode" => \A p \in PathIds: Paths[p].agent = "opencode" => disk[p].open
                => opened # 0 /\ Paths[opened].agent = row.agent

-----------------------------------------------------------------------------
(* Properties of what is read from the files as they are.                   *)

\* These are about files only: they are looked at in behaviours without calls
\* that write one log, or several logs of different projects.
LogsOf(agents) == {p \in PathIds: S.about = "log" /\ Paths[p].agent \in agents /\ disk[p].there /\ disk[p].lines # <<>>}
MessagesOf(p) == ParseMessages(p, disk[p])
UuidsOf(msgs) == Listed([i \in DOMAIN msgs |-> msgs[i].uuid])

\* A message of another agent's log has its identity for good: what is
\* written after it changes none (parse_codex_content, parse_pi_content,
\* parse_dsh_content).
IdsStable ==
    \A p \in LogsOf({"codex", "pi", "dsh"}):
        IsPrefix(UuidsOf(ParseMessages(p, [disk[p] EXCEPT !.lines = Front(@)])), UuidsOf(MessagesOf(p)))

\* The tokens of a codex log are counted once: together they are at most the
\* last counter, and all of it when a counter always follows an answer. The
\* last answer of a dsh log has the tokens of all answers up to it.
TokensAccounted ==
    /\ \A p \in LogsOf({"codex"}):
          LET msgs     == MessagesOf(p)
              counters == {disk[p].lines[i].tokens : i \in {k \in DOMAIN disk[p].lines: disk[p].lines[k].kind = "tokens"}}
          IN  /\ SumOf(msgs) <= Max(counters \cup {0})
              /\ (\A i \in DOMAIN msgs: msgs[i].type = "assistant") /\ msgs # <<>>
                 /\ disk[p].lines[2].kind # "tokens" => SumOf(msgs) = Max(counters \cup {0})
    /\ \A p \in LogsOf({"dsh"}):
          LET answers == {i \in DOMAIN disk[p].lines: disk[p].lines[i].kind = "message" /\ disk[p].lines[i].role = "assistant"}
              said    == SelectSeq(MessagesOf(p), LAMBDA m: m.type = "assistant")
              shown   == {i \in answers: DshBlocks(disk[p].lines[i]) # <<>>}
          IN  said # <<>> =>
                Last(said).usage = FoldSet(LAMBDA i, n: n + disk[p].lines[i].tokens, 0, {i \in answers: i <= Max(shown)})

\* The title of a list is the first text that a person wrote in the detail,
\* where the log has no title of its own (extract_preview of codex.rs,
\* light_session of dsh.rs, query_first_user_text of opencode.rs).
TitleIsFirstTyped ==
    \A p \in LogsOf({"codex", "dsh", "opencode"}):
        LET typed == SelectSeq(MessagesOf(p), LAMBDA m: m.type = "user" /\ ~m.meta)
            own   == \/ Paths[p].agent = "dsh" /\ DshState(HeadRows(disk[p].lines)).title # 0
                     \/ Paths[p].agent = "opencode" /\ disk[p].lines[1].size # 0
            title == PreviewOf(p, disk[p]).title
        IN  /\ LogHead(p, disk[p]) # <<>> /\ ~own /\ title # 0
            => typed # <<>> /\ title = typed[1].content[1].size

\* The number of messages that a list shows of a pi log is the number of
\* pairs in the detail (extract_preview of pi.rs).
CountIsPairs ==
    \A p \in LogsOf({"pi"}):
        LogHead(p, disk[p]) # <<>> /\ Len(disk[p].lines) <= PreviewRows =>
            PreviewOf(p, disk[p]).count =
                PairCount(MarksOf(MessagesOf(p), LAMBDA m: IF m.type = "user" THEN "said" ELSE "answer"))

ProjectsOf(c) == MergeExtraProjects(Scan(disk, c), AllEntriesOf(disk, c, IsRemote(c)))

\* A session that a project counts is in the list of the project, unless the
\* project is only known by the rows that the list does not read
\* (scan_project, claude_project_cwd, merge_extra_projects).
CountedIsListed ==
    LET Holds(p, cwd, entries) ==
            \A e \in ToSet(entries):
                e.id \in ToSet(p.sessions) /\ e.cwd = p.cwd /\ (cwd = p.cwd \/ EncodeCwd(p.cwd) = p.id) =>
                    EntryBelongsTo(e, p.id, cwd)
        AllHold(projects, entries, c) ==
            \A p \in ToSet(projects): Holds(p, ClaudeProjectCwd(disk, c, p.id), entries)
    IN  S.about = "projects" => \A c \in Contexts: AllHold(ProjectsOf(c), AllEntriesOf(disk, c, IsRemote(c)), c)

\* A session that is found by its id is counted by the project it is found in
\* (find_extra_sessions, merge_extra_projects), with the same exception.
FoundIsCounted ==
    LET Counted(found, projects, c) ==
            LET there == {i \in DOMAIN projects: projects[i].id = found.project}
            IN  \/ \E i \in there: Paths[found.file].sid \in ToSet(projects[i].sessions)
                \/ \E i \in DOMAIN projects: ClaudeProjectCwd(disk, c, projects[i].id) # projects[i].cwd
        AllCounted(projects, c) ==
            \A p \in PathIds: \A found \in ToSet(FindSessionById(disk, c, IsRemote(c), Paths[p].sid)):
                Counted(found, projects, c)
    IN  S.about = "projects" => \A c \in Contexts: AllCounted(ProjectsOf(c), c)

\* Every session of a project is in one group of worktrees
\* (worktree_grouper.rs).
GroupsKeepSessions ==
    LET Kept(projects) == FoldLeft(LAMBDA n, g: n + g.total, 0, GroupByRepository(projects, Facts))
                              = SumOfLengths(projects)
    IN  S.about = "projects" => \A c \in Contexts: Kept(ProjectsOf(c))

\* No call waits for ever, and what it tells of the end of a list or of a
\* search is true.
CallsAreSound == TypeOK /\ SomeoneGoesOn /\ WalkMissesNothing /\ SearchIsHonest

\* All the readers of the same files agree: the counts, the lists, the groups,
\* the search for an id and the detail, of every agent.
ListsAgree ==
    /\ CountedIsListed /\ FoundIsCounted /\ GroupsKeepSessions /\ OpenedIsTheSession
    /\ IdsStable /\ TokensAccounted /\ TitleIsFirstTyped /\ CountIsPairs
=============================================================================
