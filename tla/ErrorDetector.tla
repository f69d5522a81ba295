--------------------------- MODULE ErrorDetector ----------------------------
(***************************************************************************)
(* Which errors the notification triggers find (error/error_detector.rs,    *)
(* error/trigger/...): the live detection, which checks the lines that came *)
(* since the last one, and the test of a trigger over everything on disk    *)
(* (error/error_trigger_tester.rs), while both use one table of the          *)
(* repositories of the projects (error/trigger/repository_scope.rs).         *)
(*                                                                         *)
(* A pattern is the set of texts it matches; the text of a tool use is the  *)
(* field a trigger looks at.                                                *)
(***************************************************************************)
EXTENDS Messages

CONSTANTS
    Workers,      \* live detections that can run at once
    Projects,     \* the list the scanner returns
    FilesOf,      \* the list of the session files of each project
    PathOf,       \* the directory of each project
    Cwds,         \* directories a line of each file may come from
    Uses,         \* text and size of the calls in each file
    Results,      \* text of the results in each file, and whether they fail
    RepoOf,       \* the repository of each directory, or None
    Triggers,     \* the list of the enabled triggers
    MAX_ERRORS, MAX_TOTAL_COUNT,
    MaxMessages      \* bound of the runs: lines of all files together

Listing(s) == {s[i] : i \in DOMAIN s}
ProjectSet == Listing(Projects)
Files == UNION {Listing(FilesOf[p]) : p \in ProjectSet}
ProjectOf(f) == CHOOSE p \in ProjectSet: f \in Listing(FilesOf[p])

\* Lists and sizes have their types, a project and a file of it are listed
\* once, a file is of one project, and no two triggers have the same id: the
\* settings refuse a known one.
ASSUME ErrorDetectorAssumption ==
    /\ MAX_ERRORS \in Nat \ {0} /\ MAX_TOTAL_COUNT \in Nat \ {0} /\ MaxMessages \in Nat
    /\ Projects \in Seq(ProjectSet) /\ None \notin Files
    /\ IsInjective(Projects) /\ \A p \in ProjectSet: IsInjective(FilesOf[p])
    /\ \A p \in ProjectSet: FilesOf[p] \in Seq(Files) /\ PathOf[p] \in DOMAIN RepoOf
    /\ \A p, q \in ProjectSet: p # q => Listing(FilesOf[p]) \cap Listing(FilesOf[q]) = {}
    /\ \A f \in Files: /\ Cwds[f] \subseteq DOMAIN RepoOf \cup {None}
                       /\ Uses[f] \subseteq TextKinds \X Nat
                       /\ Results[f] \subseteq TextKinds \X BOOLEAN
    /\ Triggers \in Seq(Listing(Triggers))
    /\ \A k, l \in DOMAIN Triggers: Triggers[k].threshold \in Nat
                                    /\ (k # l => Triggers[k].id # Triggers[l].id)

-----------------------------------------------------------------------------
(* The checkers. *)

\* A trigger: [id, mode, content, tool, requireError, field, pattern, ignore,
\* threshold, tokens, repos]. tool is None and repos is {} when not given,
\* pattern is the list with the pattern when there is one.
Matches(text, pattern) == \A i \in DOMAIN pattern: text \in pattern[i]

\* An error text that is blank is shown as the unknown error.
ErrorMessage(result) == IF result.text = "empty" THEN "unknown" ELSE result.text

DetectedError(trigger, line, tool) == [trigger |-> trigger.id, line |-> line, tool |-> tool]

FirstOf(s, Found(_)) ==
    LET hits == {i \in DOMAIN s: Found(s[i])} IN IF hits = {} THEN <<>> ELSE <<s[Min(hits)]>>

ToolsIn(found, trigger, line) == [i \in DOMAIN found |-> DetectedError(trigger, line, found[i].id)]

\* Mutant: a failure counts only when its call is among the messages at hand.
CheckToolResultKnown(m, trigger, uses, line) ==
    LET Failed(r) == r.error /\ r.id \in DOMAIN uses /\ ErrorMessage(r) \notin trigger.ignore
        Content(r) == /\ trigger.tool # None /\ r.id \in DOMAIN uses /\ uses[r.id].name = trigger.tool
                      /\ trigger.field = "content" /\ trigger.pattern # <<>>
                      /\ Matches(r.text, trigger.pattern) /\ r.text \notin trigger.ignore
        Found(r)  == IF trigger.requireError THEN Failed(r) ELSE Content(r)
    IN  ToolsIn(FirstOf(m.results, Found), trigger, line)

\* The first result of the message that fails, or that is of the tool the
\* trigger names and has the content it looks for.
CheckToolResult(m, trigger, uses, line) ==
    LET Failed(r) == r.error /\ ErrorMessage(r) \notin trigger.ignore
        Content(r) == /\ trigger.tool # None /\ r.id \in DOMAIN uses /\ uses[r.id].name = trigger.tool
                      /\ trigger.field = "content" /\ trigger.pattern # <<>>
                      /\ Matches(r.text, trigger.pattern) /\ r.text \notin trigger.ignore
        Found(r)  == IF trigger.requireError THEN Failed(r) ELSE Content(r)
    IN  ToolsIn(FirstOf(m.results, Found), trigger, line)

\* The first tool use of the message with the field the trigger looks at.
CheckToolUse(m, trigger, line) ==
    LET Found(b) == /\ b.type = "tool_use" /\ trigger.tool \in {None, b.name}
                    /\ trigger.field # None => b.text # "empty"
                    /\ Matches(b.text, trigger.pattern) /\ b.text \notin trigger.ignore
    IN  IF m.type # "assistant" \/ m.string THEN <<>>
        ELSE ToolsIn(FirstOf(m.content, Found), trigger, line)

\* Every tool use of the message that costs more than the threshold. The
\* result counts for nothing when it is not among the messages at hand. Of the
\* text shown, where the ignore patterns look, only the name of the tool is told.
CheckTokenThreshold(m, trigger, results, line) ==
    LET Result(c) == IF c.id \in DOMAIN results THEN results[c.id].size ELSE 0
        Tokens(c) == CASE trigger.tokens = "input" -> c.size
                       [] trigger.tokens = "output" -> Result(c)
                       [] OTHER -> c.size + Result(c)
        Over(c)   == /\ trigger.tool \in {None, c.name} /\ Tokens(c) > trigger.threshold
                     /\ c.name \notin trigger.ignore
    IN  IF m.type # "assistant" THEN <<>>
        ELSE ToolsIn(Chosen(m.calls, {i \in DOMAIN m.calls: Over(m.calls[i])}), trigger, line)

InScope(trigger, repo) == trigger.repos = {} \/ repo \in trigger.repos

\* Mutant: the scope of the trigger is not looked at.
CheckTriggerUnscoped(m, trigger, repo, uses, results, line) ==
    IF trigger.mode = "token_threshold" THEN CheckTokenThreshold(m, trigger, results, line)
    ELSE IF trigger.content = "tool_result" THEN CheckToolResult(m, trigger, uses, line)
    ELSE CheckToolUse(m, trigger, line)

CheckTrigger(m, trigger, repo, uses, results, line) ==
    IF ~InScope(trigger, repo) THEN <<>>
    ELSE IF trigger.mode = "token_threshold" THEN CheckTokenThreshold(m, trigger, results, line)
    ELSE IF trigger.content = "tool_result" THEN CheckToolResult(m, trigger, uses, line)
    ELSE IF trigger.content = "tool_use" THEN CheckToolUse(m, trigger, line)
    ELSE <<>>

\* One message against every trigger.
CheckMessage(msgs, i, triggers, repo) ==
    FlattenSeq([k \in DOMAIN triggers |->
        CheckTrigger(msgs[i], triggers[k], repo, ToolUseMap(msgs), ToolResultMap(msgs), i)])

\* The tester has a checker of its own, with one trigger.
DetectErrorsWithTrigger(msgs, trigger, repo) ==
    LET uses == ToolUseMap(msgs)
        results == ToolResultMap(msgs)
    IN  FlattenSeq([i \in DOMAIN msgs |->
            IF ~InScope(trigger, repo) THEN <<>>
            ELSE CASE trigger.mode = "token_threshold" -> CheckTokenThreshold(msgs[i], trigger, results, i)
                   [] trigger.mode # "token_threshold" /\ trigger.content = "tool_result" ->
                          CheckToolResult(msgs[i], trigger, uses, i)
                   [] trigger.mode # "token_threshold" /\ trigger.content = "tool_use" ->
                          CheckToolUse(msgs[i], trigger, i)
                   [] OTHER -> <<>>])

-----------------------------------------------------------------------------
(* The two users of the checkers. *)

VARIABLES
    files,      \* the messages of each file, each with the directory it came from
    table,      \* repository of each project, "unknown" before the first look
    live,       \* the detection each worker runs: an empty list, or a list with it
    read,       \* how many messages of each file a detection has been started for
    cuts,       \* where the detections of each file ended (history)
    detected,   \* what the live detections found, with their file and scope
    test        \* the test of a trigger: an empty list, or a list with it

detectorVars == <<files, table, live, read, cuts, detected, test>>

\* The directory of the first of the messages that names one; the decoded
\* name of the project otherwise.
CwdHint(msgs, project) ==
    LET named == {i \in DOMAIN msgs: msgs[i].cwd # None}
    IN  IF named = {} THEN PathOf[project] ELSE msgs[Min(named)].cwd

PreResolve(project, cwd) == table' = [table EXCEPT ![project] = RepoOf[cwd]]

BlockOf(type) == [type |-> type, text |-> "empty", id |-> None, name |-> None, size |-> 1, error |-> FALSE]
LineOf(type, block, cwd) ==
    [uuid |-> 1, type |-> type, ts |-> 1, content |-> <<block>>, string |-> FALSE, side |-> FALSE,
     meta |-> FALSE, model |-> None, rid |-> None, usage |-> 0, agent |-> FALSE, source |-> None,
     rejected |-> FALSE, compact |-> FALSE, cwd |-> cwd]

\* The message of a line, which keeps the directory.
MessageOf(line) ==
    LET m == ParseEntry(line)
    IN  [field \in DOMAIN m \cup {"cwd"} |-> IF field = "cwd" THEN line.cwd ELSE m[field]]

Written == MapThenSumSet(LAMBDA f: Len(files[f]), Files)

\* A line of a file: its one call of a tool, cheap with a text or dear without
\* one, or a result of the call, which fails or not.
Appends(f) ==
    /\ Written < MaxMessages
    /\ \E cwd \in Cwds[f]:
        LET call == \E i \in DOMAIN files[f]: files[f][i].type = "assistant"
            lines == IF call
                     THEN {LineOf("user", [BlockOf("tool_result") EXCEPT !.id = f, !.text = x[1],
                                                !.error = x[2], !.size = 2], cwd)
                             : x \in Results[f]}
                     ELSE {LineOf("assistant", [BlockOf("tool_use") EXCEPT !.id = f, !.name = "Bash",
                                                     !.text = x[1], !.size = x[2]], cwd)
                             : x \in Uses[f]}
        IN  \E l \in lines: files' = [files EXCEPT ![f] = Append(@, MessageOf(l))]
    /\ UNCHANGED <<table, live, read, cuts, detected, test>>

Overlapping(p) == \E w \in Workers: live[w] # <<>> /\ ProjectOf(live[w][1].file) = p
Tested(p) ==
    /\ test # <<>> /\ test[1].status = "running"
    /\ test[1].project > 0 /\ Projects[test[1].project] = p

\* A detection looks up the repository before its first message. Another one
\* of the project marks it as disturbed (history).
Detect(w, f) ==
    /\ live[w] = <<>> /\ read[f] < Len(files[f])
    /\ \A v \in Workers: live[v] # <<>> => live[v][1].file # f
    /\ LET part == SubSeq(files[f], read[f] + 1, Len(files[f]))
           p    == ProjectOf(f)
           job  == [file |-> f, part |-> part, from |-> read[f], next |-> 1, found |-> <<>>,
                    disturbed |-> Overlapping(p) \/ Tested(p)]
       IN  /\ PreResolve(p, CwdHint(part, p))
           /\ live' = [v \in Workers |->
                          IF v = w THEN <<job>>
                          ELSE IF live[v] # <<>> /\ ProjectOf(live[v][1].file) = p
                          THEN <<[live[v][1] EXCEPT !.disturbed = TRUE]>>
                          ELSE live[v]]
           /\ test' = IF Tested(p) THEN <<[test[1] EXCEPT !.disturbed = TRUE]>> ELSE test
    /\ read' = [read EXCEPT ![f] = Len(files[f])]
    /\ UNCHANGED <<files, cuts, detected>>

ChecksNext(w) ==
    /\ live[w] # <<>> /\ live[w][1].next <= Len(live[w][1].part)
    /\ LET job == live[w][1]
           new == CheckMessage(job.part, job.next, Triggers, table[ProjectOf(job.file)])
       IN  live' = [live EXCEPT ![w] = <<[job EXCEPT !.next = @ + 1, !.found = @ \o new]>>]
    /\ UNCHANGED <<files, table, read, cuts, detected, test>>

Reports(w) ==
    /\ live[w] # <<>> /\ live[w][1].next > Len(live[w][1].part)
    /\ LET job == live[w][1]
       IN  /\ detected' = detected \cup
                  {[file |-> job.file, error |-> [job.found[i] EXCEPT !.line = @ + job.from],
                    cwd |-> CwdHint(job.part, ProjectOf(job.file)),
                    disturbed |-> job.disturbed] : i \in DOMAIN job.found}
           /\ cuts' = [cuts EXCEPT ![job.file] = @ \cup {job.from + Len(job.part)}]
    /\ live' = [live EXCEPT ![w] = <<>>]
    /\ UNCHANGED <<files, table, read, test>>

-----------------------------------------------------------------------------
(* A test of one trigger over every file, in the order of the scan. *)

\* Bound: the files of the runs are complete when the test starts.
StartsTest ==
    /\ test = <<>> /\ Written = MaxMessages
    /\ \E k \in DOMAIN Triggers, limit \in {1, MAX_ERRORS + 1}:
          test' = <<[trigger |-> Triggers[k], limit |-> Min({limit, MAX_ERRORS}), project |-> 0, left |-> <<>>,
                     errors |-> <<>>, total |-> 0, truncated |-> FALSE, scanned |-> <<>>,
                     status |-> "running", disturbed |-> FALSE]>>
    /\ UNCHANGED <<files, table, live, read, cuts, detected>>

\* Mutant: one error before the limit is enough.
EnoughEarly(t) == Len(t.errors) + 1 >= t.limit

Enough(t) == Len(t.errors) >= t.limit
Ends(t) == test' = <<[t EXCEPT !.status = "done"]>>

\* Thirty seconds may have passed at any look at the clock.
Stops(t) ==
    \/ /\ test' = <<[t EXCEPT !.status = "done", !.truncated = TRUE]>>
       /\ UNCHANGED <<files, table, live, read, cuts, detected>>
    \/ /\ t.total < MAX_TOTAL_COUNT /\ Enough(t) /\ Ends(t)
       /\ UNCHANGED <<files, table, live, read, cuts, detected>>

\* The next project is looked at when the files of the last one are done.
RunTest ==
    /\ test # <<>> /\ test[1].status = "running" /\ test[1].left = <<>>
    /\ LET t == test[1]
           n == t.project + 1
       IN  \/ /\ n > Len(Projects) /\ Ends(t)
              /\ UNCHANGED <<files, table, live, read, cuts, detected>>
           \/ n <= Len(Projects) /\ Stops(t)
           \/ /\ n <= Len(Projects) /\ t.total < MAX_TOTAL_COUNT /\ ~Enough(t)
              /\ PreResolve(Projects[n], PathOf[Projects[n]])
              /\ test' = <<[t EXCEPT !.project = n, !.left = FilesOf[Projects[n]],
                                     !.disturbed = @ \/ Overlapping(Projects[n])]>>
              /\ live' = [v \in Workers |->
                             IF live[v] # <<>> /\ ProjectOf(live[v][1].file) = Projects[n]
                             THEN <<[live[v][1] EXCEPT !.disturbed = TRUE]>> ELSE live[v]]
              /\ UNCHANGED <<files, read, cuts, detected>>

\* The total is cut at its limit, the list at the limit asked for.
WithErrors(t, f, found) ==
    LET taken == SubSeq(found, 1, Min({Len(found), t.limit - Len(t.errors)}))
        total == t.total + Len(found)
    IN  [t EXCEPT !.errors = @ \o taken, !.scanned = Append(@, <<f, Len(files[f])>>), !.left = Tail(@),
                  !.total = Min({total, MAX_TOTAL_COUNT}), !.truncated = @ \/ total >= MAX_TOTAL_COUNT]

\* A test that has enough leaves the files of the project, and then the projects.
ProcessSessionFile ==
    /\ test # <<>> /\ test[1].status = "running" /\ test[1].left # <<>>
    /\ LET t == test[1]
           f == Head(t.left)
           found == DetectErrorsWithTrigger(files[f], t.trigger, table[ProjectOf(f)])
       IN  \/ Stops(t)
           \/ /\ t.total < MAX_TOTAL_COUNT /\ ~Enough(t)
              /\ test' = <<WithErrors(t, f, [i \in DOMAIN found |-> [file |-> f, error |-> found[i]]])>>
              /\ UNCHANGED <<files, table, live, read, cuts, detected>>

DetectorInit ==
    /\ files = [f \in Files |-> <<>>]
    /\ table = [p \in ProjectSet |-> "unknown"]
    /\ live = [w \in Workers |-> <<>>]
    /\ read = [f \in Files |-> 0]
    /\ cuts = [f \in Files |-> {}]
    /\ detected = {}
    /\ test = <<>>

DetectorNext ==
    \/ \E f \in Files: Appends(f)
    \/ \E w \in Workers, f \in Files: Detect(w, f)
    \/ \E w \in Workers: ChecksNext(w) \/ Reports(w)
    \/ StartsTest \/ RunTest \/ ProcessSessionFile

DetectorSpec == DetectorInit /\ [][DetectorNext]_detectorVars

-----------------------------------------------------------------------------
(* What the detections and the test come to. *)

ErrorsOfPart(job) == [trigger: {Triggers[k].id : k \in DOMAIN Triggers}, line: DOMAIN job.part, tool: {job.file}]

\* The parts, the errors and the counters have their types, and no test
\* counts past MAX_TOTAL_COUNT.
DetectionOK ==
    /\ \A p \in ProjectSet: table[p] \in {"unknown"} \cup Listing(RepoOf)
    /\ \A w \in Workers: live[w] # <<>> =>
          /\ live[w][1].found \in Seq(ErrorsOfPart(live[w][1]))
          /\ live[w][1].from + Len(live[w][1].part) <= read[live[w][1].file]
    /\ \A f \in Files: read[f] \in 0 .. Len(files[f]) /\ cuts[f] \subseteq 1 .. read[f]
    /\ test # <<>> => /\ test[1].total \in 0 .. MAX_TOTAL_COUNT
                      /\ Len(test[1].errors) <= test[1].limit
                      /\ test[1].status \in {"running", "done"}

\* An error of a trigger that is bound to repositories comes from a session
\* of one of them, unless another detection of the same project changed the
\* repository in the table before this one was through.
ScopeIsOwn ==
    \A r \in detected: ~r.disturbed =>
        \A k \in DOMAIN Triggers: Triggers[k].id = r.error.trigger => InScope(Triggers[k], RepoOf[r.cwd])

\* What one detection over the whole file finds with the triggers that hold
\* for every repository.
Everywhere == Chosen(Triggers, {k \in DOMAIN Triggers: Triggers[k].repos = {}})
ErrorsOf(msgs, triggers, repo) ==
    Listing(FlattenSeq([i \in DOMAIN msgs |-> CheckMessage(msgs, i, triggers, repo)]))

NeedsBoth(id) ==
    \E k \in DOMAIN Triggers:
        /\ Triggers[k].id = id
        /\ \/ Triggers[k].mode = "token_threshold" /\ Triggers[k].tokens # "input"
           \/ Triggers[k].content = "tool_result" /\ ~Triggers[k].requireError

\* A call and a result of it were read by different detections.
Separated(f) == \E i, j \in DOMAIN files[f], c \in cuts[f]:
                    i <= c /\ c < j /\ files[f][i].type = "assistant" /\ files[f][j].results # <<>>

\* Reading a file part by part finds what one reading of the whole finds. The
\* only errors it misses are those for which a trigger compares a call with
\* its result when the two came in different parts; it finds nothing more.
PartsFindTheWhole ==
    \A f \in Files:
        LET found == {r.error : r \in {x \in detected: x.file = f}}
            whole == ErrorsOf(files[f], Everywhere, None)
            ids   == {Everywhere[k].id : k \in DOMAIN Everywhere}
        IN  /\ {e \in found: e.trigger \in ids} \subseteq whole
            /\ (Len(files[f]) \in cuts[f] \cup {0}) =>
                   \A e \in whole \ found: NeedsBoth(e.trigger) /\ Separated(f)

\* What the live detection finds with the trigger of a test in the files that
\* the test has looked at, as far as it has read them.
FoundIn(t, f, n) ==
    {[file |-> f, error |-> e] :
        e \in ErrorsOf(SubSeq(files[f], 1, n), <<t.trigger>>, RepoOf[PathOf[ProjectOf(f)]])}
ToBeShown(t) == UNION {FoundIn(t, x[1], x[2]) : x \in Listing(t.scanned)}

\* A test that ended on its own with room left has looked at every file
\* and shows what the live detection would find in them.
TestFindsWhatDetectionFinds ==
    test # <<>> /\ test[1].status = "done" /\ ~test[1].truncated /\ ~test[1].disturbed
            /\ Len(test[1].errors) < test[1].limit =>
        /\ {x[1] : x \in Listing(test[1].scanned)} = Files
        /\ Listing(test[1].errors) = ToBeShown(test[1])

\* The total of a test counts every error of the files it has looked at, also
\* those the limit keeps out of the list, and stands still only at its limit.
TestCountsAll ==
    test # <<>> /\ ~test[1].disturbed =>
        LET all == Cardinality(ToBeShown(test[1]))
        IN  /\ test[1].total = Min({all, MAX_TOTAL_COUNT})
            /\ all >= MAX_TOTAL_COUNT => test[1].truncated

\* A test of a trigger tells what a detection would find, and counts it all.
TestIsDetection == DetectionOK /\ TestFindsWhatDetectionFinds /\ TestCountsAll
=============================================================================
