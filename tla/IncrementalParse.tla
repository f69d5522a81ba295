--------------------------- MODULE IncrementalParse ---------------------------
(***************************************************************************)
(* The incremental error detection of one session file:                    *)
(* handle_error_event, run by the error pipeline for a watcher event and   *)
(* by the catch-up scan, on the shared IncrementalParseState.              *)
(*                                                                         *)
(* A line of the file is two units long: its first half, and the rest with *)
(* its newline.  Lines are only appended, unless the file is rewritten.    *)
(* Some lines are silent, they give no message: blank ones, what is no     *)
(* JSON, and entries without a uuid or of a kind that is not shown.        *)
(* The state's lock is held while a handler decides and while it records;  *)
(* the file is looked at before, and read and searched in between, while   *)
(* it goes on growing.                                                     *)
(***************************************************************************)
EXTENDS Naturals, FiniteSets

CONSTANTS MaxLen,      \* bound: length of the file, in half lines
          Silences,    \* the sets of lines that may be silent together
          MaxWrites,   \* bound: times the file is written
          MaxMishaps   \* bound: rewrites of it, accesses to it that fail, and
                       \* watcher events lost by a lagging receiver, together

Lines == 1..(MaxLen \div 2)

ASSUME ParseAssumption ==
    /\ MaxLen \in Nat
    /\ Silences \subseteq SUBSET Lines
    /\ MaxWrites \in Nat
    /\ MaxMishaps \in Nat

Pipeline == "pipeline"
CatchUp == "catch-up"
Handlers == {Pipeline, CatchUp}

VARIABLES file,       \* length, time of the last change, and which lines are silent
          last,       \* last_offset, last_size, last_mtime, last_line_count
          processing, \* a handler works on the file
          again,      \* pending_reprocess
          notified,   \* an event is in the channel
          pc,
          stat,       \* what each handler found the file to be
          plan,       \* what it is to read, and then to record
          snap,       \* the size in the catch-up scan's snapshot
          reported,   \* lines whose message was searched for errors, with the
                      \* number given to it
          cut,        \* lines a full parse read half and passed
          recounted,  \* a full parse read more than the size it recorded
          writes,
          rewrites,
          fails,
          lost

found == <<reported, cut, recounted>>
env == <<writes, rewrites, fails, lost>>
vars == <<file, last, processing, again, notified, pc, stat, plan, snap, found, env>>

Mishap == rewrites + fails + lost < MaxMishaps

Goto(h, label) == pc' = [pc EXCEPT ![h] = label]

\* The complete lines that begin at the offset or after it and give a message.
MessagesFrom(off) ==
    {k \in 1..MaxLen : off <= 2 * k - 2 /\ 2 * k <= file.len /\ k \notin file.silent}
Complete == MessagesFrom(0)

Unknown == [known |-> FALSE, off |-> 0, size |-> 0, mtime |-> 0, count |-> 0]
NoStat == [size |-> 0, mtime |-> 0]
NoPlan == [full |-> TRUE, off |-> 0, count |-> 0]

-----------------------------------------------------------------------------
Init ==
    /\ file \in [len : 0..MaxLen, mtime : {1}, silent : Silences]
    /\ last = Unknown
    /\ processing = FALSE
    /\ again = FALSE
    /\ notified \in BOOLEAN    \* the file is an old or a new one
    /\ pc = [h \in Handlers |-> "idle"]
    /\ stat = [h \in Handlers |-> NoStat]
    /\ plan = [h \in Handlers |-> NoPlan]
    /\ snap = 0
    /\ reported = {}
    /\ cut = {}
    /\ recounted = FALSE
    /\ writes = 0
    /\ rewrites = 0
    /\ fails = 0
    /\ lost = 0

(* The session writes the file, half a line or more at a time.              *)

Grow(n) ==
    /\ writes < MaxWrites
    /\ n \in (file.len + 1)..MaxLen
    /\ file' = [file EXCEPT !.len = n, !.mtime = writes + rewrites + 2]
    /\ notified' = TRUE
    /\ writes' = writes + 1
    /\ UNCHANGED <<last, processing, again, pc, stat, plan, snap, found,
                   rewrites, fails, lost>>

\* Rewritten in place, with the time of now or the oldest one.
Rewrite(n, mtime) ==
    /\ Mishap
    /\ mtime # file.mtime
    /\ \E silent \in Silences : file' = [len |-> n, mtime |-> mtime, silent |-> silent]
    /\ notified' = TRUE
    /\ rewrites' = rewrites + 1
    /\ reported' = {}
    /\ cut' = {}
    /\ recounted' = FALSE
    /\ UNCHANGED <<last, processing, again, pc, stat, plan, snap, writes, fails, lost>>

\* The receiver lags, and the event is skipped.
LoseEvent ==
    /\ notified
    /\ Mishap
    /\ lost' = lost + 1
    /\ notified' = FALSE
    /\ UNCHANGED <<file, last, processing, again, pc, stat, plan, snap, found,
                   writes, rewrites, fails>>

-----------------------------------------------------------------------------
(* Who calls handle_error_event.                                            *)

TakeEvent ==
    /\ pc[Pipeline] = "idle"
    /\ notified
    /\ notified' = FALSE
    /\ Goto(Pipeline, "stat")
    /\ UNCHANGED <<file, last, processing, again, stat, plan, snap, found, env>>

\* The catch-up scan only looks at files the state knows.
TakeSnapshot ==
    /\ pc[CatchUp] = "idle"
    /\ last.known
    /\ snap' = last.size
    /\ Goto(CatchUp, "compare")
    /\ UNCHANGED <<file, last, processing, again, notified, stat, plan, found, env>>

CompareSnapshot ==
    /\ pc[CatchUp] = "compare"
    /\ Goto(CatchUp, IF file.len # snap \/ file.mtime # last.mtime THEN "stat" ELSE "idle")
    /\ snap' = 0
    /\ UNCHANGED <<file, last, processing, again, notified, stat, plan, found, env>>

-----------------------------------------------------------------------------
(* handle_error_event.                                                      *)

Stat(h) ==
    /\ pc[h] = "stat"
    /\ stat' = [stat EXCEPT ![h] = [size |-> file.len, mtime |-> file.mtime]]
    /\ Goto(h, "decide")
    /\ UNCHANGED <<file, last, processing, again, notified, plan, snap, found, env>>

\* The file is taken to be gone: all is forgotten.
StatFails(h) ==
    /\ pc[h] = "stat"
    /\ Mishap
    /\ fails' = fails + 1
    /\ last' = Unknown
    /\ processing' = FALSE
    /\ again' = FALSE
    /\ Goto(h, "idle")
    /\ UNCHANGED <<file, notified, stat, plan, snap, found, writes, rewrites, lost>>

\* The fast path: nothing has changed.
Unchanged(s) == last.off > 0 /\ s.size = last.size /\ s.mtime = last.mtime

\* A file that has shrunk or grown older is parsed from its start.
Forced(s) ==
    last.off > 0 /\ (s.size < last.off \/ s.mtime < last.mtime \/ s.size < last.size)

Incremental(s) == ~Forced(s) /\ last.off > 0 /\ s.size > last.size

\* Mutant: the guard is taken without a look at it.
DecideUnguarded(h) ==
    /\ pc[h] = "decide"
    /\ IF Unchanged(stat[h])
       THEN /\ Goto(h, "idle")
            /\ stat' = [stat EXCEPT ![h] = NoStat]
            /\ UNCHANGED <<processing, again, plan>>
       ELSE /\ Goto(h, "read")
            /\ processing' = TRUE
            /\ plan' = [plan EXCEPT ![h] = [full |-> ~Incremental(stat[h]), off |-> last.off,
                                            count |-> last.count]]
            /\ UNCHANGED <<again, stat>>
    /\ UNCHANGED <<file, last, notified, snap, found, env>>

\* Under the lock: leave it to who is at it, or find nothing to do, or take it.
Decide(h) ==
    /\ pc[h] = "decide"
    /\ IF processing \/ Unchanged(stat[h])
       THEN /\ Goto(h, "idle")
            /\ again' = (again \/ processing)
            /\ stat' = [stat EXCEPT ![h] = NoStat]
            /\ UNCHANGED <<processing, plan>>
       ELSE /\ Goto(h, "read")
            /\ processing' = TRUE
            /\ plan' = [plan EXCEPT ![h] = [full |-> ~Incremental(stat[h]), off |-> last.off,
                                            count |-> last.count]]
            /\ UNCHANGED <<again, stat>>
    /\ UNCHANGED <<file, last, notified, snap, found, env>>

\* The offset up to which a handler's complete lines reach.
SafeEnd(off) == IF 2 * (file.len \div 2) > off THEN 2 * (file.len \div 2) ELSE off

\* Number the messages found from the count on, and note what to record.
Search(h, lines, first, off, count) ==
    /\ reported' = reported \cup
          {[line |-> k, number |-> first + Cardinality({j \in lines : j <= k})] : k \in lines}
    /\ plan' = [plan EXCEPT ![h] = [full |-> @.full, off |-> off, count |-> count]]
    /\ Goto(h, "record")

\* Mutant: the bytes after the last newline are taken as read.
ReadAppendedToEnd(h) ==
    LET lines == MessagesFrom(plan[h].off) IN
    /\ pc[h] = "read"
    /\ ~plan[h].full
    /\ Search(h, lines, plan[h].count, file.len, plan[h].count + Cardinality(lines))
    /\ UNCHANGED <<file, last, processing, again, notified, stat, snap, cut, recounted, env>>

\* parse_jsonl_from_offset: whole lines only; half a line does not parse.
ReadAppended(h) ==
    LET lines == MessagesFrom(plan[h].off) IN
    /\ pc[h] = "read"
    /\ ~plan[h].full
    /\ Search(h, lines, plan[h].count, SafeEnd(plan[h].off),
              plan[h].count + Cardinality(lines))
    /\ UNCHANGED <<file, last, processing, again, notified, stat, snap, cut, recounted, env>>

\* parse_jsonl_file_with_provider: all there is by now, recorded as the size
\* there was.
ReadFull(h) ==
    /\ pc[h] = "read"
    /\ plan[h].full
    /\ Search(h, Complete, 0, stat[h].size, Cardinality(Complete))
    /\ cut' = IF stat[h].size % 2 = 1 THEN cut \cup {(stat[h].size + 1) \div 2} ELSE cut
    /\ recounted' = (recounted \/ file.len # stat[h].size)
    /\ UNCHANGED <<file, last, processing, again, notified, stat, snap, env>>

\* A file that cannot be read has no lines.
ReadFails(h) ==
    /\ pc[h] = "read"
    /\ Mishap
    /\ fails' = fails + 1
    /\ IF plan[h].full
       THEN Search(h, {}, 0, stat[h].size, 0)
       ELSE Search(h, {}, 0, plan[h].off, plan[h].count)
    /\ UNCHANGED <<file, last, processing, again, notified, stat, snap, cut, recounted,
                   writes, rewrites, lost>>

\* Mutant: an event that came meanwhile is forgotten.
RecordOnce(h) ==
    /\ pc[h] = "record"
    /\ last' = [known |-> TRUE, off |-> plan[h].off, size |-> stat[h].size,
                mtime |-> stat[h].mtime, count |-> plan[h].count]
    /\ processing' = FALSE
    /\ again' = FALSE
    /\ Goto(h, "idle")
    /\ stat' = [stat EXCEPT ![h] = NoStat]
    /\ plan' = [plan EXCEPT ![h] = NoPlan]
    /\ UNCHANGED <<file, notified, snap, found, env>>

\* Under the lock: the new state, and once more if an event came meanwhile.
Record(h) ==
    /\ pc[h] = "record"
    /\ last' = [known |-> TRUE, off |-> plan[h].off, size |-> stat[h].size,
                mtime |-> stat[h].mtime, count |-> plan[h].count]
    /\ processing' = FALSE
    /\ again' = FALSE
    /\ Goto(h, IF again THEN "stat" ELSE "idle")
    /\ stat' = [stat EXCEPT ![h] = NoStat]
    /\ plan' = [plan EXCEPT ![h] = NoPlan]
    /\ UNCHANGED <<file, notified, snap, found, env>>

-----------------------------------------------------------------------------
Handle(h) ==
    \/ Stat(h)
    \/ StatFails(h)
    \/ Decide(h)
    \/ ReadAppended(h)
    \/ ReadFull(h)
    \/ ReadFails(h)
    \/ Record(h)

Call == TakeEvent \/ TakeSnapshot \/ CompareSnapshot

Next ==
    \/ \E n \in 1..MaxLen : Grow(n)
    \/ \E n \in 0..MaxLen, mtime \in {1, writes + rewrites + 2} : Rewrite(n, mtime)
    \/ LoseEvent
    \/ Call
    \/ \E h \in Handlers : Handle(h)

Spec == Init /\ [][Next]_vars

\* Tasks that are ready are run, the catch-up interval ticks.
FairSpec ==
    /\ Spec
    /\ WF_vars(TakeEvent)
    /\ WF_vars(TakeSnapshot \/ CompareSnapshot)
    /\ \A h \in Handlers : WF_vars(Handle(h))

-----------------------------------------------------------------------------
(* Properties.                                                              *)

Working(h) == pc[h] \in {"read", "record"}

\* Every variable has its type; no more messages are ever counted than the file
\* can have lines, twice over (watcher_orchestrator.rs:111, :115).
TypeOK ==
    /\ file \in [len : 0..MaxLen, mtime : 1..(MaxWrites + MaxMishaps + 2),
                 silent : Silences]
    /\ last \in [known : BOOLEAN, off : 0..MaxLen, size : 0..MaxLen,
                 mtime : 0..(MaxWrites + MaxMishaps + 2), count : 0..MaxLen]
    /\ processing \in BOOLEAN
    /\ again \in BOOLEAN
    /\ notified \in BOOLEAN
    /\ pc \in [Handlers -> {"idle", "compare", "stat", "decide", "read", "record"}]
    /\ stat \in [Handlers -> [size : 0..MaxLen, mtime : 0..(MaxWrites + MaxMishaps + 2)]]
    /\ plan \in [Handlers -> [full : BOOLEAN, off : 0..MaxLen, count : 0..MaxLen]]
    /\ snap \in 0..MaxLen
    /\ reported \subseteq [line : 1..MaxLen, number : 1..MaxLen]
    /\ cut \subseteq 1..MaxLen
    /\ recounted \in BOOLEAN
    /\ writes \in 0..MaxWrites
    /\ rewrites \in 0..MaxMishaps
    /\ fails \in 0..MaxMishaps
    /\ lost \in 0..MaxMishaps

\* processing is the set of files being worked on (watcher_orchestrator.rs:37):
\* as long as no access has failed it holds the file just when one handler, and
\* only one, is at it.
GuardExcludes ==
    fails = 0 =>
        /\ processing <=> \E h \in Handlers : Working(h)
        /\ \A g, h \in Handlers : Working(g) /\ Working(h) => g = h

\* An event that finds the file being worked on is put down in
\* pending_reprocess (watcher_orchestrator.rs:39), and is not forgotten: it is
\* taken from there to look at the file again, unless the file is gone.
AgainIsServed ==
    [][again /\ ~again' =>
          \/ \E h \in Handlers : pc[h] # "stat" /\ pc'[h] = "stat"
          \/ ~last'.known]_vars

Reported == {r.line : r \in reported}

\* However the handlers and the session interleave: every line before
\* last_offset (watcher_orchestrator.rs:25) that gives a message has been searched,
\* but for one that a full parse met half written, and as long as no access has
\* failed and lines were only appended.
OnlyCutLinesAreSkipped ==
    fails = 0 /\ rewrites = 0 =>
        \A k \in 1..MaxLen : 2 * k <= last.off => k \in Reported \cup cut \cup file.silent

\* The number that one parse of the whole file would give the message of a line.
NumberInFile(k) == Cardinality({j \in 1..k : j \notin file.silent})

\* However the file was cut into parts, an error has the number that one parse
\* of the whole file would give it: last_line_count is the number of messages
\* before last_offset (watcher_orchestrator.rs:111, :115, :130), as long as every
\* full parse read just what it recorded.
NumbersAreRight ==
    fails = 0 /\ rewrites = 0 /\ cut = {} /\ ~recounted =>
        \A r \in reported : r.number = NumberInFile(r.line)

\* Once the state knows the file and it stays as it is, all its messages are
\* searched, events lost or not (watcher_orchestrator.rs:453), as long as no
\* access has failed and lines were only appended.
CatchesUp ==
    <>[](fails = 0 /\ rewrites = 0 /\ last.known => Complete \subseteq Reported \cup cut)

\* Every line that was passed over is accounted for, and has its number.
LinesAreAccounted == TypeOK /\ OnlyCutLinesAreSkipped /\ NumbersAreRight

\* An event is served: at once or by a second look, and a lost one by the
\* catch-up scan.
EventsAreServed == AgainIsServed /\ CatchesUp
=============================================================================
