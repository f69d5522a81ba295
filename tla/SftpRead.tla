------------------------------ MODULE SftpRead -------------------------------
(***************************************************************************)
(* Reading over SFTP (ssh_fs_provider.rs) with the retries of               *)
(* retry_transient (retry.rs), while the agent on the other side appends to  *)
(* the file. Only what is a line matters of a file: it is a sequence of       *)
(* bytes, each the end of a line or not. A line is the pair of the positions  *)
(* of its first and last byte, without its end.                             *)
(*                                                                         *)
(* read is the one request under way: what was asked, the step it is at, how  *)
(* often the step failed, the bytes it holds, and the answer. Histories: how  *)
(* often the server was asked, what it answered last, the file as the answer  *)
(* saw it, and whether the larger piece could not be had.                   *)
(***************************************************************************)
EXTENDS Integers, Sequences, FiniteSets, SequencesExt, FiniteSetsExt

CONSTANTS
    MAX_RETRIES,  \* the attempts after the first one
    FIRST_CHUNK,  \* the bytes a head is first looked for in
    FULL_CHUNK,   \* the bytes it is looked for in when those are too few
    HeadLines,    \* the numbers of lines that are asked for
    MaxBytes      \* bound: the length of the file

ASSUME SftpReadAssumption ==
    /\ MAX_RETRIES \in Nat /\ FIRST_CHUNK \in Nat /\ FULL_CHUNK \in Nat /\ 0 < FIRST_CHUNK /\ FIRST_CHUNK < FULL_CHUNK
    /\ HeadLines \subseteq Nat /\ MaxBytes \in Nat

VARIABLES file, read

sftpVars == <<file, read>>

\* The errors of a request: no such file, SSH_FX_FAILURE, another status, the
\* connection, and a file that is not UTF-8.
Errors == {"missing", "failure", "denied", "io", "garbled"}

classify_sftp_error(err) ==
    CASE err = "missing" -> "not_found" [] err = "denied" -> "permanent" [] OTHER -> "transient"

\* Where a line starts, and where one that starts at i ends.
Starts(bytes) == {i \in DOMAIN bytes: i = 1 \/ bytes[i - 1] = "end"}
EndOf(bytes, i) == Min({j \in DOMAIN bytes: j >= i /\ bytes[j] = "end"} \cup {Len(bytes) + 1}) - 1
Lines(bytes) ==
    FlattenSeq([i \in 1 .. Len(bytes) |-> IF i \in Starts(bytes) THEN << <<i, EndOf(bytes, i)>> >> ELSE <<>>])

LineEnds(bytes) == Cardinality({i \in DOMAIN bytes: bytes[i] = "end"})
Take(lines, n) == SubSeq(lines, 1, Min({n, Len(lines)}))
Chunk(n) == SubSeq(file, 1, Min({n, Len(file)}))

NoRead == [op |-> "none", max |-> 0, step |-> "idle", attempt |-> 0, bytes |-> <<>>, answer |-> "none", lines |-> <<>>,
           asked |-> 0, last |-> "none", saw |-> <<>>, degraded |-> FALSE]

FirstStep(op) == CASE op = "head" -> "first" [] OTHER -> op

Asks ==
    /\ read.step \in {"idle", "done"}
    /\ \E op \in {"head", "file", "stat", "exists"}: \E max \in IF op = "head" THEN HeadLines ELSE {0}:
          read' = [NoRead EXCEPT !.op = op, !.max = max, !.step = FirstStep(op)]
    /\ UNCHANGED file

Asked(err) == [read EXCEPT !.asked = @ + 1, !.last = err]
Advances(r, step) == [r EXCEPT !.step = step, !.attempt = 0]
Answers(r, answer) == [r EXCEPT !.step = "done", !.answer = answer]

\* Every error of a range is wrapped as one of the connection.
Wrapped(err) == IF read.step \in {"first", "full"} THEN "io" ELSE err

\* retry_transient: transient errors are tried again, MAX_RETRIES times.
Retry(err) == classify_sftp_error(Wrapped(err)) = "transient" /\ read.attempt < MAX_RETRIES

\* Mutant: the larger piece is taken for the whole file.
WithoutTornLineNever(bytes) == bytes

\* A full piece that does not end with a line's end loses its last line.
WithoutTornLine(bytes) ==
    IF Len(bytes) < FULL_CHUNK \/ bytes[Len(bytes)] = "end" THEN bytes
    ELSE SubSeq(bytes, 1, Max({i \in DOMAIN bytes: bytes[i] = "end"} \cup {0}))

HeadOf(r, bytes) == [Answers(r, "ok") EXCEPT !.lines = Take(Lines(WithoutTornLine(bytes)), r.max)]

\* The first piece holds the whole file, or enough lines.
Enough(bytes, max) == Len(bytes) < FIRST_CHUNK \/ LineEnds(bytes) >= max

\* read_file_range of the first piece.
ReadsFirst ==
    /\ read.step = "first"
    /\ LET bytes == Chunk(FIRST_CHUNK)
           r == [Asked("ok") EXCEPT !.bytes = bytes, !.saw = file]
       IN  read' = IF Enough(bytes, read.max) THEN HeadOf(r, bytes) ELSE Advances(r, "full")
    /\ UNCHANGED file

\* Once more from the start, as much as a head may need.
ReadsFull ==
    /\ read.step = "full"
    /\ LET bytes == Chunk(FULL_CHUNK)
       IN  read' = HeadOf([Asked("ok") EXCEPT !.bytes = bytes, !.saw = file], bytes)
    /\ UNCHANGED file

\* read_file, for itself or for a head that could not be read as a range.
ReadsFile ==
    /\ read.step = "file"
    /\ read' = [Answers(Asked("ok"), "ok") EXCEPT !.saw = file,
                   !.lines = IF read.op = "head" THEN Take(Lines(file), read.max) ELSE Lines(file)]
    /\ UNCHANGED file

\* stat, read_dir and exists.
Looks ==
    /\ read.step \in {"stat", "exists"}
    /\ read' = [Answers(Asked("ok"), "ok") EXCEPT !.saw = file]
    /\ UNCHANGED file

\* An error that may pass says nothing about the file.
ExistsAfter(err) == IF classify_sftp_error(err) = "transient" THEN "yes" ELSE "no"

Retries(err) ==
    /\ read.step \in {"first", "full", "file", "stat"} /\ Retry(err)
    /\ read' = [Asked(err) EXCEPT !.attempt = @ + 1]
    /\ UNCHANGED file

\* What the operation does with the last error of a step.
GivesUpReading(err) ==
    /\ read.step \notin {"idle", "done"} /\ (read.step = "exists" \/ ~Retry(err))
    /\ read' = CASE read.step = "first" -> Advances(Asked(err), "file")
                 [] read.step = "full" -> [HeadOf(Asked(err), read.bytes) EXCEPT !.degraded = TRUE]
                 [] read.step = "exists" -> Answers(Asked(err), ExistsAfter(err))
                 [] OTHER -> Answers(Asked(err), "error")
    /\ UNCHANGED file

Meets(err) == err \in (IF read.step = "file" THEN Errors ELSE Errors \ {"garbled"})

\* The agent writes on.
AgentWrites ==
    /\ Len(file) < MaxBytes /\ read.step # "idle"
    /\ \E b \in {"byte", "end"}: file' = Append(file, b)
    /\ UNCHANGED read

SftpInit == file \in UNION {[1 .. n -> {"byte", "end"}] : n \in 0 .. MaxBytes} /\ read = NoRead

SftpNext ==
    \/ Asks \/ ReadsFirst \/ ReadsFull \/ ReadsFile \/ Looks
    \/ \E err \in Errors: Meets(err) /\ (Retries(err) \/ GivesUpReading(err))
    \/ AgentWrites

SftpSpec == SftpInit /\ [][SftpNext]_sftpVars

-----------------------------------------------------------------------------
Headed == read.step = "done" /\ read.op = "head" /\ read.answer = "ok"

\* A line of a head is a line of the file as it was read, whole: one that a
\* piece cuts is never shown, but for the end of the first piece when the
\* larger one cannot be had.
HeadLinesAreWhole ==
    Headed => \A i \in DOMAIN read.lines:
        \/ read.lines[i] \in ToSet(Lines(read.saw))
        \/ read.degraded /\ i = Len(read.lines)

\* A head has as many lines as were asked for, when the file has them within
\* the larger piece.
HeadIsEnough ==
    Headed /\ ~read.degraded =>
        LET lines == Lines(read.saw)
            within == {i \in DOMAIN lines: lines[i][2] < FULL_CHUNK}
        IN  Len(read.lines) >= Min({read.max, Cardinality(within)})

\* No answer costs more than two series of attempts, and one that fails
\* because of an error that may pass has used up its own.
FailsOnlyAfterRetries ==
    /\ read.asked <= 2 * (MAX_RETRIES + 1)
    /\ read.step = "done" /\ read.answer = "error" /\ classify_sftp_error(read.last) = "transient"
          => read.asked > MAX_RETRIES

\* A file is reported to be missing only by a server that says so or refuses
\* to look: an error that may pass makes no file disappear.
ExistsIsCautious ==
    read.op = "exists" /\ read.answer = "no" => classify_sftp_error(read.last) # "transient"

\* What is read over SFTP is there, whole and enough, and what is said to be
\* missing or to fail really is.
ReadsAreTrue == HeadLinesAreWhole /\ HeadIsEnough /\ FailsOnlyAfterRetries /\ ExistsIsCautious
=============================================================================
