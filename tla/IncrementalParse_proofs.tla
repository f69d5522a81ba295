----------------------- MODULE IncrementalParse_proofs -----------------------
(***************************************************************************)
(* Until an access to the file fails, no two handlers ever work on it at   *)
(* the same time, whatever the session, the watcher and the scan do; and   *)
(* until then, or until the file is rewritten, every line that was passed  *)
(* over is accounted for and every error has the number it would have if   *)
(* the file was parsed at once.                                            *)
(***************************************************************************)
EXTENDS IncrementalParse, ErrorDetector, ListLemmas, FiniteSetTheorems, TLAPS

PCs == {"idle", "compare", "stat", "decide", "read", "record"}

\* GuardExcludes with what its induction needs: the labels, and that the
\* failures are counted.
GuardInv ==
    /\ pc \in [Handlers -> PCs]
    /\ processing \in BOOLEAN
    /\ fails \in Nat
    /\ GuardExcludes

LEMMA TwoHandlers == Pipeline \in Handlers /\ CatchUp \in Handlers /\ Pipeline # CatchUp
BY DEF Handlers, Pipeline, CatchUp

\* A handler that moves between labels at which it works, or between labels at
\* which it does not, leaves the guard as it is.
LEMMA MoveKeepsGuard ==
    ASSUME GuardInv, NEW h \in Handlers, NEW label \in PCs,
           Goto(h, label), processing' = processing, fails' = fails,
           Working(h) <=> label \in {"read", "record"}
    PROVE  GuardInv'
<1>1. /\ pc' \in [Handlers -> PCs]
      /\ pc' = [pc EXCEPT ![h] = label]
  BY DEF GuardInv, Goto
<1>2. \A g \in Handlers : Working(g)' <=> Working(g)
  BY <1>1 DEF GuardInv, Working
<1> QED
  BY <1>1, <1>2 DEF GuardInv, GuardExcludes

\* A step that concerns neither the handlers nor the guard.
LEMMA OtherKeepsGuard ==
    ASSUME GuardInv, UNCHANGED <<pc, processing, fails>>
    PROVE  GuardInv'
BY DEF GuardInv, GuardExcludes, Working

\* Decide takes the guard only when nobody has it.
LEMMA DecideKeepsGuard ==
    ASSUME GuardInv, NEW h \in Handlers, Decide(h)
    PROVE  GuardInv'
<1>0. pc[h] = "decide" /\ ~Working(h) /\ fails' = fails
  BY DEF Decide, Working, env
<1>1. CASE processing \/ Unchanged(stat[h])
  <2>1. Goto(h, "idle") /\ processing' = processing
    BY <1>1 DEF Decide
  <2> QED
    BY <1>0, <2>1, MoveKeepsGuard DEF PCs
<1>2. CASE ~(processing \/ Unchanged(stat[h]))
  <2>1. /\ Goto(h, "read")
        /\ processing' = TRUE
        /\ ~processing
    BY <1>2 DEF Decide
  <2>2. /\ pc' = [pc EXCEPT ![h] = "read"]
        /\ pc \in [Handlers -> PCs]
        /\ pc' \in [Handlers -> PCs]
    BY <2>1 DEF GuardInv, Goto, PCs
  <2>3. fails = 0 => \A g \in Handlers : ~Working(g)
    BY <2>1 DEF GuardInv, GuardExcludes
  <2>4. fails = 0 => \A g \in Handlers : Working(g)' <=> g = h
    BY <2>2, <2>3 DEF Working
  <2> QED
    BY <1>0, <2>1, <2>2, <2>4 DEF GuardInv, GuardExcludes
<1> QED
  BY <1>1, <1>2

\* Record gives the guard back, and no other handler was at work.
LEMMA RecordKeepsGuard ==
    ASSUME GuardInv, NEW h \in Handlers, Record(h)
    PROVE  GuardInv'
<1>1. /\ pc[h] = "record" /\ processing' = FALSE /\ fails' = fails
      /\ \E l \in {"stat", "idle"} : pc' = [pc EXCEPT ![h] = l]
  BY DEF Record, Goto, env
<1>2. /\ pc \in [Handlers -> PCs]
      /\ pc' \in [Handlers -> PCs]
  BY <1>1 DEF GuardInv, PCs
<1>3. fails = 0 => \A g \in Handlers : Working(g) => g = h
  BY <1>1 DEF GuardInv, GuardExcludes, Working
<1>4. fails = 0 => \A g \in Handlers : ~Working(g)'
  BY <1>1, <1>2, <1>3 DEF Working
<1> QED
  BY <1>1, <1>2, <1>4 DEF GuardInv, GuardExcludes

\* After an access that failed nothing is said of the guard any more.
LEMMA FailureKeepsGuard ==
    ASSUME GuardInv, NEW h \in Handlers, StatFails(h) \/ ReadFails(h)
    PROVE  GuardInv'
<1>1. /\ fails' = fails + 1
      /\ processing' \in BOOLEAN
      /\ \E l \in PCs : pc' = [pc EXCEPT ![h] = l]
  <2>1. CASE StatFails(h)
    BY <2>1 DEF StatFails, Goto, PCs
  <2>2. CASE ReadFails(h)
    BY <2>2 DEF ReadFails, Search, Goto, PCs, GuardInv
  <2> QED
    BY <2>1, <2>2
<1>2. pc' \in [Handlers -> PCs]
  BY <1>1 DEF GuardInv
<1>3. fails' \in Nat /\ fails' # 0
  BY <1>1 DEF GuardInv
<1> QED
  BY <1>1, <1>2, <1>3 DEF GuardInv, GuardExcludes

LEMMA GuardInit == Init => GuardInv
<1> SUFFICES ASSUME Init PROVE GuardInv
  OBVIOUS
<1>1. /\ pc = [h \in Handlers |-> "idle"]
      /\ processing = FALSE
      /\ fails = 0
  BY DEF Init
<1>2. \A h \in Handlers : ~Working(h)
  BY <1>1 DEF Working
<1> QED
  BY <1>1, <1>2 DEF GuardInv, GuardExcludes, PCs

LEMMA GuardStep == GuardInv /\ [Next]_vars => GuardInv'
<1> SUFFICES ASSUME GuardInv, [Next]_vars
             PROVE  GuardInv'
  OBVIOUS
<1>1. ASSUME NEW n \in 1..MaxLen, Grow(n) PROVE GuardInv'
  BY <1>1, OtherKeepsGuard DEF Grow
<1>2. ASSUME NEW n \in 0..MaxLen, NEW mtime \in {1, writes + rewrites + 2}, Rewrite(n, mtime)
      PROVE  GuardInv'
  BY <1>2, OtherKeepsGuard DEF Rewrite
<1>3. CASE LoseEvent
  BY <1>3, OtherKeepsGuard DEF LoseEvent
<1>4. CASE TakeEvent
  <2>1. /\ Goto(Pipeline, "stat") /\ ~Working(Pipeline)
        /\ processing' = processing /\ fails' = fails
    BY <1>4 DEF TakeEvent, Working, env
  <2> QED
    BY <2>1, TwoHandlers, MoveKeepsGuard DEF PCs
<1>5. CASE TakeSnapshot
  <2>1. /\ Goto(CatchUp, "compare") /\ ~Working(CatchUp)
        /\ processing' = processing /\ fails' = fails
    BY <1>5 DEF TakeSnapshot, Working, env
  <2> QED
    BY <2>1, TwoHandlers, MoveKeepsGuard DEF PCs
<1>6. CASE CompareSnapshot
  <2>1. /\ \E l \in {"stat", "idle"} : Goto(CatchUp, l)
        /\ ~Working(CatchUp)
        /\ processing' = processing /\ fails' = fails
    BY <1>6 DEF CompareSnapshot, Working, env
  <2> QED
    BY <2>1, TwoHandlers, MoveKeepsGuard DEF PCs
<1>7. ASSUME NEW h \in Handlers, Handle(h) PROVE GuardInv'
  <2>1. CASE Stat(h)
    <3>1. /\ Goto(h, "decide") /\ ~Working(h)
          /\ processing' = processing /\ fails' = fails
      BY <2>1 DEF Stat, Working, env
    <3> QED
      BY <3>1, MoveKeepsGuard DEF PCs
  <2>2. CASE StatFails(h) \/ ReadFails(h)
    BY <2>2, FailureKeepsGuard
  <2>3. CASE Decide(h)
    BY <2>3, DecideKeepsGuard
  <2>4. CASE ReadAppended(h)
    <3>1. /\ Goto(h, "record") /\ Working(h)
          /\ processing' = processing /\ fails' = fails
      BY <2>4 DEF ReadAppended, Search, Working, env
    <3> QED
      BY <3>1, MoveKeepsGuard DEF PCs
  <2>5. CASE ReadFull(h)
    <3>1. /\ Goto(h, "record") /\ Working(h)
          /\ processing' = processing /\ fails' = fails
      BY <2>5 DEF ReadFull, Search, Working, env
    <3> QED
      BY <3>1, MoveKeepsGuard DEF PCs
  <2>6. CASE Record(h)
    BY <2>6, RecordKeepsGuard
  <2> QED
    BY <1>7, <2>1, <2>2, <2>3, <2>4, <2>5, <2>6 DEF Handle
<1>8. CASE UNCHANGED vars
  <2>1. UNCHANGED <<pc, processing, fails>>
    BY <1>8 DEF vars, env
  <2> QED
    BY <2>1, OtherKeepsGuard
<1> QED
  BY <1>1, <1>2, <1>3, <1>4, <1>5, <1>6, <1>7, <1>8 DEF Next, Call

\* The concurrency guard (watcher_orchestrator.rs:37, :88): as long as no
\* access to the file fails, processing holds the file just when one handler
\* works on it, and never two do, for every length and number of writes.
THEOREM OneHandlerAtATime == Spec => []GuardExcludes
<1>1. GuardInv => GuardExcludes
  BY DEF GuardInv
<1> QED
  BY GuardInit, GuardStep, <1>1, PTL DEF Spec

-----------------------------------------------------------------------------
(* The lines.  Offsets and counts are bound together: whoever continues at *)
(* an offset has counted the lines before it, and has searched them.       *)


OnlyAppended == fails = 0 /\ rewrites = 0
Whole == cut = {} /\ ~recounted

\* Lines that may still be found from an offset on.
AheadOf(off) == {k \in 1..MaxLen : off <= 2 * k - 2 /\ 2 * k <= MaxLen}

\* With those that may still come, never more than MaxLen are counted.
Countable(off, count) == count + Cardinality(AheadOf(off)) <= MaxLen

\* Every line before the offset was searched, or was cut; so was the line the
\* offset divides.
Covered(off) ==
    /\ \A k \in 1..MaxLen : 2 * k <= off => k \in Reported \cup cut \cup file.silent
    /\ off % 2 = 1 => (off + 1) \div 2 \in cut

\* A count is of the messages before its offset, which divides no line.
Numbered(off, count) == \E c \in Nat : off = 2 * c /\ count = NumberInFile(c)

CountInv ==
    /\ Countable(last.off, last.count)
    /\ \A h \in Handlers : Countable(plan[h].off, plan[h].count)

\* What a handler is to continue from, or is to record.
Carries(h) == pc[h] = "record" \/ (pc[h] = "read" /\ ~plan[h].full)

LineInv ==
    OnlyAppended =>
        /\ Covered(last.off)
        /\ \A h \in Handlers : /\ stat[h].size <= file.len
                               /\ Carries(h) => Covered(plan[h].off)

NumberInv ==
    OnlyAppended /\ Whole =>
        /\ Numbered(last.off, last.count)
        /\ \A h \in Handlers : Carries(h) => Numbered(plan[h].off, plan[h].count)
        /\ \A r \in reported : r.number = NumberInFile(r.line)

\* Finite sets of lines.
LEMMA LineSets ==
    ASSUME NEW n \in Nat, NEW S \in SUBSET (1..n)
    PROVE  IsFiniteSet(S) /\ Cardinality(S) \in Nat /\ Cardinality(S) <= n
<1>1. IsFiniteSet(1..n) /\ Cardinality(1..n) = n
  <2>1. IsFiniteSet(1..n) /\ Cardinality(1..n) = IF 1 > n THEN 0 ELSE n - 1 + 1
    BY FS_Interval
  <2> QED
    BY <2>1
<1> QED
  BY <1>1, FS_Subset, FS_CardinalityType

LEMMA Interval ==
    ASSUME NEW a \in Nat, NEW b \in Nat
    PROVE  Cardinality((a + 1)..b) = IF b <= a THEN 0 ELSE b - a
<1>1. a + 1 \in Int /\ b \in Int
  OBVIOUS
<1>2. Cardinality((a + 1)..b) = IF a + 1 > b THEN 0 ELSE b - (a + 1) + 1
  BY <1>1, FS_Interval
<1> QED
  BY <1>2

\* Half the length of the file is the number of its last complete line.
LEMMA Halves ==
    ASSUME NEW n \in Nat
    PROVE  /\ n \div 2 \in Nat /\ 2 * (n \div 2) <= n /\ n < 2 * (n \div 2) + 2
           /\ \A k \in Nat : 2 * k <= n <=> k <= n \div 2
           /\ n % 2 = 0 <=> n = 2 * (n \div 2)
           /\ n % 2 = 1 <=> n = 2 * (n \div 2) + 1
           /\ n % 2 \in {0, 1}
<1>1. /\ n \div 2 \in Nat /\ 2 * (n \div 2) <= n /\ n < 2 * (n \div 2) + 2
  OBVIOUS
<1>2. /\ n % 2 = 0 <=> n = 2 * (n \div 2)
      /\ n % 2 = 1 <=> n = 2 * (n \div 2) + 1
      /\ n % 2 \in {0, 1}
  OBVIOUS
<1>3. \A k \in Nat : 2 * k <= n <=> k <= n \div 2
  BY <1>1
<1> QED
  BY <1>1, <1>2, <1>3

\* The messages that come after the first c lines.
LEMMA MessagesAfter ==
    ASSUME TypeOK, NEW c \in Nat, 2 * c <= MaxLen
    PROVE  MessagesFrom(2 * c) = ((c + 1)..(file.len \div 2)) \ file.silent
<1>1. file.len \in Nat /\ file.len <= MaxLen /\ MaxLen \in Nat
  BY ParseAssumption DEF TypeOK
<1> DEFINE half == file.len \div 2
<1>2. half \in Nat /\ 2 * half <= file.len /\ \A k \in Nat : 2 * k <= file.len <=> k <= half
  BY <1>1, Halves
<1> HIDE DEF half
<1>3. \A k \in 1..MaxLen : 2 * c <= 2 * k - 2 /\ 2 * k <= file.len <=> k \in (c + 1)..half
  BY <1>1, <1>2
<1>4. (c + 1)..half \subseteq 1..MaxLen
  BY <1>1, <1>2
<1>5. MessagesFrom(2 * c) = ((c + 1)..half) \ file.silent
  BY <1>3, <1>4 DEF MessagesFrom
<1> QED
  BY <1>5 DEF half

\* The messages of the first k lines, and those of the lines up to m after them.
LEMMA RankAdds ==
    ASSUME NEW k \in Nat, NEW m \in Nat, k <= m
    PROVE  /\ NumberInFile(k) \in Nat
           /\ NumberInFile(m) = NumberInFile(k) + Cardinality(((k + 1)..m) \ file.silent)
<1> DEFINE A == {j \in 1..k : j \notin file.silent}
           B == ((k + 1)..m) \ file.silent
           C == {j \in 1..m : j \notin file.silent}
<1>1. C = A \cup B /\ A \cap B = {}
  OBVIOUS
<1>2. A \in SUBSET (1..k) /\ B \in SUBSET (1..m)
  OBVIOUS
<1>3. NumberInFile(k) = Cardinality(A) /\ NumberInFile(m) = Cardinality(C)
  BY DEF NumberInFile
<1> HIDE DEF A, B, C
<1>4. IsFiniteSet(A) /\ IsFiniteSet(B) /\ Cardinality(A) \in Nat /\ Cardinality(B) \in Nat
  BY <1>2, LineSets
<1>5. Cardinality(A \cup B) = Cardinality(A) + Cardinality(B) - Cardinality(A \cap B)
  BY <1>4, FS_Union
<1>6. Cardinality(C) = Cardinality(A) + Cardinality(B)
  BY <1>1, <1>4, <1>5, FS_EmptySet
<1> QED
  BY <1>3, <1>4, <1>6 DEF B

\* A handler that goes on from where it had counted to has counted, after
\* it, to where it goes.
LEMMA CountsOn ==
    ASSUME TypeOK, NEW off \in 0..MaxLen, NEW count \in 0..MaxLen, Countable(off, count)
    PROVE  /\ SafeEnd(off) \in 0..MaxLen
           /\ count + Cardinality(MessagesFrom(off)) \in 0..MaxLen
           /\ Countable(SafeEnd(off), count + Cardinality(MessagesFrom(off)))
<1>1. file.len \in Nat /\ file.len <= MaxLen /\ MaxLen \in Nat /\ off \in Nat /\ count \in Nat
  BY ParseAssumption DEF TypeOK
<1> DEFINE half == file.len \div 2
           end == SafeEnd(off)
           A == MessagesFrom(off)
           B == AheadOf(end)
<1>2. half \in Nat /\ 2 * half <= file.len /\ \A k \in Nat : 2 * k <= file.len <=> k <= half
  BY <1>1, Halves
<1>3. end \in 0..MaxLen /\ end >= off /\ end >= 2 * half
  BY <1>1, <1>2 DEF SafeEnd
<1>4. A \subseteq 1..MaxLen /\ B \subseteq 1..MaxLen /\ AheadOf(off) \subseteq 1..MaxLen
  BY DEF MessagesFrom, AheadOf
<1>5. A \cup B \subseteq AheadOf(off)
  BY <1>1, <1>3 DEF MessagesFrom, AheadOf
<1>6. A \cap B = {}
  BY <1>1, <1>2, <1>3 DEF MessagesFrom, AheadOf
<1> HIDE DEF half, end, A, B
<1>7. /\ IsFiniteSet(A) /\ IsFiniteSet(B) /\ IsFiniteSet(AheadOf(off))
      /\ Cardinality(A) \in Nat /\ Cardinality(B) \in Nat
      /\ Cardinality(AheadOf(off)) \in Nat
  BY <1>1, <1>4, LineSets
<1>8. Cardinality(A \cup B) = Cardinality(A) + Cardinality(B)
  <2>1. Cardinality(A \cup B) = Cardinality(A) + Cardinality(B) - Cardinality(A \cap B)
    BY <1>7, FS_Union
  <2> QED
    BY <1>6, <1>7, <2>1, FS_EmptySet
<1>9. Cardinality(A \cup B) <= Cardinality(AheadOf(off))
  BY <1>5, <1>7, FS_Subset
<1>10. count + Cardinality(AheadOf(off)) <= MaxLen
  BY DEF Countable
<1>11. count + Cardinality(A) + Cardinality(B) <= MaxLen
  BY <1>1, <1>7, <1>8, <1>9, <1>10
<1> QED
  BY <1>1, <1>3, <1>7, <1>11 DEF Countable, A, B, end

\* Who has counted the lines of the whole file may continue anywhere.
LEMMA CountsAfresh ==
    ASSUME TypeOK, NEW off \in 0..MaxLen
    PROVE  /\ Cardinality(Complete) \in 0..MaxLen
           /\ Countable(off, Cardinality(Complete))
           /\ Countable(off, 0)
<1>1. file.len \in Nat /\ file.len <= MaxLen /\ MaxLen \in Nat /\ off \in Nat
  BY ParseAssumption DEF TypeOK
<1> DEFINE half == MaxLen \div 2
<1>2. half \in Nat /\ 2 * half <= MaxLen /\ \A k \in Nat : 2 * k <= MaxLen <=> k <= half
  BY <1>1, Halves
<1>3. Complete \subseteq 1..half /\ AheadOf(off) \subseteq 1..half
  BY <1>1, <1>2 DEF Complete, MessagesFrom, AheadOf
<1> HIDE DEF half
<1>4. /\ Cardinality(Complete) \in Nat /\ Cardinality(Complete) <= half
      /\ Cardinality(AheadOf(off)) \in Nat /\ Cardinality(AheadOf(off)) <= half
  BY <1>2, <1>3, LineSets
<1> QED
  BY <1>1, <1>2, <1>4 DEF Countable

\* What a search notes down of the offset and the count.
LEMMA SearchPlans ==
    ASSUME TypeOK, NEW h \in Handlers, NEW lines, NEW first, NEW off, NEW count,
           Search(h, lines, first, off, count)
    PROVE  /\ plan'[h].off = off /\ plan'[h].count = count
           /\ \A g \in Handlers : g # h => plan'[g] = plan[g]
<1>1. plan' = [plan EXCEPT ![h] = [full |-> @.full, off |-> off, count |-> count]]
  BY DEF Search
<1>2. h \in DOMAIN plan /\ DOMAIN plan = Handlers
  BY DEF TypeOK
<1> QED
  BY <1>1, <1>2

\* What a search leaves, of any lines.
LEMMA SearchTypes ==
    ASSUME TypeOK, NEW h \in Handlers, NEW lines \in SUBSET (1..MaxLen),
           NEW first \in Nat, first + Cardinality(lines) <= MaxLen,
           NEW off \in 0..MaxLen, NEW count \in 0..MaxLen,
           Search(h, lines, first, off, count)
    PROVE  /\ reported' \subseteq [line : 1..MaxLen, number : 1..MaxLen]
           /\ plan' \in [Handlers -> [full : BOOLEAN, off : 0..MaxLen, count : 0..MaxLen]]
           /\ plan'[h].off = off /\ plan'[h].count = count
           /\ \A g \in Handlers : g # h => plan'[g] = plan[g]
           /\ pc' = [pc EXCEPT ![h] = "record"]
           /\ \A k \in lines : first + Cardinality({j \in lines : j <= k}) \in 1..MaxLen
           /\ reported' = reported \cup
                {[line |-> k, number |-> first + Cardinality({j \in lines : j <= k})] : k \in lines}
<1>1. MaxLen \in Nat
  BY ParseAssumption
<1>2. ASSUME NEW k \in lines
      PROVE  first + Cardinality({j \in lines : j <= k}) \in 1..MaxLen
  <2> DEFINE S == {j \in lines : j <= k}
  <2>0. S \subseteq lines
    OBVIOUS
  <2>1. S \subseteq lines /\ S \subseteq 1..MaxLen /\ k \in S
    <3>1. k \in 1..MaxLen
      OBVIOUS
    <3>2. k <= k
      BY <3>1, <1>1
    <3>3. S \subseteq 1..MaxLen
      BY <2>0
    <3> QED
      BY <3>2, <3>3
  <2> HIDE DEF S
  <2>2. /\ IsFiniteSet(lines) /\ Cardinality(lines) \in Nat
        /\ IsFiniteSet(S) /\ Cardinality(S) \in Nat /\ Cardinality(S) <= Cardinality(lines)
    BY <1>1, <2>1, LineSets, FS_Subset
  <2>3. Cardinality(S) # 0
    BY <2>1, <2>2, FS_EmptySet
  <2>4. first + Cardinality(S) \in 1..MaxLen
    BY <1>1, <2>2, <2>3
  <2> QED
    BY <2>4 DEF S
<1>3. /\ reported' = reported \cup
            {[line |-> k, number |-> first + Cardinality({j \in lines : j <= k})] : k \in lines}
      /\ plan' = [plan EXCEPT ![h] = [full |-> @.full, off |-> off, count |-> count]]
      /\ pc' = [pc EXCEPT ![h] = "record"]
  BY DEF Search, Goto
<1>4. reported' \subseteq [line : 1..MaxLen, number : 1..MaxLen]
  <2>1. ASSUME NEW k \in lines
        PROVE  [line |-> k, number |-> first + Cardinality({j \in lines : j <= k})]
                 \in [line : 1..MaxLen, number : 1..MaxLen]
    <3>1. first + Cardinality({j \in lines : j <= k}) \in 1..MaxLen
      BY <1>2
    <3>2. k \in 1..MaxLen
      OBVIOUS
    <3> QED
      BY <3>1, <3>2
  <2>2. reported \subseteq [line : 1..MaxLen, number : 1..MaxLen]
    BY DEF TypeOK
  <2>3. {[line |-> k, number |-> first + Cardinality({j \in lines : j <= k})] : k \in lines}
           \subseteq [line : 1..MaxLen, number : 1..MaxLen]
    BY <2>1
  <2> QED
    BY <1>3, <2>2, <2>3, Zenon
<1>5. plan[h].full \in BOOLEAN
  BY DEF TypeOK
<1>6. plan' \in [Handlers -> [full : BOOLEAN, off : 0..MaxLen, count : 0..MaxLen]]
  BY <1>3, <1>5 DEF TypeOK
<1>7. /\ plan'[h].off = off /\ plan'[h].count = count
      /\ \A g \in Handlers : g # h => plan'[g] = plan[g]
  BY SearchPlans
<1> QED
  BY <1>2, <1>3, <1>4, <1>6, <1>7

\* TypeOK in two halves: the world and its bounds, and the handlers.
WorldType ==
    /\ file \in [len : 0..MaxLen, mtime : 1..(MaxWrites + MaxMishaps + 2), silent : Silences]
    /\ notified \in BOOLEAN
    /\ writes \in 0..MaxWrites
    /\ rewrites \in 0..MaxMishaps
    /\ fails \in 0..MaxMishaps
    /\ lost \in 0..MaxMishaps
    /\ rewrites + fails + lost <= MaxMishaps

StateType ==
    /\ last \in [known : BOOLEAN, off : 0..MaxLen, size : 0..MaxLen,
                 mtime : 0..(MaxWrites + MaxMishaps + 2), count : 0..MaxLen]
    /\ processing \in BOOLEAN
    /\ again \in BOOLEAN

HandlerType ==
    /\ pc \in [Handlers -> PCs]
    /\ stat \in [Handlers -> [size : 0..MaxLen, mtime : 0..(MaxWrites + MaxMishaps + 2)]]
    /\ plan \in [Handlers -> [full : BOOLEAN, off : 0..MaxLen, count : 0..MaxLen]]
    /\ snap \in 0..MaxLen

FoundType ==
    /\ reported \subseteq [line : 1..MaxLen, number : 1..MaxLen]
    /\ cut \subseteq 1..MaxLen
    /\ recounted \in BOOLEAN

Types == WorldType /\ StateType /\ HandlerType /\ FoundType

LEMMA TypesAreTypeOK == Types <=> TypeOK /\ rewrites + fails + lost <= MaxMishaps
BY DEF Types, WorldType, StateType, HandlerType, FoundType, TypeOK, PCs

LEMMA TypesInit == Init => Types
<1> SUFFICES ASSUME Init PROVE Types
  OBVIOUS
<1>0. MaxLen \in Nat /\ MaxWrites \in Nat /\ MaxMishaps \in Nat
  BY ParseAssumption
<1>1. WorldType
  BY <1>0 DEF Init, WorldType
<1>2. StateType
  <2>1. Unknown \in [known : BOOLEAN, off : 0..MaxLen, size : 0..MaxLen,
                     mtime : 0..(MaxWrites + MaxMishaps + 2), count : 0..MaxLen]
    BY <1>0 DEF Unknown
  <2> QED
    BY <2>1 DEF Init, StateType
<1>3. HandlerType
  BY <1>0 DEF Init, HandlerType, NoStat, NoPlan, PCs
<1>4. FoundType
  BY DEF Init, FoundType
<1> QED
  BY <1>1, <1>2, <1>3, <1>4 DEF Types

LEMMA AppendTypes ==
    ASSUME Types, NEW n \in 1..MaxLen, Grow(n)
    PROVE  Types'
<1>0. MaxLen \in Nat /\ MaxWrites \in Nat /\ MaxMishaps \in Nat
  BY ParseAssumption
<1>1. WorldType'
  <2>1. file' = [file EXCEPT !.len = n, !.mtime = writes + rewrites + 2]
    BY DEF Grow
  <2>2. file' = [len |-> n, mtime |-> writes + rewrites + 2, silent |-> file.silent]
        /\ file.silent \in Silences
    BY <2>1 DEF Types, WorldType
  <2>3. /\ n \in 0..MaxLen
        /\ writes' \in 0..MaxWrites
        /\ writes + rewrites + 2 \in 1..(MaxWrites + MaxMishaps + 2)
    BY <1>0 DEF Grow, Types, WorldType
  <2>4. file' \in [len : 0..MaxLen, mtime : 1..(MaxWrites + MaxMishaps + 2), silent : Silences]
    BY <2>2, <2>3
  <2> QED
    BY <2>3, <2>4 DEF Grow, Types, WorldType
<1>2. StateType' /\ HandlerType' /\ FoundType'
  BY DEF Grow, Types, StateType, HandlerType, FoundType, found
<1> QED
  BY <1>1, <1>2 DEF Types

LEMMA RewriteTypes ==
    ASSUME Types, NEW n \in 0..MaxLen, NEW mtime \in {1, writes + rewrites + 2},
           Rewrite(n, mtime)
    PROVE  Types'
<1>0. MaxLen \in Nat /\ MaxWrites \in Nat /\ MaxMishaps \in Nat
  BY ParseAssumption
<1>1. WorldType'
  <2>1. mtime \in 1..(MaxWrites + MaxMishaps + 2)
    BY <1>0 DEF Types, WorldType
  <2>2. \E silent \in Silences : file' = [len |-> n, mtime |-> mtime, silent |-> silent]
    BY DEF Rewrite
  <2> QED
    BY <1>0, <2>1, <2>2 DEF Rewrite, Mishap, Types, WorldType
<1>2. StateType' /\ HandlerType' /\ FoundType'
  BY DEF Rewrite, Types, StateType, HandlerType, FoundType
<1> QED
  BY <1>1, <1>2 DEF Types

LEMMA LoseEventTypes ==
    ASSUME Types, LoseEvent
    PROVE  Types'
<1>0. MaxLen \in Nat /\ MaxWrites \in Nat /\ MaxMishaps \in Nat
  BY ParseAssumption
<1>1. WorldType'
  <2>1. lost' \in 0..MaxMishaps /\ rewrites' + fails' + lost' <= MaxMishaps
    BY <1>0 DEF LoseEvent, Mishap, Types, WorldType
  <2> QED
    BY <2>1 DEF LoseEvent, Types, WorldType
<1>2. StateType' /\ HandlerType' /\ FoundType'
  BY DEF LoseEvent, Types, StateType, HandlerType, FoundType, found
<1> QED
  BY <1>1, <1>2 DEF Types

LEMMA CallTypes ==
    ASSUME Types, Call
    PROVE  Types'
<1>1. WorldType' /\ StateType' /\ FoundType'
  BY DEF Call, TakeEvent, TakeSnapshot, CompareSnapshot, Types, WorldType, StateType,
         FoundType, found, env
<1>2. HandlerType'
  <2>0. 0 \in 0..MaxLen
    BY ParseAssumption
  <2>1. snap' \in 0..MaxLen
    BY <2>0 DEF Call, TakeEvent, TakeSnapshot, CompareSnapshot, Types, HandlerType, StateType
  <2>2. pc' \in [Handlers -> PCs]
    BY DEF Call, TakeEvent, TakeSnapshot, CompareSnapshot, Goto, Types, HandlerType, PCs
  <2> QED
    BY <2>1, <2>2 DEF Call, TakeEvent, TakeSnapshot, CompareSnapshot, Types, HandlerType
<1> QED
  BY <1>1, <1>2 DEF Types

LEMMA StatTypes ==
    ASSUME Types, NEW h \in Handlers, Stat(h) \/ StatFails(h)
    PROVE  Types'
<1>0. MaxLen \in Nat /\ MaxWrites \in Nat /\ MaxMishaps \in Nat
  BY ParseAssumption
<1>1. WorldType'
  <2>1. fails' \in 0..MaxMishaps /\ rewrites' + fails' + lost' <= MaxMishaps
    BY <1>0 DEF Stat, StatFails, Mishap, Types, WorldType, env
  <2> QED
    BY <2>1 DEF Stat, StatFails, Types, WorldType, env
<1>2. StateType'
  <2>1. Unknown \in [known : BOOLEAN, off : 0..MaxLen, size : 0..MaxLen,
                     mtime : 0..(MaxWrites + MaxMishaps + 2), count : 0..MaxLen]
    BY <1>0 DEF Unknown
  <2> QED
    BY <2>1 DEF Stat, StatFails, Types, StateType
<1>3. HandlerType'
  <2>1. file.len \in 0..MaxLen /\ file.mtime \in 0..(MaxWrites + MaxMishaps + 2)
    BY <1>0 DEF Types, WorldType
  <2>2. stat' \in [Handlers -> [size : 0..MaxLen, mtime : 0..(MaxWrites + MaxMishaps + 2)]]
    BY <2>1 DEF Stat, StatFails, Types, HandlerType
  <2>3. pc' \in [Handlers -> PCs]
    BY DEF Stat, StatFails, Goto, Types, HandlerType, PCs
  <2> QED
    BY <2>2, <2>3 DEF Stat, StatFails, Types, HandlerType
<1>4. FoundType'
  BY DEF Stat, StatFails, Types, FoundType, found
<1> QED
  BY <1>1, <1>2, <1>3, <1>4 DEF Types

LEMMA DecideTypes ==
    ASSUME Types, NEW h \in Handlers, Decide(h)
    PROVE  Types'
<1>0. MaxLen \in Nat /\ MaxWrites \in Nat /\ MaxMishaps \in Nat
  BY ParseAssumption
<1>1. WorldType' /\ FoundType' /\ last' = last
  BY DEF Decide, Types, WorldType, FoundType, found, env
<1>2. StateType'
  <2>1. processing' \in BOOLEAN /\ again' \in BOOLEAN
    BY Zenon DEF Decide, Types, StateType
  <2> QED
    BY <1>1, <2>1 DEF Types, StateType
<1>3. HandlerType'
  <2>1. NoStat \in [size : 0..MaxLen, mtime : 0..(MaxWrites + MaxMishaps + 2)]
    BY <1>0 DEF NoStat
  <2>2. stat' \in [Handlers -> [size : 0..MaxLen, mtime : 0..(MaxWrites + MaxMishaps + 2)]]
    BY <2>1, Zenon DEF Decide, Types, HandlerType
  <2>3. pc' \in [Handlers -> PCs]
    BY DEF Decide, Goto, Types, HandlerType, PCs
  <2>4. [full |-> ~Incremental(stat[h]), off |-> last.off, count |-> last.count]
          \in [full : BOOLEAN, off : 0..MaxLen, count : 0..MaxLen]
    BY DEF Types, StateType, Incremental
  <2>5. plan' \in [Handlers -> [full : BOOLEAN, off : 0..MaxLen, count : 0..MaxLen]]
    BY <2>4 DEF Decide, Types, HandlerType
  <2> QED
    BY <2>2, <2>3, <2>5 DEF Decide, Types, HandlerType
<1> QED
  BY <1>1, <1>2, <1>3 DEF Types

LEMMA RecordTypes ==
    ASSUME Types, NEW h \in Handlers, Record(h)
    PROVE  Types'
<1>0. MaxLen \in Nat /\ MaxWrites \in Nat /\ MaxMishaps \in Nat
  BY ParseAssumption
<1>1. WorldType' /\ FoundType'
  BY DEF Record, Types, WorldType, FoundType, found, env
<1>2. StateType'
  <2>1. /\ plan[h].off \in 0..MaxLen /\ plan[h].count \in 0..MaxLen
        /\ stat[h].size \in 0..MaxLen /\ stat[h].mtime \in 0..(MaxWrites + MaxMishaps + 2)
    BY DEF Types, HandlerType
  <2> QED
    BY <2>1 DEF Record, StateType
<1>3. HandlerType'
  <2>1. /\ NoStat \in [size : 0..MaxLen, mtime : 0..(MaxWrites + MaxMishaps + 2)]
        /\ NoPlan \in [full : BOOLEAN, off : 0..MaxLen, count : 0..MaxLen]
    BY <1>0 DEF NoStat, NoPlan
  <2>2. stat' \in [Handlers -> [size : 0..MaxLen, mtime : 0..(MaxWrites + MaxMishaps + 2)]]
    BY <2>1 DEF Record, Types, HandlerType
  <2>3. plan' \in [Handlers -> [full : BOOLEAN, off : 0..MaxLen, count : 0..MaxLen]]
    BY <2>1 DEF Record, Types, HandlerType
  <2>4. pc' \in [Handlers -> PCs]
    BY DEF Record, Goto, Types, HandlerType, PCs
  <2> QED
    BY <2>2, <2>3, <2>4 DEF Record, Types, HandlerType
<1> QED
  BY <1>1, <1>2, <1>3 DEF Types

IInv == Types /\ CountInv /\ LineInv /\ NumberInv

\* What a read leaves of the lines it finds, and where it counts to.
LEMMA SearchKeepsTypes ==
    ASSUME Types, CountInv, NEW h \in Handlers, NEW lines \in SUBSET (1..MaxLen),
           NEW first \in Nat, first + Cardinality(lines) <= MaxLen,
           NEW off \in 0..MaxLen, NEW count \in 0..MaxLen, Countable(off, count),
           Search(h, lines, first, off, count)
    PROVE  HandlerType' <=> snap' \in 0..MaxLen /\ stat' \in
                [Handlers -> [size : 0..MaxLen, mtime : 0..(MaxWrites + MaxMishaps + 2)]]
<1>1. TypeOK
  BY TypesAreTypeOK
<1>2. /\ plan' \in [Handlers -> [full : BOOLEAN, off : 0..MaxLen, count : 0..MaxLen]]
      /\ pc' = [pc EXCEPT ![h] = "record"]
  BY <1>1, SearchTypes
<1>3. pc' \in [Handlers -> PCs]
  BY <1>2 DEF Types, HandlerType, PCs
<1> QED
  BY <1>2, <1>3 DEF HandlerType

LEMMA SearchKeepsCounts ==
    ASSUME Types, CountInv, NEW h \in Handlers, NEW lines \in SUBSET (1..MaxLen),
           NEW first \in Nat, first + Cardinality(lines) <= MaxLen,
           NEW off \in 0..MaxLen, NEW count \in 0..MaxLen, Countable(off, count),
           Search(h, lines, first, off, count),
           last' = last
    PROVE  CountInv'
<1>1. TypeOK
  BY TypesAreTypeOK
<1>2. /\ plan'[h].off = off /\ plan'[h].count = count
      /\ \A g \in Handlers : g # h => plan'[g] = plan[g]
  BY <1>1, SearchPlans
<1> QED
  BY <1>2 DEF CountInv, Countable

\* The lines found, where they are counted from and where to, of each read.
LEMMA ReadSearches ==
    ASSUME Types, CountInv, NEW h \in Handlers,
           ReadAppended(h) \/ ReadFull(h) \/ ReadFails(h)
    PROVE  \E lines \in SUBSET (1..MaxLen), first \in Nat, off \in 0..MaxLen,
              count \in 0..MaxLen :
              /\ first + Cardinality(lines) <= MaxLen
              /\ Countable(off, count)
              /\ Search(h, lines, first, off, count)
<1>0. TypeOK /\ MaxLen \in Nat
  BY TypesAreTypeOK, ParseAssumption
<1>1. /\ plan[h].off \in 0..MaxLen /\ plan[h].count \in 0..MaxLen
      /\ stat[h].size \in 0..MaxLen
      /\ Countable(plan[h].off, plan[h].count)
  BY DEF Types, HandlerType, CountInv
<1>2. \A o \in Nat : MessagesFrom(o) \in SUBSET (1..MaxLen)
  BY DEF MessagesFrom
<1>3. CASE ReadAppended(h)
  <2>1. /\ SafeEnd(plan[h].off) \in 0..MaxLen
        /\ plan[h].count + Cardinality(MessagesFrom(plan[h].off)) \in 0..MaxLen
        /\ Countable(SafeEnd(plan[h].off),
                     plan[h].count + Cardinality(MessagesFrom(plan[h].off)))
    BY <1>0, <1>1, CountsOn
  <2>2. Search(h, MessagesFrom(plan[h].off), plan[h].count, SafeEnd(plan[h].off),
               plan[h].count + Cardinality(MessagesFrom(plan[h].off)))
    BY <1>3 DEF ReadAppended
  <2>3. /\ MessagesFrom(plan[h].off) \in SUBSET (1..MaxLen)
        /\ plan[h].count \in Nat
        /\ plan[h].count + Cardinality(MessagesFrom(plan[h].off)) <= MaxLen
    BY <1>0, <1>1, <1>2, <2>1
  <2> QED
    BY <2>1, <2>2, <2>3
<1>4. CASE ReadFull(h)
  <2>1. /\ Cardinality(Complete) \in 0..MaxLen
        /\ Countable(stat[h].size, Cardinality(Complete))
    BY <1>0, <1>1, CountsAfresh
  <2>2. Search(h, Complete, 0, stat[h].size, Cardinality(Complete))
    BY <1>4 DEF ReadFull
  <2>3. /\ Complete \in SUBSET (1..MaxLen)
        /\ 0 \in Nat
        /\ 0 + Cardinality(Complete) <= MaxLen
    BY <1>0, <1>1, <1>2, <2>1 DEF Complete
  <2> QED
    BY <1>1, <2>1, <2>2, <2>3
<1>5. CASE ReadFails(h)
  <2>1. Cardinality({}) = 0
    BY FS_EmptySet
  <2>2. {} \in SUBSET (1..MaxLen) /\ 0 \in Nat /\ 0 + Cardinality({}) <= MaxLen
        /\ 0 \in 0..MaxLen
    BY <1>0, <2>1
  <2>3. CASE plan[h].full
    <3>1. Search(h, {}, 0, stat[h].size, 0)
      BY <1>5, <2>3 DEF ReadFails
    <3>2. Countable(stat[h].size, 0)
      BY <1>0, <1>1, CountsAfresh
    <3> QED
      BY <1>1, <2>2, <3>1, <3>2
  <2>4. CASE ~plan[h].full
    <3>1. Search(h, {}, 0, plan[h].off, plan[h].count)
      BY <1>5, <2>4 DEF ReadFails
    <3> QED
      BY <1>1, <2>2, <3>1
  <2> QED
    BY <2>3, <2>4
<1> QED
  BY <1>3, <1>4, <1>5

LEMMA ReadTypes ==
    ASSUME Types, CountInv, NEW h \in Handlers,
           ReadAppended(h) \/ ReadFull(h) \/ ReadFails(h)
    PROVE  Types' /\ CountInv'
<1>0. MaxLen \in Nat /\ MaxWrites \in Nat /\ MaxMishaps \in Nat
  BY ParseAssumption
<1>1. PICK lines \in SUBSET (1..MaxLen), first \in Nat, off \in 0..MaxLen,
           count \in 0..MaxLen :
           /\ first + Cardinality(lines) <= MaxLen
           /\ Countable(off, count)
           /\ Search(h, lines, first, off, count)
  BY ReadSearches
<1>2. UNCHANGED <<file, last, processing, again, notified, stat, snap, writes, rewrites, lost>>
  BY DEF ReadAppended, ReadFull, ReadFails, env
<1>3. CountInv'
  BY <1>1, <1>2, SearchKeepsCounts
<1>4. WorldType'
  <2>1. fails' \in 0..MaxMishaps /\ rewrites' + fails' + lost' <= MaxMishaps
    BY <1>0 DEF ReadAppended, ReadFull, ReadFails, Mishap, Types, WorldType, env
  <2> QED
    BY <1>2, <2>1 DEF Types, WorldType
<1>5. StateType'
  BY <1>2 DEF Types, StateType
<1>6. HandlerType'
  BY <1>1, <1>2, SearchKeepsTypes DEF Types, HandlerType
<1>7. FoundType'
  <2>1. reported' \subseteq [line : 1..MaxLen, number : 1..MaxLen]
    BY <1>1, TypesAreTypeOK, SearchTypes
  <2>2. recounted' \in BOOLEAN
    BY Zenon DEF ReadAppended, ReadFull, ReadFails, Types, FoundType
  <2>3. cut' \subseteq 1..MaxLen
    <3>1. stat[h].size \in 0..MaxLen /\ cut \subseteq 1..MaxLen
      BY DEF Types, HandlerType, FoundType
    <3>2. CASE ReadFull(h) /\ stat[h].size % 2 = 1
      <4>1. stat[h].size = 2 * (stat[h].size \div 2) + 1 /\ stat[h].size \div 2 \in Nat
        BY <1>0, <3>1, <3>2, Halves
      <4>2. (stat[h].size + 1) \div 2 \in 1..MaxLen
        BY <1>0, <3>1, <4>1
      <4> QED
        BY <3>1, <3>2, <4>2 DEF ReadFull
    <3>3. CASE ~(ReadFull(h) /\ stat[h].size % 2 = 1)
      BY <3>1, <3>3 DEF ReadAppended, ReadFull, ReadFails
    <3> QED
      BY <3>2, <3>3
  <2> QED
    BY <2>1, <2>2, <2>3 DEF FoundType
<1> QED
  BY <1>3, <1>4, <1>5, <1>6, <1>7 DEF Types

LEMMA TypesStep == Types /\ CountInv /\ [Next]_vars => Types' /\ CountInv'
<1> SUFFICES ASSUME Types, CountInv, [Next]_vars
             PROVE  Types' /\ CountInv'
  OBVIOUS
<1>1. ASSUME NEW n \in 1..MaxLen, Grow(n) PROVE Types' /\ CountInv'
  BY <1>1, AppendTypes DEF Grow, CountInv, Countable, AheadOf
<1>2. ASSUME NEW n \in 0..MaxLen, NEW mtime \in {1, writes + rewrites + 2}, Rewrite(n, mtime)
      PROVE  Types' /\ CountInv'
  BY <1>2, RewriteTypes DEF Rewrite, CountInv, Countable, AheadOf
<1>3. CASE LoseEvent
  BY <1>3, LoseEventTypes DEF LoseEvent, CountInv, Countable, AheadOf
<1>4. CASE Call
  BY <1>4, CallTypes
     DEF Call, TakeEvent, TakeSnapshot, CompareSnapshot, CountInv, Countable, AheadOf
<1>5. ASSUME NEW h \in Handlers, Handle(h) PROVE Types' /\ CountInv'
  <2>1. CASE Stat(h)
    BY <2>1, StatTypes DEF Stat, CountInv, Countable, AheadOf
  <2>2. CASE StatFails(h)
    <3>1. Countable(0, 0)
      BY ParseAssumption, TypesAreTypeOK, CountsAfresh
    <3>2. last' = Unknown /\ plan' = plan
      BY <2>2 DEF StatFails
    <3>3. CountInv'
      BY <3>1, <3>2 DEF CountInv, Countable, AheadOf, Unknown
    <3> QED
      BY <2>2, <3>3, StatTypes
  <2>3. CASE Decide(h)
    <3>1. last' = last
      BY <2>3 DEF Decide
    <3>2. \A g \in Handlers : Countable(plan'[g].off, plan'[g].count)
      BY <2>3 DEF Decide, CountInv, Types, HandlerType
    <3>3. CountInv'
      BY <3>1, <3>2 DEF CountInv, Countable, AheadOf
    <3> QED
      BY <2>3, <3>3, DecideTypes
  <2>4. CASE ReadAppended(h) \/ ReadFull(h) \/ ReadFails(h)
    BY <2>4, ReadTypes
  <2>5. CASE Record(h)
    <3>1. Countable(0, 0)
      BY ParseAssumption, TypesAreTypeOK, CountsAfresh
    <3>2. Countable(last'.off, last'.count)
      BY <2>5 DEF Record, CountInv
    <3>3. \A g \in Handlers : Countable(plan'[g].off, plan'[g].count)
      BY <2>5, <3>1 DEF Record, CountInv, Types, HandlerType, NoPlan
    <3>4. CountInv'
      BY <3>2, <3>3 DEF CountInv, Countable, AheadOf
    <3> QED
      BY <2>5, <3>4, RecordTypes
  <2> QED
    BY <1>5, <2>1, <2>2, <2>3, <2>4, <2>5 DEF Handle
<1>6. CASE UNCHANGED vars
  <2>1. CountInv'
    BY <1>6 DEF vars, CountInv, Countable, AheadOf
  <2>2. Types'
    BY <1>6 DEF vars, found, env, Types, WorldType, StateType, HandlerType, FoundType
  <2> QED
    BY <2>1, <2>2
<1> QED
  BY <1>1, <1>2, <1>3, <1>4, <1>5, <1>6 DEF Next

-----------------------------------------------------------------------------
(* Which lines have been searched, and under which number.                  *)

\* Nothing but a rewrite of the file takes lines back.
LEMMA CoveredGrows ==
    ASSUME NEW off \in 0..MaxLen, Covered(off),
           reported \subseteq reported', cut \subseteq cut', file'.silent = file.silent
    PROVE  Covered(off)'
<1>1. Reported \subseteq Reported'
  BY DEF Reported
<1> QED
  BY <1>1 DEF Covered

\* What was only appended to so far was only appended to before the step, and
\* no line is forgotten by it.
LEMMA AppendedBefore ==
    ASSUME Types, CountInv, [Next]_vars, OnlyAppended'
    PROVE  /\ OnlyAppended
           /\ reported \subseteq reported' /\ cut \subseteq cut'
           /\ recounted => recounted'
           /\ file.len <= file'.len /\ file'.silent = file.silent
           /\ \A n \in 0..MaxLen, mtime \in {1, writes + rewrites + 2} : ~Rewrite(n, mtime)
           /\ \A h \in Handlers : ~StatFails(h) /\ ~ReadFails(h)
<1>0. /\ MaxLen \in Nat /\ file.len \in 0..MaxLen
      /\ rewrites \in Nat /\ fails \in Nat /\ rewrites' = 0 /\ fails' = 0
  BY ParseAssumption DEF Types, WorldType, OnlyAppended
<1>1. \A n \in 0..MaxLen, mtime \in {1, writes + rewrites + 2} : ~Rewrite(n, mtime)
  BY <1>0 DEF Rewrite
<1>2. \A h \in Handlers : ~StatFails(h) /\ ~ReadFails(h)
  BY <1>0 DEF StatFails, ReadFails
<1>3. ASSUME NEW n \in 1..MaxLen, Grow(n)
      PROVE  /\ OnlyAppended
             /\ reported \subseteq reported' /\ cut \subseteq cut'
             /\ recounted => recounted'
             /\ file.len <= file'.len /\ file'.silent = file.silent
  <2>1. file' = [file EXCEPT !.len = n, !.mtime = writes + rewrites + 2] /\ file.len < n
    BY <1>0, <1>3 DEF Grow
  <2>2. file'.len = n /\ file'.silent = file.silent
    BY <2>1 DEF Types, WorldType
  <2>3. reported' = reported /\ cut' = cut /\ recounted' = recounted
    BY <1>3 DEF Grow, found
  <2>4. OnlyAppended
    BY <1>0, <1>3 DEF Grow, OnlyAppended
  <2>5. file.len <= file'.len
    BY <1>0, <2>1, <2>2
  <2> QED
    BY <2>2, <2>3, <2>4, <2>5
<1>4. CASE LoseEvent \/ Call
  <2>1. /\ file' = file /\ rewrites' = rewrites /\ fails' = fails
        /\ reported' = reported /\ cut' = cut /\ recounted' = recounted
    BY <1>4 DEF LoseEvent, Call, TakeEvent, TakeSnapshot, CompareSnapshot, found, env
  <2>2. file.len <= file'.len
    BY <1>0, <2>1
  <2>3. OnlyAppended
    BY <1>0, <2>1 DEF OnlyAppended
  <2> QED
    BY <1>1, <1>2, <2>1, <2>2, <2>3
<1>5. ASSUME NEW h \in Handlers, Handle(h)
      PROVE  /\ OnlyAppended
             /\ reported \subseteq reported' /\ cut \subseteq cut'
             /\ recounted => recounted'
             /\ file.len <= file'.len /\ file'.silent = file.silent
  <2>1. UNCHANGED <<file, rewrites, fails>>
    BY <1>2, <1>5 DEF Handle, Stat, Decide, ReadAppended, ReadFull, Record, env
  <2>2. reported \subseteq reported' /\ cut \subseteq cut' /\ (recounted => recounted')
    <3>1. CASE Stat(h) \/ Decide(h) \/ Record(h)
      BY <3>1 DEF Stat, Decide, Record, found
    <3>2. CASE ReadAppended(h)
      BY <3>2 DEF ReadAppended, Search
    <3>3. CASE ReadFull(h)
      <4>1. reported \subseteq reported'
        BY <3>3 DEF ReadFull, Search
      <4>2. cut \subseteq cut'
        BY <3>3 DEF ReadFull
      <4>3. recounted => recounted'
        BY <3>3 DEF ReadFull
      <4> QED
        BY <4>1, <4>2, <4>3
    <3> QED
      BY <1>2, <1>5, <3>1, <3>2, <3>3 DEF Handle
  <2> QED
    BY <1>0, <2>1, <2>2 DEF OnlyAppended
<1>6. CASE UNCHANGED vars
  <2>1. /\ file' = file /\ rewrites' = rewrites /\ fails' = fails
        /\ reported' = reported /\ cut' = cut /\ recounted' = recounted
    BY <1>6 DEF vars, found, env
  <2>2. file.len <= file'.len
    BY <1>0, <2>1
  <2>3. OnlyAppended
    BY <1>0, <2>1 DEF OnlyAppended
  <2> QED
    BY <1>1, <1>2, <2>1, <2>2, <2>3
<1> QED
  BY <1>1, <1>2, <1>3, <1>4, <1>5, <1>6 DEF Next

\* All lines before the end of what was read, as an increment or in full, have
\* been searched, or are cut.
LEMMA AppendedIsCovered ==
    ASSUME Types, CountInv, NEW h \in Handlers, ReadAppended(h), Covered(plan[h].off),
           NEW end, end = SafeEnd(plan[h].off)
    PROVE  Covered(end)'
<1> DEFINE half == file.len \div 2
           off == plan[h].off
           lines == MessagesFrom(off)
<1>0. /\ MaxLen \in Nat /\ file.len \in Nat /\ file.len <= MaxLen
      /\ off \in Nat /\ off <= MaxLen
  BY ParseAssumption DEF Types, WorldType, HandlerType
<1>1. half \in Nat /\ 2 * half <= file.len /\ \A k \in Nat : 2 * k <= file.len <=> k <= half
  BY <1>0, Halves
<1>2. end = (IF 2 * half > off THEN 2 * half ELSE off)
  BY DEF SafeEnd
<1>3. cut' = cut /\ file' = file
  BY DEF ReadAppended
<1>4. \A k \in lines : k \in Reported'
  <2>1. reported' = reported \cup
            {[line |-> k, number |-> plan[h].count + Cardinality({j \in lines : j <= k})]
               : k \in lines}
    BY DEF ReadAppended, Search
  <2>2. ASSUME NEW k \in lines PROVE k \in Reported'
    <3>1. [line |-> k, number |-> plan[h].count + Cardinality({j \in lines : j <= k})]
            \in reported'
      BY <2>1
    <3> QED
      BY <3>1 DEF Reported
  <2> QED
    BY <2>2
<1>5. Reported \subseteq Reported'
  BY DEF ReadAppended, Search, Reported
<1>6. \A k \in 1..MaxLen :
         k \in lines <=> off <= 2 * k - 2 /\ 2 * k <= file.len /\ k \notin file.silent
  BY DEF MessagesFrom
<1>c. /\ \A k \in 1..MaxLen : 2 * k <= off => k \in Reported \cup cut \cup file.silent
      /\ off % 2 = 1 => (off + 1) \div 2 \in cut
  BY DEF Covered
<1> HIDE DEF half, off, lines
<1>7. ASSUME NEW k \in 1..MaxLen, 2 * k <= end
      PROVE  k \in Reported' \cup cut' \cup file'.silent
  <2>1. CASE 2 * k <= off
    BY <1>c, <1>3, <1>5, <2>1
  <2>2. CASE off <= 2 * k - 2
    <3>1. k <= half
      BY <1>0, <1>1, <1>2, <1>7, <2>2
    <3>2. k \in lines \/ k \in file.silent
      BY <1>0, <1>1, <1>6, <2>2, <3>1
    <3> QED
      BY <1>3, <1>4, <3>2
  <2>3. CASE off = 2 * k - 1
    <3>1. off % 2 = 1 /\ (off + 1) \div 2 = k
      BY <1>0, <2>3
    <3> QED
      BY <1>c, <1>3, <3>1
  <2> QED
    BY <1>0, <2>1, <2>2, <2>3
<1>8. end % 2 = 1 => (end + 1) \div 2 \in cut'
  <2>1. (2 * half) % 2 = 0
    BY <1>1
  <2> QED
    BY <1>c, <1>2, <1>3, <2>1
<1> QED
  BY <1>7, <1>8 DEF Covered

LEMMA FullIsCovered ==
    ASSUME Types, NEW h \in Handlers, ReadFull(h), stat[h].size <= file.len,
           NEW end, end = stat[h].size
    PROVE  Covered(end)'
<1>0. MaxLen \in Nat /\ file.len \in Nat /\ end \in Nat /\ end <= file.len
  BY ParseAssumption DEF Types, WorldType, HandlerType
<1>1. cut' = IF end % 2 = 1 THEN cut \cup {(end + 1) \div 2} ELSE cut
  BY DEF ReadFull
<1>2. \A k \in Complete : k \in Reported'
  <2>1. reported' = reported \cup
            {[line |-> k, number |-> 0 + Cardinality({j \in Complete : j <= k})]
               : k \in Complete}
    BY DEF ReadFull, Search
  <2>2. ASSUME NEW k \in Complete PROVE k \in Reported'
    <3>1. [line |-> k, number |-> 0 + Cardinality({j \in Complete : j <= k})] \in reported'
      BY <2>1
    <3> QED
      BY <3>1 DEF Reported
  <2> QED
    BY <2>2
<1>3. ASSUME NEW k \in 1..MaxLen, 2 * k <= end
      PROVE  k \in Complete \cup file'.silent
  BY <1>0, <1>3 DEF Complete, MessagesFrom, ReadFull
<1> QED
  BY <1>1, <1>2, <1>3 DEF Covered

LEMMA LineStep == Types /\ CountInv /\ LineInv /\ [Next]_vars => LineInv'
<1> SUFFICES ASSUME Types, CountInv, LineInv, [Next]_vars, OnlyAppended'
             PROVE  /\ Covered(last.off)'
                    /\ \A h \in Handlers : /\ stat'[h].size <= file'.len
                                           /\ Carries(h)' => Covered(plan[h].off)'
  BY DEF LineInv
<1>0. /\ MaxLen \in Nat /\ file.len \in 0..MaxLen /\ last.off \in 0..MaxLen
      /\ file'.len \in 0..MaxLen
      /\ \A h \in Handlers : /\ stat[h].size \in 0..MaxLen /\ plan[h].off \in 0..MaxLen
                             /\ stat'[h].size \in 0..MaxLen
  <2>1. Types'
    BY TypesStep
  <2> QED
    BY <2>1, ParseAssumption DEF Types, WorldType, StateType, HandlerType
<1>1. /\ reported \subseteq reported' /\ cut \subseteq cut' /\ file.len <= file'.len
      /\ file'.silent = file.silent
      /\ \A n \in 0..MaxLen, mtime \in {1, writes + rewrites + 2} : ~Rewrite(n, mtime)
      /\ \A h \in Handlers : ~StatFails(h) /\ ~ReadFails(h)
  BY AppendedBefore
<1>2. /\ Covered(last.off)
      /\ \A h \in Handlers : /\ stat[h].size <= file.len
                             /\ Carries(h) => Covered(plan[h].off)
  BY AppendedBefore DEF LineInv
<1>3. \A off \in 0..MaxLen : Covered(off) => Covered(off)'
  BY <1>1, CoveredGrows
<1>4. ASSUME UNCHANGED <<last, stat, plan>>,
             \A h \in Handlers : Carries(h)' => Carries(h)
      PROVE  /\ Covered(last.off)'
             /\ \A h \in Handlers : /\ stat'[h].size <= file'.len
                                    /\ Carries(h)' => Covered(plan[h].off)'
  <2>1. \A off \in 0..MaxLen : off = last.off => (Covered(last.off)' <=> Covered(off)')
    BY <1>4 DEF Covered
  <2>2. \A h \in Handlers : \A off \in 0..MaxLen :
          off = plan[h].off => (Covered(plan[h].off)' <=> Covered(off)')
    BY <1>4 DEF Covered
  <2>3. \A h \in Handlers : stat'[h].size <= file'.len
    BY <1>0, <1>1, <1>2, <1>4
  <2>4. Covered(last.off)'
    BY <1>0, <1>2, <1>3, <2>1
  <2> QED
    BY <1>0, <1>2, <1>3, <1>4, <2>2, <2>3, <2>4
<1>5. ASSUME NEW n \in 1..MaxLen, Grow(n)
      PROVE  UNCHANGED <<last, stat, plan>> /\ \A h \in Handlers : Carries(h)' => Carries(h)
  BY <1>5 DEF Grow, Carries
<1>6. CASE LoseEvent \/ Call \/ UNCHANGED vars
  <2>1. UNCHANGED <<last, stat, plan>>
    BY <1>6 DEF LoseEvent, Call, TakeEvent, TakeSnapshot, CompareSnapshot, vars
  <2>2. \A h \in Handlers : Carries(h)' => Carries(h)
    BY <1>6 DEF LoseEvent, Call, TakeEvent, TakeSnapshot, CompareSnapshot, vars, Carries, Goto,
                Types, HandlerType
  <2> QED
    BY <1>4, <2>1, <2>2
<1>7. ASSUME NEW g \in Handlers, Stat(g) \/ Decide(g) \/ ReadAppended(g) \/ ReadFull(g)
                                 \/ Record(g)
      PROVE  /\ Covered(last.off)'
             /\ \A h \in Handlers : /\ stat'[h].size <= file'.len
                                    /\ Carries(h)' => Covered(plan[h].off)'
  <2>0. /\ pc \in [Handlers -> PCs]
        /\ DOMAIN stat = Handlers /\ DOMAIN plan = Handlers /\ file' = file
    BY <1>7 DEF Types, HandlerType, Stat, Decide, ReadAppended, ReadFull, Record
  <2>1. ASSUME NEW h \in Handlers, h # g
        PROVE  /\ stat'[h].size <= file'.len
               /\ Carries(h)' => Covered(plan[h].off)'
    <3>1. stat'[h] = stat[h] /\ plan'[h] = plan[h] /\ (Carries(h)' => Carries(h))
      BY <1>7, <2>0, <2>1
         DEF Stat, Decide, ReadAppended, ReadFull, Record, Search, Goto, Carries
    <3>2. \A off \in 0..MaxLen : off = plan[h].off => (Covered(plan[h].off)' <=> Covered(off)')
      BY <3>1 DEF Covered
    <3> QED
      BY <1>0, <1>2, <1>3, <2>0, <3>1, <3>2
  <2>2. \A off \in 0..MaxLen :
          /\ off = last'.off => (Covered(last.off)' <=> Covered(off)')
          /\ off = plan'[g].off => (Covered(plan[g].off)' <=> Covered(off)')
    BY DEF Covered
  <2>3. ASSUME last' = last, stat'[g].size <= file'.len,
               Carries(g)' => Covered(plan[g].off)'
        PROVE  /\ Covered(last.off)'
               /\ \A h \in Handlers : /\ stat'[h].size <= file'.len
                                      /\ Carries(h)' => Covered(plan[h].off)'
    <3>1. Covered(last.off)'
      BY <1>0, <1>2, <1>3, <2>2, <2>3
    <3> QED
      BY <2>1, <2>3, <3>1
  <2>4. CASE Stat(g)
    <3>1. stat'[g].size = file.len /\ ~Carries(g)' /\ last' = last
      BY <2>0, <2>4 DEF Stat, Goto, Carries
    <3> QED
      BY <1>0, <2>0, <2>3, <3>1
  <2>5. CASE Decide(g)
    <3>1. last' = last
      BY <2>5 DEF Decide
    <3>2. stat'[g].size <= file'.len
      BY <1>0, <1>2, <2>0, <2>5 DEF Decide, NoStat
    <3>3. ASSUME Carries(g)' PROVE Covered(plan[g].off)'
      <4>1. plan'[g].off = last.off
        BY <2>0, <2>5, <3>3 DEF Decide, Goto, Carries
      <4> QED
        BY <1>0, <1>2, <1>3, <2>2, <4>1
    <3> QED
      BY <2>3, <3>1, <3>2, <3>3
  <2>6. CASE ReadAppended(g)
    <3>1. last' = last /\ stat' = stat /\ Covered(plan[g].off)
      BY <1>2, <2>6 DEF ReadAppended, Carries
    <3>2. plan'[g].off = SafeEnd(plan[g].off) /\ plan'[g].off \in 0..MaxLen
      <4>1. TypeOK /\ Countable(plan[g].off, plan[g].count) /\ plan[g].count \in 0..MaxLen
        BY TypesAreTypeOK DEF CountInv, Types, HandlerType
      <4>2. SafeEnd(plan[g].off) \in 0..MaxLen
        BY <1>0, <4>1, CountsOn
      <4> QED
        BY <2>0, <2>6, <4>2 DEF ReadAppended, Search
    <3>3. \A end : end = SafeEnd(plan[g].off) => Covered(end)'
      BY <2>6, <3>1, AppendedIsCovered
    <3>4. Covered(plan[g].off)'
      BY <2>2, <3>2, <3>3
    <3> QED
      BY <1>0, <1>2, <2>0, <2>3, <3>1, <3>4
  <2>7. CASE ReadFull(g)
    <3>1. last' = last /\ stat' = stat /\ plan'[g].off = stat[g].size
      BY <2>0, <2>7 DEF ReadFull, Search
    <3>2. \A end : end = stat[g].size => Covered(end)'
      BY <1>2, <2>7, FullIsCovered
    <3>3. Covered(plan[g].off)'
      BY <1>0, <2>2, <3>1, <3>2
    <3> QED
      BY <1>0, <1>2, <2>0, <2>3, <3>1, <3>3
  <2>8. CASE Record(g)
    <3>1. /\ last'.off = plan[g].off /\ stat'[g].size = 0 /\ ~Carries(g)'
          /\ Covered(plan[g].off)
      BY <1>2, <2>0, <2>8 DEF Record, Goto, Carries, NoStat
    <3>2. Covered(last.off)'
      BY <1>0, <1>3, <2>2, <3>1
    <3> QED
      BY <1>0, <2>0, <2>1, <3>1, <3>2
  <2> QED
    BY <1>7, <2>4, <2>5, <2>6, <2>7, <2>8
<1> QED
  BY <1>1, <1>4, <1>5, <1>6, <1>7 DEF Next, Handle

\* The messages after the first c lines have the numbers that follow theirs.
LEMMA MessagesHaveTheirNumbers ==
    ASSUME TypeOK, NEW c \in Nat, 2 * c <= MaxLen, NEW k \in MessagesFrom(2 * c)
    PROVE  NumberInFile(c) + Cardinality({j \in MessagesFrom(2 * c) : j <= k}) = NumberInFile(k)
<1> DEFINE half == file.len \div 2
<1>0. file.len \in Nat /\ half \in Nat
  <2>1. file.len \in Nat
    BY DEF TypeOK
  <2> QED
    BY <2>1, Halves
<1>1. MessagesFrom(2 * c) = ((c + 1)..half) \ file.silent
  BY MessagesAfter
<1> HIDE DEF half
<1>2. k \in (c + 1)..half
  BY <1>1
<1>3. {j \in MessagesFrom(2 * c) : j <= k} = ((c + 1)..k) \ file.silent
  BY <1>0, <1>1, <1>2
<1>4. k \in Nat /\ c <= k
  BY <1>0, <1>2
<1> QED
  BY <1>3, <1>4, RankAdds

\* The offset after the complete lines goes with the count of their messages.
LEMMA EndIsNumbered ==
    ASSUME TypeOK, NEW c \in Nat, 2 * c <= MaxLen
    PROVE  Numbered(SafeEnd(2 * c), NumberInFile(c) + Cardinality(MessagesFrom(2 * c)))
<1> DEFINE half == file.len \div 2
<1>0. file.len \in Nat /\ half \in Nat
  <2>1. file.len \in Nat
    BY DEF TypeOK
  <2> QED
    BY <2>1, Halves
<1>1. MessagesFrom(2 * c) = ((c + 1)..half) \ file.silent
  BY MessagesAfter
<1>2. SafeEnd(2 * c) = IF 2 * half > 2 * c THEN 2 * half ELSE 2 * c
  BY DEF SafeEnd
<1> HIDE DEF half
<1>3. CASE c <= half
  <2>1. SafeEnd(2 * c) = 2 * half
    BY <1>0, <1>2, <1>3
  <2>2. NumberInFile(half) = NumberInFile(c) + Cardinality(MessagesFrom(2 * c))
    BY <1>0, <1>1, <1>3, RankAdds
  <2> QED
    BY <1>0, <2>1, <2>2 DEF Numbered
<1>4. CASE half < c
  <2>1. SafeEnd(2 * c) = 2 * c
    BY <1>0, <1>2, <1>4
  <2>2. MessagesFrom(2 * c) = {}
    BY <1>0, <1>1, <1>4
  <2>3. NumberInFile(c) = NumberInFile(c) + Cardinality(MessagesFrom(2 * c))
    BY <2>2, RankAdds, FS_EmptySet
  <2> QED
    BY <2>1, <2>3 DEF Numbered
<1> QED
  BY <1>0, <1>3, <1>4

LEMMA SearchNumbers ==
    ASSUME TypeOK, NEW h \in Handlers, NEW c \in Nat, 2 * c <= MaxLen,
           NEW off, NEW count,
           Search(h, MessagesFrom(2 * c), NumberInFile(c), off, count),
           \A r \in reported : r.number = NumberInFile(r.line)
    PROVE  \A r \in reported' : r.number = NumberInFile(r.line)
<1> DEFINE lines == MessagesFrom(2 * c)
           first == NumberInFile(c)
<1>1. reported' = reported \cup
        {[line |-> k, number |-> first + Cardinality({j \in lines : j <= k})] : k \in lines}
  BY DEF Search
<1>2. \A k \in lines : first + Cardinality({j \in lines : j <= k}) = NumberInFile(k)
  BY MessagesHaveTheirNumbers
<1> HIDE DEF lines, first
<1>3. ASSUME NEW r \in reported' PROVE r.number = NumberInFile(r.line)
  <2>1. CASE r \in reported
    BY <2>1
  <2>2. ASSUME NEW k \in lines,
               r = [line |-> k, number |-> first + Cardinality({j \in lines : j <= k})]
        PROVE  r.number = NumberInFile(r.line)
    <3>1. r.line = k /\ r.number = first + Cardinality({j \in lines : j <= k})
      BY <2>2
    <3> QED
      BY <1>2, <3>1
  <2> QED
    BY <1>1, <1>3, <2>1, <2>2
<1> QED
  BY <1>3

LEMMA NumberStep ==
    Types /\ CountInv /\ LineInv /\ NumberInv /\ [Next]_vars => NumberInv'
<1> SUFFICES ASSUME Types, CountInv, LineInv, NumberInv, [Next]_vars, OnlyAppended', Whole'
             PROVE  /\ Numbered(last'.off, last'.count)
                    /\ \A h \in Handlers :
                          Carries(h)' => Numbered(plan'[h].off, plan'[h].count)
                    /\ \A r \in reported' : r.number = NumberInFile(r.line)
  BY AppendedBefore DEF NumberInv, Numbered, NumberInFile
<1>0. /\ MaxLen \in Nat /\ file.len \in 0..MaxLen /\ TypeOK
      /\ last.off \in 0..MaxLen /\ last.count \in 0..MaxLen
      /\ \A h \in Handlers : /\ stat[h].size \in 0..MaxLen
                             /\ plan[h].off \in 0..MaxLen /\ plan[h].count \in 0..MaxLen
  BY TypesAreTypeOK, ParseAssumption DEF Types, WorldType, StateType, HandlerType
<1>1. /\ OnlyAppended /\ cut \subseteq cut' /\ (recounted => recounted')
      /\ \A n \in 0..MaxLen, mtime \in {1, writes + rewrites + 2} : ~Rewrite(n, mtime)
      /\ \A h \in Handlers : ~StatFails(h) /\ ~ReadFails(h)
  BY AppendedBefore
<1>2. /\ Numbered(last.off, last.count)
      /\ \A h \in Handlers : Carries(h) => Numbered(plan[h].off, plan[h].count)
      /\ \A r \in reported : r.number = NumberInFile(r.line)
  BY <1>1 DEF NumberInv, Whole
<1>3. CASE LoseEvent \/ Call \/ UNCHANGED vars
  <2>1. UNCHANGED <<last, plan, reported>>
    BY <1>3 DEF LoseEvent, Call, TakeEvent, TakeSnapshot, CompareSnapshot, vars, found
  <2>2. \A h \in Handlers : Carries(h)' => Carries(h)
    BY <1>3 DEF LoseEvent, Call, TakeEvent, TakeSnapshot, CompareSnapshot, vars, Carries, Goto,
                Types, HandlerType
  <2> QED
    BY <1>2, <2>1, <2>2
<1>4. ASSUME NEW n \in 1..MaxLen, Grow(n)
      PROVE  /\ Numbered(last'.off, last'.count)
             /\ \A h \in Handlers : Carries(h)' => Numbered(plan'[h].off, plan'[h].count)
             /\ \A r \in reported' : r.number = NumberInFile(r.line)
  <2>1. UNCHANGED <<last, plan, reported, pc>>
    BY <1>4 DEF Grow, found
  <2>2. \A h \in Handlers : Carries(h)' => Carries(h)
    BY <2>1 DEF Carries
  <2> QED
    BY <1>2, <2>1, <2>2
<1>5. ASSUME NEW g \in Handlers, Stat(g) \/ Decide(g) \/ ReadAppended(g) \/ ReadFull(g)
                                 \/ Record(g)
      PROVE  /\ Numbered(last'.off, last'.count)
             /\ \A h \in Handlers : Carries(h)' => Numbered(plan'[h].off, plan'[h].count)
             /\ \A r \in reported' : r.number = NumberInFile(r.line)
  <2>0. /\ pc \in [Handlers -> PCs]
        /\ DOMAIN stat = Handlers /\ DOMAIN plan = Handlers
    BY DEF Types, HandlerType
  <2>1. ASSUME NEW h \in Handlers, h # g, Carries(h)'
        PROVE  Numbered(plan'[h].off, plan'[h].count)
    <3>1. plan'[h] = plan[h] /\ Carries(h)
      BY <1>5, <2>0, <2>1
         DEF Stat, Decide, ReadAppended, ReadFull, Record, Search, Goto, Carries
    <3> QED
      BY <1>2, <3>1
  <2>2. CASE Stat(g)
    <3>1. last' = last /\ reported' = reported /\ ~Carries(g)'
      BY <2>0, <2>2 DEF Stat, Goto, Carries, found
    <3> QED
      BY <1>2, <2>1, <3>1
  <2>3. CASE Decide(g)
    <3>1. last' = last /\ reported' = reported
      BY <2>3 DEF Decide, found
    <3>2. ASSUME Carries(g)' PROVE Numbered(plan'[g].off, plan'[g].count)
      <4>1. plan'[g].off = last.off /\ plan'[g].count = last.count
        BY <2>0, <2>3, <3>2 DEF Decide, Goto, Carries
      <4> QED
        BY <1>2, <4>1
    <3> QED
      BY <1>2, <2>1, <3>1, <3>2
  <2>4. CASE ReadAppended(g)
    <3>0. Numbered(plan[g].off, plan[g].count)
      BY <1>2, <2>4 DEF ReadAppended, Carries
    <3> PICK c \in Nat : plan[g].off = 2 * c /\ plan[g].count = NumberInFile(c)
      BY <3>0 DEF Numbered
    <3>1. last' = last /\ 2 * c <= MaxLen
      BY <1>0, <2>4 DEF ReadAppended
    <3>2. Search(g, MessagesFrom(2 * c), NumberInFile(c), SafeEnd(2 * c),
                 NumberInFile(c) + Cardinality(MessagesFrom(2 * c)))
      BY <2>4 DEF ReadAppended
    <3>3. \A r \in reported' : r.number = NumberInFile(r.line)
      BY <1>0, <1>2, <3>1, <3>2, SearchNumbers
    <3>4. Numbered(plan'[g].off, plan'[g].count)
      <4>1. /\ plan'[g].off = SafeEnd(2 * c)
            /\ plan'[g].count = NumberInFile(c) + Cardinality(MessagesFrom(2 * c))
        BY <2>0, <3>2 DEF Search
      <4>2. Numbered(SafeEnd(2 * c), NumberInFile(c) + Cardinality(MessagesFrom(2 * c)))
        BY <1>0, <3>1, EndIsNumbered
      <4> QED
        BY <4>1, <4>2
    <3> QED
      BY <1>2, <2>1, <3>1, <3>3, <3>4
  <2>5. CASE ReadFull(g)
    <3>1. Complete = MessagesFrom(2 * 0) /\ 0 \in Nat /\ 2 * 0 <= MaxLen
      BY <1>0 DEF Complete
    <3>r. NumberInFile(0) = 0
      <4>1. {j \in 1..0 : j \notin file.silent} = {}
        OBVIOUS
      <4> QED
        BY <4>1, FS_EmptySet DEF NumberInFile
    <3>2. Search(g, MessagesFrom(2 * 0), NumberInFile(0), stat[g].size, Cardinality(MessagesFrom(2 * 0)))
      BY <2>5, <3>1, <3>r DEF ReadFull
    <3>3. \A r \in reported' : r.number = NumberInFile(r.line)
      BY <1>0, <1>2, <3>1, <3>2, SearchNumbers
    <3>4. file.len = stat[g].size /\ stat[g].size % 2 = 0
      <4>1. file.len = stat[g].size
        BY <2>5 DEF ReadFull, Whole
      <4>2. stat[g].size % 2 # 1
        BY <2>5 DEF ReadFull, Whole
      <4> QED
        BY <1>0, <4>1, <4>2, Halves
    <3>5. Numbered(stat[g].size, Cardinality(MessagesFrom(2 * 0)))
      <4>1. Numbered(SafeEnd(2 * 0), NumberInFile(0) + Cardinality(MessagesFrom(2 * 0)))
        BY <3>1, <1>0, EndIsNumbered
      <4>2. SafeEnd(2 * 0) = stat[g].size
        <5>1. stat[g].size = 2 * (stat[g].size \div 2) /\ stat[g].size \in Nat
          <6>1. stat[g].size \in Nat
            BY <1>0
          <6>2. stat[g].size % 2 = 0 <=> stat[g].size = 2 * (stat[g].size \div 2)
            BY <6>1, Halves
          <6> QED
            BY <3>4, <6>1, <6>2
        <5>2. SafeEnd(2 * 0) = IF stat[g].size > 0 THEN stat[g].size ELSE 0
          BY <3>4, <5>1 DEF SafeEnd
        <5> QED
          BY <5>1, <5>2
      <4>3. Cardinality(MessagesFrom(2 * 0)) \in Nat
        BY <1>0, <3>1, CountsAfresh
      <4> QED
        BY <3>r, <4>1, <4>2, <4>3
    <3>6. /\ plan'[g].off = stat[g].size
          /\ plan'[g].count = Cardinality(MessagesFrom(2 * 0))
      BY <2>0, <3>2 DEF Search
    <3>7. Numbered(plan'[g].off, plan'[g].count) /\ last' = last
      BY <2>5, <3>5, <3>6 DEF ReadFull
    <3> QED
      BY <1>2, <2>1, <3>3, <3>7
  <2>6. CASE Record(g)
    <3>1. /\ last'.off = plan[g].off /\ last'.count = plan[g].count
          /\ ~Carries(g)' /\ reported' = reported
          /\ Numbered(plan[g].off, plan[g].count)
      BY <1>2, <2>0, <2>6 DEF Record, Goto, Carries, found
    <3> QED
      BY <1>2, <2>1, <3>1
  <2> QED
    BY <1>5, <2>2, <2>3, <2>4, <2>5, <2>6
<1> QED
  BY <1>1, <1>3, <1>4, <1>5 DEF Next, Handle

LEMMA InitIInv == Init => IInv
<1> SUFFICES ASSUME Init PROVE IInv
  OBVIOUS
<1>1. Types
  BY TypesInit
<1>2. /\ last.off = 0 /\ last.count = 0 /\ MaxLen \in Nat /\ file.len \in Nat
      /\ \A h \in Handlers : /\ plan[h].off = 0 /\ plan[h].count = 0
                             /\ stat[h].size = 0 /\ ~Carries(h)
      /\ reported = {}
  BY ParseAssumption DEF Init, Unknown, NoPlan, NoStat, Carries
<1>3. CountInv
  <2>1. Countable(0, 0)
    BY <1>1, <1>2, TypesAreTypeOK, CountsAfresh
  <2> QED
    BY <1>2, <2>1 DEF CountInv
<1>4. LineInv
  BY <1>2 DEF LineInv, Covered
<1>5. NumberInv
  <2>1. {j \in 1..0 : j \notin file.silent} = {}
    OBVIOUS
  <2>2. NumberInFile(0) = 0
    BY <2>1, FS_EmptySet DEF NumberInFile
  <2>3. Numbered(0, 0)
    <3>1. 0 \in Nat /\ 0 = 2 * 0
      OBVIOUS
    <3> QED
      BY <2>2, <3>1 DEF Numbered
  <2> QED
    BY <1>2, <2>3 DEF NumberInv
<1> QED
  BY <1>1, <1>3, <1>4, <1>5 DEF IInv

LEMMA NextIInv == IInv /\ [Next]_vars => IInv'
BY TypesStep, LineStep, NumberStep DEF IInv

LEMMA IInvLines == IInv => LinesAreAccounted
<1> SUFFICES ASSUME IInv PROVE LinesAreAccounted
  OBVIOUS
<1>1. TypeOK
  BY TypesAreTypeOK DEF IInv
<1>2. OnlyCutLinesAreSkipped
  BY DEF IInv, LineInv, Covered, OnlyCutLinesAreSkipped, OnlyAppended
<1>3. NumbersAreRight
  BY DEF IInv, NumberInv, NumbersAreRight, OnlyAppended, Whole
<1> QED
  BY <1>1, <1>2, <1>3 DEF LinesAreAccounted

\* Every line before last_offset that gives a message has been searched or was cut
\* by a full parse, and last_line_count is the number of messages before it
\* (watcher_orchestrator.rs:25, :31), for files of every length, written and
\* watched in every order, until an access fails or the file is rewritten.
THEOREM LinesAccounted == Spec => []LinesAreAccounted
BY InitIInv, NextIInv, IInvLines, PTL DEF Spec

LEMMA AgainStep ==
    ASSUME Types, [Next]_vars, again, ~again'
    PROVE  \/ \E h \in Handlers : pc[h] # "stat" /\ pc'[h] = "stat"
           \/ ~last'.known
<1>1. \/ \E h \in Handlers : StatFails(h) \/ Record(h) \/ Decide(h)
      \/ again' = again
  BY DEF Next, Call, Grow, Rewrite, LoseEvent, TakeEvent, TakeSnapshot, CompareSnapshot,
         Handle, Stat, ReadAppended, ReadFull, ReadFails, vars
<1>2. ASSUME NEW h \in Handlers, StatFails(h) PROVE ~last'.known
  BY <1>2 DEF StatFails, Unknown
<1>3. ASSUME NEW h \in Handlers, Record(h) PROVE pc[h] # "stat" /\ pc'[h] = "stat"
  BY <1>3 DEF Record, Goto, Types, HandlerType
<1>4. ASSUME NEW h \in Handlers, Decide(h) PROVE FALSE
  BY <1>4 DEF Decide
<1> QED
  BY <1>1, <1>2, <1>3, <1>4

\* An event put down in pending_reprocess (watcher_orchestrator.rs:39) while
\* the file was being worked on is taken from there for another look at the
\* file, or the file is forgotten.
THEOREM AgainServed == Spec => AgainIsServed
<1>1. IInv /\ [Next]_vars =>
        [again /\ ~again' =>
            \/ \E h \in Handlers : pc[h] # "stat" /\ pc'[h] = "stat"
            \/ ~last'.known]_vars
  BY AgainStep DEF IInv
<1> QED
  BY InitIInv, NextIInv, <1>1, PTL DEF Spec, AgainIsServed

-----------------------------------------------------------------------------
(* The lines of a file. *)

CallLine(f, x, cwd) ==
    LineOf("assistant", [BlockOf("tool_use") EXCEPT !.id = f, !.name = "Bash", !.text = x[1],
                                                    !.size = x[2]], cwd)
AnswerLine(f, x, cwd) ==
    LineOf("user", [BlockOf("tool_result") EXCEPT !.id = f, !.text = x[1], !.error = x[2],
                                                  !.size = 2], cwd)

\* What the checkers look at in a line: a call without results, or a result
\* without calls.
IsCall(m, f) ==
    /\ m.type = "assistant" /\ ~m.string /\ m.results = <<>>
    /\ Len(m.content) = 1 /\ DOMAIN m.content = {1}
    /\ m.content[1].type = "tool_use" /\ m.content[1].id = f /\ m.content[1].name = "Bash"
    /\ m.calls = <<m.calls[1]>> /\ Len(m.calls) = 1 /\ DOMAIN m.calls = {1}
    /\ m.calls[1].id = f /\ m.calls[1].name = "Bash" /\ m.calls[1].size \in Nat

IsAnswer(m, f) ==
    /\ m.type = "user" /\ ~m.string /\ m.calls = <<>>
    /\ m.results = <<m.results[1]>> /\ Len(m.results) = 1 /\ DOMAIN m.results = {1}
    /\ m.results[1].id = f /\ m.results[1].size = 2 /\ m.results[1].error \in BOOLEAN

LEMMA FlattenOne ==
    ASSUME NEW x, NEW s, Len(s) = 1, s[1] = <<x>>
    PROVE  FlattenSeq(s) = <<x>>
<1>0. Len(s) \in Nat \ {0}
  OBVIOUS
<1>1. PICK f: Joins(f, s, Len(s)) /\ FlattenSeq(s) = f[Len(s)]
  BY <1>0, FlattenJoins
<1> QED
  BY <1>1 DEF Joins

LEMMA FlattenNone ==
    ASSUME NEW s, Len(s) = 1, s[1] = <<>>
    PROVE  FlattenSeq(s) = <<>>
<1>0. Len(s) \in Nat \ {0}
  OBVIOUS
<1>1. PICK f: Joins(f, s, Len(s)) /\ FlattenSeq(s) = f[Len(s)]
  BY <1>0, FlattenJoins
<1> QED
  BY <1>1 DEF Joins

LEMMA ParsedFields ==
    ASSUME NEW l, l.type \in {"user", "assistant"}, ~l.string
    PROVE  /\ MessageOf(l).type = l.type /\ ~MessageOf(l).string
           /\ MessageOf(l).content = l.content /\ MessageOf(l).cwd = l.cwd
           /\ MessageOf(l).calls = ExtractToolCalls(l.content)
           /\ MessageOf(l).results = ExtractToolResults(l.content)
<1> DEFINE r == ParseEntry(l)
<1>1. /\ r.type = l.type /\ ~r.string /\ r.content = l.content
      /\ r.calls = ExtractToolCalls(l.content) /\ r.results = ExtractToolResults(l.content)
  BY DEF ParseEntry
<1>2. DOMAIN r = {"uuid", "type", "ts", "content", "string", "side", "meta", "model", "rid", "usage",
                  "agent", "source", "rejected", "compact", "calls", "results"}
  BY DEF ParseEntry
<1>3. MessageOf(l) = [field \in DOMAIN r \cup {"cwd"} |-> IF field = "cwd" THEN l.cwd ELSE r[field]]
  BY DEF MessageOf
<1> HIDE DEF r
<1> QED
  BY <1>1, <1>2, <1>3

LEMMA CallMessage ==
    ASSUME NEW f, f # None, NEW l, l.type = "assistant", ~l.string, Len(l.content) = 1,
           DOMAIN l.content = {1}, NEW b, l.content[1] = b,
           b.type = "tool_use", b.id = f, b.name = "Bash", b.size \in Nat
    PROVE  IsCall(MessageOf(l), f) /\ MessageOf(l).cwd = l.cwd
<1>1. ExtractToolCalls(l.content) = <<[id |-> b.id, name |-> b.name, size |-> b.size, task |-> b.name = "Task"]>>
  BY FlattenOne DEF ExtractToolCalls, None
<1>2. ExtractToolResults(l.content) = <<>>
  BY FlattenNone DEF ExtractToolResults
<1>3. /\ MessageOf(l).type = l.type /\ ~MessageOf(l).string
      /\ MessageOf(l).content = l.content /\ MessageOf(l).cwd = l.cwd
      /\ MessageOf(l).calls = ExtractToolCalls(l.content)
      /\ MessageOf(l).results = ExtractToolResults(l.content)
  BY ParsedFields
<1> QED
  BY <1>1, <1>2, <1>3 DEF IsCall

LEMMA AnswerMessage ==
    ASSUME NEW f, f # None, NEW l, l.type = "user", ~l.string, Len(l.content) = 1,
           DOMAIN l.content = {1}, NEW b, l.content[1] = b,
           b.type = "tool_result", b.id = f, b.size = 2, b.error \in BOOLEAN
    PROVE  IsAnswer(MessageOf(l), f) /\ MessageOf(l).cwd = l.cwd
<1>1. ExtractToolResults(l.content) = <<[id |-> b.id, size |-> b.size, text |-> b.text, error |-> b.error]>>
  BY FlattenOne DEF ExtractToolResults
<1>2. ExtractToolCalls(l.content) = <<>>
  BY FlattenNone DEF ExtractToolCalls
<1>3. /\ MessageOf(l).type = l.type /\ ~MessageOf(l).string
      /\ MessageOf(l).content = l.content /\ MessageOf(l).cwd = l.cwd
      /\ MessageOf(l).calls = ExtractToolCalls(l.content)
      /\ MessageOf(l).results = ExtractToolResults(l.content)
  BY ParsedFields
<1> QED
  BY <1>1, <1>2, <1>3 DEF IsAnswer

LEMMA CallFacts ==
    ASSUME NEW f \in Files, NEW x \in TextKinds \X Nat, NEW cwd
    PROVE  /\ IsCall(MessageOf(CallLine(f, x, cwd)), f)
           /\ MessageOf(CallLine(f, x, cwd)).cwd = cwd
<1> DEFINE b == [BlockOf("tool_use") EXCEPT !.id = f, !.name = "Bash", !.text = x[1], !.size = x[2]]
           l == CallLine(f, x, cwd)
<1>1. b.type = "tool_use" /\ b.id = f /\ b.name = "Bash" /\ b.size \in Nat
  BY DEF BlockOf
<1>2. l = LineOf("assistant", b, cwd)
  BY DEF CallLine
<1> HIDE DEF b, l
<1>3. l.type = "assistant" /\ ~l.string /\ l.content = <<b>> /\ l.cwd = cwd
  BY <1>2 DEF LineOf
<1>4. f # None
  BY ErrorDetectorAssumption
<1>5. Len(l.content) = 1 /\ DOMAIN l.content = {1} /\ l.content[1] = b
  BY <1>3
<1>6. IsCall(MessageOf(l), f) /\ MessageOf(l).cwd = l.cwd
  BY <1>1, <1>3, <1>4, <1>5, CallMessage
<1> QED
  BY <1>3, <1>6 DEF l

LEMMA AnswerFacts ==
    ASSUME NEW f \in Files, NEW x \in TextKinds \X BOOLEAN, NEW cwd
    PROVE  /\ IsAnswer(MessageOf(AnswerLine(f, x, cwd)), f)
           /\ MessageOf(AnswerLine(f, x, cwd)).cwd = cwd
<1> DEFINE b == [BlockOf("tool_result") EXCEPT !.id = f, !.text = x[1], !.error = x[2], !.size = 2]
           l == AnswerLine(f, x, cwd)
<1>1. b.type = "tool_result" /\ b.id = f /\ b.size = 2 /\ b.error \in BOOLEAN
  BY DEF BlockOf
<1>2. l = LineOf("user", b, cwd)
  BY DEF AnswerLine
<1> HIDE DEF b, l
<1>3. l.type = "user" /\ ~l.string /\ l.content = <<b>> /\ l.cwd = cwd
  BY <1>2 DEF LineOf
<1>4. f # None
  BY ErrorDetectorAssumption
<1>5. Len(l.content) = 1 /\ DOMAIN l.content = {1} /\ l.content[1] = b
  BY <1>3
<1>6. IsAnswer(MessageOf(l), f) /\ MessageOf(l).cwd = l.cwd
  BY <1>1, <1>3, <1>4, <1>5, AnswerMessage
<1> QED
  BY <1>3, <1>6 DEF l
-----------------------------------------------------------------------------
(* What one message gives with one trigger. *)

ErrorAt(t, line, f) == [trigger |-> t.id, line |-> line, tool |-> f]

FailureFires(r, t) == r.error /\ ErrorMessage(r) \notin t.ignore
ContentFires(r, t, hasCall) ==
    /\ t.tool # None /\ hasCall /\ t.tool = "Bash" /\ t.field = "content" /\ t.pattern # <<>>
    /\ Matches(r.text, t.pattern) /\ r.text \notin t.ignore
UseFires(b, t) ==
    /\ t.tool \in {None, "Bash"}
    /\ t.field # None => b.text # "empty"
    /\ Matches(b.text, t.pattern) /\ b.text \notin t.ignore
CostFires(c, t, hasAnswer) ==
    LET answer == IF hasAnswer THEN 2 ELSE 0
    IN  /\ t.tool \in {None, "Bash"}
        /\ (CASE t.tokens = "input" -> c.size
              [] t.tokens = "output" -> answer
              [] OTHER -> c.size + answer) > t.threshold
        /\ "Bash" \notin t.ignore

Fires(m, t, repo, hasCall, hasAnswer) ==
    /\ InScope(t, repo)
    /\ \/ t.mode = "token_threshold" /\ m.type = "assistant" /\ CostFires(m.calls[1], t, hasAnswer)
       \/ /\ t.mode # "token_threshold" /\ t.content = "tool_result" /\ m.type = "user"
          /\ IF t.requireError THEN FailureFires(m.results[1], t) ELSE ContentFires(m.results[1], t, hasCall)
       \/ /\ t.mode # "token_threshold" /\ t.content = "tool_use" /\ m.type = "assistant"
          /\ UseFires(m.content[1], t)

IfFires(fires, t, line, f) == IF fires THEN <<ErrorAt(t, line, f)>> ELSE <<>>

LEMMA OnlyOne == Min({1}) = 1
  BY LeastIsMin

LEMMA ResultChecked ==
    ASSUME NEW f, NEW m, IsAnswer(m, f), NEW t, NEW line, NEW uses,
           f \in DOMAIN uses => uses[f].name = "Bash"
    PROVE  CheckToolResult(m, t, uses, line) =
               IfFires(IF t.requireError THEN FailureFires(m.results[1], t)
                       ELSE ContentFires(m.results[1], t, f \in DOMAIN uses), t, line, f)
<1> DEFINE Failed(r) == r.error /\ ErrorMessage(r) \notin t.ignore
           Content(r) == /\ t.tool # None /\ r.id \in DOMAIN uses /\ uses[r.id].name = t.tool
                         /\ t.field = "content" /\ t.pattern # <<>>
                         /\ Matches(r.text, t.pattern) /\ r.text \notin t.ignore
           Found(r) == IF t.requireError THEN Failed(r) ELSE Content(r)
           hits == {i \in DOMAIN m.results: Found(m.results[i])}
           fires == IF t.requireError THEN FailureFires(m.results[1], t)
                    ELSE ContentFires(m.results[1], t, f \in DOMAIN uses)
<1>1. CheckToolResult(m, t, uses, line) =
        ToolsIn(IF hits = {} THEN <<>> ELSE <<m.results[Min(hits)]>>, t, line)
  BY DEF CheckToolResult, FirstOf
<1>2. Found(m.results[1]) <=> fires
  BY DEF IsAnswer, FailureFires, ContentFires
<1>3. DOMAIN m.results = {1} /\ m.results[1].id = f
  BY DEF IsAnswer
<1> HIDE DEF Found, fires
<1>4. CASE fires
  <2>1. hits = {1}
    BY <1>2, <1>3, <1>4
  <2>2. CheckToolResult(m, t, uses, line) = ToolsIn(<<m.results[1]>>, t, line)
    BY <1>1, <2>1, OnlyOne
  <2> QED
    BY <1>3, <1>4, <2>2 DEF ToolsIn, DetectedError, IfFires, ErrorAt, fires
<1>5. CASE ~fires
  <2>1. hits = {}
    BY <1>2, <1>3, <1>5
  <2>2. CheckToolResult(m, t, uses, line) = ToolsIn(<<>>, t, line)
    BY <1>1, <2>1
  <2> QED
    BY <1>5, <2>2 DEF ToolsIn, IfFires, fires
<1> QED
  BY <1>4, <1>5
LEMMA UseChecked ==
    ASSUME NEW f, NEW m, IsCall(m, f), NEW t, NEW line
    PROVE  CheckToolUse(m, t, line) = IfFires(UseFires(m.content[1], t), t, line, f)
<1> DEFINE Found(b) == /\ b.type = "tool_use" /\ t.tool \in {None, b.name}
                       /\ t.field # None => b.text # "empty"
                       /\ Matches(b.text, t.pattern) /\ b.text \notin t.ignore
           hits == {i \in DOMAIN m.content: Found(m.content[i])}
           fires == UseFires(m.content[1], t)
<1>1. CheckToolUse(m, t, line) =
        ToolsIn(IF hits = {} THEN <<>> ELSE <<m.content[Min(hits)]>>, t, line)
  BY DEF CheckToolUse, FirstOf, IsCall
<1>2. Found(m.content[1]) <=> fires
  BY DEF IsCall, UseFires
<1>3. DOMAIN m.content = {1} /\ m.content[1].id = f
  BY DEF IsCall
<1> HIDE DEF Found, fires
<1>4. CASE fires
  <2>1. hits = {1}
    BY <1>2, <1>3, <1>4
  <2>2. CheckToolUse(m, t, line) = ToolsIn(<<m.content[1]>>, t, line)
    BY <1>1, <2>1, OnlyOne
  <2> QED
    BY <1>3, <1>4, <2>2 DEF ToolsIn, DetectedError, IfFires, ErrorAt, fires
<1>5. CASE ~fires
  <2>1. hits = {}
    BY <1>2, <1>3, <1>5
  <2>2. CheckToolUse(m, t, line) = ToolsIn(<<>>, t, line)
    BY <1>1, <2>1
  <2> QED
    BY <1>5, <2>2 DEF ToolsIn, IfFires, fires
<1> QED
  BY <1>4, <1>5

LEMMA CostChecked ==
    ASSUME NEW f, NEW m, IsCall(m, f), NEW t, NEW line, NEW results,
           f \in DOMAIN results => results[f].size = 2
    PROVE  CheckTokenThreshold(m, t, results, line) =
               IfFires(CostFires(m.calls[1], t, f \in DOMAIN results), t, line, f)
<1> DEFINE Result(c) == IF c.id \in DOMAIN results THEN results[c.id].size ELSE 0
           Tokens(c) == CASE t.tokens = "input" -> c.size
                          [] t.tokens = "output" -> Result(c)
                          [] OTHER -> c.size + Result(c)
           Over(c) == /\ t.tool \in {None, c.name} /\ Tokens(c) > t.threshold
                      /\ c.name \notin t.ignore
           places == {i \in DOMAIN m.calls: Over(m.calls[i])}
           parts == [i \in DOMAIN m.calls |-> IF i \in places THEN <<m.calls[i]>> ELSE <<>>]
           fires == CostFires(m.calls[1], t, f \in DOMAIN results)
<1>1. CheckTokenThreshold(m, t, results, line) = ToolsIn(FlattenSeq(parts), t, line)
  BY DEF CheckTokenThreshold, Chosen, IsCall
<1>2. Over(m.calls[1]) <=> fires
  BY DEF IsCall, CostFires
<1>3. DOMAIN m.calls = {1} /\ m.calls[1].id = f
  BY DEF IsCall
<1> HIDE DEF Over, fires
<1>6. Len(parts) = 1
  BY <1>3
<1>4. CASE fires
  <2>1. parts[1] = <<m.calls[1]>>
    BY <1>2, <1>3, <1>4
  <2>2. CheckTokenThreshold(m, t, results, line) = ToolsIn(<<m.calls[1]>>, t, line)
    BY <1>1, <1>6, <2>1, FlattenOne
  <2> QED
    BY <1>3, <1>4, <2>2 DEF ToolsIn, DetectedError, IfFires, ErrorAt, fires
<1>5. CASE ~fires
  <2>1. parts[1] = <<>>
    BY <1>2, <1>3, <1>5
  <2>2. CheckTokenThreshold(m, t, results, line) = ToolsIn(<<>>, t, line)
    BY <1>1, <1>6, <2>1, FlattenNone
  <2> QED
    BY <1>5, <2>2 DEF ToolsIn, IfFires, fires
<1> QED
  BY <1>4, <1>5

IsLine(m, f) == IsCall(m, f) \/ IsAnswer(m, f)

LEMMA Checked ==
    ASSUME NEW f, NEW m, IsLine(m, f), NEW t, NEW repo, NEW uses, NEW results, NEW line,
           f \in DOMAIN uses => uses[f].name = "Bash",
           f \in DOMAIN results => results[f].size = 2
    PROVE  CheckTrigger(m, t, repo, uses, results, line) =
               IfFires(Fires(m, t, repo, f \in DOMAIN uses, f \in DOMAIN results), t, line, f)
<1>1. IfFires(FALSE, t, line, f) = <<>>
  BY DEF IfFires
<1>2. CASE ~InScope(t, repo)
  BY <1>2 DEF CheckTrigger, Fires, IfFires
<1>3. CASE InScope(t, repo) /\ IsCall(m, f)
  <2>0. m.type = "assistant" /\ m.results = <<>>
    BY <1>3 DEF IsCall
  <2>1. CASE t.mode = "token_threshold"
    <3>1. Fires(m, t, repo, f \in DOMAIN uses, f \in DOMAIN results) <=>
            CostFires(m.calls[1], t, f \in DOMAIN results)
      BY <1>3, <2>0, <2>1 DEF Fires
    <3>2. CheckTrigger(m, t, repo, uses, results, line) = CheckTokenThreshold(m, t, results, line)
      BY <1>3, <2>1 DEF CheckTrigger
    <3> QED
      BY <1>3, <3>1, <3>2, CostChecked DEF IfFires
  <2>2. CASE t.mode # "token_threshold" /\ t.content = "tool_result"
    <3>1. ~Fires(m, t, repo, f \in DOMAIN uses, f \in DOMAIN results)
      BY <1>3, <2>0, <2>2 DEF Fires
    <3>2. CheckTrigger(m, t, repo, uses, results, line) = CheckToolResult(m, t, uses, line)
      BY <1>3, <2>2 DEF CheckTrigger
    <3>3. CheckToolResult(m, t, uses, line) = <<>>
      BY <2>0 DEF CheckToolResult, FirstOf, ToolsIn
    <3> QED
      BY <3>1, <3>2, <3>3 DEF IfFires
  <2>3. CASE t.mode # "token_threshold" /\ t.content = "tool_use"
    <3>1. Fires(m, t, repo, f \in DOMAIN uses, f \in DOMAIN results) <=> UseFires(m.content[1], t)
      BY <1>3, <2>0, <2>3 DEF Fires
    <3>2. CheckTrigger(m, t, repo, uses, results, line) = CheckToolUse(m, t, line)
      BY <1>3, <2>3 DEF CheckTrigger
    <3> QED
      BY <1>3, <3>1, <3>2, UseChecked DEF IfFires
  <2>4. CASE t.mode # "token_threshold" /\ t.content \notin {"tool_result", "tool_use"}
    BY <1>3, <2>4 DEF Fires, CheckTrigger, IfFires
  <2> QED
    BY <2>1, <2>2, <2>3, <2>4
<1>4. CASE InScope(t, repo) /\ IsAnswer(m, f)
  <2>0. m.type = "user" /\ ~m.string
    BY <1>4 DEF IsAnswer
  <2>1. CASE t.mode = "token_threshold"
    BY <1>4, <2>0, <2>1 DEF Fires, CheckTrigger, CheckTokenThreshold, IfFires
  <2>2. CASE t.mode # "token_threshold" /\ t.content = "tool_result"
    <3>1. Fires(m, t, repo, f \in DOMAIN uses, f \in DOMAIN results) <=>
            (IF t.requireError THEN FailureFires(m.results[1], t)
             ELSE ContentFires(m.results[1], t, f \in DOMAIN uses))
      BY <1>4, <2>0, <2>2 DEF Fires
    <3>2. CheckTrigger(m, t, repo, uses, results, line) = CheckToolResult(m, t, uses, line)
      BY <1>4, <2>2 DEF CheckTrigger
    <3> QED
      BY <1>4, <3>1, <3>2, ResultChecked DEF IfFires
  <2>3. CASE t.mode # "token_threshold" /\ t.content = "tool_use"
    BY <1>4, <2>0, <2>3 DEF Fires, CheckTrigger, CheckToolUse, IfFires
  <2>4. CASE t.mode # "token_threshold" /\ t.content \notin {"tool_result", "tool_use"}
    BY <1>4, <2>4 DEF Fires, CheckTrigger, IfFires
  <2> QED
    BY <2>1, <2>2, <2>3, <2>4
<1> QED
  BY <1>2, <1>3, <1>4 DEF IsLine

\* A trigger that holds everywhere fires the more, the more is at hand.
LEMMA FiresOnWithMore ==
    ASSUME NEW f, NEW m, IsLine(m, f), NEW t, t.threshold \in Nat, t.repos = {},
           NEW repo, NEW hasCall \in BOOLEAN, NEW hasAnswer \in BOOLEAN, Fires(m, t, repo, hasCall, hasAnswer),
           NEW repo2, NEW call2 \in BOOLEAN, NEW answer2 \in BOOLEAN,
           hasCall => call2, hasAnswer => answer2
    PROVE  Fires(m, t, repo2, call2, answer2)
<1>1. InScope(t, repo2)
  BY DEF InScope
<1>2. ASSUME m.type = "assistant", CostFires(m.calls[1], t, hasAnswer)
      PROVE  CostFires(m.calls[1], t, answer2)
  <2>1. m.calls[1].size \in Nat
    BY <1>2 DEF IsLine, IsCall, IsAnswer
  <2> QED
    BY <1>2, <2>1 DEF CostFires
<1>3. ASSUME ContentFires(m.results[1], t, hasCall)
      PROVE  ContentFires(m.results[1], t, call2)
  BY <1>3 DEF ContentFires
<1> QED
  BY <1>1, <1>2, <1>3 DEF Fires

\* What a trigger finds with all at hand and not with a part is a question
\* of a call and its result.
LEMMA FiresNotWithLess ==
    ASSUME NEW f, NEW m, IsLine(m, f), NEW t, t.threshold \in Nat, t.repos = {},
           NEW repo, NEW hasCall \in BOOLEAN, NEW hasAnswer \in BOOLEAN, Fires(m, t, repo, hasCall, hasAnswer),
           NEW repo2, NEW call2 \in BOOLEAN, NEW answer2 \in BOOLEAN, ~Fires(m, t, repo2, call2, answer2)
    PROVE  \/ /\ t.mode = "token_threshold" /\ t.tokens # "input"
              /\ m.type = "assistant" /\ hasAnswer /\ ~answer2
           \/ /\ t.content = "tool_result" /\ ~t.requireError
              /\ m.type = "user" /\ hasCall /\ ~call2
<1>1. InScope(t, repo2)
  BY DEF InScope
<1>2. CASE t.mode = "token_threshold"
  <2>1. m.type = "assistant" /\ CostFires(m.calls[1], t, hasAnswer) /\ ~CostFires(m.calls[1], t, answer2)
    BY <1>1, <1>2 DEF Fires
  <2>2. m.calls[1].size \in Nat
    BY <2>1 DEF IsLine, IsCall, IsAnswer
  <2>3. t.tokens # "input" /\ hasAnswer # answer2
    BY <2>1 DEF CostFires
  <2>4. hasAnswer
    BY <2>1, <2>2, <2>3 DEF CostFires
  <2> QED
    BY <1>2, <2>1, <2>3, <2>4
<1>3. CASE t.mode # "token_threshold"
  BY <1>1, <1>3 DEF Fires, ContentFires
<1> QED
  BY <1>2, <1>3
-----------------------------------------------------------------------------
(* What a list of messages gives. *)

LEMMA IsList ==
    ASSUME NEW T, NEW n \in Nat, NEW s \in [1 .. n -> T]
    PROVE  s \in Seq(T) /\ Len(s) = n /\ DOMAIN s = 1 .. n
  OBVIOUS

LEMMA GatheredElements ==
    ASSUME NEW T, NEW n \in Nat, NEW s \in [1 .. n -> Seq(T)]
    PROVE  /\ FlattenSeq(s) \in Seq(T)
           /\ ToSet(FlattenSeq(s)) = UNION {ToSet(s[i]) : i \in 1 .. n}
<1>1. s \in Seq(Seq(T)) /\ DOMAIN s = 1 .. n
  BY IsList
<1> QED
  BY <1>1, FlattenElements

LEMMA ChosenElements ==
    ASSUME NEW T, NEW s \in Seq(T), NEW places
    PROVE  /\ Chosen(s, places) \in Seq(T)
           /\ ToSet(Chosen(s, places)) = {s[i] : i \in DOMAIN s \cap places}
<1> DEFINE n == Len(s)
           parts == [i \in DOMAIN s |-> IF i \in places THEN <<s[i]>> ELSE <<>>]
<1>0. n \in Nat /\ DOMAIN s = 1 .. n
  OBVIOUS
<1> HIDE DEF n
<1>1. \A i \in 1 .. n: (IF i \in places THEN <<s[i]>> ELSE <<>>) \in Seq(T)
  BY <1>0
<1>2. parts \in [1 .. n -> Seq(T)]
  BY <1>0, <1>1
<1>3. \A i \in 1 .. n: ToSet(parts[i]) = IF i \in places THEN {s[i]} ELSE {}
  BY <1>0 DEF ToSet
<1>4. Chosen(s, places) = FlattenSeq(parts)
  BY DEF Chosen
<1> HIDE DEF parts
<1>5. Chosen(s, places) \in Seq(T) /\ ToSet(Chosen(s, places)) = UNION {ToSet(parts[i]) : i \in 1 .. n}
  BY <1>0, <1>2, <1>4, GatheredElements
<1>6. UNION {ToSet(parts[i]) : i \in 1 .. n} = {s[i] : i \in DOMAIN s \cap places}
  BY <1>0, <1>3
<1> QED
  BY <1>5, <1>6

LEMMA LastIsOne ==
    ASSUME NEW T, NEW s \in Seq(T), NEW id, id \in IdsOf(s)
    PROVE  LastWithId(s, id) \in T
<1> DEFINE I == {i \in DOMAIN s: s[i].id = id}
<1>1. I \in SUBSET Nat /\ I # {} /\ Len(s) \in Nat /\ \A i \in I: i <= Len(s)
  BY DEF IdsOf
<1>2. Max(I) \in I
  BY <1>1, GreatestIsMax
<1> QED
  BY <1>2 DEF LastWithId

HasCall(msgs) == \E i \in DOMAIN msgs: msgs[i].type = "assistant"
HasAnswer(msgs) == \E i \in DOMAIN msgs: msgs[i].type = "user"

LEMMA CallMap ==
    ASSUME NEW f, NEW T, \A m \in T: IsLine(m, f), NEW msgs \in Seq(T)
    PROVE  /\ f \in DOMAIN ToolUseMap(msgs) <=> HasCall(msgs)
           /\ f \in DOMAIN ToolUseMap(msgs) => ToolUseMap(msgs)[f].name = "Bash"
<1> DEFINE A == {i \in DOMAIN msgs: msgs[i].type = "assistant"}
           D == Chosen(msgs, A)
           U == {m \in T: m.type = "assistant"}
           C == {m.calls[1] : m \in U}
           s == [i \in DOMAIN D |-> D[i].calls]
           calls == FlattenSeq(s)
<1>1. \A m \in U: IsCall(m, f) /\ m.calls = <<m.calls[1]>>
  BY DEF IsLine, IsCall, IsAnswer
<1>2. D \in Seq(T) /\ ToSet(D) = {msgs[i] : i \in A}
  <2>1. DOMAIN msgs \cap A = A
    OBVIOUS
  <2> HIDE DEF A
  <2> QED
    BY <2>1, ChosenElements
<1> HIDE DEF D
<1>3. \A i \in DOMAIN D: D[i] \in U
  BY <1>2 DEF ToSet
<1>4. \A i \in DOMAIN D: D[i].calls \in Seq(C) /\ ToSet(D[i].calls) = {D[i].calls[1]}
  <2> TAKE i \in DOMAIN D
  <2>1. D[i].calls = <<D[i].calls[1]>> /\ D[i].calls[1] \in C
    BY <1>1, <1>3
  <2> HIDE DEF C
  <2> DEFINE c == D[i].calls[1]
  <2>2. D[i].calls = <<c>> /\ c \in C
    BY <2>1
  <2> HIDE DEF c
  <2>3. <<c>> \in Seq(C) /\ ToSet(<<c>>) = {c}
    BY <2>2 DEF ToSet
  <2> QED
    BY <2>2, <2>3 DEF c
<1>5. Len(D) \in Nat /\ DOMAIN D = 1 .. Len(D) /\ s \in [1 .. Len(D) -> Seq(C)]
  <2> HIDE DEF C
  <2> QED
    BY <1>2, <1>4
<1>6. calls \in Seq(C) /\ ToSet(calls) = UNION {ToSet(s[i]) : i \in 1 .. Len(D)}
  <2> HIDE DEF C, s
  <2> QED
    BY <1>5, GatheredElements
<1>12. \A i \in DOMAIN D: ToSet(s[i]) = {D[i].calls[1]}
  BY <1>4
<1>7. ToSet(calls) = {D[i].calls[1] : i \in DOMAIN D}
  <2> HIDE DEF calls, s
  <2> QED
    BY <1>5, <1>6, <1>12
<1>8. \A c \in C: c.id = f /\ c.name = "Bash"
  BY <1>1 DEF IsCall
<1>9. ToolUseMap(msgs) = [id \in IdsOf(calls) |-> LastWithId(calls, id)]
  BY DEF ToolUseMap, CallsIn, D
<1> HIDE DEF C, s, calls
<1>10. f \in IdsOf(calls) <=> A # {}
  <2>1. IdsOf(calls) = {c.id : c \in ToSet(calls)}
    BY DEF IdsOf, ToSet
  <2>2. ToSet(calls) # {} <=> ToSet(D) # {}
    BY <1>7 DEF ToSet
  <2>3. ToSet(calls) \subseteq C
    BY <1>6 DEF ToSet
  <2>4. \A x \in ToSet(calls): x.id = f
    BY <1>8, <2>3
  <2> QED
    BY <1>2, <2>1, <2>2, <2>4
<1>11. f \in IdsOf(calls) => LastWithId(calls, f) \in C
  BY <1>6, LastIsOne
<1> QED
  BY <1>8, <1>9, <1>10, <1>11 DEF HasCall

LEMMA AnswerMap ==
    ASSUME NEW f, NEW T, \A m \in T: IsLine(m, f), NEW msgs \in Seq(T)
    PROVE  /\ f \in DOMAIN ToolResultMap(msgs) <=> HasAnswer(msgs)
           /\ f \in DOMAIN ToolResultMap(msgs) => ToolResultMap(msgs)[f].size = 2
<1> DEFINE C == {m.results[1] : m \in {x \in T: x.type = "user"}}
           s == [i \in DOMAIN msgs |-> msgs[i].results]
           results == FlattenSeq(s)
<1>1. \A m \in T: IF m.type = "user" THEN IsAnswer(m, f) /\ m.results = <<m.results[1]>> ELSE m.results = <<>>
  BY DEF IsLine, IsCall, IsAnswer
<1>2. \A i \in DOMAIN msgs: msgs[i] \in T
  OBVIOUS
<1>4. \A i \in DOMAIN msgs: /\ msgs[i].results \in Seq(C)
                            /\ ToSet(msgs[i].results) =
                                 IF msgs[i].type = "user" THEN {msgs[i].results[1]} ELSE {}
  <2> TAKE i \in DOMAIN msgs
  <2>1. CASE msgs[i].type = "user"
    <3>1. msgs[i].results = <<msgs[i].results[1]>> /\ msgs[i].results[1] \in C
      BY <1>1, <1>2, <2>1
    <3> HIDE DEF C
    <3> QED
      BY <2>1, <3>1, OneElement
  <2>2. CASE msgs[i].type # "user"
    <3>1. msgs[i].results = <<>>
      BY <1>1, <1>2, <2>2
    <3> HIDE DEF C
    <3> QED
      BY <2>2, <3>1 DEF ToSet
  <2> QED
    BY <2>1, <2>2
<1>5. Len(msgs) \in Nat /\ DOMAIN msgs = 1 .. Len(msgs) /\ s \in [1 .. Len(msgs) -> Seq(C)]
  <2> HIDE DEF C
  <2>1. Len(msgs) \in Nat /\ DOMAIN msgs = 1 .. Len(msgs)
    OBVIOUS
  <2>2. \A i \in 1 .. Len(msgs): msgs[i].results \in Seq(C)
    BY <1>4, <2>1
  <2> QED
    BY <2>1, <2>2
<1>6. results \in Seq(C) /\ ToSet(results) = UNION {ToSet(s[i]) : i \in 1 .. Len(msgs)}
  <2> HIDE DEF C, s
  <2> QED
    BY <1>5, GatheredElements
<1>12. \A i \in DOMAIN msgs: ToSet(s[i]) = IF msgs[i].type = "user" THEN {msgs[i].results[1]} ELSE {}
  BY <1>4
<1>7. ToSet(results) = {msgs[i].results[1] : i \in {j \in DOMAIN msgs: msgs[j].type = "user"}}
  <2> HIDE DEF results, s
  <2> QED
    BY <1>5, <1>6, <1>12
<1>8. \A c \in C: c.id = f /\ c.size = 2
  BY <1>1 DEF IsAnswer
<1>9. ToolResultMap(msgs) = [id \in IdsOf(results) |-> LastWithId(results, id)]
  BY DEF ToolResultMap, ResultsIn
<1> HIDE DEF C, s, results
<1>10. f \in IdsOf(results) <=> HasAnswer(msgs)
  <2>1. IdsOf(results) = {c.id : c \in ToSet(results)}
    BY DEF IdsOf, ToSet
  <2>2. ToSet(results) # {} <=> HasAnswer(msgs)
    BY <1>7 DEF HasAnswer
  <2>3. ToSet(results) \subseteq C
    BY <1>6 DEF ToSet
  <2>4. \A x \in ToSet(results): x.id = f
    BY <1>8, <2>3
  <2> QED
    BY <2>1, <2>2, <2>4
<1>11. f \in IdsOf(results) => LastWithId(results, f) \in C
  BY <1>6, LastIsOne
<1> QED
  BY <1>8, <1>9, <1>10, <1>11
NamesOfTriggers == {Triggers[k].id : k \in DOMAIN Triggers}
Found == [trigger: NamesOfTriggers, line: Nat, tool: Files]

\* The errors of one message.
Marks(f, msgs, i, triggers, repo) ==
    {ErrorAt(triggers[k], i, f) :
        k \in {l \in DOMAIN triggers: Fires(msgs[i], triggers[l], repo, HasCall(msgs), HasAnswer(msgs))}}

LEMMA MessageGives ==
    ASSUME NEW f \in Files, NEW T, \A m \in T: IsLine(m, f), NEW msgs \in Seq(T),
           NEW triggers \in Seq(Listing(Triggers)), NEW repo, NEW i \in DOMAIN msgs
    PROVE  /\ CheckMessage(msgs, i, triggers, repo) \in Seq(Found)
           /\ ToSet(CheckMessage(msgs, i, triggers, repo)) = Marks(f, msgs, i, triggers, repo)
<1> DEFINE uses == ToolUseMap(msgs)
           results == ToolResultMap(msgs)
           n == Len(triggers)
           Hit(k) == Fires(msgs[i], triggers[k], repo, HasCall(msgs), HasAnswer(msgs))
           s == [k \in DOMAIN triggers |-> CheckTrigger(msgs[i], triggers[k], repo, uses, results, i)]
<1>1. n \in Nat /\ DOMAIN triggers = 1 .. n /\ msgs[i] \in T /\ i \in Nat
  OBVIOUS
<1>2. /\ f \in DOMAIN uses <=> HasCall(msgs)
      /\ f \in DOMAIN results <=> HasAnswer(msgs)
      /\ f \in DOMAIN uses => uses[f].name = "Bash"
      /\ f \in DOMAIN results => results[f].size = 2
  BY CallMap, AnswerMap
<1>3. IsLine(msgs[i], f)
  BY <1>1
<1>4. CheckMessage(msgs, i, triggers, repo) = FlattenSeq(s)
  BY DEF CheckMessage
<1> HIDE DEF uses, results, n
<1>5. \A k \in 1 .. n: CheckTrigger(msgs[i], triggers[k], repo, uses, results, i) =
                            IF Hit(k) THEN <<ErrorAt(triggers[k], i, f)>> ELSE <<>>
  <2> TAKE k \in 1 .. n
  <2>1. CheckTrigger(msgs[i], triggers[k], repo, uses, results, i) =
          IfFires(Fires(msgs[i], triggers[k], repo, f \in DOMAIN uses, f \in DOMAIN results), triggers[k], i, f)
    BY <1>2, <1>3, Checked
  <2>2. Fires(msgs[i], triggers[k], repo, f \in DOMAIN uses, f \in DOMAIN results) <=> Hit(k)
    BY <1>2 DEF Fires, ContentFires, CostFires
  <2> QED
    BY <2>1, <2>2 DEF IfFires
<1>6. \A k \in 1 .. n: ErrorAt(triggers[k], i, f) \in Found
  BY <1>1 DEF Found, ErrorAt, NamesOfTriggers, Listing
<1> HIDE DEF Hit
<1>7. \A k \in 1 .. n: /\ s[k] \in Seq(Found)
                       /\ ToSet(s[k]) = IF Hit(k) THEN {ErrorAt(triggers[k], i, f)} ELSE {}
  <2> TAKE k \in 1 .. n
  <2>1. s[k] = IF Hit(k) THEN <<ErrorAt(triggers[k], i, f)>> ELSE <<>>
    BY <1>1, <1>5
  <2> HIDE DEF s
  <2>2. CASE Hit(k)
    <3>1. ErrorAt(triggers[k], i, f) \in Found
      BY <1>6
    <3> QED
      BY <2>1, <2>2, <3>1 DEF ToSet
  <2>3. CASE ~Hit(k)
    BY <2>1, <2>3 DEF ToSet
  <2> QED
    BY <2>2, <2>3
<1>8. s \in [1 .. n -> Seq(Found)]
  BY <1>1, <1>7
<1> HIDE DEF s
<1>9. FlattenSeq(s) \in Seq(Found) /\ ToSet(FlattenSeq(s)) = UNION {ToSet(s[k]) : k \in 1 .. n}
  <2>1. n \in Nat
    BY <1>1
  <2> QED
    BY <1>8, <2>1, GatheredElements
<1>10. UNION {ToSet(s[k]) : k \in 1 .. n} = {ErrorAt(triggers[k], i, f) : k \in {l \in 1 .. n: Hit(l)}}
  BY <1>7
<1> QED
  BY <1>1, <1>4, <1>9, <1>10 DEF Marks, Hit

LEMMA FileGives ==
    ASSUME NEW f \in Files, NEW T, \A m \in T: IsLine(m, f), NEW msgs \in Seq(T),
           NEW triggers \in Seq(Listing(Triggers)), NEW repo
    PROVE  ErrorsOf(msgs, triggers, repo) = UNION {Marks(f, msgs, i, triggers, repo) : i \in DOMAIN msgs}
<1> DEFINE n == Len(msgs)
           s == [i \in DOMAIN msgs |-> CheckMessage(msgs, i, triggers, repo)]
<1>1. n \in Nat /\ DOMAIN msgs = 1 .. n
  OBVIOUS
<1>2. \A i \in DOMAIN msgs: /\ CheckMessage(msgs, i, triggers, repo) \in Seq(Found)
                            /\ ToSet(CheckMessage(msgs, i, triggers, repo)) = Marks(f, msgs, i, triggers, repo)
  BY MessageGives
<1>3. s \in [1 .. n -> Seq(Found)]
  BY <1>1, <1>2
<1>4. \A i \in 1 .. n: ToSet(s[i]) = Marks(f, msgs, i, triggers, repo)
  BY <1>1, <1>2
<1>5. ErrorsOf(msgs, triggers, repo) = ToSet(FlattenSeq(s))
  BY DEF ErrorsOf, Listing, ToSet
<1> HIDE DEF s, n
<1>6. ToSet(FlattenSeq(s)) = UNION {ToSet(s[i]) : i \in 1 .. n}
  BY <1>1, <1>3, GatheredElements
<1>7. {ToSet(s[i]) : i \in 1 .. n} = {Marks(f, msgs, i, triggers, repo) : i \in 1 .. n}
  BY <1>4
<1> QED
  BY <1>1, <1>5, <1>6, <1>7
-----------------------------------------------------------------------------
(* What holds between the files, the detections and what they found. *)

LineSet(f) ==
    {MessageOf(CallLine(f, y[1], y[2])) : y \in Uses[f] \X Cwds[f]} \cup
    {MessageOf(AnswerLine(f, y[1], y[2])) : y \in Results[f] \X Cwds[f]}
AnyLine == UNION {LineSet(f) : f \in Files}

Job == [file: Files, part: Seq(AnyLine), from: Nat, next: Nat, found: Seq(Found), disturbed: BOOLEAN]
Report == [file: Files, error: Found, cwd: DOMAIN RepoOf, disturbed: BOOLEAN]

DetectorTypeOK ==
    /\ files \in [Files -> Seq(AnyLine)]
    /\ table \in [ProjectSet -> {"unknown"} \cup Listing(RepoOf)]
    /\ live \in [Workers -> Seq(Job)]
    /\ read \in [Files -> Nat]
    /\ cuts \in [Files -> SUBSET Nat]
    /\ detected \in SUBSET Report

\* The first line is the call, the others are results of it.
FileOK(f, msgs, n, ends) ==
    /\ msgs \in Seq(LineSet(f))
    /\ \A i \in DOMAIN msgs: msgs[i].type = "assistant" <=> i = 1
    /\ n <= Len(msgs) /\ ends \subseteq 1 .. n

\* A part begins where the last one ended.
PartOK(job, msgs, n, ends) ==
    /\ job.part \in Seq(LineSet(job.file)) /\ Len(job.part) > 0 /\ job.from + Len(job.part) = n
    /\ \A i \in 1 .. Len(job.part): job.part[i] = msgs[job.from + i]
    /\ job.next \in 1 .. Len(job.part) + 1
    /\ job.from \in ends \cup {0} /\ ends \subseteq 1 .. job.from

Hint(job) == CwdHint(job.part, ProjectOf(job.file))

ScopedTo(e, repo) == \E k \in DOMAIN Triggers: Triggers[k].id = e.trigger /\ InScope(Triggers[k], repo)

ScopeOK(job, repos) ==
    ~job.disturbed => /\ repos[ProjectOf(job.file)] = RepoOf[Hint(job)]
                      /\ \A e \in ToSet(job.found): ScopedTo(e, RepoOf[Hint(job)])

Unbound(k) == k \in DOMAIN Triggers /\ Triggers[k].repos = {}

IsTrue(msgs, f, line, e) ==
    \E k \in DOMAIN Triggers:
        /\ e.trigger = Triggers[k].id /\ e.tool = f /\ line \in DOMAIN msgs
        /\ Unbound(k) => Fires(msgs[line], Triggers[k], None, HasCall(msgs), HasAnswer(msgs))

TrueOK(job, msgs) == \A e \in ToSet(job.found): IsTrue(msgs, job.file, e.line + job.from, e)

CompleteOK(job) ==
    \A i \in 1 .. job.next - 1, k \in DOMAIN Triggers:
        Unbound(k) /\ Fires(job.part[i], Triggers[k], None, HasCall(job.part), HasAnswer(job.part))
            => ErrorAt(Triggers[k], i, job.file) \in ToSet(job.found)

JobOK(job, msgs, n, ends, repos) ==
    PartOK(job, msgs, n, ends) /\ ScopeOK(job, repos) /\ TrueOK(job, msgs) /\ CompleteOK(job)

TypeIn(msgs, type, lo, hi) == \E i \in lo + 1 .. hi: msgs[i].type = type

LineCovered(msgs, ends, errors, f, j) ==
    \E lo \in ends \cup {0}, hi \in ends:
        /\ lo < j /\ j <= hi
        /\ \A k \in DOMAIN Triggers:
              Unbound(k) /\ Fires(msgs[j], Triggers[k], None, TypeIn(msgs, "assistant", lo, hi),
                                  TypeIn(msgs, "user", lo, hi))
                  => ErrorAt(Triggers[k], j, f) \in errors

CoveredTo(msgs, ends, errors, f) == \A c \in ends: \A j \in 1 .. c: LineCovered(msgs, ends, errors, f, j)

ErrorsIn(reports, f) == {r.error : r \in {x \in reports: x.file = f}}

ReportOK(r, msgs) ==
    /\ IsTrue(msgs, r.file, r.error.line, r.error)
    /\ ~r.disturbed => ScopedTo(r.error, RepoOf[r.cwd])

Detecting(f) == \E w \in Workers: live[w] # <<>> /\ live[w][1].file = f

DetectorInv ==
    /\ DetectorTypeOK
    /\ \A f \in Files: FileOK(f, files[f], read[f], cuts[f])
    /\ \A w \in Workers: live[w] # <<>> =>
          JobOK(live[w][1], files[live[w][1].file], read[live[w][1].file], cuts[live[w][1].file], table)
    /\ \A v, w \in Workers: v # w /\ live[v] # <<>> /\ live[w] # <<>> => live[v][1].file # live[w][1].file
    /\ \A f \in Files: Detecting(f) \/ read[f] \in cuts[f] \cup {0}
    /\ \A r \in detected: ReportOK(r, files[r.file])
    /\ \A f \in Files: CoveredTo(files[f], cuts[f], ErrorsIn(detected, f), f)
-----------------------------------------------------------------------------
(* What the steps keep of it. *)

LEMMA LineFacts ==
    ASSUME NEW f \in Files
    PROVE  \A m \in LineSet(f): IsLine(m, f) /\ m.cwd \in DOMAIN RepoOf \cup {None}
<1>1. \A y \in Uses[f] \X Cwds[f]:
        /\ IsLine(MessageOf(CallLine(f, y[1], y[2])), f)
        /\ MessageOf(CallLine(f, y[1], y[2])).cwd \in DOMAIN RepoOf \cup {None}
  BY ErrorDetectorAssumption, CallFacts DEF IsLine
<1>2. \A y \in Results[f] \X Cwds[f]:
        /\ IsLine(MessageOf(AnswerLine(f, y[1], y[2])), f)
        /\ MessageOf(AnswerLine(f, y[1], y[2])).cwd \in DOMAIN RepoOf \cup {None}
  BY ErrorDetectorAssumption, AnswerFacts DEF IsLine
<1> QED
  BY <1>1, <1>2 DEF LineSet

LEMMA ProjectIsKnown == \A f \in Files: ProjectOf(f) \in ProjectSet
  BY DEF ProjectOf, Files

LEMMA HintIsKnown ==
    ASSUME NEW f \in Files, NEW part \in Seq(LineSet(f))
    PROVE  CwdHint(part, ProjectOf(f)) \in DOMAIN RepoOf
<1> DEFINE named == {i \in DOMAIN part: part[i].cwd # None}
<1>1. ProjectOf(f) \in ProjectSet
  BY ProjectIsKnown
<1>2. PathOf[ProjectOf(f)] \in DOMAIN RepoOf
  BY <1>1, ErrorDetectorAssumption
<1>3. ASSUME named # {} PROVE part[Min(named)].cwd \in DOMAIN RepoOf
  <2>1. named \in SUBSET Nat
    OBVIOUS
  <2>2. Min(named) \in named
    BY <1>3, <2>1, LeastIsMin
  <2>3. part[Min(named)] \in LineSet(f) /\ part[Min(named)].cwd # None
    BY <2>2
  <2> QED
    BY <2>3, LineFacts
<1> QED
  BY <1>2, <1>3 DEF CwdHint

LEMMA TriggerFacts ==
    /\ \A k \in DOMAIN Triggers: Triggers[k].threshold \in Nat /\ Triggers[k] \in Listing(Triggers)
    /\ \A k, l \in DOMAIN Triggers: Triggers[k].id = Triggers[l].id => k = l
  BY ErrorDetectorAssumption DEF Listing

\* A longer file has the same errors, and perhaps more.
LEMMA GrownTrue ==
    ASSUME NEW f \in Files, NEW msgs \in Seq(LineSet(f)), NEW m \in LineSet(f), NEW line, NEW e,
           IsTrue(msgs, f, line, e)
    PROVE  IsTrue(Append(msgs, m), f, line, e)
<1> DEFINE more == Append(msgs, m)
<1>1. /\ DOMAIN msgs \subseteq DOMAIN more /\ \A i \in DOMAIN msgs: more[i] = msgs[i]
  OBVIOUS
<1>2. (HasCall(msgs) => HasCall(more)) /\ (HasAnswer(msgs) => HasAnswer(more))
  BY <1>1 DEF HasCall, HasAnswer
<1> HIDE DEF more
<1>3. PICK k \in DOMAIN Triggers:
        /\ e.trigger = Triggers[k].id /\ e.tool = f /\ line \in DOMAIN msgs
        /\ Unbound(k) => Fires(msgs[line], Triggers[k], None, HasCall(msgs), HasAnswer(msgs))
  BY DEF IsTrue
<1>4. ASSUME Unbound(k)
      PROVE  Fires(more[line], Triggers[k], None, HasCall(more), HasAnswer(more))
  <2>1. Fires(msgs[line], Triggers[k], None, HasCall(msgs), HasAnswer(msgs))
    BY <1>3, <1>4
  <2>2. IsLine(msgs[line], f) /\ more[line] = msgs[line]
    BY <1>1, <1>3, LineFacts
  <2>3. HasCall(msgs) \in BOOLEAN /\ HasAnswer(msgs) \in BOOLEAN /\ HasCall(more) \in BOOLEAN
        /\ HasAnswer(more) \in BOOLEAN
    BY DEF HasCall, HasAnswer
  <2>4. Triggers[k].repos = {} /\ Triggers[k].threshold \in Nat
    BY <1>3, <1>4, TriggerFacts DEF Unbound
  <2> QED
    BY <1>2, <2>1, <2>2, <2>3, <2>4, FiresOnWithMore
<1> QED
  BY <1>1, <1>3, <1>4 DEF IsTrue, more

LEMMA GrownCovered ==
    ASSUME NEW f, NEW T, NEW msgs \in Seq(T), NEW m \in T, NEW ends \in SUBSET (1 .. Len(msgs)), NEW errors,
           CoveredTo(msgs, ends, errors, f)
    PROVE  CoveredTo(Append(msgs, m), ends, errors, f)
<1> DEFINE more == Append(msgs, m)
<1>1. Len(msgs) \in Nat /\ \A i \in 1 .. Len(msgs): more[i] = msgs[i]
  OBVIOUS
<1> HIDE DEF more
<1>2. \A type: \A lo \in ends \cup {0}, hi \in ends:
        TypeIn(msgs, type, lo, hi) <=> TypeIn(more, type, lo, hi)
  BY <1>1 DEF TypeIn
<1> SUFFICES ASSUME NEW c \in ends, NEW j \in 1 .. c PROVE LineCovered(more, ends, errors, f, j)
  BY DEF CoveredTo, more
<1>3. PICK lo \in ends \cup {0}, hi \in ends:
        /\ lo < j /\ j <= hi
        /\ \A k \in DOMAIN Triggers:
              Unbound(k) /\ Fires(msgs[j], Triggers[k], None, TypeIn(msgs, "assistant", lo, hi),
                                  TypeIn(msgs, "user", lo, hi))
                  => ErrorAt(Triggers[k], j, f) \in errors
  BY DEF CoveredTo, LineCovered
<1>4. more[j] = msgs[j]
  BY <1>1
<1>5. \A k \in DOMAIN Triggers:
        Fires(more[j], Triggers[k], None, TypeIn(more, "assistant", lo, hi), TypeIn(more, "user", lo, hi)) <=>
        Fires(msgs[j], Triggers[k], None, TypeIn(msgs, "assistant", lo, hi), TypeIn(msgs, "user", lo, hi))
  BY <1>2, <1>4 DEF Fires, ContentFires, CostFires
<1> QED
  BY <1>3, <1>5 DEF LineCovered
\* What a part of a file gives is true of the file.
LEMMA PartTrue ==
    ASSUME NEW f \in Files, NEW msgs \in Seq(LineSet(f)), NEW part \in Seq(LineSet(f)), NEW from \in Nat,
           from + Len(part) <= Len(msgs), \A i \in 1 .. Len(part): part[i] = msgs[from + i],
           NEW i \in DOMAIN part, NEW repo, NEW e \in Marks(f, part, i, Triggers, repo)
    PROVE  IsTrue(msgs, f, e.line + from, e) /\ ScopedTo(e, repo)
<1>1. /\ Len(part) \in Nat /\ DOMAIN part = 1 .. Len(part) /\ Len(msgs) \in Nat
      /\ DOMAIN msgs = 1 .. Len(msgs)
  OBVIOUS
<1>2. PICK k \in DOMAIN Triggers: /\ e = ErrorAt(Triggers[k], i, f)
                                  /\ Fires(part[i], Triggers[k], repo, HasCall(part), HasAnswer(part))
  BY DEF Marks
<1>3. e.trigger = Triggers[k].id /\ e.tool = f /\ e.line = i
  BY <1>2 DEF ErrorAt
<1>4. i + from \in DOMAIN msgs /\ part[i] = msgs[i + from]
  BY <1>1
<1>5. InScope(Triggers[k], repo)
  BY <1>2 DEF Fires
<1>6. \A j \in 1 .. Len(part): from + j \in DOMAIN msgs /\ part[j] = msgs[from + j]
  BY <1>1
<1>7. (HasCall(part) => HasCall(msgs)) /\ (HasAnswer(part) => HasAnswer(msgs))
  BY <1>1, <1>6 DEF HasCall, HasAnswer
<1>8. ASSUME Unbound(k)
      PROVE  Fires(msgs[i + from], Triggers[k], None, HasCall(msgs), HasAnswer(msgs))
  <2>1. HasCall(msgs) \in BOOLEAN /\ HasAnswer(msgs) \in BOOLEAN /\ HasCall(part) \in BOOLEAN
        /\ HasAnswer(part) \in BOOLEAN
    BY DEF HasCall, HasAnswer
  <2>2. Triggers[k].repos = {} /\ Triggers[k].threshold \in Nat
    BY <1>8, TriggerFacts DEF Unbound
  <2>3. IsLine(part[i], f)
    BY LineFacts
  <2>5. Fires(part[i], Triggers[k], repo, HasCall(part), HasAnswer(part))
    BY <1>2
  <2>4. Fires(part[i], Triggers[k], None, HasCall(msgs), HasAnswer(msgs))
    BY ONLY <1>7, <2>1, <2>2, <2>3, <2>5, FiresOnWithMore
  <2> QED
    BY <1>4, <2>4
<1> QED
  BY <1>3, <1>4, <1>5, <1>8 DEF IsTrue, ScopedTo

\* The job after a look at one message.
IsNext(job2, job, new) ==
    /\ job2.file = job.file /\ job2.part = job.part /\ job2.from = job.from /\ job2.next = job.next + 1
    /\ job2.found = job.found \o new /\ job2.disturbed = job.disturbed
    /\ job.found \o new \in Seq(Found) => job2 \in Job

LEMMA CheckedJob ==
    ASSUME NEW job \in Job, NEW msgs \in Seq(LineSet(job.file)), NEW n \in Nat, n <= Len(msgs), NEW ends, NEW repos,
           JobOK(job, msgs, n, ends, repos), job.next <= Len(job.part),
           NEW job2, IsNext(job2, job, CheckMessage(job.part, job.next, Triggers, repos[ProjectOf(job.file)]))
    PROVE  job2 \in Job /\ JobOK(job2, msgs, n, ends, repos)
<1> DEFINE repo == repos[ProjectOf(job.file)]
           new == CheckMessage(job.part, job.next, Triggers, repo)
<1>1. /\ job.file \in Files /\ job.part \in Seq(LineSet(job.file)) /\ job.next \in Nat /\ job.from \in Nat
      /\ job.found \in Seq(Found) /\ job.next \in DOMAIN job.part
  BY DEF Job, JobOK, PartOK
<1>2. new \in Seq(Found) /\ ToSet(new) = Marks(job.file, job.part, job.next, Triggers, repo)
  <2>1. Triggers \in Seq(Listing(Triggers)) /\ \A m \in LineSet(job.file): IsLine(m, job.file)
    BY <1>1, LineFacts, ErrorDetectorAssumption
  <2> HIDE DEF repo
  <2> QED
    BY <1>1, <2>1, MessageGives
<1> HIDE DEF new
<1>3. /\ job2.file = job.file /\ job2.part = job.part /\ job2.from = job.from /\ job2.next = job.next + 1
      /\ job2.found = job.found \o new /\ job2.disturbed = job.disturbed /\ job2 \in Job
  <2>1. job.found \o new \in Seq(Found)
    BY <1>1, <1>2
  <2> QED
    BY <2>1 DEF IsNext, new
<1>4. ToSet(job2.found) = ToSet(job.found) \cup ToSet(new)
  <2>1. ToSet(job.found \o new) = ToSet(job.found) \cup ToSet(new)
    BY <1>1, <1>2, JoinedElements
  <2> QED
    BY <1>3, <2>1
<1>5. \A e \in ToSet(new): IsTrue(msgs, job.file, e.line + job.from, e) /\ ScopedTo(e, repo)
  <2>1. /\ job.from + Len(job.part) <= Len(msgs)
        /\ \A i \in 1 .. Len(job.part): job.part[i] = msgs[job.from + i]
    BY DEF JobOK, PartOK
  <2> QED
    BY <1>1, <1>2, <2>1, PartTrue
<1>6. PartOK(job2, msgs, n, ends)
  <2>1. PartOK(job, msgs, n, ends)
    BY DEF JobOK
  <2>2. Len(job.part) \in Nat
    BY <1>1
  <2>3. job2.next \in 1 .. Len(job.part) + 1
    BY <1>1, <1>3, <2>2
  <2> QED
    BY <1>3, <2>1, <2>3 DEF PartOK
<1>7. ScopeOK(job2, repos)
  <2>1. ScopeOK(job, repos) /\ Hint(job2) = Hint(job)
    BY <1>3 DEF JobOK, Hint
  <2> QED
    BY <1>3, <1>4, <1>5, <2>1 DEF ScopeOK
<1>8. TrueOK(job2, msgs)
  <2>1. TrueOK(job, msgs)
    BY DEF JobOK
  <2> QED
    BY <1>3, <1>4, <1>5, <2>1 DEF TrueOK
<1>9. CompleteOK(job2)
  <2>1. CompleteOK(job)
    BY DEF JobOK
  <2> SUFFICES ASSUME NEW i \in 1 .. job.next, NEW k \in DOMAIN Triggers, Unbound(k),
                      Fires(job.part[i], Triggers[k], None, HasCall(job.part), HasAnswer(job.part))
               PROVE  ErrorAt(Triggers[k], i, job.file) \in ToSet(job2.found)
    BY <1>1, <1>3 DEF CompleteOK
  <2>2. CASE i \in 1 .. job.next - 1
    BY <1>4, <2>1, <2>2 DEF CompleteOK
  <2>3. CASE i = job.next
    <3>1. Fires(job.part[i], Triggers[k], repo, HasCall(job.part), HasAnswer(job.part))
      BY DEF Fires, InScope, Unbound
    <3> QED
      BY <1>2, <1>4, <2>3, <3>1 DEF Marks
  <2> QED
    BY <1>1, <2>2, <2>3
<1> QED
  BY <1>3, <1>6, <1>7, <1>8, <1>9 DEF JobOK

LEMMA Places ==
    ASSUME NEW from \in Nat, NEW l \in Nat
    PROVE  /\ \A i \in 1 .. l: from + i \in from + 1 .. from + l
           /\ \A i \in from + 1 .. from + l: i - from \in 1 .. l /\ from + (i - from) = i
  OBVIOUS

\* A part that is through covers its lines.
LEMMA PartCovers ==
    ASSUME NEW job \in Job, NEW msgs \in Seq(LineSet(job.file)), NEW n \in Nat, NEW ends \in SUBSET Nat, NEW repos,
           JobOK(job, msgs, n, ends, repos), job.next > Len(job.part), NEW errors,
           CoveredTo(msgs, ends, errors, job.file), NEW more,
           \A e \in errors: e \in more, \A e \in ToSet(job.found): [e EXCEPT !.line = @ + job.from] \in more
    PROVE  CoveredTo(msgs, ends \cup {n}, more, job.file)
<1>1. /\ job.file \in Files /\ job.part \in Seq(LineSet(job.file)) /\ job.next = Len(job.part) + 1
      /\ job.from \in Nat /\ Len(job.part) \in Nat \ {0} /\ DOMAIN job.part = 1 .. Len(job.part)
      /\ job.from + Len(job.part) = n /\ job.from \in ends \cup {0} /\ ends \subseteq 1 .. job.from
      /\ \A i \in 1 .. Len(job.part): job.part[i] = msgs[job.from + i]
  BY DEF Job, JobOK, PartOK
<1>p. /\ \A i \in 1 .. Len(job.part): job.from + i \in job.from + 1 .. n
      /\ \A i \in job.from + 1 .. n: i - job.from \in 1 .. Len(job.part) /\ job.from + (i - job.from) = i
  BY <1>1, Places
<1>2. \A type: (\E i \in DOMAIN job.part: job.part[i].type = type) <=> TypeIn(msgs, type, job.from, n)
  <2> TAKE type
  <2>1. ASSUME NEW i \in DOMAIN job.part, job.part[i].type = type PROVE TypeIn(msgs, type, job.from, n)
    <3>1. i \in 1 .. Len(job.part)
      BY <1>1
    <3>2. job.from + i \in job.from + 1 .. n
      BY <1>p, <3>1
    <3>3. msgs[job.from + i].type = type
      BY <1>1, <2>1, <3>1
    <3> QED
      BY <3>2, <3>3 DEF TypeIn
  <2>2. ASSUME NEW i \in job.from + 1 .. n, msgs[i].type = type
        PROVE  \E j \in DOMAIN job.part: job.part[j].type = type
    <3>1. i - job.from \in 1 .. Len(job.part) /\ job.from + (i - job.from) = i
      BY <1>p
    <3>2. job.part[i - job.from] = msgs[i]
      BY <1>1, <3>1
    <3> QED
      BY <1>1, <2>2, <3>1, <3>2
  <2> QED
    BY <2>1, <2>2 DEF TypeIn
<1> SUFFICES ASSUME NEW c \in ends \cup {n}, NEW j \in 1 .. c
             PROVE  LineCovered(msgs, ends \cup {n}, more, job.file, j)
  BY DEF CoveredTo
<1>3. CASE j <= job.from
  <2>1. job.from \in ends /\ j \in 1 .. job.from
    BY <1>1, <1>3
  <2>2. LineCovered(msgs, ends, errors, job.file, j)
    BY <2>1 DEF CoveredTo
  <2> QED
    BY <2>2 DEF LineCovered
<1>4. CASE j > job.from
  <2>0. j \in Nat /\ j <= n
    BY <1>1
  <2>1. j - job.from \in 1 .. job.next - 1 /\ job.part[j - job.from] = msgs[j]
    <3>1. j \in job.from + 1 .. n
      BY <1>1, <1>4, <2>0
    <3>2. j - job.from \in 1 .. Len(job.part) /\ job.from + (j - job.from) = j
      BY <1>p, <3>1
    <3>3. job.next - 1 = Len(job.part)
      BY <1>1
    <3>4. job.part[j - job.from] = msgs[job.from + (j - job.from)]
      BY <1>1, <3>2
    <3> QED
      BY <3>2, <3>3, <3>4
  <2>2. ASSUME NEW k \in DOMAIN Triggers, Unbound(k),
               Fires(msgs[j], Triggers[k], None, TypeIn(msgs, "assistant", job.from, n), TypeIn(msgs, "user", job.from, n))
        PROVE  ErrorAt(Triggers[k], j, job.file) \in more
    <3>1. Fires(job.part[j - job.from], Triggers[k], None, HasCall(job.part), HasAnswer(job.part))
      BY <1>2, <2>1, <2>2 DEF Fires, ContentFires, CostFires, HasCall, HasAnswer
    <3>2. ErrorAt(Triggers[k], j - job.from, job.file) \in ToSet(job.found)
      BY <2>1, <2>2, <3>1 DEF JobOK, CompleteOK
    <3>3. [ErrorAt(Triggers[k], j - job.from, job.file) EXCEPT !.line = @ + job.from] = ErrorAt(Triggers[k], j, job.file)
      <4>1. (j - job.from) + job.from = j
        BY <1>1
      <4> QED
        BY <4>1 DEF ErrorAt
    <3> QED
      BY <3>2, <3>3
  <2>3. job.from \in (ends \cup {n}) \cup {0} /\ n \in ends \cup {n}
    BY <1>1
  <2> QED
    BY <1>4, <2>0, <2>2, <2>3 DEF LineCovered
<1> QED
  BY <1>1, <1>3, <1>4
LEMMA GrownJob ==
    ASSUME NEW job \in Job, NEW msgs \in Seq(LineSet(job.file)), NEW m \in LineSet(job.file), NEW n \in Nat,
           n <= Len(msgs), NEW ends, NEW repos, JobOK(job, msgs, n, ends, repos)
    PROVE  JobOK(job, Append(msgs, m), n, ends, repos)
<1>1. job.file \in Files /\ job.from \in Nat /\ Len(job.part) \in Nat /\ Len(msgs) \in Nat
  BY DEF Job
<1>2. PartOK(job, Append(msgs, m), n, ends)
  <2>1. \A i \in 1 .. Len(job.part): Append(msgs, m)[job.from + i] = msgs[job.from + i]
    BY <1>1 DEF JobOK, PartOK
  <2> QED
    BY <2>1 DEF JobOK, PartOK
<1>3. TrueOK(job, Append(msgs, m))
  BY <1>1, GrownTrue DEF JobOK, TrueOK
<1> QED
  BY <1>2, <1>3 DEF JobOK

\* The job after another one of its project has changed the table.
LEMMA DisturbedJob ==
    ASSUME NEW job \in Job, NEW msgs, NEW n, NEW ends, NEW repos, NEW repos2, JobOK(job, msgs, n, ends, repos)
    PROVE  /\ [job EXCEPT !.disturbed = TRUE] \in Job
           /\ [job EXCEPT !.disturbed = TRUE].file = job.file
           /\ JobOK([job EXCEPT !.disturbed = TRUE], msgs, n, ends, repos2)
<1> DEFINE job2 == [job EXCEPT !.disturbed = TRUE]
<1>1. /\ job2.file = job.file /\ job2.part = job.part /\ job2.from = job.from /\ job2.next = job.next
      /\ job2.found = job.found /\ job2.disturbed = TRUE /\ job2 \in Job
  BY DEF Job
<1> HIDE DEF job2
<1>2. PartOK(job2, msgs, n, ends) /\ TrueOK(job2, msgs) /\ CompleteOK(job2) /\ ScopeOK(job2, repos2)
  BY <1>1 DEF JobOK, PartOK, TrueOK, CompleteOK, ScopeOK
<1> QED
  BY <1>1, <1>2 DEF JobOK, job2

LEMMA NextJob ==
    ASSUME NEW job \in Job, NEW n \in Nat, NEW list \in Seq(Found)
    PROVE  [job EXCEPT !.next = n, !.found = list] \in Job
  BY DEF Job

LEMMA OtherProject ==
    ASSUME NEW job, NEW msgs, NEW n, NEW ends, NEW repos, NEW repos2, JobOK(job, msgs, n, ends, repos),
           repos2[ProjectOf(job.file)] = repos[ProjectOf(job.file)]
    PROVE  JobOK(job, msgs, n, ends, repos2)
  BY DEF JobOK, ScopeOK

\* A job at its start.
\* A job that begins at what is left of its file.
IsFresh(job, f, msgs, n, repos) ==
    /\ job.file = f /\ job.part \in Seq(LineSet(f)) /\ Len(job.part) = Len(msgs) - n
    /\ \A i \in 1 .. Len(msgs) - n: job.part[i] = msgs[n + i]
    /\ job.from = n /\ job.next = 1 /\ job.found = <<>>
    /\ repos[ProjectOf(f)] = RepoOf[CwdHint(job.part, ProjectOf(f))]

LEMMA StartedJob ==
    ASSUME NEW f \in Files, NEW msgs \in Seq(LineSet(f)), NEW n \in Nat, n < Len(msgs),
           NEW ends \in SUBSET Nat, ends \subseteq 1 .. n, n \in ends \cup {0}, NEW repos, NEW job,
           IsFresh(job, f, msgs, n, repos)
    PROVE  JobOK(job, msgs, Len(msgs), ends, repos)
<1>1. Len(msgs) \in Nat /\ ToSet(job.found) = {}
  BY DEF ToSet, IsFresh
<1>2. PartOK(job, msgs, Len(msgs), ends)
  BY <1>1 DEF PartOK, IsFresh
<1>3. ScopeOK(job, repos) /\ TrueOK(job, msgs) /\ CompleteOK(job)
  BY <1>1 DEF ScopeOK, TrueOK, CompleteOK, Hint, IsFresh
<1> QED
  BY <1>2, <1>3 DEF JobOK

-----------------------------------------------------------------------------
(* The steps. *)

LEMMA DetectorStarts == DetectorInit => DetectorInv
<1> SUFFICES ASSUME DetectorInit PROVE DetectorInv
  OBVIOUS
<1>1. DetectorTypeOK
  BY DEF DetectorInit, DetectorTypeOK
<1>2. \A f \in Files: FileOK(f, files[f], read[f], cuts[f]) /\ read[f] = 0 /\ cuts[f] = {}
  BY DEF DetectorInit, FileOK
<1>3. \A w \in Workers: live[w] = <<>>
  BY DEF DetectorInit
<1>4. detected = {}
  BY DEF DetectorInit
<1> QED
  BY <1>1, <1>2, <1>3, <1>4 DEF DetectorInv, CoveredTo

GrowsBy(f, m) ==
    /\ files' = [files EXCEPT ![f] = Append(files[f], m)]
    /\ m.type = "assistant" <=> files[f] = <<>>

LEMMA AppendedLine ==
    ASSUME NEW f \in Files, DetectorInv, Appends(f)
    PROVE  \E m \in LineSet(f): GrowsBy(f, m)
<1> DEFINE call == \E i \in DOMAIN files[f]: files[f][i].type = "assistant"
<1>0. files[f] \in Seq(LineSet(f)) /\ \A i \in DOMAIN files[f]: files[f][i].type = "assistant" <=> i = 1
  BY DEF DetectorInv, FileOK
<1>1. call <=> files[f] # <<>>
  BY <1>0
<1>2. PICK cwd \in Cwds[f]:
        \E l \in IF call THEN {AnswerLine(f, x, cwd) : x \in Results[f]} ELSE {CallLine(f, x, cwd) : x \in Uses[f]}:
            files' = [files EXCEPT ![f] = Append(@, MessageOf(l))]
  BY DEF Appends, CallLine, AnswerLine
<1> HIDE DEF call
<1>3. CASE call
  <2>1. PICK x \in Results[f]: files' = [files EXCEPT ![f] = Append(@, MessageOf(AnswerLine(f, x, cwd)))]
    BY <1>2, <1>3
  <2>2. IsAnswer(MessageOf(AnswerLine(f, x, cwd)), f)
    BY ErrorDetectorAssumption, AnswerFacts
  <2>3. MessageOf(AnswerLine(f, x, cwd)) \in LineSet(f)
    <3> DEFINE y == <<x, cwd>>
    <3>1. y \in Results[f] \X Cwds[f] /\ y[1] = x /\ y[2] = cwd
      OBVIOUS
    <3> HIDE DEF y
    <3> QED
      BY <3>1 DEF LineSet
  <2> QED
    BY <1>1, <1>3, <2>1, <2>2, <2>3 DEF IsAnswer, GrowsBy
<1>4. CASE ~call
  <2>1. PICK x \in Uses[f]: files' = [files EXCEPT ![f] = Append(@, MessageOf(CallLine(f, x, cwd)))]
    BY <1>2, <1>4
  <2>2. IsCall(MessageOf(CallLine(f, x, cwd)), f)
    BY ErrorDetectorAssumption, CallFacts
  <2>3. MessageOf(CallLine(f, x, cwd)) \in LineSet(f)
    <3> DEFINE y == <<x, cwd>>
    <3>1. y \in Uses[f] \X Cwds[f] /\ y[1] = x /\ y[2] = cwd
      OBVIOUS
    <3> HIDE DEF y
    <3> QED
      BY <3>1 DEF LineSet
  <2> QED
    BY <1>1, <1>4, <2>1, <2>2, <2>3 DEF IsCall, GrowsBy
<1> QED
  BY <1>3, <1>4
\* What the invariant says of one file, of one worker and of one error.
FileFacts(f) ==
    /\ files[f] \in Seq(LineSet(f)) /\ Len(files[f]) \in Nat
    /\ \A i \in DOMAIN files[f]: files[f][i].type = "assistant" <=> i = 1
    /\ read[f] \in Nat /\ read[f] <= Len(files[f])
    /\ cuts[f] \in SUBSET Nat /\ cuts[f] \subseteq 1 .. read[f]
    /\ CoveredTo(files[f], cuts[f], ErrorsIn(detected, f), f)
    /\ Detecting(f) \/ read[f] \in cuts[f] \cup {0}

JobFacts(job) ==
    /\ job \in Job /\ job.file \in Files /\ FileFacts(job.file)
    /\ JobOK(job, files[job.file], read[job.file], cuts[job.file], table)

ReportFacts(r) == r \in Report /\ r.file \in Files /\ ReportOK(r, files[r.file]) /\ FileFacts(r.file)

LEMMA FileInv ==
    ASSUME DetectorInv, NEW f \in Files
    PROVE  FileFacts(f)
<1>1. FileOK(f, files[f], read[f], cuts[f]) /\ read[f] \in Nat /\ cuts[f] \in SUBSET Nat
  BY DEF DetectorInv, DetectorTypeOK
<1>2. CoveredTo(files[f], cuts[f], ErrorsIn(detected, f), f) /\ (Detecting(f) \/ read[f] \in cuts[f] \cup {0})
  BY DEF DetectorInv
<1> QED
  BY <1>1, <1>2 DEF FileFacts, FileOK

LEMMA JobInv ==
    ASSUME DetectorInv, NEW w \in Workers, live[w] # <<>>
    PROVE  JobFacts(live[w][1])
<1>1. live[w][1] \in Job
  BY DEF DetectorInv, DetectorTypeOK
<1> DEFINE job == live[w][1]
<1>2. job.file \in Files
  BY <1>1 DEF Job
<1>3. JobOK(job, files[job.file], read[job.file], cuts[job.file], table)
  BY DEF DetectorInv
<1>4. FileFacts(job.file)
  BY <1>2, FileInv
<1> QED
  BY <1>1, <1>2, <1>3, <1>4 DEF JobFacts

LEMMA ReportInv ==
    ASSUME DetectorInv, NEW r \in detected
    PROVE  ReportFacts(r)
<1>1. r \in Report
  BY DEF DetectorInv, DetectorTypeOK
<1>2. r.file \in Files
  BY <1>1 DEF Report
<1>3. ReportOK(r, files[r.file])
  BY DEF DetectorInv
<1> QED
  BY <1>1, <1>2, <1>3, FileInv DEF ReportFacts

LEMMA AppendsKeeps ==
    ASSUME DetectorInv, NEW f \in Files, Appends(f)
    PROVE  DetectorInv'
<1>9. PICK m \in LineSet(f): GrowsBy(f, m)
  BY AppendedLine
<1>1. /\ files' = [files EXCEPT ![f] = Append(files[f], m)]
      /\ m.type = "assistant" <=> files[f] = <<>>
  BY <1>9 DEF GrowsBy
<1>2. UNCHANGED <<table, live, read, cuts, detected, test>>
  BY DEF Appends
<1>3. /\ files'[f] = Append(files[f], m) /\ \A g \in Files: g # f => files'[g] = files[g]
  BY <1>1 DEF DetectorInv, DetectorTypeOK
<1>4. DetectorTypeOK'
  <2>1. m \in AnyLine
    BY DEF AnyLine
  <2> QED
    BY <1>1, <1>2, <2>1 DEF DetectorInv, DetectorTypeOK
<1>5. \A g \in Files: FileOK(g, files[g], read[g], cuts[g])'
  <2> SUFFICES ASSUME NEW g \in Files PROVE FileOK(g, files'[g], read[g], cuts[g])
    BY <1>2
  <2>1. CASE g # f
    BY <1>3, <2>1 DEF DetectorInv
  <2>2. CASE g = f
    <3>1. FileOK(f, files[f], read[f], cuts[f]) /\ read[f] \in Nat
      BY DEF DetectorInv, DetectorTypeOK
    <3>2. /\ Append(files[f], m) \in Seq(LineSet(f)) /\ Len(Append(files[f], m)) = Len(files[f]) + 1
          /\ Len(files[f]) \in Nat /\ DOMAIN files[f] = 1 .. Len(files[f])
      BY <3>1 DEF FileOK
    <3>3. \A i \in DOMAIN Append(files[f], m): Append(files[f], m)[i].type = "assistant" <=> i = 1
      <4> TAKE i \in DOMAIN Append(files[f], m)
      <4>1. CASE i \in DOMAIN files[f]
        BY <3>1, <3>2, <4>1 DEF FileOK
      <4>2. CASE i = Len(files[f]) + 1
        <5>1. Append(files[f], m)[i] = m
          BY <3>2, <4>2
        <5>2. files[f] = <<>> <=> i = 1
          BY <3>1, <3>2, <4>2 DEF FileOK
        <5> QED
          BY <1>1, <5>1, <5>2
      <4> QED
        BY <3>2, <4>1, <4>2
    <3> DEFINE more == Append(files[f], m)
    <3>4. FileOK(f, more, read[f], cuts[f])
      <4> HIDE DEF more
      <4>1. more \in Seq(LineSet(f)) /\ Len(more) = Len(files[f]) + 1
        BY <3>2 DEF more
      <4>2. \A i \in DOMAIN more: more[i].type = "assistant" <=> i = 1
        BY <3>3 DEF more
      <4>3. read[f] <= Len(files[f]) /\ cuts[f] \subseteq 1 .. read[f]
        BY <3>1 DEF FileOK
      <4> QED
        BY <3>1, <3>2, <4>1, <4>2, <4>3 DEF FileOK
    <3> QED
      BY <1>3, <2>2, <3>4
  <2> QED
    BY <2>1, <2>2
<1>6. \A w \in Workers: live[w] # <<>> =>
        JobOK(live[w][1], files'[live[w][1].file], read[live[w][1].file], cuts[live[w][1].file], table)
  <2> TAKE w \in Workers
  <2> HAVE live[w] # <<>>
  <2>1. /\ live[w][1] \in Job /\ live[w][1].file \in Files
        /\ JobOK(live[w][1], files[live[w][1].file], read[live[w][1].file], cuts[live[w][1].file], table)
    BY JobInv DEF JobFacts
  <2>2. CASE live[w][1].file # f
    BY <1>3, <2>1, <2>2
  <2>3. CASE live[w][1].file = f
    <3>1. files[f] \in Seq(LineSet(f)) /\ read[f] \in Nat /\ read[f] <= Len(files[f])
      BY FileInv DEF FileFacts
    <3> QED
      BY <1>3, <2>1, <2>3, <3>1, GrownJob
  <2> QED
    BY <2>2, <2>3
<1>7. \A r \in detected: ReportOK(r, files'[r.file])
  <2> TAKE r \in detected
  <2>1. r.file \in Files /\ ReportOK(r, files[r.file]) /\ files[r.file] \in Seq(LineSet(r.file))
    BY ReportInv DEF ReportFacts, FileFacts
  <2>2. CASE r.file = f
    BY <1>3, <2>1, <2>2, GrownTrue DEF ReportOK
  <2> QED
    BY <1>3, <2>1, <2>2
<1>8. \A g \in Files: CoveredTo(files'[g], cuts[g], ErrorsIn(detected, g), g)
  <2> TAKE g \in Files
  <2>1. CoveredTo(files[g], cuts[g], ErrorsIn(detected, g), g)
    BY FileInv DEF FileFacts
  <2>2. CASE g = f
    <3>1. files[f] \in Seq(LineSet(f)) /\ cuts[f] \in SUBSET (1 .. Len(files[f]))
      BY FileInv DEF FileFacts
    <3> QED
      BY <1>3, <2>1, <2>2, <3>1, GrownCovered
  <2> QED
    BY <1>3, <2>1, <2>2
<1> QED
  BY <1>2, <1>4, <1>5, <1>6, <1>7, <1>8 DEF DetectorInv, Detecting

LEMMA ChecksNextKeeps ==
    ASSUME DetectorInv, NEW w \in Workers, ChecksNext(w)
    PROVE  DetectorInv'
<1> DEFINE job == live[w][1]
           f == job.file
           new == CheckMessage(job.part, job.next, Triggers, table[ProjectOf(f)])
           job2 == [job EXCEPT !.next = job.next + 1, !.found = job.found \o new]
<1>1. /\ live[w] # <<>> /\ job.next <= Len(job.part) /\ live' = [live EXCEPT ![w] = <<job2>>]
      /\ UNCHANGED <<files, table, read, cuts, detected, test>>
  BY DEF ChecksNext
<1>2. /\ job \in Job /\ f \in Files /\ files[f] \in Seq(LineSet(f)) /\ read[f] \in Nat /\ read[f] <= Len(files[f])
      /\ JobOK(job, files[f], read[f], cuts[f], table)
  BY <1>1, JobInv DEF JobFacts, FileFacts
<1>3. IsNext(job2, job, new)
  <2>1. job \in [file: Files, part: Seq(AnyLine), from: Nat, next: Nat, found: Seq(Found), disturbed: BOOLEAN]
    BY <1>2 DEF Job
  <2> HIDE DEF job, new
  <2>2. /\ job2.file = job.file /\ job2.part = job.part /\ job2.from = job.from /\ job2.next = job.next + 1
        /\ job2.found = job.found \o new /\ job2.disturbed = job.disturbed
    BY <2>1
  <2>3. job.found \o new \in Seq(Found) => job2 \in Job
    <3> DEFINE list == job.found \o new
    <3> DEFINE n == job.next + 1
    <3>2. job \in Job /\ n \in Nat
      BY <2>1 DEF Job
    <3>4. job2 = [job EXCEPT !.next = n, !.found = list]
      OBVIOUS
    <3> HIDE DEF list, job2, n
    <3>3. list \in Seq(Found) => job2 \in Job
      BY <3>2, <3>4, NextJob
    <3> QED
      BY <3>3 DEF list
  <2> QED
    BY <2>2, <2>3 DEF IsNext
<1>4. job2 \in Job /\ job2.file = f /\ JobOK(job2, files[f], read[f], cuts[f], table)
  <2>1. job2.file = f
    BY <1>3 DEF IsNext
  <2> HIDE DEF job2, job
  <2> QED
    BY <1>1, <1>2, <1>3, <2>1, CheckedJob
<1> HIDE DEF job2, new
<1>5. /\ live' \in [Workers -> Seq(Job)] /\ live'[w] = <<job2>> /\ live'[w] # <<>> /\ live'[w][1] = job2
      /\ \A v \in Workers: v # w => live'[v] = live[v]
  BY <1>1, <1>4 DEF DetectorInv, DetectorTypeOK
<1>6. DetectorTypeOK'
  BY <1>1, <1>5 DEF DetectorInv, DetectorTypeOK
<1>7. \A v \in Workers: /\ live'[v] # <<>> <=> live[v] # <<>>
                        /\ live[v] # <<>> => live'[v][1].file = live[v][1].file
  BY <1>1, <1>4, <1>5
<1>8. \A v \in Workers: live'[v] # <<>> =>
        JobOK(live'[v][1], files[live'[v][1].file], read[live'[v][1].file], cuts[live'[v][1].file], table)
  <2> TAKE v \in Workers
  <2> HAVE live'[v] # <<>>
  <2>1. CASE v = w
    BY <1>4, <1>5, <2>1
  <2>2. CASE v # w
    BY <1>5, <2>2, JobInv DEF JobFacts
  <2> QED
    BY <2>1, <2>2
<1>9. \A g \in Files: Detecting(g)' <=> Detecting(g)
  BY <1>7 DEF Detecting
<1> QED
  BY <1>1, <1>6, <1>7, <1>8, <1>9 DEF DetectorInv
\* What a job reports of an error it found.
ReportOf(job, e) ==
    [file |-> job.file, error |-> [e EXCEPT !.line = @ + job.from], cwd |-> Hint(job),
     disturbed |-> job.disturbed]

LEMMA ReportedError ==
    ASSUME NEW job \in Job, NEW msgs, NEW n, NEW ends, NEW repos, JobOK(job, msgs, n, ends, repos),
           NEW e \in ToSet(job.found)
    PROVE  ReportOf(job, e) \in Report /\ ReportOf(job, e).file = job.file /\ ReportOK(ReportOf(job, e), msgs)
<1> DEFINE x == [e EXCEPT !.line = @ + job.from]
           r == ReportOf(job, e)
<1>1. /\ job.file \in Files /\ job.from \in Nat /\ job.found \in Seq(Found) /\ job.disturbed \in BOOLEAN
      /\ job.part \in Seq(LineSet(job.file))
  BY DEF Job, JobOK, PartOK
<1>2. e \in Found
  BY <1>1 DEF ToSet
<1>3. x \in Found /\ x.line = e.line + job.from /\ x.trigger = e.trigger /\ x.tool = e.tool
  BY <1>1, <1>2 DEF Found
<1> HIDE DEF x
<1>4. r.file = job.file /\ r.error = x /\ r.cwd = Hint(job) /\ r.disturbed = job.disturbed
  BY DEF ReportOf, x
<1>5. Hint(job) \in DOMAIN RepoOf
  BY <1>1, HintIsKnown DEF Hint
<1>6. r \in Report
  BY <1>1, <1>3, <1>5 DEF Report, ReportOf, x
<1> HIDE DEF r
<1>7. IsTrue(msgs, r.file, r.error.line, r.error)
  <2>1. IsTrue(msgs, job.file, e.line + job.from, e)
    BY DEF JobOK, TrueOK
  <2> QED
    BY <1>3, <1>4, <2>1 DEF IsTrue
<1>8. ~r.disturbed => ScopedTo(r.error, RepoOf[r.cwd])
  <2>1. ~job.disturbed => ScopedTo(e, RepoOf[Hint(job)])
    BY DEF JobOK, ScopeOK
  <2> QED
    BY <1>3, <1>4, <2>1 DEF ScopedTo
<1> QED
  BY <1>4, <1>6, <1>7, <1>8 DEF ReportOK, r

LEMMA ReportsKeeps ==
    ASSUME DetectorInv, NEW w \in Workers, Reports(w)
    PROVE  DetectorInv'
<1> DEFINE job == live[w][1]
           f == job.file
           new == {ReportOf(job, e) : e \in ToSet(job.found)}
<1>1. /\ live[w] # <<>> /\ job.next > Len(job.part) /\ live' = [live EXCEPT ![w] = <<>>]
      /\ cuts' = [cuts EXCEPT ![f] = cuts[f] \cup {job.from + Len(job.part)}]
      /\ UNCHANGED <<files, table, read, test>>
  BY DEF Reports
<1>2. detected' = detected \cup new
  BY DEF Reports, ReportOf, Hint, ToSet
<1>3. JobFacts(job)
  BY <1>1, JobInv
<1>4. /\ job \in Job /\ f \in Files /\ files[f] \in Seq(LineSet(f)) /\ read[f] \in Nat
      /\ read[f] <= Len(files[f]) /\ cuts[f] \in SUBSET Nat /\ cuts[f] \subseteq 1 .. read[f]
      /\ JobOK(job, files[f], read[f], cuts[f], table)
      /\ CoveredTo(files[f], cuts[f], ErrorsIn(detected, f), f)
  BY <1>3 DEF JobFacts, FileFacts
<1>5. job.from + Len(job.part) = read[f] /\ read[f] >= 1
  <2>1. job.from \in Nat /\ job.part \in Seq(AnyLine)
    BY <1>4 DEF Job
  <2>2. Len(job.part) > 0 /\ job.from + Len(job.part) = read[f]
    BY <1>4 DEF JobOK, PartOK
  <2> QED
    BY <2>1, <2>2
<1> HIDE DEF new
<1>6. \A r \in new: r \in Report /\ r.file = f /\ ReportOK(r, files[f])
  <2> HIDE DEF job
  <2> QED
    BY <1>4, ReportedError DEF new
<1>7. /\ cuts'[f] = cuts[f] \cup {read[f]} /\ \A g \in Files: g # f => cuts'[g] = cuts[g]
      /\ live'[w] = <<>> /\ \A v \in Workers: v # w => live'[v] = live[v]
  BY <1>1, <1>4, <1>5 DEF DetectorInv, DetectorTypeOK
<1>8. DetectorTypeOK'
  <2>1. cuts' \in [Files -> SUBSET Nat]
    BY <1>1, <1>4, <1>5 DEF DetectorInv, DetectorTypeOK
  <2>2. live' \in [Workers -> Seq(Job)]
    BY <1>1 DEF DetectorInv, DetectorTypeOK
  <2>3. detected' \in SUBSET Report
    BY <1>2, <1>6 DEF DetectorInv, DetectorTypeOK
  <2> QED
    BY <1>1, <2>1, <2>2, <2>3 DEF DetectorInv, DetectorTypeOK
<1>9. \A g \in Files: FileOK(g, files[g], read[g], cuts'[g])
  <2> TAKE g \in Files
  <2>1. FileOK(g, files[g], read[g], cuts[g])
    BY DEF DetectorInv
  <2>2. CASE g = f
    <3>1. cuts'[f] \subseteq 1 .. read[f]
      <4>1. read[f] \in 1 .. read[f] /\ cuts[f] \subseteq 1 .. read[f]
        BY <1>4, <1>5
      <4> QED
        BY <1>7, <4>1
    <3> QED
      BY <2>1, <2>2, <3>1 DEF FileOK
  <2>3. CASE g # f
    BY <1>7, <2>1, <2>3
  <2> QED
    BY <2>2, <2>3
<1>10. \A v \in Workers: live'[v] # <<>> =>
         /\ live'[v] = live[v] /\ live'[v][1].file # f
         /\ JobOK(live'[v][1], files[live'[v][1].file], read[live'[v][1].file], cuts'[live'[v][1].file], table)
  <2> TAKE v \in Workers
  <2> HAVE live'[v] # <<>>
  <2>1. v # w /\ live'[v] = live[v] /\ live[v] # <<>>
    BY <1>7
  <2>2. live[v][1].file # f
    BY <1>1, <2>1 DEF DetectorInv
  <2>3. JobFacts(live[v][1])
    BY <2>1, JobInv
  <2> QED
    BY <1>7, <2>1, <2>2, <2>3 DEF JobFacts
<1>11. \A g \in Files: Detecting(g)' \/ read[g] \in cuts'[g] \cup {0}
  <2> TAKE g \in Files
  <2>1. CASE g = f
    BY <1>7, <2>1
  <2>2. CASE g # f
    <3>1. Detecting(g) \/ read[g] \in cuts[g] \cup {0}
      BY DEF DetectorInv
    <3>2. ASSUME Detecting(g) PROVE Detecting(g)'
      <4>1. PICK v \in Workers: live[v] # <<>> /\ live[v][1].file = g
        BY <3>2 DEF Detecting
      <4>2. v # w
        BY <2>2, <4>1
      <4> QED
        BY <1>7, <4>1, <4>2 DEF Detecting
    <3> QED
      BY <1>7, <2>2, <3>1, <3>2
  <2> QED
    BY <2>1, <2>2
<1>12. \A r \in detected': ReportOK(r, files[r.file])
  BY <1>2, <1>6 DEF DetectorInv
<1>13. \A g \in Files: CoveredTo(files[g], cuts'[g], ErrorsIn(detected', g), g)
  <2> TAKE g \in Files
  <2>1. \A e \in ErrorsIn(detected, g): e \in ErrorsIn(detected', g)
    BY <1>2 DEF ErrorsIn
  <2>2. CASE g = f
    <3>1. \A e \in ToSet(job.found): [e EXCEPT !.line = @ + job.from] \in ErrorsIn(detected', f)
      <4> TAKE e \in ToSet(job.found)
      <4>1. ReportOf(job, e) \in detected'
        BY <1>2 DEF new
      <4>2. ReportOf(job, e).file = f /\ ReportOf(job, e).error = [e EXCEPT !.line = @ + job.from]
        BY DEF ReportOf
      <4> QED
        BY <4>1, <4>2 DEF ErrorsIn
    <3> DEFINE more == ErrorsIn(detected', f)
    <3>2. \A e \in ErrorsIn(detected, f): e \in more
      BY <2>1, <2>2
    <3>3. \A e \in ToSet(job.found): [e EXCEPT !.line = @ + job.from] \in more
      BY <3>1
    <3> HIDE DEF more, job
    <3>4. CoveredTo(files[f], cuts[f] \cup {read[f]}, more, f)
      BY <1>1, <1>4, <3>2, <3>3, PartCovers
    <3> QED
      BY <1>7, <2>2, <3>4 DEF more
  <2>3. CASE g # f
    <3>1. CoveredTo(files[g], cuts[g], ErrorsIn(detected, g), g)
      BY DEF DetectorInv
    <3> QED
      BY <1>7, <2>1, <2>3, <3>1 DEF CoveredTo, LineCovered
  <2> QED
    BY <2>2, <2>3
<1>14. \A u, v \in Workers: u # v /\ live'[u] # <<>> /\ live'[v] # <<>> => live'[u][1].file # live'[v][1].file
  BY <1>10 DEF DetectorInv
<1> QED
  BY <1>1, <1>8, <1>9, <1>10, <1>11, <1>12, <1>13, <1>14 DEF DetectorInv
\* What a worker runs after the repository of a project was looked up.
Marked(v, project) ==
    IF live[v] # <<>> /\ ProjectOf(live[v][1].file) = project
    THEN <<[live[v][1] EXCEPT !.disturbed = TRUE]>> ELSE live[v]

LEMMA MarkedWorker ==
    ASSUME DetectorInv, NEW v \in Workers, NEW project, NEW repos,
           \A q \in ProjectSet: q # project => repos[q] = table[q]
    PROVE  /\ Marked(v, project) \in Seq(Job)
           /\ Marked(v, project) # <<>> <=> live[v] # <<>>
           /\ live[v] # <<>> =>
                 /\ Marked(v, project)[1].file = live[v][1].file
                 /\ JobOK(Marked(v, project)[1], files[live[v][1].file], read[live[v][1].file],
                          cuts[live[v][1].file], repos)
<1> DEFINE job == live[v][1]
           job2 == [job EXCEPT !.disturbed = TRUE]
<1>0. live[v] \in Seq(Job)
  BY DEF DetectorInv, DetectorTypeOK
<1>1. CASE live[v] = <<>>
  BY <1>0, <1>1 DEF Marked
<1>2. CASE live[v] # <<>> /\ ProjectOf(job.file) = project
  <2>1. JobFacts(job)
    BY <1>2, JobInv
  <2>2. job2 \in Job /\ job2.file = job.file
        /\ JobOK(job2, files[job.file], read[job.file], cuts[job.file], repos)
    <3>1. job \in Job /\ JobOK(job, files[job.file], read[job.file], cuts[job.file], table)
      BY <2>1 DEF JobFacts
    <3> HIDE DEF job
    <3> QED
      BY <3>1, DisturbedJob
  <2>3. Marked(v, project) = <<job2>>
    BY <1>2 DEF Marked
  <2> HIDE DEF job2, job
  <2> QED
    BY <1>2, <2>2, <2>3 DEF job
<1>3. CASE live[v] # <<>> /\ ProjectOf(job.file) # project
  <2>1. JobFacts(job)
    BY <1>3, JobInv
  <2>2. JobOK(job, files[job.file], read[job.file], cuts[job.file], repos)
    <3>1. JobOK(job, files[job.file], read[job.file], cuts[job.file], table)
      BY <2>1 DEF JobFacts
    <3>2. repos[ProjectOf(job.file)] = table[ProjectOf(job.file)]
      BY <1>3, <2>1, ProjectIsKnown DEF JobFacts
    <3> HIDE DEF job
    <3> QED
      BY <3>1, <3>2, OtherProject
  <2>3. Marked(v, project) = live[v]
    BY <1>3 DEF Marked
  <2> QED
    BY <1>0, <1>3, <2>2, <2>3
<1> QED
  BY <1>1, <1>2, <1>3

LEMMA RestOfFile ==
    ASSUME NEW f \in Files, NEW msgs \in Seq(LineSet(f)), NEW n \in Nat, n <= Len(msgs)
    PROVE  /\ SubSeq(msgs, n + 1, Len(msgs)) \in Seq(LineSet(f))
           /\ SubSeq(msgs, n + 1, Len(msgs)) \in Seq(AnyLine)
           /\ Len(SubSeq(msgs, n + 1, Len(msgs))) = Len(msgs) - n
           /\ \A i \in 1 .. Len(msgs) - n: SubSeq(msgs, n + 1, Len(msgs))[i] = msgs[n + i]
<1> DEFINE part == SubSeq(msgs, n + 1, Len(msgs))
<1>1. Len(msgs) \in Nat
  OBVIOUS
<1>2. part \in Seq(LineSet(f)) /\ Len(part) = Len(msgs) - n
      /\ \A i \in 1 .. Len(msgs) - n: part[i] = msgs[n + i]
  BY RestOfList
<1>3. LineSet(f) \subseteq AnyLine
  BY DEF AnyLine
<1> HIDE DEF part
<1>4. part \in Seq(AnyLine)
  BY <1>2, <1>3, WiderList
<1> QED
  BY <1>2, <1>4 DEF part

NewJob(f, disturbed) ==
    [file |-> f, part |-> SubSeq(files[f], read[f] + 1, Len(files[f])), from |-> read[f], next |-> 1,
     found |-> <<>>, disturbed |-> disturbed]

LEMMA NewJobOK ==
    ASSUME DetectorInv, NEW f \in Files, ~Detecting(f), read[f] < Len(files[f]), NEW flag \in BOOLEAN,
           NEW repos, repos[ProjectOf(f)] =
                        RepoOf[CwdHint(SubSeq(files[f], read[f] + 1, Len(files[f])), ProjectOf(f))]
    PROVE  /\ NewJob(f, flag) \in Job /\ NewJob(f, flag).file = f
           /\ JobOK(NewJob(f, flag), files[f], Len(files[f]), cuts[f], repos)
<1> DEFINE job == NewJob(f, flag)
           part == SubSeq(files[f], read[f] + 1, Len(files[f]))
<1>1. /\ files[f] \in Seq(LineSet(f)) /\ read[f] \in Nat /\ Len(files[f]) \in Nat /\ read[f] <= Len(files[f])
      /\ cuts[f] \in SUBSET Nat /\ cuts[f] \subseteq 1 .. read[f] /\ read[f] \in cuts[f] \cup {0}
  BY FileInv DEF FileFacts
<1>2. /\ part \in Seq(LineSet(f)) /\ part \in Seq(AnyLine) /\ Len(part) = Len(files[f]) - read[f]
      /\ \A i \in 1 .. Len(files[f]) - read[f]: part[i] = files[f][read[f] + i]
  BY <1>1, RestOfFile
<1>3. repos[ProjectOf(f)] = RepoOf[CwdHint(part, ProjectOf(f))]
  OBVIOUS
<1> HIDE DEF part
<1>4. /\ job.file = f /\ job.part = part /\ job.from = read[f] /\ job.next = 1 /\ job.found = <<>>
      /\ job.disturbed = flag
  BY DEF NewJob, part
<1>5. job \in Job
  BY <1>1, <1>2 DEF Job, NewJob, part
<1> HIDE DEF job
<1>6. JobOK(job, files[f], Len(files[f]), cuts[f], repos)
  <2>1. IsFresh(job, f, files[f], read[f], repos)
    BY <1>2, <1>3, <1>4 DEF IsFresh
  <2> QED
    BY <1>1, <2>1, StartedJob
<1> QED
  BY <1>4, <1>5, <1>6 DEF job
LEMMA LookedUp ==
    ASSUME DetectorTypeOK, NEW project, NEW cwd, project \in ProjectSet => cwd \in DOMAIN RepoOf,
           PreResolve(project, cwd)
    PROVE  /\ table' \in [ProjectSet -> {"unknown"} \cup Listing(RepoOf)]
           /\ \A q \in ProjectSet: q # project => table'[q] = table[q]
           /\ project \in ProjectSet => table'[project] = RepoOf[cwd]
<1>1. table' = [table EXCEPT ![project] = RepoOf[cwd]] /\ table \in [ProjectSet -> {"unknown"} \cup Listing(RepoOf)]
  BY DEF PreResolve, DetectorTypeOK
<1>2. CASE project \in ProjectSet
  <2>1. RepoOf[cwd] \in Listing(RepoOf)
    BY <1>2 DEF Listing
  <2> QED
    BY <1>1, <1>2, <2>1
<1>3. CASE project \notin ProjectSet
  BY <1>1, <1>3
<1> QED
  BY <1>2, <1>3

LEMMA RunTestKeeps ==
    ASSUME DetectorInv, RunTest, ~UNCHANGED <<files, table, live, read, cuts, detected>>
    PROVE  DetectorInv'
<1> DEFINE n == test[1].project + 1
           project == Projects[n]
<1>1. /\ PreResolve(project, PathOf[project])
      /\ live' = [v \in Workers |-> Marked(v, project)]
      /\ UNCHANGED <<files, read, cuts, detected>>
  BY DEF RunTest, Stops, Marked
<1> HIDE DEF project
<1>2. DetectorTypeOK
  BY DEF DetectorInv
<1>3. project \in ProjectSet => PathOf[project] \in DOMAIN RepoOf
  BY ErrorDetectorAssumption
<1>4. /\ table' \in [ProjectSet -> {"unknown"} \cup Listing(RepoOf)]
      /\ \A q \in ProjectSet: q # project => table'[q] = table[q]
  BY <1>1, <1>2, <1>3, LookedUp
<1>5. \A v \in Workers:
        /\ live'[v] \in Seq(Job)
        /\ live'[v] # <<>> <=> live[v] # <<>>
        /\ live[v] # <<>> =>
              /\ live'[v][1].file = live[v][1].file
              /\ JobOK(live'[v][1], files[live[v][1].file], read[live[v][1].file], cuts[live[v][1].file], table')
  <2> TAKE v \in Workers
  <2>1. live'[v] = Marked(v, project)
    BY <1>1
  <2> DEFINE repos == table'
  <2>2. \A q \in ProjectSet: q # project => repos[q] = table[q]
    BY <1>4
  <2> HIDE DEF repos
  <2>3. /\ Marked(v, project) \in Seq(Job)
        /\ Marked(v, project) # <<>> <=> live[v] # <<>>
        /\ live[v] # <<>> =>
                 /\ Marked(v, project)[1].file = live[v][1].file
                 /\ JobOK(Marked(v, project)[1], files[live[v][1].file], read[live[v][1].file],
                          cuts[live[v][1].file], repos)
    BY <2>2, MarkedWorker
  <2> QED
    BY <2>1, <2>3 DEF repos
<1>6. DetectorTypeOK'
  <2>1. live' \in [Workers -> Seq(Job)]
    BY <1>1, <1>5
  <2> QED
    BY <1>1, <1>2, <1>4, <2>1 DEF DetectorTypeOK
<1>7. \A g \in Files: Detecting(g)' <=> Detecting(g)
  BY <1>5 DEF Detecting
<1>8. \A v \in Workers: live'[v] # <<>> =>
        JobOK(live'[v][1], files[live'[v][1].file], read[live'[v][1].file], cuts[live'[v][1].file], table')
  BY <1>5
<1>9. \A u, v \in Workers: u # v /\ live'[u] # <<>> /\ live'[v] # <<>> => live'[u][1].file # live'[v][1].file
  BY <1>5 DEF DetectorInv
<1> QED
  BY <1>1, <1>6, <1>7, <1>8, <1>9 DEF DetectorInv

LEMMA DetectKeeps ==
    ASSUME DetectorInv, NEW w \in Workers, NEW f \in Files, Detect(w, f)
    PROVE  DetectorInv'
<1> DEFINE project == ProjectOf(f)
           cwd == CwdHint(SubSeq(files[f], read[f] + 1, Len(files[f])), project)
           flag == Overlapping(project) \/ Tested(project)
           job == NewJob(f, flag)
<1>1. /\ live[w] = <<>> /\ read[f] < Len(files[f])
      /\ \A v \in Workers: live[v] # <<>> => live[v][1].file # f
      /\ PreResolve(project, cwd)
      /\ live' = [v \in Workers |-> IF v = w THEN <<job>> ELSE Marked(v, project)]
      /\ read' = [read EXCEPT ![f] = Len(files[f])]
      /\ UNCHANGED <<files, cuts, detected>>
  BY DEF Detect, Marked, NewJob
<1>2. /\ DetectorTypeOK /\ project \in ProjectSet /\ ~Detecting(f) /\ flag \in BOOLEAN
      /\ FileFacts(f)
  BY <1>1, FileInv, ProjectIsKnown DEF DetectorInv, Detecting, Overlapping, Tested
<1>3. cwd \in DOMAIN RepoOf
  <2>1. SubSeq(files[f], read[f] + 1, Len(files[f])) \in Seq(LineSet(f))
    BY <1>2, RestOfFile DEF FileFacts
  <2> QED
    BY <2>1, HintIsKnown
<1>4. /\ table' \in [ProjectSet -> {"unknown"} \cup Listing(RepoOf)]
      /\ \A q \in ProjectSet: q # project => table'[q] = table[q]
      /\ table'[project] = RepoOf[cwd]
  <2> HIDE DEF cwd, project
  <2> QED
    BY <1>1, <1>2, <1>3, LookedUp
<1> DEFINE repos == table'
<1>5. job \in Job /\ job.file = f /\ JobOK(job, files[f], Len(files[f]), cuts[f], repos)
  <2>1. repos[ProjectOf(f)] = RepoOf[CwdHint(SubSeq(files[f], read[f] + 1, Len(files[f])), ProjectOf(f))]
    BY <1>4
  <2> HIDE DEF repos, flag
  <2> QED
    BY <1>1, <1>2, <2>1, NewJobOK
<1>6. \A v \in Workers \ {w}:
        /\ live'[v] = Marked(v, project) /\ Marked(v, project) \in Seq(Job)
        /\ Marked(v, project) # <<>> <=> live[v] # <<>>
        /\ live[v] # <<>> =>
              /\ Marked(v, project)[1].file = live[v][1].file
              /\ JobOK(Marked(v, project)[1], files[live[v][1].file], read[live[v][1].file],
                       cuts[live[v][1].file], repos)
  <2> TAKE v \in Workers \ {w}
  <2>1. live'[v] = Marked(v, project)
    BY <1>1
  <2>2. \A q \in ProjectSet: q # project => repos[q] = table[q]
    BY <1>4
  <2> HIDE DEF repos, project
  <2> QED
    BY <2>1, <2>2, MarkedWorker
<1> HIDE DEF job, flag, cwd, project
<1>7. live'[w] = <<job>> /\ live'[w] # <<>> /\ live'[w][1] = job
  BY <1>1
<1>8. /\ read'[f] = Len(files[f]) /\ \A g \in Files: g # f => read'[g] = read[g]
  BY <1>1, <1>2 DEF DetectorTypeOK
<1>9. DetectorTypeOK'
  <2>1. \A v \in Workers: live'[v] \in Seq(Job)
    <3> HIDE DEF repos
    <3> TAKE v \in Workers
    <3>1. CASE v = w
      <4>1. <<job>> \in Seq(Job)
        BY <1>5
      <4> QED
        BY <1>7, <3>1, <4>1
    <3>2. CASE v # w
      BY <1>6, <3>2
    <3> QED
      BY <3>1, <3>2
  <2>2. live' \in [Workers -> Seq(Job)]
    BY <1>1, <2>1
  <2>3. read' \in [Files -> Nat]
    BY <1>1, <1>2 DEF DetectorTypeOK, FileFacts
  <2> QED
    BY <1>1, <1>2, <1>4, <2>2, <2>3 DEF DetectorTypeOK
<1>10. \A g \in Files: FileOK(g, files[g], read'[g], cuts[g])
  <2> TAKE g \in Files
  <2>1. FileOK(g, files[g], read[g], cuts[g]) /\ FileFacts(g)
    BY FileInv DEF DetectorInv
  <2>2. CASE g = f
    BY <1>1, <1>8, <2>1, <2>2 DEF FileOK, FileFacts
  <2> QED
    BY <1>8, <2>1, <2>2
<1>11. \A v \in Workers: live'[v] # <<>> =>
         /\ IF v = w THEN live'[v][1].file = f
            ELSE live[v] # <<>> /\ live'[v][1].file = live[v][1].file /\ live[v][1].file # f
         /\ JobOK(live'[v][1], files[live'[v][1].file], read'[live'[v][1].file], cuts[live'[v][1].file], repos)
  <2> TAKE v \in Workers
  <2> HAVE live'[v] # <<>>
  <2>1. CASE v = w
    BY <1>5, <1>7, <1>8, <2>1
  <2>2. CASE v # w
    <3>1. live[v] # <<>> /\ live[v][1].file # f
      BY <1>1, <1>6, <2>2
    <3>2. live[v][1].file \in Files
      BY <3>1, JobInv DEF JobFacts
    <3> QED
      BY <1>6, <1>8, <2>2, <3>1, <3>2
  <2> QED
    BY <2>1, <2>2
<1>12. \A u, v \in Workers: u # v /\ live'[u] # <<>> /\ live'[v] # <<>> => live'[u][1].file # live'[v][1].file
  BY <1>11 DEF DetectorInv
<1>13. \A g \in Files: Detecting(g)' \/ read'[g] \in cuts[g] \cup {0}
  <2> TAKE g \in Files
  <2>1. CASE g = f
    BY <1>5, <1>7, <2>1 DEF Detecting
  <2>2. CASE g # f
    <3>1. Detecting(g) \/ read[g] \in cuts[g] \cup {0}
      BY DEF DetectorInv
    <3>2. ASSUME Detecting(g) PROVE Detecting(g)'
      <4>1. PICK v \in Workers: live[v] # <<>> /\ live[v][1].file = g
        BY <3>2 DEF Detecting
      <4>2. v \in Workers \ {w}
        BY <1>1, <4>1
      <4> QED
        BY <1>6, <4>1, <4>2 DEF Detecting
    <3> QED
      BY <1>8, <2>2, <3>1, <3>2
  <2> QED
    BY <2>1, <2>2
<1> QED
  BY <1>1, <1>9, <1>10, <1>11, <1>12, <1>13 DEF DetectorInv

LEMMA RestKeeps ==
    ASSUME DetectorInv, UNCHANGED <<files, table, live, read, cuts, detected>>
    PROVE  DetectorInv'
  BY DEF DetectorInv, DetectorTypeOK, Detecting

LEMMA DetectorStep == DetectorInv /\ [DetectorNext]_detectorVars => DetectorInv'
<1> SUFFICES ASSUME DetectorInv, [DetectorNext]_detectorVars
             PROVE  DetectorInv'
  OBVIOUS
<1>1. CASE \E f \in Files: Appends(f)
  BY <1>1, AppendsKeeps
<1>2. CASE \E w \in Workers, f \in Files: Detect(w, f)
  BY <1>2, DetectKeeps
<1>3. CASE \E w \in Workers: ChecksNext(w) \/ Reports(w)
  BY <1>3, ChecksNextKeeps, ReportsKeeps
<1>4. CASE StartsTest
  BY <1>4, RestKeeps DEF StartsTest
<1>5. CASE RunTest
  <2>1. CASE UNCHANGED <<files, table, live, read, cuts, detected>>
    BY <2>1, RestKeeps
  <2>2. CASE ~UNCHANGED <<files, table, live, read, cuts, detected>>
    BY <1>5, <2>2, RunTestKeeps
  <2> QED
    BY <2>1, <2>2
<1>6. CASE ProcessSessionFile
  <2>1. UNCHANGED <<files, table, live, read, cuts, detected>>
    BY <1>6 DEF ProcessSessionFile, Stops
  <2> QED
    BY <2>1, RestKeeps
<1>7. CASE UNCHANGED detectorVars
  BY <1>7, RestKeeps DEF detectorVars
<1> QED
  BY <1>1, <1>2, <1>3, <1>4, <1>5, <1>6, <1>7 DEF DetectorNext

LEMMA DetectorInvariant == DetectorSpec => []DetectorInv
<1> QED
  BY DetectorStarts, DetectorStep, PTL DEF DetectorSpec

\* An error of a detection that no other one disturbed is in the scope of its
\* trigger: the repository in the table stays the one the detection looked up.
THEOREM ScopesAreKept == DetectorSpec => []ScopeIsOwn
<1>1. DetectorInv => ScopeIsOwn
  <2> SUFFICES ASSUME DetectorInv, NEW r \in detected, ~r.disturbed, NEW k \in DOMAIN Triggers,
                      Triggers[k].id = r.error.trigger
               PROVE  InScope(Triggers[k], RepoOf[r.cwd])
    BY DEF ScopeIsOwn
  <2>1. ScopedTo(r.error, RepoOf[r.cwd])
    BY ReportInv DEF ReportFacts, ReportOK
  <2> QED
    BY <2>1, TriggerFacts DEF ScopedTo
<1> QED
  BY <1>1, DetectorInvariant, PTL

LEMMA EverywhereElements ==
    /\ Everywhere \in Seq(Listing(Triggers))
    /\ ToSet(Everywhere) = {Triggers[k] : k \in DOMAIN Triggers \cap {l \in DOMAIN Triggers: Triggers[l].repos = {}}}
<1> DEFINE T == Listing(Triggers)
           places == {l \in DOMAIN Triggers: Triggers[l].repos = {}}
<1>1. Triggers \in Seq(T)
  BY ErrorDetectorAssumption
<1>2. Everywhere = Chosen(Triggers, places)
  BY DEF Everywhere
<1> HIDE DEF T, places
<1>3. Chosen(Triggers, places) \in Seq(T)
      /\ ToSet(Chosen(Triggers, places)) = {Triggers[i] : i \in DOMAIN Triggers \cap places}
  BY <1>1, ChosenElements
<1> QED
  BY <1>2, <1>3 DEF T, places

\* What one detection over a whole file finds, trigger by trigger.
LEMMA WholeErrors ==
    ASSUME NEW f \in Files, NEW msgs \in Seq(LineSet(f)), NEW e
    PROVE  e \in ErrorsOf(msgs, Everywhere, None) <=>
             \E k \in DOMAIN Triggers, i \in DOMAIN msgs:
                /\ Unbound(k) /\ e = ErrorAt(Triggers[k], i, f)
                /\ Fires(msgs[i], Triggers[k], None, HasCall(msgs), HasAnswer(msgs))
<1>1. /\ Everywhere \in Seq(Listing(Triggers))
      /\ ToSet(Everywhere) = {Triggers[k] : k \in DOMAIN Triggers \cap {l \in DOMAIN Triggers: Triggers[l].repos = {}}}
  BY EverywhereElements
<1>2. ErrorsOf(msgs, Everywhere, None) = UNION {Marks(f, msgs, i, Everywhere, None) : i \in DOMAIN msgs}
  BY <1>1, LineFacts, FileGives
<1>3. \A t: t \in ToSet(Everywhere) <=> \E m \in DOMAIN Everywhere: t = Everywhere[m]
  BY <1>1 DEF ToSet
<1>4. \A t: t \in ToSet(Everywhere) <=> \E k \in DOMAIN Triggers: Unbound(k) /\ t = Triggers[k]
  BY <1>1 DEF Unbound
<1> DEFINE Hit(t, i) == Fires(msgs[i], t, None, HasCall(msgs), HasAnswer(msgs))
<1>5. e \in ErrorsOf(msgs, Everywhere, None) <=>
        \E i \in DOMAIN msgs, m \in DOMAIN Everywhere: e = ErrorAt(Everywhere[m], i, f) /\ Hit(Everywhere[m], i)
  BY <1>2 DEF Marks
<1> HIDE DEF Hit
<1>6. e \in ErrorsOf(msgs, Everywhere, None) <=>
        \E i \in DOMAIN msgs: \E t \in ToSet(Everywhere): e = ErrorAt(t, i, f) /\ Hit(t, i)
  BY <1>3, <1>5
<1>7. e \in ErrorsOf(msgs, Everywhere, None) <=>
        \E i \in DOMAIN msgs: \E k \in DOMAIN Triggers: Unbound(k) /\ e = ErrorAt(Triggers[k], i, f) /\ Hit(Triggers[k], i)
  BY <1>4, <1>6
<1> QED
  BY <1>7 DEF Hit

LEMMA EverywhereIds ==
    {Everywhere[k].id : k \in DOMAIN Everywhere} = {Triggers[k].id : k \in {l \in DOMAIN Triggers: Unbound(l)}}
<1>1. ToSet(Everywhere) = {Triggers[k] : k \in DOMAIN Triggers \cap {l \in DOMAIN Triggers: Triggers[l].repos = {}}}
  BY EverywhereElements
<1>2. \A t: t \in ToSet(Everywhere) <=> \E m \in DOMAIN Everywhere: t = Everywhere[m]
  BY EverywhereElements DEF ToSet
<1>3. \A t: t \in ToSet(Everywhere) <=> \E k \in DOMAIN Triggers: Unbound(k) /\ t = Triggers[k]
  BY <1>1 DEF Unbound
<1>4. {Everywhere[k].id : k \in DOMAIN Everywhere} = {t.id : t \in ToSet(Everywhere)}
  BY <1>2
<1> QED
  BY <1>3, <1>4

LEMMA PartsAreTrue ==
    ASSUME DetectorInv, NEW f \in Files, NEW e \in ErrorsIn(detected, f), NEW k \in DOMAIN Triggers,
           Unbound(k), e.trigger = Triggers[k].id
    PROVE  e \in ErrorsOf(files[f], Everywhere, None)
<1>1. PICK r \in detected: r.file = f /\ r.error = e
  BY DEF ErrorsIn
<1>2. ReportFacts(r)
  BY ReportInv
<1>3. IsTrue(files[f], f, e.line, e) /\ e \in Found /\ files[f] \in Seq(LineSet(f))
  BY <1>1, <1>2 DEF ReportFacts, ReportOK, Report, FileFacts
<1>4. PICK l \in DOMAIN Triggers:
        /\ e.trigger = Triggers[l].id /\ e.tool = f /\ e.line \in DOMAIN files[f]
        /\ Unbound(l) => Fires(files[f][e.line], Triggers[l], None, HasCall(files[f]), HasAnswer(files[f]))
  BY <1>3 DEF IsTrue
<1>5. l = k
  BY <1>4, TriggerFacts
<1>6. e = ErrorAt(Triggers[k], e.line, f)
  BY <1>3, <1>4 DEF Found, ErrorAt
<1> QED
  BY <1>3, <1>4, <1>5, <1>6, WholeErrors

LEMMA MissedAreSeparated ==
    ASSUME DetectorInv, NEW f \in Files, Len(files[f]) \in cuts[f] \cup {0},
           NEW e \in ErrorsOf(files[f], Everywhere, None), e \notin ErrorsIn(detected, f)
    PROVE  NeedsBoth(e.trigger) /\ Separated(f)
<1> DEFINE msgs == files[f]
           Calls(lo, hi) == TypeIn(msgs, "assistant", lo, hi)
           Answers(lo, hi) == TypeIn(msgs, "user", lo, hi)
<1>1. FileFacts(f)
  BY FileInv
<1>2. /\ msgs \in Seq(LineSet(f)) /\ Len(msgs) \in Nat /\ DOMAIN msgs = 1 .. Len(msgs)
      /\ \A i \in DOMAIN msgs: msgs[i].type = "assistant" <=> i = 1
      /\ cuts[f] \in SUBSET Nat /\ CoveredTo(msgs, cuts[f], ErrorsIn(detected, f), f)
  BY <1>1 DEF FileFacts
<1>3. PICK k \in DOMAIN Triggers, i \in DOMAIN msgs:
        /\ Unbound(k) /\ e = ErrorAt(Triggers[k], i, f)
        /\ Fires(msgs[i], Triggers[k], None, HasCall(msgs), HasAnswer(msgs))
  BY <1>2, WholeErrors
<1>4. Len(msgs) \in cuts[f] /\ i \in 1 .. Len(msgs)
  BY <1>2, <1>3
<1>5. LineCovered(msgs, cuts[f], ErrorsIn(detected, f), f, i)
  BY <1>2, <1>4 DEF CoveredTo
<1>6. PICK lo \in cuts[f] \cup {0}, hi \in cuts[f]:
        /\ lo < i /\ i <= hi
        /\ Fires(msgs[i], Triggers[k], None, Calls(lo, hi), Answers(lo, hi))
             => ErrorAt(Triggers[k], i, f) \in ErrorsIn(detected, f)
  BY <1>3, <1>5 DEF LineCovered
<1>7. lo \in Nat /\ hi \in Nat
  BY <1>2, <1>6
<1>8. /\ ~Fires(msgs[i], Triggers[k], None, Calls(lo, hi), Answers(lo, hi))
      /\ HasCall(msgs) \in BOOLEAN /\ HasAnswer(msgs) \in BOOLEAN
      /\ Calls(lo, hi) \in BOOLEAN /\ Answers(lo, hi) \in BOOLEAN
  BY <1>3, <1>6 DEF HasCall, HasAnswer, TypeIn
<1>9. \A j \in DOMAIN msgs: IsLine(msgs[j], f)
  BY <1>2, LineFacts
<1>10. Triggers[k].threshold \in Nat /\ Triggers[k].repos = {} /\ e.trigger = Triggers[k].id
  BY <1>3, TriggerFacts DEF Unbound, ErrorAt
<1>11. \A j \in DOMAIN msgs: msgs[j].type = "user" => msgs[j].results # <<>>
  BY <1>9 DEF IsLine, IsCall, IsAnswer
<1>12. \/ /\ Triggers[k].mode = "token_threshold" /\ Triggers[k].tokens # "input"
          /\ msgs[i].type = "assistant" /\ HasAnswer(msgs) /\ ~Answers(lo, hi)
       \/ /\ Triggers[k].content = "tool_result" /\ ~Triggers[k].requireError
          /\ msgs[i].type = "user" /\ HasCall(msgs) /\ ~Calls(lo, hi)
  <2> HIDE DEF Calls, Answers
  <2>1. IsLine(msgs[i], f)
    BY <1>3, <1>9
  <2> QED
    BY <1>3, <1>8, <1>10, <2>1, FiresNotWithLess
<1>13. NeedsBoth(e.trigger)
  BY <1>10, <1>12 DEF NeedsBoth
<1>14. CASE msgs[i].type = "assistant" /\ HasAnswer(msgs) /\ ~Answers(lo, hi)
  <2>1. i = 1 /\ lo = 0
    BY <1>2, <1>6, <1>7, <1>14
  <2>2. PICK j \in DOMAIN msgs: msgs[j].type = "user"
    BY <1>14 DEF HasAnswer
  <2>3. j \in Nat /\ j >= 1 /\ j \notin lo + 1 .. hi
    BY <1>2, <1>14, <2>2 DEF TypeIn
  <2>4. j > hi
    BY <1>7, <2>1, <2>3
  <2> QED
    BY <1>6, <1>11, <1>13, <1>14, <2>2, <2>4 DEF Separated
<1>15. CASE msgs[i].type = "user" /\ HasCall(msgs) /\ ~Calls(lo, hi)
  <2>1. PICK j \in DOMAIN msgs: msgs[j].type = "assistant"
    BY <1>15 DEF HasCall
  <2>2. j = 1 /\ 1 \notin lo + 1 .. hi
    BY <1>2, <1>15, <2>1 DEF TypeIn
  <2>3. i \in Nat /\ i >= 1
    BY <1>2
  <2>4. 1 <= lo /\ lo \in cuts[f]
    BY <1>6, <1>7, <2>2, <2>3
  <2> QED
    BY <1>6, <1>11, <1>13, <1>15, <2>1, <2>2, <2>4 DEF Separated
<1> QED
  BY <1>12, <1>14, <1>15

\* A file that is read part by part gives what one reading of the whole gives,
\* but for the errors of a call and its result that were read apart.
THEOREM PartsAreTheWhole == DetectorSpec => []PartsFindTheWhole
<1>1. DetectorInv => PartsFindTheWhole
  <2> SUFFICES ASSUME DetectorInv, NEW f \in Files
               PROVE  LET errors == {r.error : r \in {x \in detected: x.file = f}}
                          whole == ErrorsOf(files[f], Everywhere, None)
                          ids   == {Everywhere[k].id : k \in DOMAIN Everywhere}
                      IN  /\ {e \in errors: e.trigger \in ids} \subseteq whole
                          /\ (Len(files[f]) \in cuts[f] \cup {0}) =>
                                \A e \in whole \ errors: NeedsBoth(e.trigger) /\ Separated(f)
    BY DEF PartsFindTheWhole
  <2>1. ASSUME NEW e \in ErrorsIn(detected, f), e.trigger \in {Everywhere[k].id : k \in DOMAIN Everywhere}
        PROVE  e \in ErrorsOf(files[f], Everywhere, None)
    <3>1. PICK k \in DOMAIN Triggers: Unbound(k) /\ e.trigger = Triggers[k].id
      BY <2>1, EverywhereIds
    <3> QED
      BY <3>1, PartsAreTrue
  <2>2. ASSUME Len(files[f]) \in cuts[f] \cup {0},
               NEW e \in ErrorsOf(files[f], Everywhere, None), e \notin ErrorsIn(detected, f)
        PROVE  NeedsBoth(e.trigger) /\ Separated(f)
    BY <2>2, MissedAreSeparated
  <2> QED
    BY <2>1, <2>2 DEF ErrorsIn
<1> QED
  BY <1>1, DetectorInvariant, PTL

-----------------------------------------------------------------------------
(* A test of a trigger. *)

\* What the tester's own checker finds is what the live detection finds with
\* the one trigger, and it finds nothing twice.
LEMMA TriggerFinds ==
    ASSUME NEW f \in Files, NEW msgs \in Seq(LineSet(f)), NEW t \in Listing(Triggers), NEW repo
    PROVE  LET given == DetectErrorsWithTrigger(msgs, t, repo)
               errors == ErrorsOf(msgs, <<t>>, repo)
           IN  /\ given \in Seq(Found) /\ ToSet(given) = errors
               /\ IsFiniteSet(errors) /\ Len(given) = Cardinality(errors)
<1> DEFINE n == Len(msgs)
           Hit(i) == Fires(msgs[i], t, repo, HasCall(msgs), HasAnswer(msgs))
           P == {i \in 1 .. n: Hit(i)}
           e == [i \in 1 .. n |-> ErrorAt(t, i, f)]
           s == Choice(n, P, e)
           uses == ToolUseMap(msgs)
           results == ToolResultMap(msgs)
           r == FlattenSeq(s)
<1>1. n \in Nat /\ DOMAIN msgs = 1 .. n /\ \A i \in 1 .. n: msgs[i] \in LineSet(f) /\ IsLine(msgs[i], f)
  BY LineFacts
<1>2. /\ f \in DOMAIN uses <=> HasCall(msgs)
      /\ f \in DOMAIN results <=> HasAnswer(msgs)
      /\ f \in DOMAIN uses => uses[f].name = "Bash"
      /\ f \in DOMAIN results => results[f].size = 2
  <2>1. \A m \in LineSet(f): IsLine(m, f)
    BY LineFacts
  <2> QED
    BY <2>1, CallMap, AnswerMap
<1> HIDE DEF uses, results
<1>3. \A i \in 1 .. n: CheckTrigger(msgs[i], t, repo, uses, results, i) = s[i]
  <2> TAKE i \in 1 .. n
  <2>1. CheckTrigger(msgs[i], t, repo, uses, results, i) =
          IfFires(Fires(msgs[i], t, repo, f \in DOMAIN uses, f \in DOMAIN results), t, i, f)
    BY <1>1, <1>2, Checked
  <2>2. Fires(msgs[i], t, repo, f \in DOMAIN uses, f \in DOMAIN results) <=> Hit(i)
    BY <1>2 DEF Fires, ContentFires, CostFires
  <2> HIDE DEF Hit
  <2>3. s[i] = IfFires(Hit(i), t, i, f)
    BY DEF Choice, IfFires
  <2> HIDE DEF s
  <2> QED
    BY <2>1, <2>2, <2>3 DEF IfFires
<1> HIDE DEF Hit
<1>4. DetectErrorsWithTrigger(msgs, t, repo) = r
  <2> DEFINE d == [i \in DOMAIN msgs |->
            IF ~InScope(t, repo) THEN <<>>
            ELSE CASE t.mode = "token_threshold" -> CheckTokenThreshold(msgs[i], t, results, i)
                   [] t.mode # "token_threshold" /\ t.content = "tool_result" ->
                          CheckToolResult(msgs[i], t, uses, i)
                   [] t.mode # "token_threshold" /\ t.content = "tool_use" ->
                          CheckToolUse(msgs[i], t, i)
                   [] OTHER -> <<>>]
  <2>1. DetectErrorsWithTrigger(msgs, t, repo) = FlattenSeq(d)
    BY DEF DetectErrorsWithTrigger, uses, results
  <2>2. \A i \in 1 .. n: d[i] = CheckTrigger(msgs[i], t, repo, uses, results, i)
    <3> TAKE i \in 1 .. n
    <3>1. CASE ~InScope(t, repo)
      BY <1>1, <3>1 DEF CheckTrigger
    <3>2. CASE InScope(t, repo) /\ t.mode = "token_threshold"
      BY <1>1, <3>2 DEF CheckTrigger
    <3>3. CASE InScope(t, repo) /\ t.mode # "token_threshold" /\ t.content = "tool_result"
      BY <1>1, <3>3 DEF CheckTrigger
    <3>4. CASE InScope(t, repo) /\ t.mode # "token_threshold" /\ t.content = "tool_use"
      BY <1>1, <3>4 DEF CheckTrigger
    <3>5. CASE InScope(t, repo) /\ t.mode # "token_threshold" /\ t.content \notin {"tool_result", "tool_use"}
      BY <1>1, <3>5 DEF CheckTrigger
    <3> QED
      BY <3>1, <3>2, <3>3, <3>4, <3>5
  <2>3. d = s
    <3>1. d = [i \in 1 .. n |-> d[i]] /\ s = [i \in 1 .. n |-> s[i]]
      BY <1>1 DEF Choice
    <3> HIDE DEF d, s
    <3>2. \A i \in 1 .. n: d[i] = s[i]
      BY <1>3, <2>2
    <3> QED
      BY <3>1, <3>2
  <2> HIDE DEF d, s
  <2> QED
    BY <2>1, <2>3
<1>5. \A i \in 1 .. n: e[i] \in Found /\ e[i] = ErrorAt(t, i, f)
  BY <1>1 DEF Found, ErrorAt, NamesOfTriggers, Listing
<1>6. Ranked(r, P, e, Found)
  <2> HIDE DEF e
  <2>1. P \in SUBSET (1 .. n) /\ \A i \in P: e[i] \in Found
    BY <1>5
  <2> HIDE DEF P, n
  <2> QED
    BY <1>1, <2>1, Selection
<1>7. \A j, k \in 1 .. Len(r): r[j] = r[k] => j = k
  <2>1. \A i, j \in P: e[i] = e[j] => i = j
    BY <1>5 DEF ErrorAt
  <2> HIDE DEF e, P, r
  <2> QED
    BY <1>6, <2>1, SelectedOnce
<1>8. ErrorsOf(msgs, <<t>>, repo) = {e[i] : i \in P}
  <2>1. \A m \in LineSet(f): IsLine(m, f)
    BY LineFacts
  <2>2. <<t>> \in Seq(Listing(Triggers))
    OBVIOUS
  <2>3. ErrorsOf(msgs, <<t>>, repo) = UNION {Marks(f, msgs, i, <<t>>, repo) : i \in DOMAIN msgs}
    <3> DEFINE one == <<t>>
    <3>1. one \in Seq(Listing(Triggers))
      BY <2>2
    <3> HIDE DEF one
    <3>2. ErrorsOf(msgs, one, repo) = UNION {Marks(f, msgs, i, one, repo) : i \in DOMAIN msgs}
      BY <2>1, <3>1, FileGives
    <3> QED
      BY <3>2 DEF one
  <2>4. \A i \in 1 .. n: Marks(f, msgs, i, <<t>>, repo) = IF i \in P THEN {e[i]} ELSE {}
    <3> TAKE i \in 1 .. n
    <3>1. i \in P <=> Hit(i)
      OBVIOUS
    <3>2. DOMAIN <<t>> = {1} /\ <<t>>[1] = t
      OBVIOUS
    <3>3. Marks(f, msgs, i, <<t>>, repo) = {ErrorAt(t, i, f) : k \in {l \in {1}: Hit(i)}}
      BY <3>2 DEF Marks, Hit
    <3>4. e[i] = ErrorAt(t, i, f)
      BY <1>5
    <3> HIDE DEF e, P
    <3>5. {ErrorAt(t, i, f) : k \in {l \in {1}: Hit(i)}} = IF Hit(i) THEN {ErrorAt(t, i, f)} ELSE {}
      OBVIOUS
    <3> QED
      BY <3>1, <3>3, <3>4, <3>5
  <2> HIDE DEF e
  <2>5. P \subseteq 1 .. n
    OBVIOUS
  <2> HIDE DEF P
  <2> QED
    BY <1>1, <2>3, <2>4, <2>5
<1>9. r \in Seq(Found) /\ ToSet(r) = {e[i] : i \in P}
  <2> HIDE DEF e, P, r
  <2>1. r \in Seq(Found) /\ DOMAIN r = 1 .. Len(r)
    BY <1>6 DEF Ranked
  <2>2. \A x \in ToSet(r): x \in {e[i] : i \in P}
    BY <1>6, <2>1 DEF Ranked, ToSet
  <2>3. \A i \in P: e[i] \in ToSet(r)
    BY <1>6, <2>1 DEF Ranked, ToSet
  <2> QED
    BY <2>1, <2>2, <2>3
<1>10. IsFiniteSet(ToSet(r)) /\ Len(r) = Cardinality(ToSet(r))
  <2> HIDE DEF r
  <2>1. Len(r) \in Nat /\ ToSet(r) = {r[i] : i \in 1 .. Len(r)}
    BY <1>9 DEF ToSet
  <2>2. Cardinality(ToSet(r)) = Len(r)
    BY <1>7, <2>1, Different
  <2>3. IsFiniteSet(ToSet(r))
    BY <1>9, ElementsAreFinite
  <2> QED
    BY <2>1, <2>2, <2>3
<1> HIDE DEF r, e, P
<1> QED
  BY <1>4, <1>8, <1>9, <1>10

-----------------------------------------------------------------------------
(* What holds of a test while it runs and after it. *)

ShownError == [file: Files, error: Found]
TestRecord ==
    [trigger: Listing(Triggers), limit: Nat, project: Nat, left: Seq(Files), errors: Seq(ShownError),
     total: Nat, truncated: BOOLEAN, scanned: Seq(Files \X Nat), status: {"running", "done"},
     disturbed: BOOLEAN]

OwnRepo(f) == RepoOf[PathOf[ProjectOf(f)]]
FoundOf(t, f, msgs) == {[file |-> f, error |-> e] : e \in ErrorsOf(msgs, <<t>>, OwnRepo(f))}
AllOf(t, fs, places) == UNION {FoundOf(t, x[1], SubSeq(fs[x[1]], 1, x[2])) : x \in places}

OfProject(i) == Listing(FilesOf[Projects[i]])
Seen(t) == {x[1] : x \in Listing(t.scanned)}

\* The files of the projects up to the one at hand were looked at, but those
\* that are left, which are of this one.
WalkOK(t) ==
    /\ t.project \in 0 .. Len(Projects)
    /\ IsInjective(t.left)
    /\ t.left # <<>> => t.project # 0 /\ Listing(t.left) \subseteq OfProject(t.project)
    /\ Seen(t) \cap Listing(t.left) = {}
    /\ \A f \in Seen(t): \E i \in 1 .. t.project: f \in OfProject(i)
    /\ \A i \in 1 .. t.project: OfProject(i) \subseteq Seen(t) \cup Listing(t.left)

ReadOK(t, fs) == \A x \in Listing(t.scanned): x[2] \in 0 .. Len(fs[x[1]])

CountedOK(t, all) ==
    /\ IsFiniteSet(all)
    /\ t.total = Min({Cardinality(all), MAX_TOTAL_COUNT})
    /\ Cardinality(all) >= MAX_TOTAL_COUNT => t.truncated
    /\ ToSet(t.errors) \subseteq all
    /\ Len(t.errors) < t.limit => ToSet(t.errors) = all

ShownOK(t, fs) == ~t.disturbed => CountedOK(t, AllOf(t.trigger, fs, Listing(t.scanned)))

\* The table has what the test looked up for the project at hand.
RepoOK(t, repos) ==
    t.status = "running" /\ t.project # 0 /\ ~t.disturbed =>
        repos[Projects[t.project]] = RepoOf[PathOf[Projects[t.project]]]

EndOK(t) ==
    t.status = "done" /\ ~t.truncated /\ Len(t.errors) < t.limit =>
        t.project = Len(Projects) /\ t.left = <<>>

BoundOK(t) == Len(t.errors) <= t.limit /\ t.total <= MAX_TOTAL_COUNT

TestOK(t, fs, repos) ==
    WalkOK(t) /\ ReadOK(t, fs) /\ ShownOK(t, fs) /\ RepoOK(t, repos) /\ EndOK(t) /\ BoundOK(t)

TestInv == test \in Seq(TestRecord) /\ (test # <<>> => TestOK(test[1], files, table))

LEMMA FoundFacts ==
    ASSUME NEW f \in Files, NEW msgs \in Seq(LineSet(f)), NEW t \in Listing(Triggers)
    PROVE  /\ FoundOf(t, f, msgs) \in SUBSET ShownError
           /\ IsFiniteSet(FoundOf(t, f, msgs))
           /\ Cardinality(FoundOf(t, f, msgs)) = Cardinality(ErrorsOf(msgs, <<t>>, OwnRepo(f)))
           /\ \A x \in FoundOf(t, f, msgs): x.file = f
<1> DEFINE repo == OwnRepo(f)
           E == ErrorsOf(msgs, <<t>>, repo)
           F == FoundOf(t, f, msgs)
           g == [e \in E |-> [file |-> f, error |-> e]]
<1>1. E \in SUBSET Found /\ IsFiniteSet(E)
  <2> HIDE DEF repo
  <2>1. /\ DetectErrorsWithTrigger(msgs, t, repo) \in Seq(Found)
        /\ ToSet(DetectErrorsWithTrigger(msgs, t, repo)) = E /\ IsFiniteSet(E)
    BY TriggerFinds
  <2> QED
    BY <2>1 DEF ToSet
<1>2. F = {[file |-> f, error |-> e] : e \in E}
  BY DEF FoundOf
<1> HIDE DEF E, F
<1>3. g \in Surjection(E, F) /\ g \in Injection(E, F)
  <2>1. g \in [E -> F] /\ \A e \in E: g[e].error = e
    BY <1>2
  <2>2. \A x \in F: \E e \in E: g[e] = x
    BY <1>2
  <2> HIDE DEF g
  <2> QED
    BY <2>1, <2>2 DEF Surjection, Injection, IsInjective
<1>4. IsFiniteSet(F) /\ Cardinality(F) = Cardinality(E)
  <2> HIDE DEF g
  <2> QED
    BY <1>1, <1>3, FS_Surjection
<1>5. F \in SUBSET ShownError /\ \A x \in F: x.file = f
  BY <1>1, <1>2 DEF ShownError
<1> QED
  BY <1>4, <1>5 DEF F, E

\* What the test shows of a file that it looks at.
ShownOf(f, given) == [i \in DOMAIN given |-> [file |-> f, error |-> given[i]]]

LEMMA WholeShown ==
    ASSUME NEW f \in Files, NEW msgs \in Seq(LineSet(f)), NEW t \in Listing(Triggers), NEW repo,
           NEW shown, shown = ShownOf(f, DetectErrorsWithTrigger(msgs, t, repo))
    PROVE  /\ shown \in Seq(ShownError)
           /\ repo = OwnRepo(f) => /\ ToSet(shown) = FoundOf(t, f, msgs)
                                   /\ Len(shown) = Cardinality(FoundOf(t, f, msgs))
<1> DEFINE given == DetectErrorsWithTrigger(msgs, t, repo)
           E == ErrorsOf(msgs, <<t>>, repo)
           F == FoundOf(t, f, msgs)
<1>1. given \in Seq(Found) /\ ToSet(given) = E /\ Len(given) = Cardinality(E)
  BY TriggerFinds
<1>2. shown = ShownOf(f, given)
  OBVIOUS
<1> HIDE DEF given
<1>3. /\ shown \in Seq(ShownError) /\ Len(shown) = Len(given) /\ DOMAIN shown = DOMAIN given
      /\ \A i \in DOMAIN given: shown[i] = [file |-> f, error |-> given[i]]
  <2>1. DOMAIN given = 1 .. Len(given) /\ Len(given) \in Nat /\ \A i \in DOMAIN given: given[i] \in Found
    BY <1>1
  <2>2. shown = [i \in 1 .. Len(given) |-> [file |-> f, error |-> given[i]]]
    BY <1>2, <2>1 DEF ShownOf
  <2>3. \A i \in 1 .. Len(given): [file |-> f, error |-> given[i]] \in ShownError
    BY <2>1 DEF ShownError
  <2>4. shown \in [1 .. Len(given) -> ShownError]
    BY <2>2, <2>3
  <2>5. shown \in Seq(ShownError) /\ Len(shown) = Len(given) /\ DOMAIN shown = 1 .. Len(given)
    BY <2>1, <2>4, IsList
  <2> QED
    BY <2>1, <2>2, <2>5
<1>4. ToSet(shown) = {[file |-> f, error |-> e] : e \in ToSet(given)}
  BY <1>3 DEF ToSet
<1>5. ASSUME repo = OwnRepo(f)
      PROVE  ToSet(shown) = F /\ Len(shown) = Cardinality(F)
  <2>1. F = {[file |-> f, error |-> e] : e \in E} /\ Cardinality(F) = Cardinality(E)
    BY <1>5, FoundFacts DEF FoundOf
  <2> HIDE DEF E, F
  <2> QED
    BY <1>1, <1>3, <1>4, <2>1
<1> QED
  BY <1>3, <1>5

-----------------------------------------------------------------------------
(* What the steps keep of it. *)

\* Longer files change nothing of what was found in them.
LEMMA GrownTest ==
    ASSUME NEW t \in TestRecord, NEW fs, NEW fs2, NEW repos, TestOK(t, fs, repos),
           \A f \in Files: /\ fs[f] \in Seq(LineSet(f)) /\ fs2[f] \in Seq(LineSet(f))
                           /\ Len(fs[f]) <= Len(fs2[f])
                           /\ \A i \in 1 .. Len(fs[f]): fs2[f][i] = fs[f][i]
    PROVE  TestOK(t, fs2, repos)
<1>1. \A x \in Listing(t.scanned): x[1] \in Files /\ x[2] \in 0 .. Len(fs[x[1]])
  <2>1. t.scanned \in Seq(Files \X Nat)
    BY DEF TestRecord
  <2>2. \A x \in Listing(t.scanned): x \in Files \X Nat
    BY <2>1 DEF Listing
  <2> QED
    BY <2>2 DEF TestOK, ReadOK
<1>2. ASSUME NEW f \in Files, NEW n \in 0 .. Len(fs[f])
      PROVE  SubSeq(fs2[f], 1, n) = SubSeq(fs[f], 1, n) /\ n \in 0 .. Len(fs2[f])
  <2>1. fs[f] \in Seq(LineSet(f)) /\ fs2[f] \in Seq(LineSet(f)) /\ Len(fs[f]) <= Len(fs2[f])
    OBVIOUS
  <2>2. n \in 0 .. Len(fs2[f])
    BY <2>1
  <2>3. /\ SubSeq(fs[f], 1, n) \in Seq(LineSet(f)) /\ Len(SubSeq(fs[f], 1, n)) = n
        /\ \A i \in 1 .. n: SubSeq(fs[f], 1, n)[i] = fs[f][i]
    BY <2>1, Beginning
  <2>4. /\ SubSeq(fs2[f], 1, n) \in Seq(LineSet(f)) /\ Len(SubSeq(fs2[f], 1, n)) = n
        /\ \A i \in 1 .. n: SubSeq(fs2[f], 1, n)[i] = fs2[f][i]
    BY <2>1, <2>2, Beginning
  <2>5. \A i \in 1 .. n: fs2[f][i] = fs[f][i]
    BY <2>1
  <2> DEFINE a == SubSeq(fs[f], 1, n)
             b == SubSeq(fs2[f], 1, n)
  <2>6. a \in Seq(LineSet(f)) /\ b \in Seq(LineSet(f)) /\ Len(a) = Len(b) /\ \A i \in 1 .. Len(a): a[i] = b[i]
    BY <2>3, <2>4, <2>5
  <2> HIDE DEF a, b
  <2>7. a = b
    BY <2>6
  <2> QED
    BY <2>2, <2>7 DEF a, b
<1>3. ReadOK(t, fs2)
  BY <1>1, <1>2 DEF ReadOK
<1>4. AllOf(t.trigger, fs2, Listing(t.scanned)) = AllOf(t.trigger, fs, Listing(t.scanned))
  <2>1. \A x \in Listing(t.scanned): SubSeq(fs2[x[1]], 1, x[2]) = SubSeq(fs[x[1]], 1, x[2])
    BY <1>1, <1>2
  <2> QED
    BY <2>1 DEF AllOf
<1>5. ShownOK(t, fs2)
  BY <1>4 DEF TestOK, ShownOK
<1> QED
  BY <1>3, <1>5 DEF TestOK

\* The files of a test are known, and so is what it took from each.
LEMMA TestFacts ==
    ASSUME NEW t \in TestRecord, NEW fs, NEW repos, TestOK(t, fs, repos)
    PROVE  /\ \A x \in Listing(t.scanned): x[1] \in Files /\ x[2] \in 0 .. Len(fs[x[1]])
           /\ Listing(t.left) \subseteq Files /\ Listing(t.errors) \subseteq ShownError
           /\ Seen(t) \subseteq Files
<1>1. t.scanned \in Seq(Files \X Nat) /\ t.left \in Seq(Files) /\ t.errors \in Seq(ShownError)
  BY DEF TestRecord
<1>2. \A x \in Listing(t.scanned): x \in Files \X Nat
  BY <1>1 DEF Listing
<1>3. Listing(t.left) \subseteq Files
  BY <1>1 DEF Listing
<1>4. Listing(t.errors) \subseteq ShownError
  BY <1>1 DEF Listing
<1> QED
  BY <1>2, <1>3, <1>4 DEF TestOK, ReadOK, Seen

\* A list without repetitions, taken apart.
LEMMA TakenApart ==
    ASSUME NEW T, NEW s \in Seq(T), s # <<>>, IsInjective(s)
    PROVE  /\ Head(s) \in T /\ Tail(s) \in Seq(T) /\ IsInjective(Tail(s))
           /\ Listing(s) = {Head(s)} \cup Listing(Tail(s)) /\ Head(s) \notin Listing(Tail(s))
<1> DEFINE r == Tail(s)
<1>1. Len(s) \in Nat /\ Len(s) > 0 /\ DOMAIN s = 1 .. Len(s)
  OBVIOUS
<1>2. /\ Head(s) = s[1] /\ r \in Seq(T) /\ Len(r) = Len(s) - 1
      /\ \A i \in 1 .. Len(s) - 1: r[i] = s[i + 1]
  BY <1>1
<1> HIDE DEF r
<1>3. DOMAIN r = 1 .. Len(s) - 1
  BY <1>1, <1>2
<1>4. s[1] \in T
  BY <1>1
<1>5. \A i, j \in 1 .. Len(s): s[i] = s[j] => i = j
  BY <1>1 DEF IsInjective
<1>6. IsInjective(r)
  <2> SUFFICES ASSUME NEW i \in DOMAIN r, NEW j \in DOMAIN r, r[i] = r[j] PROVE i = j
    BY DEF IsInjective
  <2>1. i \in 1 .. Len(s) - 1 /\ j \in 1 .. Len(s) - 1 /\ i + 1 \in 1 .. Len(s) /\ j + 1 \in 1 .. Len(s)
    BY <1>1, <1>3
  <2>2. s[i + 1] = s[j + 1]
    BY <1>2, <2>1
  <2>3. i + 1 = j + 1
    BY <1>5, <2>1, <2>2
  <2> QED
    BY <2>1, <2>3
<1>7. \A x: x \in Listing(r) <=> \E i \in 2 .. Len(s): x = s[i]
  <2>1. \A x \in Listing(r): \E i \in 2 .. Len(s): x = s[i]
    <3> TAKE x \in Listing(r)
    <3>1. PICK i \in 1 .. Len(s) - 1: x = r[i]
      BY <1>3 DEF Listing
    <3>2. i + 1 \in 2 .. Len(s) /\ x = s[i + 1]
      BY <1>1, <1>2, <3>1
    <3> QED
      BY <3>2
  <2>2. ASSUME NEW i \in 2 .. Len(s) PROVE s[i] \in Listing(r)
    <3>1. i - 1 \in 1 .. Len(s) - 1 /\ r[i - 1] = s[i]
      BY <1>1, <1>2
    <3> QED
      BY <1>3, <3>1 DEF Listing
  <2> QED
    BY <2>1, <2>2
<1>8. \A x: x \in Listing(s) <=> x = s[1] \/ \E i \in 2 .. Len(s): x = s[i]
  BY <1>1 DEF Listing
<1>9. s[1] \notin Listing(r)
  <2>1. \A i \in 2 .. Len(s): s[i] # s[1]
    BY <1>1, <1>5
  <2> QED
    BY <1>7, <2>1
<1> QED
  BY <1>2, <1>4, <1>6, <1>7, <1>8, <1>9 DEF r

LEMMA OneMore ==
    ASSUME NEW T, NEW s \in Seq(T), NEW x \in T
    PROVE  Append(s, x) \in Seq(T) /\ Listing(Append(s, x)) = Listing(s) \cup {x}
<1>1. /\ Append(s, x) \in Seq(T) /\ Len(Append(s, x)) = Len(s) + 1 /\ Len(s) \in Nat
      /\ Append(s, x)[Len(s) + 1] = x /\ \A i \in 1 .. Len(s): Append(s, x)[i] = s[i]
  OBVIOUS
<1>2. DOMAIN Append(s, x) = 1 .. Len(s) + 1 /\ DOMAIN s = 1 .. Len(s)
  BY <1>1
<1> DEFINE a == Append(s, x)
<1> HIDE DEF a
<1>3. /\ DOMAIN a = 1 .. Len(s) + 1 /\ a[Len(s) + 1] = x /\ \A i \in 1 .. Len(s): a[i] = s[i]
  BY <1>1, <1>2 DEF a
<1>4. \A i \in 1 .. Len(s) + 1: i \in 1 .. Len(s) \/ i = Len(s) + 1
  BY <1>1
<1>5. 1 .. Len(s) \subseteq 1 .. Len(s) + 1 /\ Len(s) + 1 \in 1 .. Len(s) + 1
  BY <1>1
<1>6. Listing(a) = Listing(s) \cup {x}
  BY <1>2, <1>3, <1>4, <1>5 DEF Listing
<1> QED
  BY <1>1, <1>6 DEF a

LEMMA ProjectIsItsOwn ==
    ASSUME NEW p \in ProjectSet, NEW f \in Listing(FilesOf[p])
    PROVE  f \in Files /\ ProjectOf(f) = p
<1>1. f \in Files
  BY DEF Files
<1>2. ProjectOf(f) \in ProjectSet /\ f \in Listing(FilesOf[ProjectOf(f)])
  BY DEF ProjectOf
<1>3. \A q \in ProjectSet: q # p => f \notin Listing(FilesOf[q])
  BY ErrorDetectorAssumption
<1> QED
  BY <1>1, <1>2, <1>3

\* How many errors of a file a test takes: as many as there is room for.
Room(old, limit, shown) == Min({Len(shown), limit - Len(old)})
WithTaken(old, limit, shown) == old \o SubSeq(shown, 1, Room(old, limit, shown))

LEMMA WhatIsTaken ==
    ASSUME NEW old \in Seq(ShownError), NEW limit \in Nat, Len(old) < limit, NEW shown \in Seq(ShownError),
           NEW errors, errors = WithTaken(old, limit, shown)
    PROVE  /\ errors \in Seq(ShownError) /\ Len(errors) <= limit
           /\ ToSet(errors) \subseteq ToSet(old) \cup ToSet(shown)
           /\ Len(errors) < limit => ToSet(errors) = ToSet(old) \cup ToSet(shown)
<1> DEFINE k == Room(old, limit, shown)
           taken == SubSeq(shown, 1, k)
<1>1. Len(old) \in Nat /\ Len(shown) \in Nat /\ limit - Len(old) \in Nat
  OBVIOUS
<1>2. k = IF Len(shown) <= limit - Len(old) THEN Len(shown) ELSE limit - Len(old)
  BY <1>1, LeastOfTwo DEF Room
<1>3. k \in 0 .. Len(shown) /\ Len(old) + k <= limit /\ (Len(old) + k < limit => k = Len(shown))
  BY <1>1, <1>2
<1> HIDE DEF k
<1>4. /\ taken \in Seq(ShownError) /\ Len(taken) = k
      /\ \A i \in 1 .. k: taken[i] = shown[i]
  BY <1>3, Beginning
<1>5. k = Len(shown) => taken = shown
  BY WholeList
<1>6. errors = old \o taken
  BY DEF k, WithTaken
<1> HIDE DEF taken
<1>7. ToSet(taken) \subseteq ToSet(shown)
  <2>1. DOMAIN taken = 1 .. k /\ 1 .. k \subseteq DOMAIN shown
    BY <1>3, <1>4
  <2> QED
    BY <1>4, <2>1 DEF ToSet
<1>8. /\ errors \in Seq(ShownError) /\ Len(errors) = Len(old) + k
      /\ ToSet(errors) = ToSet(old) \cup ToSet(taken)
  <2>1. ToSet(old \o taken) = ToSet(old) \cup ToSet(taken)
    BY <1>4, JoinedElements
  <2>2. old \o taken \in Seq(ShownError) /\ Len(old \o taken) = Len(old) + Len(taken)
    BY <1>4, ConcatProperties
  <2> QED
    BY <1>4, <1>6, <2>1, <2>2
<1> QED
  BY <1>3, <1>5, <1>7, <1>8

\* What the look at one file adds to the count.
LEMMA CountedMore ==
    ASSUME NEW all, NEW F, NEW t \in TestRecord, NEW t2 \in TestRecord, CountedOK(t, all),
           t.total < MAX_TOTAL_COUNT, IsFiniteSet(F), all \cap F = {},
           t2.total = Min({t.total + Cardinality(F), MAX_TOTAL_COUNT}),
           t2.truncated = (t.truncated \/ t.total + Cardinality(F) >= MAX_TOTAL_COUNT),
           ToSet(t2.errors) \subseteq ToSet(t.errors) \cup F,
           Len(t.errors) < t.limit, t2.limit = t.limit,
           Len(t2.errors) < t.limit => ToSet(t2.errors) = ToSet(t.errors) \cup F
    PROVE  CountedOK(t2, all \cup F)
<1>1. IsFiniteSet(all) /\ Cardinality(all) \in Nat /\ Cardinality(F) \in Nat /\ MAX_TOTAL_COUNT \in Nat
  BY FS_CardinalityType, ErrorDetectorAssumption DEF CountedOK
<1>2. IsFiniteSet(all \cup F) /\ Cardinality(all \cup F) = Cardinality(all) + Cardinality(F)
  <2>1. /\ IsFiniteSet(all \cup F)
        /\ Cardinality(all \cup F) = Cardinality(all) + Cardinality(F) - Cardinality(all \cap F)
    BY <1>1, FS_Union
  <2>2. Cardinality(all \cap F) = 0
    BY FS_EmptySet
  <2> QED
    BY <1>1, <2>1, <2>2
<1>3. t.total = Cardinality(all)
  <2>1. t.total = Min({Cardinality(all), MAX_TOTAL_COUNT})
    BY DEF CountedOK
  <2>2. t.total = IF Cardinality(all) <= MAX_TOTAL_COUNT THEN Cardinality(all) ELSE MAX_TOTAL_COUNT
    BY <1>1, <2>1, LeastOfTwo
  <2> QED
    BY <1>1, <2>2
<1>4. ToSet(t.errors) = all
  BY DEF CountedOK
<1> QED
  BY <1>2, <1>3, <1>4 DEF CountedOK

LEMMA ScannedTest ==
    ASSUME NEW t \in TestRecord, \A g \in Files: files[g] \in Seq(LineSet(g)), TestOK(t, files, table),
           t.status = "running", t.left # <<>>, t.total < MAX_TOTAL_COUNT, ~Enough(t),
           NEW f, f = Head(t.left),
           NEW shown, shown = ShownOf(f, DetectErrorsWithTrigger(files[f], t.trigger, table[ProjectOf(f)]))
    PROVE  WithErrors(t, f, shown) \in TestRecord /\ TestOK(WithErrors(t, f, shown), files, table)
<1> DEFINE t2 == WithErrors(t, f, shown)
           n == Len(files[f])
           F == FoundOf(t.trigger, f, files[f])
           all == AllOf(t.trigger, files, Listing(t.scanned))
<1>1. /\ t.left \in Seq(Files) /\ t.errors \in Seq(ShownError) /\ t.scanned \in Seq(Files \X Nat)
      /\ t.trigger \in Listing(Triggers) /\ t.limit \in Nat /\ t.total \in Nat /\ t.truncated \in BOOLEAN
      /\ t.disturbed \in BOOLEAN /\ t.project \in Nat /\ Len(t.errors) \in Nat
  BY DEF TestRecord
<1>2. Len(t.errors) < t.limit
  BY <1>1 DEF Enough
<1>3. /\ f \in Files /\ Tail(t.left) \in Seq(Files) /\ IsInjective(Tail(t.left))
      /\ Listing(t.left) = {f} \cup Listing(Tail(t.left)) /\ f \notin Listing(Tail(t.left))
  <2>1. IsInjective(t.left)
    BY DEF TestOK, WalkOK
  <2> QED
    BY <1>1, <2>1, TakenApart
<1>4. files[f] \in Seq(LineSet(f)) /\ n \in Nat /\ n \in 0 .. Len(files[f])
  BY <1>3
<1>5. f \notin Seen(t) /\ Seen(t) \subseteq Files
  BY <1>3, TestFacts DEF TestOK, WalkOK
<1>6. t.project \in 1 .. Len(Projects) /\ f \in OfProject(t.project)
  BY <1>1, <1>3, ErrorDetectorAssumption DEF TestOK, WalkOK
<1>7. ~t.disturbed => table[ProjectOf(f)] = OwnRepo(f)
  <2>1. Projects[t.project] \in ProjectSet
    BY <1>6 DEF ProjectSet, Listing
  <2>2. ProjectOf(f) = Projects[t.project]
    BY <1>6, <2>1, ProjectIsItsOwn DEF OfProject
  <2> QED
    BY <1>6, <2>2 DEF TestOK, RepoOK, OwnRepo
<1>8. /\ shown \in Seq(ShownError) /\ Len(shown) \in Nat
      /\ ~t.disturbed => ToSet(shown) = F /\ Len(shown) = Cardinality(F)
  <2> DEFINE repo == table[ProjectOf(f)]
  <2>1. shown = ShownOf(f, DetectErrorsWithTrigger(files[f], t.trigger, repo))
    OBVIOUS
  <2>2. ~t.disturbed => repo = OwnRepo(f)
    BY <1>7
  <2> DEFINE trigger == t.trigger
             msgs == files[f]
  <2>3. f \in Files /\ msgs \in Seq(LineSet(f)) /\ trigger \in Listing(Triggers)
        /\ shown = ShownOf(f, DetectErrorsWithTrigger(msgs, trigger, repo))
    BY <1>1, <1>3, <1>4, <2>1
  <2> HIDE DEF repo, trigger, msgs
  <2>4. /\ shown \in Seq(ShownError)
        /\ repo = OwnRepo(f) => /\ ToSet(shown) = FoundOf(trigger, f, msgs)
                                /\ Len(shown) = Cardinality(FoundOf(trigger, f, msgs))
    BY <2>3, WholeShown
  <2>5. Len(shown) \in Nat
    BY <2>4
  <2> QED
    BY <2>2, <2>4, <2>5 DEF trigger, msgs
<1>9. /\ t2.trigger = t.trigger /\ t2.limit = t.limit /\ t2.project = t.project /\ t2.status = t.status
      /\ t2.disturbed = t.disturbed /\ t2.left = Tail(t.left)
      /\ t2.errors = WithTaken(t.errors, t.limit, shown)
      /\ t2.scanned = Append(t.scanned, <<f, n>>)
      /\ t2.total = Min({t.total + Len(shown), MAX_TOTAL_COUNT})
      /\ t2.truncated = (t.truncated \/ t.total + Len(shown) >= MAX_TOTAL_COUNT)
  BY DEF WithErrors, TestRecord, Room, WithTaken
<1>10. /\ t2.errors \in Seq(ShownError) /\ Len(t2.errors) <= t.limit
       /\ ToSet(t2.errors) \subseteq ToSet(t.errors) \cup ToSet(shown)
       /\ Len(t2.errors) < t.limit => ToSet(t2.errors) = ToSet(t.errors) \cup ToSet(shown)
  <2> HIDE DEF t2
  <2> DEFINE errors == t2.errors
             old == t.errors
             limit == t.limit
  <2>1. /\ shown \in Seq(ShownError) /\ old \in Seq(ShownError) /\ limit \in Nat /\ Len(old) < limit
        /\ errors = WithTaken(old, limit, shown)
    BY <1>1, <1>2, <1>8, <1>9
  <2> HIDE DEF errors, old, limit
  <2>2. /\ errors \in Seq(ShownError) /\ Len(errors) <= limit
        /\ ToSet(errors) \subseteq ToSet(old) \cup ToSet(shown)
        /\ Len(errors) < limit => ToSet(errors) = ToSet(old) \cup ToSet(shown)
    BY <2>1, WhatIsTaken
  <2> QED
    BY <2>2 DEF errors, old, limit
<1>11. t2.scanned \in Seq(Files \X Nat) /\ Listing(t2.scanned) = Listing(t.scanned) \cup {<<f, n>>}
  <2> DEFINE x == <<f, n>>
             T == Files \X Nat
             s == t.scanned
  <2>1. x \in T /\ s \in Seq(T)
    BY <1>1, <1>3, <1>4
  <2> HIDE DEF t2
  <2>2. t2.scanned = Append(s, x)
    BY <1>9
  <2> HIDE DEF x, T, s
  <2>3. Append(s, x) \in Seq(T) /\ Listing(Append(s, x)) = Listing(s) \cup {x}
    BY <2>1, OneMore
  <2> QED
    BY <2>2, <2>3 DEF x, T, s
<1>12. t2.total \in Nat /\ t2.total <= MAX_TOTAL_COUNT
  <2>1. t.total + Len(shown) \in Nat /\ MAX_TOTAL_COUNT \in Nat
    BY <1>1, <1>8, ErrorDetectorAssumption
  <2> DEFINE a == t.total + Len(shown)
  <2> HIDE DEF t2, a
  <2>2. Min({a, MAX_TOTAL_COUNT}) = IF a <= MAX_TOTAL_COUNT THEN a ELSE MAX_TOTAL_COUNT
    BY <2>1, LeastOfTwo DEF a
  <2>3. t2.total = Min({a, MAX_TOTAL_COUNT})
    BY <1>9 DEF a
  <2> QED
    BY <2>1, <2>2, <2>3 DEF a
<1>13. t2 \in TestRecord
  <2>1. t2 = [t EXCEPT !.errors = t2.errors, !.scanned = t2.scanned, !.left = t2.left,
                       !.total = t2.total, !.truncated = t2.truncated]
    BY DEF WithErrors, TestRecord
  <2>2. t2.left \in Seq(Files) /\ t2.truncated \in BOOLEAN
    BY <1>3, <1>9
  <2> HIDE DEF t2
  <2> QED
    BY <1>10, <1>11, <1>12, <2>1, <2>2 DEF TestRecord
<1> HIDE DEF t2
<1>14. Seen(t2) = Seen(t) \cup {f}
  <2> DEFINE x == <<f, n>>
  <2>1. x[1] = f
    OBVIOUS
  <2> HIDE DEF x
  <2>2. Listing(t2.scanned) = Listing(t.scanned) \cup {x}
    BY <1>11 DEF x
  <2> QED
    BY <2>1, <2>2 DEF Seen
<1>15. WalkOK(t2)
  <2>1. Seen(t2) \cap Listing(t2.left) = {}
    BY <1>3, <1>9, <1>14 DEF TestOK, WalkOK
  <2>2. \A g \in Seen(t2): \E i \in 1 .. t2.project: g \in OfProject(i)
    <3>1. \A g \in Seen(t): \E i \in 1 .. t.project: g \in OfProject(i)
      BY DEF TestOK, WalkOK
    <3>2. t.project \in 1 .. t.project
      BY <1>6
    <3> QED
      BY <1>6, <1>9, <1>14, <3>1, <3>2
  <2>3. \A i \in 1 .. t2.project: OfProject(i) \subseteq Seen(t2) \cup Listing(t2.left)
    BY <1>3, <1>9, <1>14 DEF TestOK, WalkOK
  <2>4. t2.left # <<>> => t2.project # 0 /\ Listing(t2.left) \subseteq OfProject(t2.project)
    BY <1>3, <1>6, <1>9 DEF TestOK, WalkOK
  <2> QED
    BY <1>3, <1>9, <2>1, <2>2, <2>3, <2>4 DEF TestOK, WalkOK
<1>16. ReadOK(t2, files)
  BY <1>4, <1>11 DEF TestOK, ReadOK
<1>17. ShownOK(t2, files)
  <2> SUFFICES ASSUME ~t.disturbed
               PROVE  CountedOK(t2, AllOf(t2.trigger, files, Listing(t2.scanned)))
    BY <1>9 DEF ShownOK
  <2>1. AllOf(t2.trigger, files, Listing(t2.scanned)) = all \cup F
    <3> DEFINE x == <<f, n>>
    <3>1. x[1] = f /\ x[2] = n
      OBVIOUS
    <3> HIDE DEF x, n
    <3>2. Listing(t2.scanned) = Listing(t.scanned) \cup {x}
      BY <1>11 DEF x
    <3>3. FoundOf(t.trigger, x[1], SubSeq(files[x[1]], 1, x[2])) = F
      BY <1>4, <3>1, WholeList DEF n
    <3> HIDE DEF F
    <3> QED
      BY <1>9, <3>2, <3>3 DEF AllOf
  <2> DEFINE trigger == t.trigger
  <2>0. trigger \in Listing(Triggers)
    BY <1>1
  <2>2. IsFiniteSet(F) /\ \A x \in F: x.file = f
    <3> DEFINE msgs == files[f]
    <3>1. msgs \in Seq(LineSet(f)) /\ F = FoundOf(trigger, f, msgs)
      BY <1>4
    <3> HIDE DEF trigger, msgs, F
    <3>2. IsFiniteSet(FoundOf(trigger, f, msgs)) /\ \A x \in FoundOf(trigger, f, msgs): x.file = f
      BY <1>3, <2>0, <3>1, FoundFacts
    <3> QED
      BY <3>1, <3>2
  <2>3. \A x \in all: x.file \in Seen(t)
    <3>1. \A y \in Listing(t.scanned): y[1] \in Files /\ y[2] \in 0 .. Len(files[y[1]])
      BY TestFacts
    <3>2. ASSUME NEW y \in Listing(t.scanned), NEW x \in FoundOf(t.trigger, y[1], SubSeq(files[y[1]], 1, y[2]))
          PROVE  x.file \in Seen(t)
      <4>1. x.file = y[1]
        <5> DEFINE g == y[1]
                   msgs == SubSeq(files[y[1]], 1, y[2])
        <5>1. g \in Files /\ msgs \in Seq(LineSet(g)) /\ x \in FoundOf(trigger, g, msgs)
          BY <3>1, <3>2, Beginning
        <5> HIDE DEF g, msgs, trigger
        <5>2. \A z \in FoundOf(trigger, g, msgs): z.file = g
          BY <2>0, <5>1, FoundFacts
        <5> QED
          BY <5>1, <5>2 DEF g
      <4> QED
        BY <4>1 DEF Seen
    <3> QED
      BY <3>2 DEF AllOf
  <2>4. all \cap F = {}
    BY <1>5, <2>2, <2>3
  <2>5. CountedOK(t, all)
    BY DEF TestOK, ShownOK
  <2> HIDE DEF all, F
  <2>6. CountedOK(t2, all \cup F)
    BY <1>2, <1>8, <1>9, <1>10, <1>13, <2>2, <2>4, <2>5, CountedMore
  <2> QED
    BY <2>1, <2>6
<1>18. RepoOK(t2, table) /\ EndOK(t2) /\ BoundOK(t2)
  BY <1>9, <1>10, <1>12 DEF TestOK, RepoOK, EndOK, BoundOK
<1> QED
  BY <1>13, <1>15, <1>16, <1>17, <1>18 DEF TestOK, t2

\* A change of the table that is not of the project at hand changes nothing.
LEMMA OtherRepo ==
    ASSUME NEW t, NEW fs, NEW repos, NEW repos2, TestOK(t, fs, repos),
           t.status = "running" /\ t.project # 0 /\ ~t.disturbed =>
               repos2[Projects[t.project]] = repos[Projects[t.project]]
    PROVE  TestOK(t, fs, repos2)
  BY DEF TestOK, RepoOK

\* Nothing is claimed of what a disturbed test shows.
LEMMA DisturbedTest ==
    ASSUME NEW t \in TestRecord, NEW fs, NEW repos, NEW repos2, TestOK(t, fs, repos)
    PROVE  /\ [t EXCEPT !.disturbed = TRUE] \in TestRecord
           /\ TestOK([t EXCEPT !.disturbed = TRUE], fs, repos2)
<1> DEFINE t2 == [t EXCEPT !.disturbed = TRUE]
<1>1. /\ t2 \in TestRecord /\ t2.disturbed = TRUE /\ t2.trigger = t.trigger /\ t2.limit = t.limit
      /\ t2.project = t.project /\ t2.left = t.left /\ t2.errors = t.errors /\ t2.total = t.total
      /\ t2.truncated = t.truncated /\ t2.scanned = t.scanned /\ t2.status = t.status
  BY DEF TestRecord
<1> HIDE DEF t2
<1>2. WalkOK(t2) /\ ReadOK(t2, fs) /\ EndOK(t2) /\ BoundOK(t2)
  BY <1>1 DEF TestOK, WalkOK, ReadOK, EndOK, BoundOK, Seen
<1>3. ShownOK(t2, fs) /\ RepoOK(t2, repos2)
  BY <1>1 DEF ShownOK, RepoOK
<1> QED
  BY <1>1, <1>2, <1>3 DEF TestOK, t2

\* A test that ends has looked at everything, was cut, or has enough.
LEMMA EndedTest ==
    ASSUME NEW t \in TestRecord, NEW fs, NEW repos, TestOK(t, fs, repos), NEW over \in BOOLEAN,
           t.truncated => over,
           ~over /\ Len(t.errors) < t.limit => t.project = Len(Projects) /\ t.left = <<>>
    PROVE  /\ [t EXCEPT !.status = "done", !.truncated = over] \in TestRecord
           /\ TestOK([t EXCEPT !.status = "done", !.truncated = over], fs, repos)
<1> DEFINE t2 == [t EXCEPT !.status = "done", !.truncated = over]
<1>1. /\ t2 \in TestRecord /\ t2.disturbed = t.disturbed /\ t2.trigger = t.trigger /\ t2.limit = t.limit
      /\ t2.project = t.project /\ t2.left = t.left /\ t2.errors = t.errors /\ t2.total = t.total
      /\ t2.truncated = over /\ t2.scanned = t.scanned /\ t2.status = "done"
  BY DEF TestRecord
<1> HIDE DEF t2
<1>2. WalkOK(t2) /\ ReadOK(t2, fs) /\ BoundOK(t2)
  BY <1>1 DEF TestOK, WalkOK, ReadOK, BoundOK, Seen
<1>3. ShownOK(t2, fs)
  <2> SUFFICES ASSUME ~t.disturbed PROVE CountedOK(t2, AllOf(t2.trigger, fs, Listing(t2.scanned)))
    BY <1>1 DEF ShownOK
  <2> DEFINE all == AllOf(t.trigger, fs, Listing(t.scanned))
  <2>1. CountedOK(t, all)
    BY DEF TestOK, ShownOK
  <2> HIDE DEF all
  <2>2. CountedOK(t2, all)
    BY <1>1, <2>1 DEF CountedOK
  <2> QED
    BY <1>1, <2>2 DEF all
<1>4. RepoOK(t2, repos) /\ EndOK(t2)
  BY <1>1 DEF RepoOK, EndOK
<1> QED
  BY <1>1, <1>2, <1>3, <1>4 DEF TestOK, t2

LEMMA ProjectFiles ==
    ASSUME NEW n \in 1 .. Len(Projects)
    PROVE  /\ Projects[n] \in ProjectSet /\ FilesOf[Projects[n]] \in Seq(Files)
           /\ IsInjective(FilesOf[Projects[n]])
           /\ \A i \in 1 .. Len(Projects): i # n => OfProject(i) \cap OfProject(n) = {}
<1>1. DOMAIN Projects = 1 .. Len(Projects)
  BY ErrorDetectorAssumption
<1>2. \A i \in 1 .. Len(Projects): Projects[i] \in ProjectSet
  BY <1>1 DEF ProjectSet, Listing
<1>3. \A i \in 1 .. Len(Projects): i # n => Projects[i] # Projects[n]
  BY <1>1, ErrorDetectorAssumption DEF IsInjective
<1>4. \A i \in 1 .. Len(Projects): i # n => OfProject(i) \cap OfProject(n) = {}
  BY <1>2, <1>3, ErrorDetectorAssumption DEF OfProject
<1> QED
  BY <1>2, <1>4, ErrorDetectorAssumption

\* The next project is looked up before its first file.
LEMMA NextProject ==
    ASSUME NEW t \in TestRecord, NEW fs, NEW repos, TestOK(t, fs, repos), t.status = "running", t.left = <<>>,
           NEW n, n = t.project + 1, n <= Len(Projects), NEW flag \in BOOLEAN,
           NEW repos2, repos2[Projects[n]] = RepoOf[PathOf[Projects[n]]],
           NEW t2, t2 = [t EXCEPT !.project = n, !.left = FilesOf[Projects[n]], !.disturbed = flag],
           t.disturbed => flag
    PROVE  t2 \in TestRecord /\ TestOK(t2, fs, repos2)
<1>1. n \in 1 .. Len(Projects) /\ t.project \in Nat /\ Len(Projects) \in Nat
  BY ErrorDetectorAssumption DEF TestRecord
<1>2. /\ FilesOf[Projects[n]] \in Seq(Files) /\ IsInjective(FilesOf[Projects[n]])
      /\ \A i \in 1 .. Len(Projects): i # n => OfProject(i) \cap OfProject(n) = {}
  BY <1>1, ProjectFiles
<1>3. /\ t2 \in TestRecord /\ t2.disturbed = flag /\ t2.trigger = t.trigger /\ t2.limit = t.limit
      /\ t2.project = n /\ t2.left = FilesOf[Projects[n]] /\ t2.errors = t.errors /\ t2.total = t.total
      /\ t2.truncated = t.truncated /\ t2.scanned = t.scanned /\ t2.status = "running"
  <2> DEFINE left == FilesOf[Projects[n]]
  <2>1. n \in Nat /\ left \in Seq(Files)
    BY <1>1, <1>2
  <2>2. t2 = [t EXCEPT !.project = n, !.left = left, !.disturbed = flag]
    OBVIOUS
  <2> HIDE DEF left
  <2>3. /\ t2.disturbed = flag /\ t2.trigger = t.trigger /\ t2.limit = t.limit
        /\ t2.project = n /\ t2.left = left /\ t2.errors = t.errors /\ t2.total = t.total
        /\ t2.truncated = t.truncated /\ t2.scanned = t.scanned /\ t2.status = "running"
    BY <2>2 DEF TestRecord
  <2>4. t2 \in TestRecord
    BY <2>1, <2>2 DEF TestRecord
  <2> QED
    BY <2>3, <2>4 DEF left
<1>4. Listing(t2.left) = OfProject(n) /\ Seen(t2) = Seen(t) /\ Listing(t.left) = {}
  BY <1>3 DEF OfProject, Seen, Listing
<1>5. WalkOK(t2)
  <2>1. WalkOK(t)
    BY DEF TestOK
  <2>2. Seen(t) \cap OfProject(n) = {}
    <3> SUFFICES ASSUME NEW f \in Seen(t), f \in OfProject(n) PROVE FALSE
      OBVIOUS
    <3>1. PICK i \in 1 .. t.project: f \in OfProject(i)
      BY <2>1 DEF WalkOK
    <3>2. i \in 1 .. Len(Projects) /\ i # n
      BY <1>1
    <3> QED
      BY <1>2, <3>1, <3>2
  <2>3. \A i \in 1 .. n: i = n \/ i \in 1 .. t.project
    BY <1>1
  <2>4. \A i \in 1 .. n: OfProject(i) \subseteq Seen(t2) \cup Listing(t2.left)
    BY <1>4, <2>1, <2>3 DEF WalkOK
  <2>5. \A f \in Seen(t2): \E i \in 1 .. n: f \in OfProject(i)
    <3>1. 1 .. t.project \subseteq 1 .. n
      BY <1>1
    <3> QED
      BY <1>4, <2>1, <3>1 DEF WalkOK
  <2> QED
    BY <1>1, <1>2, <1>3, <1>4, <2>2, <2>4, <2>5 DEF WalkOK
<1>6. ReadOK(t2, fs) /\ BoundOK(t2) /\ EndOK(t2) /\ RepoOK(t2, repos2)
  BY <1>3 DEF TestOK, ReadOK, BoundOK, EndOK, RepoOK
<1>7. ShownOK(t2, fs)
  <2> SUFFICES ASSUME ~t.disturbed PROVE CountedOK(t2, AllOf(t2.trigger, fs, Listing(t2.scanned)))
    BY <1>3 DEF ShownOK
  <2> DEFINE all == AllOf(t.trigger, fs, Listing(t.scanned))
  <2>1. CountedOK(t, all)
    BY DEF TestOK, ShownOK
  <2> HIDE DEF all
  <2>2. CountedOK(t2, all)
    BY <1>3, <2>1 DEF CountedOK
  <2> QED
    BY <1>3, <2>2 DEF all
<1> QED
  BY <1>3, <1>5, <1>6, <1>7 DEF TestOK

\* A test that has looked at nothing.
LEMMA EmptyTest ==
    ASSUME NEW t \in TestRecord, NEW fs, NEW repos, t.project = 0, t.left = <<>>, t.errors = <<>>, t.total = 0,
           ~t.truncated, t.scanned = <<>>, t.status = "running"
    PROVE  TestOK(t, fs, repos)
<1>1. t.limit \in Nat
  BY DEF TestRecord
<1>2. Listing(t.left) = {} /\ Seen(t) = {} /\ Listing(t.scanned) = {} /\ IsInjective(t.left) /\ ToSet(t.errors) = {}
  BY DEF Listing, Seen, IsInjective, ToSet
<1>3. Len(Projects) \in Nat /\ MAX_TOTAL_COUNT \in Nat \ {0}
  BY ErrorDetectorAssumption
<1>4. WalkOK(t)
  BY <1>2, <1>3 DEF WalkOK
<1>5. ReadOK(t, fs) /\ RepoOK(t, repos) /\ EndOK(t) /\ BoundOK(t)
  BY <1>1, <1>2, <1>3 DEF ReadOK, RepoOK, EndOK, BoundOK
<1>6. CountedOK(t, AllOf(t.trigger, fs, Listing(t.scanned)))
  <2>1. AllOf(t.trigger, fs, Listing(t.scanned)) = {}
    BY <1>2 DEF AllOf
  <2>2. IsFiniteSet({}) /\ Cardinality({}) = 0
    BY FS_EmptySet
  <2> DEFINE none == {}
  <2>4. none = {} /\ IsFiniteSet(none) /\ Cardinality(none) = 0
    BY <2>2
  <2>3. t.total = Min({Cardinality(none), MAX_TOTAL_COUNT}) /\ ~(Cardinality(none) >= MAX_TOTAL_COUNT)
    <3> DEFINE a == Cardinality(none)
    <3>1. a = 0
      BY <2>4
    <3> HIDE DEF a
    <3>2. a \in Nat /\ MAX_TOTAL_COUNT \in Nat /\ a <= MAX_TOTAL_COUNT
      BY <1>3, <3>1
    <3>3. Min({a, MAX_TOTAL_COUNT}) = a
      BY <3>2, LeastOfTwo
    <3> QED
      BY <1>3, <3>1, <3>3 DEF a
  <2> HIDE DEF none
  <2>5. CountedOK(t, none)
    BY <1>2, <2>3, <2>4 DEF CountedOK
  <2> QED
    BY <2>1, <2>4, <2>5
<1> QED
  BY <1>4, <1>5, <1>6 DEF TestOK, ShownOK

\* A test at its start.
LEMMA StartedTest ==
    ASSUME NEW trigger \in Listing(Triggers), NEW limit \in Nat, NEW fs, NEW repos
    PROVE  LET t == [trigger |-> trigger, limit |-> limit, project |-> 0, left |-> <<>>,
                     errors |-> <<>>, total |-> 0, truncated |-> FALSE, scanned |-> <<>>,
                     status |-> "running", disturbed |-> FALSE]
           IN  t \in TestRecord /\ TestOK(t, fs, repos)
<1> DEFINE t == [trigger |-> trigger, limit |-> limit, project |-> 0, left |-> <<>>,
                 errors |-> <<>>, total |-> 0, truncated |-> FALSE, scanned |-> <<>>,
                 status |-> "running", disturbed |-> FALSE]
<1>1. t \in TestRecord
  BY DEF TestRecord
<1>2. /\ t.project = 0 /\ t.left = <<>> /\ t.errors = <<>> /\ t.total = 0
      /\ ~t.truncated /\ t.scanned = <<>> /\ t.status = "running"
  OBVIOUS
<1> HIDE DEF t
<1>3. TestOK(t, fs, repos)
  BY <1>1, <1>2, EmptyTest
<1> QED
  BY <1>1, <1>3 DEF t

-----------------------------------------------------------------------------
(* The steps of a test. *)

LEMMA TestStarts == DetectorInit => TestInv
  BY DEF DetectorInit, TestInv

\* What holds of the test, when there is one.
LEMMA TestIs ==
    ASSUME TestInv, test # <<>>
    PROVE  test[1] \in TestRecord /\ TestOK(test[1], files, table)
  BY DEF TestInv

\* A test that became another one, on the same files.
LEMMA NewTest ==
    ASSUME NEW t \in TestRecord, TestOK(t, files, table'), test' = <<t>>, files' = files
    PROVE  TestInv'
<1>1. test' \in Seq(TestRecord) /\ test'[1] = t
  OBVIOUS
<1> DEFINE repos == table'
<1>2. TestOK(t, files, repos)
  OBVIOUS
<1> HIDE DEF repos
<1>3. TestOK(test'[1], files', repos)
  BY <1>1, <1>2
<1> QED
  BY <1>1, <1>3 DEF TestInv, repos

LEMMA TestStays ==
    ASSUME DetectorInv, DetectorInv', TestInv, UNCHANGED <<table, test>>,
           \A f \in Files: /\ Len(files[f]) <= Len(files'[f])
                           /\ \A i \in 1 .. Len(files[f]): files'[f][i] = files[f][i]
    PROVE  TestInv'
<1> DEFINE fs == files'
<1>1. \A f \in Files: files[f] \in Seq(LineSet(f)) /\ fs[f] \in Seq(LineSet(f))
  BY DEF DetectorInv, FileOK
<1>2. \A f \in Files: Len(files[f]) <= Len(fs[f]) /\ \A i \in 1 .. Len(files[f]): fs[f][i] = files[f][i]
  OBVIOUS
<1> HIDE DEF fs
<1>3. ASSUME test # <<>> PROVE TestOK(test[1], fs, table)
  <2> DEFINE t == test[1]
             old == files
             repos == table
  <2>1. t \in TestRecord /\ TestOK(t, old, repos)
    BY <1>3, TestIs
  <2>2. \A f \in Files: /\ old[f] \in Seq(LineSet(f)) /\ fs[f] \in Seq(LineSet(f))
                        /\ Len(old[f]) <= Len(fs[f])
                        /\ \A i \in 1 .. Len(old[f]): fs[f][i] = old[f][i]
    BY <1>1, <1>2
  <2> HIDE DEF t, old, repos
  <2>3. TestOK(t, fs, repos)
    BY <2>1, <2>2, GrownTest
  <2> QED
    BY <2>3 DEF t, repos
<1> QED
  BY <1>3 DEF TestInv, fs

LEMMA SameFiles ==
    ASSUME DetectorInv, DetectorInv', TestInv, UNCHANGED <<files, table, test>>
    PROVE  TestInv'
<1>1. \A f \in Files: files[f] \in Seq(LineSet(f))
  BY DEF DetectorInv, FileOK
<1>2. \A f \in Files: /\ Len(files[f]) <= Len(files'[f])
                      /\ \A i \in 1 .. Len(files[f]): files'[f][i] = files[f][i]
  BY <1>1
<1> QED
  BY <1>2, TestStays

LEMMA AppendsTest ==
    ASSUME DetectorInv, DetectorInv', TestInv, NEW f \in Files, Appends(f)
    PROVE  TestInv'
<1>1. PICK m \in LineSet(f): GrowsBy(f, m)
  BY AppendedLine
<1>2. /\ files' = [files EXCEPT ![f] = Append(files[f], m)] /\ files \in [Files -> Seq(AnyLine)]
      /\ files[f] \in Seq(LineSet(f))
  BY <1>1 DEF GrowsBy, DetectorInv, DetectorTypeOK, FileOK
<1>3. \A g \in Files: files'[g] = IF g = f THEN Append(files[f], m) ELSE files[g]
  BY <1>2
<1>4. /\ Len(files[f]) <= Len(Append(files[f], m))
      /\ \A i \in 1 .. Len(files[f]): Append(files[f], m)[i] = files[f][i]
  BY <1>2
<1>5. \A g \in Files: /\ Len(files[g]) <= Len(files'[g])
                      /\ \A i \in 1 .. Len(files[g]): files'[g][i] = files[g][i]
  <2> TAKE g \in Files
  <2>1. CASE g = f
    BY <1>3, <1>4, <2>1
  <2>2. CASE g # f
    <3>1. files'[g] = files[g] /\ files[g] \in Seq(AnyLine)
      BY <1>2, <1>3, <2>2
    <3> QED
      BY <3>1
  <2> QED
    BY <2>1, <2>2
<1>6. UNCHANGED <<table, test>>
  BY DEF Appends
<1> QED
  BY <1>5, <1>6, TestStays

LEMMA DetectTest ==
    ASSUME DetectorInv, TestInv, NEW w \in Workers, NEW f \in Files, Detect(w, f)
    PROVE  TestInv'
<1> DEFINE project == ProjectOf(f)
           cwd == CwdHint(SubSeq(files[f], read[f] + 1, Len(files[f])), project)
           repos == table'
<1>1. /\ PreResolve(project, cwd) /\ files' = files
      /\ test' = IF Tested(project) THEN <<[test[1] EXCEPT !.disturbed = TRUE]>> ELSE test
  BY DEF Detect
<1>2. project \in ProjectSet /\ DetectorTypeOK /\ cwd \in DOMAIN RepoOf
  <2>1. SubSeq(files[f], read[f] + 1, Len(files[f])) \in Seq(LineSet(f))
    BY FileInv, RestOfFile DEF FileFacts
  <2> QED
    BY <2>1, HintIsKnown, ProjectIsKnown DEF DetectorInv
<1> HIDE DEF project, cwd
<1>3. \A q \in ProjectSet: q # project => repos[q] = table[q]
  BY <1>1, <1>2, LookedUp
<1> HIDE DEF repos
<1>4. CASE Tested(project)
  <2> DEFINE t == test[1]
  <2>1. t \in TestRecord /\ TestOK(t, files, table)
    BY <1>4, TestIs DEF Tested
  <2> HIDE DEF t
  <2>2. [t EXCEPT !.disturbed = TRUE] \in TestRecord /\ TestOK([t EXCEPT !.disturbed = TRUE], files, repos)
    BY <2>1, DisturbedTest
  <2> QED
    BY <1>1, <1>4, <2>2, NewTest DEF t, repos
<1>5. CASE ~Tested(project) /\ test # <<>>
  <2> DEFINE t == test[1]
  <2>1. t \in TestRecord /\ TestOK(t, files, table)
    BY <1>5, TestIs
  <2>2. t.status = "running" /\ t.project # 0 => repos[Projects[t.project]] = table[Projects[t.project]]
    <3> SUFFICES ASSUME t.status = "running", t.project # 0
                 PROVE  repos[Projects[t.project]] = table[Projects[t.project]]
      OBVIOUS
    <3>1. t.project \in 1 .. Len(Projects)
      BY <2>1, ErrorDetectorAssumption DEF TestOK, WalkOK
    <3>2. Projects[t.project] \in ProjectSet
      BY <3>1, ProjectFiles
    <3>3. Projects[t.project] # project
      BY <1>5, <3>1 DEF Tested
    <3> QED
      BY <1>3, <3>2, <3>3
  <2> HIDE DEF t
  <2>3. TestOK(t, files, repos)
    BY <2>1, <2>2, OtherRepo
  <2>4. test' = test /\ TestOK(test[1], files, repos)
    BY <1>1, <1>5, <2>3 DEF t
  <2> QED
    BY <1>1, <2>4 DEF TestInv, repos
<1>6. CASE ~Tested(project) /\ test = <<>>
  BY <1>1, <1>6 DEF TestInv
<1> QED
  BY <1>4, <1>5, <1>6

LEMMA StartsTestKeeps ==
    ASSUME StartsTest
    PROVE  TestInv'
<1>1. PICK k \in DOMAIN Triggers, limit \in {1, MAX_ERRORS + 1}:
          test' = <<[trigger |-> Triggers[k], limit |-> Min({limit, MAX_ERRORS}), project |-> 0, left |-> <<>>,
                     errors |-> <<>>, total |-> 0, truncated |-> FALSE, scanned |-> <<>>,
                     status |-> "running", disturbed |-> FALSE]>>
  BY DEF StartsTest
<1>2. files' = files
  BY DEF StartsTest
<1> DEFINE trigger == Triggers[k]
           most == Min({limit, MAX_ERRORS})
           repos == table'
           t == [trigger |-> trigger, limit |-> most, project |-> 0, left |-> <<>>,
                 errors |-> <<>>, total |-> 0, truncated |-> FALSE, scanned |-> <<>>,
                 status |-> "running", disturbed |-> FALSE]
<1>3. trigger \in Listing(Triggers)
  BY DEF Listing
<1>4. most \in Nat
  <2>1. limit \in Nat /\ MAX_ERRORS \in Nat
    BY ErrorDetectorAssumption
  <2> QED
    BY <2>1, LeastOfTwo
<1>5. test' = <<t>>
  BY <1>1
<1> HIDE DEF trigger, most, repos
<1>6. t \in TestRecord /\ TestOK(t, files, repos)
  BY <1>3, <1>4, StartedTest
<1> HIDE DEF t
<1> QED
  BY <1>2, <1>5, <1>6, NewTest DEF repos

LEMMA StopsTest ==
    ASSUME TestInv, test # <<>>, Stops(test[1])
    PROVE  TestInv'
<1> DEFINE t == test[1]
           over == TRUE
           same == t.truncated
           repos == table'
<1>1. t \in TestRecord /\ TestOK(t, files, table)
  BY TestIs
<1>2. files' = files /\ repos = table
  BY DEF Stops
<1>3. test' = <<[t EXCEPT !.status = "done", !.truncated = TRUE]>> \/
      (Enough(t) /\ test' = <<[t EXCEPT !.status = "done"]>>)
  BY DEF Stops, Ends
<1>4. Len(t.errors) \in Nat /\ t.limit \in Nat /\ same \in BOOLEAN
  BY <1>1 DEF TestRecord
<1>5. [t EXCEPT !.status = "done"] = [t EXCEPT !.status = "done", !.truncated = same]
  BY <1>1 DEF TestRecord
<1> HIDE DEF t, repos
<1>6. CASE test' = <<[t EXCEPT !.status = "done", !.truncated = TRUE]>>
  <2> DEFINE t2 == [t EXCEPT !.status = "done", !.truncated = TRUE]
  <2>1. t2 \in TestRecord /\ TestOK(t2, files, table)
    BY <1>1, EndedTest
  <2> HIDE DEF t2
  <2> QED
    BY <1>2, <1>6, <2>1, NewTest DEF t2, repos
<1>7. CASE Enough(t) /\ test' = <<[t EXCEPT !.status = "done"]>>
  <2> DEFINE t2 == [t EXCEPT !.status = "done", !.truncated = same]
  <2>1. same \in BOOLEAN /\ (t.truncated => same) /\ ~(Len(t.errors) < t.limit)
    BY <1>4, <1>7 DEF Enough
  <2>2. test' = <<t2>>
    BY <1>5, <1>7
  <2> HIDE DEF same
  <2>3. t2 \in TestRecord /\ TestOK(t2, files, table)
    BY <1>1, <2>1, EndedTest
  <2> HIDE DEF t2
  <2> QED
    BY <1>2, <2>2, <2>3, NewTest DEF repos
<1> QED
  BY <1>3, <1>6, <1>7

LEMMA RunsTest ==
    ASSUME DetectorInv, TestInv, RunTest
    PROVE  TestInv'
<1> DEFINE t == test[1]
           n == t.project + 1
           repos == table'
<1>1. /\ test # <<>> /\ t.status = "running" /\ t.left = <<>>
      /\ t \in TestRecord /\ TestOK(t, files, table)
  BY TestIs DEF RunTest
<1>2. t.project \in 0 .. Len(Projects) /\ Len(Projects) \in Nat /\ t.truncated \in BOOLEAN /\ t.disturbed \in BOOLEAN
  BY <1>1, ErrorDetectorAssumption DEF TestOK, WalkOK, TestRecord
<1>3. CASE n > Len(Projects) /\ Ends(t) /\ UNCHANGED <<files, table>>
  <2> DEFINE same == t.truncated
             t2 == [t EXCEPT !.status = "done", !.truncated = same]
  <2>1. [t EXCEPT !.status = "done"] = t2
    BY <1>1 DEF TestRecord
  <2>2. same \in BOOLEAN /\ (t.truncated => same) /\ t.project = Len(Projects)
    BY <1>2, <1>3
  <2>3. test' = <<t2>>
    BY <1>3, <2>1 DEF Ends
  <2> HIDE DEF same, t
  <2>4. t2 \in TestRecord /\ TestOK(t2, files, table)
    BY <1>1, <2>2, EndedTest
  <2> HIDE DEF t2
  <2> QED
    BY <1>3, <2>3, <2>4, NewTest
<1>4. CASE Stops(t)
  BY <1>1, <1>4, StopsTest
<1>5. CASE /\ n <= Len(Projects)
           /\ PreResolve(Projects[n], PathOf[Projects[n]])
           /\ test' = <<[t EXCEPT !.project = n, !.left = FilesOf[Projects[n]],
                                  !.disturbed = t.disturbed \/ Overlapping(Projects[n])]>>
           /\ files' = files
  <2> DEFINE flag == t.disturbed \/ Overlapping(Projects[n])
             t2 == [t EXCEPT !.project = n, !.left = FilesOf[Projects[n]], !.disturbed = flag]
             project == Projects[n]
  <2>1. n \in 1 .. Len(Projects)
    BY <1>2, <1>5
  <2>2. project \in ProjectSet /\ PathOf[project] \in DOMAIN RepoOf
    BY <2>1, ProjectFiles, ErrorDetectorAssumption
  <2>3. PreResolve(project, PathOf[project]) /\ DetectorTypeOK
    BY <1>5 DEF DetectorInv
  <2>4. repos[Projects[n]] = RepoOf[PathOf[Projects[n]]]
    <3> HIDE DEF project
    <3>1. repos[project] = RepoOf[PathOf[project]]
      BY <2>2, <2>3, LookedUp
    <3> QED
      BY <3>1 DEF project
  <2>5. flag \in BOOLEAN /\ (t.disturbed => flag)
    BY <1>2 DEF Overlapping
  <2>6. test' = <<t2>>
    BY <1>5
  <2>7. n = t.project + 1
    OBVIOUS
  <2> HIDE DEF flag, project, repos, n, t
  <2>8. t2 \in TestRecord /\ TestOK(t2, files, repos)
    BY <1>1, <1>5, <2>4, <2>5, <2>7, NextProject
  <2> HIDE DEF t2
  <2> QED
    BY <1>5, <2>6, <2>8, NewTest DEF repos
<1> QED
  BY <1>3, <1>4, <1>5 DEF RunTest

LEMMA ProcessesFile ==
    ASSUME DetectorInv, TestInv, ProcessSessionFile
    PROVE  TestInv'
<1> DEFINE t == test[1]
           f == Head(t.left)
           repo == table[ProjectOf(f)]
           given == DetectErrorsWithTrigger(files[f], t.trigger, repo)
           shown == ShownOf(f, given)
           t2 == WithErrors(t, f, shown)
<1>1. /\ test # <<>> /\ t.status = "running" /\ t.left # <<>>
      /\ t \in TestRecord /\ TestOK(t, files, table)
  BY TestIs DEF ProcessSessionFile
<1>2. CASE Stops(t)
  BY <1>1, <1>2, StopsTest
<1>3. CASE t.total < MAX_TOTAL_COUNT /\ ~Enough(t) /\ test' = <<t2>> /\ UNCHANGED <<files, table>>
  <2>1. \A g \in Files: files[g] \in Seq(LineSet(g))
    BY DEF DetectorInv, FileOK
  <2>2. f = Head(t.left) /\ shown = ShownOf(f, DetectErrorsWithTrigger(files[f], t.trigger, table[ProjectOf(f)]))
    OBVIOUS
  <2> HIDE DEF t, f, shown
  <2>3. t2 \in TestRecord /\ TestOK(t2, files, table)
    BY <1>1, <1>3, <2>1, <2>2, ScannedTest
  <2> HIDE DEF t2
  <2> QED
    BY <1>3, <2>3, NewTest
<1> QED
  BY <1>2, <1>3 DEF ProcessSessionFile, ShownOf

LEMMA TestStep == DetectorInv /\ DetectorInv' /\ TestInv /\ [DetectorNext]_detectorVars => TestInv'
<1> SUFFICES ASSUME DetectorInv, DetectorInv', TestInv, [DetectorNext]_detectorVars
             PROVE  TestInv'
  OBVIOUS
<1>1. CASE \E f \in Files: Appends(f)
  BY <1>1, AppendsTest
<1>2. CASE \E w \in Workers, f \in Files: Detect(w, f)
  BY <1>2, DetectTest
<1>3. CASE \E w \in Workers: ChecksNext(w) \/ Reports(w)
  <2>1. UNCHANGED <<files, table, test>>
    BY <1>3 DEF ChecksNext, Reports
  <2> QED
    BY <2>1, SameFiles
<1>4. CASE StartsTest
  BY <1>4, StartsTestKeeps
<1>5. CASE RunTest
  BY <1>5, RunsTest
<1>6. CASE ProcessSessionFile
  BY <1>6, ProcessesFile
<1>7. CASE UNCHANGED detectorVars
  <2>1. UNCHANGED <<files, table, test>>
    BY <1>7 DEF detectorVars
  <2> QED
    BY <2>1, SameFiles
<1> QED
  BY <1>1, <1>2, <1>3, <1>4, <1>5, <1>6, <1>7 DEF DetectorNext

-----------------------------------------------------------------------------
(* What a detection found so far is of the messages it has checked. *)

FoundBefore(job) == \A e \in ToSet(job.found): e.line \in 1 .. job.next - 1
FoundInv == \A w \in Workers: live[w] # <<>> => FoundBefore(live[w][1])

LEMMA FoundStarts == DetectorInit => FoundInv
  BY DEF DetectorInit, FoundInv

LEMMA MarkedFound ==
    ASSUME DetectorInv, FoundInv, NEW v \in Workers, NEW project, Marked(v, project) # <<>>
    PROVE  FoundBefore(Marked(v, project)[1])
<1> DEFINE job == live[v][1]
           job2 == [job EXCEPT !.disturbed = TRUE]
<1>1. live[v] # <<>>
  BY DEF Marked
<1>2. job \in Job /\ FoundBefore(job)
  BY <1>1, JobInv DEF JobFacts, FoundInv
<1>3. job2.found = job.found /\ job2.next = job.next
  BY <1>2 DEF Job
<1> HIDE DEF job2, job
<1>4. FoundBefore(job2)
  BY <1>2, <1>3 DEF FoundBefore
<1>5. Marked(v, project) = <<job2>> \/ Marked(v, project) = live[v]
  BY DEF Marked, job2, job
<1> QED
  BY <1>2, <1>4, <1>5 DEF job

LEMMA CheckedFound ==
    ASSUME DetectorInv, FoundInv, NEW w \in Workers, ChecksNext(w)
    PROVE  FoundInv'
<1> DEFINE job == live[w][1]
           new == CheckMessage(job.part, job.next, Triggers, table[ProjectOf(job.file)])
           job2 == [job EXCEPT !.next = job.next + 1, !.found = job.found \o new]
<1>1. /\ live[w] # <<>> /\ job.next <= Len(job.part) /\ live' = [live EXCEPT ![w] = <<job2>>]
  BY DEF ChecksNext
<1>2. /\ job \in Job /\ job.file \in Files /\ job.part \in Seq(LineSet(job.file)) /\ job.found \in Seq(Found)
      /\ job.next \in DOMAIN job.part /\ job.next \in Nat /\ job.next >= 1 /\ FoundBefore(job)
  <2>1. JobFacts(job) /\ FoundBefore(job)
    BY <1>1, JobInv DEF FoundInv
  <2>2. PartOK(job, files[job.file], read[job.file], cuts[job.file])
    BY <2>1 DEF JobFacts, JobOK
  <2> QED
    BY <1>1, <2>1, <2>2 DEF JobFacts, Job, PartOK
<1>3. new \in Seq(Found) /\ \A e \in ToSet(new): e.line = job.next
  <2> DEFINE f == job.file
             msgs == job.part
             i == job.next
             repo == table[ProjectOf(job.file)]
  <2>1. /\ f \in Files /\ msgs \in Seq(LineSet(f)) /\ i \in DOMAIN msgs /\ Triggers \in Seq(Listing(Triggers))
        /\ \A m \in LineSet(f): IsLine(m, f)
    BY <1>2, LineFacts, ErrorDetectorAssumption
  <2> HIDE DEF f, msgs, i, repo
  <2>2. /\ CheckMessage(msgs, i, Triggers, repo) \in Seq(Found)
        /\ ToSet(CheckMessage(msgs, i, Triggers, repo)) = Marks(f, msgs, i, Triggers, repo)
    BY <2>1, MessageGives
  <2>3. \A e \in Marks(f, msgs, i, Triggers, repo): e.line = i
    BY DEF Marks, ErrorAt
  <2> QED
    BY <2>2, <2>3 DEF msgs, i, repo
<1> HIDE DEF new
<1>4. job2.next = job.next + 1 /\ job2.found = job.found \o new
  BY <1>2 DEF Job
<1>5. FoundBefore(job2)
  <2>1. ToSet(job2.found) = ToSet(job.found) \cup ToSet(new)
    <3> HIDE DEF job, job2
    <3> DEFINE a == job.found
    <3>1. a \in Seq(Found) /\ new \in Seq(Found) /\ job2.found = a \o new
      BY <1>2, <1>3, <1>4
    <3> HIDE DEF a
    <3>2. ToSet(a \o new) = ToSet(a) \cup ToSet(new)
      BY <3>1, JoinedElements
    <3> QED
      BY <3>1, <3>2 DEF a
  <2> HIDE DEF job2, job
  <2>2. \A e \in ToSet(job.found): e.line \in 1 .. job.next - 1
    BY <1>2 DEF FoundBefore
  <2>3. 1 .. job.next - 1 \subseteq 1 .. job2.next - 1 /\ job.next \in 1 .. job2.next - 1
    BY <1>2, <1>4
  <2> QED
    BY <1>3, <2>1, <2>2, <2>3 DEF FoundBefore
<1> HIDE DEF job2
<1>6. \A v \in Workers: live'[v] = IF v = w THEN <<job2>> ELSE live[v]
  BY <1>1 DEF DetectorInv, DetectorTypeOK
<1> QED
  BY <1>5, <1>6 DEF FoundInv

LEMMA FoundStep == DetectorInv /\ FoundInv /\ [DetectorNext]_detectorVars => FoundInv'
<1> SUFFICES ASSUME DetectorInv, FoundInv, [DetectorNext]_detectorVars
             PROVE  FoundInv'
  OBVIOUS
<1>1. ASSUME live' = live PROVE FoundInv'
  BY <1>1 DEF FoundInv
<1>2. ASSUME NEW project, live' = [v \in Workers |-> Marked(v, project)] PROVE FoundInv'
  BY <1>2, MarkedFound DEF FoundInv
<1>3. CASE \E f \in Files: Appends(f)
  BY <1>1, <1>3 DEF Appends
<1>4. ASSUME NEW w \in Workers, NEW f \in Files, Detect(w, f) PROVE FoundInv'
  <2> DEFINE flag == Overlapping(ProjectOf(f)) \/ Tested(ProjectOf(f))
             job == NewJob(f, flag)
  <2>1. live' = [v \in Workers |-> IF v = w THEN <<job>> ELSE Marked(v, ProjectOf(f))]
    BY <1>4 DEF Detect, Marked, NewJob
  <2>2. FoundBefore(job)
    BY DEF NewJob, FoundBefore, ToSet
  <2> HIDE DEF job
  <2> QED
    BY <2>1, <2>2, MarkedFound DEF FoundInv
<1>5. ASSUME NEW w \in Workers, Reports(w) PROVE FoundInv'
  <2>1. live' = [live EXCEPT ![w] = <<>>]
    BY <1>5 DEF Reports
  <2>2. \A v \in Workers: live'[v] = IF v = w THEN <<>> ELSE live[v]
    BY <2>1 DEF DetectorInv, DetectorTypeOK
  <2> QED
    BY <2>2 DEF FoundInv
<1>6. CASE RunTest
  <2>1. live' = live \/ live' = [v \in Workers |-> Marked(v, Projects[test[1].project + 1])]
    BY <1>6 DEF RunTest, Stops, Marked
  <2> QED
    BY <1>1, <1>2, <2>1
<1>7. CASE StartsTest \/ ProcessSessionFile \/ UNCHANGED detectorVars
  BY <1>1, <1>7 DEF StartsTest, ProcessSessionFile, Stops, detectorVars
<1> QED
  BY <1>3, <1>4, <1>5, <1>6, <1>7, CheckedFound DEF DetectorNext

LEMMA TestInvariant == DetectorSpec => [](FoundInv /\ TestInv)
<1>1. DetectorInit => FoundInv /\ TestInv
  BY FoundStarts, TestStarts
<1>2. DetectorInv /\ DetectorInv' /\ (FoundInv /\ TestInv) /\ [DetectorNext]_detectorVars => (FoundInv /\ TestInv)'
  BY FoundStep, TestStep
<1> QED
  BY <1>1, <1>2, DetectorInvariant, PTL DEF DetectorSpec

\* The parts, the errors and the counters have their types.
LEMMA DetectionTypes == DetectorInv /\ FoundInv /\ TestInv => DetectionOK
<1> SUFFICES ASSUME DetectorInv, FoundInv, TestInv PROVE DetectionOK
  OBVIOUS
<1>1. \A p \in ProjectSet: table[p] \in {"unknown"} \cup Listing(RepoOf)
  BY DEF DetectorInv, DetectorTypeOK
<1>2. ASSUME NEW w \in Workers, live[w] # <<>>
      PROVE  /\ live[w][1].found \in Seq(ErrorsOfPart(live[w][1]))
             /\ live[w][1].from + Len(live[w][1].part) <= read[live[w][1].file]
  <2> DEFINE job == live[w][1]
  <2>1. JobFacts(job) /\ FoundBefore(job)
    BY <1>2, JobInv DEF FoundInv
  <2> HIDE DEF job
  <2>2. /\ job.found \in Seq(Found) /\ job.part \in Seq(LineSet(job.file)) /\ Len(job.part) \in Nat
        /\ job.next \in 1 .. Len(job.part) + 1 /\ job.from + Len(job.part) = read[job.file]
        /\ job.from \in Nat /\ DOMAIN job.part = 1 .. Len(job.part)
        /\ \A e \in ToSet(job.found): e.tool = job.file
    BY <2>1 DEF JobFacts, Job, JobOK, PartOK, TrueOK, IsTrue
  <2>3. \A e \in ToSet(job.found): e \in ErrorsOfPart(job)
    <3> TAKE e \in ToSet(job.found)
    <3>1. e \in Found
      BY <2>2 DEF ToSet
    <3>2. e.line \in 1 .. job.next - 1
      BY <2>1 DEF FoundBefore
    <3>3. e.line \in DOMAIN job.part
      BY <2>2, <3>2
    <3>4. e = [trigger |-> e.trigger, line |-> e.line, tool |-> e.tool]
      BY <3>1 DEF Found
    <3> QED
      BY <2>2, <3>1, <3>3, <3>4 DEF Found, ErrorsOfPart, NamesOfTriggers
  <2>4. job.found \in Seq(ErrorsOfPart(job))
    <3> DEFINE T == ErrorsOfPart(job)
               s == job.found
    <3>1. s \in Seq(Found) /\ \A i \in DOMAIN s: s[i] \in T
      BY <2>2, <2>3 DEF ToSet
    <3> HIDE DEF T, s
    <3>2. s \in Seq(T)
      BY <3>1
    <3> QED
      BY <3>2 DEF T, s
  <2> QED
    BY <2>2, <2>4 DEF job
<1>3. \A f \in Files: read[f] \in 0 .. Len(files[f]) /\ cuts[f] \subseteq 1 .. read[f]
  BY FileInv DEF FileFacts
<1>4. test # <<>> => /\ test[1].total \in 0 .. MAX_TOTAL_COUNT
                     /\ Len(test[1].errors) <= test[1].limit
                     /\ test[1].status \in {"running", "done"}
  BY TestIs, ErrorDetectorAssumption DEF TestRecord, TestOK, BoundOK
<1> QED
  BY <1>1, <1>2, <1>3, <1>4 DEF DetectionOK

LEMMA ShownIsAll == \A t: ToBeShown(t) = AllOf(t.trigger, files, Listing(t.scanned))
  BY DEF ToBeShown, FoundIn, AllOf, FoundOf, OwnRepo

\* A test that ended on its own with room left shows what detection would
\* find, and its total counts every error of what it has looked at.
THEOREM TestsAreDetections == DetectorSpec => []TestIsDetection
<1> SUFFICES DetectorInv /\ FoundInv /\ TestInv => TestIsDetection
  BY DetectorInvariant, TestInvariant, PTL
<1> SUFFICES ASSUME DetectorInv, FoundInv, TestInv PROVE TestIsDetection
  OBVIOUS
<1>1. TestFindsWhatDetectionFinds
  <2> DEFINE t == test[1]
  <2> SUFFICES ASSUME test # <<>>, t.status = "done", ~t.truncated, ~t.disturbed, Len(t.errors) < t.limit
               PROVE  {x[1] : x \in Listing(t.scanned)} = Files /\ Listing(t.errors) = ToBeShown(t)
    BY DEF TestFindsWhatDetectionFinds
  <2>1. t \in TestRecord /\ TestOK(t, files, table)
    BY TestIs
  <2>2. Seen(t) = Files
    <3>1. /\ Seen(t) \subseteq Files /\ Listing(t.left) = {} /\ t.project = Len(Projects)
          /\ \A i \in 1 .. Len(Projects): OfProject(i) \subseteq Seen(t)
      <4> HIDE DEF t
      <4>1. Seen(t) \subseteq Files
        BY <2>1, TestFacts
      <4>2. t.project = Len(Projects) /\ t.left = <<>> /\ WalkOK(t)
        BY <2>1 DEF TestOK, EndOK
      <4>3. Listing(t.left) = {}
        BY <4>2 DEF Listing
      <4> QED
        BY <4>1, <4>2, <4>3 DEF WalkOK
    <3>2. \A f \in Files: \E i \in 1 .. Len(Projects): f \in OfProject(i)
      <4>1. DOMAIN Projects = 1 .. Len(Projects)
        BY ErrorDetectorAssumption
      <4> QED
        BY <4>1 DEF Files, ProjectSet, Listing, OfProject
    <3> QED
      BY <3>1, <3>2
  <2>3. ToSet(t.errors) = AllOf(t.trigger, files, Listing(t.scanned))
    BY <2>1 DEF TestOK, ShownOK, CountedOK
  <2> QED
    BY <2>2, <2>3, ShownIsAll DEF Seen, ToSet, Listing
<1>2. TestCountsAll
  BY TestIs, ShownIsAll DEF TestCountsAll, TestOK, ShownOK, CountedOK
<1> QED
  BY <1>1, <1>2, DetectionTypes DEF TestIsDetection
=============================================================================
