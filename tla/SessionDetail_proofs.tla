------------------------- MODULE SessionDetail_proofs -------------------------
(***************************************************************************)
(* A labelled answer is never stale, whatever the number of clients,       *)
(* contexts, writes, switches and failures.                                *)
(*                                                                         *)
(* The argument follows a stamp through a request.  Files only grow, so a  *)
(* stamp taken from one is never ahead of it; the fingerprint is taken     *)
(* after the client asked and before the file is parsed, so it lies        *)
(* between what the file was at the question (floor) and what is parsed.   *)
(* The entry inherits that relation from the request that stores it, and   *)
(* a request that is served from the entry agrees with its fingerprint.    *)
(*                                                                         *)
(* While no access fails and the context stays, the same holds of what the *)
(* clients show, and an entry knows the last change of the subagents that  *)
(* was handled, unless its request was being served then.                  *)
(*                                                                         *)
(* At the end, the other answer of the same service: what a deletion       *)
(* reports.                                                                *)
(***************************************************************************)
EXTENDS SessionDetail, SessionDeletion, TLAPS

Stamp == [ctx : Contexts \cup {"none"}, version : Nat]
File == [main : Nat, subs : Nat]
Label == {"idle", "check", "stat", "look", "parse", "subs", "store"}
Request == [known : Stamp, path : Contexts, fs : Contexts, fp : Stamp,
            main : Stamp, subs : Stamp, failed : BOOLEAN]
Shown == [main : Stamp, fp : Stamp]
Reply == [kind : {"none", "missing", "unchanged", "full"}, main : Stamp, fp : Stamp,
          asked : Stamp, failed : BOOLEAN, floor : Stamp]
Entry == [main : Stamp, subs : Stamp, fp : Stamp, stored : BOOLEAN, late : BOOLEAN]

\* The types, without the bounds that the runs give to the versions.
Typed ==
    /\ file \in [Contexts -> File]
    /\ active \in Contexts
    /\ entry \in Entry
    /\ pc \in [Clients -> Label]
    /\ req \in [Clients -> Request]
    /\ held \in [Clients -> Shown]
    /\ answer \in [Clients -> Reply]

\* The fingerprint lies between the question and the file.
Between(q, a, f) ==
    /\ q.fp.ctx = q.path
    /\ q.fs = q.path
    /\ a.floor.version <= q.fp.version
    /\ q.fp.version <= f[q.path].main

\* A request q at a label, with the client's reply a, while the files are f.
Served(q, label, a, f) ==
    /\ label \in {"check", "stat"} => q.fp = Nothing
    /\ label # "idle" => a.floor.ctx = q.path /\ a.floor.version <= f[q.path].main
    /\ label \in {"look", "parse", "subs", "store"} /\ q.fp # Nothing => Between(q, a, f)
    /\ label \in {"subs", "store"} /\ q.fp # Nothing /\ q.main # Nothing => Fresh(q.main, q.fp)
    /\ a.kind = "full" /\ Nothing \notin {a.asked, a.fp, a.main} => Fresh(a.main, a.floor)

IInv ==
    /\ Typed
    /\ LabelIsHonest
    /\ \A r \in Clients : Served(req[r], pc[r], answer[r], file)

-----------------------------------------------------------------------------
LEMMA NothingIsAStamp == Nothing \in Stamp
  BY DEF Nothing, Stamp

LEMMA MainIsAStamp ==
  ASSUME Typed, NEW c \in Contexts
  PROVE  /\ Main(c) \in Stamp
         /\ Subs(c) \in Stamp
         /\ Main(c) # Nothing
         /\ Main(c).ctx = c
         /\ Main(c).version = file[c].main
  BY DetailAssumption DEF Typed, Main, Subs, Stamp, File, Nothing

(* Growing files keep what is known of a request. *)
LEMMA GrowthKeeps ==
  ASSUME NEW f \in [Contexts -> File], NEW g \in [Contexts -> File],
         \A c \in Contexts : f[c].main <= g[c].main,
         NEW q \in Request, NEW label \in Label, NEW a \in Reply,
         Served(q, label, a, f)
  PROVE  Served(q, label, a, g)
  <1>1. /\ q.path \in Contexts
        /\ f[q.path].main \in Nat
        /\ g[q.path].main \in Nat
        /\ f[q.path].main <= g[q.path].main
        /\ a.floor.version \in Nat
        /\ q.fp.version \in Nat
    BY DEF Request, Reply, Stamp, File
  <1>2. label # "idle" => a.floor.ctx = q.path /\ a.floor.version <= g[q.path].main
    BY <1>1 DEF Served
  <1>3. label \in {"look", "parse", "subs", "store"} /\ q.fp # Nothing => Between(q, a, g)
    BY <1>1 DEF Served, Between
  <1> QED BY <1>2, <1>3 DEF Served

(* A step of one client that leaves the files and the others alone. *)
LEMMA OneMoves ==
  ASSUME IInv, Typed', LabelIsHonest', file' = file, NEW r \in Clients,
         \A x \in Clients : x # r => /\ req'[x] = req[x]
                                     /\ pc'[x] = pc[x]
                                     /\ answer'[x] = answer[x],
         Served(req'[r], pc'[r], answer'[r], file)
  PROVE  IInv'
  BY DEF IInv

(* The end of a request, with a reply that is fresh if it is labelled. *)
LEMMA Ending ==
  ASSUME IInv, file' = file, active' \in Contexts, entry' \in Entry, LabelIsHonest',
         NEW r \in Clients, NEW kind \in {"missing", "unchanged", "full"},
         NEW main \in Stamp, NEW fp \in Stamp,
         req' \in [Clients -> Request],
         \A x \in Clients : x # r => req'[x] = req[x],
         Answer(r, kind, main, fp),
         kind = "full" /\ Nothing \notin {req'[r].fp, fp, main} => Fresh(main, answer[r].floor)
  PROVE  IInv'
  <1>1. answer' \in [Clients -> Reply]
    <2> DEFINE a == [answer[r] EXCEPT !.kind = kind, !.main = main, !.fp = fp,
                       !.asked = req'[r].fp, !.failed = req'[r].failed]
    <2>1. req'[r].fp \in Stamp /\ req'[r].failed \in BOOLEAN
      BY DEF Request
    <2>2. answer[r] \in Reply
      BY DEF IInv, Typed
    <2>3. a \in Reply
      BY <2>1, <2>2 DEF Reply
    <2> QED BY <2>3 DEF IInv, Typed, Answer
  <1>2. held' \in [Clients -> Shown]
    <2>1. CASE kind # "full"
      BY <2>1 DEF IInv, Typed, Answer
    <2>2. CASE kind = "full"
      BY <2>2 DEF IInv, Typed, Answer, Shown
    <2> QED BY <2>1, <2>2
  <1>3. pc' \in [Clients -> Label]
    BY DEF IInv, Typed, Answer, Goto, Label
  <1>4. Typed'
    BY <1>1, <1>2, <1>3 DEF IInv, Typed
  <1>5. /\ answer'[r].kind = kind
        /\ answer'[r].main = main
        /\ answer'[r].fp = fp
        /\ answer'[r].asked = req'[r].fp
        /\ answer'[r].floor = answer[r].floor
    BY DEF IInv, Typed, Answer, Reply
  <1>6. pc'[r] = "idle"
    BY DEF IInv, Typed, Answer, Goto
  <1>7. Served(req'[r], pc'[r], answer'[r], file)
    BY <1>5, <1>6 DEF Served
  <1>8. \A x \in Clients : x # r => pc'[x] = pc[x] /\ answer'[x] = answer[x]
    BY DEF IInv, Typed, Answer, Goto
  <1> QED BY <1>4, <1>7, <1>8, OneMoves

-----------------------------------------------------------------------------
LEMMA InitOk == Init => IInv
  <1> SUFFICES ASSUME Init PROVE IInv
    OBVIOUS
  <1>1. Typed
    <2>1. file \in [Contexts -> File]
      BY DEF Init, File
    <2>2. entry \in Entry
      BY NothingIsAStamp DEF Init, Entry, NoEntry
    <2>3. NoReq \in Request
      BY NothingIsAStamp, DetailAssumption DEF NoReq, Request
    <2>4. NoAnswer \in Reply
      BY NothingIsAStamp DEF NoAnswer, Reply
    <2>5. [main |-> Nothing, fp |-> Nothing] \in Shown
      BY NothingIsAStamp DEF Shown
    <2> QED BY <2>1, <2>2, <2>3, <2>4, <2>5, DetailAssumption DEF Init, Typed, Label
  <1>2. LabelIsHonest
    BY DEF Init, NoEntry, LabelIsHonest
  <1>3. ASSUME NEW r \in Clients PROVE Served(req[r], pc[r], answer[r], file)
    BY DEF Init, NoAnswer, Served
  <1> QED BY <1>1, <1>2, <1>3 DEF IInv

LEMMA WriteStep ==
  ASSUME IInv, NEW c \in Contexts, NEW part \in {"main", "subs"}, Write(c, part)
  PROVE  IInv'
  <1>1. file' \in [Contexts -> File] /\ \A d \in Contexts : file[d].main <= file'[d].main
    <2>1. CASE part = "main"
      <3>1. file' = [file EXCEPT ![c].main = @ + 1]
        BY <2>1 DEF Write
      <3> QED BY <3>1 DEF IInv, Typed, File
    <2>2. CASE part = "subs"
      <3>1. file' = [file EXCEPT ![c].subs = @ + 1]
        BY <2>2 DEF Write
      <3> QED BY <3>1 DEF IInv, Typed, File
    <2> QED BY <2>1, <2>2
  <1>2. Typed'
    BY <1>1 DEF IInv, Typed, Write, requests
  <1>3. LabelIsHonest'
    BY DEF IInv, LabelIsHonest, Write
  <1>4. ASSUME NEW r \in Clients PROVE Served(req[r], pc[r], answer[r], file')
    <2>1. /\ file \in [Contexts -> File]
          /\ req[r] \in Request
          /\ pc[r] \in Label
          /\ answer[r] \in Reply
          /\ Served(req[r], pc[r], answer[r], file)
      BY DEF IInv, Typed
    <2> QED BY <1>1, <2>1, GrowthKeeps
  <1>5. req' = req /\ pc' = pc /\ answer' = answer
    BY DEF Write, requests
  <1> QED BY <1>2, <1>3, <1>4, <1>5 DEF IInv

(* A removal of the entry, by the main listener or by the cache. *)
LEMMA RemovalStep == ASSUME IInv, HandleEvent \/ Evict PROVE IInv'
  <1>1. NoEntry \in Entry
    BY NothingIsAStamp DEF NoEntry, Entry
  <1>2. entry' = NoEntry /\ UNCHANGED <<file, active, pc, req, held, answer>>
    BY DEF HandleEvent, Evict, requests
  <1>3. Typed'
    BY <1>1, <1>2 DEF IInv, Typed
  <1>4. LabelIsHonest'
    BY <1>2 DEF LabelIsHonest, NoEntry
  <1> QED BY <1>2, <1>3, <1>4 DEF IInv

LEMMA SwitchStep == ASSUME IInv, NEW c \in Contexts, SwitchContext(c) PROVE IInv'
  BY DEF IInv, Typed, LabelIsHonest, SwitchContext, requests

LEMMA AskStep ==
  ASSUME IInv, NEW r \in Clients, NEW known \in {Nothing, held[r].fp}, Ask(r, known)
  PROVE  IInv'
  <1> DEFINE q == [NoReq EXCEPT !.known = known, !.path = active]
             a == [NoAnswer EXCEPT !.floor = Main(active)]
  <1>1. known \in Stamp
    BY NothingIsAStamp DEF IInv, Typed, Shown
  <1>2. /\ q \in Request
        /\ q.fp = Nothing
        /\ q.path = active
    BY <1>1, NothingIsAStamp, DetailAssumption DEF NoReq, Request, IInv, Typed
  <1>3. /\ a \in Reply
        /\ a.kind = "none"
        /\ a.floor = Main(active)
    <2>1. Main(active) \in Stamp
      BY MainIsAStamp DEF IInv, Typed
    <2> QED BY <2>1, NothingIsAStamp DEF NoAnswer, Reply
  <1>4. /\ req' = [req EXCEPT ![r] = q]
        /\ answer' = [answer EXCEPT ![r] = a]
        /\ pc' = [pc EXCEPT ![r] = "check"]
        /\ UNCHANGED <<file, active, entry, held>>
    BY DEF Ask, Goto
  <1> HIDE DEF q, a
  <1>5. Typed'
    BY <1>2, <1>3, <1>4 DEF IInv, Typed, Label
  <1>6. LabelIsHonest'
    BY <1>4 DEF IInv, LabelIsHonest
  <1>7. req'[r] = q /\ answer'[r] = a /\ pc'[r] = "check"
    BY <1>4 DEF IInv, Typed
  <1>8. a.floor.ctx = active /\ a.floor.version <= file[active].main
    <2>1. file[active].main \in Nat
      BY DEF IInv, Typed, File
    <2> QED BY <1>3, <2>1, MainIsAStamp DEF IInv, Typed
  <1>9. Served(req'[r], pc'[r], answer'[r], file)
    BY <1>2, <1>3, <1>7, <1>8 DEF Served
  <1>10. \A x \in Clients : x # r => req'[x] = req[x] /\ pc'[x] = pc[x] /\ answer'[x] = answer[x]
    BY <1>4 DEF IInv, Typed
  <1> QED BY <1>4, <1>5, <1>6, <1>9, <1>10, OneMoves

LEMMA CheckStep == ASSUME IInv, NEW r \in Clients, Check(r) PROVE IInv'
  <1>1. CASE Goto(r, "stat") /\ UNCHANGED <<req, held, answer>>
    <2>1. pc[r] = "check" /\ pc' = [pc EXCEPT ![r] = "stat"]
      BY <1>1 DEF Check, Goto
    <2>2. UNCHANGED <<file, active, entry, req, held, answer>>
      BY <1>1 DEF Check
    <2>3. Typed' /\ LabelIsHonest'
      BY <2>1, <2>2 DEF IInv, Typed, Label, LabelIsHonest
    <2>4. pc'[r] = "stat" /\ \A x \in Clients : x # r => pc'[x] = pc[x]
      BY <2>1 DEF IInv, Typed
    <2>5. Served(req[r], "check", answer[r], file)
      BY <2>1 DEF IInv
    <2>6. Served(req'[r], pc'[r], answer'[r], file)
      BY <2>2, <2>4, <2>5 DEF Served
    <2> QED BY <2>2, <2>3, <2>4, <2>6, OneMoves
  <1>2. CASE UNCHANGED req /\ Answer(r, "missing", Nothing, Nothing)
    <2>1. UNCHANGED <<file, active, entry>>
      BY DEF Check
    <2>2. LabelIsHonest'
      BY <2>1 DEF IInv, LabelIsHonest
    <2> QED BY <1>2, <2>1, <2>2, NothingIsAStamp, Ending DEF IInv, Typed
  <1> QED BY <1>1, <1>2 DEF Check

(* What the stat leaves in the request, however it went. *)
LEMMA StatReads ==
  ASSUME IInv, NEW r \in Clients, Stat(r)
  PROVE  /\ req' \in [Clients -> Request]
         /\ \A x \in Clients : x # r => req'[x] = req[x]
         /\ req'[r].path = req[r].path
         /\ req'[r].fs = active
         /\ req'[r].fp # Nothing => req[r].path = active /\ req'[r].fp = Main(active)
  <1>1. req \in [Clients -> Request] /\ active \in Contexts /\ req[r].fp = Nothing
    BY DEF IInv, Typed, Served, Stat
  <1>2. Main(active) \in Stamp
    BY MainIsAStamp DEF IInv, Typed
  <1>3. CASE req' = [req EXCEPT ![r].fs = active, ![r].fp = Main(active)] /\ req[r].path = active
    BY <1>1, <1>2, <1>3 DEF Request
  <1>4. CASE req' = [req EXCEPT ![r].fs = active]
    BY <1>1, <1>4 DEF Request
  <1>5. CASE req' = [req EXCEPT ![r].fs = active, ![r].failed = TRUE]
    BY <1>1, <1>5 DEF Request
  <1> QED BY <1>3, <1>4, <1>5 DEF Stat

LEMMA StatStep == ASSUME IInv, NEW r \in Clients, Stat(r) PROVE IInv'
  <1>1. UNCHANGED <<file, active, entry>> /\ pc[r] = "stat"
    BY DEF Stat
  <1>2. LabelIsHonest'
    BY <1>1 DEF IInv, LabelIsHonest
  <1>3. CASE Answer(r, "unchanged", Nothing, req[r].known)
    <2>1. req[r].known \in Stamp
      BY DEF IInv, Typed, Request
    <2> QED BY <1>1, <1>2, <1>3, <2>1, StatReads, NothingIsAStamp, Ending DEF IInv, Typed
  <1>4. CASE Goto(r, "look") /\ UNCHANGED <<held, answer>>
    <2>1. pc' = [pc EXCEPT ![r] = "look"]
      BY <1>4 DEF Goto
    <2>2. Typed'
      BY <1>1, <1>4, <2>1, StatReads DEF IInv, Typed, Label
    <2>3. pc'[r] = "look" /\ \A x \in Clients : x # r => pc'[x] = pc[x]
      BY <2>1 DEF IInv, Typed
    <2>4. Served(req[r], "stat", answer[r], file)
      BY <1>1 DEF IInv
    <2>5. answer[r].floor.ctx = req[r].path /\ answer[r].floor.version <= file[req[r].path].main
      BY <2>4 DEF Served
    <2>6. req'[r].fp # Nothing => Between(req'[r], answer[r], file)
      <3> SUFFICES ASSUME req'[r].fp # Nothing PROVE Between(req'[r], answer[r], file)
        OBVIOUS
      <3>1. /\ req'[r].fp = Main(active)
            /\ req'[r].path = active
            /\ req'[r].fs = active
            /\ req[r].path = active
        BY StatReads
      <3>2. Main(active).ctx = active /\ Main(active).version = file[active].main
        BY MainIsAStamp DEF IInv, Typed
      <3>3. file[active].main \in Nat
        BY DEF IInv, Typed, File
      <3> QED BY <2>5, <3>1, <3>2, <3>3 DEF Between
    <2>7. Served(req'[r], pc'[r], answer'[r], file)
      BY <1>4, <2>3, <2>4, <2>5, <2>6, StatReads DEF Served
    <2> QED BY <1>1, <1>2, <1>4, <2>2, <2>3, <2>7, StatReads, OneMoves
  <1> QED BY <1>3, <1>4 DEF Stat

(* The entry is served only to a request that agrees with its label. *)
LEMMA LookStep == ASSUME IInv, NEW r \in Clients, Look(r) PROVE IInv'
  <1>1. UNCHANGED <<file, active, req>> /\ pc[r] = "look"
    BY DEF Look
  <1>2. Served(req[r], "look", answer[r], file)
    BY <1>1 DEF IInv
  <1>3. CASE ~Differs(r) /\ Answer(r, "full", entry.main, entry.fp) /\ UNCHANGED entry
    <2>1. LabelIsHonest'
      BY <1>3 DEF IInv, LabelIsHonest
    <2>2. entry \in Entry /\ entry.main \in Stamp /\ entry.fp \in Stamp
      BY DEF IInv, Typed, Entry
    <2>3. ASSUME Nothing \notin {req'[r].fp, entry.fp, entry.main}
          PROVE  Fresh(entry.main, answer[r].floor)
      <3>1. req[r].fp = entry.fp /\ req[r].fp # Nothing
        BY <1>1, <1>3, <2>3 DEF Differs
      <3>2. Fresh(entry.main, req[r].fp)
        BY <2>3, <3>1 DEF IInv, LabelIsHonest
      <3>3. Between(req[r], answer[r], file) /\ answer[r].floor.ctx = req[r].path
        BY <1>2, <3>1 DEF Served
      <3>4. /\ entry.main.version \in Nat
            /\ req[r].fp.version \in Nat
            /\ answer[r].floor.version \in Nat
        BY <2>2 DEF IInv, Typed, Request, Reply, Stamp
      <3> QED BY <3>2, <3>3, <3>4 DEF Fresh, Between
    <2> QED BY <1>1, <1>3, <2>1, <2>2, <2>3, Ending DEF IInv, Typed
  <1>4. CASE entry' = NoEntry /\ Goto(r, "parse") /\ UNCHANGED <<held, answer>>
    <2>1. NoEntry \in Entry
      BY NothingIsAStamp DEF NoEntry, Entry
    <2>2. LabelIsHonest'
      BY <1>4 DEF LabelIsHonest, NoEntry
    <2>3. pc' = [pc EXCEPT ![r] = "parse"]
      BY <1>4 DEF Goto
    <2>4. Typed'
      BY <1>1, <1>4, <2>1, <2>3 DEF IInv, Typed, Label
    <2>5. pc'[r] = "parse" /\ \A x \in Clients : x # r => pc'[x] = pc[x]
      BY <2>3 DEF IInv, Typed
    <2>6. Served(req'[r], pc'[r], answer'[r], file)
      BY <1>1, <1>2, <1>4, <2>5 DEF Served
    <2> QED BY <1>1, <1>4, <2>2, <2>4, <2>5, <2>6, OneMoves
  <1> QED BY <1>3, <1>4 DEF Look

LEMMA ParseStep == ASSUME IInv, NEW r \in Clients, Parse(r) PROVE IInv'
  <1>1. /\ UNCHANGED <<file, active, entry, held, answer>>
        /\ pc[r] = "parse"
        /\ pc' = [pc EXCEPT ![r] = "subs"]
    BY DEF Parse, Goto
  <1>2. req \in [Clients -> Request] /\ req[r].fs \in Contexts /\ req[r].path \in Contexts
    BY DEF IInv, Typed, Request
  <1>3. /\ req' \in [Clients -> Request]
        /\ \A x \in Clients : x # r => req'[x] = req[x]
        /\ req'[r].path = req[r].path
        /\ req'[r].fs = req[r].fs
        /\ req'[r].fp = req[r].fp
        /\ req'[r].main # Nothing => req[r].path = req[r].fs /\ req'[r].main = Main(req[r].fs)
    <2> DEFINE m == IF req[r].path = req[r].fs THEN Main(req[r].fs) ELSE Nothing
    <2>1. m \in Stamp /\ (m # Nothing => req[r].path = req[r].fs /\ m = Main(req[r].fs))
      BY <1>2, MainIsAStamp, NothingIsAStamp DEF IInv
    <2> HIDE DEF m
    <2>2. CASE req' = [req EXCEPT ![r].main = m]
      BY <1>2, <2>1, <2>2 DEF Request
    <2>3. CASE req' = [req EXCEPT ![r].main = Nothing, ![r].failed = TRUE]
      BY <1>2, <2>3, NothingIsAStamp DEF Request
    <2> QED BY <2>2, <2>3 DEF Parse, m
  <1>4. Typed' /\ LabelIsHonest'
    BY <1>1, <1>3 DEF IInv, Typed, Label, LabelIsHonest
  <1>5. pc'[r] = "subs" /\ \A x \in Clients : x # r => pc'[x] = pc[x]
    BY <1>1 DEF IInv, Typed
  <1>6. Served(req[r], "parse", answer[r], file)
    BY <1>1 DEF IInv
  <1>7. ASSUME req'[r].fp # Nothing PROVE Between(req'[r], answer[r], file)
    BY <1>3, <1>6, <1>7 DEF Served, Between
  <1>8. ASSUME req'[r].fp # Nothing, req'[r].main # Nothing PROVE Fresh(req'[r].main, req'[r].fp)
    <2>1. req'[r].main.ctx = req[r].path /\ req'[r].main.version = file[req[r].path].main
      BY <1>2, <1>3, <1>8, MainIsAStamp DEF IInv
    <2>2. file[req[r].path].main \in Nat /\ req'[r].fp.version \in Nat
      BY <1>2, <1>3 DEF IInv, Typed, File, Request, Stamp
    <2> QED BY <1>3, <1>7, <1>8, <2>1, <2>2 DEF Between, Fresh
  <1>9. Served(req'[r], pc'[r], answer'[r], file)
    BY <1>1, <1>3, <1>5, <1>6, <1>7, <1>8 DEF Served
  <1> QED BY <1>1, <1>3, <1>4, <1>5, <1>9, OneMoves

LEMMA ResolveStep == ASSUME IInv, NEW r \in Clients, ResolveSubagents(r) PROVE IInv'
  <1>1. /\ UNCHANGED <<file, active, entry, held, answer>>
        /\ pc[r] = "subs"
        /\ pc' = [pc EXCEPT ![r] = "store"]
    BY DEF ResolveSubagents, Goto
  <1>2. /\ req' \in [Clients -> Request]
        /\ \A x \in Clients : x # r => req'[x] = req[x]
        /\ req'[r].path = req[r].path
        /\ req'[r].fs = req[r].fs
        /\ req'[r].fp = req[r].fp
        /\ req'[r].main = req[r].main
    <2>1. req \in [Clients -> Request] /\ Subs(active) \in Stamp
      BY MainIsAStamp DEF IInv, Typed
    <2>2. CASE req' = [req EXCEPT ![r].subs = Subs(active)]
      BY <2>1, <2>2 DEF Request
    <2>3. CASE req' = [req EXCEPT ![r].subs = Nothing, ![r].failed = TRUE]
      BY <2>1, <2>3, NothingIsAStamp DEF Request
    <2> QED BY <2>2, <2>3 DEF ResolveSubagents
  <1>3. Typed' /\ LabelIsHonest'
    BY <1>1, <1>2 DEF IInv, Typed, Label, LabelIsHonest
  <1>4. pc'[r] = "store" /\ \A x \in Clients : x # r => pc'[x] = pc[x]
    BY <1>1 DEF IInv, Typed
  <1>5. Served(req[r], "subs", answer[r], file)
    BY <1>1 DEF IInv
  <1>6. Served(req'[r], pc'[r], answer'[r], file)
    BY <1>1, <1>2, <1>4, <1>5 DEF Served, Between
  <1> QED BY <1>1, <1>2, <1>3, <1>4, <1>6, OneMoves

LEMMA StoreStep == ASSUME IInv, NEW r \in Clients, Store(r) PROVE IInv'
  <1>1. /\ UNCHANGED <<file, active, req>>
        /\ pc[r] = "store"
        /\ Answer(r, "full", req[r].main, req[r].fp)
        /\ entry' = [main |-> req[r].main, subs |-> req[r].subs, fp |-> req[r].fp,
                     stored |-> TRUE, late |-> r \in late]
    BY DEF Store
  <1>2. req[r].main \in Stamp /\ req[r].subs \in Stamp /\ req[r].fp \in Stamp
    BY DEF IInv, Typed, Request
  <1>3. entry' \in Entry
    BY <1>1, <1>2 DEF Entry
  <1>4. Served(req[r], "store", answer[r], file)
    BY <1>1 DEF IInv
  <1>5. LabelIsHonest'
    BY <1>1, <1>4 DEF LabelIsHonest, Served
  <1>6. ASSUME Nothing \notin {req'[r].fp, req[r].fp, req[r].main}
        PROVE  Fresh(req[r].main, answer[r].floor)
    <2>1. /\ Fresh(req[r].main, req[r].fp)
          /\ Between(req[r], answer[r], file)
          /\ answer[r].floor.ctx = req[r].path
      BY <1>4, <1>6 DEF Served
    <2>2. answer[r].floor.version \in Nat /\ req[r].main.version \in Nat /\ req[r].fp.version \in Nat
      BY <1>2 DEF IInv, Typed, Reply, Stamp
    <2> QED BY <2>1, <2>2 DEF Fresh, Between
  <1> QED BY <1>1, <1>2, <1>3, <1>5, <1>6, Ending DEF IInv, Typed

-----------------------------------------------------------------------------
LEMMA Inductive == IInv /\ [Next]_vars => IInv'
  <1> SUFFICES ASSUME IInv, [Next]_vars PROVE IInv'
    OBVIOUS
  <1>1. CASE UNCHANGED vars
    BY <1>1 DEF IInv, Typed, LabelIsHonest, vars, requests
  <1>2. ASSUME NEW c \in Contexts, NEW part \in {"main", "subs"}, Write(c, part) PROVE IInv'
    BY <1>2, WriteStep
  <1>3. CASE HandleEvent \/ Evict
    BY <1>3, RemovalStep
  <1>4. ASSUME NEW c \in Contexts, SwitchContext(c) PROVE IInv'
    BY <1>4, SwitchStep
  <1>5. ASSUME NEW r \in Clients, NEW known \in {Nothing, held[r].fp}, Ask(r, known) PROVE IInv'
    BY <1>5, AskStep
  <1>6. ASSUME NEW r \in Clients, Serve(r) PROVE IInv'
    BY <1>6, CheckStep, StatStep, LookStep, ParseStep, ResolveStep, StoreStep DEF Serve
  <1> QED BY <1>1, <1>2, <1>3, <1>4, <1>5, <1>6 DEF Next

LEMMA Invariance == Spec => []IInv
  BY InitOk, Inductive, PTL DEF Spec

(* Whatever overtakes get_session_detail, the cache's entry is at least as  *)
(* new as the fingerprint it is stored under, and of the same context.      *)
THEOREM EntryIsHonest == Spec => []LabelIsHonest
  <1>1. IInv => LabelIsHonest
    BY DEF IInv
  <1> QED BY <1>1, Invariance, PTL

(* For any number of clients, contexts, writes, switches and failures, an   *)
(* answer of get_session_detail that carries a fingerprint, to a request    *)
(* that could stat the file, is of its context and not older than the       *)
(* question.                                                                *)
THEOREM LabelledIsFresh == Spec => []FullIsFresh
  <1>1. IInv => FullIsFresh
    BY DEF IInv, Served, FullIsFresh
  <1> QED BY <1>1, Invariance, PTL

-----------------------------------------------------------------------------
(* TypeOK, with its bounds: a stamp is never ahead of what was written.      *)

SmallRequest == [known : Stamps, path : Contexts, fs : Contexts, fp : Stamps,
                 main : Stamps, subs : Stamps, failed : BOOLEAN]
SmallReply == [kind : {"none", "missing", "unchanged", "full"}, main : Stamps, fp : Stamps,
               asked : Stamps, failed : BOOLEAN, floor : Stamps]
SmallEntry == [main : Stamps, subs : Stamps, fp : Stamps, stored : BOOLEAN, late : BOOLEAN]
SmallFile == [main : 0..(MaxWrites + 1), subs : 0..MaxWrites]
SmallShown == [main : Stamps, fp : Stamps]

Sized == \A c \in Contexts : file[c].main <= writes + 1 /\ file[c].subs <= writes

Counts ==
    /\ writes \in 0..MaxWrites
    /\ asks \in 0..MaxAsks
    /\ switches \in 0..MaxTroubles
    /\ fails \in 0..MaxTroubles

\* A request that has not been stat'ed has read nothing.
Unread(q, label) == label \in {"check", "stat"} => q.fp = Nothing /\ q.main = Nothing

Files ==
    /\ file \in [Contexts -> SmallFile]
    /\ active \in Contexts
    /\ told \in SmallFile
    /\ pending \in BOOLEAN
    /\ late \subseteq Clients
    /\ Sized

Requests ==
    /\ entry \in SmallEntry
    /\ pc \in [Clients -> Label]
    /\ req \in [Clients -> SmallRequest]
    /\ held \in [Clients -> SmallShown]
    /\ answer \in [Clients -> SmallReply]
    /\ \A r \in Clients : Unread(req[r], pc[r])

TInv == Files /\ Requests /\ Counts

LEMMA TInvIsTypeOK == TInv => TypeOK
  BY DEF TInv, Files, Requests, Counts, TypeOK, SmallFile, SmallEntry, SmallRequest, SmallShown,
         SmallReply, Label, Unread

LEMMA SmallStamps ==
  ASSUME Files, NEW c \in Contexts
  PROVE  Main(c) \in Stamps /\ Subs(c) \in Stamps /\ Nothing \in Stamps
  <1>1. file[c] \in SmallFile /\ MaxWrites \in Nat
    BY DetailAssumption DEF Files
  <1>2. file[c].main \in 0..(MaxWrites + 1) /\ file[c].subs \in 0..(MaxWrites + 1)
    BY <1>1 DEF SmallFile
  <1>3. 0 \in 0..(MaxWrites + 1)
    BY <1>1
  <1> QED BY <1>2, <1>3 DEF Main, Subs, Nothing, Stamps

LEMMA SmallNothing ==
  ASSUME Files
  PROVE  /\ Nothing \in Stamps
         /\ NoEntry \in SmallEntry
         /\ NoReq \in SmallRequest
         /\ NoAnswer \in SmallReply
         /\ [main |-> Nothing, fp |-> Nothing] \in SmallShown
  <1>1. Nothing \in Stamps /\ Local \in Contexts
    BY SmallStamps, DetailAssumption
  <1> QED
    BY <1>1 DEF NoEntry, SmallEntry, NoReq, SmallRequest, NoAnswer, SmallReply, SmallShown

LEMMA TInvInit == Init => TInv
  <1> SUFFICES ASSUME Init PROVE TInv
    OBVIOUS
  <1>1. MaxWrites \in Nat /\ MaxAsks \in Nat /\ MaxTroubles \in Nat /\ Local \in Contexts
    BY DetailAssumption
  <1>2. Counts
    BY <1>1 DEF Init, Counts
  <1>3. file \in [Contexts -> SmallFile]
    <2>1. [main : {0, 1}, subs : {0}] \subseteq SmallFile
      BY <1>1 DEF SmallFile
    <2> QED BY <2>1 DEF Init
  <1>4. Sized
    <2>1. \A c \in Contexts : file[c].main \in {0, 1} /\ file[c].subs = 0
      BY DEF Init
    <2> QED BY <2>1 DEF Init, Sized
  <1>5. Files
    BY <1>1, <1>3, <1>4 DEF Init, Files
  <1>6. Requests
    BY <1>5, SmallNothing DEF Init, Requests, Label, Unread
  <1> QED BY <1>2, <1>5, <1>6 DEF TInv

(* The counters stay within their bounds. *)
LEMMA CountsStep == ASSUME Counts, [Next]_vars PROVE Counts'
  <1>0. MaxWrites \in Nat /\ MaxAsks \in Nat /\ MaxTroubles \in Nat
    BY DetailAssumption
  <1>1. ASSUME NEW c \in Contexts, NEW part \in {"main", "subs"}, Write(c, part) PROVE Counts'
    BY <1>0, <1>1 DEF Write, Counts
  <1>2. CASE HandleEvent \/ Evict \/ UNCHANGED vars
    BY <1>2 DEF HandleEvent, Evict, vars, env, Counts
  <1>3. ASSUME NEW c \in Contexts, SwitchContext(c) PROVE Counts'
    BY <1>0, <1>3 DEF SwitchContext, Trouble, Counts
  <1>4. ASSUME NEW r \in Clients, NEW known \in {Nothing, held[r].fp}, Ask(r, known) PROVE Counts'
    BY <1>0, <1>4 DEF Ask, Counts
  <1>5. ASSUME NEW r \in Clients, Serve(r) PROVE Counts'
    <2>1. UNCHANGED <<writes, asks, switches>>
      BY <1>5 DEF Serve, Check, Stat, Look, Parse, ResolveSubagents, Store, env
    <2>2. fails' = fails \/ Fail
      BY <1>5 DEF Serve, Check, Stat, Look, Parse, ResolveSubagents, Store, env
    <2> QED BY <1>0, <2>1, <2>2 DEF Fail, Trouble, Counts
  <1> QED BY <1>1, <1>2, <1>3, <1>4, <1>5 DEF Next

(* What the files and the listener do. *)
LEMMA FilesStep == ASSUME TInv, [Next]_vars PROVE Files'
  <1>0. /\ MaxWrites \in Nat /\ writes \in Nat
        /\ file \in [Contexts -> SmallFile] /\ active \in Contexts
        /\ Sized
    BY DetailAssumption DEF TInv, Files, Counts
  <1>1. ASSUME NEW c \in Contexts, NEW part \in {"main", "subs"}, Write(c, part) PROVE Files'
    <2>1. /\ file[c].main \in Nat /\ file[c].main <= writes + 1
          /\ file[c].subs \in Nat /\ file[c].subs <= writes
          /\ writes' = writes + 1 /\ writes + 1 <= MaxWrites
      BY <1>0, <1>1 DEF Sized, SmallFile, Write
    <2>2. /\ file'[c].main \in Nat /\ file'[c].main <= writes + 2
          /\ file'[c].subs \in Nat /\ file'[c].subs <= writes + 1
          /\ file'[c] \in SmallFile
          /\ \A d \in Contexts : d # c => file'[d] = file[d]
          /\ file' = [file EXCEPT ![c] = file'[c]]
      <3>1. CASE part = "main"
        <4>1. /\ file' = [file EXCEPT ![c].main = @ + 1]
              /\ file'[c] = [file[c] EXCEPT !.main = file[c].main + 1]
          BY <1>0, <1>1, <3>1 DEF Write
        <4>2. file[c] \in SmallFile
          BY <1>0
        <4>3. file'[c].main = file[c].main + 1 /\ file'[c].subs = file[c].subs
          BY <4>1, <4>2 DEF SmallFile
        <4>4. file'[c] = [main |-> file'[c].main, subs |-> file'[c].subs]
          BY <4>1, <4>2, <4>3 DEF SmallFile
        <4>5. file'[c].main \in 0..(MaxWrites + 1) /\ file'[c].subs \in 0..MaxWrites
          BY <1>0, <2>1, <4>3
        <4> QED BY <1>0, <2>1, <4>1, <4>3, <4>4, <4>5 DEF SmallFile
      <3>2. CASE part = "subs"
        <4>1. /\ file' = [file EXCEPT ![c].subs = @ + 1]
              /\ file'[c] = [file[c] EXCEPT !.subs = file[c].subs + 1]
          BY <1>0, <1>1, <3>2 DEF Write
        <4>2. file[c] \in SmallFile
          BY <1>0
        <4>3. file'[c].subs = file[c].subs + 1 /\ file'[c].main = file[c].main
          BY <4>1, <4>2 DEF SmallFile
        <4>4. file'[c] = [main |-> file'[c].main, subs |-> file'[c].subs]
          BY <4>1, <4>2, <4>3 DEF SmallFile
        <4>5. file'[c].main \in 0..(MaxWrites + 1) /\ file'[c].subs \in 0..MaxWrites
          BY <1>0, <2>1, <4>3
        <4> QED BY <1>0, <2>1, <4>1, <4>3, <4>4, <4>5 DEF SmallFile
      <3> QED BY <3>1, <3>2
    <2>3. file' \in [Contexts -> SmallFile]
      BY <1>0, <2>2
    <2>4. Sized'
      <3>1. ASSUME NEW d \in Contexts, d # c
            PROVE  file'[d].main <= writes + 2 /\ file'[d].subs <= writes + 1
        <4>1. file[d].main \in Nat /\ file[d].subs \in Nat
          BY <1>0 DEF SmallFile
        <4> QED BY <1>0, <2>2, <3>1, <4>1 DEF Sized
      <3> QED BY <1>0, <2>1, <2>2, <3>1 DEF Sized
    <2>5. UNCHANGED <<active, told, late>> /\ pending' \in BOOLEAN
      BY <1>1 DEF Write, TInv, Files
    <2> QED BY <2>3, <2>4, <2>5 DEF TInv, Files
  <1>2. CASE HandleEvent
    <2>1. UNCHANGED <<file, active, writes>> /\ told' = file[active] /\ late' \subseteq Clients
          /\ pending' \in BOOLEAN
      BY <1>2 DEF HandleEvent, env
    <2> QED BY <1>0, <2>1 DEF Files, Sized
  <1>3. ASSUME UNCHANGED <<file, told, pending, writes>>, active' \in Contexts,
               late' \subseteq Clients
        PROVE  Files'
    BY <1>3 DEF TInv, Files, Sized
  <1>4. CASE Evict \/ UNCHANGED vars
    <2>1. UNCHANGED <<file, told, pending, writes, active, late>>
      BY <1>4 DEF Evict, vars, env
    <2> QED BY <1>3, <2>1 DEF TInv, Files
  <1>5. ASSUME NEW c \in Contexts, SwitchContext(c) PROVE Files'
    BY <1>3, <1>5 DEF SwitchContext, TInv, Files
  <1>6. ASSUME NEW r \in Clients, NEW known \in {Nothing, held[r].fp}, Ask(r, known) PROVE Files'
    BY <1>3, <1>6 DEF Ask, TInv, Files
  <1>7. ASSUME NEW r \in Clients, Serve(r) PROVE Files'
    <2>1. UNCHANGED <<file, told, pending, writes, active, late>>
      BY <1>7 DEF Serve, Check, Stat, Look, Parse, ResolveSubagents, Store, env
    <2> QED BY <1>3, <2>1 DEF TInv, Files
  <1> QED BY <1>1, <1>2, <1>4, <1>5, <1>6, <1>7 DEF Next

LEMMA SmallEnding ==
  ASSUME TInv, NEW r \in Clients, NEW kind \in {"missing", "unchanged", "full"},
         NEW main \in Stamps, NEW fp \in Stamps,
         req' \in [Clients -> SmallRequest],
         \A x \in Clients : x # r => req'[x] = req[x],
         entry' \in SmallEntry,
         Answer(r, kind, main, fp)
  PROVE  Requests'
  <1>1. answer' \in [Clients -> SmallReply]
    <2> DEFINE a == [answer[r] EXCEPT !.kind = kind, !.main = main, !.fp = fp,
                       !.asked = req'[r].fp, !.failed = req'[r].failed]
    <2>1. req'[r].fp \in Stamps /\ req'[r].failed \in BOOLEAN
      BY DEF SmallRequest
    <2>2. answer[r] \in SmallReply
      BY DEF TInv, Requests
    <2>3. a \in SmallReply
      BY <2>1, <2>2 DEF SmallReply
    <2> QED BY <2>3 DEF TInv, Requests, Answer
  <1>2. held' \in [Clients -> SmallShown]
    <2>1. CASE kind # "full"
      BY <2>1 DEF TInv, Requests, Answer
    <2>2. CASE kind = "full"
      BY <2>2 DEF TInv, Requests, Answer, SmallShown
    <2> QED BY <2>1, <2>2
  <1>3. pc' \in [Clients -> Label] /\ pc'[r] = "idle" /\ \A x \in Clients : x # r => pc'[x] = pc[x]
    BY DEF TInv, Requests, Answer, Goto, Label
  <1>4. \A x \in Clients : Unread(req'[x], pc'[x])
    BY <1>3 DEF TInv, Requests, Unread
  <1> QED BY <1>1, <1>2, <1>3, <1>4 DEF Requests

(* A step of one client that leaves it waiting. *)
LEMMA SmallMove ==
  ASSUME TInv, NEW r \in Clients, NEW label \in Label, Goto(r, label),
         req' \in [Clients -> SmallRequest],
         \A x \in Clients : x # r => req'[x] = req[x],
         Unread(req'[r], label),
         entry' \in SmallEntry, held' = held, answer' \in [Clients -> SmallReply]
  PROVE  Requests'
  <1>1. pc' \in [Clients -> Label] /\ pc'[r] = label /\ \A x \in Clients : x # r => pc'[x] = pc[x]
    BY DEF TInv, Requests, Goto
  <1>2. \A x \in Clients : Unread(req'[x], pc'[x])
    BY <1>1 DEF TInv, Requests
  <1> QED BY <1>1, <1>2 DEF TInv, Requests

LEMMA RequestsStep == ASSUME TInv, [Next]_vars PROVE Requests'
  <1>0. /\ active \in Contexts
        /\ req \in [Clients -> SmallRequest] /\ entry \in SmallEntry
        /\ held \in [Clients -> SmallShown] /\ answer \in [Clients -> SmallReply]
        /\ Nothing \in Stamps /\ NoEntry \in SmallEntry
        /\ NoReq \in SmallRequest /\ NoAnswer \in SmallReply
        /\ Main(active) \in Stamps /\ Subs(active) \in Stamps
        /\ \A c \in Contexts : Main(c) \in Stamps
    BY SmallNothing, SmallStamps DEF TInv, Files, Requests
  <1>1. CASE UNCHANGED requests /\ entry' \in {entry, NoEntry}
    BY <1>0, <1>1 DEF TInv, Requests, requests
  <1>2. ASSUME NEW c \in Contexts, NEW part \in {"main", "subs"}, Write(c, part) PROVE Requests'
    BY <1>1, <1>2 DEF Write
  <1>3. CASE HandleEvent \/ Evict \/ UNCHANGED vars
    BY <1>1, <1>3 DEF HandleEvent, Evict, vars
  <1>4. ASSUME NEW c \in Contexts, SwitchContext(c) PROVE Requests'
    BY <1>1, <1>4 DEF SwitchContext
  <1>5. ASSUME NEW r \in Clients, NEW known \in {Nothing, held[r].fp}, Ask(r, known)
        PROVE  Requests'
    <2> DEFINE q == [NoReq EXCEPT !.known = known, !.path = active]
               a == [NoAnswer EXCEPT !.floor = Main(active)]
    <2>1. known \in Stamps
      BY <1>0 DEF SmallShown
    <2>2. q \in SmallRequest /\ Unread(q, "check")
      BY <1>0, <2>1 DEF NoReq, SmallRequest, Unread
    <2>3. a \in SmallReply
      BY <1>0 DEF NoAnswer, SmallReply
    <2>4. req' = [req EXCEPT ![r] = q] /\ answer' = [answer EXCEPT ![r] = a] /\ Goto(r, "check")
          /\ entry' = entry /\ held' = held
      BY <1>5 DEF Ask
    <2> HIDE DEF q, a
    <2>5. req' \in [Clients -> SmallRequest] /\ req'[r] = q
          /\ \A x \in Clients : x # r => req'[x] = req[x]
      BY <1>0, <2>2, <2>4
    <2>6. answer' \in [Clients -> SmallReply]
      BY <1>0, <2>3, <2>4
    <2> QED BY <1>0, <2>2, <2>4, <2>5, <2>6, SmallMove DEF Label
  <1>6. ASSUME NEW r \in Clients, Check(r) PROVE Requests'
    <2>1. req' = req /\ entry' = entry
      BY <1>6 DEF Check
    <2>2. CASE Goto(r, "stat") /\ UNCHANGED <<held, answer>> /\ pc[r] = "check"
      <3>1. Unread(req'[r], "stat")
        BY <2>1, <2>2 DEF TInv, Requests, Unread
      <3> QED BY <1>0, <2>1, <2>2, <3>1, SmallMove DEF Label
    <2>3. CASE Answer(r, "missing", Nothing, Nothing)
      BY <1>0, <2>1, <2>3, SmallEnding
    <2> QED BY <1>6, <2>2, <2>3 DEF Check
  <1>7. ASSUME NEW r \in Clients, Stat(r) PROVE Requests'
    <2>1. entry' = entry /\ req[r].known \in Stamps
      BY <1>0, <1>7 DEF Stat, SmallRequest
    <2>2. req' \in [Clients -> SmallRequest] /\ \A x \in Clients : x # r => req'[x] = req[x]
      <3>1. CASE req' = [req EXCEPT ![r].fs = active, ![r].fp = Main(active)]
        BY <1>0, <3>1 DEF SmallRequest
      <3>2. CASE req' = [req EXCEPT ![r].fs = active]
        BY <1>0, <3>2 DEF SmallRequest
      <3>3. CASE req' = [req EXCEPT ![r].fs = active, ![r].failed = TRUE]
        BY <1>0, <3>3 DEF SmallRequest
      <3> QED BY <1>7, <3>1, <3>2, <3>3 DEF Stat
    <2>3. CASE Answer(r, "unchanged", Nothing, req[r].known)
      BY <1>0, <2>1, <2>2, <2>3, SmallEnding
    <2>4. CASE Goto(r, "look") /\ UNCHANGED <<held, answer>>
      BY <1>0, <2>1, <2>2, <2>4, SmallMove DEF Label, Unread
    <2> QED BY <1>7, <2>3, <2>4 DEF Stat
  <1>8. ASSUME NEW r \in Clients, Look(r) PROVE Requests'
    <2>1. req' = req
      BY <1>8 DEF Look
    <2>2. CASE Answer(r, "full", entry.main, entry.fp) /\ entry' = entry
      <3>1. entry.main \in Stamps /\ entry.fp \in Stamps
        BY <1>0 DEF SmallEntry
      <3> QED BY <1>0, <2>1, <2>2, <3>1, SmallEnding
    <2>3. CASE entry' = NoEntry /\ Goto(r, "parse") /\ UNCHANGED <<held, answer>>
      BY <1>0, <2>1, <2>3, SmallMove DEF Label, Unread
    <2> QED BY <1>8, <2>2, <2>3 DEF Look
  <1>9. ASSUME NEW r \in Clients, Parse(r) PROVE Requests'
    <2> DEFINE m == IF req[r].path = req[r].fs THEN Main(req[r].fs) ELSE Nothing
    <2>1. UNCHANGED <<entry, held, answer>> /\ Goto(r, "subs")
      BY <1>9 DEF Parse
    <2>2. m \in Stamps
      <3>1. req[r].fs \in Contexts
        BY <1>0 DEF SmallRequest
      <3> QED BY <1>0, <3>1
    <2> HIDE DEF m
    <2>3. req' \in [Clients -> SmallRequest] /\ \A x \in Clients : x # r => req'[x] = req[x]
      <3>1. CASE req' = [req EXCEPT ![r].main = m]
        BY <1>0, <2>2, <3>1 DEF SmallRequest
      <3>2. CASE req' = [req EXCEPT ![r].main = Nothing, ![r].failed = TRUE]
        BY <1>0, <3>2 DEF SmallRequest
      <3> QED BY <1>9, <3>1, <3>2 DEF Parse, m
    <2> QED BY <1>0, <2>1, <2>3, SmallMove DEF Label, Unread
  <1>10. ASSUME NEW r \in Clients, ResolveSubagents(r) PROVE Requests'
    <2>1. UNCHANGED <<entry, held, answer>> /\ Goto(r, "store")
      BY <1>10 DEF ResolveSubagents
    <2>2. req' \in [Clients -> SmallRequest] /\ \A x \in Clients : x # r => req'[x] = req[x]
      <3>1. CASE req' = [req EXCEPT ![r].subs = Subs(active)]
        BY <1>0, <3>1 DEF SmallRequest
      <3>2. CASE req' = [req EXCEPT ![r].subs = Nothing, ![r].failed = TRUE]
        BY <1>0, <3>2 DEF SmallRequest
      <3> QED BY <1>10, <3>1, <3>2 DEF ResolveSubagents
    <2> QED BY <1>0, <2>1, <2>2, SmallMove DEF Label, Unread
  <1>11. ASSUME NEW r \in Clients, Store(r) PROVE Requests'
    <2>1. /\ req' = req /\ Answer(r, "full", req[r].main, req[r].fp)
          /\ entry' = [main |-> req[r].main, subs |-> req[r].subs, fp |-> req[r].fp,
                       stored |-> TRUE, late |-> r \in late]
      BY <1>11 DEF Store
    <2>2. req[r].main \in Stamps /\ req[r].subs \in Stamps /\ req[r].fp \in Stamps
      BY <1>0 DEF SmallRequest
    <2>3. entry' \in SmallEntry
      BY <2>1, <2>2 DEF SmallEntry
    <2> QED BY <1>0, <2>1, <2>2, <2>3, SmallEnding
  <1> QED
    BY <1>2, <1>3, <1>4, <1>5, <1>6, <1>7, <1>8, <1>9, <1>10, <1>11 DEF Next, Serve

LEMMA TInvStep == TInv /\ [Next]_vars => TInv'
  BY CountsStep, FilesStep, RequestsStep DEF TInv

-----------------------------------------------------------------------------
(* As long as all is quiet.                                                  *)

(* What a request has read, and what its client shows, while no access fails *)
(* and the context is the same.                                              *)
Calm(q, label, a, h, overtaken, subs) ==
    /\ label # "idle" => q.path = Local
    /\ label \in {"check", "stat"} => q.known \in {Nothing, h.fp}
    /\ label \in {"look", "parse", "subs", "store"} => q.fp # Nothing
    /\ label \in {"subs", "store"} => q.main # Nothing
    /\ label = "store" /\ ~overtaken => q.subs.version >= subs
    /\ h.fp # Nothing => Fresh(h.main, h.fp)
    /\ a.kind = "unchanged" => Fresh(h.main, a.floor)

QuietBody ==
    /\ active = Local
    /\ told.subs <= file[Local].subs
    /\ entry.stored => entry.fp # Nothing /\ entry.main # Nothing
    /\ entry.stored /\ ~entry.late => entry.subs.version >= told.subs
    /\ \A r \in Clients : Calm(req[r], pc[r], answer[r], held[r], r \in late, told.subs)

QuietInv == Quiet => QuietBody

QInv == IInv /\ TInv /\ QuietInv

LEMMA QuietInit == Init => QuietInv
  <1> SUFFICES ASSUME Init PROVE QuietBody
    BY DEF QuietInv
  <1>1. /\ active = Local /\ told = file[Local] /\ entry = NoEntry
        /\ \A r \in Clients : /\ pc[r] = "idle" /\ answer[r] = NoAnswer
                             /\ held[r] = [main |-> Nothing, fp |-> Nothing]
    BY DEF Init
  <1>2. told.subs = 0 /\ file[Local].subs = 0
    BY <1>1, DetailAssumption DEF Init
  <1>3. ~entry.stored
    BY <1>1 DEF NoEntry
  <1>4. ASSUME NEW r \in Clients
        PROVE  Calm(req[r], pc[r], answer[r], held[r], r \in late, told.subs)
    BY <1>1 DEF Calm, NoAnswer
  <1> QED BY <1>1, <1>2, <1>3, <1>4 DEF QuietBody

(* A step of one client. *)
LEMMA CalmMoves ==
  ASSUME QInv, QuietBody, UNCHANGED <<file, active, told>>, NEW r \in Clients,
         \A x \in Clients : x # r => /\ req'[x] = req[x] /\ pc'[x] = pc[x]
                                     /\ answer'[x] = answer[x] /\ held'[x] = held[x]
                                     /\ (x \in late' <=> x \in late),
         entry'.stored => entry'.fp # Nothing /\ entry'.main # Nothing,
         entry'.stored /\ ~entry'.late => entry'.subs.version >= told.subs,
         Calm(req'[r], pc'[r], answer'[r], held'[r], r \in late', told.subs)
  PROVE  QuietBody'
  <1>1. ASSUME NEW x \in Clients
        PROVE  Calm(req'[x], pc'[x], answer'[x], held'[x], x \in late', told.subs)
    <2>1. CASE x = r
      BY <2>1
    <2>2. CASE x # r
      <3>1. Calm(req[x], pc[x], answer[x], held[x], x \in late, told.subs)
        BY DEF QuietBody
      <3> QED BY <2>2, <3>1 DEF Calm
    <2> QED BY <2>1, <2>2
  <1> QED BY <1>1 DEF QuietBody

LEMMA Typings ==
  ASSUME QInv, NEW r \in Clients
  PROVE  /\ DOMAIN req = Clients /\ DOMAIN pc = Clients /\ DOMAIN answer = Clients
         /\ DOMAIN held = Clients
         /\ req[r] \in Request /\ answer[r] \in Reply /\ held[r] \in Shown
         /\ Local \in Contexts /\ file[Local] \in File
         /\ Main(Local) # Nothing /\ Main(Local).version = file[Local].main
         /\ Main(Local).ctx = Local
  BY DetailAssumption, MainIsAStamp DEF QInv, IInv, Typed

LEMMA CalmFiles ==
  ASSUME QInv, QuietBody,
         \/ \E c \in Contexts, part \in {"main", "subs"} : Write(c, part)
         \/ HandleEvent \/ Evict \/ UNCHANGED vars
  PROVE  QuietBody'
  <1>0. /\ file \in [Contexts -> File] /\ Local \in Contexts /\ active = Local
        /\ file[Local].subs \in Nat /\ told.subs \in Nat /\ told.subs <= file[Local].subs
        /\ \A r \in Clients : Calm(req[r], pc[r], answer[r], held[r], r \in late, told.subs)
    BY DetailAssumption DEF QInv, IInv, Typed, File, TInv, Files, SmallFile, QuietBody
  <1>1. ASSUME NEW c \in Contexts, NEW part \in {"main", "subs"}, Write(c, part) PROVE QuietBody'
    <2>1. UNCHANGED <<active, told, entry, req, pc, answer, held, late>>
      BY <1>1 DEF Write, requests
    <2>2. file'[Local].subs \in Nat /\ file[Local].subs <= file'[Local].subs
      <3>1. CASE part = "main"
        BY <1>0, <1>1, <3>1 DEF Write, File
      <3>2. CASE part = "subs"
        BY <1>0, <1>1, <3>2 DEF Write, File
      <3> QED BY <3>1, <3>2
    <2> QED BY <1>0, <2>1, <2>2 DEF QuietBody
  <1>2. CASE HandleEvent
    <2>1. /\ UNCHANGED <<file, active, req, pc, answer, held>>
          /\ told' = file[Local] /\ entry' = NoEntry
          /\ late' = {r \in Clients : pc[r] # "idle"}
      BY <1>0, <1>2 DEF HandleEvent, requests
    <2>2. ASSUME NEW r \in Clients
          PROVE  Calm(req[r], pc[r], answer[r], held[r], r \in late', told'.subs)
      BY <1>0, <2>1 DEF Calm
    <2>3. ~entry'.stored /\ told'.subs <= file'[Local].subs
      BY <1>0, <2>1 DEF NoEntry
    <2> QED BY <1>0, <2>1, <2>2, <2>3 DEF QuietBody
  <1>3. CASE Evict
    <2>1. UNCHANGED <<file, active, told, req, pc, answer, held, late>> /\ ~entry'.stored
      BY <1>3 DEF Evict, requests, NoEntry
    <2> QED BY <1>0, <2>1 DEF QuietBody
  <1>4. CASE UNCHANGED vars
    BY <1>4 DEF vars, requests, QuietBody
  <1> QED BY <1>1, <1>2, <1>3, <1>4

(* What an answer leaves of the request, the reply and the client.  *)
LEMMA AnswerLeaves ==
  ASSUME QInv, NEW r \in Clients, NEW kind, NEW main, NEW fp, Answer(r, kind, main, fp)
  PROVE  /\ pc'[r] = "idle"
         /\ answer'[r].kind = kind /\ answer'[r].floor = answer[r].floor
         /\ kind # "full" => held'[r] = held[r]
         /\ kind = "full" => /\ held'[r].main = main
                             /\ held'[r].fp = IF fp = Nothing THEN held[r].fp ELSE fp
         /\ \A x \in Clients : x # r => /\ pc'[x] = pc[x] /\ answer'[x] = answer[x]
                                        /\ held'[x] = held[x]
  <1>1. /\ DOMAIN pc = Clients /\ DOMAIN answer = Clients /\ DOMAIN held = Clients
        /\ answer[r] \in Reply
    BY Typings
  <1>2. /\ pc'[r] = "idle"
        /\ \A x \in Clients : x # r => pc'[x] = pc[x] /\ answer'[x] = answer[x]
    BY <1>1 DEF Answer, Goto
  <1>3. answer'[r].kind = kind /\ answer'[r].floor = answer[r].floor
    BY <1>1 DEF Answer, Reply
  <1>4. /\ kind # "full" => held'[r] = held[r]
        /\ \A x \in Clients : x # r => held'[x] = held[x]
    BY <1>1 DEF Answer
  <1>5. kind = "full" => /\ held'[r].main = main
                        /\ held'[r].fp = IF fp = Nothing THEN held[r].fp ELSE fp
    BY <1>1 DEF Answer
  <1> QED BY <1>2, <1>3, <1>4, <1>5

LEMMA CalmAsk ==
  ASSUME QInv, QuietBody, NEW r \in Clients, NEW known \in {Nothing, held[r].fp}, Ask(r, known)
  PROVE  QuietBody'
  <1>1. /\ UNCHANGED <<file, active, told, entry, held>> /\ active = Local
        /\ late' = late \ {r}
        /\ req' = [req EXCEPT ![r] = [NoReq EXCEPT !.known = known, !.path = active]]
        /\ answer' = [answer EXCEPT ![r] = [NoAnswer EXCEPT !.floor = Main(active)]]
        /\ pc' = [pc EXCEPT ![r] = "check"]
    BY DEF Ask, Goto, QuietBody
  <1>2. /\ req'[r].path = Local /\ req'[r].known = known
        /\ answer'[r].kind = "none" /\ pc'[r] = "check"
    BY <1>1, Typings DEF NoReq, NoAnswer
  <1>3. \A x \in Clients : x # r => /\ req'[x] = req[x] /\ pc'[x] = pc[x]
                                   /\ answer'[x] = answer[x] /\ held'[x] = held[x]
                                   /\ (x \in late' <=> x \in late)
    BY <1>1, Typings
  <1>4. Calm(req[r], pc[r], answer[r], held[r], r \in late, told.subs)
    BY DEF QuietBody
  <1>5. Calm(req'[r], pc'[r], answer'[r], held'[r], r \in late', told.subs)
    BY <1>1, <1>2, <1>4 DEF Calm
  <1> QED BY <1>1, <1>3, <1>5, CalmMoves DEF QuietBody

LEMMA CalmServe ==
  ASSUME QInv, QuietBody, NEW r \in Clients, Serve(r), fails' = fails
  PROVE  QuietBody'
  <1>0. /\ active = Local /\ Local \in Contexts
        /\ Calm(req[r], pc[r], answer[r], held[r], r \in late, told.subs)
        /\ Served(req[r], pc[r], answer[r], file)
        /\ entry.stored => entry.fp # Nothing /\ entry.main # Nothing
        /\ entry.stored /\ ~entry.late => entry.subs.version >= told.subs
        /\ ~Fail
    <2>1. fails \in Nat
      BY DEF QInv, TInv, Counts
    <2>2. ~Fail
      BY <2>1 DEF Fail
    <2> QED BY <2>2, Typings DEF QuietBody, QInv, IInv
  <1>1. UNCHANGED <<file, active, told, late>>
    BY DEF Serve, Check, Stat, Look, Parse, ResolveSubagents, Store
  <1>2. CASE Check(r)
    <2>1. pc[r] = "check" /\ UNCHANGED <<req, entry>>
      BY <1>2 DEF Check
    <2>2. CASE Goto(r, "stat") /\ UNCHANGED <<held, answer>>
      <3>1. pc'[r] = "stat" /\ \A x \in Clients : x # r => pc'[x] = pc[x]
        BY <2>2, Typings DEF Goto
      <3>2. Calm(req'[r], pc'[r], answer'[r], held'[r], r \in late', told.subs)
        BY <1>0, <1>1, <2>1, <2>2, <3>1 DEF Calm
      <3> QED BY <1>0, <1>1, <2>1, <2>2, <3>1, <3>2, CalmMoves
    <2>3. CASE Answer(r, "missing", Nothing, Nothing)
      <3>1. /\ pc'[r] = "idle" /\ answer'[r].kind = "missing" /\ held'[r] = held[r]
            /\ \A x \in Clients : x # r => /\ pc'[x] = pc[x] /\ answer'[x] = answer[x]
                                           /\ held'[x] = held[x]
        BY <2>3, AnswerLeaves
      <3>2. Calm(req'[r], pc'[r], answer'[r], held'[r], r \in late', told.subs)
        BY <1>0, <3>1 DEF Calm
      <3> QED BY <1>0, <1>1, <2>1, <3>1, <3>2, CalmMoves
    <2> QED BY <1>2, <2>2, <2>3 DEF Check
  <1>3. CASE Stat(r)
    <2>1. /\ pc[r] = "stat" /\ entry' = entry /\ req[r].path = Local
          /\ req[r].known \in {Nothing, held[r].fp}
          /\ req' = [req EXCEPT ![r].fs = active, ![r].fp = Main(active)]
      <3>1. pc[r] = "stat" /\ entry' = entry
        BY <1>3 DEF Stat
      <3>2. req[r].path = Local /\ req[r].known \in {Nothing, held[r].fp}
        BY <1>0, <3>1 DEF Calm
      <3> QED BY <1>0, <1>3, <3>1, <3>2 DEF Stat
    <2>2. /\ req'[r].fp = Main(Local) /\ req'[r].path = Local /\ req'[r].known = req[r].known
          /\ \A x \in Clients : x # r => req'[x] = req[x]
      BY <1>0, <2>1, Typings DEF Request
    <2>3. CASE /\ req[r].known # Nothing /\ req[r].known = req'[r].fp
               /\ Answer(r, "unchanged", Nothing, req[r].known)
      <3>1. /\ pc'[r] = "idle" /\ answer'[r].floor = answer[r].floor /\ held'[r] = held[r]
            /\ \A x \in Clients : x # r => /\ pc'[x] = pc[x] /\ answer'[x] = answer[x]
                                           /\ held'[x] = held[x]
        BY <2>3, AnswerLeaves
      <3>2. held[r].fp = Main(Local) /\ Fresh(held[r].main, held[r].fp)
        BY <1>0, <2>1, <2>2, <2>3 DEF Calm
      <3>3. answer[r].floor.ctx = Local /\ answer[r].floor.version <= file[Local].main
        BY <1>0, <2>1 DEF Served
      <3>4. /\ answer[r].floor.version \in Nat /\ held[r].main.version \in Nat
            /\ file[Local].main \in Nat
        BY Typings DEF Reply, Shown, Stamp, File
      <3>5. Fresh(held[r].main, answer[r].floor)
        BY <3>2, <3>3, <3>4, Typings DEF Fresh
      <3>6. Calm(req'[r], pc'[r], answer'[r], held'[r], r \in late', told.subs)
        BY <1>0, <3>1, <3>5 DEF Calm
      <3> QED BY <1>0, <1>1, <2>1, <2>2, <3>1, <3>6, CalmMoves
    <2>4. CASE Goto(r, "look") /\ UNCHANGED <<held, answer>>
      <3>1. pc'[r] = "look" /\ \A x \in Clients : x # r => pc'[x] = pc[x]
        BY <2>4, Typings DEF Goto
      <3>2. Calm(req'[r], pc'[r], answer'[r], held'[r], r \in late', told.subs)
        BY <1>0, <2>2, <2>4, <3>1, Typings DEF Calm
      <3> QED BY <1>0, <1>1, <2>1, <2>2, <2>4, <3>1, <3>2, CalmMoves
    <2> QED BY <1>3, <2>3, <2>4 DEF Stat
  <1>4. CASE Look(r)
    <2>1. pc[r] = "look" /\ req' = req
      BY <1>4 DEF Look
    <2>2. CASE entry.stored /\ Answer(r, "full", entry.main, entry.fp) /\ entry' = entry
      <3>1. /\ pc'[r] = "idle" /\ answer'[r].kind = "full"
            /\ held'[r].main = entry.main
            /\ held'[r].fp = IF entry.fp = Nothing THEN held[r].fp ELSE entry.fp
            /\ \A x \in Clients : x # r => /\ pc'[x] = pc[x] /\ answer'[x] = answer[x]
                                           /\ held'[x] = held[x]
        BY <2>2, AnswerLeaves
      <3>2. Fresh(held'[r].main, held'[r].fp)
        BY <1>0, <2>2, <3>1 DEF QInv, IInv, LabelIsHonest
      <3>3. Calm(req'[r], pc'[r], answer'[r], held'[r], r \in late', told.subs)
        BY <3>1, <3>2 DEF Calm
      <3> QED BY <1>0, <1>1, <2>1, <2>2, <3>1, <3>3, CalmMoves
    <2>3. CASE entry' = NoEntry /\ Goto(r, "parse") /\ UNCHANGED <<held, answer>>
      <3>1. pc'[r] = "parse" /\ \A x \in Clients : x # r => pc'[x] = pc[x]
        BY <2>3, Typings DEF Goto
      <3>2. Calm(req'[r], pc'[r], answer'[r], held'[r], r \in late', told.subs)
        BY <1>0, <2>1, <2>3, <3>1 DEF Calm
      <3>3. ~entry'.stored
        BY <2>3 DEF NoEntry
      <3> QED BY <1>0, <1>1, <2>1, <2>3, <3>1, <3>2, <3>3, CalmMoves
    <2> QED BY <1>4, <2>2, <2>3 DEF Look
  <1>5. CASE Parse(r)
    <2>1. /\ pc[r] = "parse" /\ UNCHANGED <<entry, held, answer>> /\ Goto(r, "subs")
          /\ req' = [req EXCEPT ![r].main =
                        IF req[r].path = req[r].fs THEN Main(req[r].fs) ELSE Nothing]
      BY <1>0, <1>5 DEF Parse
    <2>2. req[r].path = Local /\ req[r].fp # Nothing
      BY <1>0, <2>1 DEF Calm
    <2>3. req[r].fs = Local
      BY <1>0, <2>1, <2>2 DEF Served, Between
    <2>4. /\ req'[r].main = Main(Local) /\ req'[r].path = req[r].path /\ req'[r].fp = req[r].fp
          /\ \A x \in Clients : x # r => req'[x] = req[x]
      BY <2>1, <2>2, <2>3, Typings DEF Request
    <2>5. pc'[r] = "subs" /\ \A x \in Clients : x # r => pc'[x] = pc[x]
      BY <2>1, Typings DEF Goto
    <2>6. Calm(req'[r], pc'[r], answer'[r], held'[r], r \in late', told.subs)
      BY <1>0, <2>1, <2>2, <2>4, <2>5, Typings DEF Calm
    <2> QED BY <1>0, <1>1, <2>1, <2>4, <2>5, <2>6, CalmMoves
  <1>6. CASE ResolveSubagents(r)
    <2>1. /\ pc[r] = "subs" /\ UNCHANGED <<entry, held, answer>> /\ Goto(r, "store")
          /\ req' = [req EXCEPT ![r].subs = Subs(active)]
      BY <1>0, <1>6 DEF ResolveSubagents
    <2>2. /\ req'[r].subs = Subs(Local) /\ req'[r].path = req[r].path
          /\ req'[r].fp = req[r].fp /\ req'[r].main = req[r].main
          /\ \A x \in Clients : x # r => req'[x] = req[x]
      BY <1>0, <2>1, Typings DEF Request
    <2>3. pc'[r] = "store" /\ \A x \in Clients : x # r => pc'[x] = pc[x]
      BY <2>1, Typings DEF Goto
    <2>4. req'[r].subs.version >= told.subs
      <3>1. /\ Subs(Local).version = file[Local].subs /\ told.subs <= file[Local].subs
            /\ file[Local].subs \in Nat /\ told.subs \in Nat
        BY Typings DEF Subs, QuietBody, File, QInv, TInv, Files, SmallFile
      <3> QED BY <2>2, <3>1
    <2>5. Calm(req'[r], pc'[r], answer'[r], held'[r], r \in late', told.subs)
      BY <1>0, <2>1, <2>2, <2>3, <2>4 DEF Calm
    <2> QED BY <1>0, <1>1, <2>1, <2>2, <2>3, <2>5, CalmMoves
  <1>7. CASE Store(r)
    <2>1. /\ pc[r] = "store" /\ req' = req /\ Answer(r, "full", req[r].main, req[r].fp)
          /\ entry' = [main |-> req[r].main, subs |-> req[r].subs, fp |-> req[r].fp,
                       stored |-> TRUE, late |-> r \in late]
      BY <1>7 DEF Store
    <2>2. /\ req[r].fp # Nothing /\ req[r].main # Nothing
          /\ r \notin late => req[r].subs.version >= told.subs
      BY <1>0, <2>1 DEF Calm
    <2>3. /\ entry'.main = req[r].main /\ entry'.fp = req[r].fp
          /\ entry'.subs = req[r].subs /\ (entry'.late <=> r \in late)
      BY <2>1
    <2>4. /\ pc'[r] = "idle" /\ answer'[r].kind = "full"
          /\ held'[r].main = req[r].main /\ held'[r].fp = req[r].fp
          /\ \A x \in Clients : x # r => /\ pc'[x] = pc[x] /\ answer'[x] = answer[x]
                                         /\ held'[x] = held[x]
      BY <2>1, <2>2, AnswerLeaves
    <2>5. Fresh(req[r].main, req[r].fp)
      BY <1>0, <2>1, <2>2 DEF Served
    <2>6. Calm(req'[r], pc'[r], answer'[r], held'[r], r \in late', told.subs)
      BY <2>4, <2>5 DEF Calm
    <2> QED BY <1>1, <2>1, <2>2, <2>3, <2>4, <2>6, CalmMoves
  <1> QED BY <1>2, <1>3, <1>4, <1>5, <1>6, <1>7 DEF Serve

LEMMA QuietStep == QInv /\ [Next]_vars => QuietInv'
  <1> SUFFICES ASSUME QInv, [Next]_vars, Quiet' PROVE QuietBody'
    BY DEF QuietInv
  <1>0. fails \in Nat /\ switches \in Nat /\ fails' = 0 /\ switches' = 0
    BY DEF QInv, TInv, Counts, Quiet
  <1>1. \A c \in Contexts : ~SwitchContext(c)
    BY <1>0 DEF SwitchContext
  <1>2. fails = 0 /\ switches = 0
    <2>1. ASSUME NEW r \in Clients, Serve(r) PROVE fails = 0 /\ switches = 0
      <3>1. switches' = switches /\ (fails' = fails \/ Fail)
        BY <2>1 DEF Serve, Check, Stat, Look, Parse, ResolveSubagents, Store, env
      <3> QED BY <1>0, <3>1 DEF Fail
    <2>2. (fails' = fails /\ switches' = switches) \/ \E r \in Clients : Serve(r)
      BY <1>1 DEF Next, Write, HandleEvent, Evict, Ask, vars, env
    <2> QED BY <1>0, <2>1, <2>2
  <1>3. QuietBody
    BY <1>2 DEF QInv, QuietInv, Quiet
  <1>4. ASSUME NEW r \in Clients, Serve(r) PROVE QuietBody'
    BY <1>0, <1>2, <1>3, <1>4, CalmServe
  <1> QED BY <1>1, <1>3, <1>4, CalmFiles, CalmAsk DEF Next

LEMMA QuietInvariance == Spec => []QInv
  <1>1. Init => QInv
    BY InitOk, TInvInit, QuietInit DEF QInv
  <1>2. QInv /\ [Next]_vars => QInv'
    BY Inductive, TInvStep, QuietStep DEF QInv
  <1> QED BY <1>1, <1>2, PTL DEF Spec

(* The cache claims no more than it holds, an answer with a fingerprint is   *)
(* not older than its question, and the client that is told that nothing     *)
(* changed shows what the file held when it asked, or later content, as long *)
(* as no access fails and the context is the same; every variable keeps its  *)
(* type.  For any clients, contexts, writes and requests.                    *)
THEOREM HonestAnswers == Spec => []AnswersAreHonest
  <1>1. QInv => AnswersAreHonest
    <2> SUFFICES ASSUME QInv PROVE AnswersAreHonest
      OBVIOUS
    <2>1. TypeOK /\ LabelIsHonest
      BY TInvIsTypeOK DEF QInv, IInv
    <2>2. UnchangedIsTrue
      BY DEF QInv, QuietInv, QuietBody, Calm, UnchangedIsTrue
    <2>3. FullIsFresh
      BY DEF QInv, IInv, Served, FullIsFresh
    <2> QED BY <2>1, <2>2, <2>3 DEF AnswersAreHonest
  <1> QED BY <1>1, QuietInvariance, PTL

(* An entry that has a subagent's earlier state, from before a change that   *)
(* the main listener has handled, was stored by a request that was being     *)
(* served when it did, for any clients and writes and however many requests  *)
(* are served at once.                                                       *)
THEOREM NoStaleSubagents == Spec => []InvalidationReaches
  <1>1. QInv => InvalidationReaches
    BY DEF QInv, QuietInv, QuietBody, InvalidationReaches
  <1> QED BY <1>1, QuietInvariance, PTL

-----------------------------------------------------------------------------
(* Deleting a session. *)

Parts == {Order[k] : k \in 1 .. 9}

DeletionType ==
    del \in [step : 0 .. 13, left : SUBSET Parts, index : {"named", "clean", "unreadable"},
             marked : BOOLEAN, cached : BOOLEAN, host : BOOLEAN, rewritten : SUBSET Parts, main : BOOLEAN,
             associated : Nat, errors : Nat, runs : Nat, failed : SUBSET (Parts \cup {"index"}),
             overlooked : SUBSET (Parts \cup {"index"})]

\* What a deletion has come past is gone, was written again, failed or was passed
\* over; what failed was counted; and a file answered as deleted was there to be
\* removed.
PastInv ==
    \A k \in 1 .. 9 : k < del.step /\ Order[k] \in del.left => Order[k] \in del.rewritten \cup del.failed \cup del.overlooked
CountInv ==
    /\ del.failed # {} => del.errors > 0
    /\ del.step > 10 /\ del.index = "named" => del.errors > 0 \/ "index" \in del.overlooked
    /\ del.step = 13 => ~del.cached
    /\ del.main /\ del.step > 1 => "main" \notin del.left \ del.rewritten
    /\ del.main => del.step > 1

DelInv == DeletionType /\ PastInv /\ CountInv

LEMMA DelInvInit == DeletionInit => DelInv
<1> SUFFICES ASSUME DeletionInit PROVE DelInv
  OBVIOUS
<1>1. DOMAIN Order = 1 .. 9
  BY DEF Order
<1>2. PICK i \in DOMAIN Artifacts, index \in {"named", "clean", "unreadable"}, host \in BOOLEAN :
          del = [step |-> 0, left |-> Artifacts[i], index |-> index, marked |-> TRUE, cached |-> TRUE, host |-> host,
                 rewritten |-> {}, main |-> FALSE, associated |-> 0, errors |-> 0, runs |-> 0,
                 failed |-> {}, overlooked |-> {}]
  BY DEF DeletionInit
<1>3. Artifacts[i] \subseteq Parts
  BY <1>1, DeletionAssumption DEF Parts
<1> QED
  BY <1>2, <1>3 DEF DelInv, DeletionType, PastInv, CountInv

LEMMA DelInvStep == DelInv /\ [DeletionNext]_del => DelInv'
<1> SUFFICES ASSUME DelInv, [DeletionNext]_del PROVE DelInv'
  OBVIOUS
<1>0. /\ DeletionType /\ PastInv /\ CountInv
      /\ del.step \in 0 .. 13 /\ del.errors \in Nat
  BY DEF DelInv, DeletionType
<1>1. DOMAIN Order = 1 .. 9 /\ Order[1] = "main"
  BY DEF Order
<1>2. \A k, l \in 1 .. 9 : Order[k] = Order[l] => k = l
  BY DEF Order
<1>3. "main" \in Parts
  BY <1>1 DEF Parts
<1>4. del.step \in DOMAIN Order => Here = Order[del.step] /\ Here \in Parts
  BY <1>1 DEF Here, Parts
<1>5. CASE AskDeletion
  <2>1. del' = [step |-> 1, left |-> del.left, index |-> del.index, marked |-> del.marked,
                cached |-> del.cached, host |-> del.host, rewritten |-> {}, main |-> FALSE, associated |-> 0,
                errors |-> 0, runs |-> del.runs + 1, failed |-> {}, overlooked |-> {}]
    BY <1>0, <1>5 DEF AskDeletion, DeletionType
  <2>2. DeletionType'
    BY <1>0, <2>1 DEF DeletionType
  <2> QED
    BY <1>0, <2>1, <2>2 DEF DelInv, PastInv, CountInv
<1>6. CASE Skip
  <2>1. del.step \in 1 .. 9 /\ Order[del.step] \notin del.left
    BY <1>0, <1>1, <1>4, <1>6 DEF Skip
  <2>2. del' = [step |-> del.step + 1, left |-> del.left, index |-> del.index, marked |-> del.marked,
                cached |-> del.cached, host |-> del.host, rewritten |-> del.rewritten, main |-> del.main, associated |-> del.associated,
                errors |-> del.errors, runs |-> del.runs, failed |-> del.failed, overlooked |-> del.overlooked]
    BY <1>0, <1>6 DEF Skip, DeletionType
  <2>3. DeletionType'
    BY <1>0, <1>1, <1>4, <2>1, <2>2 DEF DeletionType
  <2> QED
    BY <1>0, <1>1, <1>4, <2>1, <2>2, <2>3 DEF DelInv, PastInv, CountInv
<1>7. CASE RemoveArtifact
  <2>1. del.step \in 1 .. 9 /\ Here = Order[del.step] /\ Here \in Parts
    BY <1>0, <1>1, <1>2, <1>4, <1>7 DEF RemoveArtifact
  <2>2. PICK m \in BOOLEAN, n \in Nat :
            /\ Here = "main" \/ m = del.main
            /\ del' = [step |-> del.step + 1, left |-> del.left \ {Here}, index |-> del.index, marked |-> del.marked,
                    cached |-> del.cached, host |-> del.host, rewritten |-> del.rewritten, main |-> m, associated |-> n,
                    errors |-> del.errors, runs |-> del.runs, failed |-> del.failed, overlooked |-> del.overlooked]
    <3>1. del.main \in BOOLEAN /\ del.associated \in Nat
      BY <1>0 DEF DeletionType
    <3>2. CASE Here = "main"
      BY <1>0, <1>7, <3>1, <3>2 DEF RemoveArtifact, DeletionType
    <3>3. CASE Here # "main"
      <4>1. del.associated + 1 \in Nat
        BY <3>1
      <4> QED
        BY <1>0, <1>7, <3>1, <3>3, <4>1 DEF RemoveArtifact, DeletionType
    <3> QED
      BY <3>2, <3>3
  <2>3. DeletionType'
    BY <1>0, <2>1, <2>2 DEF DeletionType
  <2> QED
    BY <1>0, <1>1, <1>2, <2>1, <2>2, <2>3 DEF DelInv, PastInv, CountInv
<1>8. CASE FailToRemove
  <2>1. del.step \in 1 .. 9 /\ Here = Order[del.step] /\ Here \in Parts
    BY <1>0, <1>1, <1>4, <1>8 DEF FailToRemove
  <2>2. PICK n \in Nat :
            del' = [step |-> del.step + 1, left |-> del.left, index |-> del.index, marked |-> del.marked,
                    cached |-> del.cached, host |-> del.host, rewritten |-> del.rewritten, main |-> del.main, associated |-> n,
                    errors |-> del.errors + 1, runs |-> del.runs, failed |-> del.failed \cup {Here}, overlooked |-> del.overlooked]
    <3>1. PICK n \in Some : del' = [del EXCEPT !.step = @ + 1, !.associated = @ + n, !.errors = @ + 1,
                                              !.failed = @ \cup {Here}]
      BY <1>8 DEF FailToRemove
    <3>2. del.associated + n \in Nat
      BY <1>0, <3>1 DEF DeletionType, Some
    <3> QED
      BY <1>0, <3>1, <3>2 DEF DeletionType
  <2>3. DeletionType'
    BY <1>0, <1>1, <1>4, <2>1, <2>2 DEF DeletionType
  <2> QED
    BY <1>0, <1>1, <1>4, <2>1, <2>2, <2>3 DEF DelInv, PastInv, CountInv
<1>9. CASE CleanIndex
  <2>1. del.step = 10
    BY <1>0, <1>9 DEF CleanIndex
  <2>2. CASE del' = [del EXCEPT !.step = 11, !.index = IF @ = "named" THEN "clean" ELSE @]
    <3>1. del' = [step |-> 11, left |-> del.left, index |-> IF del.index = "named" THEN "clean" ELSE del.index, marked |-> del.marked,
                   cached |-> del.cached, host |-> del.host, rewritten |-> del.rewritten, main |-> del.main,
                   associated |-> del.associated, errors |-> del.errors, runs |-> del.runs,
                   failed |-> del.failed, overlooked |-> del.overlooked]
      BY <1>0, <2>2 DEF DeletionType
    <3>2. DeletionType'
      BY <1>0, <2>1, <3>1 DEF DeletionType
    <3> QED
      BY <1>0, <2>1, <3>1, <3>2 DEF DelInv, PastInv, CountInv
  <2>3. CASE del' = [del EXCEPT !.step = 11, !.errors = @ + 1, !.failed = @ \cup {"index"}]
    <3>1. del' = [step |-> 11, left |-> del.left, index |-> del.index, marked |-> del.marked,
                   cached |-> del.cached, host |-> del.host, rewritten |-> del.rewritten, main |-> del.main,
                   associated |-> del.associated, errors |-> del.errors + 1, runs |-> del.runs,
                   failed |-> del.failed \cup {"index"}, overlooked |-> del.overlooked]
      BY <1>0, <2>3 DEF DeletionType
    <3>2. DeletionType'
      BY <1>0, <2>1, <3>1 DEF DeletionType
    <3> QED
      BY <1>0, <2>1, <3>1, <3>2 DEF DelInv, PastInv, CountInv
  <2>4. CASE OverlookIndex
    <3>1. del' = [step |-> 11, left |-> del.left, index |-> del.index, marked |-> del.marked,
                   cached |-> del.cached, host |-> del.host, rewritten |-> del.rewritten, main |-> del.main,
                   associated |-> del.associated, errors |-> del.errors, runs |-> del.runs,
                   failed |-> del.failed, overlooked |-> del.overlooked \cup {"index"}]
      BY <1>0, <2>4 DEF OverlookIndex, DeletionType
    <3>2. DeletionType'
      BY <1>0, <2>1, <3>1 DEF DeletionType
    <3> QED
      BY <1>0, <2>1, <3>1, <3>2 DEF DelInv, PastInv, CountInv
  <2> QED
    BY <1>9, <2>2, <2>3, <2>4 DEF CleanIndex
<1>10. CASE CleanSettings
  <2>1. PICK m \in BOOLEAN : del' = [step |-> 12, left |-> del.left, index |-> del.index, marked |-> m,
                                     cached |-> del.cached, host |-> del.host, rewritten |-> del.rewritten, main |-> del.main, associated |-> del.associated,
                                     errors |-> del.errors, runs |-> del.runs, failed |-> del.failed, overlooked |-> del.overlooked]
    <3>1. PICK saved \in BOOLEAN : del' = [del EXCEPT !.step = 12, !.marked = ~saved /\ @]
      BY <1>10 DEF CleanSettings
    <3>2. (~saved /\ del.marked) \in BOOLEAN
      BY <1>0 DEF DeletionType
    <3> QED
      BY <1>0, <3>1, <3>2 DEF DeletionType
  <2>2. DeletionType'
    BY <1>0, <2>1 DEF DeletionType
  <2> QED
    BY <1>0, <1>10, <2>1, <2>2 DEF CleanSettings, DelInv, PastInv, CountInv
<1>11. CASE DropCached
  <2>1. del.step = 12
    BY <1>0, <1>11 DEF DropCached
  <2>2. del' = [step |-> 13, left |-> del.left, index |-> del.index, marked |-> del.marked,
                cached |-> FALSE, host |-> del.host, rewritten |-> del.rewritten, main |-> del.main, associated |-> del.associated,
                errors |-> del.errors, runs |-> del.runs, failed |-> del.failed, overlooked |-> del.overlooked]
    BY <1>0, <1>11 DEF DropCached, DeletionType
  <2>3. DeletionType'
    BY <1>0, <2>1, <2>2 DEF DeletionType
  <2> QED
    BY <1>0, <2>1, <2>2, <2>3 DEF DelInv, PastInv, CountInv
<1>12. CASE Overlook
  <2>1. del.step \in 1 .. 9 /\ Here = Order[del.step] /\ Here \in Parts
    BY <1>0, <1>1, <1>4, <1>12 DEF Overlook
  <2>2. PICK n \in Nat :
            del' = [step |-> del.step + 1, left |-> del.left, index |-> del.index, marked |-> del.marked,
                    cached |-> del.cached, host |-> del.host, rewritten |-> del.rewritten, main |-> del.main, associated |-> n,
                    errors |-> del.errors, runs |-> del.runs, failed |-> del.failed, overlooked |-> del.overlooked \cup {Here}]
    <3>1. PICK n \in {0, 1} : del' = [del EXCEPT !.step = @ + 1, !.associated = @ + n, !.overlooked = @ \cup {Here}]
      BY <1>12 DEF Overlook, Some
    <3>2. del.associated + n \in Nat
      BY <1>0, <3>1 DEF DeletionType
    <3> QED
      BY <1>0, <3>1, <3>2 DEF DeletionType
  <2>3. DeletionType'
    BY <1>0, <1>1, <1>4, <2>1, <2>2 DEF DeletionType
  <2> QED
    BY <1>0, <1>1, <1>4, <2>1, <2>2, <2>3 DEF DelInv, PastInv, CountInv
<1>13. CASE WriteOn
  <2>1. del.step \in 2 .. 12
    BY <1>0, <1>3, <1>13 DEF WriteOn
  <2>2. del' = [step |-> del.step, left |-> del.left \cup {"main"}, index |-> del.index, marked |-> del.marked,
                cached |-> del.cached, host |-> del.host, rewritten |-> del.rewritten \cup {"main"}, main |-> del.main, associated |-> del.associated,
                errors |-> del.errors, runs |-> del.runs, failed |-> del.failed, overlooked |-> del.overlooked]
    BY <1>0, <1>13 DEF WriteOn, DeletionType
  <2>3. DeletionType'
    BY <1>0, <1>3, <2>1, <2>2 DEF DeletionType
  <2> QED
    BY <1>0, <1>3, <2>1, <2>2, <2>3 DEF DelInv, PastInv, CountInv
<1>14. CASE UNCHANGED del
  BY <1>0, <1>14 DEF DelInv, DeletionType, PastInv, CountInv
<1> QED
  BY <1>5, <1>6, <1>7, <1>8, <1>9, <1>10, <1>11, <1>12, <1>13, <1>14 DEF DeletionNext

(* A deletion that ends without an error has removed all that it saw of the  *)
(* session: what is left was written again meanwhile or passed over, as is   *)
(* an index that names it; the caches know of it no more; and a file that is *)
(* answered as deleted is gone or written again. For any artifacts, places,  *)
(* failures, failing looks and number of deletions.                          *)
THEOREM DeletionIsReported == DeletionSpec => []DeletionReports
<1>1. DelInv => DeletionReports
  BY DEF DelInv, DeletionType, PastInv, CountInv, DeletionReports, Parts
<1> QED BY <1>1, DelInvInit, DelInvStep, PTL DEF DeletionSpec
=============================================================================
