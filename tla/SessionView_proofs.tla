-------------------------- MODULE SessionView_proofs --------------------------
(***************************************************************************)
(* Proofs about SessionView: the maps that coordinate the refreshes of a    *)
(* session agree with the calls under way, and at rest the session on view  *)
(* shows what its file holds.                                               *)
(*                                                                         *)
(* What is shown stays right by a chain of knowledge: a version is up to    *)
(* date if its fingerprint is the newest one's, and whenever something that *)
(* the window remembers of a session (the fingerprint of the file, that of  *)
(* the chunks, what a refresh under way was told) is up to date, so is what *)
(* the tab shows (Synced).                                                  *)
(***************************************************************************)
EXTENDS SessionView, TLAPS, SequenceTheorems, FiniteSetTheorems

Chunks == [end : Nat, rev : Nat]
ItemSet == Sessions \X Chunks
FingerprintSet == Nat \X Nat

-----------------------------------------------------------------------------
(* The versions of one file.                                                *)

FP(h, v) == <<Len(h[v]), Last(h[v]).end>>
UpToDate(h, v) == v \in 1..Len(h) /\ FP(h, v) = FP(h, Len(h))

\* Version w keeps of version v all chunks but its last that are not
\* reworked, and the last one too if it still ends where it did.
Keeps(h, v, w) ==
    /\ Len(h[v]) <= Len(h[w])
    /\ \A k \in 1..Len(h[v]) :
          h[w][k].rev = 0 /\ (k < Len(h[v]) \/ (Len(h[w]) = Len(h[v]) /\ h[w][k].end = h[v][k].end))
              => h[w][k] = h[v][k]

GoodFile(h) ==
    /\ h \in Seq(Seq(Chunks))
    /\ Len(h) >= 1
    /\ \A v \in 1..Len(h) : Len(h[v]) >= 1
    /\ \A v \in 1..Len(h) : \A k \in 1..Len(h[v]) : h[v][k].end \in 1..v /\ h[v][k].rev \in 0..v
    /\ \A v, w \in 1..Len(h) : v <= w => Keeps(h, v, w)
    /\ \A v, w \in 1..Len(h) : v <= w /\ UpToDate(h, v) => UpToDate(h, w)

\* What a write makes of the newest version.
Written(h) ==
    LET now == h[Len(h)]
        ver == Len(h) + 1
    IN  {Append(now, Chunk(ver)), [now EXCEPT ![Len(now)] = Chunk(ver)]}
            \cup {[now EXCEPT ![k].rev = ver] : k \in 1..Len(now)}

-----------------------------------------------------------------------------
(* The calls cs to the backend, of which n were made, with the generations  *)
(* fg and rg, the sets fl in flight and wt waiting, out the refreshes that  *)
(* outlived a tab, and tb the tabs.                                         *)

Slots == 1..MaxCalls
CallSet == [kind : {"none", "fetch", "refresh"}, sess : Sessions \cup {NoSession},
            gen : 0..MaxCalls, known : Nat, ver : Nat]

\* The calls of a session that may still change what is shown: the refresh of
\* the tab's newest generation, and the newest fetch.
Asked(cs, rg, out, i, s) ==
    i \notin out /\ cs[i].kind = "refresh" /\ cs[i].sess = s /\ cs[i].gen = rg[s]
Fetched(cs, fg, i, s) == cs[i].kind = "fetch" /\ cs[i].sess = s /\ cs[i].gen = fg

Asks(cs, rg, out, s) == {cs[i] : i \in {j \in Slots : Asked(cs, rg, out, j, s)}}
Fetches(cs, fg, s) == {cs[i] : i \in {j \in Slots : Fetched(cs, fg, j, s)}}

CallsOK(cs, n, fg, rg, fl, wt, out, tb) ==
    /\ n \in 0..MaxCalls
    /\ cs \in [Slots -> CallSet]
    /\ fg \in 0..n
    /\ rg \in [Sessions -> 0..n]
    /\ tb \subseteq Sessions
    /\ out \subseteq 1..n
    /\ \A s \in Sessions \ tb : rg[s] = 0
    /\ \A i \in Slots : i > n => cs[i] = NoCall
    /\ \A i \in Slots : cs[i].kind # "none" => cs[i].sess \in Sessions
    /\ \A i \in Slots : cs[i].kind = "fetch" => cs[i].gen <= fg
    /\ \A i \in Slots : cs[i].kind = "refresh" => cs[i].gen >= 1
    /\ \A i \in Slots \ out : cs[i].kind = "refresh" => cs[i].sess \in tb /\ cs[i].gen <= rg[cs[i].sess]
    /\ \A i, j \in Slots \ out :
          cs[i].kind = "refresh" /\ cs[j].kind = "refresh" /\ cs[i].sess = cs[j].sess
            /\ cs[i].gen = cs[j].gen => i = j
    /\ \A s \in fl : s \in tb /\ \E i \in Slots : Asked(cs, rg, out, i, s)
    /\ wt \subseteq fl

\* Of each session one refresh is under way, or none.
OneOK(cs, fl, out) ==
    /\ out = {}
    /\ \A i \in Slots : cs[i].kind = "refresh" => cs[i].sess \in fl
    /\ \A i, j \in Slots :
          cs[i].kind = "refresh" /\ cs[j].kind = "refresh" /\ cs[i].sess = cs[j].sess => i = j

\* No call has been told of, or answered with, a version still to come, and
\* nothing is left of a call that returned.
VersionsOK(cs, files) ==
    /\ \A i \in Slots : cs[i].kind # "none" => /\ cs[i].known <= Len(files[cs[i].sess])
                                               /\ cs[i].ver <= Len(files[cs[i].sess])
    /\ \A i \in Slots : cs[i].kind = "none" => cs[i] = NoCall

-----------------------------------------------------------------------------
(* The invariants.                                                          *)

FileInv ==
    /\ file \in [Sessions -> Seq(Seq(Chunks))]
    /\ \A s \in Sessions : GoodFile(file[s]) /\ Len(file[s]) <= writes + 1
    /\ writes \in 0..MaxWrites

WindowInv ==
    /\ event \subseteq Sessions
    /\ timer \subseteq Sessions
    /\ tabs \subseteq Sessions
    /\ selected \in IF tabs = {} THEN {NoSession} ELSE tabs
    /\ missed \subseteq tabs
    /\ overtaken \subseteq tabs
    /\ crossed \subseteq tabs
    /\ closes \in 0..MaxCloses
    /\ manuals \in 0..MaxManual

ShownInv ==
    /\ view \in [Sessions -> Nat]
    /\ items \in [Sessions -> Seq(ItemSet)]
    /\ global \in Seq(ItemSet)
    /\ fileFp \in [Sessions -> Nat]
    /\ chunkFp \in [Sessions -> {<<>>} \cup FingerprintSet]
    /\ \A s \in Sessions : view[s] <= Len(file[s]) /\ fileFp[s] <= Len(file[s])
    /\ \A s \in Sessions : view[s] = 0 <=> items[s] = <<>>
    /\ \A s \in Sessions \ tabs : view[s] = 0 /\ chunkFp[s] = <<>>

CallsInv ==
    /\ CallsOK(call, calls, fetchGen, refreshGen, inFlight, queued, outlived, tabs)
    /\ VersionsOK(call, file)

OneInv == closes = 0 => OneOK(call, inFlight, outlived)

Synced(h, v, fp, cfp, waits, A, F) ==
    /\ v # 0 /\ UpToDate(h, fp) => UpToDate(h, v)
    /\ cfp # <<>> => v # 0 /\ \E w \in 1..Len(h) : cfp = FP(h, w) /\ (UpToDate(h, w) => UpToDate(h, v))
    /\ \A c \in A : v # 0 /\ UpToDate(h, c.known) => UpToDate(h, v)
    /\ \A c \in A : v = 0 => c.known = fp
    /\ \A c \in A : c.ver = 0 \/ UpToDate(h, c.ver) \/ waits
    /\ \A c \in F : v = 0 /\ c.ver # 0 =>
          /\ UpToDate(h, fp) => UpToDate(h, c.ver)
          /\ UpToDate(h, c.ver) \/ waits \/ A # {}
    /\ v # 0 => UpToDate(h, v) \/ waits \/ A # {}

Own(h, v, its, s) ==
    v # 0 => /\ Len(its) = Len(h[v])
             /\ \A k \in 1..Len(h[v]) : h[v][k].rev = 0 => its[k] = <<s, h[v][k]>>

FetchInv == selected # NoSession /\ view[selected] = 0 => Fetches(call, fetchGen, selected) # {}

Waits(s) == s \in event \cup timer \cup queued
SyncedNow(s) ==
    Synced(file[s], view[s], fileFp[s], chunkFp[s], Waits(s),
           Asks(call, refreshGen, outlived, s), Fetches(call, fetchGen, s))

SyncInv == \A s \in tabs \ (missed \cup overtaken) : SyncedNow(s)

OwnInv == \A s \in tabs \ (overtaken \cup crossed) : Own(file[s], view[s], items[s], s)

-----------------------------------------------------------------------------
(* What a write does to the versions of a file.                             *)

\* What is needed of the newest version of a good file.
LEMMA Newest ==
    ASSUME NEW h, GoodFile(h)
    PROVE  /\ Len(h) \in Nat \ {0}
           /\ h[Len(h)] \in Seq(Chunks)
           /\ Len(h[Len(h)]) \in Nat \ {0}
           /\ \A k \in 1..Len(h[Len(h)]) : h[Len(h)][k] \in Chunks
BY DEF GoodFile

\* A version written has no fewer chunks, and each of them is the one there
\* was, a reworked one, or, if it is the last, one with an end of its own.
LEMMA WrittenChunks ==
    ASSUME NEW h, GoodFile(h), NEW next \in Written(h)
    PROVE  LET now == h[Len(h)]
               ver == Len(h) + 1
           IN  /\ next \in Seq(Chunks)
               /\ Len(now) <= Len(next)
               /\ \A k \in 1..Len(next) : next[k].end \in 1..ver /\ next[k].rev \in 0..ver
               /\ \A k \in 1..Len(now) :
                     \/ next[k] = now[k]
                     \/ next[k].rev = ver
                     \/ k = Len(now) /\ next[k].end = ver
               /\ \/ Len(next) = Len(now) /\ next[Len(next)].end = now[Len(now)].end
                  \/ next[Len(next)].end = ver
<1> DEFINE now == h[Len(h)]
           ver == Len(h) + 1
<1>1. /\ Len(h) \in Nat \ {0}
      /\ now \in Seq(Chunks)
      /\ Len(now) \in Nat \ {0}
      /\ \A k \in 1..Len(now) : now[k] \in Chunks
  BY Newest
<1>2. \A k \in 1..Len(now) : now[k].end \in 1..ver /\ now[k].rev \in 0..ver
  <2>1. \A k \in 1..Len(now) : now[k].end \in 1..Len(h) /\ now[k].rev \in 0..Len(h)
    BY <1>1 DEF GoodFile
  <2> QED
    BY <2>1, <1>1
<1>3. Chunk(ver) \in Chunks /\ Chunk(ver).end = ver /\ Chunk(ver).rev = 0
  BY <1>1 DEF Chunk, Chunks
<1> HIDE DEF now, ver
<1>v. ver = Len(h) + 1 /\ ver \in Nat \ {0}
  BY <1>1 DEF ver
<1>4. CASE next = Append(now, Chunk(ver))
  <2>1. /\ next \in Seq(Chunks)
        /\ Len(next) = Len(now) + 1
        /\ next[Len(now) + 1] = Chunk(ver)
        /\ \A k \in 1..Len(now) : next[k] = now[k]
    BY <1>4, <1>1, <1>3
  <2>2. \A k \in 1..Len(next) : next[k].end \in 1..ver /\ next[k].rev \in 0..ver
    <3> TAKE k \in 1..Len(next)
    <3>1. CASE k = Len(now) + 1
      BY <3>1, <2>1, <1>3, <1>v
    <3>2. CASE k \in 1..Len(now)
      BY <3>2, <2>1, <1>2
    <3> QED
      BY <3>1, <3>2, <2>1, <1>1
  <2> QED
    BY <2>1, <2>2, <1>1, <1>3 DEF now, ver
<1>5. CASE next = [now EXCEPT ![Len(now)] = Chunk(ver)]
  <2>1. /\ next \in Seq(Chunks)
        /\ Len(next) = Len(now)
        /\ next[Len(now)] = Chunk(ver)
        /\ \A k \in 1..Len(now) : k # Len(now) => next[k] = now[k]
    BY <1>5, <1>1, <1>3
  <2>2. \A k \in 1..Len(next) : next[k].end \in 1..ver /\ next[k].rev \in 0..ver
    <3> TAKE k \in 1..Len(next)
    <3>1. CASE k = Len(now)
      BY <3>1, <2>1, <1>3, <1>v
    <3>2. CASE k # Len(now)
      BY <3>2, <2>1, <1>2
    <3> QED
      BY <3>1, <3>2
  <2> QED
    BY <2>1, <2>2, <1>1, <1>3 DEF now, ver
<1>6. ASSUME NEW r \in 1..Len(now), next = [now EXCEPT ![r].rev = ver]
      PROVE  /\ next \in Seq(Chunks)
             /\ Len(next) = Len(now)
             /\ \A k \in 1..Len(now) : k # r => next[k] = now[k]
             /\ next[r].rev = ver
             /\ next[r].end = now[r].end
             /\ \A k \in 1..Len(next) : next[k].end \in 1..ver /\ next[k].rev \in 0..ver
  <2> DEFINE c == [now[r] EXCEPT !.rev = ver]
  <2>1. c \in Chunks /\ c.rev = ver /\ c.end = now[r].end
    BY <1>1, <1>6, <1>v DEF Chunks
  <2>2. next = [now EXCEPT ![r] = c]
    BY <1>6
  <2> HIDE DEF c
  <2>3. /\ next \in Seq(Chunks)
        /\ Len(next) = Len(now)
        /\ \A k \in 1..Len(now) : k # r => next[k] = now[k]
        /\ next[r] = c
    BY <2>1, <2>2, <1>1
  <2>4. \A k \in 1..Len(next) : next[k].end \in 1..ver /\ next[k].rev \in 0..ver
    <3> TAKE k \in 1..Len(next)
    <3>1. CASE k = r
      BY <3>1, <2>1, <2>3, <1>2, <1>v
    <3>2. CASE k # r
      BY <3>2, <2>3, <1>2
    <3> QED
      BY <3>1, <3>2
  <2> QED
    BY <2>1, <2>3, <2>4
<1>7. ASSUME NEW r \in 1..Len(now), next = [now EXCEPT ![r].rev = ver]
      PROVE  /\ Len(now) <= Len(next)
             /\ \A k \in 1..Len(now) : next[k] = now[k] \/ next[k].rev = ver
             /\ Len(next) = Len(now) /\ next[Len(next)].end = now[Len(now)].end
  BY <1>6, <1>7, <1>1
<1>8. \/ next = Append(now, Chunk(ver))
      \/ next = [now EXCEPT ![Len(now)] = Chunk(ver)]
      \/ \E r \in 1..Len(now) : next = [now EXCEPT ![r].rev = ver]
  BY DEF Written, now, ver
<1>9. CASE \E r \in 1..Len(now) : next = [now EXCEPT ![r].rev = ver]
  BY <1>6, <1>7, <1>9 DEF now, ver
<1> QED
  BY <1>4, <1>5, <1>8, <1>9

\* A version that was there is up to date after a write if it was before and
\* the write did not show in the fingerprint, which is then as before.
LEMMA WriteUpToDate ==
    ASSUME NEW h, GoodFile(h), NEW next \in Written(h), NEW v \in 1..Len(h)
    PROVE  /\ UpToDate(Append(h, next), v) => UpToDate(h, v)
           /\ UpToDate(Append(h, next), v) =>
                 \A w \in 1..Len(h) : UpToDate(h, w) => UpToDate(Append(h, next), w)
           /\ FP(Append(h, next), v) = FP(h, v)
<1> DEFINE g == Append(h, next)
<1>1. Len(h) \in Nat \ {0} /\ h \in Seq(Seq(Chunks)) /\ next \in Seq(Chunks)
  BY Newest, WrittenChunks DEF GoodFile
<1>2. Len(g) = Len(h) + 1 /\ g[Len(g)] = next /\ \A w \in 1..Len(h) : g[w] = h[w]
  BY <1>1
<1>3. \A w \in 1..Len(h) : FP(g, w) = FP(h, w)
  BY <1>2 DEF FP
<1>4. \A w \in 1..Len(h) : FP(h, w)[2] \in 1..Len(h)
  <2> TAKE w \in 1..Len(h)
  <2>1. h[w] \in Seq(Chunks) /\ Len(h[w]) \in 1..Len(h[w])
    BY <1>1 DEF GoodFile
  <2>2. h[w][Len(h[w])].end \in 1..w
    BY <2>1 DEF GoodFile
  <2> QED
    BY <2>2, <1>1 DEF FP, Last
<1>5. FP(g, Len(g)) = FP(h, Len(h)) \/ FP(g, Len(g))[2] = Len(h) + 1
  BY <1>2, WrittenChunks DEF FP, Last
<1>6. ASSUME UpToDate(g, v) PROVE FP(g, Len(g)) = FP(h, Len(h)) /\ FP(h, v) = FP(h, Len(h))
  <2>1. FP(h, v) = FP(g, Len(g))
    BY <1>3, <1>6 DEF UpToDate
  <2>2. FP(g, Len(g))[2] # Len(h) + 1
    BY <2>1, <1>4, <1>1
  <2> QED
    BY <2>1, <2>2, <1>5
<1> HIDE DEF g
<1>7. ASSUME UpToDate(g, v) PROVE UpToDate(h, v)
  BY <1>6, <1>7, <1>2 DEF UpToDate
<1>8. ASSUME UpToDate(g, v), NEW w \in 1..Len(h), UpToDate(h, w) PROVE UpToDate(g, w)
  BY <1>6, <1>8, <1>2, <1>3, <1>1 DEF UpToDate
<1> QED
  BY <1>7, <1>8, <1>3 DEF g

LEMMA WriteKeepsGood ==
    ASSUME NEW h, GoodFile(h), NEW next \in Written(h)
    PROVE  GoodFile(Append(h, next))
<1> DEFINE g == Append(h, next)
           now == h[Len(h)]
           ver == Len(h) + 1
<1>1. Len(h) \in Nat \ {0} /\ h \in Seq(Seq(Chunks)) /\ next \in Seq(Chunks)
  BY Newest, WrittenChunks DEF GoodFile
<1>2. /\ g \in Seq(Seq(Chunks))
      /\ Len(g) = ver
      /\ g[ver] = next
      /\ \A w \in 1..Len(h) : g[w] = h[w]
  BY <1>1
<1>3. /\ now \in Seq(Chunks)
      /\ Len(now) \in Nat \ {0}
      /\ Len(now) <= Len(next)
      /\ \A k \in 1..Len(next) : next[k].end \in 1..ver /\ next[k].rev \in 0..ver
      /\ \A k \in 1..Len(now) : \/ next[k] = now[k]
                                \/ next[k].rev = ver
                                \/ k = Len(now) /\ next[k].end = ver
      /\ \/ Len(next) = Len(now)
         \/ next[Len(next)].end = ver
  BY WrittenChunks, Newest
<1>4. \A v \in 1..Len(g) : v = ver \/ v \in 1..Len(h)
  BY <1>1, <1>2
<1> HIDE DEF g
<1>5. \A v \in 1..Len(g) : Len(g[v]) >= 1
  <2>1. Len(next) \in Nat /\ Len(next) >= 1
    BY <1>1, <1>3
  <2> QED
    BY <2>1, <1>2, <1>4 DEF GoodFile
<1>6. \A v \in 1..Len(g) : \A k \in 1..Len(g[v]) : g[v][k].end \in 1..v /\ g[v][k].rev \in 0..v
  BY <1>2, <1>3, <1>4 DEF GoodFile
<1>7. \A v \in 1..Len(h) : Keeps(g, v, ver)
  <2> TAKE v \in 1..Len(h)
  <2>1. Keeps(h, v, Len(h)) /\ g[v] = h[v] /\ g[ver] = next
    BY <1>1, <1>2 DEF GoodFile
  <2>2. /\ h[v] \in Seq(Chunks)
        /\ Len(h[v]) \in Nat
        /\ Len(h[v]) <= Len(now)
        /\ \A k \in 1..Len(h[v]) : h[v][k].end \in 1..Len(h)
    BY <2>1, <1>1 DEF GoodFile, Keeps
  <2>3. ASSUME NEW k \in 1..Len(h[v]), next[k].rev = 0,
               k < Len(h[v]) \/ (Len(next) = Len(h[v]) /\ next[k].end = h[v][k].end)
        PROVE  next[k] = h[v][k]
    <3>1. k \in 1..Len(now) /\ k \in Nat
      BY <2>2, <1>3
    <3>2. next[k].rev # ver
      BY <2>3, <1>1
    <3>3. ~(k = Len(now) /\ next[k].end = ver)
      BY <2>2, <2>3, <1>1, <1>3
    <3>4. next[k] = now[k]
      BY <3>1, <3>2, <3>3, <1>3
    <3>5. k < Len(h[v]) \/ (Len(now) = Len(h[v]) /\ now[k].end = h[v][k].end)
      BY <2>2, <2>3, <1>3, <3>4, <1>1
    <3> QED
      BY <3>4, <3>5, <2>1, <2>3 DEF Keeps
  <2>4. Len(h[v]) <= Len(next)
    BY <2>2, <1>1, <1>3
  <2> QED
    BY <2>1, <2>3, <2>4 DEF Keeps
<1>8. Keeps(g, ver, ver)
  BY <1>1, <1>2 DEF Keeps
<1>9. \A v, w \in 1..Len(g) : v <= w => Keeps(g, v, w)
  <2> TAKE v, w \in 1..Len(g)
  <2> HAVE v <= w
  <2>1. CASE w = ver
    BY <2>1, <1>4, <1>7, <1>8
  <2>2. CASE w \in 1..Len(h)
    <3>1. v \in 1..Len(h) /\ Keeps(h, v, w)
      BY <2>2, <1>1, <1>2 DEF GoodFile
    <3> QED
      BY <3>1, <2>2, <1>2 DEF Keeps
  <2> QED
    BY <2>1, <2>2, <1>4
<1>10. \A v, w \in 1..Len(g) : v <= w /\ UpToDate(g, v) => UpToDate(g, w)
  <2> SUFFICES ASSUME NEW v \in 1..Len(g), NEW w \in 1..Len(g), v <= w, UpToDate(g, v)
               PROVE  UpToDate(g, w)
    OBVIOUS
  <2>1. CASE w = ver
    BY <2>1, <1>2 DEF UpToDate
  <2>2. CASE w \in 1..Len(h)
    <3>1. v \in 1..Len(h)
      BY <2>2, <1>1, <1>2
    <3>2. UpToDate(h, v)
      BY <3>1, WriteUpToDate DEF g
    <3>3. UpToDate(h, w)
      BY <3>1, <3>2, <2>2 DEF GoodFile
    <3> QED
      BY <3>1, <3>3, <2>2, WriteUpToDate DEF g
  <2> QED
    BY <2>1, <2>2, <1>4
<1>11. Len(g) >= 1
  BY <1>1, <1>2
<1> QED
  BY <1>2, <1>5, <1>6, <1>9, <1>10, <1>11 DEF GoodFile, g

-----------------------------------------------------------------------------
(* What the steps do to Synced. *)

LEMMA SyncedWrite ==
    ASSUME NEW h, GoodFile(h), NEW next \in Written(h),
           NEW v \in 0..Len(h), NEW fp, fp \in 0..Len(h), NEW cfp, NEW waits, NEW A, NEW F,
           \A c \in A : c.known \in Nat, \A c \in F : c.ver \in 0..Len(h),
           \A c \in A : c.known <= Len(h),
           Synced(h, v, fp, cfp, waits, A, F)
    PROVE  Synced(Append(h, next), v, fp, cfp, TRUE, A, F)
<1> DEFINE g == Append(h, next)
<1>1. Len(h) \in Nat \ {0} /\ Len(g) = Len(h) + 1
  BY Newest, WrittenChunks DEF GoodFile
<1>2. ASSUME NEW x \in 0..Len(h), NEW y \in 0..Len(h), UpToDate(h, x) => UpToDate(h, y), UpToDate(g, x)
      PROVE  UpToDate(g, y)
  <2>1. x \in 1..Len(h)
    BY <1>1, <1>2 DEF UpToDate
  <2>2. UpToDate(h, y)
    BY <2>1, <1>2, WriteUpToDate
  <2>3. y \in 1..Len(h)
    BY <2>2 DEF UpToDate
  <2> QED
    BY <2>1, <2>2, <2>3, <1>2, WriteUpToDate
<1>3. \A w \in 1..Len(h) : FP(g, w) = FP(h, w) /\ w \in 1..Len(g) /\ w \in 0..Len(h)
  BY <1>1, WriteUpToDate
<1> HIDE DEF g
<1>4. v # 0 /\ UpToDate(g, fp) => UpToDate(g, v)
  BY <1>2 DEF Synced
<1>5. ASSUME cfp # <<>>
      PROVE  v # 0 /\ \E w \in 1..Len(g) : cfp = FP(g, w) /\ (UpToDate(g, w) => UpToDate(g, v))
  <2>1. PICK w \in 1..Len(h) : v # 0 /\ cfp = FP(h, w) /\ (UpToDate(h, w) => UpToDate(h, v))
    BY <1>5 DEF Synced
  <2>2. UpToDate(g, w) => UpToDate(g, v)
    BY <2>1, <1>2, <1>3
  <2> QED
    BY <2>1, <2>2, <1>3
<1>6. \A c \in A : v # 0 /\ UpToDate(g, c.known) => UpToDate(g, v)
  <2> TAKE c \in A
  <2>1. c.known \in 0..Len(h) /\ (v # 0 /\ UpToDate(h, c.known) => UpToDate(h, v))
    BY <1>1 DEF Synced
  <2> QED
    BY <2>1, <1>2
<1>7. \A c \in F : v = 0 /\ c.ver # 0 => (UpToDate(g, fp) => UpToDate(g, c.ver))
  <2> TAKE c \in F
  <2>1. v = 0 /\ c.ver # 0 => (UpToDate(h, fp) => UpToDate(h, c.ver))
    BY DEF Synced
  <2> QED
    BY <2>1, <1>2
<1>8. \A c \in A : v = 0 => c.known = fp
  BY DEF Synced
<1> QED
  BY <1>4, <1>5, <1>6, <1>7, <1>8 DEF Synced, g

\* A call is answered with the newest version.
LEMMA SyncedAnswer ==
    ASSUME NEW h, GoodFile(h), NEW v, NEW fp \in 0..Len(h), NEW cfp, NEW waits, NEW A, NEW F, NEW B, NEW G,
           Synced(h, v, fp, cfp, waits, A, F),
           \A c \in B : c \in A \/ (c.ver = Len(h) /\ \E d \in A : d.known = c.known),
           A # {} => B # {},
           \A c \in G : c \in F \/ c.ver = Len(h)
    PROVE  Synced(h, v, fp, cfp, waits, B, G)
<1>1. UpToDate(h, Len(h))
  BY Newest DEF UpToDate
<1>2. \A c \in B : \E d \in A : d.known = c.known
  OBVIOUS
<1>3. \A c \in B : v # 0 /\ UpToDate(h, c.known) => UpToDate(h, v)
  <2> TAKE c \in B
  <2>1. PICK d \in A : d.known = c.known
    BY <1>2
  <2>2. v # 0 /\ UpToDate(h, d.known) => UpToDate(h, v)
    BY DEF Synced
  <2> QED
    BY <2>1, <2>2
<1>4. \A c \in B : v = 0 => c.known = fp
  <2> TAKE c \in B
  <2>1. PICK d \in A : d.known = c.known
    BY <1>2
  <2>2. v = 0 => d.known = fp
    BY DEF Synced
  <2> QED
    BY <2>1, <2>2
<1>5. \A c \in B : c.ver = 0 \/ UpToDate(h, c.ver) \/ waits
  <2> TAKE c \in B
  <2>1. CASE c \in A
    BY <2>1 DEF Synced
  <2>2. CASE c.ver = Len(h)
    BY <2>2, <1>1
  <2> QED
    BY <2>1, <2>2
<1>6. \A c \in G : v = 0 /\ c.ver # 0 =>
          /\ UpToDate(h, fp) => UpToDate(h, c.ver)
          /\ UpToDate(h, c.ver) \/ waits \/ B # {}
  <2> TAKE c \in G
  <2>1. CASE c \in F
    <3>1. v = 0 /\ c.ver # 0 =>
              /\ UpToDate(h, fp) => UpToDate(h, c.ver)
              /\ UpToDate(h, c.ver) \/ waits \/ A # {}
      BY <2>1 DEF Synced
    <3> QED
      BY <3>1
  <2>2. CASE c.ver = Len(h)
    BY <2>2, <1>1
  <2> QED
    BY <2>1, <2>2
<1>7. v # 0 /\ UpToDate(h, fp) => UpToDate(h, v)
  BY DEF Synced
<1>8. cfp # <<>> => v # 0 /\ \E w \in 1..Len(h) : cfp = FP(h, w) /\ (UpToDate(h, w) => UpToDate(h, v))
  BY DEF Synced
<1>9. v # 0 => UpToDate(h, v) \/ waits \/ B # {}
  <2>1. v # 0 => UpToDate(h, v) \/ waits \/ A # {}
    BY DEF Synced
  <2> QED
    BY <2>1
<1> QED
  BY <1>3, <1>4, <1>5, <1>6, <1>7, <1>8, <1>9 DEF Synced

\* A refresh that starts is told the fingerprint the window knows, and takes
\* the place of any other that may still change what is shown.
LEMMA SyncedRefresh ==
    ASSUME NEW h, NEW v, NEW fp, NEW cfp, NEW waits, NEW then, NEW A, NEW F, NEW c,
           Synced(h, v, fp, cfp, waits, A, F), c.known = fp, c.ver = 0
    PROVE  Synced(h, v, fp, cfp, then, {c}, F)
<1>1. v # 0 /\ UpToDate(h, fp) => UpToDate(h, v)
  BY DEF Synced
<1>2. cfp # <<>> => v # 0 /\ \E w \in 1..Len(h) : cfp = FP(h, w) /\ (UpToDate(h, w) => UpToDate(h, v))
  BY DEF Synced
<1>3. \A d \in F : v = 0 /\ d.ver # 0 => (UpToDate(h, fp) => UpToDate(h, d.ver))
  BY DEF Synced
<1> QED
  BY <1>1, <1>2, <1>3 DEF Synced

\* A refresh is asked for behind another.
LEMMA SyncedWaits ==
    ASSUME NEW h, NEW v, NEW fp, NEW cfp, NEW waits, NEW A, NEW F,
           Synced(h, v, fp, cfp, waits, A, F)
    PROVE  Synced(h, v, fp, cfp, TRUE, A, F)
BY DEF Synced

\* Fetches that are not answered do no harm.
LEMMA SyncedFetch ==
    ASSUME NEW h, NEW v, NEW fp, NEW cfp, NEW waits, NEW A, NEW F, NEW G,
           Synced(h, v, fp, cfp, waits, A, F), \A c \in G : c \in F \/ c.ver = 0
    PROVE  Synced(h, v, fp, cfp, waits, A, G)
BY DEF Synced

\* The answer of the only refresh that may still change what is shown.
LEMMA SyncedReturn ==
    ASSUME NEW h, NEW v, NEW fp, NEW cfp, NEW waits, NEW c, NEW F, NEW v2, NEW cfp2,
           Synced(h, v, fp, cfp, waits, {c}, F), c.ver \in 1..Len(h),
           \/ c.known # c.ver /\ cfp # FP(h, c.ver) /\ v2 = c.ver /\ cfp2 = FP(h, c.ver)
           \/ (c.known = c.ver \/ cfp = FP(h, c.ver)) /\ v2 = v /\ cfp2 = cfp
    PROVE  Synced(h, v2, c.ver, cfp2, waits, {}, F)
<1>1. UpToDate(h, c.ver) \/ waits
  BY DEF Synced
<1>2. CASE c.known # c.ver /\ v2 = c.ver /\ cfp2 = FP(h, c.ver)
  <2>1. v2 # 0
    BY <1>2
  <2> QED
    BY <1>1, <1>2, <2>1 DEF Synced
<1>3. CASE (c.known = c.ver \/ cfp = FP(h, c.ver)) /\ v2 = v /\ cfp2 = cfp
  <2>1. v # 0 /\ UpToDate(h, c.ver) => UpToDate(h, v)
    <3>1. CASE c.known = c.ver
      BY <3>1 DEF Synced
    <3>2. CASE cfp = FP(h, c.ver)
      <4>1. PICK w \in 1..Len(h) : cfp = FP(h, w) /\ (UpToDate(h, w) => UpToDate(h, v))
        BY <3>2 DEF Synced, FP
      <4> QED
        BY <3>2, <4>1 DEF UpToDate
    <3> QED
      BY <1>3, <3>1, <3>2
  <2>2. v = 0 => fp = c.ver
    <3>1. cfp # FP(h, c.ver) \/ v # 0
      BY DEF Synced, FP
    <3> QED
      BY <3>1, <1>3 DEF Synced
  <2>3. cfp # <<>> => v # 0 /\ \E w \in 1..Len(h) : cfp = FP(h, w) /\ (UpToDate(h, w) => UpToDate(h, v))
    BY DEF Synced
  <2>4. \A d \in F : v = 0 /\ d.ver # 0 => (UpToDate(h, fp) => UpToDate(h, d.ver))
    BY DEF Synced
  <2>5. \A d \in F : v = 0 /\ d.ver # 0 => UpToDate(h, d.ver) \/ waits
    BY <2>2, <2>4, <1>1
  <2>6. v # 0 => UpToDate(h, v) \/ waits
    BY <2>1, <1>1
  <2> QED
    BY <1>3, <2>1, <2>2, <2>3, <2>4, <2>5, <2>6 DEF Synced
<1> QED
  BY <1>2, <1>3

\* The answer of the newest fetch, when nothing newer is shown.
LEMMA SyncedFetched ==
    ASSUME NEW h, GoodFile(h), NEW v \in 0..Len(h), NEW fp, NEW cfp, NEW waits, NEW A, NEW F, NEW G, NEW c \in F,
           Synced(h, v, fp, cfp, waits, A, F), c.ver \in 1..Len(h), v <= c.ver
    PROVE  Synced(h, c.ver, c.ver, cfp, waits, A, G)
<1>1. v # 0 /\ UpToDate(h, v) => UpToDate(h, c.ver)
  BY Newest DEF GoodFile
<1>2. c.ver # 0
  OBVIOUS
<1>3. cfp # <<>> => \E w \in 1..Len(h) : cfp = FP(h, w) /\ (UpToDate(h, w) => UpToDate(h, c.ver))
  BY <1>1 DEF Synced
<1>4. \A d \in A : UpToDate(h, d.known) => UpToDate(h, c.ver)
  <2> TAKE d \in A
  <2>1. CASE v # 0
    BY <2>1, <1>1 DEF Synced
  <2>2. CASE v = 0
    <3>1. d.known = fp /\ (UpToDate(h, fp) => UpToDate(h, c.ver))
      BY <2>2, <1>2 DEF Synced
    <3> QED
      BY <3>1
  <2> QED
    BY <2>1, <2>2
<1>5. \A d \in A : d.ver = 0 \/ UpToDate(h, d.ver) \/ waits
  BY DEF Synced
<1>6. UpToDate(h, c.ver) \/ waits \/ A # {}
  <2>1. CASE v # 0
    BY <2>1, <1>1 DEF Synced
  <2>2. CASE v = 0
    BY <2>2, <1>2 DEF Synced
  <2> QED
    BY <2>1, <2>2
<1> QED
  BY <1>2, <1>3, <1>4, <1>5, <1>6 DEF Synced

-----------------------------------------------------------------------------
(* The items. *)

LEMMA OwnWrite ==
    ASSUME NEW h, GoodFile(h), NEW next \in Written(h), NEW v \in 0..Len(h), NEW its, NEW s,
           Own(h, v, its, s)
    PROVE  Own(Append(h, next), v, its, s)
<1>1. v # 0 => Append(h, next)[v] = h[v]
  BY Newest, WrittenChunks DEF GoodFile
<1> QED
  BY <1>1 DEF Own

ItemsOf(s, chunks) == [k \in DOMAIN chunks |-> <<s, chunks[k]>>]

LEMMA ItemsType ==
    ASSUME NEW s \in Sessions, NEW chunks \in Seq(Chunks)
    PROVE  /\ ItemsOf(s, chunks) \in Seq(ItemSet)
           /\ Len(ItemsOf(s, chunks)) = Len(chunks)
           /\ \A k \in 1..Len(chunks) : ItemsOf(s, chunks)[k] = <<s, chunks[k]>>
<1>1. Len(chunks) \in Nat /\ DOMAIN chunks = 1..Len(chunks) /\ \A k \in 1..Len(chunks) : chunks[k] \in Chunks
  OBVIOUS
<1>2. ItemsOf(s, chunks) \in [1..Len(chunks) -> ItemSet]
  BY <1>1 DEF ItemsOf, ItemSet
<1>3. ItemsOf(s, chunks) \in Seq(ItemSet)
  BY <1>1, <1>2
<1>4. Len(ItemsOf(s, chunks)) = Len(chunks)
  BY <1>1, <1>2, <1>3
<1> QED
  BY <1>1, <1>3, <1>4 DEF ItemsOf

\* The items of an update: those there are but the last, then the new ones.
LEMMA UpdateItems ==
    ASSUME NEW prev \in Seq(ItemSet), NEW new \in Seq(ItemSet), Len(new) >= 1
    PROVE  /\ IncrementalUpdate(prev, new) \in Seq(ItemSet)
           /\ Len(IncrementalUpdate(prev, new)) = Len(new)
           /\ \A k \in 1..Len(new) :
                 IncrementalUpdate(prev, new)[k] =
                     IF Len(prev) <= Len(new) /\ k < Len(prev) THEN prev[k] ELSE new[k]
<1>1. CASE prev = <<>> \/ Len(new) < Len(prev)
  <2>1. IncrementalUpdate(prev, new) = new
    BY <1>1 DEF IncrementalUpdate
  <2> QED
    BY <1>1, <2>1
<1>2. CASE ~(prev = <<>> \/ Len(new) < Len(prev))
  <2> DEFINE a == SubSeq(prev, 1, Len(prev) - 1)
             b == SubSeq(new, Len(prev), Len(new))
  <2>1. IncrementalUpdate(prev, new) = a \o b
    BY <1>2 DEF IncrementalUpdate, Front
  <2>2. Len(prev) \in Nat \ {0} /\ Len(new) \in Nat /\ Len(prev) <= Len(new)
    BY <1>2
  <2>9. a \in Seq(ItemSet)
    BY <2>2
  <2>10. Len(a) = Len(prev) - 1
    <3>1. Len(prev) - 1 \in Int /\ \A k \in 1..(Len(prev) - 1) : prev[k] \in ItemSet
      BY <2>2
    <3> DEFINE n == Len(prev) - 1
    <3> HIDE DEF n
    <3>2. Len(SubSeq(prev, 1, n)) = IF 1 <= n THEN n - 1 + 1 ELSE 0
      BY <3>1, SubSeqProperties DEF n
    <3> QED
      BY <3>2, <2>2 DEF n
  <2>11. \A k \in 1..(Len(prev) - 1) : a[k] = prev[k]
    BY <2>2
  <2>3. /\ a \in Seq(ItemSet)
        /\ Len(a) = Len(prev) - 1
        /\ \A k \in 1..(Len(prev) - 1) : a[k] = prev[k]
    BY <2>9, <2>10, <2>11
  <2>4. b \in Seq(ItemSet)
    BY <2>2
  <2>5. Len(b) = Len(new) - Len(prev) + 1
    BY <2>2
  <2>6. \A k \in 1..(Len(new) - Len(prev) + 1) : b[k] = new[Len(prev) + k - 1]
    BY <2>2
  <2> HIDE DEF a, b
  <2>7. a \o b \in Seq(ItemSet) /\ Len(a \o b) = Len(new)
    BY <2>2, <2>3, <2>4, <2>5
  <2>8. \A k \in 1..Len(new) : (a \o b)[k] = IF k < Len(prev) THEN prev[k] ELSE new[k]
    <3> TAKE k \in 1..Len(new)
    <3>1. (a \o b)[k] = IF k <= Len(a) THEN a[k] ELSE b[k - Len(a)]
      BY <2>2, <2>3, <2>4, <2>5
    <3>2. CASE k < Len(prev)
      BY <3>1, <3>2, <2>2, <2>3
    <3>3. CASE ~(k < Len(prev))
      <4>1. k - Len(a) \in 1..(Len(new) - Len(prev) + 1) /\ ~(k <= Len(a))
        BY <3>3, <2>2, <2>3
      <4>2. b[k - Len(a)] = new[Len(prev) + (k - Len(a)) - 1]
        BY <4>1, <2>6
      <4>3. Len(prev) + (k - Len(a)) - 1 = k
        BY <2>2, <2>3
      <4> QED
        BY <3>1, <3>3, <4>1, <4>2, <4>3
    <3> QED
      BY <3>2, <3>3
  <2> QED
    BY <2>1, <2>2, <2>7, <2>8
<1> QED
  BY <1>1, <1>2

\* The items of a tab, updated to a version that is no older, are its own.
LEMMA OwnUpdate ==
    ASSUME NEW h, GoodFile(h), NEW v \in 0..Len(h), NEW its \in Seq(ItemSet), NEW s \in Sessions,
           Own(h, v, its, s), v = 0 => its = <<>>,
           NEW ver \in 1..Len(h), v <= ver,
           NEW prev \in {<<>>, its}
    PROVE  Own(h, ver, IncrementalUpdate(prev, ItemsOf(s, h[ver])), s)
<1> DEFINE new == ItemsOf(s, h[ver])
<1>1. h[ver] \in Seq(Chunks) /\ Len(h[ver]) >= 1
  BY DEF GoodFile
<1>2. /\ new \in Seq(ItemSet)
      /\ Len(new) = Len(h[ver])
      /\ \A k \in 1..Len(h[ver]) : new[k] = <<s, h[ver][k]>>
  BY <1>1, ItemsType
<1> HIDE DEF new
<1>3. prev \in Seq(ItemSet)
  <2>1. <<>> \in Seq(ItemSet)
    OBVIOUS
  <2> QED
    BY <2>1
<1>4. Len(new) >= 1
  BY <1>1, <1>2
<1>5. /\ Len(IncrementalUpdate(prev, new)) = Len(h[ver])
      /\ \A k \in 1..Len(h[ver]) :
            IncrementalUpdate(prev, new)[k] =
                IF Len(prev) <= Len(h[ver]) /\ k < Len(prev) THEN prev[k] ELSE new[k]
  <2>1. /\ Len(IncrementalUpdate(prev, new)) = Len(new)
        /\ \A k \in 1..Len(new) :
            IncrementalUpdate(prev, new)[k] =
                IF Len(prev) <= Len(new) /\ k < Len(prev) THEN prev[k] ELSE new[k]
    BY <1>2, <1>3, <1>4, UpdateItems
  <2> QED
    BY <2>1, <1>2
<1>6. ASSUME NEW k \in 1..Len(h[ver]), h[ver][k].rev = 0, k < Len(prev)
      PROVE  prev[k] = <<s, h[ver][k]>>
  <2>1. prev = its /\ v # 0
    BY <1>6, <1>3
  <2>2. v \in 1..Len(h)
    BY <2>1, Newest
  <2>3. Len(prev) = Len(h[v]) /\ Keeps(h, v, ver) /\ Len(h[v]) \in Nat
    BY <2>1, <2>2 DEF Own, GoodFile
  <2>4. k \in 1..Len(h[v]) /\ k < Len(h[v])
    BY <1>6, <2>3, <1>1
  <2>5. h[ver][k] = h[v][k]
    BY <1>6, <2>3, <2>4 DEF Keeps
  <2> QED
    BY <2>1, <2>4, <2>5, <1>6 DEF Own
<1>7. \A k \in 1..Len(h[ver]) : h[ver][k].rev = 0 => IncrementalUpdate(prev, new)[k] = <<s, h[ver][k]>>
  BY <1>2, <1>5, <1>6
<1> QED
  BY <1>5, <1>7 DEF Own, new

\* Items of a version that is up to date are those of the newest one.
LEMMA OwnUpToDate ==
    ASSUME NEW h, GoodFile(h), NEW v, UpToDate(h, v), NEW its, NEW s, Own(h, v, its, s)
    PROVE  /\ Len(its) = Len(h[Len(h)])
           /\ \A k \in 1..Len(h[Len(h)]) : h[Len(h)][k].rev = 0 => its[k] = <<s, h[Len(h)][k]>>
<1> DEFINE n == Len(h)
<1>1. n \in Nat \ {0} /\ v \in 1..n /\ v <= n /\ v # 0
  BY Newest DEF UpToDate
<1>2. Len(h[v]) = Len(h[n]) /\ h[v][Len(h[v])].end = h[n][Len(h[n])].end /\ Len(h[n]) \in Nat
  BY Newest DEF UpToDate, FP, Last
<1>3. Keeps(h, v, n)
  BY <1>1 DEF GoodFile
<1> HIDE DEF n
<1>4. ASSUME NEW k \in 1..Len(h[n]), h[n][k].rev = 0 PROVE h[n][k] = h[v][k]
  <2>1. CASE k < Len(h[n])
    BY <1>2, <1>3, <1>4, <2>1 DEF Keeps
  <2>2. CASE k = Len(h[n])
    BY <1>2, <1>3, <1>4, <2>2 DEF Keeps
  <2> QED
    BY <2>1, <2>2, <1>2
<1> QED
  BY <1>1, <1>2, <1>4 DEF Own, n

-----------------------------------------------------------------------------
(* What the steps do to the calls. *)

LEMMA NoCallType == NoCall \in CallSet /\ NoCall.kind = "none"
BY ViewAssumption DEF NoCall, CallSet

AnswerCall(cs, i, ver) == [cs EXCEPT ![i].ver = ver]

\* The calls that count are those that counted, but for the one of session s
\* that is answered with ver.
Answered(cs, ds, fg, rg, out, s, ver) ==
    /\ \A t \in Sessions : \A c \in Asks(ds, rg, out, t) :
          \/ c \in Asks(cs, rg, out, t)
          \/ c.ver = ver /\ t = s /\ \E d \in Asks(cs, rg, out, t) : d.known = c.known
    /\ \A t \in Sessions : Asks(cs, rg, out, t) # {} => Asks(ds, rg, out, t) # {}
    /\ \A t \in Sessions : \A c \in Fetches(ds, fg, t) :
          c \in Fetches(cs, fg, t) \/ (c.ver = ver /\ t = s)
    /\ \A t \in Sessions : Fetches(cs, fg, t) # {} => Fetches(ds, fg, t) # {}

\* A call is answered.
LEMMA AnswerCalls ==
    ASSUME NEW cs, NEW n, NEW fg, NEW rg, NEW fl, NEW wt, NEW out, NEW tb,
           CallsOK(cs, n, fg, rg, fl, wt, out, tb),
           NEW i \in Slots, cs[i].kind # "none", NEW ver \in Nat,
           NEW ds, ds = AnswerCall(cs, i, ver)
    PROVE  /\ CallsOK(ds, n, fg, rg, fl, wt, out, tb)
           /\ OneOK(cs, fl, out) => OneOK(ds, fl, out)
           /\ Answered(cs, ds, fg, rg, out, cs[i].sess, ver)
<1>1. cs \in [Slots -> CallSet]
  BY DEF CallsOK
<1>2. /\ ds \in [Slots -> CallSet]
      /\ \A j \in Slots : j # i => ds[j] = cs[j]
      /\ ds[i].ver = ver
  BY <1>1 DEF CallSet, AnswerCall
<1>3. \A j \in Slots : /\ ds[j].kind = cs[j].kind
                       /\ ds[j].sess = cs[j].sess
                       /\ ds[j].gen = cs[j].gen
                       /\ ds[j].known = cs[j].known
  BY <1>1 DEF CallSet, AnswerCall
<1>4. \A j \in Slots, s \in Sessions : Asked(ds, rg, out, j, s) <=> Asked(cs, rg, out, j, s)
  BY <1>3 DEF Asked
<1>5. \A j \in Slots, s \in Sessions : Fetched(ds, fg, j, s) <=> Fetched(cs, fg, j, s)
  BY <1>3 DEF Fetched
<1>6. i \notin {j \in Slots : j > n}
  BY NoCallType DEF CallsOK
<1>7. CallsOK(ds, n, fg, rg, fl, wt, out, tb)
  <2>1. \A j \in Slots : j > n => ds[j] = NoCall
    BY <1>2, <1>6 DEF CallsOK
  <2>2. \A s \in fl : s \in tb /\ \E j \in Slots : Asked(ds, rg, out, j, s)
    BY <1>4 DEF CallsOK
  <2>3. \A j, k \in Slots \ out :
          ds[j].kind = "refresh" /\ ds[k].kind = "refresh" /\ ds[j].sess = ds[k].sess
            /\ ds[j].gen = ds[k].gen => j = k
    BY <1>3 DEF CallsOK
  <2>4. \A j \in Slots \ out : ds[j].kind = "refresh" => ds[j].sess \in tb /\ ds[j].gen <= rg[ds[j].sess]
    BY <1>3 DEF CallsOK
  <2>5. /\ \A j \in Slots : ds[j].kind # "none" => ds[j].sess \in Sessions
        /\ \A j \in Slots : ds[j].kind = "fetch" => ds[j].gen <= fg
        /\ \A j \in Slots : ds[j].kind = "refresh" => ds[j].gen >= 1
    BY <1>3 DEF CallsOK
  <2> QED
    BY <1>2, <2>1, <2>2, <2>3, <2>4, <2>5 DEF CallsOK
<1>8. OneOK(cs, fl, out) => OneOK(ds, fl, out)
  BY <1>3 DEF OneOK
<1>9. ASSUME NEW s \in Sessions, NEW c \in Asks(ds, rg, out, s)
      PROVE  \/ c \in Asks(cs, rg, out, s)
             \/ c.ver = ver /\ s = cs[i].sess /\ \E d \in Asks(cs, rg, out, s) : d.known = c.known
  <2>1. PICK j \in Slots : Asked(ds, rg, out, j, s) /\ c = ds[j]
    BY <1>9 DEF Asks
  <2>2. Asked(cs, rg, out, j, s) /\ cs[j] \in Asks(cs, rg, out, s) /\ cs[j].sess = s
    BY <2>1, <1>4 DEF Asks, Asked
  <2> QED
    BY <2>1, <2>2, <1>2, <1>3
<1>10. ASSUME NEW s \in Sessions, Asks(cs, rg, out, s) # {}
       PROVE  Asks(ds, rg, out, s) # {}
  BY <1>4, <1>10 DEF Asks
<1>11. ASSUME NEW s \in Sessions, NEW c \in Fetches(ds, fg, s)
       PROVE  c \in Fetches(cs, fg, s) \/ (c.ver = ver /\ s = cs[i].sess)
  <2>1. PICK j \in Slots : Fetched(ds, fg, j, s) /\ c = ds[j]
    BY <1>11 DEF Fetches
  <2>2. Fetched(cs, fg, j, s) /\ cs[j] \in Fetches(cs, fg, s) /\ cs[j].sess = s
    BY <2>1, <1>5 DEF Fetches, Fetched
  <2> QED
    BY <2>1, <2>2, <1>2
<1>12. ASSUME NEW s \in Sessions, Fetches(cs, fg, s) # {}
       PROVE  Fetches(ds, fg, s) # {}
  BY <1>5, <1>12 DEF Fetches
<1> QED
  BY <1>7, <1>8, <1>9, <1>10, <1>11, <1>12 DEF Answered

RemoveCall(cs, i) == [cs EXCEPT ![i] = NoCall]

\* Of one session the refresh i, if it counted, is gone.
Removed(cs, ds, fg, rg, out, i) ==
    /\ \A s \in Sessions : ~Asked(cs, rg, out, i, s) => Asks(ds, rg, out, s) = Asks(cs, rg, out, s)
    /\ \A s \in Sessions : Asked(cs, rg, out, i, s)
          => Asks(ds, rg, out, s) = {} /\ Asks(cs, rg, out, s) = {cs[i]}
    /\ \A s \in Sessions : Fetches(ds, fg, s) = Fetches(cs, fg, s)

\* A refresh returns.
LEMMA RemoveRefresh ==
    ASSUME NEW cs, NEW n, NEW fg, NEW rg, NEW fl, NEW wt, NEW out, NEW tb,
           CallsOK(cs, n, fg, rg, fl, wt, out, tb),
           NEW i \in Slots, cs[i].kind = "refresh",
           NEW ds, ds = RemoveCall(cs, i)
    PROVE  /\ CallsOK(ds, n, fg, rg, fl \ {cs[i].sess}, wt \ {cs[i].sess}, out, tb)
           /\ OneOK(cs, fl, out) => OneOK(ds, fl \ {cs[i].sess}, out)
           /\ Removed(cs, ds, fg, rg, out, i)
<1> DEFINE t == cs[i].sess
<1>1. cs \in [Slots -> CallSet] /\ t \in Sessions
  BY DEF CallsOK
<1>2. /\ ds \in [Slots -> CallSet]
      /\ \A j \in Slots : j # i => ds[j] = cs[j]
      /\ ds[i] = NoCall /\ ds[i].kind = "none"
  BY <1>1, NoCallType DEF RemoveCall
<1>3. \A j \in Slots, s \in Sessions : Asked(ds, rg, out, j, s) <=> j # i /\ Asked(cs, rg, out, j, s)
  BY <1>2 DEF Asked
<1>4. \A j \in Slots, s \in Sessions : Fetched(ds, fg, j, s) <=> Fetched(cs, fg, j, s)
  BY <1>2 DEF Fetched
<1>5. CallsOK(ds, n, fg, rg, fl \ {t}, wt \ {t}, out, tb)
  <2>1. \A j \in Slots : j > n => ds[j] = NoCall
    BY <1>2 DEF CallsOK
  <2>2. \A s \in fl \ {t} : s \in tb /\ \E j \in Slots : Asked(ds, rg, out, j, s)
    <3> TAKE s \in fl \ {t}
    <3>1. s \in tb /\ s \in Sessions /\ \E j \in Slots : Asked(cs, rg, out, j, s)
      BY DEF CallsOK
    <3>2. ~Asked(cs, rg, out, i, s)
      BY DEF Asked
    <3> QED
      BY <3>1, <3>2, <1>3
  <2>3. wt \ {t} \subseteq fl \ {t}
    BY DEF CallsOK
  <2>4. \A j, k \in Slots \ out :
          ds[j].kind = "refresh" /\ ds[k].kind = "refresh" /\ ds[j].sess = ds[k].sess
            /\ ds[j].gen = ds[k].gen => j = k
    BY <1>2 DEF CallsOK
  <2>5. \A j \in Slots \ out : ds[j].kind = "refresh" => ds[j].sess \in tb /\ ds[j].gen <= rg[ds[j].sess]
    BY <1>2 DEF CallsOK
  <2>6. /\ \A j \in Slots : ds[j].kind # "none" => ds[j].sess \in Sessions
        /\ \A j \in Slots : ds[j].kind = "fetch" => ds[j].gen <= fg
        /\ \A j \in Slots : ds[j].kind = "refresh" => ds[j].gen >= 1
    BY <1>2 DEF CallsOK
  <2> HIDE DEF t
  <2> QED
    BY <1>2, <2>1, <2>2, <2>3, <2>4, <2>5, <2>6 DEF CallsOK
<1>6. OneOK(cs, fl, out) => OneOK(ds, fl \ {t}, out)
  <2> SUFFICES ASSUME OneOK(cs, fl, out) PROVE OneOK(ds, fl \ {t}, out)
    OBVIOUS
  <2>1. \A j \in Slots : ds[j].kind = "refresh" => ds[j].sess \in fl \ {t}
    BY <1>2 DEF OneOK
  <2>2. \A j, k \in Slots :
          ds[j].kind = "refresh" /\ ds[k].kind = "refresh" /\ ds[j].sess = ds[k].sess => j = k
    BY <1>2 DEF OneOK
  <2> QED
    BY <2>1, <2>2 DEF OneOK
<1>7. ASSUME NEW s \in Sessions, ~Asked(cs, rg, out, i, s)
      PROVE  Asks(ds, rg, out, s) = Asks(cs, rg, out, s)
  <2>1. \A j \in Slots : Asked(ds, rg, out, j, s) <=> Asked(cs, rg, out, j, s)
    BY <1>3, <1>7
  <2>2. \A j \in Slots : Asked(cs, rg, out, j, s) => ds[j] = cs[j]
    BY <1>2, <1>7
  <2> QED
    BY <2>1, <2>2 DEF Asks
<1>8. ASSUME NEW s \in Sessions, Asked(cs, rg, out, i, s)
      PROVE  Asks(ds, rg, out, s) = {} /\ Asks(cs, rg, out, s) = {cs[i]}
  <2>1. \A j \in Slots : Asked(cs, rg, out, j, s) => j = i
    BY <1>8 DEF Asked, CallsOK
  <2>2. \A j \in Slots : ~Asked(ds, rg, out, j, s)
    BY <2>1, <1>3
  <2> QED
    BY <2>1, <2>2, <1>8 DEF Asks
<1>9. ASSUME NEW s \in Sessions PROVE Fetches(ds, fg, s) = Fetches(cs, fg, s)
  <2>1. \A j \in Slots : Fetched(cs, fg, j, s) => ds[j] = cs[j]
    BY <1>2 DEF Fetched
  <2> QED
    BY <2>1, <1>4 DEF Fetches
<1> QED
  BY <1>5, <1>6, <1>7, <1>8, <1>9 DEF Removed

\* The fetch i, if it was the newest, is gone.
Returned(cs, ds, fg, rg, out, i) ==
    /\ \A s \in Sessions : Asks(ds, rg, out, s) = Asks(cs, rg, out, s)
    /\ \A s \in Sessions : ~Fetched(cs, fg, i, s) => Fetches(ds, fg, s) = Fetches(cs, fg, s)

\* A fetch returns.
LEMMA RemoveFetch ==
    ASSUME NEW cs, NEW n, NEW fg, NEW rg, NEW fl, NEW wt, NEW out, NEW tb,
           CallsOK(cs, n, fg, rg, fl, wt, out, tb),
           NEW i \in Slots, cs[i].kind = "fetch",
           NEW ds, ds = RemoveCall(cs, i)
    PROVE  /\ CallsOK(ds, n, fg, rg, fl, wt, out, tb)
           /\ OneOK(cs, fl, out) => OneOK(ds, fl, out)
           /\ Returned(cs, ds, fg, rg, out, i)
<1>1. cs \in [Slots -> CallSet]
  BY DEF CallsOK
<1>2. /\ ds \in [Slots -> CallSet]
      /\ \A j \in Slots : j # i => ds[j] = cs[j]
      /\ ds[i] = NoCall /\ ds[i].kind = "none"
  BY <1>1, NoCallType DEF RemoveCall
<1>3. \A j \in Slots, s \in Sessions : Asked(ds, rg, out, j, s) <=> Asked(cs, rg, out, j, s)
  BY <1>2 DEF Asked
<1>4. \A j \in Slots, s \in Sessions : Fetched(ds, fg, j, s) <=> j # i /\ Fetched(cs, fg, j, s)
  BY <1>2 DEF Fetched
<1>5. CallsOK(ds, n, fg, rg, fl, wt, out, tb)
  <2>1. \A j \in Slots : j > n => ds[j] = NoCall
    BY <1>2 DEF CallsOK
  <2>2. \A s \in fl : s \in tb /\ \E j \in Slots : Asked(ds, rg, out, j, s)
    <3> TAKE s \in fl
    <3>1. s \in tb /\ s \in Sessions /\ \E j \in Slots : Asked(cs, rg, out, j, s)
      BY DEF CallsOK
    <3> QED
      BY <3>1, <1>3
  <2>4. \A j, k \in Slots \ out :
          ds[j].kind = "refresh" /\ ds[k].kind = "refresh" /\ ds[j].sess = ds[k].sess
            /\ ds[j].gen = ds[k].gen => j = k
    BY <1>2 DEF CallsOK
  <2>5. \A j \in Slots \ out : ds[j].kind = "refresh" => ds[j].sess \in tb /\ ds[j].gen <= rg[ds[j].sess]
    BY <1>2 DEF CallsOK
  <2>6. /\ \A j \in Slots : ds[j].kind # "none" => ds[j].sess \in Sessions
        /\ \A j \in Slots : ds[j].kind = "fetch" => ds[j].gen <= fg
        /\ \A j \in Slots : ds[j].kind = "refresh" => ds[j].gen >= 1
    BY <1>2 DEF CallsOK
  <2> QED
    BY <1>2, <2>1, <2>2, <2>4, <2>5, <2>6 DEF CallsOK
<1>6. OneOK(cs, fl, out) => OneOK(ds, fl, out)
  <2> SUFFICES ASSUME OneOK(cs, fl, out) PROVE OneOK(ds, fl, out)
    OBVIOUS
  <2>1. \A j \in Slots : ds[j].kind = "refresh" => ds[j].sess \in fl
    BY <1>2 DEF OneOK
  <2>2. \A j, k \in Slots :
          ds[j].kind = "refresh" /\ ds[k].kind = "refresh" /\ ds[j].sess = ds[k].sess => j = k
    BY <1>2 DEF OneOK
  <2> QED
    BY <2>1, <2>2 DEF OneOK
<1>7. ASSUME NEW s \in Sessions PROVE Asks(ds, rg, out, s) = Asks(cs, rg, out, s)
  <2>1. \A j \in Slots : Asked(cs, rg, out, j, s) => ds[j] = cs[j]
    BY <1>2 DEF Asked
  <2> QED
    BY <2>1, <1>3 DEF Asks
<1>8. ASSUME NEW s \in Sessions, ~Fetched(cs, fg, i, s) PROVE Fetches(ds, fg, s) = Fetches(cs, fg, s)
  <2>1. \A j \in Slots : Fetched(ds, fg, j, s) <=> Fetched(cs, fg, j, s)
    BY <1>4, <1>8
  <2>2. \A j \in Slots : Fetched(cs, fg, j, s) => ds[j] = cs[j]
    BY <1>2, <1>8
  <2> QED
    BY <2>1, <2>2 DEF Fetches
<1> QED
  BY <1>5, <1>6, <1>7, <1>8 DEF Returned

\* What is put into the place of the next call, and the generations after it.
AddCall(cs, n, c) == [cs EXCEPT ![n + 1] = c]
RefreshCall(rg, s, known) == [kind |-> "refresh", sess |-> s, gen |-> rg[s] + 1, known |-> known, ver |-> 0]
FetchCall(fg, s) == [kind |-> "fetch", sess |-> s, gen |-> fg + 1, known |-> 0, ver |-> 0]
NextGen(rg, s) == [rg EXCEPT ![s] = @ + 1]

\* Of one session the calls that count are replaced by c, the others stay.
Replaced(cs, ds, fg, rg, rg2, out, s, c) ==
    /\ Asks(ds, rg2, out, s) = {c}
    /\ \A t \in Sessions \ {s} : Asks(ds, rg2, out, t) = Asks(cs, rg, out, t)
    /\ \A t \in Sessions : Fetches(ds, fg, t) = Fetches(cs, fg, t)

\* A refresh starts.
LEMMA AddRefresh ==
    ASSUME NEW cs, NEW n, NEW fg, NEW rg, NEW fl, NEW wt, NEW out, NEW tb,
           CallsOK(cs, n, fg, rg, fl, wt, out, tb), n < MaxCalls,
           NEW s \in tb, s \notin fl, NEW known \in Nat,
           NEW c, c = RefreshCall(rg, s, known),
           NEW ds, ds = AddCall(cs, n, c),
           NEW rg2, rg2 = NextGen(rg, s)
    PROVE  /\ CallsOK(ds, n + 1, fg, rg2, fl \cup {s}, wt, out, tb)
           /\ OneOK(cs, fl, out) => OneOK(ds, fl \cup {s}, out)
           /\ Replaced(cs, ds, fg, rg, rg2, out, s, c)
<1>1. /\ cs \in [Slots -> CallSet]
      /\ s \in Sessions
      /\ n \in 0..MaxCalls
      /\ rg \in [Sessions -> 0..n]
      /\ out \subseteq 1..n
      /\ fg \in 0..n
  BY DEF CallsOK
<1>2. n \in Nat /\ n + 1 \in Slots /\ MaxCalls \in Nat /\ n + 1 \notin out
  BY <1>1, ViewAssumption DEF Slots
<1>3. rg[s] \in 0..n /\ rg[s] + 1 \in 1..(n + 1) /\ rg[s] + 1 \in 0..MaxCalls
  BY <1>1, <1>2
<1>4. c \in CallSet
  BY <1>1, <1>3 DEF CallSet, RefreshCall
<1>5. c.kind = "refresh" /\ c.sess = s /\ c.gen = rg[s] + 1 /\ c.known = known /\ c.ver = 0
  BY DEF RefreshCall
<1>6. /\ ds \in [Slots -> CallSet]
      /\ \A j \in Slots : j # n + 1 => ds[j] = cs[j]
      /\ ds[n + 1] = c
      /\ cs[n + 1] = NoCall
  <2>1. cs[n + 1] = NoCall
    BY <1>2 DEF CallsOK
  <2> HIDE DEF Slots
  <2> QED
    BY <1>1, <1>2, <1>4, <2>1 DEF AddCall
<1>7. /\ rg2 \in [Sessions -> 0..(n + 1)]
      /\ rg2[s] = rg[s] + 1
      /\ \A t \in Sessions : t # s => rg2[t] = rg[t]
      /\ \A t \in Sessions : rg[t] <= rg2[t]
  BY <1>1, <1>2, <1>3 DEF NextGen
<1> HIDE DEF Slots
\* The refreshes of the session so far are of generations gone by.
<1>8. \A j \in Slots \ out : cs[j].kind = "refresh" /\ cs[j].sess = s => cs[j].gen <= rg[s] /\ cs[j].gen # rg[s] + 1
  <2> SUFFICES ASSUME NEW j \in Slots \ out, cs[j].kind = "refresh", cs[j].sess = s
               PROVE  cs[j].gen <= rg[s] /\ cs[j].gen # rg[s] + 1
    OBVIOUS
  <2>1. cs[j].gen <= rg[s]
    BY DEF CallsOK
  <2>2. cs[j].gen \in 0..MaxCalls
    BY <1>1 DEF CallSet
  <2> QED
    BY <2>1, <2>2, <1>2, <1>3
<1>9. cs[n + 1].kind = "none"
  BY <1>6, NoCallType
<1>10. \A j \in Slots : Asked(ds, rg2, out, j, s) <=> j = n + 1
  BY <1>2, <1>5, <1>6, <1>7, <1>8 DEF Asked
<1>11. \A j \in Slots, t \in Sessions \ {s} : Asked(ds, rg2, out, j, t) <=> Asked(cs, rg, out, j, t)
  BY <1>5, <1>6, <1>7, <1>9 DEF Asked
<1>12. \A j \in Slots, t \in Sessions : Fetched(ds, fg, j, t) <=> Fetched(cs, fg, j, t)
  BY <1>5, <1>6, <1>9 DEF Fetched
<1>13. CallsOK(ds, n + 1, fg, rg2, fl \cup {s}, wt, out, tb)
  <2>1. \A j \in Slots : j > n + 1 => ds[j] = NoCall
    <3> SUFFICES ASSUME NEW j \in Slots, j > n + 1 PROVE ds[j] = NoCall
      OBVIOUS
    <3>1. j > n /\ j # n + 1
      BY <1>2 DEF Slots
    <3> QED
      BY <3>1, <1>6 DEF CallsOK
  <2>2. \A t \in fl \cup {s} : t \in tb /\ \E j \in Slots : Asked(ds, rg2, out, j, t)
    <3> TAKE t \in fl \cup {s}
    <3>1. CASE t = s
      BY <3>1, <1>2, <1>10
    <3>2. CASE t # s
      <4>1. t \in fl /\ t \in tb /\ t \in Sessions
        BY <3>2 DEF CallsOK
      <4>2. PICK j \in Slots : Asked(cs, rg, out, j, t)
        BY <4>1 DEF CallsOK
      <4> QED
        BY <3>2, <4>1, <4>2, <1>11
    <3> QED
      BY <3>1, <3>2
  <2>3. wt \subseteq fl \cup {s}
    BY DEF CallsOK
  <2>4. \A j, k \in Slots \ out :
          ds[j].kind = "refresh" /\ ds[k].kind = "refresh" /\ ds[j].sess = ds[k].sess
            /\ ds[j].gen = ds[k].gen => j = k
    <3> SUFFICES ASSUME NEW j \in Slots \ out, NEW k \in Slots \ out,
                        ds[j].kind = "refresh", ds[k].kind = "refresh",
                        ds[j].sess = ds[k].sess, ds[j].gen = ds[k].gen
                 PROVE  j = k
      OBVIOUS
    <3>1. CASE j # n + 1 /\ k # n + 1
      BY <3>1, <1>6 DEF CallsOK
    <3>2. CASE j = n + 1 /\ k # n + 1
      <4>1. ds[k] = cs[k] /\ cs[k].sess = s /\ cs[k].gen = rg[s] + 1
        BY <3>2, <1>5, <1>6
      <4> QED
        BY <4>1, <1>8
    <3>3. CASE j # n + 1 /\ k = n + 1
      <4>1. ds[j] = cs[j] /\ cs[j].sess = s /\ cs[j].gen = rg[s] + 1
        BY <3>3, <1>5, <1>6
      <4> QED
        BY <4>1, <1>8
    <3> QED
      BY <3>1, <3>2, <3>3
  <2>5. \A j \in Slots \ out : ds[j].kind = "refresh" => ds[j].sess \in tb /\ ds[j].gen <= rg2[ds[j].sess]
    <3> SUFFICES ASSUME NEW j \in Slots \ out, ds[j].kind = "refresh"
                 PROVE  ds[j].sess \in tb /\ ds[j].gen <= rg2[ds[j].sess]
      OBVIOUS
    <3>1. CASE j = n + 1
      BY <3>1, <1>3, <1>5, <1>6, <1>7
    <3>2. CASE j # n + 1
      <4>1. ds[j] = cs[j] /\ cs[j].sess \in tb /\ cs[j].gen <= rg[cs[j].sess] /\ cs[j].sess \in Sessions
        BY <3>2, <1>6 DEF CallsOK
      <4>2. cs[j].gen \in 0..MaxCalls /\ rg[cs[j].sess] \in 0..n /\ rg2[cs[j].sess] \in 0..(n + 1)
        BY <4>1, <1>1, <1>7 DEF CallSet
      <4>3. rg[cs[j].sess] <= rg2[cs[j].sess]
        BY <4>1, <1>7
      <4> QED
        BY <4>1, <4>2, <4>3, <1>2
    <3> QED
      BY <3>1, <3>2
  <2>6. /\ \A j \in Slots : ds[j].kind # "none" => ds[j].sess \in Sessions
        /\ \A j \in Slots : ds[j].kind = "fetch" => ds[j].gen <= fg
        /\ \A j \in Slots : ds[j].kind = "refresh" => ds[j].gen >= 1
    BY <1>1, <1>3, <1>5, <1>6 DEF CallsOK
  <2>7. n + 1 \in 0..MaxCalls /\ fg \in 0..(n + 1) /\ out \subseteq 1..(n + 1)
    BY <1>1, <1>2
  <2>8. tb \subseteq Sessions /\ \A t \in Sessions \ tb : rg2[t] = 0
    BY <1>7 DEF CallsOK
  <2> QED
    BY <1>6, <1>7, <2>1, <2>2, <2>3, <2>4, <2>5, <2>6, <2>7, <2>8 DEF CallsOK
<1>14. OneOK(cs, fl, out) => OneOK(ds, fl \cup {s}, out)
  <2> SUFFICES ASSUME OneOK(cs, fl, out) PROVE OneOK(ds, fl \cup {s}, out)
    OBVIOUS
  <2>1. \A j \in Slots : cs[j].kind = "refresh" => cs[j].sess # s
    BY DEF OneOK
  <2>2. \A j \in Slots : ds[j].kind = "refresh" => ds[j].sess \in fl \cup {s}
    BY <1>5, <1>6 DEF OneOK
  <2>3. \A j, k \in Slots :
          ds[j].kind = "refresh" /\ ds[k].kind = "refresh" /\ ds[j].sess = ds[k].sess => j = k
    BY <1>5, <1>6, <2>1 DEF OneOK
  <2> QED
    BY <2>2, <2>3 DEF OneOK
<1>15. Asks(ds, rg2, out, s) = {c}
  BY <1>2, <1>6, <1>10 DEF Asks
<1>16. ASSUME NEW t \in Sessions \ {s} PROVE Asks(ds, rg2, out, t) = Asks(cs, rg, out, t)
  <2>1. \A j \in Slots : Asked(cs, rg, out, j, t) => ds[j] = cs[j]
    BY <1>6, <1>9 DEF Asked
  <2> QED
    BY <2>1, <1>11 DEF Asks
<1>17. ASSUME NEW t \in Sessions PROVE Fetches(ds, fg, t) = Fetches(cs, fg, t)
  <2>1. \A j \in Slots : Fetched(cs, fg, j, t) => ds[j] = cs[j]
    BY <1>6, <1>9 DEF Fetched
  <2> QED
    BY <2>1, <1>12 DEF Fetches
<1> QED
  BY <1>13, <1>14, <1>15, <1>16, <1>17 DEF Replaced

\* A fetch starts, of a session whose tab is open or is opened with it.
LEMMA AddFetch ==
    ASSUME NEW cs, NEW n, NEW fg, NEW rg, NEW fl, NEW wt, NEW out, NEW tb,
           CallsOK(cs, n, fg, rg, fl, wt, out, tb), n < MaxCalls, NEW s \in Sessions,
           NEW c, c = FetchCall(fg, s),
           NEW ds, ds = AddCall(cs, n, c)
    PROVE  /\ CallsOK(ds, n + 1, fg + 1, rg, fl, wt, out, tb \cup {s})
           /\ OneOK(cs, fl, out) => OneOK(ds, fl, out)
           /\ \A t \in Sessions : Asks(ds, rg, out, t) = Asks(cs, rg, out, t)
           /\ Fetches(ds, fg + 1, s) = {c}
           /\ \A t \in Sessions \ {s} : Fetches(ds, fg + 1, t) = {}
<1>1. /\ cs \in [Slots -> CallSet]
      /\ n \in 0..MaxCalls
      /\ rg \in [Sessions -> 0..n]
      /\ out \subseteq 1..n
      /\ fg \in 0..n
  BY DEF CallsOK
<1>2. n \in Nat /\ n + 1 \in Slots /\ MaxCalls \in Nat /\ n + 1 \notin out /\ fg + 1 \in 0..MaxCalls
  BY <1>1, ViewAssumption DEF Slots
<1>4. c \in CallSet
  BY <1>2 DEF CallSet, FetchCall
<1>5. c.kind = "fetch" /\ c.sess = s /\ c.gen = fg + 1 /\ c.known = 0 /\ c.ver = 0
  BY DEF FetchCall
<1>6. /\ ds \in [Slots -> CallSet]
      /\ \A j \in Slots : j # n + 1 => ds[j] = cs[j]
      /\ ds[n + 1] = c
      /\ cs[n + 1] = NoCall
  <2>1. cs[n + 1] = NoCall
    BY <1>2 DEF CallsOK
  <2> HIDE DEF Slots
  <2> QED
    BY <1>1, <1>2, <1>4, <2>1 DEF AddCall
<1> HIDE DEF Slots
<1>8. \A j \in Slots : cs[j].kind = "fetch" => cs[j].gen <= fg /\ cs[j].gen # fg + 1
  <2> SUFFICES ASSUME NEW j \in Slots, cs[j].kind = "fetch" PROVE cs[j].gen <= fg /\ cs[j].gen # fg + 1
    OBVIOUS
  <2>1. cs[j].gen <= fg
    BY DEF CallsOK
  <2>2. cs[j].gen \in 0..MaxCalls
    BY <1>1 DEF CallSet
  <2> QED
    BY <2>1, <2>2, <1>1, <1>2
<1>9. cs[n + 1].kind = "none"
  BY <1>6, NoCallType
<1>10. \A j \in Slots, t \in Sessions : Asked(ds, rg, out, j, t) <=> Asked(cs, rg, out, j, t)
  BY <1>5, <1>6, <1>9 DEF Asked
<1>11. \A j \in Slots, t \in Sessions : Fetched(ds, fg + 1, j, t) <=> j = n + 1 /\ t = s
  BY <1>2, <1>5, <1>6, <1>8 DEF Fetched
<1>13. CallsOK(ds, n + 1, fg + 1, rg, fl, wt, out, tb \cup {s})
  <2>1. \A j \in Slots : j > n + 1 => ds[j] = NoCall
    <3> SUFFICES ASSUME NEW j \in Slots, j > n + 1 PROVE ds[j] = NoCall
      OBVIOUS
    <3>1. j > n /\ j # n + 1
      BY <1>2 DEF Slots
    <3> QED
      BY <3>1, <1>6 DEF CallsOK
  <2>2. \A t \in fl : t \in tb \cup {s} /\ \E j \in Slots : Asked(ds, rg, out, j, t)
    <3> TAKE t \in fl
    <3>1. t \in tb /\ t \in Sessions /\ \E j \in Slots : Asked(cs, rg, out, j, t)
      BY DEF CallsOK
    <3> QED
      BY <3>1, <1>10
  <2>4. \A j, k \in Slots \ out :
          ds[j].kind = "refresh" /\ ds[k].kind = "refresh" /\ ds[j].sess = ds[k].sess
            /\ ds[j].gen = ds[k].gen => j = k
    BY <1>5, <1>6 DEF CallsOK
  <2>5. \A j \in Slots \ out : ds[j].kind = "refresh" => ds[j].sess \in tb \cup {s} /\ ds[j].gen <= rg[ds[j].sess]
    BY <1>5, <1>6 DEF CallsOK
  <2>6. \A j \in Slots : ds[j].kind # "none" => ds[j].sess \in Sessions
    BY <1>5, <1>6 DEF CallsOK
  <2>9. \A j \in Slots : ds[j].kind = "fetch" => ds[j].gen <= fg + 1
    <3> SUFFICES ASSUME NEW j \in Slots, ds[j].kind = "fetch" PROVE ds[j].gen <= fg + 1
      OBVIOUS
    <3>1. CASE j = n + 1
      BY <3>1, <1>1, <1>5, <1>6
    <3>2. CASE j # n + 1
      <4>1. ds[j] = cs[j] /\ cs[j].gen \in 0..MaxCalls /\ cs[j].gen <= fg
        BY <3>2, <1>1, <1>6, <1>8 DEF CallSet
      <4> QED
        BY <4>1, <1>1, <1>2
    <3> QED
      BY <3>1, <3>2
  <2>10. \A j \in Slots : ds[j].kind = "refresh" => ds[j].gen >= 1
    BY <1>5, <1>6 DEF CallsOK
  <2>7. /\ n + 1 \in 0..MaxCalls /\ fg + 1 \in 0..(n + 1) /\ out \subseteq 1..(n + 1)
        /\ rg \in [Sessions -> 0..(n + 1)]
    BY <1>1, <1>2
  <2>8. tb \cup {s} \subseteq Sessions /\ \A t \in Sessions \ (tb \cup {s}) : rg[t] = 0
    BY DEF CallsOK
  <2>11. wt \subseteq fl
    BY DEF CallsOK
  <2> QED
    BY <1>6, <2>1, <2>2, <2>4, <2>5, <2>6, <2>7, <2>8, <2>9, <2>10, <2>11 DEF CallsOK
<1>14. OneOK(cs, fl, out) => OneOK(ds, fl, out)
  <2> SUFFICES ASSUME OneOK(cs, fl, out) PROVE OneOK(ds, fl, out)
    OBVIOUS
  <2>2. \A j \in Slots : ds[j].kind = "refresh" => ds[j].sess \in fl
    BY <1>5, <1>6 DEF OneOK
  <2>3. \A j, k \in Slots :
          ds[j].kind = "refresh" /\ ds[k].kind = "refresh" /\ ds[j].sess = ds[k].sess => j = k
    BY <1>5, <1>6 DEF OneOK
  <2> QED
    BY <2>2, <2>3 DEF OneOK
<1>15. ASSUME NEW t \in Sessions PROVE Asks(ds, rg, out, t) = Asks(cs, rg, out, t)
  <2>1. \A j \in Slots : Asked(cs, rg, out, j, t) => ds[j] = cs[j]
    BY <1>6, <1>9 DEF Asked
  <2> QED
    BY <2>1, <1>10 DEF Asks
<1>16. Fetches(ds, fg + 1, s) = {c}
  BY <1>2, <1>6, <1>11 DEF Fetches
<1>17. ASSUME NEW t \in Sessions \ {s} PROVE Fetches(ds, fg + 1, t) = {}
  BY <1>11 DEF Fetches
<1> QED
  BY <1>13, <1>14, <1>15, <1>16, <1>17

NoGen(rg, s) == [rg EXCEPT ![s] = 0]
Outlive(cs, out, s) == out \cup {i \in 1..MaxCalls : cs[i].kind = "refresh" /\ cs[i].sess = s}

\* A tab is closed.
LEMMA CloseCalls ==
    ASSUME NEW cs, NEW n, NEW fg, NEW rg, NEW fl, NEW wt, NEW out, NEW tb,
           CallsOK(cs, n, fg, rg, fl, wt, out, tb), NEW s \in tb,
           NEW rg2, rg2 = NoGen(rg, s),
           NEW out2, out2 = Outlive(cs, out, s)
    PROVE  /\ CallsOK(cs, n, fg, rg2, fl \ {s}, wt \ {s}, out2, tb \ {s})
           /\ \A t \in Sessions \ {s} : Asks(cs, rg2, out2, t) = Asks(cs, rg, out, t)
<1>1. /\ cs \in [Slots -> CallSet]
      /\ s \in Sessions
      /\ n \in 0..MaxCalls
      /\ rg \in [Sessions -> 0..n]
      /\ out \subseteq 1..n
  BY DEF CallsOK
<1>2. n \in Nat /\ MaxCalls \in Nat
  BY <1>1, ViewAssumption
<1>3. out2 = out \cup {i \in Slots : cs[i].kind = "refresh" /\ cs[i].sess = s}
  BY DEF Slots, Outlive
<1>4. /\ rg2 \in [Sessions -> 0..n]
      /\ rg2[s] = 0
      /\ \A t \in Sessions : t # s => rg2[t] = rg[t]
  BY <1>1, <1>2 DEF NoGen
<1>5. out2 \subseteq 1..n
  <2>1. \A i \in Slots : cs[i].kind = "refresh" => i \in 1..n
    BY <1>2, NoCallType DEF CallsOK, Slots
  <2> QED
    BY <2>1, <1>1, <1>3
<1> HIDE DEF Slots
<1>6. \A j \in Slots, t \in Sessions \ {s} : Asked(cs, rg2, out2, j, t) <=> Asked(cs, rg, out, j, t)
  BY <1>3, <1>4 DEF Asked
<1>7. CallsOK(cs, n, fg, rg2, fl \ {s}, wt \ {s}, out2, tb \ {s})
  <2>1. \A t \in fl \ {s} : t \in tb \ {s} /\ \E j \in Slots : Asked(cs, rg2, out2, j, t)
    <3> TAKE t \in fl \ {s}
    <3>1. t \in tb /\ t \in Sessions /\ \E j \in Slots : Asked(cs, rg, out, j, t)
      BY DEF CallsOK
    <3> QED
      BY <3>1, <1>6
  <2>2. \A j \in Slots \ out2 : cs[j].kind = "refresh" =>
            cs[j].sess \in tb \ {s} /\ cs[j].gen <= rg2[cs[j].sess]
    <3> SUFFICES ASSUME NEW j \in Slots \ out2, cs[j].kind = "refresh"
                 PROVE  cs[j].sess \in tb \ {s} /\ cs[j].gen <= rg2[cs[j].sess]
      OBVIOUS
    <3>1. cs[j].sess # s /\ j \notin out
      BY <1>3
    <3>2. cs[j].sess \in tb /\ cs[j].gen <= rg[cs[j].sess] /\ cs[j].sess \in Sessions
      BY <3>1 DEF CallsOK
    <3> QED
      BY <3>1, <3>2, <1>4
  <2>3. \A j, k \in Slots \ out2 :
          cs[j].kind = "refresh" /\ cs[k].kind = "refresh" /\ cs[j].sess = cs[k].sess
            /\ cs[j].gen = cs[k].gen => j = k
    BY <1>3 DEF CallsOK
  <2>4. wt \ {s} \subseteq fl \ {s}
    BY DEF CallsOK
  <2>5. tb \ {s} \subseteq Sessions /\ \A t \in Sessions \ (tb \ {s}) : rg2[t] = 0
    BY <1>4 DEF CallsOK
  <2>6. /\ n \in 0..MaxCalls
        /\ fg \in 0..n
        /\ \A i \in Slots : i > n => cs[i] = NoCall
        /\ \A i \in Slots : cs[i].kind # "none" => cs[i].sess \in Sessions
        /\ \A i \in Slots : cs[i].kind = "fetch" => cs[i].gen <= fg
        /\ \A i \in Slots : cs[i].kind = "refresh" => cs[i].gen >= 1
    BY DEF CallsOK
  <2> QED
    BY <1>1, <1>4, <1>5, <2>1, <2>2, <2>3, <2>4, <2>5, <2>6 DEF CallsOK
<1>8. ASSUME NEW t \in Sessions \ {s} PROVE Asks(cs, rg2, out2, t) = Asks(cs, rg, out, t)
  BY <1>6 DEF Asks
<1> QED
  BY <1>7, <1>8

\* The operators of the model that start calls.
LEMMA StartsRefresh ==
    ASSUME NEW s \in tabs, NEW cs, NEW fl, NEW wt, NEW known \in Nat,
           CallsOK(cs, calls, fetchGen, refreshGen, fl, wt, outlived, tabs), VersionsOK(cs, file),
           known <= Len(file[s]), FileInv, StartRefresh(s, cs, fl, wt, known)
    PROVE  /\ CallsOK(call', calls', fetchGen, refreshGen', inFlight', queued', outlived, tabs)
           /\ VersionsOK(call', file)
           /\ OneOK(cs, fl, outlived) => OneOK(call', inFlight', outlived)
           /\ \A t \in Sessions \ {s} :
                 /\ Asks(call', refreshGen', outlived, t) = Asks(cs, refreshGen, outlived, t)
                 /\ t \in queued' <=> t \in wt
           /\ \A t \in Sessions : Fetches(call', fetchGen, t) = Fetches(cs, fetchGen, t)
           /\ \/ s \in queued' /\ Asks(call', refreshGen', outlived, s) = Asks(cs, refreshGen, outlived, s)
              \/ \E c : Asks(call', refreshGen', outlived, s) = {c} /\ c.known = known /\ c.ver = 0
<1>1. CASE s \in fl
  <2>1. queued' = wt \cup {s} /\ inFlight' = fl /\ call' = cs /\ refreshGen' = refreshGen /\ calls' = calls
    BY <1>1 DEF StartRefresh
  <2>2. CallsOK(cs, calls, fetchGen, refreshGen, fl, wt \cup {s}, outlived, tabs)
    <3>1. wt \cup {s} \subseteq fl
      BY <1>1 DEF CallsOK
    <3> QED
      BY <3>1 DEF CallsOK
  <2> QED
    BY <2>1, <2>2
<1>2. CASE s \notin fl
  <2> DEFINE c == RefreshCall(refreshGen, s, known)
             ds == AddCall(cs, calls, c)
             rg2 == NextGen(refreshGen, s)
  <2>1. /\ refreshGen' = rg2 /\ inFlight' = fl \cup {s} /\ queued' = wt
        /\ calls < MaxCalls /\ calls' = calls + 1 /\ call' = ds
    BY <1>2 DEF StartRefresh, Sent, RefreshCall, AddCall, NextGen
  <2>2. c.kind = "refresh" /\ c.sess = s /\ c.known = known /\ c.ver = 0
    BY DEF RefreshCall
  <2>v. s \in Sessions /\ Len(file[s]) \in Nat
    BY DEF CallsOK, FileInv
  <2>3. VersionsOK(ds, file)
    <3> SUFFICES ASSUME NEW i \in Slots
                 PROVE  /\ ds[i].kind # "none" => /\ ds[i].known <= Len(file[ds[i].sess])
                                                  /\ ds[i].ver <= Len(file[ds[i].sess])
                        /\ ds[i].kind = "none" => ds[i] = NoCall
      BY DEF VersionsOK
    <3>1. cs \in [Slots -> CallSet]
      BY DEF CallsOK
    <3>2. CASE i = calls + 1
      <4>1. ds[i] = c
        BY <3>1, <3>2 DEF AddCall
      <4> QED
        BY <4>1, <2>2, <2>v
    <3>3. CASE i # calls + 1
      <4>1. ds[i] = cs[i]
        BY <3>1, <3>3 DEF AddCall
      <4> QED
        BY <4>1 DEF VersionsOK
    <3> QED
      BY <3>2, <3>3
  <2>e. c = RefreshCall(refreshGen, s, known) /\ ds = AddCall(cs, calls, c) /\ rg2 = NextGen(refreshGen, s)
    OBVIOUS
  <2> HIDE DEF c, ds, rg2
  <2>4. CallsOK(ds, calls + 1, fetchGen, rg2, fl \cup {s}, wt, outlived, tabs)
    BY <1>2, <2>1, <2>e, AddRefresh
  <2>5. OneOK(cs, fl, outlived) => OneOK(ds, fl \cup {s}, outlived)
    BY <1>2, <2>1, <2>e, AddRefresh
  <2>6. Replaced(cs, ds, fetchGen, refreshGen, rg2, outlived, s, c)
    BY <1>2, <2>1, <2>e, AddRefresh
  <2> QED
    BY <2>1, <2>2, <2>3, <2>4, <2>5, <2>6 DEF Replaced
<1> QED
  BY <1>1, <1>2

LEMMA StartsFetch ==
    ASSUME NEW s \in Sessions, NEW rg, NEW fl, NEW wt, NEW out, NEW tb,
           CallsOK(call, calls, fetchGen, rg, fl, wt, out, tb), VersionsOK(call, file),
           FileInv, StartFetch(s)
    PROVE  /\ CallsOK(call', calls', fetchGen', rg, fl, wt, out, tb \cup {s})
           /\ VersionsOK(call', file)
           /\ OneOK(call, fl, out) => OneOK(call', fl, out)
           /\ \A t \in Sessions : Asks(call', rg, out, t) = Asks(call, rg, out, t)
           /\ \A t \in Sessions : \A c \in Fetches(call', fetchGen', t) : c.ver = 0
           /\ Fetches(call', fetchGen', s) # {}
<1> DEFINE c == FetchCall(fetchGen, s)
           ds == AddCall(call, calls, c)
<1>1. fetchGen' = fetchGen + 1 /\ calls < MaxCalls /\ calls' = calls + 1 /\ call' = ds
  BY DEF StartFetch, Sent, FetchCall, AddCall
<1>2. c.kind = "fetch" /\ c.sess = s /\ c.known = 0 /\ c.ver = 0
  BY DEF FetchCall
<1>v. Len(file[s]) \in Nat
  BY DEF FileInv
<1>3. VersionsOK(ds, file)
  <2> SUFFICES ASSUME NEW i \in Slots
               PROVE  /\ ds[i].kind # "none" => /\ ds[i].known <= Len(file[ds[i].sess])
                                                /\ ds[i].ver <= Len(file[ds[i].sess])
                      /\ ds[i].kind = "none" => ds[i] = NoCall
    BY DEF VersionsOK
  <2>1. call \in [Slots -> CallSet]
    BY DEF CallsOK
  <2>2. CASE i = calls + 1
    <3>1. ds[i] = c
      BY <2>1, <2>2 DEF AddCall
    <3> QED
      BY <3>1, <1>2, <1>v
  <2>3. CASE i # calls + 1
    <3>1. ds[i] = call[i]
      BY <2>1, <2>3 DEF AddCall
    <3> QED
      BY <3>1 DEF VersionsOK
  <2> QED
    BY <2>2, <2>3
<1>e. c = FetchCall(fetchGen, s) /\ ds = AddCall(call, calls, c)
  OBVIOUS
<1> HIDE DEF c, ds
<1>4. /\ CallsOK(ds, calls + 1, fetchGen + 1, rg, fl, wt, out, tb \cup {s})
      /\ OneOK(call, fl, out) => OneOK(ds, fl, out)
      /\ \A t \in Sessions : Asks(ds, rg, out, t) = Asks(call, rg, out, t)
      /\ Fetches(ds, fetchGen + 1, s) = {c}
      /\ \A t \in Sessions \ {s} : Fetches(ds, fetchGen + 1, t) = {}
  BY <1>1, <1>e, AddFetch
<1>5. \A t \in Sessions : \A d \in Fetches(ds, fetchGen + 1, t) : d.ver = 0
  BY <1>2, <1>4
<1> QED
  BY <1>1, <1>3, <1>4, <1>5

\* A tab comes to the front.
LEMMA Focuses ==
    ASSUME NEW s \in Sessions, NEW rg, NEW fl, NEW wt, NEW out, NEW tb, s \in tb,
           CallsOK(call, calls, fetchGen, rg, fl, wt, out, tb), VersionsOK(call, file),
           FileInv, FetchInv, NoSession \notin Sessions, FocusTab(s)
    PROVE  /\ CallsOK(call', calls', fetchGen', rg, fl, wt, out, tb)
           /\ VersionsOK(call', file)
           /\ OneOK(call, fl, out) => OneOK(call', fl, out)
           /\ \A t \in Sessions : Asks(call', rg, out, t) = Asks(call, rg, out, t)
           /\ \A t \in Sessions : \A c \in Fetches(call', fetchGen', t) :
                 c \in Fetches(call, fetchGen, t) \/ c.ver = 0
           /\ view[s] = 0 => Fetches(call', fetchGen', s) # {}
<1>1. CASE s # selected /\ view[s] = 0
  <2>1. StartFetch(s) /\ tb \cup {s} = tb
    BY <1>1 DEF FocusTab
  <2>2. CallsOK(call', calls', fetchGen', rg, fl, wt, out, tb)
    <3>1. CallsOK(call', calls', fetchGen', rg, fl, wt, out, tb \cup {s})
      BY <2>1, StartsFetch
    <3> QED
      BY <3>1, <2>1
  <2>3. VersionsOK(call', file)
    BY <2>1, StartsFetch
  <2>4. OneOK(call, fl, out) => OneOK(call', fl, out)
    BY <2>1, StartsFetch
  <2>5. \A t \in Sessions : Asks(call', rg, out, t) = Asks(call, rg, out, t)
    BY <2>1, <2>2, StartsFetch
  <2>6. \A t \in Sessions : \A c \in Fetches(call', fetchGen', t) : c.ver = 0
    BY <2>1, <2>2, StartsFetch
  <2>7. Fetches(call', fetchGen', s) # {}
    BY <2>1, <2>2, StartsFetch
  <2> QED
    BY <2>2, <2>3, <2>4, <2>5, <2>6, <2>7
<1>2. CASE ~(s # selected /\ view[s] = 0)
  <2>1. fetchGen' = fetchGen /\ call' = call /\ calls' = calls
    BY <1>2 DEF FocusTab, network
  <2>2. view[s] = 0 => Fetches(call, fetchGen, s) # {}
    BY <1>2 DEF FetchInv
  <2> QED
    BY <2>1, <2>2
<1> QED
  BY <1>1, <1>2

\* What is known of the parts of a session that none of a step's edits touch.
LEMMA FileWritten ==
    ASSUME NEW h, GoodFile(h),
           NEW next \in {Append(Last(h), Chunk(Len(h) + 1)), [Last(h) EXCEPT ![Len(Last(h))] = Chunk(Len(h) + 1)]}
                            \cup {[Last(h) EXCEPT ![i].rev = Len(h) + 1] : i \in DOMAIN Last(h)}
    PROVE  next \in Written(h)
<1>1. Last(h) = h[Len(h)] /\ DOMAIN h[Len(h)] = 1..Len(h[Len(h)])
  BY Newest DEF Last
<1> QED
  BY <1>1 DEF Written

-----------------------------------------------------------------------------
(* The invariant, and that every action keeps it.                           *)

Inv ==
    /\ FileInv
    /\ WindowInv
    /\ ShownInv
    /\ CallsInv
    /\ OneInv
    /\ FetchInv
    /\ SyncInv
    /\ OwnInv

LEMMA FileFacts ==
    ASSUME FileInv, NEW s \in Sessions
    PROVE  GoodFile(file[s]) /\ Len(file[s]) \in Nat \ {0}
<1>1. GoodFile(file[s])
  BY DEF FileInv
<1> QED
  BY <1>1, Newest

LEMMA WriteKeepsInv ==
    ASSUME Inv, NEW s \in Sessions, Write(s)
    PROVE  Inv'
<1> USE DEF Inv
<1>1. PICK next \in Written(file[s]) : file' = [file EXCEPT ![s] = Append(file[s], next)]
  BY FileFacts, FileWritten DEF Write, Latest
<1>2. /\ event' = event \cup {s}
      /\ writes' = writes + 1 /\ writes < MaxWrites
      /\ timer' = timer /\ tabs' = tabs /\ selected' = selected
      /\ view' = view /\ items' = items /\ global' = global
      /\ fetchGen' = fetchGen /\ refreshGen' = refreshGen /\ inFlight' = inFlight /\ queued' = queued
      /\ fileFp' = fileFp /\ chunkFp' = chunkFp /\ call' = call /\ calls' = calls
      /\ missed' = missed /\ outlived' = outlived /\ overtaken' = overtaken /\ crossed' = crossed
      /\ closes' = closes /\ manuals' = manuals
  BY DEF Write, shown, coordination, network, history
<1>3. /\ file' \in [Sessions -> Seq(Seq(Chunks))]
      /\ file'[s] = Append(file[s], next)
      /\ \A t \in Sessions : t # s => file'[t] = file[t]
      /\ Len(file'[s]) = Len(file[s]) + 1
      /\ Len(file[s]) \in Nat
  BY <1>1, WrittenChunks, FileFacts DEF FileInv
<1>4. FileInv'
  <2>1. \A t \in Sessions : GoodFile(file'[t])
    BY <1>3, FileFacts, WriteKeepsGood
  <2>3. writes \in Nat /\ writes' \in 0..MaxWrites /\ writes' = writes + 1
    BY <1>2, ViewAssumption DEF FileInv
  <2>2. \A t \in Sessions : Len(file'[t]) <= writes' + 1
    <3> TAKE t \in Sessions
    <3>1. Len(file[t]) \in Nat /\ Len(file[t]) <= writes + 1
      BY FileFacts DEF FileInv
    <3>2. Len(file'[t]) \in {Len(file[t]), Len(file[t]) + 1}
      BY <1>3
    <3> QED
      BY <2>3, <3>1, <3>2
  <2> QED
    BY <1>3, <2>1, <2>2, <2>3 DEF FileInv
<1>5. \A t \in Sessions : Len(file[t]) <= Len(file'[t]) /\ Len(file'[t]) \in Nat /\ Len(file[t]) \in Nat
  <2> TAKE t \in Sessions
  <2>1. Len(file[t]) \in Nat
    BY FileFacts
  <2>2. Len(file'[t]) \in {Len(file[t]), Len(file[t]) + 1}
    BY <1>3
  <2> QED
    BY <2>1, <2>2
<1>6. WindowInv'
  BY <1>2 DEF WindowInv
<1>7. ShownInv'
  <2>1. \A t \in Sessions : view[t] <= Len(file'[t]) /\ fileFp[t] <= Len(file'[t])
    <3> TAKE t \in Sessions
    <3>1. view[t] \in Nat /\ fileFp[t] \in Nat /\ view[t] <= Len(file[t]) /\ fileFp[t] <= Len(file[t])
      BY DEF ShownInv
    <3> QED
      BY <3>1, <1>5
  <2> QED
    BY <1>2, <2>1 DEF ShownInv
<1>8. CallsInv'
  <2>1. VersionsOK(call, file')
    <3> SUFFICES ASSUME NEW i \in Slots, call[i].kind # "none"
                 PROVE  call[i].known <= Len(file'[call[i].sess]) /\ call[i].ver <= Len(file'[call[i].sess])
      BY DEF VersionsOK, CallsInv
    <3>1. call[i] \in CallSet /\ call[i].sess \in Sessions
      BY DEF CallsInv, CallsOK
    <3>2. call[i].known \in Nat /\ call[i].ver \in Nat
      BY <3>1 DEF CallSet
    <3>3. call[i].known <= Len(file[call[i].sess]) /\ call[i].ver <= Len(file[call[i].sess])
      BY DEF CallsInv, VersionsOK
    <3> QED
      BY <3>1, <3>2, <3>3, <1>5
  <2> QED
    BY <1>2, <2>1 DEF CallsInv
<1>9. OneInv'
  BY <1>2 DEF OneInv
<1>10. FetchInv'
  BY <1>2 DEF FetchInv
<1>11. SyncInv'
  <2> SUFFICES ASSUME NEW t \in tabs \ (missed \cup overtaken) PROVE SyncedNow(t)'
    BY <1>2 DEF SyncInv
  <2>1. SyncedNow(t) /\ t \in Sessions
    BY DEF SyncInv, WindowInv
  <2>2. CASE t # s
    <3>1. file'[t] = file[t] /\ Waits(t)' = Waits(t)
      BY <2>1, <2>2, <1>2, <1>3 DEF Waits
    <3> QED
      BY <3>1, <2>1, <1>2 DEF SyncedNow
  <2>3. CASE t = s
    <3> DEFINE A == Asks(call, refreshGen, outlived, s)
               F == Fetches(call, fetchGen, s)
    <3>1. view[s] \in 0..Len(file[s]) /\ fileFp[s] \in 0..Len(file[s])
      BY <1>5 DEF ShownInv
    <3>2. \A c \in A : c.known \in Nat /\ c.known <= Len(file[s])
      <4> TAKE c \in A
      <4>1. PICK i \in Slots : c = call[i] /\ call[i].kind = "refresh" /\ call[i].sess = s
        BY DEF Asks, Asked
      <4> QED
        BY <4>1 DEF CallsInv, CallsOK, VersionsOK, CallSet
    <3>3. \A c \in F : c.ver \in 0..Len(file[s])
      <4> TAKE c \in F
      <4>1. PICK i \in Slots : c = call[i] /\ call[i].kind = "fetch" /\ call[i].sess = s
        BY DEF Fetches, Fetched
      <4>2. c.ver \in Nat /\ c.ver <= Len(file[s])
        BY <4>1 DEF CallsInv, CallsOK, VersionsOK, CallSet
      <4> QED
        BY <4>2, <1>5
    <3>4. Synced(file[s], view[s], fileFp[s], chunkFp[s], Waits(s), A, F)
      BY <2>1, <2>3 DEF SyncedNow
    <3> HIDE DEF A, F
    <3>5. Synced(Append(file[s], next), view[s], fileFp[s], chunkFp[s], TRUE, A, F)
      BY <3>1, <3>2, <3>3, <3>4, FileFacts, SyncedWrite
    <3>6. Waits(s)' <=> TRUE
      BY <1>2 DEF Waits
    <3>7. Waits(s)' = TRUE
      BY <3>6 DEF Waits
    <3> QED
      BY <3>5, <3>7, <2>3, <1>2, <1>3 DEF SyncedNow, A, F
  <2> QED
    BY <2>2, <2>3
<1>12. OwnInv'
  <2> SUFFICES ASSUME NEW t \in tabs \ (overtaken \cup crossed)
               PROVE  Own(file'[t], view[t], items[t], t)
    BY <1>2 DEF OwnInv
  <2>1. Own(file[t], view[t], items[t], t) /\ t \in Sessions
    BY DEF OwnInv, WindowInv
  <2>2. CASE t # s
    BY <2>1, <2>2, <1>3
  <2>3. CASE t = s
    <3>1. view[s] \in 0..Len(file[s])
      BY <1>5 DEF ShownInv
    <3> QED
      BY <2>1, <2>3, <3>1, <1>3, FileFacts, OwnWrite
  <2> QED
    BY <2>2, <2>3
<1> QED
  BY <1>4, <1>6, <1>7, <1>8, <1>9, <1>10, <1>11, <1>12

LEMMA AnswerKeepsInv ==
    ASSUME Inv, NEW i \in Slots, Answer(i)
    PROVE  Inv'
<1> USE DEF Inv
<1> DEFINE s == call[i].sess
           ver == Len(file[s])
<1>1. /\ call[i].kind # "none"
      /\ call' = AnswerCall(call, i, ver)
      /\ file' = file /\ event' = event /\ writes' = writes
      /\ timer' = timer /\ tabs' = tabs /\ selected' = selected
      /\ view' = view /\ items' = items /\ global' = global
      /\ fetchGen' = fetchGen /\ refreshGen' = refreshGen /\ inFlight' = inFlight /\ queued' = queued
      /\ fileFp' = fileFp /\ chunkFp' = chunkFp /\ calls' = calls
      /\ missed' = missed /\ outlived' = outlived /\ overtaken' = overtaken /\ crossed' = crossed
      /\ closes' = closes /\ manuals' = manuals
  BY DEF Answer, AnswerCall, Latest, shown, coordination, history, env
<1>2. s \in Sessions /\ call[i] \in CallSet /\ call \in [Slots -> CallSet]
  BY <1>1 DEF CallsInv, CallsOK
<1>3. GoodFile(file[s]) /\ ver \in Nat
  BY <1>2, FileFacts
<1> HIDE DEF s, ver
<1>10. CallsOK(call', calls, fetchGen, refreshGen, inFlight, queued, outlived, tabs)
  BY <1>1, <1>3, AnswerCalls DEF CallsInv
<1>11. OneOK(call, inFlight, outlived) => OneOK(call', inFlight, outlived)
  BY <1>1, <1>3, AnswerCalls DEF CallsInv
<1>12. Answered(call, call', fetchGen, refreshGen, outlived, s, ver)
  BY <1>1, <1>3, AnswerCalls DEF CallsInv, s
<1>5. FileInv' /\ WindowInv' /\ ShownInv' /\ OwnInv'
  BY <1>1 DEF FileInv, WindowInv, ShownInv, OwnInv
<1>6. CallsInv'
  <2>1. VersionsOK(call', file)
    <3> SUFFICES ASSUME NEW j \in Slots
                 PROVE  /\ call'[j].kind # "none" => /\ call'[j].known <= Len(file[call'[j].sess])
                                                     /\ call'[j].ver <= Len(file[call'[j].sess])
                        /\ call'[j].kind = "none" => call'[j] = NoCall
      BY DEF VersionsOK
    <3>1. CASE j = i
      <4>1. /\ call'[j].known = call[i].known /\ call'[j].ver = ver /\ call'[j].sess = s
            /\ call'[j].kind # "none"
        BY <3>1, <1>1, <1>2 DEF s, CallSet, AnswerCall
      <4>2. call[i].known <= ver
        BY <1>1 DEF CallsInv, VersionsOK, s, ver
      <4> QED
        BY <4>1, <4>2, <1>3 DEF ver
    <3>2. CASE j # i
      <4>1. call'[j] = call[j]
        BY <3>2, <1>1, <1>2 DEF AnswerCall
      <4> QED
        BY <4>1 DEF CallsInv, VersionsOK
    <3> QED
      BY <3>1, <3>2
  <2> QED
    BY <2>1, <1>1, <1>10 DEF CallsInv
<1>7. OneInv'
  BY <1>1, <1>11 DEF OneInv
<1>8. FetchInv'
  <2>1. selected # NoSession => selected \in Sessions
    BY DEF WindowInv
  <2> QED
    BY <2>1, <1>1, <1>12 DEF FetchInv, Answered
<1>9. SyncInv'
  <2> SUFFICES ASSUME NEW t \in tabs \ (missed \cup overtaken) PROVE SyncedNow(t)'
    BY <1>1 DEF SyncInv
  <2> DEFINE A == Asks(call, refreshGen, outlived, t)
             B == Asks(call', refreshGen, outlived, t)
             F == Fetches(call, fetchGen, t)
             G == Fetches(call', fetchGen, t)
  <2>1. Synced(file[t], view[t], fileFp[t], chunkFp[t], Waits(t), A, F) /\ t \in Sessions
    BY DEF SyncInv, SyncedNow, WindowInv
  <2>2. fileFp[t] \in 0..Len(file[t]) /\ GoodFile(file[t])
    <3>1. fileFp[t] \in Nat /\ fileFp[t] <= Len(file[t])
      BY <2>1 DEF ShownInv
    <3>2. GoodFile(file[t]) /\ Len(file[t]) \in Nat
      BY <2>1, FileFacts
    <3> QED
      BY <3>1, <3>2
  <2>3. \A c \in B : c \in A \/ (c.ver = Len(file[t]) /\ \E d \in A : d.known = c.known)
    BY <2>1, <1>12 DEF ver, Answered
  <2>4. A # {} => B # {}
    BY <2>1, <1>12 DEF Answered
  <2>5. \A c \in G : c \in F \/ c.ver = Len(file[t])
    BY <2>1, <1>12 DEF ver, Answered
  <2> HIDE DEF A, B, F, G
  <2>6. Synced(file[t], view[t], fileFp[t], chunkFp[t], Waits(t), B, G)
    BY <2>1, <2>2, <2>3, <2>4, <2>5, SyncedAnswer
  <2>7. Waits(t)' = Waits(t)
    BY <1>1 DEF Waits
  <2> QED
    BY <2>6, <2>7, <1>1 DEF SyncedNow, B, G
<1> QED
  BY <1>5, <1>6, <1>7, <1>8, <1>9

\* An event is lost for a hidden session only, which is then among the missed.
LEMMA DeliverKeepsInv ==
    ASSUME Inv, NEW s \in Sessions, Deliver(s)
    PROVE  Inv'
<1> USE DEF Inv
<1>1. /\ s \in event
      /\ event' = event \ {s}
      /\ timer' = IF selected = s THEN timer \cup {s} ELSE timer
      /\ missed' = IF selected # s /\ s \in tabs THEN missed \cup {s} ELSE missed
      /\ file' = file /\ writes' = writes /\ tabs' = tabs /\ selected' = selected
      /\ view' = view /\ items' = items /\ global' = global
      /\ fetchGen' = fetchGen /\ refreshGen' = refreshGen /\ inFlight' = inFlight /\ queued' = queued
      /\ fileFp' = fileFp /\ chunkFp' = chunkFp /\ call' = call /\ calls' = calls
      /\ outlived' = outlived /\ overtaken' = overtaken /\ crossed' = crossed
      /\ closes' = closes /\ manuals' = manuals
  BY DEF Deliver, shown, coordination, network, env
<1>2. FileInv' /\ ShownInv' /\ CallsInv' /\ OneInv' /\ FetchInv' /\ OwnInv'
  BY <1>1 DEF FileInv, ShownInv, CallsInv, OneInv, FetchInv, OwnInv
<1>3. WindowInv'
  <2>1. missed' \subseteq tabs
    BY <1>1 DEF WindowInv
  <2>2. timer' \subseteq Sessions
    BY <1>1 DEF WindowInv
  <2> QED
    BY <2>1, <2>2, <1>1 DEF WindowInv
<1>4. SyncInv'
  <2> SUFFICES ASSUME NEW t \in tabs \ (missed' \cup overtaken) PROVE SyncedNow(t)'
    BY <1>1 DEF SyncInv
  <2>1. t \in tabs \ (missed \cup overtaken) /\ SyncedNow(t)
    BY <1>1 DEF SyncInv
  <2>2. Waits(t)' <=> Waits(t)
    <3>1. t = s => selected = s
      BY <1>1
    <3> QED
      BY <3>1, <1>1 DEF Waits
  <2>3. Waits(t)' = Waits(t)
    BY <2>2 DEF Waits
  <2> QED
    BY <2>1, <2>3, <1>1 DEF SyncedNow
<1> QED
  BY <1>2, <1>3, <1>4

\* A refresh is asked for.
LEMMA Refreshes ==
    ASSUME Inv, NEW s \in Sessions, Refresh(s), UNCHANGED <<file, tabs, fetchGen, outlived, closes>>
    PROVE  /\ CallsInv'
           /\ OneInv'
           /\ fileFp' = fileFp /\ chunkFp' = chunkFp
           /\ \A t \in Sessions : Fetches(call', fetchGen', t) = Fetches(call, fetchGen, t)
           /\ \A t \in Sessions \ {s} :
                 /\ Asks(call', refreshGen', outlived', t) = Asks(call, refreshGen, outlived, t)
                 /\ t \in queued' <=> t \in queued
           /\ s \in tabs =>
                 \/ s \in queued' /\ Asks(call', refreshGen', outlived', s) = Asks(call, refreshGen, outlived, s)
                 \/ \E c : Asks(call', refreshGen', outlived', s) = {c} /\ c.known = fileFp[s] /\ c.ver = 0
<1> USE DEF Inv
<1>1. CASE Viewing(s)
  <2>1. s \in tabs
    BY <1>1, ViewAssumption DEF Viewing, WindowInv
  <2>2. StartRefresh(s, call, inFlight, queued, fileFp[s]) /\ fileFp' = fileFp /\ chunkFp' = chunkFp
    BY <1>1 DEF Refresh
  <2>3. fileFp[s] \in Nat /\ fileFp[s] <= Len(file[s])
    BY DEF ShownInv
  <2>4. /\ CallsOK(call', calls', fetchGen, refreshGen', inFlight', queued', outlived, tabs)
        /\ VersionsOK(call', file)
        /\ OneOK(call, inFlight, outlived) => OneOK(call', inFlight', outlived)
        /\ \A t \in Sessions \ {s} :
              /\ Asks(call', refreshGen', outlived, t) = Asks(call, refreshGen, outlived, t)
              /\ t \in queued' <=> t \in queued
        /\ \A t \in Sessions : Fetches(call', fetchGen, t) = Fetches(call, fetchGen, t)
        /\ \/ s \in queued' /\ Asks(call', refreshGen', outlived, s) = Asks(call, refreshGen, outlived, s)
           \/ \E c : Asks(call', refreshGen', outlived, s) = {c} /\ c.known = fileFp[s] /\ c.ver = 0
    BY <2>1, <2>2, <2>3, StartsRefresh DEF CallsInv
  <2> QED
    BY <2>2, <2>4 DEF CallsInv, OneInv
<1>2. CASE ~Viewing(s)
  <2>1. /\ refreshGen' = refreshGen /\ inFlight' = inFlight /\ queued' = queued
        /\ fileFp' = fileFp /\ chunkFp' = chunkFp /\ call' = call /\ calls' = calls
    BY <1>2 DEF Refresh, coordination, network
  <2>2. s \notin tabs
    BY <1>2 DEF Viewing
  <2> QED
    BY <2>1, <2>2 DEF CallsInv, OneInv
<1> QED
  BY <1>1, <1>2

\* What a refresh does to what is known of its session, whether or not it was
\* the timer that asked for it.
LEMMA RefreshKeepsSynced ==
    ASSUME Inv, NEW s \in Sessions, Refresh(s),
           UNCHANGED <<file, event, tabs, selected, view, fetchGen, missed, outlived, overtaken, closes>>,
           timer' \in {timer, timer \ {s}}
    PROVE  SyncInv'
<1> SUFFICES ASSUME NEW t \in tabs \ (missed \cup overtaken) PROVE SyncedNow(t)'
  BY DEF SyncInv
<1> DEFINE A == Asks(call, refreshGen, outlived, t)
           B == Asks(call', refreshGen', outlived', t)
           F == Fetches(call, fetchGen, t)
<1>1. /\ t \in Sessions
      /\ Synced(file[t], view[t], fileFp[t], chunkFp[t], Waits(t), A, F)
  BY DEF Inv, SyncInv, SyncedNow, WindowInv
<1>2. /\ Fetches(call', fetchGen', t) = F
      /\ fileFp'[t] = fileFp[t] /\ chunkFp'[t] = chunkFp[t] /\ file'[t] = file[t] /\ view'[t] = view[t]
  BY <1>1, Refreshes
<1>3. CASE t # s
  <2>1. B = A /\ (t \in queued' <=> t \in queued)
    BY <1>1, <1>3, Refreshes
  <2>2. Waits(t)' <=> Waits(t)
    BY <2>1, <1>3 DEF Waits
  <2>3. Waits(t)' = Waits(t)
    BY <2>2 DEF Waits
  <2> HIDE DEF A, B, F
  <2>4. Synced(file'[t], view'[t], fileFp'[t], chunkFp'[t], Waits(t)', B, F)
    BY <1>1, <1>2, <2>1, <2>3
  <2> QED
    BY <2>4, <1>2 DEF SyncedNow, B
<1>4. CASE t = s
  <2>1. \/ t \in queued' /\ B = A
        \/ \E c : B = {c} /\ c.known = fileFp[t] /\ c.ver = 0
    BY <1>1, <1>4, Refreshes
  <2> HIDE DEF A, B, F
  <2>2. CASE t \in queued' /\ B = A
    <3>1. Waits(t)' = TRUE
      BY <2>2 DEF Waits
    <3>2. Synced(file[t], view[t], fileFp[t], chunkFp[t], TRUE, B, F)
      BY <1>1, <2>2, SyncedWaits
    <3> QED
      BY <3>1, <3>2, <1>2 DEF SyncedNow, B
  <2>3. CASE \E c : B = {c} /\ c.known = fileFp[t] /\ c.ver = 0
    <3>1. Synced(file[t], view[t], fileFp[t], chunkFp[t], Waits(t)', B, F)
      BY <1>1, <2>3, SyncedRefresh
    <3> QED
      BY <3>1, <1>2 DEF SyncedNow, B
  <2> QED
    BY <2>1, <2>2, <2>3
<1> QED
  BY <1>3, <1>4

\* What neither the timer nor the user's refresh touches.
LEMMA RefreshKeepsRest ==
    ASSUME Inv, NEW s \in Sessions, Refresh(s),
           UNCHANGED <<file, event, tabs, selected, shown, fetchGen, history, writes, closes>>,
           timer' \in {timer, timer \ {s}}, manuals' \in 0..MaxManual
    PROVE  Inv'
<1> USE DEF Inv
<1>1. /\ file' = file /\ event' = event /\ writes' = writes /\ tabs' = tabs /\ selected' = selected
      /\ view' = view /\ items' = items /\ global' = global /\ fetchGen' = fetchGen
      /\ missed' = missed /\ outlived' = outlived /\ overtaken' = overtaken /\ crossed' = crossed
      /\ closes' = closes
  BY DEF shown, history
<1>2. /\ CallsInv' /\ OneInv'
      /\ fileFp' = fileFp /\ chunkFp' = chunkFp
      /\ \A t \in Sessions : Fetches(call', fetchGen', t) = Fetches(call, fetchGen, t)
  BY <1>1, Refreshes
<1>3. FileInv' /\ WindowInv' /\ ShownInv' /\ OwnInv'
  BY <1>1, <1>2 DEF FileInv, WindowInv, ShownInv, OwnInv
<1>4. FetchInv'
  <2>1. selected # NoSession => selected \in Sessions
    BY DEF WindowInv
  <2> QED
    BY <2>1, <1>1, <1>2 DEF FetchInv
<1>5. SyncInv'
  BY <1>1, RefreshKeepsSynced
<1> QED
  BY <1>2, <1>3, <1>4, <1>5

LEMMA TimerFiresKeepsInv ==
    ASSUME Inv, NEW s \in Sessions, TimerFires(s)
    PROVE  Inv'
<1>1. timer' = timer \ {s} /\ Refresh(s) /\ manuals' = manuals
  BY DEF TimerFires, env
<1>2. UNCHANGED <<file, event, tabs, selected, shown, fetchGen, history, writes, closes>>
  BY DEF TimerFires, env
<1>3. manuals' \in 0..MaxManual
  BY <1>1 DEF Inv, WindowInv
<1> QED
  BY <1>1, <1>2, <1>3, RefreshKeepsRest

LEMMA ManualRefreshKeepsInv ==
    ASSUME Inv, ManualRefresh
    PROVE  Inv'
<1>1. selected \in Sessions
  BY DEF Inv, WindowInv, ManualRefresh
<1>2. UNCHANGED <<file, event, tabs, selected, shown, fetchGen, history, writes, closes>>
  BY DEF ManualRefresh
<1>3. manuals' \in 0..MaxManual
  BY ViewAssumption DEF Inv, WindowInv, ManualRefresh
<1>4. timer' = timer /\ Refresh(selected)
  BY DEF ManualRefresh
<1> QED
  BY <1>1, <1>2, <1>3, <1>4, RefreshKeepsRest

\* A call that returned leaves no version behind.
LEMMA RemovedVersions ==
    ASSUME NEW cs, cs \in [Slots -> CallSet], VersionsOK(cs, file), NEW i \in Slots
    PROVE  VersionsOK(RemoveCall(cs, i), file)
<1>1. ASSUME NEW j \in Slots
      PROVE  RemoveCall(cs, i)[j] = IF j = i THEN NoCall ELSE cs[j]
  BY DEF RemoveCall
<1> QED
  BY <1>1, NoCallType DEF VersionsOK

\* What the end of a refresh leaves: the calls and maps are in order, the other
\* sessions are as they were, and the session has no refresh queued, and none
\* under way unless one was queued.
RefreshEnded(i, s, known) ==
    /\ CallsOK(call', calls', fetchGen, refreshGen', inFlight', queued', outlived, tabs)
    /\ VersionsOK(call', file)
    /\ OneOK(call, inFlight, outlived) => OneOK(call', inFlight', outlived)
    /\ \A t \in Sessions : Fetches(call', fetchGen, t) = Fetches(call, fetchGen, t)
    /\ \A t \in Sessions \ {s} :
          /\ Asks(call', refreshGen', outlived, t) = Asks(call, refreshGen, outlived, t)
          /\ t \in queued' <=> t \in queued
    /\ s \notin queued'
    /\ s \notin queued /\ ~Asked(call, refreshGen, outlived, i, s)
          => Asks(call', refreshGen', outlived, s) = Asks(call, refreshGen, outlived, s)
    /\ s \notin queued /\ Asked(call, refreshGen, outlived, i, s)
          => Asks(call', refreshGen', outlived, s) = {}
    /\ s \in queued => \E c : Asks(call', refreshGen', outlived, s) = {c} /\ c.known = known /\ c.ver = 0

\* The finally block of a refresh.
LEMMA RefreshEnds ==
    ASSUME Inv, NEW i \in Slots, call[i].kind = "refresh", NEW s, s = call[i].sess, NEW known \in Nat,
           known <= Len(file[s]), Finally(s, RemoveCall(call, i), known)
    PROVE  RefreshEnded(i, s, known)
<1> DEFINE ds == RemoveCall(call, i)
           fl == inFlight \ {s}
           wt == queued \ {s}
<1>1. CallsOK(call, calls, fetchGen, refreshGen, inFlight, queued, outlived, tabs) /\ VersionsOK(call, file)
  BY DEF Inv, CallsInv
<1>2. s \in Sessions /\ call \in [Slots -> CallSet]
  BY <1>1 DEF CallsOK
<1>3. CallsOK(ds, calls, fetchGen, refreshGen, fl, wt, outlived, tabs)
  BY <1>1, RemoveRefresh
<1>4. OneOK(call, inFlight, outlived) => OneOK(ds, fl, outlived)
  BY <1>1, RemoveRefresh
<1>5. Removed(call, ds, fetchGen, refreshGen, outlived, i)
  BY <1>1, RemoveRefresh
<1>6. VersionsOK(ds, file)
  BY <1>1, <1>2, RemovedVersions
<1>7. \A t \in Sessions \ {s} : ~Asked(call, refreshGen, outlived, i, t)
  BY DEF Asked
<1>8. /\ \A t \in Sessions \ {s} : Asks(ds, refreshGen, outlived, t) = Asks(call, refreshGen, outlived, t)
      /\ \A t \in Sessions : Fetches(ds, fetchGen, t) = Fetches(call, fetchGen, t)
      /\ ~Asked(call, refreshGen, outlived, i, s)
            => Asks(ds, refreshGen, outlived, s) = Asks(call, refreshGen, outlived, s)
      /\ Asked(call, refreshGen, outlived, i, s) => Asks(ds, refreshGen, outlived, s) = {}
  BY <1>2, <1>5, <1>7 DEF Removed
<1>9. s \in queued => s \in tabs /\ refreshGen[s] # 0
  <2> SUFFICES ASSUME s \in queued PROVE s \in tabs /\ refreshGen[s] # 0
    OBVIOUS
  <2>1. s \in tabs
    BY <1>1 DEF CallsOK
  <2>2. PICK j \in Slots : Asked(call, refreshGen, outlived, j, s)
    BY <1>1 DEF CallsOK
  <2>3. call[j].gen >= 1 /\ call[j].gen = refreshGen[s]
    BY <2>2, <1>1 DEF CallsOK, Asked
  <2> QED
    BY <2>1, <2>3
<1> HIDE DEF ds
<1>10. Finally(s, ds, known)
  BY DEF ds
<1>11. CASE s \in queued
  <2>1. s \in tabs /\ StartRefresh(s, ds, fl, wt, known)
    BY <1>9, <1>10, <1>11 DEF Finally, Viewing
  <2>2. queued' = wt
    BY <2>1 DEF StartRefresh
  <2>3. FileInv
    BY DEF Inv
  <2> HIDE DEF fl, wt
  <2>4. /\ CallsOK(call', calls', fetchGen, refreshGen', inFlight', queued', outlived, tabs)
        /\ VersionsOK(call', file)
        /\ OneOK(ds, fl, outlived) => OneOK(call', inFlight', outlived)
        /\ \A t \in Sessions \ {s} :
              /\ Asks(call', refreshGen', outlived, t) = Asks(ds, refreshGen, outlived, t)
              /\ t \in queued' <=> t \in wt
        /\ \A t \in Sessions : Fetches(call', fetchGen, t) = Fetches(ds, fetchGen, t)
        /\ \/ s \in queued' /\ Asks(call', refreshGen', outlived, s) = Asks(ds, refreshGen, outlived, s)
           \/ \E c : Asks(call', refreshGen', outlived, s) = {c} /\ c.known = known /\ c.ver = 0
    BY <2>1, <2>3, <1>3, <1>6, StartsRefresh
  <2> QED
    BY <2>2, <2>4, <1>4, <1>8, <1>11 DEF wt, RefreshEnded
<1>12. CASE s \notin queued
  <2>1. inFlight' = fl /\ queued' = wt /\ call' = ds /\ refreshGen' = refreshGen /\ calls' = calls
    BY <1>10, <1>12 DEF Finally
  <2> QED
    BY <2>1, <1>3, <1>4, <1>6, <1>8, <1>12 DEF RefreshEnded
<1> QED
  BY <1>11, <1>12

LEMMA RefreshReturnsKeepsInv ==
    ASSUME Inv, NEW i \in Slots, RefreshReturns(i)
    PROVE  Inv'
<1> USE DEF Inv
<1> DEFINE s == call[i].sess
           ver == call[i].ver
           current == call[i].gen = refreshGen[s]
           fresh == current /\ call[i].known # ver /\ chunkFp[s] # FP(file[s], ver)
           new == IncrementalUpdate(global, ItemsOf(s, file[s][ver]))
<1>1. /\ call[i].kind = "refresh"
      /\ ver # 0
      /\ fileFp' = IF current THEN [fileFp EXCEPT ![s] = ver] ELSE fileFp
      /\ chunkFp' = IF fresh THEN [chunkFp EXCEPT ![s] = FP(file[s], ver)] ELSE chunkFp
      /\ overtaken' = IF (fresh /\ ver < view[s]) \/ (current /\ i \in outlived)
                      THEN overtaken \cup {s} ELSE overtaken
      /\ Finally(s, RemoveCall(call, i), fileFp'[s])
  BY DEF RefreshReturns, Fingerprint, FP, RemoveCall
<1>2. /\ file' = file /\ event' = event /\ writes' = writes /\ timer' = timer
      /\ tabs' = tabs /\ selected' = selected /\ fetchGen' = fetchGen
      /\ missed' = missed /\ outlived' = outlived
      /\ closes' = closes /\ manuals' = manuals
  BY DEF RefreshReturns, env
<1>3. fresh /\ s \in tabs =>
          /\ view' = [view EXCEPT ![s] = ver]
          /\ items' = [items EXCEPT ![s] = new]
          /\ global' = new
          /\ crossed' = IF global \notin {<<>>, items[s]} THEN crossed \cup {s} ELSE crossed
  BY DEF RefreshReturns, Show, Fingerprint, FP, Items, ItemsOf
<1>4. ~(fresh /\ s \in tabs) => view' = view /\ items' = items /\ global' = global /\ crossed' = crossed
  BY DEF RefreshReturns, shown, Fingerprint, FP
<1>5. /\ s \in Sessions /\ call[i] \in CallSet /\ call[i].gen >= 1
      /\ GoodFile(file[s]) /\ Len(file[s]) \in Nat \ {0} /\ ver \in 1..Len(file[s])
  <2>1. s \in Sessions /\ call[i] \in CallSet /\ call[i].gen >= 1 /\ ver <= Len(file[s])
    BY <1>1 DEF CallsInv, CallsOK, VersionsOK
  <2>2. GoodFile(file[s]) /\ Len(file[s]) \in Nat \ {0}
    BY <2>1, FileFacts
  <2>3. ver \in Nat
    BY <2>1 DEF CallSet
  <2> QED
    BY <2>1, <2>2, <2>3, <1>1
<1>6. current => s \in tabs
  <2>1. s \notin tabs => refreshGen[s] = 0
    BY <1>5 DEF CallsInv, CallsOK
  <2> QED
    BY <2>1, <1>5
<1>7. file[s][ver] \in Seq(Chunks) /\ Len(file[s][ver]) >= 1
  BY <1>5 DEF GoodFile
<1>8. /\ new \in Seq(ItemSet) /\ Len(new) = Len(file[s][ver])
  <2> DEFINE own == ItemsOf(s, file[s][ver])
  <2>1. own \in Seq(ItemSet) /\ Len(own) = Len(file[s][ver])
    BY <1>5, <1>7, ItemsType
  <2>2. global \in Seq(ItemSet)
    BY DEF ShownInv
  <2> HIDE DEF own
  <2>3. IncrementalUpdate(global, own) \in Seq(ItemSet) /\ Len(IncrementalUpdate(global, own)) = Len(own)
    BY <1>7, <2>1, <2>2, UpdateItems
  <2> QED
    BY <2>1, <2>3 DEF own
<1>9. new # <<>>
  BY <1>7, <1>8
<1>10. /\ fileFp' \in [Sessions -> Nat]
       /\ fileFp'[s] \in Nat /\ fileFp'[s] <= Len(file[s])
       /\ fileFp'[s] = IF current THEN ver ELSE fileFp[s]
       /\ \A t \in Sessions : fileFp'[t] <= Len(file[t])
       /\ \A t \in Sessions \ {s} : fileFp'[t] = fileFp[t]
  <2>1. fileFp \in [Sessions -> Nat] /\ \A t \in Sessions : fileFp[t] <= Len(file[t])
    BY DEF ShownInv
  <2>2. ver \in Nat /\ ver <= Len(file[s])
    BY <1>5
  <2> HIDE DEF s, ver, current
  <2> QED
    BY <2>1, <2>2, <1>1, <1>5
<1>11. /\ view' \in [Sessions -> Nat]
       /\ view'[s] = IF fresh THEN ver ELSE view[s]
       /\ \A t \in Sessions \ {s} : view'[t] = view[t]
       /\ \A t \in Sessions : view'[t] <= Len(file[t])
  <2>1. view \in [Sessions -> Nat] /\ \A t \in Sessions : view[t] <= Len(file[t])
    BY DEF ShownInv
  <2>2. ver \in Nat /\ ver <= Len(file[s])
    BY <1>5
  <2>3. fresh => s \in tabs
    BY <1>6
  <2> HIDE DEF s, ver, fresh
  <2>4. CASE fresh
    BY <2>1, <2>2, <2>3, <2>4, <1>3, <1>5
  <2>5. CASE ~fresh
    BY <2>1, <2>5, <1>4
  <2> QED
    BY <2>4, <2>5
<1>12. /\ chunkFp' \in [Sessions -> {<<>>} \cup FingerprintSet]
       /\ chunkFp'[s] = IF fresh THEN FP(file[s], ver) ELSE chunkFp[s]
       /\ \A t \in Sessions \ {s} : chunkFp'[t] = chunkFp[t]
  <2>1. FP(file[s], ver) \in FingerprintSet
    <3> DEFINE h == file[s][ver]
    <3>1. h \in Seq(Chunks) /\ Len(h) >= 1
      BY <1>7
    <3> HIDE DEF h
    <3>2. h[Len(h)] \in Chunks
      BY <3>1
    <3>3. <<Len(h), h[Len(h)].end>> \in FingerprintSet
      BY <3>1, <3>2 DEF FingerprintSet, Chunks
    <3> QED
      BY <3>3 DEF FP, Last, h
  <2>2. chunkFp \in [Sessions -> {<<>>} \cup FingerprintSet]
    BY DEF ShownInv
  <2> HIDE DEF s, ver, fresh
  <2> QED
    BY <2>1, <2>2, <1>1, <1>5
<1>13. /\ items' \in [Sessions -> Seq(ItemSet)]
       /\ items'[s] = IF fresh THEN new ELSE items[s]
       /\ \A t \in Sessions \ {s} : items'[t] = items[t]
       /\ global' \in Seq(ItemSet)
  <2>1. items \in [Sessions -> Seq(ItemSet)] /\ global \in Seq(ItemSet)
    BY DEF ShownInv
  <2>3. fresh => s \in tabs
    BY <1>6
  <2> HIDE DEF s, new, fresh
  <2> QED
    BY <2>1, <2>3, <1>3, <1>4, <1>5, <1>8
<1>14. /\ CallsOK(call', calls', fetchGen, refreshGen', inFlight', queued', outlived, tabs)
       /\ VersionsOK(call', file)
       /\ OneOK(call, inFlight, outlived) => OneOK(call', inFlight', outlived)
       /\ \A t \in Sessions : Fetches(call', fetchGen, t) = Fetches(call, fetchGen, t)
       /\ \A t \in Sessions \ {s} :
             /\ Asks(call', refreshGen', outlived, t) = Asks(call, refreshGen, outlived, t)
             /\ t \in queued' <=> t \in queued
       /\ s \notin queued'
       /\ s \notin queued /\ ~Asked(call, refreshGen, outlived, i, s)
             => Asks(call', refreshGen', outlived, s) = Asks(call, refreshGen, outlived, s)
       /\ s \notin queued /\ Asked(call, refreshGen, outlived, i, s)
             => Asks(call', refreshGen', outlived, s) = {}
       /\ s \in queued => \E c : Asks(call', refreshGen', outlived, s) = {c} /\ c.known = fileFp'[s] /\ c.ver = 0
  <2> DEFINE known == fileFp'[s]
  <2>1. known \in Nat /\ known <= Len(file[s])
    BY <1>10
  <2>2. call[i].kind = "refresh" /\ s = call[i].sess /\ Finally(s, RemoveCall(call, i), known)
    BY <1>1
  <2> HIDE DEF s, known, Inv
  <2>3. RefreshEnded(i, s, known)
    BY <2>1, <2>2, RefreshEnds
  <2> QED
    BY <2>3 DEF known, RefreshEnded
<1> HIDE DEF new
<1>15. FileInv' /\ CallsInv' /\ OneInv'
  BY <1>2, <1>14 DEF FileInv, CallsInv, OneInv
<1>16. WindowInv'
  <2>1. overtaken' \subseteq tabs
    BY <1>1, <1>6 DEF WindowInv
  <2>2. crossed' \subseteq tabs
    BY <1>3, <1>4 DEF WindowInv
  <2> QED
    BY <2>1, <2>2, <1>2 DEF WindowInv
<1>17. ShownInv'
  <2>1. \A t \in Sessions : view'[t] = 0 <=> items'[t] = <<>>
    <3> TAKE t \in Sessions
    <3>1. view[t] = 0 <=> items[t] = <<>>
      BY DEF ShownInv
    <3>2. CASE t = s /\ fresh
      BY <3>2, <1>1, <1>9, <1>11, <1>13
    <3>3. CASE ~(t = s /\ fresh)
      BY <3>1, <3>3, <1>11, <1>13
    <3> QED
      BY <3>2, <3>3
  <2>2. \A t \in Sessions \ tabs : view'[t] = 0 /\ chunkFp'[t] = <<>>
    <3> TAKE t \in Sessions \ tabs
    <3>1. view[t] = 0 /\ chunkFp[t] = <<>>
      BY DEF ShownInv
    <3>2. ~(t = s /\ fresh)
      BY <1>6
    <3> QED
      BY <3>1, <3>2, <1>11, <1>12
  <2> QED
    BY <2>1, <2>2, <1>2, <1>10, <1>11, <1>12, <1>13 DEF ShownInv
<1>18. FetchInv'
  <2> SUFFICES ASSUME selected # NoSession, view'[selected] = 0
               PROVE  Fetches(call', fetchGen, selected) # {}
    BY <1>2 DEF FetchInv
  <2>1. selected \in Sessions
    BY DEF WindowInv
  <2>2. view[selected] = 0
    BY <2>1, <1>1, <1>11
  <2> QED
    BY <2>1, <2>2, <1>14 DEF FetchInv
<1>19. SyncInv'
  <2> SUFFICES ASSUME NEW t \in tabs \ (missed \cup overtaken') PROVE SyncedNow(t)'
    BY <1>2 DEF SyncInv
  <2> DEFINE A == Asks(call, refreshGen, outlived, t)
             B == Asks(call', refreshGen', outlived, t)
             F == Fetches(call, fetchGen, t)
  <2>1. t \in tabs \ (missed \cup overtaken) /\ t \in Sessions
    BY <1>1 DEF WindowInv
  <2>2. Synced(file[t], view[t], fileFp[t], chunkFp[t], Waits(t), A, F)
    BY <2>1 DEF SyncInv, SyncedNow
  <2>3. Fetches(call', fetchGen, t) = F
    BY <2>1, <1>14
  <2>s. SUFFICES Synced(file[t], view'[t], fileFp'[t], chunkFp'[t], Waits(t)', B, F)
    BY <2>3, <1>2 DEF SyncedNow
  <2>4. CASE t # s
    <3>1. B = A /\ view'[t] = view[t] /\ fileFp'[t] = fileFp[t] /\ chunkFp'[t] = chunkFp[t]
      BY <2>1, <2>4, <1>10, <1>11, <1>12, <1>14
    <3>2. Waits(t)' <=> Waits(t)
      BY <2>1, <2>4, <1>2, <1>14 DEF Waits
    <3>3. Waits(t)' = Waits(t)
      BY <3>2 DEF Waits
    <3> HIDE DEF A, B, F
    <3> QED
      BY <2>2, <3>1, <3>3
  <2>5. CASE t = s
    <3>1. t \notin queued => Waits(t)' = Waits(t)
      <4>1. t \notin queued => (Waits(t)' <=> Waits(t))
        BY <1>2, <1>14, <2>5 DEF Waits
      <4> QED
        BY <4>1 DEF Waits
    \* What is known after the answer, before the queued refresh starts.
    <3>2. \E R : /\ Synced(file[s], view'[s], fileFp'[s], chunkFp'[s], Waits(s), R, F)
                 /\ s \notin queued => B = R
      <4>1. CASE ~current
        <5>1. ~Asked(call, refreshGen, outlived, i, s)
          BY <4>1 DEF Asked
        <5>2. view'[s] = view[s] /\ fileFp'[s] = fileFp[s] /\ chunkFp'[s] = chunkFp[s]
          BY <4>1, <1>10, <1>11, <1>12
        <5>3. s \notin queued => B = A
          BY <5>1, <1>14, <2>5
        <5>4. Synced(file[s], view'[s], fileFp'[s], chunkFp'[s], Waits(s), A, F)
          BY <2>2, <2>5, <5>2
        <5> HIDE DEF A, B, F
        <5> QED
          BY <5>3, <5>4
      <4>2. CASE current
        <5>1. i \notin outlived
          BY <4>2, <1>1, <2>5
        <5>2. Asked(call, refreshGen, outlived, i, s)
          BY <4>2, <5>1, <1>1 DEF Asked
        <5>3. A = {call[i]}
          <6>1. Removed(call, RemoveCall(call, i), fetchGen, refreshGen, outlived, i)
            BY <1>1, RemoveRefresh DEF CallsInv
          <6> QED
            BY <6>1, <5>2, <1>5, <2>5 DEF Removed
        <5>4. s \notin queued => B = {}
          BY <5>2, <1>14, <2>5
        <5>5. \/ call[i].known # call[i].ver /\ chunkFp[s] # FP(file[s], call[i].ver)
                   /\ view'[s] = call[i].ver /\ chunkFp'[s] = FP(file[s], call[i].ver)
              \/ (call[i].known = call[i].ver \/ chunkFp[s] = FP(file[s], call[i].ver))
                   /\ view'[s] = view[s] /\ chunkFp'[s] = chunkFp[s]
          BY <4>2, <1>11, <1>12
        <5>6. fileFp'[s] = call[i].ver
          BY <4>2, <1>10
        <5>7. call[i].ver \in 1..Len(file[s])
          BY <1>5
        <5>8. Synced(file[s], view[s], fileFp[s], chunkFp[s], Waits(s), {call[i]}, F)
          BY <2>2, <2>5, <5>3
        <5> HIDE DEF A, B, F, s, ver, current, fresh
        <5>9. Synced(file[s], view'[s], call[i].ver, chunkFp'[s], Waits(s), {}, F)
          BY <5>5, <5>7, <5>8, SyncedReturn
        <5> QED
          BY <5>4, <5>6, <5>9
      <4> QED
        BY <4>1, <4>2
    <3>3. PICK R : /\ Synced(file[s], view'[s], fileFp'[s], chunkFp'[s], Waits(s), R, F)
                   /\ s \notin queued => B = R
      BY <3>2
    <3>4. s \in queued => \E c : B = {c} /\ c.known = fileFp'[s] /\ c.ver = 0
      BY <1>14, <2>5
    <3> HIDE DEF A, B, F, s, ver, current, fresh
    <3>5. CASE s \notin queued
      BY <3>1, <3>3, <3>5, <2>5
    <3>6. CASE s \in queued
      <4>1. PICK c : B = {c} /\ c.known = fileFp'[s] /\ c.ver = 0
        BY <3>4, <3>6
      <4>2. Synced(file[s], view'[s], fileFp'[s], chunkFp'[s], Waits(t)', {c}, F)
        BY <3>3, <4>1, SyncedRefresh
      <4> QED
        BY <4>1, <4>2, <2>5
    <3> QED
      BY <3>5, <3>6
  <2> QED
    BY <2>4, <2>5
<1>20. OwnInv'
  <2> SUFFICES ASSUME NEW t \in tabs \ (overtaken' \cup crossed')
               PROVE  Own(file[t], view'[t], items'[t], t)
    BY <1>2 DEF OwnInv
  <2>1. t \in tabs \ (overtaken \cup crossed) /\ t \in Sessions
    BY <1>1, <1>3, <1>4 DEF WindowInv
  <2>2. Own(file[t], view[t], items[t], t)
    BY <2>1 DEF OwnInv
  <2>3. CASE ~(t = s /\ fresh)
    BY <2>1, <2>2, <2>3, <1>11, <1>13
  <2>4. CASE t = s /\ fresh
    <3>1. view'[s] = ver /\ items'[s] = new
      BY <2>4, <1>11, <1>13
    <3>2. ~(ver < view[s])
      BY <2>4, <1>1
    <3>3. global \in {<<>>, items[s]}
      BY <2>4, <1>3
    <3>4. view[s] \in 0..Len(file[s]) /\ view[s] <= ver
      <4>1. view[s] \in Nat /\ view[s] <= Len(file[s])
        BY <1>5 DEF ShownInv
      <4> QED
        BY <4>1, <3>2, <1>5
    <3>5. items[s] \in Seq(ItemSet) /\ (view[s] = 0 => items[s] = <<>>)
      BY <1>5 DEF ShownInv
    <3>6. Own(file[s], view[s], items[s], s)
      BY <2>2, <2>4
    <3> HIDE DEF s, ver, fresh
    <3>7. Own(file[s], ver, new, s)
      BY <3>3, <3>4, <3>5, <3>6, <1>5, OwnUpdate DEF new
    <3> QED
      BY <3>1, <3>7, <2>4
  <2> QED
    BY <2>3, <2>4
<1> QED
  BY <1>15, <1>16, <1>17, <1>18, <1>19, <1>20

LEMMA FetchReturnsKeepsInv ==
    ASSUME Inv, NEW i \in Slots, FetchReturns(i)
    PROVE  Inv'
<1> USE DEF Inv
<1> DEFINE s == call[i].sess
           ver == call[i].ver
           newest == call[i].gen = fetchGen
           onView == newest /\ selected = s
           new == ItemsOf(s, file[s][ver])
<1>1. call[i].kind = "fetch" /\ ver # 0 /\ call' = RemoveCall(call, i)
  BY DEF FetchReturns, RemoveCall
<1>2. /\ file' = file /\ event' = event /\ writes' = writes /\ timer' = timer
      /\ tabs' = tabs /\ selected' = selected /\ fetchGen' = fetchGen /\ refreshGen' = refreshGen
      /\ inFlight' = inFlight /\ queued' = queued /\ chunkFp' = chunkFp /\ calls' = calls
      /\ outlived' = outlived /\ closes' = closes /\ manuals' = manuals
  BY DEF FetchReturns, env
<1>3. /\ fileFp' = IF newest THEN [fileFp EXCEPT ![s] = ver] ELSE fileFp
      /\ missed' = IF newest /\ s \in tabs \ {selected} THEN missed \cup {s} ELSE missed
  BY DEF FetchReturns
<1>4. onView => /\ view' = [view EXCEPT ![s] = ver]
                /\ items' = [items EXCEPT ![s] = new]
                /\ global' = new
                /\ overtaken' = IF ver < view[s] THEN overtaken \cup {s} ELSE overtaken
                /\ crossed' = crossed \ {s}
  BY DEF FetchReturns, Show, Items, ItemsOf
<1>5. ~onView => /\ view' = view /\ items' = items /\ global' = global
                 /\ overtaken' = overtaken /\ crossed' = crossed
  BY DEF FetchReturns, shown
<1>6. /\ s \in Sessions /\ call[i] \in CallSet /\ call \in [Slots -> CallSet]
      /\ GoodFile(file[s]) /\ Len(file[s]) \in Nat \ {0} /\ ver \in 1..Len(file[s])
  <2>1. s \in Sessions /\ call[i] \in CallSet /\ call \in [Slots -> CallSet] /\ ver <= Len(file[s])
    BY <1>1 DEF CallsInv, CallsOK, VersionsOK
  <2>2. GoodFile(file[s]) /\ Len(file[s]) \in Nat \ {0}
    BY <2>1, FileFacts
  <2>3. ver \in Nat
    BY <2>1 DEF CallSet
  <2> QED
    BY <2>1, <2>2, <2>3, <1>1
<1>7. file[s][ver] \in Seq(Chunks) /\ Len(file[s][ver]) >= 1
  BY <1>6 DEF GoodFile
<1>8. /\ new \in Seq(ItemSet) /\ Len(new) = Len(file[s][ver])
      /\ \A k \in 1..Len(file[s][ver]) : new[k] = <<s, file[s][ver][k]>>
  BY <1>6, <1>7, ItemsType
<1> HIDE DEF new
<1>9. new # <<>>
  BY <1>7, <1>8
<1>10. onView => s \in tabs
  BY <1>6, ViewAssumption DEF WindowInv
<1>11. /\ fileFp' \in [Sessions -> Nat]
       /\ fileFp'[s] = IF newest THEN ver ELSE fileFp[s]
       /\ \A t \in Sessions : fileFp'[t] <= Len(file[t])
       /\ \A t \in Sessions \ {s} : fileFp'[t] = fileFp[t]
  <2>1. fileFp \in [Sessions -> Nat] /\ \A t \in Sessions : fileFp[t] <= Len(file[t])
    BY DEF ShownInv
  <2>2. ver \in Nat /\ ver <= Len(file[s])
    BY <1>6
  <2> HIDE DEF s, ver, newest
  <2> QED
    BY <2>1, <2>2, <1>3, <1>6
<1>12. /\ view' \in [Sessions -> Nat]
       /\ view'[s] = IF onView THEN ver ELSE view[s]
       /\ \A t \in Sessions \ {s} : view'[t] = view[t]
       /\ \A t \in Sessions : view'[t] <= Len(file[t])
  <2>1. view \in [Sessions -> Nat] /\ \A t \in Sessions : view[t] <= Len(file[t])
    BY DEF ShownInv
  <2>2. ver \in Nat /\ ver <= Len(file[s])
    BY <1>6
  <2> HIDE DEF s, ver, onView
  <2>4. CASE onView
    BY <2>1, <2>2, <2>4, <1>4, <1>6
  <2>5. CASE ~onView
    BY <2>1, <2>5, <1>5
  <2> QED
    BY <2>4, <2>5
<1>13. /\ items' \in [Sessions -> Seq(ItemSet)]
       /\ items'[s] = IF onView THEN new ELSE items[s]
       /\ \A t \in Sessions \ {s} : items'[t] = items[t]
       /\ global' \in Seq(ItemSet)
  <2>1. items \in [Sessions -> Seq(ItemSet)] /\ global \in Seq(ItemSet)
    BY DEF ShownInv
  <2> HIDE DEF s, onView
  <2> QED
    BY <2>1, <1>4, <1>5, <1>6, <1>8
<1>14. /\ CallsOK(call', calls, fetchGen, refreshGen, inFlight, queued, outlived, tabs)
       /\ OneOK(call, inFlight, outlived) => OneOK(call', inFlight, outlived)
       /\ Returned(call, call', fetchGen, refreshGen, outlived, i)
  BY <1>1, RemoveFetch DEF CallsInv
<1>15. VersionsOK(call', file)
  BY <1>1, <1>6, RemovedVersions DEF CallsInv
<1>16. \A t \in Sessions : ~(newest /\ t = s) => Fetches(call', fetchGen, t) = Fetches(call, fetchGen, t)
  BY <1>14 DEF Returned, Fetched
<1>17. FileInv' /\ CallsInv' /\ OneInv'
  BY <1>2, <1>14, <1>15 DEF FileInv, CallsInv, OneInv
<1>18. WindowInv'
  <2>1. overtaken' \subseteq tabs
    BY <1>4, <1>5, <1>10 DEF WindowInv
  <2>2. crossed' \subseteq tabs
    BY <1>4, <1>5 DEF WindowInv
  <2>3. missed' \subseteq tabs
    BY <1>3 DEF WindowInv
  <2> QED
    BY <2>1, <2>2, <2>3, <1>2 DEF WindowInv
<1>19. ShownInv'
  <2>1. \A t \in Sessions : view'[t] = 0 <=> items'[t] = <<>>
    <3> TAKE t \in Sessions
    <3>1. view[t] = 0 <=> items[t] = <<>>
      BY DEF ShownInv
    <3>2. CASE t = s /\ onView
      BY <3>2, <1>1, <1>9, <1>12, <1>13
    <3>3. CASE ~(t = s /\ onView)
      BY <3>1, <3>3, <1>12, <1>13
    <3> QED
      BY <3>2, <3>3
  <2>2. \A t \in Sessions \ tabs : view'[t] = 0 /\ chunkFp'[t] = <<>>
    <3> TAKE t \in Sessions \ tabs
    <3>1. view[t] = 0 /\ chunkFp[t] = <<>>
      BY DEF ShownInv
    <3>2. ~(t = s /\ onView)
      BY <1>10
    <3> QED
      BY <3>1, <3>2, <1>2, <1>12
  <2>3. chunkFp' \in [Sessions -> {<<>>} \cup FingerprintSet]
    BY <1>2 DEF ShownInv
  <2> QED
    BY <2>1, <2>2, <2>3, <1>2, <1>11, <1>12, <1>13 DEF ShownInv
<1>20. FetchInv'
  <2> SUFFICES ASSUME selected # NoSession, view'[selected] = 0
               PROVE  Fetches(call', fetchGen, selected) # {}
    BY <1>2 DEF FetchInv
  <2>1. selected \in Sessions
    BY DEF WindowInv
  <2>2. ~onView
    BY <1>1, <1>12
  <2>3. view[selected] = 0
    BY <2>2, <1>5
  <2> QED
    BY <2>1, <2>2, <2>3, <1>16 DEF FetchInv
<1>21. SyncInv'
  <2> SUFFICES ASSUME NEW t \in tabs \ (missed' \cup overtaken') PROVE SyncedNow(t)'
    BY <1>2 DEF SyncInv
  <2> DEFINE A == Asks(call, refreshGen, outlived, t)
             F == Fetches(call, fetchGen, t)
             G == Fetches(call', fetchGen, t)
  <2>1. t \in tabs \ (missed \cup overtaken) /\ t \in Sessions
    BY <1>3, <1>4, <1>5 DEF WindowInv
  <2>2. Synced(file[t], view[t], fileFp[t], chunkFp[t], Waits(t), A, F)
    BY <2>1 DEF SyncInv, SyncedNow
  <2>3. Asks(call', refreshGen, outlived, t) = A
    BY <2>1, <1>14 DEF Returned
  <2>4. Waits(t)' = Waits(t)
    BY <1>2 DEF Waits
  <2>s. SUFFICES Synced(file[t], view'[t], fileFp'[t], chunkFp[t], Waits(t), A, G)
    BY <2>3, <2>4, <1>2 DEF SyncedNow
  <2>5. CASE ~(newest /\ t = s)
    <3>1. view'[t] = view[t] /\ fileFp'[t] = fileFp[t] /\ G = F
      BY <2>1, <2>5, <1>11, <1>12, <1>16
    <3> HIDE DEF A, F, G
    <3> QED
      BY <2>2, <3>1
  <2>6. CASE newest /\ t = s
    <3>1. selected = s
      BY <2>6, <1>3
    <3>2. view'[s] = ver /\ fileFp'[s] = ver /\ ~(ver < view[s])
      BY <2>6, <3>1, <1>4, <1>11, <1>12
    <3>3. view[s] \in 0..Len(file[s]) /\ view[s] <= call[i].ver /\ call[i].ver \in 1..Len(file[s])
      <4>1. view[s] \in Nat /\ view[s] <= Len(file[s])
        BY <1>6 DEF ShownInv
      <4> QED
        BY <4>1, <3>2, <1>6
    <3>4. call[i] \in F
      BY <2>6, <1>1 DEF Fetches, Fetched
    <3>5. Synced(file[s], view[s], fileFp[s], chunkFp[s], Waits(t), A, F)
      BY <2>2, <2>6
    <3> HIDE DEF A, F, G, s, newest, onView
    <3>6. Synced(file[s], call[i].ver, call[i].ver, chunkFp[s], Waits(t), A, G)
      BY <3>3, <3>4, <3>5, <1>6, SyncedFetched
    <3> QED
      BY <3>2, <3>6, <2>6
  <2> QED
    BY <2>5, <2>6
<1>22. OwnInv'
  <2> SUFFICES ASSUME NEW t \in tabs \ (overtaken' \cup crossed')
               PROVE  Own(file[t], view'[t], items'[t], t)
    BY <1>2 DEF OwnInv
  <2>1. t \in Sessions
    BY DEF WindowInv
  <2>2. CASE ~(t = s /\ onView)
    <3>1. t \in tabs \ (overtaken \cup crossed)
      BY <2>2, <1>4, <1>5
    <3>2. Own(file[t], view[t], items[t], t)
      BY <3>1 DEF OwnInv
    <3> QED
      BY <2>1, <2>2, <3>2, <1>12, <1>13
  <2>3. CASE t = s /\ onView
    <3>1. view'[s] = ver /\ items'[s] = new
      BY <2>3, <1>12, <1>13
    <3>2. Own(file[s], ver, new, s)
      BY <1>8 DEF Own
    <3> QED
      BY <2>3, <3>1, <3>2
  <2> QED
    BY <2>2, <2>3
<1> QED
  BY <1>17, <1>18, <1>19, <1>20, <1>21, <1>22

-----------------------------------------------------------------------------
(* The tabs. *)

\* What a session is known by does not change by fetches that start.
LEMMA FetchesKeepSynced ==
    ASSUME NEW t, SyncedNow(t),
           file'[t] = file[t], view'[t] = view[t], fileFp'[t] = fileFp[t], chunkFp'[t] = chunkFp[t],
           Waits(t)' <=> Waits(t),
           Asks(call', refreshGen', outlived', t) = Asks(call, refreshGen, outlived, t),
           \A c \in Fetches(call', fetchGen', t) : c \in Fetches(call, fetchGen, t) \/ c.ver = 0
    PROVE  SyncedNow(t)'
<1> DEFINE A == Asks(call, refreshGen, outlived, t)
           F == Fetches(call, fetchGen, t)
           G == Fetches(call', fetchGen', t)
<1>1. Synced(file[t], view[t], fileFp[t], chunkFp[t], Waits(t), A, F)
  BY DEF SyncedNow
<1>2. Waits(t)' = Waits(t)
  BY DEF Waits
<1> HIDE DEF A, F, G
<1>3. Synced(file[t], view[t], fileFp[t], chunkFp[t], Waits(t), A, G)
  BY <1>1, SyncedFetch DEF F, G
<1> QED
  BY <1>2, <1>3 DEF SyncedNow, A, G

\* A session that is just opened: nothing of it is shown or asked for yet.
LEMMA SyncedOpened ==
    ASSUME NEW h, NEW fp, NEW waits, NEW F, \A c \in F : c.ver = 0
    PROVE  Synced(h, 0, fp, <<>>, waits, {}, F)
BY DEF Synced

LEMMA SelectSessionKeepsInv ==
    ASSUME Inv, NEW s \in Sessions, SelectSession(s)
    PROVE  Inv'
<1> USE DEF Inv
<1>1. /\ tabs' = tabs \cup {s} /\ selected' = s
      /\ global' = IF s \in tabs \ {selected} /\ view[s] # 0 THEN items[s] ELSE global
      /\ StartFetch(s)
      /\ file' = file /\ event' = event /\ writes' = writes /\ timer' = timer
      /\ view' = view /\ items' = items /\ fileFp' = fileFp /\ chunkFp' = chunkFp
      /\ refreshGen' = refreshGen /\ inFlight' = inFlight /\ queued' = queued
      /\ missed' = missed /\ outlived' = outlived /\ overtaken' = overtaken /\ crossed' = crossed
      /\ closes' = closes /\ manuals' = manuals
  BY DEF SelectSession, coordination, history, env
<1>2. CallsOK(call, calls, fetchGen, refreshGen, inFlight, queued, outlived, tabs) /\ VersionsOK(call, file)
  BY DEF CallsInv
<1>3. CallsOK(call', calls', fetchGen', refreshGen, inFlight, queued, outlived, tabs \cup {s})
  BY <1>1, <1>2, StartsFetch
<1>4. /\ VersionsOK(call', file)
      /\ OneOK(call, inFlight, outlived) => OneOK(call', inFlight, outlived)
      /\ \A t \in Sessions : Asks(call', refreshGen, outlived, t) = Asks(call, refreshGen, outlived, t)
      /\ \A t \in Sessions : \A c \in Fetches(call', fetchGen', t) : c.ver = 0
      /\ Fetches(call', fetchGen', s) # {}
  BY <1>1, <1>2, <1>3, StartsFetch
<1>5. FileInv' /\ CallsInv' /\ OneInv' /\ FetchInv'
  BY <1>1, <1>3, <1>4 DEF FileInv, CallsInv, OneInv, FetchInv
<1>6. WindowInv'
  BY <1>1 DEF WindowInv
<1>7. ShownInv'
  <2>1. global' \in Seq(ItemSet)
    BY <1>1 DEF ShownInv
  <2> QED
    BY <2>1, <1>1 DEF ShownInv
<1>8. SyncInv'
  <2> SUFFICES ASSUME NEW t \in tabs' \ (missed \cup overtaken) PROVE SyncedNow(t)'
    BY <1>1 DEF SyncInv
  <2>1. CASE t \in tabs
    <3>1. SyncedNow(t) /\ t \in Sessions
      BY <2>1 DEF SyncInv, WindowInv
    <3>2. Waits(t)' <=> Waits(t)
      BY <1>1 DEF Waits
    <3> QED
      BY <3>1, <3>2, <1>1, <1>4, FetchesKeepSynced
  <2>2. CASE t \notin tabs
    <3>1. t \in Sessions /\ t = s
      BY <2>2, <1>1
    <3>2. view[t] = 0 /\ chunkFp[t] = <<>>
      BY <2>2, <3>1 DEF ShownInv
    <3>3. Asks(call', refreshGen, outlived, t) = {}
      <4>1. \A j \in Slots : ~Asked(call, refreshGen, outlived, j, t)
        BY <2>2, <1>2 DEF CallsOK, Asked
      <4>2. Asks(call, refreshGen, outlived, t) = {}
        BY <4>1 DEF Asks
      <4> QED
        BY <4>2, <3>1, <1>4
    <3>4. Synced(file[t], 0, fileFp[t], <<>>, Waits(t)', {}, Fetches(call', fetchGen', t))
      BY <3>1, <1>4, SyncedOpened
    <3> QED
      BY <3>2, <3>3, <3>4, <1>1 DEF SyncedNow
  <2> QED
    BY <2>1, <2>2
<1>9. OwnInv'
  <2> SUFFICES ASSUME NEW t \in tabs' \ (overtaken \cup crossed)
               PROVE  Own(file[t], view[t], items[t], t)
    BY <1>1 DEF OwnInv
  <2>1. CASE t \in tabs
    BY <2>1 DEF OwnInv
  <2>2. CASE t \notin tabs
    <3>1. view[t] = 0
      BY <2>2, <1>1 DEF ShownInv
    <3> QED
      BY <3>1 DEF Own
  <2> QED
    BY <2>1, <2>2
<1> QED
  BY <1>5, <1>6, <1>7, <1>8, <1>9

LEMMA SetActiveTabKeepsInv ==
    ASSUME Inv, NEW s \in Sessions, SetActiveTab(s)
    PROVE  Inv'
<1> USE DEF Inv
<1>1. /\ s \in tabs \ {selected} /\ FocusTab(s)
      /\ selected' = s /\ tabs' = tabs
      /\ global' = IF s # selected /\ view[s] # 0 THEN items[s] ELSE global
      /\ file' = file /\ event' = event /\ writes' = writes /\ timer' = timer
      /\ view' = view /\ items' = items /\ fileFp' = fileFp /\ chunkFp' = chunkFp
      /\ refreshGen' = refreshGen /\ inFlight' = inFlight /\ queued' = queued
      /\ missed' = missed /\ outlived' = outlived /\ overtaken' = overtaken /\ crossed' = crossed
      /\ closes' = closes /\ manuals' = manuals
  BY DEF SetActiveTab, FocusTab, coordination, history, env
<1>2. /\ CallsOK(call', calls', fetchGen', refreshGen, inFlight, queued, outlived, tabs)
      /\ VersionsOK(call', file)
      /\ OneOK(call, inFlight, outlived) => OneOK(call', inFlight, outlived)
      /\ \A t \in Sessions : Asks(call', refreshGen, outlived, t) = Asks(call, refreshGen, outlived, t)
      /\ \A t \in Sessions : \A c \in Fetches(call', fetchGen', t) :
            c \in Fetches(call, fetchGen, t) \/ c.ver = 0
      /\ view[s] = 0 => Fetches(call', fetchGen', s) # {}
  BY <1>1, ViewAssumption, Focuses DEF CallsInv
<1>3. FileInv' /\ CallsInv' /\ OneInv' /\ FetchInv' /\ OwnInv'
  BY <1>1, <1>2 DEF FileInv, CallsInv, OneInv, FetchInv, OwnInv
<1>4. WindowInv'
  BY <1>1 DEF WindowInv
<1>5. ShownInv'
  <2>1. global' \in Seq(ItemSet)
    BY <1>1 DEF ShownInv
  <2> QED
    BY <2>1, <1>1 DEF ShownInv
<1>6. SyncInv'
  <2> SUFFICES ASSUME NEW t \in tabs \ (missed \cup overtaken) PROVE SyncedNow(t)'
    BY <1>1 DEF SyncInv
  <2>1. SyncedNow(t) /\ t \in Sessions
    BY DEF SyncInv, WindowInv
  <2>2. Waits(t)' <=> Waits(t)
    BY <1>1 DEF Waits
  <2> QED
    BY <2>1, <2>2, <1>1, <1>2, FetchesKeepSynced
<1> QED
  BY <1>3, <1>4, <1>5, <1>6

LEMMA CloseTabKeepsInv ==
    ASSUME Inv, NEW s \in Sessions, CloseTab(s)
    PROVE  Inv'
<1> USE DEF Inv
<1>1. /\ s \in tabs /\ tabs' = tabs \ {s}
      /\ closes < MaxCloses /\ closes' = closes + 1
      /\ view' = [view EXCEPT ![s] = 0]
      /\ items' = [items EXCEPT ![s] = <<>>]
      /\ refreshGen' = NoGen(refreshGen, s)
      /\ inFlight' = inFlight \ {s} /\ queued' = queued \ {s}
      /\ fileFp' = [fileFp EXCEPT ![s] = 0]
      /\ chunkFp' = [chunkFp EXCEPT ![s] = <<>>]
      /\ outlived' = Outlive(call, outlived, s)
      /\ missed' = missed \ {s} /\ overtaken' = overtaken \ {s} /\ crossed' = crossed \ {s}
      /\ file' = file /\ event' = event /\ writes' = writes /\ timer' = timer /\ manuals' = manuals
  BY DEF CloseTab, RefreshesOf, NoGen, Outlive
<1>2. \/ tabs' = {} /\ selected' = NoSession /\ global' = <<>>
            /\ fetchGen' = fetchGen /\ call' = call /\ calls' = calls
      \/ \E t \in tabs' : FocusTab(t)
  <2>1. CASE tabs' = {}
    BY <2>1 DEF CloseTab, network
  <2>2. CASE tabs' # {}
    <3>1. PICK t \in (IF selected = s THEN tabs' ELSE {selected}) : FocusTab(t)
      BY <2>2 DEF CloseTab
    <3>2. t \in tabs'
      BY <3>1, <1>1 DEF WindowInv
    <3> QED
      BY <3>1, <3>2
  <2> QED
    BY <2>1, <2>2
<1>3. /\ CallsOK(call, calls, fetchGen, refreshGen', inFlight', queued', outlived', tabs')
      /\ \A t \in Sessions \ {s} : Asks(call, refreshGen', outlived', t) = Asks(call, refreshGen, outlived, t)
  <2>1. CallsOK(call, calls, fetchGen, refreshGen, inFlight, queued, outlived, tabs)
    BY DEF CallsInv
  <2>2. CallsOK(call, calls, fetchGen, refreshGen', inFlight \ {s}, queued \ {s}, outlived', tabs \ {s})
    BY <2>1, <1>1, CloseCalls
  <2>3. \A t \in Sessions \ {s} : Asks(call, refreshGen', outlived', t) = Asks(call, refreshGen, outlived, t)
    BY <2>1, <2>2, <1>1, CloseCalls
  <2> QED
    BY <2>2, <2>3, <1>1
<1>4. /\ CallsOK(call', calls', fetchGen', refreshGen', inFlight', queued', outlived', tabs')
      /\ VersionsOK(call', file)
      /\ \A t \in Sessions : Asks(call', refreshGen', outlived', t) = Asks(call, refreshGen', outlived', t)
      /\ \A t \in Sessions : \A c \in Fetches(call', fetchGen', t) :
            c \in Fetches(call, fetchGen, t) \/ c.ver = 0
      /\ global' \in Seq(ItemSet)
      /\ selected' \in IF tabs' = {} THEN {NoSession} ELSE tabs'
      /\ FetchInv'
  <2>1. CASE tabs' = {} /\ selected' = NoSession /\ global' = <<>>
                 /\ fetchGen' = fetchGen /\ call' = call /\ calls' = calls
    <3>1. <<>> \in Seq(ItemSet)
      OBVIOUS
    <3> QED
      BY <2>1, <3>1, <1>3 DEF CallsInv, FetchInv
  <2>2. CASE \E t \in tabs' : FocusTab(t)
    <3>1. PICK t \in tabs' : FocusTab(t)
      BY <2>2
    <3>2. t \in Sessions /\ t # s
      BY <1>1 DEF WindowInv
    <3>3. VersionsOK(call, file)
      BY DEF CallsInv
    <3>4. CallsOK(call', calls', fetchGen', refreshGen', inFlight', queued', outlived', tabs')
      BY <3>1, <3>2, <3>3, <1>3, ViewAssumption, Focuses
    <3>5. VersionsOK(call', file)
      BY <3>1, <3>2, <3>3, <1>3, ViewAssumption, Focuses
    <3>6. \A u \in Sessions : Asks(call', refreshGen', outlived', u) = Asks(call, refreshGen', outlived', u)
      BY <3>1, <3>2, <3>3, <3>4, <1>3, ViewAssumption, Focuses
    <3>7. \A u \in Sessions : \A c \in Fetches(call', fetchGen', u) :
              c \in Fetches(call, fetchGen, u) \/ c.ver = 0
      BY <3>1, <3>2, <3>3, <3>4, <1>3, ViewAssumption, Focuses
    <3>8. view[t] = 0 => Fetches(call', fetchGen', t) # {}
      BY <3>1, <3>2, <3>3, <3>4, <1>3, ViewAssumption, Focuses
    <3>9. selected' = t /\ global' \in Seq(ItemSet)
      BY <3>1, <3>2 DEF FocusTab, ShownInv
    <3>10. view'[t] = view[t]
      BY <3>2, <1>1 DEF ShownInv
    <3>11. FetchInv'
      BY <3>8, <3>9, <3>10 DEF FetchInv
    <3>12. selected' \in IF tabs' = {} THEN {NoSession} ELSE tabs'
      BY <3>1, <3>9
    <3> QED
      BY <3>4, <3>5, <3>6, <3>7, <3>9, <3>11, <3>12
  <2> QED
    BY <2>1, <2>2, <1>2
<1>5. FileInv' /\ CallsInv'
  BY <1>1, <1>4 DEF FileInv, CallsInv
<1>6. closes' \in 1..MaxCloses
  BY <1>1, ViewAssumption DEF WindowInv
<1>7. OneInv'
  BY <1>6 DEF OneInv
<1>8. WindowInv'
  <2>1. closes' \in 0..MaxCloses
    BY <1>6, ViewAssumption
  <2>2. tabs' \subseteq Sessions /\ missed' \subseteq tabs' /\ overtaken' \subseteq tabs' /\ crossed' \subseteq tabs'
    BY <1>1 DEF WindowInv
  <2> QED
    BY <2>1, <2>2, <1>1, <1>4 DEF WindowInv
<1>9. /\ \A t \in Sessions \ {s} : /\ view'[t] = view[t] /\ items'[t] = items[t]
                                   /\ fileFp'[t] = fileFp[t] /\ chunkFp'[t] = chunkFp[t]
      /\ view'[s] = 0 /\ items'[s] = <<>> /\ fileFp'[s] = 0 /\ chunkFp'[s] = <<>>
      /\ view' \in [Sessions -> Nat]
      /\ fileFp' \in [Sessions -> Nat]
      /\ chunkFp' \in [Sessions -> {<<>>} \cup FingerprintSet]
  BY <1>1 DEF ShownInv
<1>10. items' \in [Sessions -> Seq(ItemSet)]
  <2>1. <<>> \in Seq(ItemSet)
    OBVIOUS
  <2> QED
    BY <2>1, <1>1 DEF ShownInv
<1>11. ShownInv'
  <2>1. \A t \in Sessions : view'[t] <= Len(file[t]) /\ fileFp'[t] <= Len(file[t])
    <3> TAKE t \in Sessions
    <3>1. Len(file[t]) \in Nat /\ view[t] <= Len(file[t]) /\ fileFp[t] <= Len(file[t])
      BY FileFacts DEF ShownInv
    <3> QED
      BY <3>1, <1>9
  <2>2. \A t \in Sessions : view'[t] = 0 <=> items'[t] = <<>>
    BY <1>9 DEF ShownInv
  <2>3. \A t \in Sessions \ tabs' : view'[t] = 0 /\ chunkFp'[t] = <<>>
    BY <1>1, <1>9 DEF ShownInv
  <2> QED
    BY <2>1, <2>2, <2>3, <1>1, <1>4, <1>9, <1>10 DEF ShownInv
<1>12. SyncInv'
  <2> SUFFICES ASSUME NEW t \in tabs' \ (missed' \cup overtaken') PROVE SyncedNow(t)'
    BY DEF SyncInv
  <2>1. t \in Sessions \ {s} /\ SyncedNow(t)
    BY <1>1 DEF SyncInv, WindowInv
  <2>2. Waits(t)' <=> Waits(t)
    BY <2>1, <1>1 DEF Waits
  <2>3. Asks(call', refreshGen', outlived', t) = Asks(call, refreshGen, outlived, t)
    BY <2>1, <1>3, <1>4
  <2>4. \A c \in Fetches(call', fetchGen', t) : c \in Fetches(call, fetchGen, t) \/ c.ver = 0
    BY <2>1, <1>4
  <2>5. file'[t] = file[t] /\ view'[t] = view[t] /\ fileFp'[t] = fileFp[t] /\ chunkFp'[t] = chunkFp[t]
    BY <2>1, <1>1, <1>9
  <2> QED
    BY <2>1, <2>2, <2>3, <2>4, <2>5, FetchesKeepSynced
<1>13. OwnInv'
  <2> SUFFICES ASSUME NEW t \in tabs' \ (overtaken' \cup crossed')
               PROVE  Own(file[t], view'[t], items'[t], t)
    BY <1>1 DEF OwnInv
  <2>1. t \in Sessions \ {s} /\ Own(file[t], view[t], items[t], t)
    BY <1>1 DEF OwnInv, WindowInv
  <2> QED
    BY <2>1, <1>9
<1> QED
  BY <1>4, <1>5, <1>7, <1>8, <1>11, <1>12, <1>13

-----------------------------------------------------------------------------
(* The theorems. *)

LEMMA FirstFile ==
    ASSUME NEW h, h = <<[i \in 1..FirstChunks |-> Chunk(1)]>>
    PROVE  GoodFile(h) /\ Len(h) = 1
<1> DEFINE first == [i \in 1..FirstChunks |-> Chunk(1)]
<1>1. FirstChunks \in Nat \ {0} /\ Chunk(1) \in Chunks /\ Chunk(1).end = 1 /\ Chunk(1).rev = 0
  BY ViewAssumption DEF Chunk, Chunks
<1>2. first \in Seq(Chunks) /\ Len(first) = FirstChunks /\ \A k \in 1..FirstChunks : first[k] = Chunk(1)
  BY <1>1
<1>3. h = <<first>>
  OBVIOUS
<1> HIDE DEF first
<1>4. h \in Seq(Seq(Chunks)) /\ Len(h) = 1 /\ h[1] = first
  BY <1>2, <1>3
<1>5. \A v \in 1..Len(h) : v = 1
  BY <1>4
<1>6. \A v \in 1..Len(h) : Len(h[v]) >= 1
  BY <1>1, <1>2, <1>4, <1>5
<1>7. \A v \in 1..Len(h) : \A k \in 1..Len(h[v]) : h[v][k].end \in 1..v /\ h[v][k].rev \in 0..v
  BY <1>1, <1>2, <1>4, <1>5
<1>8. \A v, w \in 1..Len(h) : v <= w => Keeps(h, v, w)
  <2>1. Keeps(h, 1, 1)
    BY <1>2, <1>4, <1>1 DEF Keeps
  <2> QED
    BY <2>1, <1>5
<1>9. \A v, w \in 1..Len(h) : v <= w /\ UpToDate(h, v) => UpToDate(h, w)
  BY <1>5
<1>10. Len(h) >= 1
  BY <1>4
<1> QED
  BY ONLY <1>4, <1>6, <1>7, <1>8, <1>9, <1>10 DEF GoodFile

LEMMA InitInv == Init => Inv
<1> SUFFICES ASSUME Init PROVE Inv
  OBVIOUS
<1>1. \A s \in Sessions : GoodFile(file[s]) /\ Len(file[s]) = 1
  BY FirstFile DEF Init
<1>2. FileInv
  <2>1. file \in [Sessions -> Seq(Seq(Chunks))]
    <3>1. \A s \in Sessions : file[s] \in Seq(Seq(Chunks))
      BY <1>1 DEF GoodFile
    <3> QED
      BY <3>1 DEF Init
  <2>2. writes = 0 /\ writes \in 0..MaxWrites
    BY ViewAssumption DEF Init
  <2>3. ASSUME NEW s \in Sessions PROVE Len(file[s]) <= writes + 1
    <3>1. Len(file[s]) = 1 /\ writes = 0
      BY <2>2, <1>1
    <3> QED
      BY <3>1
  <2> QED
    BY <2>1, <2>2, <2>3, <1>1 DEF FileInv
<1>3. WindowInv
  BY ViewAssumption DEF WindowInv, Init
<1>4. <<>> \in Seq(ItemSet)
  OBVIOUS
<1>5. ShownInv
  BY <1>1, <1>4 DEF ShownInv, Init
<1>6. \A i \in Slots : call[i] = NoCall /\ call[i].kind = "none"
  BY NoCallType DEF Init, Slots
<1>7. CallsInv
  <2>1. call \in [Slots -> CallSet]
    BY NoCallType DEF Init, Slots
  <2>2. CallsOK(call, calls, fetchGen, refreshGen, inFlight, queued, outlived, tabs)
    BY <2>1, <1>6, ViewAssumption DEF CallsOK, Init
  <2>3. VersionsOK(call, file)
    BY <1>6 DEF VersionsOK
  <2> QED
    BY <2>2, <2>3 DEF CallsInv
<1>8. OneInv
  BY <1>6 DEF OneInv, OneOK, Init
<1>9. FetchInv /\ SyncInv /\ OwnInv
  BY DEF FetchInv, SyncInv, OwnInv, Init
<1> QED
  BY <1>2, <1>3, <1>5, <1>7, <1>8, <1>9 DEF Inv

LEMMA NextInv == Inv /\ [Next]_vars => Inv'
<1> SUFFICES ASSUME Inv, [Next]_vars PROVE Inv'
  OBVIOUS
<1>1. ASSUME NEW s \in Sessions, Write(s) PROVE Inv'
  BY <1>1, WriteKeepsInv
<1>2. ASSUME NEW s \in Sessions, Deliver(s) PROVE Inv'
  BY <1>2, DeliverKeepsInv
<1>3. ASSUME NEW s \in Sessions, TimerFires(s) PROVE Inv'
  BY <1>3, TimerFiresKeepsInv
<1>4. ASSUME NEW s \in Sessions, SelectSession(s) PROVE Inv'
  BY <1>4, SelectSessionKeepsInv
<1>5. ASSUME NEW s \in Sessions, SetActiveTab(s) PROVE Inv'
  BY <1>5, SetActiveTabKeepsInv
<1>6. ASSUME NEW s \in Sessions, CloseTab(s) PROVE Inv'
  BY <1>6, CloseTabKeepsInv
<1>7. CASE ManualRefresh
  BY <1>7, ManualRefreshKeepsInv
<1>8. ASSUME NEW i \in 1..MaxCalls, Answer(i) PROVE Inv'
  BY <1>8, AnswerKeepsInv DEF Slots
<1>9. ASSUME NEW i \in 1..MaxCalls, RefreshReturns(i) PROVE Inv'
  BY <1>9, RefreshReturnsKeepsInv DEF Slots
<1>10. ASSUME NEW i \in 1..MaxCalls, FetchReturns(i) PROVE Inv'
  BY <1>10, FetchReturnsKeepsInv DEF Slots
<1>11. CASE UNCHANGED vars
  <2>1. /\ UNCHANGED <<file, event, timer, tabs, selected, view, items, global, fetchGen>>
        /\ UNCHANGED <<refreshGen, inFlight, queued, fileFp, chunkFp, call, calls>>
        /\ UNCHANGED <<missed, outlived, overtaken, crossed, writes, closes, manuals>>
    BY <1>11 DEF vars, shown, coordination, network, history, env
  <2>2. FileInv' /\ WindowInv' /\ ShownInv'
    BY <2>1 DEF Inv, FileInv, WindowInv, ShownInv
  <2>3. CallsInv' /\ OneInv' /\ FetchInv' /\ OwnInv'
    BY <2>1 DEF Inv, CallsInv, OneInv, FetchInv, OwnInv
  <2>4. SyncInv'
    BY <2>1 DEF Inv, SyncInv, SyncedNow, Waits
  <2> QED
    BY <2>2, <2>3, <2>4 DEF Inv
<1> QED
  BY <1>1, <1>2, <1>3, <1>4, <1>5, <1>6, <1>7, <1>8, <1>9, <1>10, <1>11 DEF Next

LEMMA InvHolds == Spec => []Inv
BY InitInv, NextInv, PTL DEF Spec

LEMMA ChunksTyped ==
    ASSUME FileInv, NEW s \in Sessions
    PROVE  /\ Latest(s) \in 1..(MaxWrites + 1)
           /\ \A v \in DOMAIN file[s], c \in UNION {Range(file[s][w]) : w \in DOMAIN file[s]} :
                 file[s][v] # <<>> /\ c \in [end : 1..(MaxWrites + 1), rev : Versions]
<1>1. GoodFile(file[s]) /\ Len(file[s]) \in Nat \ {0} /\ file[s] \in Seq(Seq(Chunks))
  BY FileFacts DEF FileInv
<1>2. MaxWrites \in Nat /\ writes \in 0..MaxWrites /\ Len(file[s]) <= writes + 1
  BY ViewAssumption DEF FileInv
<1>3. Len(file[s]) \in 1..(MaxWrites + 1) /\ DOMAIN file[s] = 1..Len(file[s])
  BY <1>1, <1>2
<1>4. ASSUME NEW v \in DOMAIN file[s] PROVE file[s][v] # <<>>
  BY <1>1, <1>3, <1>4 DEF GoodFile
<1>5. ASSUME NEW w \in DOMAIN file[s], NEW c \in Range(file[s][w])
      PROVE  c \in [end : 1..(MaxWrites + 1), rev : Versions]
  <2>1. w \in 1..Len(file[s]) /\ file[s][w] \in Seq(Chunks)
    BY <1>1, <1>3
  <2>2. PICK k \in 1..Len(file[s][w]) : c = file[s][w][k]
    BY <2>1 DEF Range
  <2>3. c \in Chunks
    BY <2>1, <2>2
  <2>4. c.end \in 1..w /\ c.rev \in 0..w
    BY <2>1, <2>2, <1>1 DEF GoodFile
  <2>5. w \in Nat /\ w <= MaxWrites + 1
    BY <2>1, <1>2, <1>3
  <2>6. c.end \in 1..(MaxWrites + 1) /\ c.rev \in Versions
    BY <2>4, <2>5, <1>2 DEF Versions
  <2> QED
    BY <2>3, <2>6 DEF Chunks
<1> QED
  BY <1>3, <1>4, <1>5 DEF Latest

LEMMA InvTyped == Inv => TypeOK
<1> SUFFICES ASSUME Inv PROVE TypeOK
  OBVIOUS
<1> USE DEF Inv
<1>1. \A s \in Sessions : /\ Latest(s) \in 1..(MaxWrites + 1)
                          /\ \A v \in DOMAIN file[s], c \in UNION {Range(file[s][w]) : w \in DOMAIN file[s]} :
                                file[s][v] # <<>> /\ c \in [end : 1..(MaxWrites + 1), rev : Versions]
  BY ChunksTyped
<1>2. \A s \in Sessions : view[s] \in 0..Latest(s) /\ (view[s] = 0 <=> items[s] = <<>>)
  BY FileFacts DEF ShownInv, Latest
<1>3. fileFp \in [Sessions -> Versions]
  <2>1. \A s \in Sessions : fileFp[s] \in Versions
    <3> TAKE s \in Sessions
    <3>1. fileFp[s] \in Nat /\ fileFp[s] <= Latest(s) /\ Latest(s) \in 1..(MaxWrites + 1)
      BY <1>1 DEF ShownInv, Latest
    <3> QED
      BY <3>1, ViewAssumption DEF Versions
  <2> QED
    BY <2>1 DEF ShownInv
<1>4. /\ fetchGen \in 0..MaxCalls
      /\ refreshGen \in [Sessions -> 0..MaxCalls]
      /\ calls \in 0..MaxCalls
      /\ outlived \subseteq 1..MaxCalls
      /\ inFlight \subseteq Sessions
      /\ queued \subseteq Sessions
  <2>1. /\ calls \in 0..MaxCalls /\ fetchGen \in 0..calls /\ refreshGen \in [Sessions -> 0..calls]
        /\ outlived \subseteq 1..calls
    BY DEF CallsInv, CallsOK
  <2>2. inFlight \subseteq tabs /\ queued \subseteq inFlight /\ tabs \subseteq Sessions
    BY DEF CallsInv, CallsOK
  <2>3. 0..calls \subseteq 0..MaxCalls /\ 1..calls \subseteq 1..MaxCalls
    BY <2>1, ViewAssumption
  <2> QED
    BY <2>1, <2>2, <2>3
<1>5. call \in [1..MaxCalls -> [kind : {"none", "fetch", "refresh"}, sess : Sessions \cup {NoSession},
                                 gen : 0..MaxCalls, known : Versions, ver : Versions]]
  <2>1. ASSUME NEW i \in Slots
        PROVE  call[i].known \in Versions /\ call[i].ver \in Versions
    <3>1. call[i] \in CallSet /\ call[i].known \in Nat /\ call[i].ver \in Nat
      BY DEF CallsInv, CallsOK, CallSet
    <3>2. CASE call[i].kind = "none"
      BY <3>2, ViewAssumption DEF CallsInv, VersionsOK, NoCall, Versions
    <3>3. CASE call[i].kind # "none"
      <4>1. call[i].sess \in Sessions /\ call[i].known <= Latest(call[i].sess) /\ call[i].ver <= Latest(call[i].sess)
        BY <3>3 DEF CallsInv, CallsOK, VersionsOK, Latest
      <4>2. Latest(call[i].sess) \in 1..(MaxWrites + 1)
        BY <4>1, <1>1
      <4> QED
        BY <4>1, <4>2, <3>1, ViewAssumption DEF Versions
    <3> QED
      BY <3>2, <3>3
  <2>2. call \in [Slots -> CallSet]
    BY DEF CallsInv, CallsOK
  <2> QED
    BY <2>1, <2>2 DEF CallSet, Slots
<1>6. /\ event \subseteq Sessions
      /\ timer \subseteq Sessions
      /\ tabs \subseteq Sessions
      /\ selected \in IF tabs = {} THEN {NoSession} ELSE tabs
      /\ missed \subseteq tabs
      /\ overtaken \subseteq tabs
      /\ crossed \subseteq tabs
      /\ writes \in 0..MaxWrites
      /\ closes \in 0..MaxCloses
      /\ manuals \in 0..MaxManual
  BY DEF WindowInv, FileInv
<1> HIDE DEF Inv
<1> QED
  BY ONLY <1>1, <1>2, <1>3, <1>4, <1>5, <1>6 DEF TypeOK

(* The maps that coordinate the refreshes agree with the calls under way,   *)
(* however many sessions, writes, calls, closed tabs and manual refreshes   *)
(* there are: a queued refresh waits for one that is under way, and until a *)
(* tab is closed no session has two.                                        *)
THEOREM RefreshesExact == Spec => []RefreshesAreExact
<1>1. Inv => TypeOK
  BY InvTyped
<1>2. Inv => QueuedBehindInFlight
  BY DEF Inv, CallsInv, CallsOK, QueuedBehindInFlight
<1>3. Inv => InFlightIsExact
  <2> SUFFICES ASSUME Inv, closes = 0, NEW s \in Sessions
               PROVE  Cardinality(RefreshesOf(s)) = IF s \in inFlight THEN 1 ELSE 0
    BY DEF InFlightIsExact
  <2>1. OneOK(call, inFlight, outlived)
    BY DEF Inv, OneInv
  <2>2. CASE s \in inFlight
    <3>1. PICK i \in Slots : Asked(call, refreshGen, outlived, i, s)
      BY <2>2 DEF Inv, CallsInv, CallsOK
    <3>2. i \in RefreshesOf(s)
      BY <3>1 DEF Asked, RefreshesOf, Slots
    <3>3. \A j \in RefreshesOf(s) : j = i
      BY <3>2, <2>1 DEF RefreshesOf, OneOK, Slots
    <3>4. RefreshesOf(s) = {i}
      BY <3>2, <3>3
    <3> QED
      BY <3>4, <2>2, FS_Singleton
  <2>3. CASE s \notin inFlight
    <3>1. RefreshesOf(s) = {}
      BY <2>1, <2>3 DEF RefreshesOf, OneOK, Slots
    <3> QED
      BY <3>1, <2>3, FS_EmptySet
  <2> QED
    BY <2>2, <2>3
<1> QED
  BY <1>1, <1>2, <1>3, InvHolds, PTL DEF RefreshesAreExact

(* When nothing goes on any more, what the active tab shows is what the     *)
(* newest version of its session's file holds: an event, a queued refresh   *)
(* or a call under way would have been missing.                             *)
THEOREM RestIsCurrent == Spec => []AtRestCurrent
<1>1. Inv => AtRestCurrent
  <2> SUFFICES ASSUME Inv, Rest, selected \notin {NoSession} \cup missed \cup overtaken \cup crossed
               PROVE  LET now == Last(file[selected])
                      IN  /\ Len(items[selected]) = Len(now)
                          /\ \A i \in DOMAIN now : now[i].rev = 0 => items[selected][i] = <<selected, now[i]>>
    BY DEF AtRestCurrent
  <2>1. ASSUME NEW s, s = selected
        PROVE  LET now == Last(file[s])
               IN  /\ Len(items[s]) = Len(now)
                   /\ \A i \in DOMAIN now : now[i].rev = 0 => items[s][i] = <<s, now[i]>>
    <3>1. s \in tabs \ (missed \cup overtaken) /\ s \notin crossed /\ tabs \subseteq Sessions
      BY <2>1 DEF Inv, WindowInv
    <3>2. \A i \in Slots : call[i].kind = "none"
      BY DEF Rest, Slots
    <3>3. Asks(call, refreshGen, outlived, s) = {} /\ Fetches(call, fetchGen, s) = {}
      BY <3>2 DEF Asks, Asked, Fetches, Fetched
    <3>4. inFlight = {} /\ queued = {}
      BY <3>2 DEF Inv, CallsInv, CallsOK, Asked
    <3>5. ~Waits(s)
      BY <3>4 DEF Rest, Waits
    <3>6. view[s] # 0
      BY <3>3, <2>1 DEF Inv, FetchInv
    <3>7. SyncedNow(s)
      BY <3>1 DEF Inv, SyncInv
    <3>8. UpToDate(file[s], view[s])
      BY <3>3, <3>5, <3>6, <3>7 DEF SyncedNow, Synced
    <3>9. Own(file[s], view[s], items[s], s)
      BY <3>1 DEF Inv, OwnInv
    <3>10. GoodFile(file[s])
      BY <3>1 DEF Inv, FileInv
    <3>11. file[s] \in Seq(Seq(Chunks)) /\ Len(file[s]) \in 1..Len(file[s])
      BY <3>10 DEF GoodFile
    <3>12. Last(file[s]) = file[s][Len(file[s])] /\ DOMAIN Last(file[s]) = 1..Len(Last(file[s]))
      BY <3>11 DEF Last
    <3> QED
      BY <3>6, <3>8, <3>9, <3>10, <3>12, OwnUpToDate
  <2> QED
    BY <2>1
<1> QED
  BY <1>1, InvHolds, PTL
=============================================================================
