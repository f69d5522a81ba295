----------------------------- MODULE SessionView -----------------------------
(***************************************************************************)
(* What the window shows of the sessions it has open: the store's          *)
(* fetchSessionDetail and refreshSessionInPlace, the file-change listener  *)
(* that schedules refreshes, and the tabs.                                 *)
(*                                                                         *)
(* The store runs one callback at a time and the calls to the backend are  *)
(* answered in any order.  An answer is the version that the file has at   *)
(* some moment of the call, or "unchanged" if that is the known one:       *)
(* SessionDetail has the backend's side.  A version is a list of chunks, of *)
(* which the last may be extended, all may be reworked (by a subagent that  *)
(* goes on), and new ones come at the end.  What is rendered is a list of   *)
(* items, one for each chunk.  One pane; a tab is named by its session.     *)
(***************************************************************************)
EXTENDS Naturals, FiniteSets, Sequences, SequencesExt

CONSTANTS Sessions,
          NoSession,   \* nothing is selected
          FirstChunks, \* how many chunks a session has at first
          MaxWrites,   \* bound: writes to the session files
          MaxCalls,    \* bound: calls to the backend
          MaxCloses,   \* bound: tabs closed
          MaxManual,   \* bound: refreshes the user asks for
          MaxActs      \* bound: all of these together

ASSUME ViewAssumption ==
    /\ NoSession \notin Sessions
    /\ FirstChunks \in Nat \ {0}
    /\ MaxWrites \in Nat
    /\ MaxCalls \in Nat
    /\ MaxCloses \in Nat
    /\ MaxManual \in Nat
    /\ MaxActs \in Nat

VARIABLES file,       \* the versions of each session's file so far
          event,      \* sessions with a change event on its way to the window
          timer,      \* pendingSessionRefreshTimers
          tabs,       \* the sessions open in tabs
          selected,   \* selectedSessionId, the session of the active tab
          view,       \* the version in each tab's data, 0 for none
          items,      \* the items of the conversation in each tab's data
          global,     \* the items of the store's own conversation
          fetchGen,   \* sessionDetailFetchGeneration
          refreshGen, \* sessionRefreshGeneration, 0 for no entry
          inFlight,   \* sessionRefreshInFlight
          queued,     \* sessionRefreshQueued
          fileFp,     \* sessionFileFingerprint, 0 for no entry
          chunkFp,    \* sessionChunkFingerprint, <<>> for no entry
          call,       \* the calls to getSessionDetail
          calls,      \* how many have been made
          missed,     \* sessions with an event or an answer ignored while their tab was hidden
          outlived,   \* refreshes under way when the tab of their session was closed
          overtaken,  \* sessions for which an answer replaced a newer one, or one of
                      \* a refresh that outlived a tab was taken for the next tab's
          crossed,    \* sessions whose items were added to those of another conversation
          writes,
          closes,
          manuals

coordination == <<refreshGen, inFlight, queued, fileFp, chunkFp>>
network == <<call, calls>>
shown == <<view, items, global>>
history == <<missed, outlived, overtaken, crossed>>
env == <<writes, closes, manuals>>
vars == <<file, event, timer, tabs, selected, shown, fetchGen, coordination, network,
          history, env>>

Versions == 0..(MaxWrites + 1)
NoCall == [kind |-> "none", sess |-> NoSession, gen |-> 0, known |-> 0, ver |-> 0]
Bounded == writes + calls + closes + manuals < MaxActs

Viewing(s) == selected = s \/ s \in tabs
Latest(s) == Len(file[s])

\* end is what tells an extended chunk apart, rev one that was reworked.
Chunk(end) == [end |-> end, rev |-> 0]

\* transformChunksToConversation: one item for every chunk.
Items(s, ver) == [i \in DOMAIN file[s][ver] |-> <<s, file[s][ver][i]>>]

\* The count of the chunks and the end of the last one.
Fingerprint(s, ver) == <<Len(file[s][ver]), Last(file[s][ver]).end>>

\* Mutant: all the items there are stay.
IncrementalUpdateKeepsLast(prev, new) ==
    IF prev = <<>> \/ Len(new) < Len(prev) THEN new
    ELSE prev \o SubSeq(new, Len(prev) + 1, Len(new))

\* incrementalUpdateConversation: all items there are but the last stay, and
\* those of the other chunks are made.
IncrementalUpdate(prev, new) ==
    IF prev = <<>> \/ Len(new) < Len(prev) THEN new
    ELSE Front(prev) \o SubSeq(new, Len(prev), Len(new))

\* Nothing goes on in the window or on its way to it.
Rest ==
    /\ event = {}
    /\ timer = {}
    /\ \A i \in 1..MaxCalls : call[i].kind = "none"

-----------------------------------------------------------------------------
Init ==
    /\ file = [s \in Sessions |-> <<[i \in 1..FirstChunks |-> Chunk(1)]>>]
    /\ event = {}
    /\ timer = {}
    /\ tabs = {}
    /\ selected = NoSession
    /\ view = [s \in Sessions |-> 0]
    /\ items = [s \in Sessions |-> <<>>]
    /\ global = <<>>
    /\ fetchGen = 0
    /\ refreshGen = [s \in Sessions |-> 0]
    /\ inFlight = {}
    /\ queued = {}
    /\ fileFp = [s \in Sessions |-> 0]
    /\ chunkFp = [s \in Sessions |-> <<>>]
    /\ call = [i \in 1..MaxCalls |-> NoCall]
    /\ calls = 0
    /\ missed = {}
    /\ outlived = {}
    /\ overtaken = {}
    /\ crossed = {}
    /\ writes = 0
    /\ closes = 0
    /\ manuals = 0

Write(s) ==
    /\ writes < MaxWrites /\ Bounded
    /\ LET now == Last(file[s])
           ver == Latest(s) + 1
       IN  \E next \in {Append(now, Chunk(ver)), [now EXCEPT ![Len(now)] = Chunk(ver)]}
                       \cup {[now EXCEPT ![i].rev = ver] : i \in DOMAIN now} :
               file' = [file EXCEPT ![s] = Append(@, next)]
    /\ event' = event \cup {s}
    /\ writes' = writes + 1
    /\ UNCHANGED <<timer, tabs, selected, shown, fetchGen, coordination, network,
                   history, closes, manuals>>

\* The backend answers a call.
Answer(i) ==
    /\ call[i].kind # "none"
    /\ call[i].ver = 0
    /\ call' = [call EXCEPT ![i].ver = Latest(call[i].sess)]
    /\ UNCHANGED <<file, event, timer, tabs, selected, shown, fetchGen, coordination, calls,
                   history, env>>

(* The file-change event reaches the window: a visible session is refreshed *)
(* when the timer fires, one timer per session.                             *)
Deliver(s) ==
    /\ s \in event
    /\ event' = event \ {s}
    /\ timer' = IF selected = s THEN timer \cup {s} ELSE timer
    /\ missed' = IF selected # s /\ s \in tabs THEN missed \cup {s} ELSE missed
    /\ UNCHANGED <<file, tabs, selected, shown, fetchGen, coordination, network, outlived,
                   overtaken, crossed, env>>

-----------------------------------------------------------------------------
\* The calls after a new one, i, to the backend.
Sent(cs, i, c) == calls < MaxCalls /\ Bounded /\ calls' = calls + 1 /\ call' = [cs EXCEPT ![i] = c]

(* refreshSessionInPlace up to its await, on the sets flying and waiting.   *)
StartRefresh(s, cs, flying, waiting, known) ==
    IF s \in flying
    THEN /\ queued' = waiting \cup {s}
         /\ inFlight' = flying
         /\ call' = cs
         /\ UNCHANGED <<refreshGen, calls>>
    ELSE /\ refreshGen' = [refreshGen EXCEPT ![s] = @ + 1]
         /\ inFlight' = flying \cup {s}
         /\ queued' = waiting
         /\ Sent(cs, calls + 1, [kind |-> "refresh", sess |-> s, gen |-> refreshGen[s] + 1,
                                 known |-> known, ver |-> 0])

Refresh(s) ==
    IF Viewing(s)
    THEN StartRefresh(s, call, inFlight, queued, fileFp[s]) /\ UNCHANGED <<fileFp, chunkFp>>
    ELSE UNCHANGED <<coordination, network>>

TimerFires(s) ==
    /\ s \in timer
    /\ timer' = timer \ {s}
    /\ Refresh(s)
    /\ UNCHANGED <<file, event, tabs, selected, shown, fetchGen, history, env>>

\* Ctrl+R, or the tab bar's button.
ManualRefresh ==
    /\ selected # NoSession
    /\ manuals < MaxManual /\ Bounded
    /\ manuals' = manuals + 1
    /\ Refresh(selected)
    /\ UNCHANGED <<file, event, timer, tabs, selected, shown, fetchGen, history, writes, closes>>

(* The finally block: the queued refresh starts, unless the tab was closed. *)
Finally(s, cs, known) ==
    LET flying == inFlight \ {s} IN
    IF s \in queued /\ refreshGen[s] # 0 /\ Viewing(s)
    THEN StartRefresh(s, cs, flying, queued \ {s}, known)
    ELSE /\ inFlight' = flying
         /\ queued' = queued \ {s}
         /\ call' = cs
         /\ UNCHANGED <<refreshGen, calls>>

\* What the window has of a session is replaced, and the conversation of the
\* store, whatever session that is of.
Show(s, ver, new) ==
    /\ view' = [view EXCEPT ![s] = ver]
    /\ items' = [items EXCEPT ![s] = new]
    /\ global' = new

(* refreshSessionInPlace from its await on.  A tab that is opened again      *)
(* counts its refreshes from one again, so that one which outlived the tab  *)
(* before may pass for the current one.                                     *)
RefreshReturns(i) ==
    LET s == call[i].sess
        ver == call[i].ver
        current == call[i].gen = refreshGen[s]
        full == current /\ call[i].known # ver
        fresh == full /\ chunkFp[s] # Fingerprint(s, ver)
    IN
    /\ call[i].kind = "refresh"
    /\ ver # 0
    /\ fileFp' = IF current THEN [fileFp EXCEPT ![s] = ver] ELSE fileFp
    /\ chunkFp' = IF fresh THEN [chunkFp EXCEPT ![s] = Fingerprint(s, ver)] ELSE chunkFp
    /\ IF fresh /\ s \in tabs
       THEN /\ Show(s, ver, IncrementalUpdate(global, Items(s, ver)))
            /\ crossed' = IF global \notin {<<>>, items[s]} THEN crossed \cup {s} ELSE crossed
       ELSE UNCHANGED <<shown, crossed>>
    /\ overtaken' = IF (fresh /\ ver < view[s]) \/ (current /\ i \in outlived)
                    THEN overtaken \cup {s} ELSE overtaken
    /\ Finally(s, [call EXCEPT ![i] = NoCall], fileFp'[s])
    /\ UNCHANGED <<file, event, timer, tabs, selected, fetchGen, missed, outlived, env>>

-----------------------------------------------------------------------------
\* fetchSessionDetail up to its await.
StartFetch(s) ==
    /\ fetchGen' = fetchGen + 1
    /\ Sent(call, calls + 1, [kind |-> "fetch", sess |-> s, gen |-> fetchGen + 1,
                              known |-> 0, ver |-> 0])

(* fetchSessionDetail from its await on: dropped if another fetch has begun *)
(* since, and only remembered if the session is not the one on view.        *)
FetchReturns(i) ==
    LET s == call[i].sess
        ver == call[i].ver
    IN
    /\ call[i].kind = "fetch"
    /\ ver # 0
    /\ call' = [call EXCEPT ![i] = NoCall]
    /\ IF call[i].gen = fetchGen
       THEN /\ fileFp' = [fileFp EXCEPT ![s] = ver]
            /\ IF selected = s
               THEN /\ Show(s, ver, Items(s, ver))
                    /\ overtaken' = IF ver < view[s] THEN overtaken \cup {s} ELSE overtaken
                    /\ crossed' = crossed \ {s}
               ELSE UNCHANGED <<shown, overtaken, crossed>>
            /\ missed' = IF s \in tabs \ {selected} THEN missed \cup {s} ELSE missed
       ELSE UNCHANGED <<fileFp, shown, missed, overtaken, crossed>>
    /\ UNCHANGED <<file, event, timer, tabs, selected, fetchGen, refreshGen, inFlight, queued,
                   chunkFp, calls, outlived, env>>

(* A session is chosen in the sidebar: its tab is opened or focused, and    *)
(* its detail fetched.  (Focusing a tab without data fetches first, too;    *)
(* that call is superseded at once.)                                        *)
SelectSession(s) ==
    /\ tabs' = tabs \cup {s}
    /\ selected' = s
    /\ global' = IF s \in tabs \ {selected} /\ view[s] # 0 THEN items[s] ELSE global
    /\ StartFetch(s)
    /\ UNCHANGED <<file, event, timer, view, items, coordination, history, env>>

\* setActiveTab: a tab that has a conversation is shown as it is, and its
\* conversation becomes the one of the store.
FocusTab(s) ==
    /\ selected' = s
    /\ global' = IF s # selected /\ view[s] # 0 THEN items[s] ELSE global
    /\ IF s # selected /\ view[s] = 0
       THEN StartFetch(s)
       ELSE UNCHANGED <<fetchGen, network>>

SetActiveTab(s) ==
    /\ s \in tabs \ {selected}
    /\ FocusTab(s)
    /\ UNCHANGED <<file, event, timer, tabs, view, items, coordination, history, env>>

RefreshesOf(s) == {i \in 1..MaxCalls : call[i].kind = "refresh" /\ call[i].sess = s}

\* Mutant: the queued refresh is left behind.
CloseTabKeepsQueued(s) ==
    /\ s \in tabs
    /\ closes < MaxCloses /\ Bounded
    /\ closes' = closes + 1
    /\ tabs' = tabs \ {s}
    /\ view' = [view EXCEPT ![s] = 0]
    /\ items' = [items EXCEPT ![s] = <<>>]
    /\ refreshGen' = [refreshGen EXCEPT ![s] = 0]
    /\ inFlight' = inFlight \ {s}
    /\ queued' = queued
    /\ fileFp' = [fileFp EXCEPT ![s] = 0]
    /\ chunkFp' = [chunkFp EXCEPT ![s] = <<>>]
    /\ IF tabs' = {}
       THEN selected' = NoSession /\ global' = <<>> /\ UNCHANGED <<fetchGen, network>>
       ELSE \E t \in (IF selected = s THEN tabs' ELSE {selected}) : FocusTab(t)
    /\ missed' = missed \ {s}
    /\ outlived' = outlived \cup RefreshesOf(s)
    /\ overtaken' = overtaken \ {s}
    /\ crossed' = crossed \ {s}
    /\ UNCHANGED <<file, event, timer, writes, manuals>>

(* A tab is closed: its data and what coordinates its refreshes are         *)
(* removed, and a neighbour becomes the active tab.                         *)
CloseTab(s) ==
    /\ s \in tabs
    /\ closes < MaxCloses /\ Bounded
    /\ closes' = closes + 1
    /\ tabs' = tabs \ {s}
    /\ view' = [view EXCEPT ![s] = 0]
    /\ items' = [items EXCEPT ![s] = <<>>]
    /\ refreshGen' = [refreshGen EXCEPT ![s] = 0]
    /\ inFlight' = inFlight \ {s}
    /\ queued' = queued \ {s}
    /\ fileFp' = [fileFp EXCEPT ![s] = 0]
    /\ chunkFp' = [chunkFp EXCEPT ![s] = <<>>]
    /\ IF tabs' = {}
       THEN selected' = NoSession /\ global' = <<>> /\ UNCHANGED <<fetchGen, network>>
       ELSE \E t \in (IF selected = s THEN tabs' ELSE {selected}) : FocusTab(t)
    /\ missed' = missed \ {s}
    /\ outlived' = outlived \cup RefreshesOf(s)
    /\ overtaken' = overtaken \ {s}
    /\ crossed' = crossed \ {s}
    /\ UNCHANGED <<file, event, timer, writes, manuals>>

-----------------------------------------------------------------------------
Next ==
    \/ \E s \in Sessions :
        Write(s) \/ Deliver(s) \/ TimerFires(s) \/ SelectSession(s) \/ SetActiveTab(s) \/ CloseTab(s)
    \/ ManualRefresh
    \/ \E i \in 1..MaxCalls : Answer(i) \/ RefreshReturns(i) \/ FetchReturns(i)

Spec == Init /\ [][Next]_vars

-----------------------------------------------------------------------------
TypeOK ==
    /\ \A s \in Sessions : /\ Latest(s) \in 1..(MaxWrites + 1)
                           /\ \A v \in DOMAIN file[s], c \in UNION {Range(file[s][w]) : w \in DOMAIN file[s]} :
                                  file[s][v] # <<>> /\ c \in [end : 1..(MaxWrites + 1), rev : Versions]
    /\ event \subseteq Sessions
    /\ timer \subseteq Sessions
    /\ tabs \subseteq Sessions
    /\ selected \in IF tabs = {} THEN {NoSession} ELSE tabs
    /\ \A s \in Sessions : view[s] \in 0..Latest(s) /\ (view[s] = 0 <=> items[s] = <<>>)
    /\ fetchGen \in 0..MaxCalls
    /\ refreshGen \in [Sessions -> 0..MaxCalls]
    /\ inFlight \subseteq Sessions
    /\ queued \subseteq Sessions
    /\ fileFp \in [Sessions -> Versions]
    /\ call \in [1..MaxCalls -> [kind : {"none", "fetch", "refresh"}, sess : Sessions \cup {NoSession},
                                  gen : 0..MaxCalls, known : Versions, ver : Versions]]
    /\ calls \in 0..MaxCalls
    /\ missed \subseteq tabs
    /\ outlived \subseteq 1..MaxCalls
    /\ overtaken \subseteq tabs
    /\ crossed \subseteq tabs
    /\ writes \in 0..MaxWrites
    /\ closes \in 0..MaxCloses
    /\ manuals \in 0..MaxManual

(* A refresh that was asked for while another one was under way is started  *)
(* when that one ends: none waits for nothing, however the tab is closed    *)
(* and opened in between (refreshSessionInPlace, its finally block, and     *)
(* cleanupSessionRefreshCoordination).                                      *)
QueuedBehindInFlight == queued \subseteq inFlight

(* sessionDetailSlice.ts:603, "Coalesce duplicate in-flight refreshes for   *)
(* the same session": until a tab is closed, of each session one refresh is *)
(* under way or none, as sessionRefreshInFlight says, however events,       *)
(* answers, switches of tabs and the user come in between.                  *)
InFlightIsExact ==
    closes = 0 => \A s \in Sessions :
        Cardinality(RefreshesOf(s)) = IF s \in inFlight THEN 1 ELSE 0

(* At rest the session on view shows what its file holds, one item for each *)
(* chunk, made of the chunk as it is now, whatever changed while refreshes  *)
(* were under way. Excepted are a chunk that was reworked, for the window    *)
(* only looks at the count and the end of the chunks, and a session of which *)
(* something was ignored while its tab was hidden, an answer replaced a      *)
(* newer one, the answer to a refresh from before the tab was closed was    *)
(* taken, or items were added to those of another conversation.             *)
AtRestCurrent ==
    Rest /\ selected \notin {NoSession} \cup missed \cup overtaken \cup crossed
        => LET now == Last(file[selected])
           IN  /\ Len(items[selected]) = Len(now)
               /\ \A i \in DOMAIN now : now[i].rev = 0 => items[selected][i] = <<selected, now[i]>>

(* groupTransformer.ts:191, "Incrementally updates a conversation by reusing *)
(* unchanged ChatItem objects": a tab shows the items of its own session.    *)
ItemsAreOwn ==
    \A s \in tabs : \A i \in DOMAIN items[s] : items[s][i][1] = s

(* The maps that coordinate the refreshes agree with the calls under way:   *)
(* nobody waits for nothing, and no session has two refreshes.              *)
RefreshesAreExact == TypeOK /\ QueuedBehindInFlight /\ InFlightIsExact
=============================================================================
