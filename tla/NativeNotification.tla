------------------------- MODULE NativeNotification -------------------------
(***************************************************************************)
(* The notification of the desktop for a new error                           *)
(* (infrastructure/notification/filtering.rs, emission.rs): whether the      *)
(* settings allow it, which are read anew for each question and may change    *)
(* in between; the throttle; and the error a click of the user will open,     *)
(* which a timer forgets (commands/notifications.rs). Errors are checked by   *)
(* several tasks at once.                                                    *)
(***************************************************************************)
EXTENDS ConfigStore

CONSTANTS
    Errors,       \* the errors that can come in
    HashOf,       \* the project and message of each, what the throttle knows it by
    RepoOf,       \* the repository of each, or None
    MatchedBy,    \* the patterns that match each
    THROTTLE,     \* THROTTLE_MS
    WINDOW,       \* the 30 seconds a click has
    MAX_REGEX_CACHE_SIZE

ASSUME NativeNotificationAssumption ==
    /\ THROTTLE \in Nat /\ WINDOW \in Nat /\ MAX_REGEX_CACHE_SIZE \in Nat \ {0}

VARIABLES
    checks,       \* each check: [pc, error, until, now]
    throttle,     \* throttle_map: the time each hash was last let through
    regexCache,   \* regex_cache: the patterns it knows
    lastShown,    \* last_shown_error: the number of a notification, 0 for none
    timers,       \* the times at which a timer forgets it
    shown,        \* the notifications so far: [error, now, at, before]
    clicked,      \* the numbers a click has opened
    errors        \* errors so far

nativeVars == <<checks, throttle, regexCache, lastShown, timers, shown, clicked, errors>>
vars == <<storeVars, nativeVars>>

Unchecked == [pc |-> "idle", error |-> None, until |-> 0, now |-> 0]

NativeInit ==
    /\ Init
    /\ checks = [c \in Checkers |-> Unchecked]
    /\ throttle = <<>> /\ regexCache = {}
    /\ lastShown = 0 /\ timers = {} /\ shown = <<>> /\ clicked = {}
    /\ errors = 0

Asks(c, pc) == running /\ checks[c].pc = pc
Goes(c, pc) == checks' = [checks EXCEPT ![c].pc = pc]
Drops(c) == checks' = [checks EXCEPT ![c] = Unchecked]

\* A new error was stored, and its notification is decided on.
Arrive(c, e) ==
    /\ Asks(c, "idle") /\ errors < Scenarios[scenario].errors /\ errors' = errors + 1
    /\ checks' = [checks EXCEPT ![c] = [Unchecked EXCEPT !.pc = "enabled", !.error = e]]
    /\ UNCHANGED <<storeVars, throttle, regexCache, lastShown, timers, shown, clicked>>

\* Mutant: a snooze is taken for over without a look at the clock.
ExpiredAlways(until) == until # 0
\* are_notifications_enabled: a snooze that is over is cleared, by a call of
\* its own, after the settings were read.
Expired(until) == until # 0 /\ clock >= until
Enabled(c) ==
    LET until == config.notifications.snoozedUntil
    IN  /\ Asks(c, "enabled")
        /\ CASE ~config.notifications.enabled \/ (until # 0 /\ ~Expired(until)) ->
                    Drops(c) /\ UNCHANGED calls
             [] config.notifications.enabled /\ Expired(until) ->
                    /\ checks' = [checks EXCEPT ![c].pc = "clear", ![c].until = until]
                    /\ calls' = [calls EXCEPT ![c] = [Idle EXCEPT !.pc = "mutate", !.call = [op |-> "clear_snooze"]]]
             [] OTHER -> Goes(c, "repository") /\ UNCHANGED calls
        /\ UNCHANGED <<running, config, file, override, contextRoot, clock, scenario, version, acked,
                       overlap, unsaved, given, made, faults,
                       throttle, regexCache, lastShown, timers, shown, clicked, errors>>

\* The call that clears the snooze has returned, with or without success.
Cleared(c) ==
    /\ Asks(c, "clear") /\ calls[c].pc = "idle"
    /\ Goes(c, "repository")
    /\ UNCHANGED <<storeVars, throttle, regexCache, lastShown, timers, shown, clicked, errors>>

IsFromIgnoredRepository(e) ==
    RepoOf[e] # None /\ RepoOf[e] \in Range(config.notifications.ignoredRepositories)
Repository(c) ==
    /\ Asks(c, "repository")
    /\ IF IsFromIgnoredRepository(checks[c].error) THEN Drops(c) ELSE Goes(c, "regex")
    /\ UNCHANGED <<storeVars, throttle, regexCache, lastShown, timers, shown, clicked, errors>>

\* matches_ignored_regex: a pattern the careful compiler refuses matches
\* nothing. The patterns up to the first match are looked up; the cache is
\* emptied when it is full.
Compiles(p) == p \notin {"unsafe", "broken"}
IsMatch(p, e) == Compiles(p) /\ p \in MatchedBy[e]
Looked(e) ==
    LET list == config.notifications.ignoredRegex
        i == SelectInSeq(list, LAMBDA p: IsMatch(p, e))
    IN  IF i = 0 THEN list ELSE SubSeq(list, 1, i)
WithPattern(cache, p) ==
    IF p \in cache THEN cache
    ELSE (IF Cardinality(cache) >= MAX_REGEX_CACHE_SIZE THEN {} ELSE cache) \cup {p}
\* The cache after each of the patterns.
Remembered(cache, list) ==
    LET after[i \in 0..Len(list)] == IF i = 0 THEN cache ELSE WithPattern(after[i - 1], list[i])
    IN  after[Len(list)]
Regex(c) ==
    LET e == checks[c].error
    IN  /\ Asks(c, "regex")
        /\ regexCache' = Remembered(regexCache, Looked(e))
        /\ IF \E p \in Range(Looked(e)): IsMatch(p, e) THEN Drops(c) ELSE Goes(c, "clock")
        /\ UNCHANGED <<storeVars, throttle, lastShown, timers, shown, clicked, errors>>

\* is_throttled reads the clock before it takes the lock.
ReadClock(c) ==
    /\ Asks(c, "clock")
    /\ checks' = [checks EXCEPT ![c].pc = "throttle", ![c].now = clock]
    /\ UNCHANGED <<storeVars, throttle, regexCache, lastShown, timers, shown, clicked, errors>>

\* The difference of the times is unsigned: with a time older than the one in
\* the map it is huge, and the error passes.
IsThrottled(hash, now) ==
    /\ hash \in DOMAIN throttle
    /\ now >= throttle[hash] /\ now - throttle[hash] < THROTTLE
LetThrough(hash, now) ==
    [h \in DOMAIN throttle \cup {hash} |-> IF h = hash THEN now ELSE throttle[h]]
\* Mutant: the clean-up keeps the old entries instead of the new ones.
KeptOld(hash, now) ==
    LET all == LetThrough(hash, now)
        old == IF now > 2 * THROTTLE THEN now - 2 * THROTTLE ELSE 0
    IN  [h \in {x \in DOMAIN all : all[x] < old} |-> all[h]]
Kept(hash, now) ==
    LET all == LetThrough(hash, now)
        old == IF now > 2 * THROTTLE THEN now - 2 * THROTTLE ELSE 0
    IN  [h \in {x \in DOMAIN all : all[x] >= old} |-> all[h]]
ForgetsAt == clock + WINDOW

\* show_native_notification: what a click opens is set and its timer started.
Throttle(c) ==
    LET e == checks[c].error
        now == checks[c].now
    IN  /\ Asks(c, "throttle")
        /\ Drops(c)
        /\ IF IsThrottled(HashOf[e], now) THEN UNCHANGED <<throttle, lastShown, timers, shown>>
           ELSE /\ throttle' = Kept(HashOf[e], now)
                /\ shown' = Append(shown, [hash |-> HashOf[e], now |-> now, at |-> clock])
                /\ lastShown' = Len(shown')
                /\ timers' = timers \cup {ForgetsAt}
        /\ UNCHANGED <<storeVars, regexCache, clicked, errors>>

\* A timer forgets whatever would be opened now.
Forget ==
    /\ running /\ clock \in timers
    /\ timers' = timers \ {clock}
    /\ lastShown' = 0
    /\ UNCHANGED <<storeVars, checks, throttle, regexCache, shown, clicked, errors>>

\* handle_notification_click: the window gets the focus.
Click ==
    /\ running /\ lastShown # 0
    /\ clicked' = clicked \cup {lastShown}
    /\ lastShown' = 0
    /\ UNCHANGED <<storeVars, checks, throttle, regexCache, timers, shown, errors>>

\* Timers are not late.
Tick ==
    /\ clock < Scenarios[scenario].clock /\ clock \notin timers
    /\ clock' = clock + 1
    /\ UNCHANGED <<running, config, file, override, contextRoot, calls, scenario, version, acked,
                   overlap, unsaved, given, made, faults, nativeVars>>

\* The end of the program takes all of this with it.
Ends ==
    /\ Crash
    /\ checks' = [c \in Checkers |-> Unchecked]
    /\ throttle' = <<>> /\ regexCache' = {} /\ lastShown' = 0 /\ timers' = {}
    /\ shown' = <<>> /\ clicked' = {}
    /\ UNCHANGED errors

Next ==
    \/ \E w \in Callers: \E i \in DOMAIN Scenarios[scenario].calls:
          Begin(w, Scenarios[scenario].calls[i]) /\ UNCHANGED nativeVars
    \/ \E w \in Workers: CallStep(w) /\ UNCHANGED nativeVars
    \/ Start /\ UNCHANGED nativeVars
    \/ Ends
    \/ \E c \in Checkers, e \in Errors: Arrive(c, e)
    \/ \E c \in Checkers: Enabled(c) \/ Cleared(c) \/ Repository(c) \/ Regex(c) \/ ReadClock(c) \/ Throttle(c)
    \/ Forget \/ Click \/ Tick

Spec == NativeInit /\ [][Next]_vars

-----------------------------------------------------------------------------
(* Properties. *)

\* The settings keep their form, the cache its limit, and every call of a
\* check belongs to one.
TypeOK ==
    /\ DOMAIN config = DOMAIN DefaultConfig
    /\ config.notifications.snoozedUntil \in Nat
    /\ "port" \notin given => PortIsFree(config.httpServer)
    /\ file.state \in {"absent", "torn", "whole"}
    /\ Cardinality(regexCache) <= MAX_REGEX_CACHE_SIZE
    /\ \A c \in Checkers: calls[c].pc # "idle" => checks[c].pc = "clear"
    /\ lastShown \in 0..Len(shown)

\* A snooze that is not over is lost only to a user's call, or to the call of
\* a check that had read another one, which was over.
SnoozeLostOnlyInRace ==
    [][config.notifications.snoozedUntil > clock /\ config'.notifications.snoozedUntil = 0 /\ running'
          /\ running =>
            \/ \E w \in Callers: calls[w].pc = "mutate" /\ calls'[w] # calls[w]
            \/ \E c \in Checkers: /\ calls[c].pc = "mutate" /\ calls'[c].pc = "persist"
                                  /\ checks[c].until <= clock
                                  /\ checks[c].until # config.notifications.snoozedUntil]_vars

\* No two notifications of one message come within the throttle, unless one
\* of that message was let through with a time read before that of a
\* notification shown earlier: the difference is huge then, or a clean-up by the
\* later time has removed the message.
OncePerWindow ==
    \A i, j \in DOMAIN shown:
        i < j /\ shown[i].hash = shown[j].hash =>
            \/ shown[j].now - shown[i].now >= THROTTLE
            \/ \E k, l \in 1..j: k < l /\ shown[l].hash = shown[j].hash /\ shown[k].now > shown[l].now

\* Within its time a click opens the last notification, unless the timer of
\* an older one was due in between; after its time it opens nothing.
ClickWindow ==
    running /\ shown # <<>> =>
        LET n == Len(shown)
            last == shown[n]
        IN  /\ (clock < last.at + WINDOW /\ n \notin clicked /\ lastShown = 0) =>
                  \E i \in 1..(n - 1): shown[i].at + WINDOW \in last.at..clock
            /\ lastShown \in {0, n}
            /\ clock > last.at + WINDOW => lastShown = 0

\* Whatever the calls were, the settings are such as a single call could have
\* been accepted with.
SettingsAreSound == TypeOK /\ TriggersAreSound /\ ListsAreClean

\* The two times of a notification are kept, whatever the order of the clocks
\* and the timers.
NotifiesInTime == OncePerWindow /\ ClickWindow
=============================================================================
