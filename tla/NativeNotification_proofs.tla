---------------------- MODULE NativeNotification_proofs ---------------------
(***************************************************************************)
(* Proofs about ConfigStore and NativeNotification, for any callers,        *)
(* checks, errors, calls and files of earlier versions.                     *)
(***************************************************************************)
EXTENDS NativeNotification, ListLemmas, FiniteSetTheorems, TLAPS

-----------------------------------------------------------------------------
(* The steps and the calls. *)

CallFields == {"pc", "call", "config", "version", "root"}
CallsInv ==
    /\ DOMAIN calls = Workers
    /\ \A w \in Workers : DOMAIN calls[w] = CallFields

\* What an action of the settings can be, seen from the whole program.
SettingsRest == <<running, config, file, override, contextRoot, calls, scenario, version, acked,
                  overlap, unsaved, given>>
SettingsStep ==
    \/ \E w \in Callers : \E call : IsCall(call) /\ Begin(w, call)
    \/ \E w \in Workers : CallStep(w)
    \/ Start
    \/ Crash
    \/ \E c \in Checkers : Enabled(c)
    \/ UNCHANGED SettingsRest

LEMMA SettingsSteps ==
    ASSUME [Next]_vars, scenario \in DOMAIN Scenarios
    PROVE  SettingsStep
<1>1. CASE \E w \in Callers : \E i \in DOMAIN Scenarios[scenario].calls :
              Begin(w, Scenarios[scenario].calls[i]) /\ UNCHANGED nativeVars
  BY <1>1, ConfigStoreAssumption DEF SettingsStep
<1>2. CASE \E w \in Workers : CallStep(w) /\ UNCHANGED nativeVars
  BY <1>2 DEF SettingsStep
<1>3. CASE Start /\ UNCHANGED nativeVars
  BY <1>3 DEF SettingsStep
<1>4. CASE Ends
  BY <1>4 DEF SettingsStep, Ends
<1>5. CASE \E c \in Checkers, e \in Errors : Arrive(c, e)
  BY <1>5 DEF SettingsStep, SettingsRest, Arrive, storeVars
<1>6. CASE \E c \in Checkers : Enabled(c)
  BY <1>6 DEF SettingsStep
<1>7. CASE \E c \in Checkers : Cleared(c) \/ Repository(c) \/ Regex(c) \/ ReadClock(c) \/ Throttle(c)
  BY <1>7 DEF SettingsStep, SettingsRest, storeVars, Cleared, Repository, Regex, ReadClock, Throttle
<1>8. CASE Forget \/ Click \/ Tick
  BY <1>8 DEF SettingsStep, SettingsRest, storeVars, Forget, Click, Tick
<1>9. CASE UNCHANGED vars
  BY <1>9 DEF SettingsStep, SettingsRest, vars, storeVars
<1> QED
  BY <1>1, <1>2, <1>3, <1>4, <1>5, <1>6, <1>7, <1>8, <1>9 DEF Next

\* What the two kinds of edits do to the calls.
LEMMA IdleCall ==
    /\ DOMAIN Idle = CallFields
    /\ Idle.pc = "idle"
    /\ Idle.version = 0
BY DEF Idle, CallFields

LEMMA PcEdit ==
    ASSUME CallsInv, NEW w \in Workers, NEW pc, Moves(w, pc)
    PROVE  /\ CallsInv'
           /\ calls'[w].pc = pc
           /\ \A f \in CallFields \ {"pc"} : calls'[w][f] = calls[w][f]
           /\ \A o \in Workers \ {w} : calls'[o] = calls[o]
BY DEF Moves, CallsInv, CallFields

LEMMA CallEdit ==
    ASSUME CallsInv, NEW w \in Workers, NEW r, DOMAIN r = CallFields,
           calls' = [calls EXCEPT ![w] = r]
    PROVE  /\ CallsInv'
           /\ calls'[w] = r
           /\ \A o \in Workers \ {w} : calls'[o] = calls[o]
BY DEF CallsInv

\* The calls after each step of a worker.
LEMMA MutateCalls ==
    ASSUME CallsInv, NEW w \in Workers, Mutate(w)
    PROVE  /\ CallsInv'
           /\ \A o \in Workers \ {w} : calls'[o] = calls[o]
           /\ ~Outcome(config, calls[w].call).changed =>
                 calls'[w] = Idle /\ config' = config /\ version' = version
           /\ Outcome(config, calls[w].call).changed =>
                 /\ calls'[w].pc = "persist" /\ calls'[w].call = calls[w].call
                 /\ calls'[w].version = version + 1 /\ version' = version + 1
                 /\ calls'[w].root = RootOf(config')
                 /\ config' = Outcome(config, calls[w].call).config
<1> DEFINE out == Outcome(config, calls[w].call)
           r == [calls[w] EXCEPT !.pc = "persist", !.config = out.config,
                                 !.version = version + 1, !.root = RootOf(out.config)]
<1>1. CASE out.changed
  <2>1. calls' = [calls EXCEPT ![w] = r] /\ version' = version + 1 /\ config' = out.config
    BY <1>1 DEF Mutate
  <2> HIDE DEF out
  <2>2. /\ DOMAIN r = CallFields /\ r.pc = "persist" /\ r.version = version + 1
        /\ r.root = RootOf(out.config) /\ r.call = calls[w].call
    BY DEF CallsInv, CallFields
  <2> HIDE DEF r
  <2>3. CallsInv' /\ calls'[w] = r /\ \A o \in Workers \ {w} : calls'[o] = calls[o]
    BY <2>1, <2>2, CallEdit
  <2> QED
    BY <1>1, <2>1, <2>2, <2>3 DEF out
<1>2. CASE ~out.changed
  <2>1. calls' = [calls EXCEPT ![w] = Idle] /\ config' = config /\ version' = version
    BY <1>2 DEF Mutate
  <2> QED
    BY <1>2, <2>1, IdleCall, CallEdit
<1> QED
  BY <1>1, <1>2

LEMMA StepCalls ==
    ASSUME CallsInv, SettingsStep
    PROVE  CallsInv'
<1>1. CASE \E w \in Callers : \E call : IsCall(call) /\ Begin(w, call)
  <2> PICK w \in Callers : \E call : Begin(w, call)
    BY <1>1
  <2> PICK call : Begin(w, call)
    OBVIOUS
  <2>1. w \in Workers /\ DOMAIN [Idle EXCEPT !.pc = "mutate", !.call = call] = CallFields
    BY DEF Workers, Idle, CallFields
  <2>2. calls' = calls \/ calls' = [calls EXCEPT ![w] = [Idle EXCEPT !.pc = "mutate", !.call = call]]
    BY DEF Begin
  <2> QED
    BY <2>1, <2>2, CallEdit DEF CallsInv
<1>2. ASSUME NEW w \in Workers, CallStep(w) PROVE CallsInv'
  <2>1. CASE Mutate(w)
    BY <2>1, MutateCalls
  <2>2. CASE StartWrite(w)
    BY <2>2, PcEdit DEF StartWrite
  <2>3. CASE FinishWrite(w)
    <3>1. Moves(w, "root") \/ calls' = [calls EXCEPT ![w] = Idle]
      BY <2>3 DEF FinishWrite
    <3> QED
      BY <3>1, PcEdit, CallEdit, IdleCall
  <2>4. CASE FailWrite(w)
    BY <2>4, CallEdit, IdleCall DEF FailWrite
  <2>5. CASE SetRoot(w)
    <3>1. Moves(w, "rebuild") \/ calls' = [calls EXCEPT ![w] = Idle]
      BY <2>5 DEF SetRoot
    <3> QED
      BY <3>1, PcEdit, CallEdit, IdleCall
  <2>6. CASE ReadRoot(w)
    BY <2>6 DEF ReadRoot, CallsInv, CallFields
  <2>7. CASE ReplaceContext(w)
    BY <2>7, CallEdit, IdleCall DEF ReplaceContext
  <2> QED
    BY <1>2, <2>1, <2>2, <2>3, <2>4, <2>5, <2>6, <2>7 DEF CallStep
<1>3. CASE Start
  BY <1>3 DEF Start, CallsInv
<1>4. CASE Crash
  BY <1>4, IdleCall DEF Crash, CallsInv
<1>5. CASE \E c \in Checkers : Enabled(c)
  <2> PICK c \in Checkers : Enabled(c)
    BY <1>5
  <2> DEFINE r == [Idle EXCEPT !.pc = "mutate", !.call = [op |-> "clear_snooze"]]
  <2>1. c \in Workers /\ DOMAIN r = CallFields
    BY DEF Workers, Idle, CallFields
  <2>2. calls' = calls \/ calls' = [calls EXCEPT ![c] = r]
    BY DEF Enabled
  <2> HIDE DEF r
  <2> QED
    BY <2>1, <2>2, CallEdit DEF CallsInv
<1>6. CASE UNCHANGED SettingsRest
  BY <1>6 DEF SettingsRest, CallsInv
<1> QED
  BY <1>1, <1>2, <1>3, <1>4, <1>5, <1>6 DEF SettingsStep

-----------------------------------------------------------------------------
(* What the calls do to the parts of the settings that are always there. *)

KeepsRoot(c, d) == IsSettings(d) /\ d.general.claudeRootPath = c.general.claudeRootPath

LEMMA SettingsNames ==
    /\ DOMAIN DefaultConfig = {"notifications", "general", "display", "sessions", "ssh", "httpServer"}
    /\ DOMAIN DefaultConfig = Sections
BY DEF DefaultConfig, Sections

\* A setting of the notifications other than the snooze.
LEMMA NotificationEdit ==
    ASSUME NEW c, IsSettings(c), NEW key, key # "snoozedUntil", NEW x
    PROVE  KeepsRoot(c, [c EXCEPT !.notifications[key] = x])
<1> DEFINE n == [c.notifications EXCEPT ![key] = x]
           d == [c EXCEPT !.notifications = n]
<1>1. DOMAIN n = DOMAIN c.notifications /\ n["snoozedUntil"] = c.notifications["snoozedUntil"]
  BY DEF IsSettings
<1> HIDE DEF n
<1>2. DOMAIN d = DOMAIN c /\ d.notifications = n /\ d.general = c.general
  BY SettingsNames DEF IsSettings
<1>3. KeepsRoot(c, d)
  BY <1>1, <1>2 DEF IsSettings, KeepsRoot
<1> QED
  BY <1>3 DEF n

LEMMA SnoozeEdit ==
    ASSUME NEW c, IsSettings(c), NEW until \in Nat
    PROVE  KeepsRoot(c, [c EXCEPT !.notifications.snoozedUntil = until])
<1> DEFINE n == [c.notifications EXCEPT !.snoozedUntil = until]
           d == [c EXCEPT !.notifications = n]
<1>1. DOMAIN n = DOMAIN c.notifications /\ n["snoozedUntil"] = until
  BY DEF IsSettings
<1> HIDE DEF n
<1>2. DOMAIN d = DOMAIN c /\ d.notifications = n /\ d.general = c.general
  BY SettingsNames DEF IsSettings
<1>3. KeepsRoot(c, d)
  BY <1>1, <1>2 DEF IsSettings, KeepsRoot
<1> QED
  BY <1>3 DEF n

\* The pinned and the hidden sessions.
LEMMA SessionsEdit ==
    ASSUME NEW c, IsSettings(c), NEW kind, NEW x
    PROVE  KeepsRoot(c, [c EXCEPT !.sessions[kind] = x])
<1> DEFINE n == [c.sessions EXCEPT ![kind] = x]
           d == [c EXCEPT !.sessions = n]
<1>2. DOMAIN d = DOMAIN c /\ d.notifications = c.notifications /\ d.general = c.general
  BY SettingsNames DEF IsSettings
<1> QED
  BY <1>2 DEF IsSettings, KeepsRoot

LEMMA KeepsNotified ==
    ASSUME NEW c, IsSettings(c)
    PROVE  /\ KeepsRoot(c, c)
           /\ \A x : KeepsRoot(c, [c EXCEPT !.notifications.triggers = x])
           /\ \A x : KeepsRoot(c, [c EXCEPT !.notifications.ignoredRegex = x])
           /\ \A x : KeepsRoot(c, [c EXCEPT !.notifications.ignoredRepositories = x])
<1>1. KeepsRoot(c, c)
  BY DEF KeepsRoot
<1>2. ASSUME NEW x PROVE KeepsRoot(c, [c EXCEPT !.notifications.triggers = x])
  BY NotificationEdit, "triggers" # "snoozedUntil"
<1>3. ASSUME NEW x PROVE KeepsRoot(c, [c EXCEPT !.notifications.ignoredRegex = x])
  BY NotificationEdit, "ignoredRegex" # "snoozedUntil"
<1>4. ASSUME NEW x PROVE KeepsRoot(c, [c EXCEPT !.notifications.ignoredRepositories = x])
  BY NotificationEdit, "ignoredRepositories" # "snoozedUntil"
<1> QED
  BY <1>1, <1>2, <1>3, <1>4

Keeps(c, out) == out.changed => KeepsRoot(c, out.config)

LEMMA KeepsOutcomes ==
    ASSUME NEW c, NEW d, KeepsRoot(c, d)
    PROVE  Keeps(c, Changed(d))
BY DEF Keeps, Changed

LEMMA KeepsUnchanged ==
    ASSUME NEW c, NEW d
    PROVE  Keeps(c, Refused(d)) /\ Keeps(c, Same(d))
BY DEF Keeps, Refused, Same

LEMMA TriggerKeeps ==
    ASSUME NEW c, IsSettings(c), NEW call
    PROVE  Keeps(c, TriggerOutcome(c, call))
<1>1. \A x : Keeps(c, Changed(WithTriggers(c, x)))
  BY KeepsNotified, KeepsOutcomes DEF WithTriggers
<1>2. \A t : Keeps(c, AddTrigger(c, t))
  BY <1>1, KeepsUnchanged DEF AddTrigger
<1>3. \A id, u : Keeps(c, UpdateTrigger(c, id, u))
  BY <1>1, KeepsUnchanged DEF UpdateTrigger
<1>4. \A id : Keeps(c, RemoveTrigger(c, id))
  BY <1>1, KeepsUnchanged DEF RemoveTrigger
<1> QED
  BY <1>2, <1>3, <1>4 DEF TriggerOutcome

LEMMA IgnoreKeeps ==
    ASSUME NEW c, IsSettings(c), NEW call
    PROVE  Keeps(c, IgnoreOutcome(c, call))
<1>1. \A x : /\ Keeps(c, Changed([c EXCEPT !.notifications.ignoredRegex = x]))
             /\ Keeps(c, Changed([c EXCEPT !.notifications.ignoredRepositories = x]))
  BY KeepsNotified, KeepsOutcomes
<1>2. \A p : Keeps(c, AddIgnoreRegex(c, p))
  BY <1>1, KeepsUnchanged DEF AddIgnoreRegex
<1>3. \A p : Keeps(c, AddIgnoreRepository(c, p))
  BY <1>1, KeepsUnchanged DEF AddIgnoreRepository
<1>4. ASSUME NEW key, key # "snoozedUntil", NEW p
      PROVE  Keeps(c, Without(c, key, p))
  <2>1. \A x : Keeps(c, Changed([c EXCEPT !.notifications[key] = x]))
    BY <1>4, NotificationEdit, KeepsOutcomes
  <2> QED
    BY <2>1, KeepsUnchanged DEF Without
<1>5. \A p : Keeps(c, RemoveIgnoreRegex(c, p))
  BY <1>4, "ignoredRegex" # "snoozedUntil" DEF RemoveIgnoreRegex
<1>6. \A p : Keeps(c, RemoveIgnoreRepository(c, p))
  BY <1>4, "ignoredRepositories" # "snoozedUntil" DEF RemoveIgnoreRepository
<1> QED
  BY <1>2, <1>3, <1>5, <1>6 DEF IgnoreOutcome

LEMMA SessionKeeps ==
    ASSUME NEW c, IsSettings(c), NEW call
    PROVE  Keeps(c, SessionOutcome(c, call)) /\ Keeps(c, ManyOutcome(c, call))
<1>1. \A kind, x : Keeps(c, Changed([c EXCEPT !.sessions[kind] = x]))
  BY SessionsEdit, KeepsOutcomes
<1>2. \A kind, p, ids : Keeps(c, InFront(c, kind, p, ids))
  BY <1>1, KeepsUnchanged DEF InFront
<1>3. \A kind, p, ids : Keeps(c, Taken(c, kind, p, ids))
  BY <1>1 DEF Taken
<1>4. \A p, s : /\ Keeps(c, PinSession(c, p, s)) /\ Keeps(c, UnpinSession(c, p, s))
                /\ Keeps(c, HideSession(c, p, s)) /\ Keeps(c, UnhideSession(c, p, s))
  BY <1>2, <1>3 DEF PinSession, UnpinSession, HideSession, UnhideSession
<1>5. \A p, ids : Keeps(c, HideSessions(c, p, ids)) /\ Keeps(c, UnhideSessions(c, p, ids))
  BY <1>2, <1>3, KeepsUnchanged DEF HideSessions, UnhideSessions
<1> QED
  BY <1>4, <1>5 DEF SessionOutcome, ManyOutcome

LEMMA SnoozeKeeps ==
    ASSUME NEW c, IsSettings(c), NEW call, clock \in Nat
    PROVE  Keeps(c, SnoozeOutcome(c, call))
<1>1. \A until \in Nat : Keeps(c, SetSnooze(c, until))
  BY SnoozeEdit, KeepsOutcomes DEF SetSnooze
<1>2. \A minutes : Keeps(c, Snooze(c, minutes, clock, Midnight))
  <2> TAKE minutes
  <2>1. CASE minutes = -1
    BY <2>1, <1>1, ConfigStoreAssumption DEF Snooze
  <2>2. CASE minutes \in 1..1440
    <3>1. minutes # -1 /\ clock + minutes \in Nat
      BY <2>2
    <3> QED
      BY <3>1, <2>2, <1>1 DEF Snooze
  <2>3. CASE minutes # -1 /\ minutes \notin 1..1440
    BY <2>3, KeepsUnchanged DEF Snooze
  <2> QED
    BY <2>1, <2>2, <2>3
<1>3. Keeps(c, ClearSnooze(c))
  BY <1>1 DEF ClearSnooze
<1> QED
  BY <1>2, <1>3 DEF SnoozeOutcome

\* An update keeps the form; only one that names the root changes it.
LEMMA MergeKeeps ==
    ASSUME NEW old, NEW data
    PROVE  /\ DOMAIN JsonMerge(old, data) = DOMAIN old \cup DOMAIN data
           /\ \A k \in DOMAIN old : k \notin DOMAIN data => JsonMerge(old, data)[k] = old[k]
BY DEF JsonMerge

LEMMA NormalRoot ==
    ASSUME NEW section, NEW data
    PROVE  /\ DOMAIN WithNormalRoot(section, data) = DOMAIN data
           /\ section # "general" => WithNormalRoot(section, data) = data
BY DEF WithNormalRoot

LEMMA SnoozeMerge ==
    ASSUME NEW old, NEW data, "snoozedUntil" \in DOMAIN old, old.snoozedUntil \in Nat,
           "snoozedUntil" \in DOMAIN data => /\ ValidateNotifications("snoozedUntil", data["snoozedUntil"])
                                             /\ data["snoozedUntil"].kind # "fraction"
                                             /\ data["snoozedUntil"].kind = "number" => data["snoozedUntil"].v \in Int
    PROVE  JsonMerge(old, data)["snoozedUntil"] \in Nat
<1>1. CASE "snoozedUntil" \notin DOMAIN data
  BY <1>1, MergeKeeps
<1>2. CASE "snoozedUntil" \in DOMAIN data
  <2> DEFINE e == data["snoozedUntil"]
             was == old["snoozedUntil"]
  <2>0. "snoozedUntil" \notin Flags("notifications")
    BY DEF Flags
  <2>1. e.kind = "null" \/ (e.kind = "number" /\ e.v >= 0 /\ e.v \in Int)
    <3>1. /\ e.kind \in {"null", "number", "fraction"}
          /\ e.kind # "null" => e.v >= 0
      BY <1>2, <2>0 DEF ValidateNotifications
    <3> QED
      BY <1>2, <3>1
  <2>2. JsonMerge(old, data)["snoozedUntil"] = Merged(was, e, 0)
    BY <1>2, <2>1 DEF JsonMerge
  <2>3. Merged(was, e, 0) \in Nat
    BY <2>1 DEF Merged
  <2> QED
    BY <2>2, <2>3
<1> QED
  BY <1>1, <1>2

LEMMA UpdateKeeps ==
    ASSUME NEW c, IsSettings(c), NEW call, call.op = "update", IsCall(call),
           UpdateConfig(c, call.section, call.data).changed
    PROVE  /\ IsSettings(UpdateConfig(c, call.section, call.data).config)
           /\ ~NamesRoot(call) => KeepsRoot(c, UpdateConfig(c, call.section, call.data).config)
<1> DEFINE section == call.section
           data == call.data
           sent == WithNormalRoot(section, data)
           merged == JsonMerge(c[section], sent)
           d == [c EXCEPT ![section] = merged]
<1>1. /\ section \in Sections
      /\ ValidateUpdatePayload(section, data)
      /\ Deserializes(section, data, merged)
      /\ UpdateConfig(c, section, data).config = d
  BY DEF UpdateConfig, Refused, Changed
<1>2. DOMAIN sent = DOMAIN data /\ (section # "general" => sent = data)
  BY NormalRoot
<1> HIDE DEF sent
<1>3. DOMAIN merged = DOMAIN c[section] \cup DOMAIN data
  <2>1. DOMAIN JsonMerge(c[section], sent) = DOMAIN c[section] \cup DOMAIN sent
    BY MergeKeeps
  <2>2. DOMAIN sent = DOMAIN data
    BY <1>2
  <2> QED
    BY <2>1, <2>2
<1>4. section = "general" /\ "claudeRootPath" \notin DOMAIN data => merged.claudeRootPath = c.general.claudeRootPath
  <2> SUFFICES ASSUME section = "general", "claudeRootPath" \notin DOMAIN sent
               PROVE  JsonMerge(c.general, sent)["claudeRootPath"] = c.general["claudeRootPath"]
    BY <1>2
  <2>1. "claudeRootPath" \in DOMAIN c.general
    BY DEF IsSettings
  <2>2. \A k \in DOMAIN c.general : k \notin DOMAIN sent => JsonMerge(c.general, sent)[k] = c.general[k]
    BY MergeKeeps
  <2> QED
    BY <2>1, <2>2
<1>5. section = "notifications" => merged.snoozedUntil \in Nat
  <2> SUFFICES ASSUME section = "notifications" PROVE merged.snoozedUntil \in Nat
    OBVIOUS
  <2>1. sent = data
    BY <1>2
  <2>2. "snoozedUntil" \in DOMAIN data => /\ ValidateNotifications("snoozedUntil", data["snoozedUntil"])
                                          /\ data["snoozedUntil"].kind # "fraction"
                                          /\ data["snoozedUntil"].kind = "number" => data["snoozedUntil"].v \in Int
    BY <1>1 DEF ValidateUpdatePayload, Validate, Deserializes, IsCall
  <2> QED
    BY <2>1, <2>2, SnoozeMerge DEF IsSettings
<1> HIDE DEF merged
<1>6. DOMAIN d = DOMAIN c /\ d[section] = merged /\ \A o \in DOMAIN c \ {section} : d[o] = c[o]
  BY <1>1, SettingsNames DEF IsSettings
<1>7. d.notifications = (IF section = "notifications" THEN merged ELSE c.notifications)
  BY <1>6, SettingsNames DEF IsSettings
<1>8. d.general = (IF section = "general" THEN merged ELSE c.general)
  BY <1>6, SettingsNames DEF IsSettings
<1> HIDE DEF d
<1>9. IsSettings(d)
  BY <1>3, <1>5, <1>6, <1>7, <1>8 DEF IsSettings
<1>10. ~NamesRoot(call) => d.general.claudeRootPath = c.general.claudeRootPath
  BY <1>4, <1>8 DEF NamesRoot, UpdatesRoot
<1> QED
  BY <1>1, <1>9, <1>10 DEF KeepsRoot

LEMMA OutcomeKeeps ==
    ASSUME NEW c, IsSettings(c), NEW call, IsCall(call), clock \in Nat, Outcome(c, call).changed
    PROVE  /\ IsSettings(Outcome(c, call).config)
           /\ ~NamesRoot(call) => KeepsRoot(c, Outcome(c, call).config)
<1>1. CASE call.op = "update"
  <2>1. Outcome(c, call) = UpdateConfig(c, call.section, call.data)
    BY <1>1 DEF Outcome
  <2> QED
    BY <1>1, <2>1, UpdateKeeps
<1>2. CASE call.op # "update"
  <2>1. Keeps(c, Outcome(c, call))
    BY <1>2, TriggerKeeps, IgnoreKeeps, SessionKeeps, SnoozeKeeps DEF Outcome
  <2> QED
    BY <2>1 DEF Keeps, KeepsRoot
<1> QED
  BY <1>1, <1>2

-----------------------------------------------------------------------------
(* The form of the state. *)

CheckFields == {"pc", "error", "until", "now"}
FormInv ==
    /\ scenario \in DOMAIN Scenarios
    /\ clock \in Nat
    /\ CallsInv
    /\ \A w \in Workers : IsCall(calls[w].call)
    /\ IsSettings(config)
    /\ file.state \in {"torn", "whole"}
    /\ file.state = "whole" => IsSettings(file.config)

\* A call of a check is under way while the check waits for it.
ClearInv ==
    /\ DOMAIN checks = Checkers
    /\ \A c \in Checkers :
          /\ DOMAIN checks[c] = CheckFields
          /\ calls[c].pc # "idle" => checks[c].pc = "clear"
          /\ checks[c].pc = "clear" => checks[c].until \in Nat /\ checks[c].until <= clock

LEMMA DefaultsAreSettings == IsSettings(DefaultConfig)
<1> DEFINE n == DefaultConfig.notifications
           g == DefaultConfig.general
<1>1. "snoozedUntil" \notin Flags("notifications") /\ "claudeRootPath" \notin Flags("general")
  BY DEF Flags
<1>2. \A section, on : DOMAIN Off(section, on) = Flags(section)
  BY DEF Off
<1>3. \A flags, values : /\ DOMAIN Settings(flags, values) = DOMAIN flags \cup DOMAIN values
                         /\ \A k \in DOMAIN values \ DOMAIN flags : Settings(flags, values)[k] = values[k]
  BY DEF Settings
<1>4. \E values : /\ n = Settings(Off("notifications", Flags("notifications")), values)
                  /\ "snoozedUntil" \in DOMAIN values /\ values["snoozedUntil"] = 0
  BY DEF DefaultConfig
<1>5. \E values : /\ g = Settings(Off("general", {"showDockIcon"}), values)
                  /\ "claudeRootPath" \in DOMAIN values
  BY DEF DefaultConfig
<1> HIDE DEF n, g
<1>6. "snoozedUntil" \in DOMAIN n /\ n["snoozedUntil"] = 0
  <2> DEFINE off == Off("notifications", Flags("notifications"))
  <2>1. PICK values : /\ n = Settings(off, values)
                      /\ "snoozedUntil" \in DOMAIN values /\ values["snoozedUntil"] = 0
    BY <1>4
  <2>2. "snoozedUntil" \notin DOMAIN off
    BY <1>1, <1>2
  <2> HIDE DEF off
  <2>3. "snoozedUntil" \in DOMAIN values \ DOMAIN off
    BY <2>1, <2>2
  <2>4. DOMAIN Settings(off, values) = DOMAIN off \cup DOMAIN values
    BY <1>3
  <2>5. Settings(off, values)["snoozedUntil"] = values["snoozedUntil"]
    BY <1>3, <2>3
  <2> QED
    BY <2>1, <2>3, <2>4, <2>5
<1>7. "claudeRootPath" \in DOMAIN g
  <2> DEFINE off == Off("general", {"showDockIcon"})
  <2>1. PICK values : g = Settings(off, values) /\ "claudeRootPath" \in DOMAIN values
    BY <1>5
  <2> HIDE DEF off
  <2> QED
    BY <1>3, <2>1
<1> QED
  BY <1>6, <1>7 DEF IsSettings, n, g

LEMMA LoadedIsSettings ==
    ASSUME NEW c, IsSettings(c)
    PROVE  KeepsRoot(c, Loaded(c))
BY KeepsNotified DEF Loaded, WithTriggers

LEMMA FormInit ==
    ASSUME NativeInit
    PROVE  FormInv /\ ClearInv
<1>1. PICK f \in {Absent} \cup {Whole(c, 0) : c \in OldFiles} :
          file = InitialFile(f) /\ config = InitialConfig(f)
  BY DEF NativeInit, Init
<1>2. IsSettings(config) /\ file.state = "whole" /\ IsSettings(file.config)
  <2>1. CASE f = Absent
    BY <1>1, <2>1, DefaultsAreSettings, LoadedIsSettings
       DEF InitialFile, InitialConfig, Absent, Whole, KeepsRoot
  <2>2. CASE f \in {Whole(c, 0) : c \in OldFiles}
    BY <1>1, <2>2, ConfigStoreAssumption, LoadedIsSettings
       DEF InitialFile, InitialConfig, Whole, KeepsRoot
  <2> QED
    BY <2>1, <2>2
<1>3. CallsInv /\ \A w \in Workers : calls[w] = Idle
  BY IdleCall DEF NativeInit, Init, CallsInv
<1>4. \A w \in Workers : IsCall(calls[w].call)
  BY <1>3 DEF IsCall, Idle, None
<1>5. FormInv
  BY <1>2, <1>3, <1>4 DEF FormInv, NativeInit, Init
<1>6. DOMAIN checks = Checkers /\ \A c \in Checkers : checks[c] = Unchecked
  BY DEF NativeInit
<1>7. DOMAIN Unchecked = CheckFields /\ Unchecked.pc # "clear"
  BY DEF Unchecked, CheckFields
<1>8. ClearInv
  BY <1>3, <1>6, <1>7, IdleCall DEF ClearInv, Workers
<1> QED
  BY <1>5, <1>8

LEMMA ScenarioAndClock ==
    ASSUME [Next]_vars
    PROVE  scenario' = scenario /\ (clock' = clock \/ clock' = clock + 1)
<1>1. ASSUME NEW w, NEW call, Begin(w, call) PROVE scenario' = scenario /\ clock' = clock
  BY <1>1 DEF Begin
<1>2. ASSUME NEW w, CallStep(w) PROVE scenario' = scenario /\ clock' = clock
  BY <1>2 DEF CallStep, Mutate, StartWrite, FinishWrite, FailWrite, SetRoot, ReadRoot, ReplaceContext
<1>3. ASSUME Start \/ Crash PROVE scenario' = scenario /\ clock' = clock
  BY <1>3 DEF Start, Crash
<1>4. ASSUME NEW c, Enabled(c) \/ Cleared(c) \/ Repository(c) \/ Regex(c) \/ ReadClock(c) \/ Throttle(c)
      PROVE  scenario' = scenario /\ clock' = clock
  BY <1>4 DEF Enabled, Cleared, Repository, Regex, ReadClock, Throttle, storeVars
<1>5. ASSUME NEW c, NEW e, Arrive(c, e) PROVE scenario' = scenario /\ clock' = clock
  BY <1>5 DEF Arrive, storeVars
<1>6. ASSUME Forget \/ Click \/ UNCHANGED vars PROVE scenario' = scenario /\ clock' = clock
  BY <1>6 DEF Forget, Click, vars, storeVars
<1>7. ASSUME Tick PROVE scenario' = scenario /\ clock' = clock + 1
  BY <1>7 DEF Tick
<1> QED
  BY <1>1, <1>2, <1>3, <1>4, <1>5, <1>6, <1>7 DEF Next, Ends

LEMMA FormNext ==
    ASSUME FormInv, [Next]_vars
    PROVE  FormInv'
<1>1. SettingsStep
  BY SettingsSteps DEF FormInv
<1>2. CallsInv /\ CallsInv'
  BY <1>1, StepCalls DEF FormInv
<1>3. scenario' \in DOMAIN Scenarios /\ clock' \in Nat
  BY ScenarioAndClock DEF FormInv
<1> DEFINE Same0 == config' = config /\ file' \in {file, Torn, Whole(config, version)}
           Parts == /\ \A w \in Workers : IsCall(calls'[w].call)
                    /\ IsSettings(config')
                    /\ file'.state \in {"torn", "whole"}
                    /\ file'.state = "whole" => IsSettings(file'.config)
<1>4. ASSUME Same0 PROVE /\ IsSettings(config')
                         /\ file'.state \in {"torn", "whole"}
                         /\ file'.state = "whole" => IsSettings(file'.config)
  BY <1>4 DEF FormInv, Torn, Whole
<1>5. IsCall(Idle.call)
  BY DEF IsCall, Idle, None
<1>6. ASSUME \E w \in Callers : \E call : IsCall(call) /\ Begin(w, call) PROVE Parts
  <2> PICK w \in Callers : \E call : IsCall(call) /\ Begin(w, call)
    BY <1>6
  <2> PICK call : IsCall(call) /\ Begin(w, call)
    OBVIOUS
  <2> DEFINE r == [Idle EXCEPT !.pc = "mutate", !.call = call]
  <2>1. w \in Workers /\ DOMAIN r = CallFields /\ r.call = call
    BY DEF Workers, Idle, CallFields
  <2>2. calls' = calls \/ calls' = [calls EXCEPT ![w] = r]
    BY DEF Begin
  <2> HIDE DEF r
  <2>3. \A o \in Workers : IsCall(calls'[o].call)
    BY <2>1, <2>2, <1>2, CallEdit DEF FormInv
  <2> QED
    BY <2>3, <1>4 DEF Begin
<1>7. ASSUME NEW w \in Workers, CallStep(w) PROVE Parts
  <2>1. CASE Mutate(w)
    <3>1. \A o \in Workers : IsCall(calls'[o].call)
      BY <2>1, <1>2, <1>5, MutateCalls DEF FormInv
    <3>2. IsSettings(config')
      <4>1. CASE Outcome(config, calls[w].call).changed
        BY <2>1, <4>1, OutcomeKeeps DEF Mutate, FormInv
      <4>2. CASE ~Outcome(config, calls[w].call).changed
        BY <2>1, <4>2 DEF Mutate, FormInv
      <4> QED
        BY <4>1, <4>2
    <3>3. file' = file
      BY <2>1 DEF Mutate
    <3> QED
      BY <3>1, <3>2, <3>3 DEF FormInv
  <2>2. CASE ~Mutate(w)
    <3>1. Same0
      BY <1>7, <2>2 DEF CallStep, StartWrite, FinishWrite, FailWrite, SetRoot, ReadRoot, ReplaceContext,
                        Torn, Content
    <3>2. \A o \in Workers : IsCall(calls'[o].call)
      <4>1. CASE ReadRoot(w)
        BY <4>1 DEF ReadRoot, FormInv, CallsInv, CallFields
      <4>2. CASE ~ReadRoot(w)
        <5>1. (\E pc : Moves(w, pc)) \/ calls' = [calls EXCEPT ![w] = Idle]
          BY <1>7, <2>2, <4>2 DEF CallStep, StartWrite, FinishWrite, FailWrite, SetRoot, ReplaceContext
        <5>2. CASE \E pc : Moves(w, pc)
          <6>1. PICK pc : Moves(w, pc)
            BY <5>2
          <6>2. "call" \in CallFields \ {"pc"}
            BY DEF CallFields
          <6> QED
            BY <1>2, <6>1, <6>2, PcEdit DEF FormInv
        <5>3. CASE calls' = [calls EXCEPT ![w] = Idle]
          BY <5>3, <1>2, <1>5, IdleCall, CallEdit DEF FormInv
        <5> QED
          BY <5>1, <5>2, <5>3
      <4> QED
        BY <4>1, <4>2
    <3> QED
      BY <3>1, <3>2, <1>4
  <2> QED
    BY <2>1, <2>2
<1>8. ASSUME Start PROVE Parts
  <2>1. file.state = "whole"
    BY <1>8 DEF Start, FormInv
  <2>2. file' = file /\ config' = Loaded(file.config) /\ calls' = calls
    BY <1>8, <2>1 DEF Start, InitialFile, InitialConfig
  <2> QED
    BY <2>1, <2>2, LoadedIsSettings DEF FormInv, KeepsRoot
<1>9. ASSUME Crash PROVE Parts
  <2>1. \A o \in Workers : IsCall(calls'[o].call)
    BY <1>9, <1>5 DEF Crash
  <2> QED
    BY <1>9, <2>1, <1>4 DEF Crash
<1>10. ASSUME \E c \in Checkers : Enabled(c) PROVE Parts
  <2> PICK c \in Checkers : Enabled(c)
    BY <1>10
  <2> DEFINE r == [Idle EXCEPT !.pc = "mutate", !.call = [op |-> "clear_snooze"]]
  <2>1. c \in Workers /\ DOMAIN r = CallFields /\ IsCall(r.call)
    BY DEF Workers, Idle, CallFields, IsCall
  <2>2. calls' = calls \/ calls' = [calls EXCEPT ![c] = r]
    BY DEF Enabled
  <2> HIDE DEF r
  <2>3. \A o \in Workers : IsCall(calls'[o].call)
    BY <2>1, <2>2, <1>2, CallEdit DEF FormInv
  <2> QED
    BY <2>3, <1>4 DEF Enabled
<1>11. ASSUME UNCHANGED SettingsRest PROVE Parts
  BY <1>11 DEF SettingsRest, FormInv
<1>12. Parts
  BY <1>1, <1>6, <1>7, <1>8, <1>9, <1>10, <1>11 DEF SettingsStep
<1> QED
  BY <1>2, <1>3, <1>12 DEF FormInv

\* A step of a worker begins no call.
LEMMA StepFollows ==
    ASSUME CallsInv, NEW w \in Workers, CallStep(w)
    PROVE  /\ running /\ calls[w].pc # "idle"
           /\ \A o \in Workers \ {w} : calls'[o] = calls[o]
           /\ Mutate(w) \/ ReadRoot(w) \/ (\E pc : Moves(w, pc)) \/ calls' = [calls EXCEPT ![w] = Idle]
<1>1. running /\ calls[w].pc # "idle"
  BY DEF CallStep, Mutate, StartWrite, FinishWrite, FailWrite, SetRoot, ReadRoot, ReplaceContext, At
<1>2. Mutate(w) \/ ReadRoot(w) \/ (\E pc : Moves(w, pc)) \/ calls' = [calls EXCEPT ![w] = Idle]
  BY DEF CallStep, StartWrite, FinishWrite, FailWrite, SetRoot, ReplaceContext
<1>3. ReadRoot(w) => \A o \in Workers \ {w} : calls'[o] = calls[o]
  BY DEF ReadRoot, CallsInv
<1> QED
  BY <1>1, <1>2, <1>3, MutateCalls, PcEdit, CallEdit, IdleCall

\* The step of a check that asks nobody.
LEMMA CheckMoves ==
    ASSUME ClearInv, NEW c \in Checkers, checks[c].pc # "clear" \/ calls[c].pc = "idle", calls' = calls,
           clock' = clock,
           \/ \E pc : pc # "clear" /\ Goes(c, pc)
           \/ \E r : DOMAIN r = CheckFields /\ r.pc # "clear" /\ checks' = [checks EXCEPT ![c] = r]
           \/ checks' = [checks EXCEPT ![c].pc = "throttle", ![c].now = clock]
    PROVE  ClearInv'
<1>1. /\ DOMAIN checks' = Checkers
      /\ DOMAIN checks'[c] = CheckFields
      /\ checks'[c].pc # "clear"
      /\ \A o \in Checkers \ {c} : checks'[o] = checks[o]
  <2>1. CASE \E pc : pc # "clear" /\ Goes(c, pc)
    BY <2>1 DEF ClearInv, Goes, CheckFields
  <2>2. CASE \E r : DOMAIN r = CheckFields /\ r.pc # "clear" /\ checks' = [checks EXCEPT ![c] = r]
    BY <2>2 DEF ClearInv
  <2>3. CASE checks' = [checks EXCEPT ![c].pc = "throttle", ![c].now = clock]
    BY <2>3 DEF ClearInv, CheckFields
  <2> QED
    BY <2>1, <2>2, <2>3
<1>2. calls[c].pc = "idle"
  BY DEF ClearInv
<1> QED
  BY <1>1, <1>2 DEF ClearInv

LEMMA UncheckedFields == DOMAIN Unchecked = CheckFields /\ Unchecked.pc = "idle"
BY DEF Unchecked, CheckFields

LEMMA ClearNext ==
    ASSUME FormInv, ClearInv, [Next]_vars
    PROVE  ClearInv'
<1> USE UncheckedFields
<1>0. CallsInv /\ Checkers \subseteq Workers /\ clock \in Nat /\ IsSettings(config)
  BY DEF FormInv, Workers
<1>1. ASSUME checks' = checks, clock' = clock \/ clock' = clock + 1,
             \A c \in Checkers : calls'[c].pc # "idle" => calls[c].pc # "idle"
      PROVE  ClearInv'
  BY <1>0, <1>1 DEF ClearInv
<1>2. CASE \E w \in Callers : \E i \in DOMAIN Scenarios[scenario].calls :
              Begin(w, Scenarios[scenario].calls[i]) /\ UNCHANGED nativeVars
  <2> PICK w \in Callers : \E call : Begin(w, call) /\ UNCHANGED nativeVars
    BY <1>2
  <2> PICK call : Begin(w, call) /\ UNCHANGED nativeVars
    OBVIOUS
  <2>1. w \in Workers /\ w \notin Checkers
    BY ConfigStoreAssumption DEF Workers
  <2>2. calls' = calls \/ \A c \in Checkers : calls'[c] = calls[c]
    BY <2>1, <1>0 DEF Begin, CallsInv
  <2> QED
    BY <1>1, <2>2 DEF Begin, nativeVars
<1>3. CASE \E w \in Workers : CallStep(w) /\ UNCHANGED nativeVars
  <2> PICK w \in Workers : CallStep(w) /\ UNCHANGED nativeVars
    BY <1>3
  <2>1. clock' = clock
    BY DEF CallStep, Mutate, StartWrite, FinishWrite, FailWrite, SetRoot, ReadRoot, ReplaceContext
  <2>2. \A c \in Checkers : calls'[c].pc # "idle" => calls[c].pc # "idle"
    BY <1>0, StepFollows
  <2> QED
    BY <1>1, <2>1, <2>2 DEF nativeVars
<1>4. CASE Start /\ UNCHANGED nativeVars
  BY <1>1, <1>4 DEF Start, nativeVars
<1>5. CASE Ends
  BY <1>5, <1>0, IdleCall DEF Ends, Crash, ClearInv
<1>6. CASE \E c \in Checkers, e \in Errors : Arrive(c, e)
  <2> PICK c \in Checkers, e \in Errors : Arrive(c, e)
    BY <1>6
  <2> DEFINE r == [Unchecked EXCEPT !.pc = "enabled", !.error = e]
  <2>1. DOMAIN r = CheckFields /\ r.pc # "clear"
    BY DEF Unchecked, CheckFields
  <2>2. checks' = [checks EXCEPT ![c] = r] /\ checks[c].pc # "clear" /\ calls' = calls /\ clock' = clock
    BY DEF Arrive, Asks, storeVars
  <2> HIDE DEF r
  <2> QED
    BY <2>1, <2>2, CheckMoves
<1>7. CASE \E c \in Checkers : Enabled(c)
  <2> PICK c \in Checkers : Enabled(c)
    BY <1>7
  <2> DEFINE until == config.notifications.snoozedUntil
             r == [Idle EXCEPT !.pc = "mutate", !.call = [op |-> "clear_snooze"]]
  <2>1. checks[c].pc = "enabled" /\ clock' = clock
    BY DEF Enabled, Asks
  <2>2. CASE ~config.notifications.enabled \/ (until # 0 /\ ~Expired(until))
    BY <2>1, <2>2, CheckMoves DEF Enabled, Drops
  <2>3. CASE config.notifications.enabled /\ Expired(until)
    <3>1. /\ checks' = [checks EXCEPT ![c].pc = "clear", ![c].until = until]
          /\ calls' = [calls EXCEPT ![c] = r]
      BY <2>3 DEF Enabled, Expired
    <3>2. DOMAIN r = CallFields
      BY DEF Idle, CallFields
    <3> HIDE DEF r
    <3>3. \A o \in Checkers \ {c} : calls'[o] = calls[o]
      BY <1>0, <3>1, <3>2, CallEdit
    <3>4. until \in Nat /\ until <= clock
      BY <1>0, <2>3 DEF IsSettings, Expired
    <3> HIDE DEF until
    <3>5. /\ DOMAIN checks' = Checkers
          /\ DOMAIN checks'[c] = CheckFields
          /\ checks'[c].pc = "clear" /\ checks'[c].until = until
          /\ \A o \in Checkers \ {c} : checks'[o] = checks[o]
      BY <3>1 DEF ClearInv, CheckFields
    <3> QED
      BY <2>1, <3>3, <3>4, <3>5 DEF ClearInv
  <2>4. CASE config.notifications.enabled /\ until = 0
    <3>1. Goes(c, "repository") /\ calls' = calls
      BY <2>4 DEF Enabled, Expired
    <3> QED
      BY <2>1, <3>1, CheckMoves
  <2> QED
    BY <2>2, <2>3, <2>4
<1>8. CASE \E c \in Checkers : Cleared(c) \/ Repository(c) \/ Regex(c) \/ ReadClock(c) \/ Throttle(c)
  <2> PICK c \in Checkers : Cleared(c) \/ Repository(c) \/ Regex(c) \/ ReadClock(c) \/ Throttle(c)
    BY <1>8
  <2>1. calls' = calls /\ clock' = clock
    BY DEF Cleared, Repository, Regex, ReadClock, Throttle, storeVars
  <2>2. checks[c].pc # "clear" \/ calls[c].pc = "idle"
    BY DEF Cleared, Repository, Regex, ReadClock, Throttle, Asks
  <2>3. \/ \E pc : pc # "clear" /\ Goes(c, pc)
        \/ Drops(c)
        \/ checks' = [checks EXCEPT ![c].pc = "throttle", ![c].now = clock]
    BY DEF Cleared, Repository, Regex, ReadClock, Throttle
  <2> QED
    BY <2>1, <2>2, <2>3, CheckMoves DEF Drops
<1>9. CASE Forget \/ Click \/ Tick \/ UNCHANGED vars
  BY <1>1, <1>9 DEF Forget, Click, Tick, vars, storeVars, nativeVars
<1> QED
  BY <1>2, <1>3, <1>4, <1>5, <1>6, <1>7, <1>8, <1>9 DEF Next

LEMMA FormOK == Spec => [](FormInv /\ ClearInv)
<1>1. NativeInit => FormInv /\ ClearInv
  BY FormInit
<1>2. FormInv /\ ClearInv /\ [Next]_vars => (FormInv /\ ClearInv)'
  BY FormNext, ClearNext
<1> QED
  BY <1>1, <1>2, PTL DEF Spec

-----------------------------------------------------------------------------
(* The file. *)

\* A change that is not yet in the file, and one that is, of calls that have
\* not returned.
Unwritten(w) == calls[w].pc \in {"persist", "writing"}
Written(w) == calls[w].pc \in {"root", "rebuild", "replace"}

\* No call has a number above that of the settings in memory; a file that can
\* be read has every change that was written; and while nothing failed and
\* no change waits, it has the settings in memory.
SavedInv ==
    /\ version \in Nat /\ acked \in Nat /\ file.version \in Nat
    /\ \A w \in Workers : calls[w].version \in Nat
    /\ ~running => \A w \in Workers : calls[w] = Idle
    /\ running => acked <= version /\ \A w \in Workers : calls[w].version <= version
    /\ file.state = "whole" =>
          acked <= file.version /\ \A w \in Workers : Written(w) => calls[w].version <= file.version
    /\ running /\ ~unsaved /\ (\A w \in Workers : ~Unwritten(w)) =>
          file.state = "whole" /\ config \in {file.config, Loaded(file.config)}

\* The larger of two numbers.
LEMMA MaxOfTwo ==
    ASSUME NEW a \in Nat, NEW b \in Nat
    PROVE  Max({a, b}) \in {a, b} /\ Max({a, b}) >= a /\ Max({a, b}) >= b
<1>1. \E x \in {a, b} : \A y \in {a, b} : x >= y
  BY a >= b \/ b >= a
<1> QED
  BY <1>1 DEF Max

LEMMA SavedInit ==
    ASSUME NativeInit
    PROVE  SavedInv
<1>1. PICK f \in {Absent} \cup {Whole(c, 0) : c \in OldFiles} :
          file = InitialFile(f) /\ config = InitialConfig(f)
  BY DEF NativeInit, Init
<1>2. file.state = "whole" /\ file.version = 0 /\ config \in {file.config, Loaded(file.config)}
  BY <1>1 DEF InitialFile, InitialConfig, Absent, Whole
<1>3. \A w \in Workers : calls[w].pc = "idle" /\ calls[w].version = 0
  BY IdleCall DEF NativeInit, Init
<1> QED
  BY <1>2, <1>3 DEF NativeInit, Init, SavedInv, Written

\* A call that returns: the number that is acknowledged is one the file has.
LEMMA Returns ==
    ASSUME FormInv, SavedInv, running, NEW w \in Workers, Written(w), calls' = [calls EXCEPT ![w] = Idle],
           acked' = Max({acked, calls[w].version}),
           UNCHANGED <<running, config, file, version, unsaved>>
    PROVE  SavedInv'
<1>1. CallsInv
  BY DEF FormInv
<1>2. calls'[w] = Idle /\ \A o \in Workers \ {w} : calls'[o] = calls[o]
  BY <1>1, IdleCall, CallEdit
<1>3. /\ acked' \in {acked, calls[w].version}
      /\ acked' \in Nat
  BY MaxOfTwo DEF SavedInv
<1>4. acked' <= version /\ (file.state = "whole" => acked' <= file.version)
  BY <1>3 DEF SavedInv
<1>5. \A o \in Workers : /\ calls'[o].version \in Nat /\ calls'[o].version <= version
                         /\ Written(o)' => Written(o) /\ calls'[o].version = calls[o].version
                         /\ Unwritten(o) => Unwritten(o)'
  BY <1>2, IdleCall DEF SavedInv, Written, Unwritten
<1> QED
  BY <1>3, <1>4, <1>5 DEF SavedInv

LEMMA MutateSaved ==
    ASSUME FormInv, SavedInv, NEW w \in Workers, Mutate(w)
    PROVE  SavedInv'
<1>1. CallsInv
  BY DEF FormInv
<1>2. UNCHANGED <<running, file, acked, unsaved>> /\ running /\ calls[w].pc = "mutate"
  BY DEF Mutate, At
<1>3. CASE Outcome(config, calls[w].call).changed
  <2>1. version' = version + 1 /\ calls'[w].pc = "persist" /\ calls'[w].version = version + 1
    BY <1>1, <1>3, MutateCalls
  <2>2. \A o \in Workers \ {w} : calls'[o] = calls[o]
    BY <1>1, MutateCalls
  <2>3. /\ version' \in Nat
        /\ \A o \in Workers : calls'[o].version \in Nat /\ calls'[o].version <= version'
    BY <2>1, <2>2, <1>2 DEF SavedInv
  <2>4. acked' <= version' /\ acked' \in Nat
    BY <2>1, <1>2 DEF SavedInv
  <2>5. \A o \in Workers : Written(o)' => Written(o) /\ calls'[o].version = calls[o].version
    BY <2>1, <2>2 DEF Written
  <2>6. Unwritten(w)'
    BY <2>1 DEF Unwritten
  <2> QED
    BY <1>2, <2>3, <2>4, <2>5, <2>6 DEF SavedInv
<1>4. CASE ~Outcome(config, calls[w].call).changed
  <2>1. config' = config /\ version' = version /\ calls' = [calls EXCEPT ![w] = Idle]
    BY <1>4 DEF Mutate
  <2>2. calls'[w] = Idle /\ \A o \in Workers \ {w} : calls'[o] = calls[o]
    BY <1>1, <2>1, IdleCall, CallEdit
  <2>3. \A o \in Workers : /\ calls'[o].version \in Nat /\ calls'[o].version <= version
                           /\ Written(o)' => Written(o) /\ calls'[o].version = calls[o].version
                           /\ Unwritten(o) => Unwritten(o)'
    BY <1>2, <2>2, IdleCall DEF SavedInv, Written, Unwritten
  <2> QED
    BY <1>2, <2>1, <2>3 DEF SavedInv
<1> QED
  BY <1>3, <1>4

LEMMA SavedNext ==
    ASSUME FormInv, ClearInv, SavedInv, [Next]_vars
    PROVE  SavedInv'
<1>0. SettingsStep /\ CallsInv
  BY SettingsSteps DEF FormInv
<1>1. ASSUME NEW w \in Workers, NEW r, calls' = [calls EXCEPT ![w] = r], DOMAIN r = CallFields,
             r.pc = "mutate", r.version = 0, calls[w].pc = "idle", running,
             UNCHANGED <<running, config, file, version, acked, unsaved>>
      PROVE  SavedInv'
  <2>1. calls'[w] = r /\ \A o \in Workers \ {w} : calls'[o] = calls[o]
    BY <1>0, <1>1, CallEdit
  <2>2. \A o \in Workers : /\ calls'[o].version \in Nat /\ calls'[o].version <= version
                           /\ Written(o)' => Written(o) /\ calls'[o].version = calls[o].version
                           /\ Unwritten(o) => Unwritten(o)'
    BY <1>1, <2>1 DEF SavedInv, Written, Unwritten
  <2> QED
    BY <1>1, <2>2 DEF SavedInv
<1>2. ASSUME UNCHANGED <<calls, running, config, file, version, acked, unsaved>>
      PROVE  SavedInv'
  BY <1>2 DEF SavedInv, Written, Unwritten
<1>3. CASE \E w \in Callers : \E call : IsCall(call) /\ Begin(w, call)
  <2> PICK w \in Callers : \E call : Begin(w, call)
    BY <1>3
  <2> PICK call : Begin(w, call)
    OBVIOUS
  <2> DEFINE r == [Idle EXCEPT !.pc = "mutate", !.call = call]
  <2>1. w \in Workers /\ DOMAIN r = CallFields /\ r.pc = "mutate" /\ r.version = 0
    BY DEF Workers, Idle, CallFields
  <2>2. calls' = calls \/ calls' = [calls EXCEPT ![w] = r]
    BY DEF Begin
  <2>3. calls[w].pc = "idle" /\ running /\ UNCHANGED <<running, config, file, version, acked, unsaved>>
    BY DEF Begin, At
  <2> HIDE DEF r
  <2> QED
    BY <1>1, <1>2, <2>1, <2>2, <2>3
<1>4. CASE \E c \in Checkers : Enabled(c)
  <2> PICK c \in Checkers : Enabled(c)
    BY <1>4
  <2> DEFINE r == [Idle EXCEPT !.pc = "mutate", !.call = [op |-> "clear_snooze"]]
  <2>1. c \in Workers /\ DOMAIN r = CallFields /\ r.pc = "mutate" /\ r.version = 0
    BY DEF Workers, Idle, CallFields
  <2>2. calls' = calls \/ calls' = [calls EXCEPT ![c] = r]
    BY DEF Enabled
  <2>3. calls[c].pc = "idle" /\ running /\ UNCHANGED <<running, config, file, version, acked, unsaved>>
    BY DEF Enabled, Asks, ClearInv
  <2> HIDE DEF r
  <2> QED
    BY <1>1, <1>2, <2>1, <2>2, <2>3
<1>5. ASSUME NEW w \in Workers, CallStep(w) PROVE SavedInv'
  <2>1. CASE Mutate(w)
    BY <2>1, MutateSaved
  <2>2. CASE StartWrite(w)
    <3>1. /\ calls'[w].pc = "writing" /\ calls'[w].version = calls[w].version
          /\ \A o \in Workers \ {w} : calls'[o] = calls[o]
      BY <1>0, <2>2, PcEdit, "version" \in CallFields \ {"pc"} DEF StartWrite, CallFields
    <3>2. file'.state = "torn" /\ file'.version = 0
      BY <2>2 DEF StartWrite, Torn
    <3>3. Unwritten(w)'
      BY <3>1 DEF Unwritten
    <3>4. \A o \in Workers : calls'[o].version = calls[o].version
      BY <3>1
    <3>5. running /\ UNCHANGED <<running, config, version, acked, unsaved>>
      BY <2>2 DEF StartWrite, At
    <3> QED
      BY <3>2, <3>3, <3>4, <3>5 DEF SavedInv
  <2>3. CASE FinishWrite(w)
    <3>1. /\ running /\ calls[w].pc = "writing" /\ UNCHANGED <<running, config, version, unsaved>>
          /\ file' = Whole(config, version)
      BY <2>3 DEF FinishWrite, At, Content
    <3>2. file'.state = "whole" /\ file'.config = config' /\ file'.version = version
      BY <3>1 DEF Whole
    <3>3. /\ calls'[w].version \in Nat /\ calls'[w].version <= version
          /\ \A o \in Workers \ {w} : calls'[o] = calls[o]
          /\ acked' \in Nat /\ acked' <= version
      <4>1. CASE UpdatesRoot(calls[w].call)
        <5>1. Moves(w, "root") /\ acked' = acked
          BY <2>3, <4>1 DEF FinishWrite
        <5>2. calls'[w].version = calls[w].version /\ \A o \in Workers \ {w} : calls'[o] = calls[o]
          BY <1>0, <5>1, PcEdit, "version" \in CallFields \ {"pc"} DEF CallFields
        <5> QED
          BY <3>1, <5>1, <5>2 DEF SavedInv
      <4>2. CASE ~UpdatesRoot(calls[w].call)
        <5>1. calls' = [calls EXCEPT ![w] = Idle] /\ acked' = Max({acked, calls[w].version})
          BY <2>3, <4>2 DEF FinishWrite
        <5>2. calls'[w] = Idle /\ \A o \in Workers \ {w} : calls'[o] = calls[o]
          BY <1>0, <5>1, CallEdit, IdleCall
        <5>3. acked' \in {acked, calls[w].version}
          BY <5>1, MaxOfTwo DEF SavedInv
        <5> QED
          BY <3>1, <5>2, <5>3, IdleCall DEF SavedInv
      <4> QED
        BY <4>1, <4>2
    <3>4. \A o \in Workers : calls'[o].version \in Nat /\ calls'[o].version <= version
      BY <3>1, <3>3 DEF SavedInv
    <3> QED
      BY <3>1, <3>2, <3>3, <3>4 DEF SavedInv
  <2>4. CASE FailWrite(w)
    <3>1. /\ calls'[w] = Idle /\ \A o \in Workers \ {w} : calls'[o] = calls[o]
          /\ running /\ unsaved' /\ UNCHANGED <<running, config, file, version, acked>>
      BY <1>0, <2>4, CallEdit, IdleCall DEF FailWrite, At
    <3>2. \A o \in Workers : /\ calls'[o].version \in Nat /\ calls'[o].version <= version
                             /\ Written(o)' => Written(o) /\ calls'[o].version = calls[o].version
      BY <3>1, IdleCall DEF SavedInv, Written
    <3> QED
      BY <3>1, <3>2 DEF SavedInv
  <2>5. ASSUME running, Written(w), \E pc : pc \in {"root", "rebuild", "replace"} /\ Moves(w, pc),
               UNCHANGED <<running, config, file, version, acked, unsaved>>
        PROVE  SavedInv'
    <3>1. /\ calls'[w].pc \in {"root", "rebuild", "replace"} /\ calls'[w].version = calls[w].version
          /\ \A o \in Workers \ {w} : calls'[o] = calls[o]
      BY <1>0, <2>5, PcEdit, "version" \in CallFields \ {"pc"} DEF CallFields
    <3>2. \A o \in Workers : /\ calls'[o].version = calls[o].version
                             /\ Written(o)' => Written(o)
                             /\ Unwritten(o) => Unwritten(o)'
      BY <2>5, <3>1 DEF Written, Unwritten
    <3> QED
      BY <2>5, <3>2 DEF SavedInv
  <2>6. CASE SetRoot(w)
    <3>1. /\ running /\ Written(w) /\ UNCHANGED <<running, config, file, version, unsaved>>
          /\ \/ Moves(w, "rebuild") /\ acked' = acked
             \/ calls' = [calls EXCEPT ![w] = Idle] /\ acked' = Max({acked, calls[w].version})
      BY <2>6 DEF SetRoot, At, Written
    <3> QED
      BY <2>5, <3>1, Returns
  <2>7. CASE ReadRoot(w)
    <3>1. /\ running /\ Written(w) /\ UNCHANGED <<running, config, file, version, acked, unsaved>>
          /\ calls' = [calls EXCEPT ![w].pc = "replace", ![w].root = ResolvedRoot(override)]
      BY <2>7 DEF ReadRoot, At, Written
    <3>2. /\ calls'[w].pc = "replace" /\ calls'[w].version = calls[w].version
          /\ \A o \in Workers \ {w} : calls'[o] = calls[o]
      BY <1>0, <3>1 DEF CallsInv, CallFields
    <3>3. \A o \in Workers : /\ calls'[o].version = calls[o].version
                             /\ Written(o)' => Written(o)
                             /\ Unwritten(o) => Unwritten(o)'
      BY <3>1, <3>2 DEF Written, Unwritten
    <3> QED
      BY <3>1, <3>3 DEF SavedInv
  <2>8. CASE ReplaceContext(w)
    BY <2>8, Returns DEF ReplaceContext, At, Written
  <2> QED
    BY <1>5, <2>1, <2>2, <2>3, <2>4, <2>6, <2>7, <2>8 DEF CallStep
<1>6. CASE Start
  <2>1. file.state = "whole"
    BY <1>6 DEF Start, FormInv
  <2>2. file' = file /\ config' = Loaded(file.config) /\ version' = file.version /\ calls' = calls /\ acked' = acked
    BY <1>6, <2>1 DEF Start, InitialFile, InitialConfig
  <2>3. \A w \in Workers : calls[w].version = 0 /\ ~Written(w)
    BY <1>6, IdleCall DEF Start, SavedInv, Written
  <2> QED
    BY <1>6, <2>1, <2>2, <2>3 DEF Start, SavedInv, Written
<1>7. CASE Crash
  <2>1. ~running' /\ (\A w \in Workers : calls'[w] = Idle) /\ UNCHANGED <<file, version, acked>>
    BY <1>7 DEF Crash
  <2>2. \A w \in Workers : calls'[w].version \in Nat /\ ~Written(w)'
    BY <2>1, IdleCall DEF Written
  <2> QED
    BY <2>1, <2>2 DEF SavedInv
<1>8. CASE UNCHANGED SettingsRest
  BY <1>2, <1>8 DEF SettingsRest
<1> QED
  BY <1>0, <1>3, <1>4, <1>5, <1>6, <1>7, <1>8 DEF SettingsStep

LEMMA SavedOK == Spec => []SavedInv
<1>1. NativeInit => SavedInv
  BY SavedInit
<1>2. FormInv /\ ClearInv /\ SavedInv /\ [Next]_vars => SavedInv'
  BY SavedNext
<1> QED
  BY <1>1, <1>2, FormOK, PTL DEF Spec

\* What a caller was told is saved stays in the file, and with no call under
\* way the file gives the settings in memory: no write puts an older state
\* over a newer one, whoever writes last.
THEOREM ChangesAreSaved == Spec => []SettingsAreSaved
<1>1. FormInv /\ SavedInv => SettingsAreSaved
  <2> SUFFICES ASSUME FormInv, SavedInv PROVE SettingsAreSaved
    OBVIOUS
  <2>1. AckedIsOnDisk
    BY DEF AckedIsOnDisk, SavedInv
  <2>2. DiskIsSettings
    <3>1. Quiet => \A w \in Workers : ~Unwritten(w)
      BY DEF Quiet, Unwritten
    <3> QED
      BY <3>1 DEF DiskIsSettings, SavedInv, Quiet
  <2> QED
    BY <2>1, <2>2 DEF SettingsAreSaved
<1> QED
  BY <1>1, FormOK, SavedOK, PTL

-----------------------------------------------------------------------------
(* The three copies of the root. *)

Agrees ==
    /\ override = RootOf(config)
    /\ contextRoot = ResolvedRoot(override)
MovesRoot(w) == calls[w].pc \notin {"idle", "mutate"} /\ UpdatesRoot(calls[w].call)

\* What an update of the general section has done when it is under way alone.
RootStep(w) ==
    /\ calls[w].pc \in {"persist", "writing", "root"} =>
          calls[w].root = RootOf(config) /\ (~NamesRoot(calls[w].call) => Agrees)
    /\ calls[w].pc \in {"rebuild", "replace"} => override = RootOf(config)
    /\ calls[w].pc = "replace" => calls[w].root = ResolvedRoot(override)

\* While no two updates of the general section overlapped, one is under way
\* at most; without a failed write it is where RootStep says, and with none
\* under way the copies agree.
RootInv ==
    /\ \A w \in Workers :
          /\ calls[w].pc \in {"idle", "mutate", "persist", "writing", "root", "rebuild", "replace"}
          /\ Written(w) => UpdatesRoot(calls[w].call)
    /\ running /\ ~overlap => \A v, w \in Workers : MovesRoot(v) /\ MovesRoot(w) => v = w
    /\ running /\ ~overlap /\ ~unsaved =>
          /\ \A w \in Workers : MovesRoot(w) => RootStep(w)
          /\ (\A w \in Workers : ~MovesRoot(w)) => Agrees

LEMMA RootInit ==
    ASSUME NativeInit
    PROVE  RootInv
BY IdleCall DEF NativeInit, Init, RootInv, MovesRoot, Written, Agrees

LEMMA SameRoot ==
    ASSUME NEW c, NEW d, d.general.claudeRootPath = c.general.claudeRootPath
    PROVE  RootOf(d) = RootOf(c)
BY DEF RootOf

\* A step that is none of an update of the general section.
LEMMA RootFrame ==
    ASSUME RootInv, NEW w \in Workers, \A o \in Workers \ {w} : calls'[o] = calls[o],
           ~MovesRoot(w), ~MovesRoot(w)',
           calls'[w].pc \in {"idle", "mutate", "persist", "writing", "root", "rebuild", "replace"}, ~Written(w)',
           RootOf(config') = RootOf(config),
           UNCHANGED <<running, override, contextRoot>>, overlap => overlap', unsaved => unsaved'
    PROVE  RootInv'
<1>1. \A o \in Workers : MovesRoot(o)' => MovesRoot(o) /\ o # w /\ calls'[o] = calls[o]
  BY DEF MovesRoot
<1>2. Agrees => Agrees'
  BY DEF Agrees
<1>3. \A o \in Workers : MovesRoot(o)' /\ RootStep(o) => RootStep(o)'
  BY <1>1, <1>2 DEF RootStep
<1>4. \A o \in Workers : MovesRoot(o) => MovesRoot(o)'
  BY DEF MovesRoot
<1>5. \A o \in Workers : /\ calls'[o].pc \in {"idle", "mutate", "persist", "writing", "root", "rebuild", "replace"}
                         /\ Written(o)' => UpdatesRoot(calls'[o].call)
  BY DEF RootInv, Written
<1> QED
  BY <1>1, <1>2, <1>3, <1>4, <1>5 DEF RootInv

\* A step of the update of the general section that is under way alone.
LEMMA RootAlone ==
    ASSUME RootInv, CallsInv, NEW w \in Workers, MovesRoot(w), \A o \in Workers \ {w} : calls'[o] = calls[o],
           UNCHANGED <<running, config, overlap, unsaved>>,
           MovesRoot(w)',
           calls'[w].pc \in {"idle", "mutate", "persist", "writing", "root", "rebuild", "replace"},
           RootStep(w) => RootStep(w)'
    PROVE  RootInv'
<1>1. \A o \in Workers : MovesRoot(o)' <=> MovesRoot(o)
  BY DEF MovesRoot
<1>2. \A o \in Workers : /\ calls'[o].pc \in {"idle", "mutate", "persist", "writing", "root", "rebuild", "replace"}
                         /\ Written(o)' => UpdatesRoot(calls'[o].call)
  BY DEF RootInv, Written, MovesRoot
<1>3. running /\ ~overlap => \A o \in Workers : MovesRoot(o) => o = w
  BY DEF RootInv
<1>4. running' /\ ~overlap' /\ ~unsaved' => /\ \A o \in Workers : MovesRoot(o)' => RootStep(o)'
                                            /\ ~(\A o \in Workers : ~MovesRoot(o)')
  BY <1>1, <1>3 DEF RootInv
<1> QED
  BY <1>1, <1>2, <1>3, <1>4 DEF RootInv

\* It returns.
LEMMA RootReturns ==
    ASSUME RootInv, CallsInv, NEW w \in Workers, MovesRoot(w), calls' = [calls EXCEPT ![w] = Idle],
           UNCHANGED <<running, config, overlap>>, unsaved => unsaved',
           ~unsaved' /\ RootStep(w) => Agrees'
    PROVE  RootInv'
<1>1. calls'[w] = Idle /\ \A o \in Workers \ {w} : calls'[o] = calls[o]
  BY CallEdit, IdleCall
<1>2. ~MovesRoot(w)' /\ ~Written(w)' /\ calls'[w].pc = "idle"
  BY <1>1, IdleCall DEF MovesRoot, Written
<1>3. \A o \in Workers : MovesRoot(o)' => MovesRoot(o) /\ o # w
  BY <1>1, <1>2 DEF MovesRoot
<1>4. \A o \in Workers : /\ calls'[o].pc \in {"idle", "mutate", "persist", "writing", "root", "rebuild", "replace"}
                         /\ Written(o)' => UpdatesRoot(calls'[o].call)
  BY <1>1, <1>2 DEF RootInv, Written
<1>5. running' /\ ~overlap' => \A o \in Workers : ~MovesRoot(o)'
  BY <1>3 DEF RootInv
<1>6. running' /\ ~overlap' /\ ~unsaved' => Agrees'
  BY DEF RootInv
<1> QED
  BY <1>3, <1>4, <1>5, <1>6 DEF RootInv

LEMMA RootMutate ==
    ASSUME FormInv, RootInv, NEW w \in Workers, Mutate(w)
    PROVE  RootInv'
<1> DEFINE call == calls[w].call
           out == Outcome(config, call)
<1>0. CallsInv /\ calls[w].pc = "mutate" /\ ~MovesRoot(w) /\ UNCHANGED <<running, override, contextRoot, unsaved>>
  BY DEF FormInv, Mutate, At, MovesRoot
<1>1. \A o \in Workers \ {w} : calls'[o] = calls[o]
  BY <1>0, MutateCalls
<1>2. CASE ~out.changed
  <2>1. calls'[w] = Idle /\ config' = config /\ overlap' = overlap
    BY <1>0, <1>2, MutateCalls DEF Mutate
  <2> QED
    BY <1>0, <1>1, <2>1, RootFrame, IdleCall DEF MovesRoot, Written
<1>3. CASE out.changed
  <2>1. /\ calls'[w].pc = "persist" /\ calls'[w].call = call
        /\ calls'[w].root = RootOf(config') /\ config' = out.config
    BY <1>0, <1>3, MutateCalls
  <2>2. ~NamesRoot(call) => RootOf(config') = RootOf(config)
    BY <1>3, <2>1, OutcomeKeeps, SameRoot DEF FormInv, KeepsRoot
  <2>3. overlap' = (overlap \/ (UpdatesRoot(call) /\
                       {o \in Workers \ {w} : UpdatesRoot(calls[o].call) /\ calls[o].pc \notin {"idle", "mutate"}} # {}))
    BY <1>3 DEF Mutate
  <2>4. CASE ~UpdatesRoot(call)
    <3>1. ~NamesRoot(call) /\ (overlap => overlap')
      BY <2>3, <2>4 DEF NamesRoot
    <3> QED
      BY <1>0, <1>1, <2>1, <2>2, <2>4, <3>1, RootFrame DEF MovesRoot, Written
  <2>5. CASE UpdatesRoot(call)
    <3>1. \A o \in Workers : /\ calls'[o].pc \in {"idle", "mutate", "persist", "writing", "root", "rebuild", "replace"}
                             /\ Written(o)' => UpdatesRoot(calls'[o].call)
      BY <1>1, <2>1 DEF RootInv, Written
    <3>2. ASSUME running', ~overlap' PROVE ~overlap /\ \A o \in Workers \ {w} : ~MovesRoot(o)
      BY <2>3, <2>5, <3>2 DEF MovesRoot
    <3>3. ASSUME running', ~overlap' PROVE \A o \in Workers : MovesRoot(o)' <=> o = w
      BY <1>1, <2>1, <2>5, <3>2, <3>3 DEF MovesRoot
    <3>4. ASSUME running', ~overlap', ~unsaved' PROVE RootStep(w)'
      <4>1. \A o \in Workers : ~MovesRoot(o)
        BY <1>0, <3>2, <3>4
      <4>2. Agrees
        BY <1>0, <3>2, <3>4, <4>1 DEF RootInv
      <4>3. ~NamesRoot(call) => Agrees'
        BY <1>0, <2>2, <4>2 DEF Agrees
      <4> QED
        BY <2>1, <4>3 DEF RootStep
    <3> QED
      BY <3>1, <3>3, <3>4 DEF RootInv
  <2> QED
    BY <2>4, <2>5
<1> QED
  BY <1>2, <1>3

LEMMA RootWorker ==
    ASSUME FormInv, RootInv, NEW w \in Workers, CallStep(w)
    PROVE  RootInv'
<1>0. CallsInv /\ running
  BY StepFollows DEF FormInv
<1>1. ASSUME NEW pc \in {"writing", "root", "rebuild"}, Moves(w, pc)
      PROVE  /\ calls'[w].pc = pc /\ calls'[w].call = calls[w].call /\ calls'[w].root = calls[w].root
             /\ \A o \in Workers \ {w} : calls'[o] = calls[o]
  BY <1>0, <1>1, PcEdit, "call" \in CallFields \ {"pc"}, "root" \in CallFields \ {"pc"} DEF CallFields
<1>2. ASSUME calls' = [calls EXCEPT ![w] = Idle], ~MovesRoot(w),
             UNCHANGED <<running, config, override, contextRoot, overlap>>, unsaved => unsaved'
      PROVE  RootInv'
  <2>1. calls'[w] = Idle /\ \A o \in Workers \ {w} : calls'[o] = calls[o]
    BY <1>0, <1>2, CallEdit, IdleCall
  <2> QED
    BY <1>2, <2>1, RootFrame, IdleCall DEF MovesRoot, Written
<1>3. CASE Mutate(w)
  BY <1>3, RootMutate
<1>4. CASE StartWrite(w)
  <2>1. Moves(w, "writing") /\ calls[w].pc = "persist" /\ UNCHANGED <<running, config, override, contextRoot, overlap, unsaved>>
    BY <1>4 DEF StartWrite, At
  <2>2. CASE MovesRoot(w)
    <3>1. MovesRoot(w)' /\ (RootStep(w) => RootStep(w)')
      BY <1>1, <2>1, <2>2 DEF MovesRoot, RootStep, Agrees
    <3> QED
      BY <1>0, <1>1, <2>1, <2>2, <3>1, RootAlone
  <2>3. CASE ~MovesRoot(w)
    <3>1. ~MovesRoot(w)' /\ ~Written(w)'
      BY <1>1, <2>1, <2>3 DEF MovesRoot, Written
    <3> QED
      BY <1>1, <2>1, <2>3, <3>1, RootFrame
  <2> QED
    BY <2>2, <2>3
<1>5. CASE FinishWrite(w)
  <2>1. calls[w].pc = "writing" /\ UNCHANGED <<running, config, override, contextRoot, overlap, unsaved>>
    BY <1>5 DEF FinishWrite, At
  <2>2. CASE UpdatesRoot(calls[w].call)
    <3>1. Moves(w, "root") /\ MovesRoot(w)
      BY <1>5, <2>1, <2>2 DEF FinishWrite, MovesRoot
    <3>2. MovesRoot(w)' /\ (RootStep(w) => RootStep(w)')
      BY <1>1, <2>1, <2>2, <3>1 DEF MovesRoot, RootStep, Agrees
    <3> QED
      BY <1>0, <1>1, <2>1, <3>1, <3>2, RootAlone
  <2>3. CASE ~UpdatesRoot(calls[w].call)
    BY <1>2, <1>5, <2>1, <2>3 DEF FinishWrite, MovesRoot
  <2> QED
    BY <2>2, <2>3
<1>6. CASE FailWrite(w)
  <2>1. calls' = [calls EXCEPT ![w] = Idle] /\ UNCHANGED <<running, config, override, contextRoot, overlap>> /\ unsaved'
    BY <1>6 DEF FailWrite
  <2> QED
    BY <1>0, <1>2, <2>1, RootReturns
<1>7. CASE SetRoot(w)
  <2>1. /\ calls[w].pc = "root" /\ MovesRoot(w) /\ override' = calls[w].root
        /\ UNCHANGED <<running, config, contextRoot, overlap, unsaved>>
    BY <1>7 DEF SetRoot, At, OverrideRoot, MovesRoot, RootInv, Written
  <2>2. CASE NamesRoot(calls[w].call)
    <3>1. Moves(w, "rebuild")
      BY <1>7, <2>2 DEF SetRoot
    <3>2. MovesRoot(w)' /\ (RootStep(w) => RootStep(w)')
      BY <1>1, <2>1, <3>1 DEF MovesRoot, RootStep
    <3> QED
      BY <1>0, <1>1, <2>1, <3>1, <3>2, RootAlone
  <2>3. CASE ~NamesRoot(calls[w].call)
    <3>1. calls' = [calls EXCEPT ![w] = Idle]
      BY <1>7, <2>3 DEF SetRoot
    <3>2. RootStep(w) => Agrees'
      BY <2>1, <2>3 DEF RootStep, Agrees
    <3> QED
      BY <1>0, <2>1, <3>1, <3>2, RootReturns
  <2> QED
    BY <2>2, <2>3
<1>8. CASE ReadRoot(w)
  <2>1. /\ calls[w].pc = "rebuild" /\ MovesRoot(w)
        /\ UNCHANGED <<running, config, override, contextRoot, overlap, unsaved>>
        /\ calls' = [calls EXCEPT ![w].pc = "replace", ![w].root = ResolvedRoot(override)]
    BY <1>8 DEF ReadRoot, At, MovesRoot, RootInv, Written
  <2>2. /\ calls'[w].pc = "replace" /\ calls'[w].call = calls[w].call /\ calls'[w].root = ResolvedRoot(override)
        /\ \A o \in Workers \ {w} : calls'[o] = calls[o]
    BY <1>0, <2>1 DEF CallsInv, CallFields
  <2>3. MovesRoot(w)' /\ (RootStep(w) => RootStep(w)')
    BY <2>1, <2>2 DEF MovesRoot, RootStep
  <2> QED
    BY <1>0, <2>1, <2>2, <2>3, RootAlone
<1>9. CASE ReplaceContext(w)
  <2>1. /\ calls[w].pc = "replace" /\ MovesRoot(w) /\ contextRoot' = calls[w].root
        /\ UNCHANGED <<running, config, override, overlap, unsaved>> /\ calls' = [calls EXCEPT ![w] = Idle]
    BY <1>9 DEF ReplaceContext, At, MovesRoot, RootInv, Written
  <2>2. RootStep(w) => Agrees'
    BY <2>1 DEF RootStep, Agrees
  <2> QED
    BY <1>0, <2>1, <2>2, RootReturns
<1> QED
  BY <1>3, <1>4, <1>5, <1>6, <1>7, <1>8, <1>9 DEF CallStep

LEMMA RootNext ==
    ASSUME FormInv, ClearInv, SavedInv, RootInv, [Next]_vars
    PROVE  RootInv'
<1>0. SettingsStep /\ CallsInv
  BY SettingsSteps DEF FormInv
<1>1. ASSUME NEW w \in Workers, NEW r, calls' = [calls EXCEPT ![w] = r], DOMAIN r = CallFields,
             r.pc = "mutate", calls[w].pc = "idle",
             UNCHANGED <<running, config, override, contextRoot, overlap, unsaved>>
      PROVE  RootInv'
  <2>1. calls'[w] = r /\ \A o \in Workers \ {w} : calls'[o] = calls[o]
    BY <1>0, <1>1, CallEdit
  <2> QED
    BY <1>1, <2>1, RootFrame DEF MovesRoot, Written
<1>2. ASSUME UNCHANGED <<calls, running, config, override, contextRoot, overlap, unsaved>>
      PROVE  RootInv'
  BY <1>2 DEF RootInv, MovesRoot, Written, RootStep, Agrees
<1>3. CASE \E w \in Callers : \E call : IsCall(call) /\ Begin(w, call)
  <2> PICK w \in Callers : \E call : Begin(w, call)
    BY <1>3
  <2> PICK call : Begin(w, call)
    OBVIOUS
  <2> DEFINE r == [Idle EXCEPT !.pc = "mutate", !.call = call]
  <2>1. w \in Workers /\ DOMAIN r = CallFields /\ r.pc = "mutate"
    BY DEF Workers, Idle, CallFields
  <2>2. calls' = calls \/ calls' = [calls EXCEPT ![w] = r]
    BY DEF Begin
  <2>3. calls[w].pc = "idle" /\ UNCHANGED <<running, config, override, contextRoot, overlap, unsaved>>
    BY DEF Begin, At
  <2> HIDE DEF r
  <2> QED
    BY <1>1, <1>2, <2>1, <2>2, <2>3
<1>4. CASE \E c \in Checkers : Enabled(c)
  <2> PICK c \in Checkers : Enabled(c)
    BY <1>4
  <2> DEFINE r == [Idle EXCEPT !.pc = "mutate", !.call = [op |-> "clear_snooze"]]
  <2>1. c \in Workers /\ DOMAIN r = CallFields /\ r.pc = "mutate"
    BY DEF Workers, Idle, CallFields
  <2>2. calls' = calls \/ calls' = [calls EXCEPT ![c] = r]
    BY DEF Enabled
  <2>3. calls[c].pc = "idle" /\ UNCHANGED <<running, config, override, contextRoot, overlap, unsaved>>
    BY DEF Enabled, Asks, ClearInv
  <2> HIDE DEF r
  <2> QED
    BY <1>1, <1>2, <2>1, <2>2, <2>3
<1>5. CASE Start
  <2>1. \A w \in Workers : calls'[w].pc = "idle"
    BY <1>5, IdleCall DEF Start, SavedInv
  <2>2. Agrees'
    BY <1>5 DEF Start, Agrees
  <2> QED
    BY <2>1, <2>2 DEF RootInv, MovesRoot, Written
<1>6. CASE Crash
  BY <1>6, IdleCall DEF Crash, RootInv, Written
<1>7. CASE UNCHANGED SettingsRest
  BY <1>2, <1>7 DEF SettingsRest
<1> QED
  BY <1>0, <1>3, <1>4, <1>5, <1>6, <1>7, RootWorker DEF SettingsStep

\* With no call under way the root that is shown, the one in the global and
\* the one the context works on are one, unless two updates overlapped or a
\* write failed.
THEOREM CopiesAgree == Spec => []RootInUse
<1>1. NativeInit => RootInv
  BY RootInit
<1>2. FormInv /\ ClearInv /\ SavedInv /\ RootInv /\ [Next]_vars => RootInv'
  BY RootNext
<1>3. RootInv => RootInUse
  <2> SUFFICES ASSUME RootInv, Quiet, ~overlap, ~unsaved
               PROVE  /\ override = RootOf(config)
                      /\ contextRoot = ResolvedRoot(override)
                      /\ config.general.claudeRootPath # "" => ClaudeRootInfo(config) = contextRoot
    BY DEF RootInUse
  <2>1. \A w \in Workers : ~MovesRoot(w)
    BY DEF Quiet, MovesRoot
  <2>2. Agrees
    BY <2>1 DEF RootInv, Quiet
  <2> QED
    BY <2>2 DEF Agrees, RootOf, ResolvedRoot, ClaudeRootInfo
<1> QED
  BY <1>1, <1>2, <1>3, FormOK, SavedOK, PTL DEF Spec

-----------------------------------------------------------------------------
(* The snooze. *)

\* Only the change of a worker, or a start, changes the settings.
LEMMA OnlyMutateChanges ==
    ASSUME FormInv, [Next]_vars, running, config' # config
    PROVE  \E w \in Workers : Mutate(w) /\ Outcome(config, calls[w].call).changed
<1>1. SettingsStep /\ CallsInv
  BY SettingsSteps DEF FormInv
<1>2. \A w \in Callers : \A call : ~Begin(w, call)
  BY DEF Begin
<1>3. ~Start /\ ~Crash /\ (\A c \in Checkers : ~Enabled(c)) /\ ~UNCHANGED SettingsRest
  BY DEF Start, Crash, Enabled, SettingsRest
<1>4. \A w \in Workers : CallStep(w) => Mutate(w)
  BY DEF CallStep, StartWrite, FinishWrite, FailWrite, SetRoot, ReadRoot, ReplaceContext
<1>5. PICK w \in Workers : Mutate(w)
  BY <1>1, <1>2, <1>3, <1>4 DEF SettingsStep
<1> QED
  BY <1>1, <1>5, MutateCalls

\* A snooze that is not over is lost only to a user's call, or to the call of
\* a check that had read another one, which was over.
THEOREM SnoozeIsKept == Spec => SnoozeLostOnlyInRace
<1> DEFINE Loses == /\ config.notifications.snoozedUntil > clock
                    /\ config'.notifications.snoozedUntil = 0
                    /\ running'
           InRace == \/ \E w \in Callers: calls[w].pc = "mutate" /\ calls'[w] # calls[w]
                     \/ \E c \in Checkers: /\ calls[c].pc = "mutate" /\ calls'[c].pc = "persist"
                                           /\ checks[c].until <= clock
                                           /\ checks[c].until # config.notifications.snoozedUntil
<1>1. FormInv /\ ClearInv /\ [Next]_vars => [Loses => (running => InRace)]_vars
  <2> SUFFICES ASSUME FormInv, ClearInv, [Next]_vars, Loses, running
               PROVE  InRace
    OBVIOUS
  <2>1. clock \in Nat /\ CallsInv
    BY DEF FormInv
  <2>2. config' # config
    BY <2>1
  <2>3. PICK w \in Workers : Mutate(w) /\ Outcome(config, calls[w].call).changed
    BY <2>2, OnlyMutateChanges
  <2>4. calls[w].pc = "mutate" /\ calls'[w].pc = "persist"
    BY <2>1, <2>3, MutateCalls DEF Mutate, At
  <2>5. CASE w \in Callers
    BY <2>4, <2>5
  <2>6. CASE w \in Checkers
    <3>1. checks[w].until \in Nat /\ checks[w].until <= clock
      BY <2>4, <2>6 DEF ClearInv
    <3>2. checks[w].until # config.notifications.snoozedUntil
      BY <2>1, <3>1 DEF FormInv, IsSettings
    <3> QED
      BY <2>4, <2>6, <3>1, <3>2
  <2> QED
    BY <2>5, <2>6 DEF Workers
<1> QED
  BY <1>1, FormOK, PTL DEF Spec, SnoozeLostOnlyInRace

-----------------------------------------------------------------------------
(* The two times of a notification. *)

\* The notifications that were shown, with times; the time a check has read.
ShownInv ==
    /\ \E H : shown \in Seq([hash : H, now : Nat, at : Nat])
    /\ \A c \in Checkers : checks[c].now \in Nat

\* The notifications of a message were let through with times that are not
\* older than that of any earlier notification.
InOrder(s, h) == \A k, l \in DOMAIN s : k < l /\ s[l].hash = h => s[k].now <= s[l].now

\* Every entry of the throttle is of a notification; and what a notification
\* put there is still there or has been replaced by a later one, but for the
\* clean-up, which needs one that is much later.
ThrottleInv ==
    /\ \A h \in DOMAIN throttle : \E k \in DOMAIN shown : shown[k].hash = h /\ shown[k].now = throttle[h]
    /\ \A i \in DOMAIN shown :
          InOrder(shown, shown[i].hash) =>
             \/ shown[i].hash \in DOMAIN throttle /\ throttle[shown[i].hash] >= shown[i].now
             \/ \E k \in DOMAIN shown : k > i /\ shown[k].now > shown[i].now + 2 * THROTTLE

\* A timer belongs to a notification and is not over; the one of the last
\* notification runs while a click would open it; and what was forgotten
\* without a click was forgotten by a timer that was due since it was shown.
ClickInv ==
    /\ \A t \in timers : t \in Nat /\ clock <= t /\ \E i \in DOMAIN shown : t = shown[i].at + WINDOW
    /\ \A i \in DOMAIN shown : shown[i].at <= clock
    /\ lastShown \in {0, Len(shown)}
    /\ lastShown # 0 => shown[Len(shown)].at + WINDOW \in timers
    /\ shown # <<>> /\ lastShown = 0 /\ Len(shown) \notin clicked =>
          \E i \in DOMAIN shown : shown[i].at + WINDOW \in shown[Len(shown)].at..clock

LEMMA NativeSteps ==
    ASSUME [Next]_vars
    PROVE  \/ \E c \in Checkers : Throttle(c)
           \/ Ends \/ Forget \/ Click \/ Tick
           \/ UNCHANGED <<clock, throttle, lastShown, timers, shown, clicked>>
<1>1. ASSUME NEW w, NEW call, Begin(w, call), UNCHANGED nativeVars
      PROVE  UNCHANGED <<clock, throttle, lastShown, timers, shown, clicked>>
  BY <1>1 DEF Begin, nativeVars
<1>2. ASSUME NEW w, CallStep(w), UNCHANGED nativeVars
      PROVE  UNCHANGED <<clock, throttle, lastShown, timers, shown, clicked>>
  BY <1>2 DEF CallStep, Mutate, StartWrite, FinishWrite, FailWrite, SetRoot, ReadRoot, ReplaceContext, nativeVars
<1>3. ASSUME Start, UNCHANGED nativeVars
      PROVE  UNCHANGED <<clock, throttle, lastShown, timers, shown, clicked>>
  BY <1>3 DEF Start, nativeVars
<1>4. ASSUME NEW c, Enabled(c) \/ Cleared(c) \/ Repository(c) \/ Regex(c) \/ ReadClock(c) \/ \E e : Arrive(c, e)
      PROVE  UNCHANGED <<clock, throttle, lastShown, timers, shown, clicked>>
  BY <1>4 DEF Enabled, Cleared, Repository, Regex, ReadClock, Arrive, storeVars
<1>5. ASSUME UNCHANGED vars
      PROVE  UNCHANGED <<clock, throttle, lastShown, timers, shown, clicked>>
  BY <1>5 DEF vars, storeVars, nativeVars
<1> QED
  BY <1>1, <1>2, <1>3, <1>4, <1>5 DEF Next

LEMMA NativeStart ==
    ASSUME NativeInit
    PROVE  ShownInv /\ ThrottleInv /\ ClickInv /\ OncePerWindow
<1>1. /\ throttle = <<>> /\ shown = <<>> /\ timers = {} /\ lastShown = 0
      /\ \A c \in Checkers : checks[c].now = 0
  BY DEF NativeInit, Unchecked
<1>2. <<>> \in Seq([hash : {}, now : Nat, at : Nat]) /\ DOMAIN <<>> = {} /\ Len(<<>>) = 0
  OBVIOUS
<1> QED
  BY <1>1, <1>2 DEF ShownInv, ThrottleInv, ClickInv, OncePerWindow

LEMMA EndsAll ==
    ASSUME Ends
    PROVE  ShownInv' /\ ThrottleInv' /\ ClickInv' /\ OncePerWindow'
<1>1. /\ throttle' = <<>> /\ shown' = <<>> /\ timers' = {} /\ lastShown' = 0
      /\ \A c \in Checkers : checks'[c].now = 0
  BY DEF Ends, Unchecked
<1>2. <<>> \in Seq([hash : {}, now : Nat, at : Nat]) /\ DOMAIN <<>> = {} /\ Len(<<>>) = 0
  OBVIOUS
<1> QED
  BY <1>1, <1>2 DEF ShownInv, ThrottleInv, ClickInv, OncePerWindow

LEMMA LongerBy ==
    ASSUME NEW S, NEW T, S \subseteq T, NEW s \in Seq(S), NEW x \in T
    PROVE  /\ Append(s, x) \in Seq(T)
           /\ Len(s) \in Nat /\ DOMAIN s = 1..Len(s) /\ \A i \in DOMAIN s : s[i] \in S
           /\ DOMAIN Append(s, x) = 1..(Len(s) + 1) /\ Len(Append(s, x)) = Len(s) + 1
           /\ Append(s, x)[Len(s) + 1] = x /\ \A i \in DOMAIN s : Append(s, x)[i] = s[i]
<1>1. Len(s) \in Nat /\ DOMAIN s = 1..Len(s) /\ \A i \in DOMAIN s : s[i] \in S
  OBVIOUS
<1>2. s \in Seq(T)
  BY <1>1
<1> QED
  BY <1>1, <1>2

\* What a notification adds.
LEMMA Appends ==
    ASSUME NEW H, NEW s \in Seq([hash : H, now : Nat, at : Nat]),
           NEW h, NEW x \in [hash : {h}, now : Nat, at : Nat]
    PROVE  /\ Append(s, x) \in Seq([hash : H \cup {h}, now : Nat, at : Nat])
           /\ Len(s) \in Nat /\ Len(Append(s, x)) = Len(s) + 1
           /\ DOMAIN s = 1..Len(s) /\ DOMAIN Append(s, x) = 1..(Len(s) + 1)
           /\ \A i \in DOMAIN s : Append(s, x)[i] = s[i] /\ s[i].now \in Nat /\ s[i].at \in Nat
           /\ Append(s, x)[Len(s) + 1] = x
<1> DEFINE S == [hash : H, now : Nat, at : Nat]
           R == [hash : H \cup {h}, now : Nat, at : Nat]
<1>1. x \in R
  OBVIOUS
<1>2. S \subseteq R /\ \A r \in S : r.now \in Nat /\ r.at \in Nat
  OBVIOUS
<1>3. s \in Seq(S)
  OBVIOUS
<1>4. Append(s, x) \in Seq(R) => Append(s, x) \in Seq([hash : H \cup {h}, now : Nat, at : Nat])
  OBVIOUS
<1> HIDE DEF S, R
<1> QED
  BY <1>1, <1>2, <1>3, <1>4, LongerBy

\* What the throttle knows after it has let a message through.
LEMMA KeptEntries ==
    ASSUME NEW h, NEW now \in Nat, \A g \in DOMAIN throttle : throttle[g] \in Nat
    PROVE  /\ h \in DOMAIN Kept(h, now) /\ Kept(h, now)[h] = now
           /\ \A g \in DOMAIN Kept(h, now) : g # h => g \in DOMAIN throttle /\ Kept(h, now)[g] = throttle[g]
           /\ \A g \in DOMAIN throttle : g # h =>
                 g \in DOMAIN Kept(h, now) \/ now > throttle[g] + 2 * THROTTLE
<1> DEFINE all == LetThrough(h, now)
           old == IF now > 2 * THROTTLE THEN now - 2 * THROTTLE ELSE 0
<1>1. /\ DOMAIN all = {h} \cup DOMAIN throttle /\ all[h] = now
      /\ \A g \in DOMAIN throttle : g # h => all[g] = throttle[g]
  BY DEF LetThrough
<1>2. THROTTLE \in Nat
  BY NativeNotificationAssumption
<1>3. old \in Nat /\ now >= old /\ \A v \in Nat : v >= old \/ now > v + 2 * THROTTLE
  BY <1>2
<1>4. Kept(h, now) = [g \in {x \in DOMAIN all : all[x] >= old} |-> all[g]]
  BY DEF Kept
<1> HIDE DEF all, old
<1> QED
  BY <1>1, <1>3, <1>4

\* A check that drops its error or goes on keeps the times.
LEMMA NowNext ==
    ASSUME FormInv, ClearInv, ShownInv, [Next]_vars
    PROVE  \A c \in Checkers : checks'[c].now \in Nat
<1>1. ASSUME NEW c \in Checkers,
             \/ \E pc : Goes(c, pc)
             \/ \E r : r.now \in Nat /\ checks' = [checks EXCEPT ![c] = r]
             \/ \E until : checks' = [checks EXCEPT ![c].pc = "clear", ![c].until = until]
             \/ checks' = [checks EXCEPT ![c].pc = "throttle", ![c].now = clock]
      PROVE  \A o \in Checkers : checks'[o].now \in Nat
  <2>0. DOMAIN checks = Checkers /\ DOMAIN checks[c] = CheckFields /\ \A o \in Checkers : checks[o].now \in Nat
    BY DEF ClearInv, ShownInv
  <2>1. CASE \E pc : Goes(c, pc)
    BY <2>0, <2>1 DEF Goes, CheckFields
  <2>2. CASE \E r : r.now \in Nat /\ checks' = [checks EXCEPT ![c] = r]
    BY <2>0, <2>2
  <2>3. CASE \E until : checks' = [checks EXCEPT ![c].pc = "clear", ![c].until = until]
    BY <2>0, <2>3 DEF CheckFields
  <2>4. CASE checks' = [checks EXCEPT ![c].pc = "throttle", ![c].now = clock]
    BY <2>0, <2>4 DEF CheckFields, FormInv
  <2> QED
    BY <1>1, <2>1, <2>2, <2>3, <2>4
<1>2. Unchecked.now \in Nat
  BY DEF Unchecked
<1>3. CASE \E c \in Checkers, e \in Errors : Arrive(c, e)
  <2> PICK c \in Checkers, e \in Errors : Arrive(c, e)
    BY <1>3
  <2> DEFINE r == [Unchecked EXCEPT !.pc = "enabled", !.error = e]
  <2>1. r.now \in Nat /\ checks' = [checks EXCEPT ![c] = r]
    BY DEF Unchecked, Arrive
  <2> HIDE DEF r
  <2> QED
    BY <1>1, <2>1
<1>4. CASE \E c \in Checkers : Enabled(c) \/ Cleared(c) \/ Repository(c) \/ Regex(c) \/ ReadClock(c) \/ Throttle(c)
  <2> PICK c \in Checkers : Enabled(c) \/ Cleared(c) \/ Repository(c) \/ Regex(c) \/ ReadClock(c) \/ Throttle(c)
    BY <1>4
  <2>1. \/ \E pc : Goes(c, pc)
        \/ Drops(c)
        \/ \E until : checks' = [checks EXCEPT ![c].pc = "clear", ![c].until = until]
        \/ checks' = [checks EXCEPT ![c].pc = "throttle", ![c].now = clock]
    <3>1. CASE Enabled(c)
      <4> DEFINE until == config.notifications.snoozedUntil
      <4>1. CASE ~config.notifications.enabled \/ (until # 0 /\ ~Expired(until))
        BY <3>1, <4>1 DEF Enabled
      <4>2. CASE config.notifications.enabled /\ Expired(until)
        BY <3>1, <4>2 DEF Enabled, Expired
      <4>3. CASE config.notifications.enabled /\ until = 0
        BY <3>1, <4>3 DEF Enabled, Expired
      <4> QED
        BY <4>1, <4>2, <4>3
    <3>2. CASE Cleared(c) \/ Repository(c) \/ Regex(c) \/ ReadClock(c) \/ Throttle(c)
      BY <3>2 DEF Cleared, Repository, Regex, ReadClock, Throttle
    <3> QED
      BY <3>1, <3>2
  <2> QED
    BY <1>1, <1>2, <2>1 DEF Drops
<1>5. CASE Ends
  BY <1>2, <1>5 DEF Ends
<1>6. ASSUME UNCHANGED checks PROVE \A c \in Checkers : checks'[c].now \in Nat
  BY <1>6 DEF ShownInv
<1> QED
  BY <1>3, <1>4, <1>5, <1>6 DEF Next, nativeVars, Forget, Click, Tick, vars

\* The state before and after a notification.
LEMMA ThrottleStep ==
    ASSUME FormInv, ShownInv, ThrottleInv, ClickInv, OncePerWindow,
           NEW c \in Checkers, Throttle(c), UNCHANGED shown
    PROVE  ThrottleInv' /\ ClickInv' /\ OncePerWindow' /\ UNCHANGED <<throttle, lastShown, timers, clicked, clock>>
<1>1. UNCHANGED <<throttle, lastShown, timers, clicked, clock>>
  <2>1. PICK H : shown \in Seq([hash : H, now : Nat, at : Nat])
    BY DEF ShownInv
  <2> DEFINE x == [hash |-> HashOf[checks[c].error], now |-> checks[c].now, at |-> clock]
  <2>2. Append(shown, x) # shown
    <3>1. x \in [hash : {HashOf[checks[c].error]}, now : Nat, at : Nat]
      BY DEF ShownInv, FormInv
    <3> HIDE DEF x
    <3>2. Len(shown) \in Nat /\ Len(Append(shown, x)) = Len(shown) + 1
      BY <2>1, <3>1, Appends
    <3> QED
      BY <3>2
  <2> QED
    BY <2>2 DEF Throttle, storeVars
<1> QED
  BY <1>1 DEF ThrottleInv, InOrder, ClickInv, OncePerWindow

LEMMA ShowStep ==
    ASSUME FormInv, ShownInv, ThrottleInv, ClickInv, OncePerWindow,
           NEW c \in Checkers, Throttle(c), ~UNCHANGED shown
    PROVE  /\ \E H : shown' \in Seq([hash : H, now : Nat, at : Nat])
           /\ ThrottleInv' /\ ClickInv' /\ OncePerWindow'
<1> DEFINE h == HashOf[checks[c].error]
           now == checks[c].now
           n == Len(shown)
<1>1. /\ ~IsThrottled(h, now)
      /\ throttle' = Kept(h, now)
      /\ shown' = Append(shown, [hash |-> h, now |-> now, at |-> clock])
      /\ lastShown' = Len(shown')
      /\ timers' = timers \cup {clock + WINDOW}
      /\ UNCHANGED <<clicked, clock>>
  BY DEF Throttle, ForgetsAt, storeVars
<1>2. now \in Nat /\ clock \in Nat /\ THROTTLE \in Nat /\ WINDOW \in Nat
  BY NativeNotificationAssumption DEF ShownInv, FormInv
<1>3. PICK H : shown \in Seq([hash : H, now : Nat, at : Nat])
  BY DEF ShownInv
<1> HIDE DEF h, now
<1> HIDE DEF n
<1> DEFINE x == [hash |-> h, now |-> now, at |-> clock]
<1>0. shown' = Append(shown, x) /\ x \in [hash : {h}, now : Nat, at : Nat] /\ x.hash = h /\ x.now = now /\ x.at = clock
  BY <1>1, <1>2
<1> HIDE DEF x
<1>4. /\ shown' \in Seq([hash : H \cup {h}, now : Nat, at : Nat])
      /\ n \in Nat /\ Len(shown') = n + 1
      /\ DOMAIN shown = 1..n /\ DOMAIN shown' = 1..(n + 1)
      /\ \A i \in 1..n : shown'[i] = shown[i] /\ shown[i].now \in Nat /\ shown[i].at \in Nat
      /\ shown'[n + 1].hash = h /\ shown'[n + 1].now = now /\ shown'[n + 1].at = clock
  <2>1. Append(shown, x) \in Seq([hash : H \cup {h}, now : Nat, at : Nat])
    BY <1>0, <1>3, Appends
  <2>2. n \in Nat /\ Len(Append(shown, x)) = n + 1
    BY <1>0, <1>3, Appends DEF n
  <2>3. DOMAIN shown = 1..n /\ DOMAIN Append(shown, x) = 1..(n + 1)
    BY <1>0, <1>3, Appends DEF n
  <2>4. \A i \in DOMAIN shown : Append(shown, x)[i] = shown[i] /\ shown[i].now \in Nat /\ shown[i].at \in Nat
    BY <1>0, <1>3, Appends
  <2>5. Append(shown, x)[n + 1] = x
    BY <1>0, <1>3, Appends DEF n
  <2> QED
    BY <1>0, <2>1, <2>2, <2>3, <2>4, <2>5
<1>5. \A g \in DOMAIN throttle : throttle[g] \in Nat
  BY <1>4 DEF ThrottleInv
<1>6. /\ h \in DOMAIN throttle' /\ throttle'[h] = now
      /\ \A g \in DOMAIN throttle' : g # h => g \in DOMAIN throttle /\ throttle'[g] = throttle[g]
      /\ \A g \in DOMAIN throttle : g # h =>
            g \in DOMAIN throttle' \/ now > throttle[g] + 2 * THROTTLE
  BY <1>1, <1>2, <1>5, KeptEntries
<1>7. ASSUME NEW g, InOrder(shown', g) PROVE InOrder(shown, g)
  <2> SUFFICES ASSUME NEW k \in DOMAIN shown, NEW l \in DOMAIN shown, k < l, shown[l].hash = g
               PROVE  shown[k].now <= shown[l].now
    BY DEF InOrder
  <2>1. k \in DOMAIN shown' /\ l \in DOMAIN shown' /\ shown'[k] = shown[k] /\ shown'[l] = shown[l]
    BY <1>4
  <2> HIDE DEF n
  <2>2. shown'[k].now <= shown'[l].now
    BY <1>7, <2>1 DEF InOrder
  <2> QED
    BY <2>1, <2>2
<1>8. InOrder(shown', h) => \A k \in 1..n : shown[k].now <= now
  <2> SUFFICES ASSUME InOrder(shown', h), NEW k \in 1..n PROVE shown[k].now <= now
    OBVIOUS
  <2>1. k \in DOMAIN shown' /\ n + 1 \in DOMAIN shown' /\ k < n + 1 /\ shown'[n + 1].hash = h
    BY <1>4
  <2>2. shown'[k].now <= shown'[n + 1].now
    BY <2>1 DEF InOrder
  <2> QED
    BY <1>4, <2>2
<1>9. ThrottleInv'
  <2>1. ASSUME NEW g \in DOMAIN throttle'
        PROVE  \E k \in DOMAIN shown' : shown'[k].hash = g /\ shown'[k].now = throttle'[g]
    <3>1. CASE g = h
      <4>1. n + 1 \in DOMAIN shown' /\ shown'[n + 1].hash = g /\ shown'[n + 1].now = throttle'[g]
        BY <1>4, <1>6, <3>1
      <4> QED
        BY <4>1
    <3>2. CASE g # h
      <4>1. g \in DOMAIN throttle /\ throttle'[g] = throttle[g]
        BY <1>6, <2>1, <3>2
      <4>2. PICK k \in DOMAIN shown : shown[k].hash = g /\ shown[k].now = throttle[g]
        BY <4>1 DEF ThrottleInv
      <4>3. k \in DOMAIN shown' /\ shown'[k] = shown[k]
        BY <1>4
      <4> QED
        BY <4>1, <4>2, <4>3
    <3> QED
      BY <3>1, <3>2
  <2>2. ASSUME NEW i \in DOMAIN shown', InOrder(shown', shown'[i].hash)
        PROVE  \/ shown'[i].hash \in DOMAIN throttle' /\ throttle'[shown'[i].hash] >= shown'[i].now
               \/ \E k \in DOMAIN shown' : k > i /\ shown'[k].now > shown'[i].now + 2 * THROTTLE
    <3>1. CASE i = n + 1
      BY <1>2, <1>4, <1>6, <3>1
    <3>2. CASE i \in 1..n
      <4> DEFINE g == shown[i].hash
      <4>1. shown'[i] = shown[i] /\ shown[i].now \in Nat /\ InOrder(shown', g)
        BY <1>4, <2>2, <3>2
      <4> HIDE DEF g
      <4>2. InOrder(shown, g)
        BY <1>7, <4>1
      <4>3. CASE g = h
        BY <1>2, <1>6, <1>8, <3>2, <4>1, <4>3 DEF g
      <4>4. CASE \E k \in 1..n : k > i /\ shown[k].now > shown[i].now + 2 * THROTTLE
        <5>1. PICK k \in 1..n : k > i /\ shown[k].now > shown[i].now + 2 * THROTTLE
          BY <4>4
        <5>2. k \in DOMAIN shown' /\ shown'[k] = shown[k]
          BY <1>4
        <5> QED
          BY <4>1, <5>1, <5>2
      <4>5. CASE g # h /\ g \in DOMAIN throttle /\ throttle[g] >= shown[i].now
        <5>1. CASE g \in DOMAIN throttle'
          BY <1>6, <4>1, <4>5, <5>1 DEF g
        <5>2. CASE now > throttle[g] + 2 * THROTTLE
          <6>1. now > shown[i].now + 2 * THROTTLE
            BY <1>2, <1>5, <4>1, <4>5, <5>2
          <6>2. n + 1 \in DOMAIN shown' /\ n + 1 > i
            BY <1>4, <3>2
          <6> QED
            BY <1>4, <4>1, <6>1, <6>2
        <5> QED
          BY <1>6, <4>5, <5>1, <5>2
      <4> QED
        BY <1>4, <3>2, <4>2, <4>3, <4>4, <4>5 DEF ThrottleInv, g
    <3> QED
      BY <1>4, <3>1, <3>2
  <2> QED
    BY <2>1, <2>2 DEF ThrottleInv
<1>10. OncePerWindow'
  <2> SUFFICES ASSUME NEW i \in DOMAIN shown', NEW j \in DOMAIN shown', i < j, shown'[i].hash = shown'[j].hash,
                      \A k, l \in 1..j : ~(k < l /\ shown'[l].hash = shown'[j].hash /\ shown'[k].now > shown'[l].now)
               PROVE  shown'[j].now - shown'[i].now >= THROTTLE
    BY DEF OncePerWindow
  <2>1. CASE j \in 1..n
    <3>1. i \in 1..n /\ 1..j \subseteq 1..n
      BY <1>4, <2>1
    <3>2. \A k, l \in 1..j : ~(k < l /\ shown[l].hash = shown[j].hash /\ shown[k].now > shown[l].now)
      BY <1>4, <2>1, <3>1
    <3>3. shown[i].hash = shown[j].hash
      BY <1>4, <2>1, <3>1
    <3>4. shown[j].now - shown[i].now >= THROTTLE
      BY <1>4, <2>1, <3>1, <3>2, <3>3 DEF OncePerWindow
    <3> QED
      BY <1>4, <2>1, <3>1, <3>4
  <2>2. CASE j = n + 1
    <3>1. i \in 1..n /\ shown[i].hash = h /\ shown'[i] = shown[i] /\ shown[i].now \in Nat
      BY <1>4, <2>2
    <3>2. InOrder(shown', h)
      <4> SUFFICES ASSUME NEW k \in DOMAIN shown', NEW l \in DOMAIN shown', k < l, shown'[l].hash = h
                   PROVE  shown'[k].now <= shown'[l].now
        BY DEF InOrder
      <4>1. ~(shown'[k].now > shown'[l].now)
        BY <1>4, <2>2
      <4>2. shown'[k].now \in Nat /\ shown'[l].now \in Nat
        <5>1. ASSUME NEW m \in 1..(n + 1) PROVE shown'[m].now \in Nat
          <6>1. m \in 1..n \/ m = n + 1
            BY <1>4
          <6> QED
            BY <1>2, <1>4, <6>1
        <5> QED
          BY <1>4, <5>1
      <4> QED
        BY <4>1, <4>2
    <3>3. InOrder(shown, h) /\ \A k \in 1..n : shown[k].now <= now
      BY <1>7, <1>8, <3>2
    <3>4. now - shown[i].now >= THROTTLE
      <4>1. CASE h \in DOMAIN throttle /\ throttle[h] >= shown[i].now
        <5>1. now >= throttle[h]
          BY <1>4, <3>3, <4>1 DEF ThrottleInv
        <5>2. ~(now - throttle[h] < THROTTLE)
          BY <1>1, <4>1, <5>1 DEF IsThrottled
        <5> QED
          BY <1>2, <1>5, <3>1, <4>1, <5>1, <5>2
      <4>2. CASE \E k \in 1..n : k > i /\ shown[k].now > shown[i].now + 2 * THROTTLE
        <5>1. PICK k \in 1..n : shown[k].now > shown[i].now + 2 * THROTTLE
          BY <4>2
        <5>2. shown[k].now <= now /\ shown[k].now \in Nat
          BY <1>4, <3>3
        <5> QED
          BY <1>2, <3>1, <5>1, <5>2
      <4> QED
        BY <1>4, <3>1, <3>3, <4>1, <4>2 DEF ThrottleInv
    <3> QED
      BY <1>4, <2>2, <3>1, <3>4
  <2> QED
    BY <1>4, <2>1, <2>2
<1>11. ClickInv'
  <2>1. ASSUME NEW t \in timers'
        PROVE  t \in Nat /\ clock' <= t /\ \E i \in DOMAIN shown' : t = shown'[i].at + WINDOW
    <3>1. CASE t \in timers
      <4>1. t \in Nat /\ clock <= t
        BY <3>1 DEF ClickInv
      <4>2. PICK i \in 1..n : t = shown[i].at + WINDOW
        BY <1>4, <3>1 DEF ClickInv
      <4>3. i \in DOMAIN shown' /\ shown'[i] = shown[i]
        BY <1>4
      <4> QED
        BY <1>1, <4>1, <4>2, <4>3
    <3>2. CASE t = clock + WINDOW
      <4>1. t \in Nat /\ clock <= t
        BY <1>2, <3>2
      <4>2. n + 1 \in DOMAIN shown' /\ t = shown'[n + 1].at + WINDOW
        BY <1>4, <3>2
      <4> QED
        BY <1>1, <4>1, <4>2
    <3>3. t \in timers \/ t = clock + WINDOW
      BY <1>1, <2>1
    <3> QED
      BY <3>1, <3>2, <3>3
  <2>2. ASSUME NEW i \in DOMAIN shown' PROVE shown'[i].at <= clock'
    <3>1. CASE i = n + 1
      BY <1>1, <1>2, <1>4, <3>1
    <3>2. CASE i # n + 1
      <4>1. i \in DOMAIN shown /\ shown'[i] = shown[i]
        BY <1>4, <2>2, <3>2
      <4>2. shown[i].at <= clock
        BY <4>1 DEF ClickInv
      <4> QED
        BY <1>1, <4>1, <4>2
    <3> QED
      BY <3>1, <3>2
  <2>3. lastShown' = Len(shown') /\ lastShown' # 0 /\ shown'[Len(shown')].at + WINDOW \in timers'
    BY <1>1, <1>4
  <2> QED
    BY <2>1, <2>2, <2>3 DEF ClickInv
<1> QED
  BY <1>4, <1>9, <1>10, <1>11

LEMMA ShownFacts ==
    ASSUME ShownInv
    PROVE  /\ Len(shown) \in Nat /\ DOMAIN shown = 1..Len(shown)
           /\ shown # <<>> => Len(shown) \in 1..Len(shown)
           /\ \A i \in DOMAIN shown : shown[i].at \in Nat
<1>1. PICK H : shown \in Seq([hash : H, now : Nat, at : Nat])
  BY DEF ShownInv
<1>2. \A r \in [hash : H, now : Nat, at : Nat] : r.at \in Nat
  OBVIOUS
<1> DEFINE S == [hash : H, now : Nat, at : Nat]
<1>3. shown \in Seq(S)
  BY <1>1
<1> HIDE DEF S
<1>4. /\ Len(shown) \in Nat /\ DOMAIN shown = 1..Len(shown) /\ (shown # <<>> => Len(shown) \in 1..Len(shown))
      /\ \A i \in DOMAIN shown : shown[i] \in S
  BY <1>3
<1> QED
  BY <1>2, <1>4 DEF S

\* The steps of the timers, the click and the clock.
LEMMA ClickSteps ==
    ASSUME FormInv, ShownInv, ClickInv, Forget \/ Click \/ Tick
    PROVE  ClickInv' /\ UNCHANGED <<throttle, shown>>
<1>0. clock \in Nat /\ WINDOW \in Nat
  BY NativeNotificationAssumption DEF FormInv
<1>2. CASE Forget
  <2>1. clock \in timers /\ timers' = timers \ {clock} /\ lastShown' = 0 /\ UNCHANGED <<throttle, shown, clicked, clock>>
    BY <1>2 DEF Forget, storeVars
  <2>2. PICK i \in DOMAIN shown : clock = shown[i].at + WINDOW
    BY <2>1 DEF ClickInv
  <2>3. shown # <<>> => shown[i].at + WINDOW \in shown[Len(shown)].at..clock
    <3> SUFFICES ASSUME shown # <<>> PROVE shown[i].at + WINDOW \in shown[Len(shown)].at..clock
      OBVIOUS
    <3>1. Len(shown) \in DOMAIN shown
      BY ShownFacts
    <3>2. shown[Len(shown)].at \in Nat /\ shown[Len(shown)].at <= clock
      BY <3>1, ShownFacts DEF ClickInv
    <3> QED
      BY <1>0, <2>2, <3>2
  <2> QED
    BY <2>1, <2>3 DEF ClickInv
<1>3. CASE Click
  <2>1. /\ lastShown # 0 /\ clicked' = clicked \cup {lastShown} /\ lastShown' = 0
        /\ UNCHANGED <<throttle, shown, timers, clock>>
    BY <1>3 DEF Click, storeVars
  <2>2. Len(shown) \in clicked'
    BY <2>1 DEF ClickInv
  <2> QED
    BY <2>1, <2>2 DEF ClickInv
<1>4. CASE Tick
  <2>1. clock' = clock + 1 /\ clock \notin timers /\ UNCHANGED <<throttle, shown, timers, lastShown, clicked>>
    BY <1>4 DEF Tick, nativeVars
  <2>2. \A t \in timers : clock' <= t
    BY <1>0, <2>1 DEF ClickInv
  <2>3. ASSUME NEW i \in DOMAIN shown PROVE shown[i].at <= clock'
    <3>1. shown[i].at \in Nat /\ shown[i].at <= clock
      BY ShownFacts DEF ClickInv
    <3> QED
      BY <1>0, <2>1, <3>1
  <2>4. shown # <<>> => shown[Len(shown)].at..clock \subseteq shown[Len(shown)].at..clock'
    <3> SUFFICES ASSUME shown # <<>> PROVE shown[Len(shown)].at..clock \subseteq shown[Len(shown)].at..clock'
      OBVIOUS
    <3>1. shown[Len(shown)].at \in Nat
      BY ShownFacts
    <3> QED
      BY <1>0, <2>1, <3>1
  <2> QED
    BY <2>1, <2>2, <2>3, <2>4 DEF ClickInv
<1> QED
  BY <1>2, <1>3, <1>4

LEMMA NativeNext ==
    ASSUME FormInv, ClearInv, ShownInv, ThrottleInv, ClickInv, OncePerWindow, [Next]_vars
    PROVE  ShownInv' /\ ThrottleInv' /\ ClickInv' /\ OncePerWindow'
<1>1. \A c \in Checkers : checks'[c].now \in Nat
  BY NowNext
<1>2. UNCHANGED <<throttle, shown>> => ShownInv' /\ ThrottleInv' /\ OncePerWindow'
  <2> SUFFICES ASSUME throttle' = throttle, shown' = shown PROVE ShownInv' /\ ThrottleInv' /\ OncePerWindow'
    OBVIOUS
  <2>1. ShownInv'
    BY <1>1 DEF ShownInv
  <2>2. ThrottleInv'
    BY DEF ThrottleInv
  <2>3. OncePerWindow'
    BY DEF OncePerWindow
  <2> QED
    BY <2>1, <2>2, <2>3
<1>3. CASE \E c \in Checkers : Throttle(c)
  <2> PICK c \in Checkers : Throttle(c)
    BY <1>3
  <2>1. CASE UNCHANGED shown
    BY <1>1, <2>1, ThrottleStep DEF ShownInv
  <2>2. CASE ~UNCHANGED shown
    BY <1>1, <2>2, ShowStep DEF ShownInv
  <2> QED
    BY <2>1, <2>2
<1>4. CASE Ends
  BY <1>4, EndsAll
<1>5. CASE Forget \/ Click \/ Tick
  BY <1>2, <1>5, ClickSteps
<1>6. CASE UNCHANGED <<clock, throttle, lastShown, timers, shown, clicked>>
  BY <1>2, <1>6 DEF ClickInv
<1> QED
  BY <1>3, <1>4, <1>5, <1>6, NativeSteps

\* No message is shown twice within the throttle, and a click opens the last
\* notification for as long as it has, but for the clocks and the timers
\* that the two properties name.
THEOREM TimesAreKept == Spec => []NotifiesInTime
<1>1. NativeInit => ShownInv /\ ThrottleInv /\ ClickInv /\ OncePerWindow
  BY NativeStart
<1>2. FormInv /\ ClearInv /\ ShownInv /\ ThrottleInv /\ ClickInv /\ OncePerWindow /\ [Next]_vars
          => (ShownInv /\ ThrottleInv /\ ClickInv /\ OncePerWindow)'
  BY NativeNext
<1>3. FormInv /\ ShownInv /\ ClickInv /\ OncePerWindow => NotifiesInTime
  <2> SUFFICES ASSUME FormInv, ShownInv, ClickInv, shown # <<>> PROVE ClickWindow
    BY DEF NotifiesInTime, ClickWindow
  <2> DEFINE n == Len(shown)
             last == shown[n]
  <2>1. clock \in Nat /\ WINDOW \in Nat
    BY NativeNotificationAssumption DEF FormInv
  <2>2. n \in Nat /\ DOMAIN shown = 1..n /\ n \in 1..n
    BY ShownFacts
  <2>3. \A i \in 1..n : shown[i].at \in Nat
    BY <2>2, ShownFacts
  <2> HIDE DEF n
  <2>4. ASSUME clock < last.at + WINDOW, n \notin clicked, lastShown = 0
        PROVE  \E i \in 1..(n - 1) : shown[i].at + WINDOW \in last.at..clock
    <3>1. PICK i \in 1..n : shown[i].at + WINDOW \in last.at..clock
      BY <2>2, <2>4 DEF ClickInv, n
    <3>2. i # n
      BY <2>1, <2>2, <2>3, <2>4, <3>1
    <3> QED
      BY <2>2, <3>1, <3>2
  <2>5. lastShown \in {0, n}
    BY DEF ClickInv, n
  <2>6. clock > last.at + WINDOW => lastShown = 0
    <3>1. lastShown # 0 => clock <= last.at + WINDOW
      BY DEF ClickInv, n
    <3> QED
      BY <2>1, <2>2, <2>3, <3>1
  <2> QED
    BY <2>4, <2>5, <2>6 DEF ClickWindow, n
<1> QED
  BY <1>1, <1>2, <1>3, FormOK, PTL DEF Spec

-----------------------------------------------------------------------------
(* Lists that name nothing twice. *)

LEMMA ListOf ==
    ASSUME NEW T, NEW s \in Seq(T)
    PROVE  IsList(s)
<1>1. Len(s) \in Nat /\ DOMAIN s = 1 .. Len(s) /\ s = [i \in 1 .. Len(s) |-> s[i]]
  OBVIOUS
<1>2. \A i \in 1 .. Len(s) : s[i] \in Range(s)
  BY <1>1 DEF Range
<1> QED
  BY <1>1, <1>2 DEF IsList

LEMMA ListForm ==
    ASSUME NEW s, IsList(s)
    PROVE  /\ Len(s) \in Nat /\ DOMAIN s = 1 .. Len(s)
           /\ Range(s) = {s[i] : i \in 1 .. Len(s)}
           /\ s # <<>> <=> Len(s) # 0
<1>1. s \in Seq(Range(s))
  BY DEF IsList
<1>2. Len(s) \in Nat /\ DOMAIN s = 1 .. Len(s) /\ (s # <<>> <=> Len(s) # 0)
  BY <1>1
<1> QED
  BY <1>2 DEF Range

LEMMA JoinedForm ==
    ASSUME NEW a, NEW b, IsList(a), IsList(b)
    PROVE  /\ IsList(a \o b)
           /\ Len(a \o b) = Len(a) + Len(b)
           /\ \A i \in 1 .. Len(a) : (a \o b)[i] = a[i]
           /\ \A i \in 1 .. Len(b) : (a \o b)[Len(a) + i] = b[i]
           /\ \A i \in 1 .. Len(a) + Len(b) : \/ i \in 1 .. Len(a) /\ (a \o b)[i] = a[i]
                                              \/ i - Len(a) \in 1 .. Len(b) /\ (a \o b)[i] = b[i - Len(a)]
<1> DEFINE T == Range(a) \cup Range(b)
<1>1. a \in Seq(T) /\ b \in Seq(T)
  BY WiderList DEF IsList
<1> HIDE DEF T
<1>2. a \o b \in Seq(T)
  BY <1>1
<1>3. IsList(a \o b)
  BY <1>2, ListOf
<1>4. Len(a \o b) = Len(a) + Len(b) /\ Len(a) \in Nat /\ Len(b) \in Nat
  BY <1>1
<1>5. \A i \in 1 .. Len(a) + Len(b) : (a \o b)[i] = IF i <= Len(a) THEN a[i] ELSE b[i - Len(a)]
  BY <1>1
<1> QED
  BY <1>3, <1>4, <1>5

LEMMA ChosenForm ==
    ASSUME NEW s, IsList(s), NEW P \in SUBSET DOMAIN s
    PROVE  Ranked(Chosen(s, P), P, s, Range(s)) /\ IsList(Chosen(s, P))
<1>1. Len(s) \in Nat /\ DOMAIN s = 1 .. Len(s)
  BY ListForm
<1>2. Chosen(s, P) = FlattenSeq(Choice(Len(s), P, s))
  BY <1>1 DEF Chosen, Choice
<1>3. \A i \in P : s[i] \in Range(s)
  BY DEF Range
<1>4. P \in SUBSET (1 .. Len(s))
  BY <1>1
<1>5. Ranked(FlattenSeq(Choice(Len(s), P, s)), P, s, Range(s))
  BY <1>1, <1>3, <1>4, Selection
<1> QED
  BY <1>2, <1>5, ListOf DEF Ranked

LEMMA SetForm ==
    ASSUME NEW s, IsList(s)
    PROVE  IsSet(s) <=> \A i, j \in 1 .. Len(s) : s[i] = s[j] => i = j
BY ListForm, Different DEF IsSet

LEMMA JoinedSet ==
    ASSUME NEW a, NEW b, IsList(a), IsList(b), IsSet(a), IsSet(b), Range(a) \cap Range(b) = {}
    PROVE  IsSet(a \o b)
<1>1. SUFFICES ASSUME NEW i \in 1 .. Len(a \o b), NEW j \in 1 .. Len(a \o b), (a \o b)[i] = (a \o b)[j]
               PROVE  i = j
  BY SetForm, JoinedForm
<1>2. /\ \A k, l \in 1 .. Len(a) : a[k] = a[l] => k = l
      /\ \A k, l \in 1 .. Len(b) : b[k] = b[l] => k = l
  BY SetForm
<1>3. \A k \in 1 .. Len(a), l \in 1 .. Len(b) : a[k] # b[l]
  <2>1. \A k \in 1 .. Len(a) : a[k] \in Range(a)
    BY ListForm
  <2>2. \A l \in 1 .. Len(b) : b[l] \in Range(b)
    BY ListForm
  <2> QED
    BY <2>1, <2>2
<1> QED
  BY <1>1, <1>2, <1>3, JoinedForm, ListForm

LEMMA ChosenSet ==
    ASSUME NEW s, IsList(s), IsSet(s), NEW P \in SUBSET DOMAIN s
    PROVE  IsSet(Chosen(s, P))
<1>1. P \in SUBSET (1 .. Len(s)) /\ Len(s) \in Nat
  BY ListForm
<1>2. \A i, j \in P : s[i] = s[j] => i = j
  BY <1>1, SetForm
<1>3. \A j, k \in 1 .. Len(Chosen(s, P)) : Chosen(s, P)[j] = Chosen(s, P)[k] => j = k
  <2>1. Ranked(Chosen(s, P), P, s, Range(s))
    BY ChosenForm
  <2> QED
    BY <1>2, <2>1, SelectedOnce
<1> QED
  BY <1>3, ChosenForm, SetForm

-----------------------------------------------------------------------------
(* Lists of triggers. *)

TriggerOK(t) ==
    /\ {"id", "isBuiltin"} \subseteq DOMAIN t /\ ValidateTrigger(t)
    /\ t.id \in TriggerIds(DefaultTriggers) => t.isBuiltin
IdsDiffer(s) == \A i, j \in 1 .. Len(s) : s[i].id = s[j].id => i = j

LEMMA OwnForm ==
    ASSUME NEW s, IsList(s)
    PROVE  /\ AreOwn(s) <=> IdsDiffer(s) /\ \A i \in 1 .. Len(s) : TriggerOK(s[i])
           /\ TriggerIds(s) = {s[i].id : i \in 1 .. Len(s)}
<1> DEFINE f == [i \in 1 .. Len(s) |-> s[i].id]
<1>1. Len(s) \in Nat /\ DOMAIN s = 1 .. Len(s) /\ Range(s) = {s[i] : i \in 1 .. Len(s)}
  BY ListForm
<1>2. TriggerIds(s) = {s[i].id : i \in 1 .. Len(s)}
  BY <1>1 DEF TriggerIds
<1>3. {s[i].id : i \in 1 .. Len(s)} = {f[i] : i \in 1 .. Len(s)}
  OBVIOUS
<1>4. Cardinality({f[i] : i \in 1 .. Len(s)}) = Len(s) <=> \A i, j \in 1 .. Len(s) : f[i] = f[j] => i = j
  BY <1>1, Different
<1>5. (\A i, j \in 1 .. Len(s) : f[i] = f[j] => i = j) <=> IdsDiffer(s)
  BY DEF IdsDiffer
<1> HIDE DEF f
<1>6. Cardinality(TriggerIds(s)) = Len(s) <=> IdsDiffer(s)
  BY <1>2, <1>3, <1>4, <1>5
<1>7. (\A t \in Range(s) : TriggerOK(t)) <=> \A i \in 1 .. Len(s) : TriggerOK(s[i])
  BY <1>1
<1>8. AreOwn(s) <=> Cardinality(TriggerIds(s)) = Len(s) /\ \A t \in Range(s) : TriggerOK(t)
  BY DEF AreOwn, TriggerOK
<1> QED
  BY <1>2, <1>6, <1>7, <1>8

LEMMA JoinedOwn ==
    ASSUME NEW a, NEW b, IsList(a), IsList(b), AreOwn(a), AreOwn(b), TriggerIds(a) \cap TriggerIds(b) = {}
    PROVE  AreOwn(a \o b)
<1>1. /\ Len(a) \in Nat /\ Len(b) \in Nat
      /\ IdsDiffer(a) /\ IdsDiffer(b)
      /\ \A k \in 1 .. Len(a) : TriggerOK(a[k]) /\ a[k].id \in TriggerIds(a)
      /\ \A l \in 1 .. Len(b) : TriggerOK(b[l]) /\ b[l].id \in TriggerIds(b)
  BY OwnForm, ListForm
<1>2. \A i \in 1 .. Len(a \o b) : TriggerOK((a \o b)[i])
  BY <1>1, JoinedForm
<1>3. ASSUME NEW i \in 1 .. Len(a \o b), NEW j \in 1 .. Len(a \o b), (a \o b)[i].id = (a \o b)[j].id
      PROVE  i = j
  <2>1. \/ i \in 1 .. Len(a) /\ (a \o b)[i] = a[i]
        \/ i - Len(a) \in 1 .. Len(b) /\ (a \o b)[i] = b[i - Len(a)]
    BY JoinedForm
  <2>2. \/ j \in 1 .. Len(a) /\ (a \o b)[j] = a[j]
        \/ j - Len(a) \in 1 .. Len(b) /\ (a \o b)[j] = b[j - Len(a)]
    BY JoinedForm
  <2>3. \A k \in 1 .. Len(a), l \in 1 .. Len(b) : a[k].id # b[l].id
    BY <1>1
  <2>4. \/ i \in 1 .. Len(a) /\ j \in 1 .. Len(a) /\ a[i].id = a[j].id
        \/ i - Len(a) \in 1 .. Len(b) /\ j - Len(a) \in 1 .. Len(b) /\ b[i - Len(a)].id = b[j - Len(a)].id
    BY <1>3, <2>1, <2>2, <2>3
  <2>5. i = j \/ i - Len(a) = j - Len(a)
    BY <1>1, <2>4 DEF IdsDiffer
  <2>6. i \in Nat /\ j \in Nat
    OBVIOUS
  <2> QED
    BY <1>1, <2>5, <2>6
<1> QED
  BY <1>2, <1>3, JoinedForm, OwnForm DEF IdsDiffer

LEMMA JoinedIds ==
    ASSUME NEW a, NEW b, IsList(a), IsList(b)
    PROVE  TriggerIds(a \o b) = TriggerIds(a) \cup TriggerIds(b)
<1>1. /\ TriggerIds(a) = {a[i].id : i \in 1 .. Len(a)} /\ TriggerIds(b) = {b[i].id : i \in 1 .. Len(b)}
      /\ TriggerIds(a \o b) = {(a \o b)[i].id : i \in 1 .. Len(a \o b)}
      /\ Len(a) \in Nat /\ Len(b) \in Nat /\ Len(a \o b) = Len(a) + Len(b)
  BY OwnForm, JoinedForm, ListForm
<1>2. ASSUME NEW i \in 1 .. Len(a) PROVE i \in 1 .. Len(a \o b) /\ (a \o b)[i] = a[i]
  BY <1>1, JoinedForm
<1>3. ASSUME NEW i \in 1 .. Len(b) PROVE Len(a) + i \in 1 .. Len(a \o b) /\ (a \o b)[Len(a) + i] = b[i]
  BY <1>1, JoinedForm
<1>4. ASSUME NEW i \in 1 .. Len(a \o b) PROVE (a \o b)[i].id \in TriggerIds(a) \cup TriggerIds(b)
  BY <1>1, JoinedForm
<1> QED
  BY <1>1, <1>2, <1>3, <1>4

LEMMA ChosenOwn ==
    ASSUME NEW s, IsList(s), AreOwn(s), NEW P \in SUBSET DOMAIN s
    PROVE  AreOwn(Chosen(s, P))
<1>1. IdsDiffer(s) /\ (\A i \in 1 .. Len(s) : TriggerOK(s[i])) /\ P \in SUBSET (1 .. Len(s))
  BY OwnForm, ListForm
<1>2. Ranked(Chosen(s, P), P, s, Range(s)) /\ IsList(Chosen(s, P))
  BY ChosenForm
<1> DEFINE r == Chosen(s, P)
<1> HIDE DEF r
<1>3. \A j \in 1 .. Len(r) : \E i \in P : Rank(P, i) = j /\ r[j] = s[i]
  BY <1>2 DEF Ranked, r
<1>4. \A j \in 1 .. Len(r) : TriggerOK(r[j])
  BY <1>1, <1>3
<1>5. ASSUME NEW j \in 1 .. Len(r), NEW k \in 1 .. Len(r), r[j].id = r[k].id PROVE j = k
  <2>1. PICK i \in P : Rank(P, i) = j /\ r[j] = s[i]
    BY <1>3
  <2>2. PICK l \in P : Rank(P, l) = k /\ r[k] = s[l]
    BY <1>3
  <2>3. i = l
    BY <1>1, <1>5, <2>1, <2>2 DEF IdsDiffer
  <2> QED
    BY <2>1, <2>2, <2>3
<1>6. AreOwn(r)
  BY <1>2, <1>4, <1>5, OwnForm DEF IdsDiffer, r
<1> QED
  BY <1>6 DEF r

LEMMA ChosenIds ==
    ASSUME NEW s, IsList(s), NEW P \in SUBSET DOMAIN s
    PROVE  TriggerIds(Chosen(s, P)) = {s[i].id : i \in P}
<1>1. Ranked(Chosen(s, P), P, s, Range(s)) /\ IsList(Chosen(s, P))
  BY ChosenForm
<1> DEFINE r == Chosen(s, P)
<1> HIDE DEF r
<1>2. TriggerIds(r) = {r[i].id : i \in 1 .. Len(r)}
  BY <1>1, OwnForm DEF r
<1>3. /\ \A j \in 1 .. Len(r) : \E i \in P : r[j] = s[i]
      /\ \A i \in P : Rank(P, i) \in 1 .. Len(r) /\ r[Rank(P, i)] = s[i]
  BY <1>1 DEF Ranked, r
<1>4. TriggerIds(r) = {s[i].id : i \in P}
  BY <1>2, <1>3
<1> QED
  BY <1>4 DEF r

\* The triggers the program brings along.
LEMMA Builtins ==
    /\ IsList(DefaultTriggers) /\ AreOwn(DefaultTriggers)
    /\ \A d \in Range(DefaultTriggers) : d.isBuiltin /\ d.id \in TriggerIds(DefaultTriggers)
<1> DEFINE a == DefaultTriggers[1]
           b == DefaultTriggers[2]
           c == DefaultTriggers[3]
<1>1. DefaultTriggers \in Seq({a, b, c}) /\ Len(DefaultTriggers) = 3
  BY DEF DefaultTriggers
<1>2. IsList(DefaultTriggers)
  BY <1>1, ListOf
<1>3. a.id = "bash" /\ b.id = "error" /\ c.id = "tokens"
  BY DEF DefaultTriggers, BuiltinTrigger
<1>4. \A t \in {a, b, c} : t.isBuiltin /\ {"id", "isBuiltin"} \subseteq DOMAIN t
  <2>1. \A id, content, mode, fields : LET t == BuiltinTrigger(id, content, mode, fields)
                                       IN  t.isBuiltin /\ {"id", "isBuiltin"} \subseteq DOMAIN t
    BY DEF BuiltinTrigger
  <2>2. \A t \in {a, b, c} : \E id, content, mode, fields : t = BuiltinTrigger(id, content, mode, fields)
    BY DEF DefaultTriggers
  <2> QED
    BY <2>1, <2>2
<1>5. ValidateTrigger(a)
  BY DEF DefaultTriggers, BuiltinTrigger, ValidateTrigger, Settings, Range, None, Blank
<1>6. ValidateTrigger(b)
  BY DEF DefaultTriggers, BuiltinTrigger, ValidateTrigger, Settings, Range, None, Blank
<1>7. ValidateTrigger(c)
  BY DEF DefaultTriggers, BuiltinTrigger, ValidateTrigger, Settings, Range, None, Blank
<1> HIDE DEF a, b, c
<1>8. \A i \in 1 .. 3 : DefaultTriggers[i] \in {a, b, c}
  BY DEF a, b, c
<1>9. \A i \in 1 .. 3 : TriggerOK(DefaultTriggers[i])
  BY <1>4, <1>5, <1>6, <1>7, <1>8 DEF TriggerOK
<1>10. IdsDiffer(DefaultTriggers)
  BY <1>1, <1>3 DEF IdsDiffer, a, b, c
<1> QED
  BY <1>1, <1>2, <1>4, <1>8, <1>9, <1>10, OwnForm, ListForm

\* A list of triggers such as the calls leave it.
Fitted(s) == IsList(s) /\ AreOwn(s) /\ TriggerIds(DefaultTriggers) \subseteq TriggerIds(s)

LEMMA AppendedForm ==
    ASSUME NEW s, IsList(s), NEW x
    PROVE  IsList(Append(s, x)) /\ IsList(<<x>>) /\ Append(s, x) = s \o <<x>>
<1> DEFINE T == Range(s) \cup {x}
<1>1. s \in Seq(T) /\ x \in T
  BY WiderList DEF IsList
<1> HIDE DEF T
<1>2. Append(s, x) \in Seq(T) /\ <<x>> \in Seq(T) /\ Append(s, x) = s \o <<x>>
  BY <1>1
<1> QED
  BY <1>2, ListOf

LEMMA AddFits ==
    ASSUME NEW s, Fitted(s), NEW t, {"id", "isBuiltin"} \subseteq DOMAIN t, ValidateTrigger(t), t.id \notin TriggerIds(s)
    PROVE  Fitted(Append(s, t))
<1>1. IsList(s) /\ AreOwn(s) /\ TriggerIds(DefaultTriggers) \subseteq TriggerIds(s)
  BY DEF Fitted
<1>2. IsList(Append(s, t)) /\ IsList(<<t>>) /\ Append(s, t) = s \o <<t>>
  BY <1>1, AppendedForm
<1>3. Len(<<t>>) = 1 /\ \A i \in 1 .. Len(<<t>>) : <<t>>[i] = t
  OBVIOUS
<1>4. AreOwn(<<t>>) /\ TriggerIds(<<t>>) = {t.id}
  <2> DEFINE o == <<t>>
  <2>0. IsList(o) /\ Len(o) = 1 /\ \A i \in 1 .. Len(o) : o[i] = t
    BY <1>2, <1>3
  <2> HIDE DEF o
  <2>1. TriggerIds(o) = {t.id}
    BY <2>0, OwnForm
  <2>2. TriggerOK(t)
    BY <1>1 DEF TriggerOK
  <2>3. IdsDiffer(o)
    BY <2>0 DEF IdsDiffer
  <2>4. AreOwn(o)
    BY <2>0, <2>2, <2>3, OwnForm
  <2> QED
    BY <2>1, <2>4 DEF o
<1>5. AreOwn(s \o <<t>>) /\ TriggerIds(s \o <<t>>) = TriggerIds(s) \cup {t.id}
  BY <1>1, <1>2, <1>4, JoinedOwn, JoinedIds
<1> QED
  BY <1>1, <1>2, <1>5 DEF Fitted

LEMMA ReplacedForm ==
    ASSUME NEW s, IsList(s), NEW i, NEW x
    PROVE  /\ IsList([s EXCEPT ![i] = x])
           /\ Len([s EXCEPT ![i] = x]) = Len(s)
           /\ \A j \in 1 .. Len(s) : [s EXCEPT ![i] = x][j] = IF j = i THEN x ELSE s[j]
<1> DEFINE T == Range(s) \cup {x}
<1>1. s \in Seq(T) /\ x \in T
  BY WiderList DEF IsList
<1> HIDE DEF T
<1>2. Len(s) \in Nat /\ DOMAIN s = 1 .. Len(s)
  BY <1>1
<1>3. [s EXCEPT ![i] = x] \in Seq(T) /\ Len([s EXCEPT ![i] = x]) = Len(s)
  <2> DEFINE n == Len(s)
             r == [j \in 1 .. n |-> IF j = i THEN x ELSE s[j]]
  <2>1. [s EXCEPT ![i] = x] = r
    BY <1>2
  <2>2. \A j \in 1 .. n : s[j] \in T
    BY <1>1
  <2>3. n \in Nat
    BY <1>2
  <2> HIDE DEF n
  <2>4. r \in Seq(T) /\ Len(r) = n
    BY <1>1, <2>2, <2>3
  <2> QED
    BY <2>1, <2>4 DEF n
<1>4. \A j \in 1 .. Len(s) : [s EXCEPT ![i] = x][j] = IF j = i THEN x ELSE s[j]
  BY <1>2
<1> QED
  BY <1>3, <1>4, ListOf

LEMMA UpdatedKeeps ==
    ASSUME NEW t, {"id", "isBuiltin"} \subseteq DOMAIN t, NEW updates
    PROVE  /\ {"id", "isBuiltin"} \subseteq DOMAIN Updated(t, updates)
           /\ Updated(t, updates).id = t.id /\ Updated(t, updates).isBuiltin = t.isBuiltin
<1> DEFINE a == ApplyUpdates(t, updates)
<1>1. DOMAIN a = DOMAIN t /\ a["id"] = t["id"] /\ a["isBuiltin"] = t["isBuiltin"]
  BY DEF ApplyUpdates
<1> HIDE DEF a
<1>2. Updated(t, updates) = a \/ \E m : Updated(t, updates) = [a EXCEPT !.mode = m]
  BY DEF Updated, a
<1> QED
  BY <1>1, <1>2

LEMMA UpdateFits ==
    ASSUME NEW s, Fitted(s), NEW i \in 1 .. Len(s), NEW updates, ValidateTrigger(Updated(s[i], updates))
    PROVE  Fitted([s EXCEPT ![i] = Updated(s[i], updates)])
<1> DEFINE x == Updated(s[i], updates)
           r == [s EXCEPT ![i] = x]
<1>1. /\ IsList(s) /\ TriggerIds(DefaultTriggers) \subseteq TriggerIds(s)
      /\ IdsDiffer(s) /\ \A j \in 1 .. Len(s) : TriggerOK(s[j])
      /\ TriggerIds(s) = {s[j].id : j \in 1 .. Len(s)}
  BY OwnForm DEF Fitted
<1>2. x.id = s[i].id /\ TriggerOK(x)
  BY <1>1, UpdatedKeeps DEF TriggerOK
<1> HIDE DEF x
<1>3. IsList(r) /\ Len(r) = Len(s) /\ \A j \in 1 .. Len(s) : r[j] = IF j = i THEN x ELSE s[j]
  BY <1>1, ReplacedForm
<1> HIDE DEF r
<1>4. \A j \in 1 .. Len(s) : r[j].id = s[j].id /\ TriggerOK(r[j])
  BY <1>1, <1>2, <1>3
<1>5. IdsDiffer(r)
  BY <1>1, <1>3, <1>4 DEF IdsDiffer
<1>6. TriggerIds(r) = TriggerIds(s)
  <2>1. TriggerIds(r) = {r[j].id : j \in 1 .. Len(s)}
    BY <1>3, OwnForm
  <2> QED
    BY <1>1, <1>4, <2>1
<1>7. Fitted(r)
  BY <1>1, <1>3, <1>4, <1>5, <1>6, OwnForm DEF Fitted
<1> QED
  BY <1>7 DEF r, x

LEMMA FirstNamed ==
    ASSUME NEW s, IsList(s), NEW id
    PROVE  LET i == SelectInSeq(s, LAMBDA t : t.id = id)
           IN  i # 0 => i \in 1 .. Len(s) /\ s[i].id = id
<1> DEFINE I == {i \in 1 .. Len(s) : s[i].id = id}
<1>1. SelectInSeq(s, LAMBDA t : t.id = id) = IF I # {} THEN Min(I) ELSE 0
  BY DEF SelectInSeq
<1>2. I # {} => Min(I) \in I
  <2>1. I \in SUBSET Nat
    BY ListForm
  <2> HIDE DEF I
  <2> QED
    BY <2>1, LeastIsMin
<1> QED
  BY <1>1, <1>2

LEMMA RemoveFits ==
    ASSUME NEW s, Fitted(s), NEW id, NEW i \in 1 .. Len(s), s[i].id = id, ~s[i].isBuiltin
    PROVE  Fitted(NotNamed(s, id))
<1> DEFINE P == {j \in DOMAIN s : s[j].id # id}
<1>1. /\ IsList(s) /\ AreOwn(s) /\ TriggerIds(DefaultTriggers) \subseteq TriggerIds(s)
      /\ IdsDiffer(s) /\ \A j \in 1 .. Len(s) : TriggerOK(s[j])
      /\ TriggerIds(s) = {s[j].id : j \in 1 .. Len(s)}
      /\ DOMAIN s = 1 .. Len(s)
  BY OwnForm, ListForm DEF Fitted
<1>2. NotNamed(s, id) = Chosen(s, P)
  BY DEF NotNamed
<1>3. IsList(Chosen(s, P)) /\ AreOwn(Chosen(s, P)) /\ TriggerIds(Chosen(s, P)) = {s[j].id : j \in P}
  BY <1>1, ChosenForm, ChosenOwn, ChosenIds
<1>4. id \notin TriggerIds(DefaultTriggers)
  BY <1>1 DEF TriggerOK
<1>5. ASSUME NEW d \in TriggerIds(DefaultTriggers) PROVE d \in {s[j].id : j \in P}
  BY <1>1, <1>4
<1> QED
  BY <1>2, <1>3, <1>5 DEF Fitted

LEMMA MergeFits ==
    ASSUME NEW s, IsList(s)
    PROVE  /\ IsList(MergeTriggers(s))
           /\ AreOwn(s) => Fitted(MergeTriggers(s))
<1> DEFINE Known(t) == ~t.isBuiltin \/ t.id \in TriggerIds(DefaultTriggers)
           P == {i \in DOMAIN s : Known(s[i])}
           known == Chosen(s, P)
           Q == {i \in DOMAIN DefaultTriggers : DefaultTriggers[i].id \notin TriggerIds(known)}
           new == Chosen(DefaultTriggers, Q)
<1>1. MergeTriggers(s) = known \o new
  BY DEF MergeTriggers
<1>2. IsList(known) /\ (AreOwn(s) => AreOwn(known))
  BY ChosenForm, ChosenOwn
<1> HIDE DEF known
<1>3. IsList(new) /\ AreOwn(new)
  BY Builtins, ChosenForm, ChosenOwn
<1>4. TriggerIds(new) = {DefaultTriggers[i].id : i \in Q}
  BY Builtins, ChosenIds
<1>5. TriggerIds(DefaultTriggers) \subseteq TriggerIds(known) \cup TriggerIds(new)
  BY <1>4 DEF TriggerIds
<1>6. TriggerIds(known) \cap TriggerIds(new) = {}
  BY <1>4
<1> HIDE DEF new
<1>7. IsList(known \o new) /\ TriggerIds(known \o new) = TriggerIds(known) \cup TriggerIds(new)
  BY <1>2, <1>3, JoinedForm, JoinedIds
<1>8. AreOwn(s) => AreOwn(known \o new)
  BY <1>2, <1>3, <1>6, JoinedOwn
<1> QED
  BY <1>1, <1>5, <1>7, <1>8 DEF Fitted

-----------------------------------------------------------------------------
(* What the calls do to the lists. g has the parts that were given as a     *)
(* whole.                                                                   *)

Tidy(lists, kind, g) ==
    \A p \in DOMAIN lists :
        IsList(lists[p]) /\ lists[p] # <<>> /\ (IsSet(lists[p]) \/ (kind = "hiddenSessions" /\ "twice" \in g))
Listed(c) ==
    /\ {"triggers", "ignoredRegex"} \subseteq DOMAIN c.notifications
    /\ IsList(c.notifications.triggers) /\ IsList(c.notifications.ignoredRegex)
Sound(c, g) ==
    /\ Listed(c)
    /\ "triggers" \notin g => AreOwn(c.notifications.triggers)
    /\ \A kind \in DOMAIN c.sessions \ g : Tidy(c.sessions[kind], kind, g)
    /\ "port" \notin g => PortIsFree(c.httpServer)
Complete(c, g) ==
    "triggers" \notin g => TriggerIds(DefaultTriggers) \subseteq TriggerIds(c.notifications.triggers)
Holds(c, g) == Sound(c, g) /\ Complete(c, g)

LEMMA MoreGiven ==
    ASSUME NEW c, NEW g, NEW h, g \subseteq h
    PROVE  (Sound(c, g) => Sound(c, h)) /\ (Complete(c, g) => Complete(c, h))
BY DEF Sound, Complete, Tidy

LEMMA NotificationParts ==
    ASSUME NEW c, IsSettings(c), NEW key, NEW x
    PROVE  LET d == [c EXCEPT !.notifications[key] = x]
           IN  /\ DOMAIN d.notifications = DOMAIN c.notifications
               /\ d.sessions = c.sessions /\ d.httpServer = c.httpServer
               /\ \A k \in DOMAIN c.notifications : d.notifications[k] = IF k = key THEN x ELSE c.notifications[k]
<1> DEFINE n == [c.notifications EXCEPT ![key] = x]
           d == [c EXCEPT !.notifications = n]
<1>1. /\ DOMAIN n = DOMAIN c.notifications
      /\ \A k \in DOMAIN c.notifications : n[k] = IF k = key THEN x ELSE c.notifications[k]
  OBVIOUS
<1> HIDE DEF n
<1>2. d.notifications = n /\ d.sessions = c.sessions /\ d.httpServer = c.httpServer
  BY SettingsNames DEF IsSettings
<1> QED
  BY <1>1, <1>2 DEF n

LEMMA TriggersPart ==
    ASSUME NEW c, NEW g, IsSettings(c), Sound(c, g), NEW x, IsList(x), "triggers" \notin g => Fitted(x)
    PROVE  Holds(WithTriggers(c, x), g)
<1> DEFINE d == [c EXCEPT !.notifications["triggers"] = x]
<1>1. /\ DOMAIN d.notifications = DOMAIN c.notifications
      /\ d.sessions = c.sessions /\ d.httpServer = c.httpServer
      /\ \A k \in DOMAIN c.notifications : d.notifications[k] = IF k = "triggers" THEN x ELSE c.notifications[k]
  BY NotificationParts
<1>2. WithTriggers(c, x) = d
  BY DEF WithTriggers
<1> HIDE DEF d
<1>3. d.notifications.triggers = x /\ d.notifications.ignoredRegex = c.notifications.ignoredRegex
  BY <1>1 DEF Sound, Listed
<1>4. Listed(d)
  BY <1>1, <1>3 DEF Sound, Listed
<1> QED
  BY <1>1, <1>2, <1>3, <1>4 DEF Holds, Sound, Complete, Fitted

LEMMA OtherPart ==
    ASSUME NEW c, NEW g, IsSettings(c), Holds(c, g), NEW key, NEW x, key # "triggers", key = "ignoredRegex" => IsList(x)
    PROVE  Holds([c EXCEPT !.notifications[key] = x], g)
<1> DEFINE d == [c EXCEPT !.notifications[key] = x]
<1>1. /\ DOMAIN d.notifications = DOMAIN c.notifications
      /\ d.sessions = c.sessions /\ d.httpServer = c.httpServer
      /\ \A k \in DOMAIN c.notifications : d.notifications[k] = IF k = key THEN x ELSE c.notifications[k]
  BY NotificationParts
<1> HIDE DEF d
<1>2. {"triggers", "ignoredRegex"} \subseteq DOMAIN c.notifications /\ Listed(c)
  BY DEF Holds, Sound, Listed
<1>3. d.notifications.triggers = c.notifications.triggers
  BY <1>1, <1>2
<1>4. Listed(d)
  BY <1>1, <1>2, <1>3 DEF Listed
<1>5. Holds(d, g)
  BY <1>1, <1>3, <1>4 DEF Holds, Sound, Complete
<1> QED
  BY <1>5 DEF d

LEMMA SessionsPart ==
    ASSUME NEW c, NEW g, IsSettings(c), Holds(c, g), NEW kind, NEW x,
           kind \in DOMAIN c.sessions \ g => Tidy(x, kind, g)
    PROVE  Holds([c EXCEPT !.sessions[kind] = x], g)
<1> DEFINE n == [c.sessions EXCEPT ![kind] = x]
           d == [c EXCEPT !.sessions = n]
<1>1. DOMAIN n = DOMAIN c.sessions /\ \A k \in DOMAIN c.sessions : n[k] = IF k = kind THEN x ELSE c.sessions[k]
  OBVIOUS
<1> HIDE DEF n
<1>2. d.notifications = c.notifications /\ d.sessions = n /\ d.httpServer = c.httpServer
  BY SettingsNames DEF IsSettings
<1> HIDE DEF d
<1>3. Listed(d)
  BY <1>1, <1>2 DEF Holds, Sound, Listed
<1>4. \A k \in DOMAIN d.sessions \ g : Tidy(d.sessions[k], k, g)
  BY <1>1, <1>2 DEF Holds, Sound
<1>5. Holds(d, g)
  BY <1>2, <1>3, <1>4 DEF Holds, Sound, Complete
<1> QED
  BY <1>5 DEF d, n

HoldsOut(out, g) == out.changed => Holds(out.config, g)

LEMMA ChangedHolds == \A c, g : Holds(c, g) => HoldsOut(Changed(c), g)
BY DEF HoldsOut, Changed

LEMMA UnchangedHolds == \A c, g : HoldsOut(Refused(c), g) /\ HoldsOut(Same(c), g)
BY DEF HoldsOut, Refused, Same

LEMMA TriggerHolds ==
    ASSUME NEW c, NEW g, IsSettings(c), Holds(c, g), NEW call, IsCall(call),
           call.op \in {"add_trigger", "update_trigger", "remove_trigger"}
    PROVE  HoldsOut(TriggerOutcome(c, call), g)
<1> DEFINE s == c.notifications.triggers
<1>1. IsList(s) /\ ("triggers" \notin g => Fitted(s))
  BY DEF Holds, Sound, Complete, Listed, Fitted
<1> HIDE DEF s
<1>2. CASE call.op = "add_trigger"
  <2> DEFINE t == call.trigger
  <2>1. {"id", "isBuiltin"} \subseteq DOMAIN t
    BY <1>2 DEF IsCall
  <2> HIDE DEF t
  <2>2. CASE ValidateTrigger(t) /\ t.id \notin TriggerIds(s)
    <3>1. IsList(Append(s, t)) /\ ("triggers" \notin g => Fitted(Append(s, t)))
      BY <1>1, <2>1, <2>2, AppendedForm, AddFits
    <3>2. AddTrigger(c, t) = Changed(WithTriggers(c, Append(s, t)))
      BY <2>2 DEF AddTrigger, s
    <3> QED
      BY <3>1, <3>2, <1>2, TriggersPart, ChangedHolds DEF TriggerOutcome, Holds, t
  <2>3. CASE ~(ValidateTrigger(t) /\ t.id \notin TriggerIds(s))
    <3>1. AddTrigger(c, t) = Refused(c)
      BY <2>3 DEF AddTrigger, s
    <3> QED
      BY <3>1, <1>2, UnchangedHolds DEF TriggerOutcome, t
  <2> QED
    BY <2>2, <2>3
<1>3. CASE call.op = "update_trigger"
  <2> DEFINE i == SelectInSeq(s, LAMBDA t : t.id = call.id)
  <2>0. i # 0 => i \in 1 .. Len(s) /\ s[i].id = call.id
    BY <1>1, FirstNamed
  <2> DEFINE u == call.updates
             x == Updated(s[i], u)
             r == [s EXCEPT ![i] = x]
  <2>1. CASE i # 0 /\ ValidateTrigger(x)
    <3>1. i \in 1 .. Len(s)
      BY <2>0, <2>1
    <3>2. UpdateTrigger(c, call.id, u) = Changed(WithTriggers(c, r))
      BY <2>1 DEF UpdateTrigger, s
    <3> HIDE DEF i
    <3>3. IsList(r) /\ ("triggers" \notin g => Fitted(r))
      BY <1>1, <2>1, <3>1, ReplacedForm, UpdateFits
    <3> HIDE DEF r, u
    <3> QED
      BY <3>2, <3>3, <1>3, TriggersPart, ChangedHolds DEF TriggerOutcome, Holds, u
  <2>2. CASE ~(i # 0 /\ ValidateTrigger(x))
    <3>1. UpdateTrigger(c, call.id, u) = Refused(c)
      BY <2>2 DEF UpdateTrigger, s
    <3> QED
      BY <3>1, <1>3, UnchangedHolds DEF TriggerOutcome
  <2> QED
    BY <2>1, <2>2
<1>4. CASE call.op = "remove_trigger"
  <2> DEFINE i == SelectInSeq(s, LAMBDA t : t.id = call.id)
             r == NotNamed(s, call.id)
  <2>1. CASE i # 0 /\ ~s[i].isBuiltin
    <3>1. i \in 1 .. Len(s) /\ s[i].id = call.id
      BY <2>1, <1>1, FirstNamed
    <3>2. RemoveTrigger(c, call.id) = Changed(WithTriggers(c, r))
      BY <2>1 DEF RemoveTrigger, s
    <3> HIDE DEF i
    <3>3. IsList(r)
      BY <1>1, ChosenForm DEF NotNamed
    <3>4. "triggers" \notin g => Fitted(r)
      BY <1>1, <2>1, <3>1, RemoveFits
    <3> HIDE DEF r
    <3> QED
      BY <3>2, <3>3, <3>4, <1>4, TriggersPart, ChangedHolds DEF TriggerOutcome, Holds
  <2>2. CASE ~(i # 0 /\ ~s[i].isBuiltin)
    <3>1. RemoveTrigger(c, call.id) = Refused(c)
      BY <2>2 DEF RemoveTrigger, s
    <3> QED
      BY <3>1, <1>4, UnchangedHolds DEF TriggerOutcome
  <2> QED
    BY <2>1, <2>2
<1> QED
  BY <1>2, <1>3, <1>4

LEMMA IgnoreHolds ==
    ASSUME NEW c, NEW g, IsSettings(c), Holds(c, g), NEW call
    PROVE  HoldsOut(IgnoreOutcome(c, call), g)
<1>0. IsList(c.notifications.ignoredRegex)
  BY DEF Holds, Sound, Listed
<1>1. \A x : IsList(x) => HoldsOut(Changed([c EXCEPT !.notifications["ignoredRegex"] = x]), g)
  BY OtherPart, ChangedHolds, "ignoredRegex" # "triggers"
<1>2. \A x : HoldsOut(Changed([c EXCEPT !.notifications["ignoredRepositories"] = x]), g)
  BY OtherPart, ChangedHolds, "ignoredRepositories" # "triggers", "ignoredRepositories" # "ignoredRegex"
<1>3. \A p : HoldsOut(AddIgnoreRegex(c, p), g)
  BY <1>0, <1>1, AppendedForm, UnchangedHolds DEF AddIgnoreRegex
<1>4. \A p : HoldsOut(AddIgnoreRepository(c, p), g)
  BY <1>2, UnchangedHolds DEF AddIgnoreRepository
<1>5. \A p : HoldsOut(Without(c, "ignoredRegex", p), g)
  <2> TAKE p
  <2> DEFINE list == c.notifications["ignoredRegex"]
             P == {i \in DOMAIN list : list[i] # p}
             x == Chosen(list, P)
  <2>1. IsList(x)
    BY <1>0, ChosenForm
  <2>2. Without(c, "ignoredRegex", p) = Same(c)
        \/ Without(c, "ignoredRegex", p) = Changed([c EXCEPT !.notifications["ignoredRegex"] = x])
    BY DEF Without
  <2> HIDE DEF x
  <2> QED
    BY <2>1, <2>2, <1>1, UnchangedHolds
<1>6. \A p : HoldsOut(Without(c, "ignoredRepositories", p), g)
  BY <1>2, UnchangedHolds DEF Without
<1> QED
  BY <1>3, <1>4, <1>5, <1>6 DEF IgnoreOutcome, RemoveIgnoreRegex, RemoveIgnoreRepository

LEMMA EmptyList == IsList(<<>>) /\ IsSet(<<>>)
<1>1. <<>> \in Seq({}) /\ Len(<<>>) = 0
  OBVIOUS
<1>2. IsList(<<>>)
  BY <1>1, ListOf
<1> QED
  BY <1>1, <1>2, SetForm

LEMMA InFrontHolds ==
    ASSUME NEW c, NEW g, IsSettings(c), Holds(c, g), NEW kind, NEW p, NEW ids, IsList(ids),
           IsSet(ids) \/ (kind = "hiddenSessions" /\ "twice" \in g)
    PROVE  HoldsOut(InFront(c, kind, p, ids), g)
<1> DEFINE lists == c.sessions[kind]
           old == Of(lists, p)
           P == {i \in DOMAIN ids : ids[i] \notin Range(old)}
           new == Chosen(ids, P)
           x == Put(lists, p, new \o old)
<1>1. InFront(c, kind, p, ids) = IF new = <<>> THEN Same(c) ELSE Changed([c EXCEPT !.sessions[kind] = x])
  BY DEF InFront
<1>2. ASSUME new # <<>>, kind \in DOMAIN c.sessions \ g PROVE Tidy(x, kind, g)
  <2>1. Tidy(lists, kind, g)
    BY <1>2 DEF Holds, Sound
  <2>2. IsList(old) /\ (IsSet(old) \/ (kind = "hiddenSessions" /\ "twice" \in g))
    BY <2>1, EmptyList DEF Of, Tidy
  <2>3. IsList(new) /\ (IsSet(ids) => IsSet(new)) /\ Ranked(new, P, ids, Range(ids))
    BY ChosenForm, ChosenSet
  <2>4. Range(new) \cap Range(old) = {}
    <3>1. \A j \in 1 .. Len(new) : new[j] \notin Range(old)
      <4>1. \A i \in P : ids[i] \notin Range(old)
        OBVIOUS
      <4>2. \A j \in 1 .. Len(new) : \E i \in P : new[j] = ids[i]
        BY <2>3 DEF Ranked
      <4> QED
        BY <4>1, <4>2
    <3> HIDE DEF new
    <3> QED
      BY <2>3, <3>1, ListForm
  <2>5. DOMAIN x = DOMAIN lists \cup {p} /\ x[p] = new \o old /\ \A q \in DOMAIN lists \ {p} : x[q] = lists[q]
    BY DEF Put
  <2> HIDE DEF lists, old, new, x
  <2>6. IsList(new \o old) /\ (IsSet(ids) /\ IsSet(old) => IsSet(new \o old))
    BY <2>2, <2>3, <2>4, JoinedForm, JoinedSet
  <2>7. new \o old # <<>>
    BY <1>2, <2>2, <2>3, <2>6, JoinedForm, ListForm
  <2> QED
    BY <2>1, <2>2, <2>5, <2>6, <2>7 DEF Tidy
<1> HIDE DEF new, x
<1> QED
  BY <1>1, <1>2, SessionsPart, ChangedHolds, UnchangedHolds

LEMMA TakenHolds ==
    ASSUME NEW c, NEW g, IsSettings(c), Holds(c, g), NEW kind, NEW p, NEW ids
    PROVE  HoldsOut(Taken(c, kind, p, ids), g)
<1> DEFINE lists == c.sessions[kind]
           old == Of(lists, p)
           P == {i \in DOMAIN old : old[i] \notin ids}
           rest == Chosen(old, P)
           put == Put(lists, p, rest)
           x == IF p \in DOMAIN lists THEN Cleaned(put, p) ELSE lists
<1>1. Taken(c, kind, p, ids) = Changed([c EXCEPT !.sessions[kind] = x])
  BY DEF Taken
<1>2. ASSUME kind \in DOMAIN c.sessions \ g PROVE Tidy(x, kind, g)
  <2>1. Tidy(lists, kind, g)
    BY <1>2 DEF Holds, Sound
  <2>2. IsList(old) /\ (IsSet(old) \/ (kind = "hiddenSessions" /\ "twice" \in g))
    BY <2>1, EmptyList DEF Of, Tidy
  <2>3. IsList(rest) /\ (IsSet(old) => IsSet(rest))
    BY <2>2, ChosenForm, ChosenSet
  <2>4. DOMAIN put = DOMAIN lists \cup {p} /\ put[p] = rest /\ \A q \in DOMAIN lists \ {p} : put[q] = lists[q]
    BY DEF Put
  <2> HIDE DEF old, rest, put
  <2>5. CASE p \in DOMAIN lists /\ rest = <<>>
    <3>1. DOMAIN x = DOMAIN lists \ {p} /\ \A q \in DOMAIN lists \ {p} : x[q] = lists[q]
      BY <2>4, <2>5 DEF Cleaned
    <3> QED
      BY <2>1, <3>1 DEF Tidy
  <2>6. CASE p \in DOMAIN lists /\ rest # <<>>
    <3>1. x = put
      BY <2>4, <2>6 DEF Cleaned
    <3> QED
      BY <2>1, <2>2, <2>3, <2>4, <2>6, <3>1 DEF Tidy
  <2>7. CASE p \notin DOMAIN lists
    BY <2>1, <2>7
  <2> QED
    BY <2>5, <2>6, <2>7
<1> HIDE DEF x
<1> QED
  BY <1>1, <1>2, SessionsPart, ChangedHolds

LEMMA SessionHolds ==
    ASSUME NEW c, NEW g, IsSettings(c), Holds(c, g), NEW call, IsCall(call)
    PROVE  /\ HoldsOut(SessionOutcome(c, call), g)
           /\ call.op \in {"hide_many", "unhide_many"} /\ (NamesTwice(call) => "twice" \in g)
                 => HoldsOut(ManyOutcome(c, call), g)
<1>1. \A s : IsList(<<s>>) /\ IsSet(<<s>>)
  <2> TAKE s
  <2> DEFINE o == <<s>>
  <2>1. o \in Seq({s}) /\ Len(o) = 1
    OBVIOUS
  <2> HIDE DEF o
  <2>2. IsList(o) /\ IsSet(o)
    BY <2>1, ListOf, SetForm
  <2> QED
    BY <2>2 DEF o
<1>2. \A p, s : /\ HoldsOut(PinSession(c, p, s), g) /\ HoldsOut(UnpinSession(c, p, s), g)
                /\ HoldsOut(HideSession(c, p, s), g) /\ HoldsOut(UnhideSession(c, p, s), g)
  BY <1>1, InFrontHolds, TakenHolds DEF PinSession, UnpinSession, HideSession, UnhideSession
<1>3. \A p, ids : HoldsOut(UnhideSessions(c, p, ids), g)
  BY TakenHolds, UnchangedHolds DEF UnhideSessions
<1>4. ASSUME call.op = "hide_many", NamesTwice(call) => "twice" \in g
      PROVE  HoldsOut(HideSessions(c, call.project, call.sessions), g)
  <2>1. IsList(call.sessions) /\ (IsSet(call.sessions) \/ "twice" \in g)
    BY <1>4 DEF IsCall, NamesTwice
  <2> QED
    BY <2>1, InFrontHolds DEF HideSessions
<1> QED
  BY <1>2, <1>3, <1>4 DEF SessionOutcome, ManyOutcome

LEMMA SnoozeHolds ==
    ASSUME NEW c, NEW g, IsSettings(c), Holds(c, g), NEW call
    PROVE  HoldsOut(SnoozeOutcome(c, call), g)
<1>1. \A until : HoldsOut(SetSnooze(c, until), g)
  <2> TAKE until
  <2>1. Holds([c EXCEPT !.notifications["snoozedUntil"] = until], g)
    BY OtherPart, "snoozedUntil" # "triggers", "snoozedUntil" # "ignoredRegex"
  <2> QED
    BY <2>1, ChangedHolds DEF SetSnooze
<1> QED
  BY <1>1, UnchangedHolds DEF SnoozeOutcome, Snooze, ClearSnooze

LEMMA ListMerge ==
    ASSUME NEW old, NEW data, NEW k \in {"triggers", "ignoredRegex"}, k \in DOMAIN old, IsList(old[k]),
           k \in DOMAIN data => ValidateNotifications(k, data[k]) /\ (data[k].kind = "array" => IsList(data[k].v))
    PROVE  IsList(JsonMerge(old, data)[k])
<1>1. CASE k \notin DOMAIN data
  BY <1>1, MergeKeeps
<1>2. CASE k \in DOMAIN data
  <2> DEFINE v == data[k].v
             values == [i \in DOMAIN v |-> v[i].v]
  <2>1. data[k].kind = "array"
    <3>1. k \notin Flags("notifications")
      BY DEF Flags
    <3> QED
      BY <1>2, <3>1 DEF ValidateNotifications, TextList
  <2>2. JsonMerge(old, data)[k] = values \o <<>>
    BY <1>2, <2>1 DEF JsonMerge
  <2>3. IsList(v)
    BY <1>2, <2>1
  <2> HIDE DEF v
  <2>4. IsList(values)
    <3> DEFINE T == {v[i].v : i \in 1 .. Len(v)}
    <3>1. Len(v) \in Nat /\ DOMAIN v = 1 .. Len(v)
      BY <2>3, ListForm
    <3>2. values \in [1 .. Len(v) -> T]
      BY <3>1
    <3> HIDE DEF T, values
    <3>3. values \in Seq(T)
      BY <3>1, <3>2
    <3> QED
      BY <3>3, ListOf
  <2> HIDE DEF values
  <2>5. IsList(values \o <<>>)
    BY <2>4, EmptyList, JoinedForm
  <2> QED
    BY <2>2, <2>5
<1> QED
  BY <1>1, <1>2

LEMMA PortMerge ==
    ASSUME NEW old, NEW data, PortIsFree(old), ValidateUpdatePayload("httpServer", data),
           \A key \in DOMAIN data : data[key].kind = "number" => data[key].v \in Int,
           "port" \in DOMAIN JsonMerge(old, data)
    PROVE  PortIsFree(JsonMerge(old, data))
<1>1. CASE "port" \in DOMAIN data
  <2> DEFINE e == data["port"]
  <2>1. Validate("httpServer", "port", e)
    BY <1>1 DEF ValidateUpdatePayload
  <2> HIDE DEF e
  <2>2. ValidateHttpServer("port", e)
    BY <2>1 DEF Validate
  <2>3. e.kind = "number" /\ e.v \in Ports
    BY <2>2, "port" # "enabled" DEF ValidateHttpServer
  <2>4. JsonMerge(old, data)["port"] = IF e.kind = "array" /\ "port" \in {"ignoredRegex", "ignoredRepositories", "triggers"}
            THEN [i \in DOMAIN e.v |-> e.v[i].v] \o <<>>
            ELSE Merged(IF "port" \in DOMAIN old THEN old["port"] ELSE None, e, None)
    BY <1>1, "port" # "snoozedUntil", "port" # "lastConnection" DEF JsonMerge, e
  <2>5. JsonMerge(old, data)["port"] = e.v
    BY <2>3, <2>4 DEF Merged
  <2> QED
    BY <2>3, <2>5 DEF PortIsFree
<1>2. CASE "port" \notin DOMAIN data
  <2>1. "port" \in DOMAIN old /\ JsonMerge(old, data)["port"] = old["port"]
    BY <1>2, MergeKeeps
  <2>2. old # <<>>
    BY <2>1
  <2> QED
    BY <2>1, <2>2 DEF PortIsFree
<1> QED
  BY <1>1, <1>2

LEMMA Brought ==
    ASSUME NEW call
    PROVE  /\ call.op = "update" => AsItCame(call) = {key \in DOMAIN call.data : key = "triggers" \/ call.section = "sessions"}
           /\ call.op # "update" /\ NamesTwice(call) => AsItCame(call) = {"twice"}
BY DEF AsItCame

LEMMA UpdateHolds ==
    ASSUME NEW c, NEW g, IsSettings(c), Holds(c, g), NEW call, IsCall(call), call.op = "update",
           AsItCame(call) \subseteq g
    PROVE  HoldsOut(UpdateConfig(c, call.section, call.data), g)
<1> DEFINE section == call.section
           data == call.data
           sent == WithNormalRoot(section, data)
           merged == JsonMerge(c[section], sent)
           d == [c EXCEPT ![section] = merged]
<1>1. /\ "triggers" \in DOMAIN data => "triggers" \in g
      /\ section = "sessions" => DOMAIN data \subseteq g
  <2>1. AsItCame(call) = {key \in DOMAIN call.data : key = "triggers" \/ call.section = "sessions"}
    BY Brought
  <2>2. \A key \in DOMAIN call.data : (key = "triggers" \/ call.section = "sessions") => key \in g
    BY <2>1
  <2> QED
    BY <2>2
<1>2. CASE ~(section \in Sections /\ ValidateUpdatePayload(section, data) /\ Deserializes(section, data, merged))
  <2>1. UpdateConfig(c, section, data) = Refused(c)
    BY <1>2 DEF UpdateConfig
  <2> QED
    BY <2>1, UnchangedHolds
<1>3. CASE section \in Sections /\ ValidateUpdatePayload(section, data) /\ Deserializes(section, data, merged)
  <2>1. UpdateConfig(c, section, data) = Changed(d)
    BY <1>3 DEF UpdateConfig
  <2>2. section # "general" => sent = data
    BY NormalRoot
  <2> HIDE DEF sent
  <2>3. /\ DOMAIN c = Sections
        /\ d[section] = merged /\ \A o \in DOMAIN c \ {section} : d[o] = c[o]
    BY <1>3, SettingsNames DEF IsSettings
  <2>4. Listed(c) /\ ("triggers" \notin g => AreOwn(c.notifications.triggers))
        /\ (\A kind \in DOMAIN c.sessions \ g : Tidy(c.sessions[kind], kind, g))
        /\ ("port" \notin g => PortIsFree(c.httpServer)) /\ Complete(c, g)
    BY DEF Holds, Sound
  <2> HIDE DEF d
  <2>5. CASE section = "notifications"
    <3>1. /\ d.notifications = JsonMerge(c.notifications, data)
          /\ d.sessions = c.sessions /\ d.httpServer = c.httpServer
      BY <2>2, <2>3, <2>5 DEF Sections
    <3>2. \A k \in {"triggers", "ignoredRegex"} :
              /\ k \in DOMAIN c.notifications /\ IsList(c.notifications[k])
              /\ k \in DOMAIN data => ValidateNotifications(k, data[k]) /\ (data[k].kind = "array" => IsList(data[k].v))
      BY <1>3, <2>4, <2>5 DEF Listed, ValidateUpdatePayload, Validate, IsCall
    <3> DEFINE n == c.notifications
               m == JsonMerge(n, data)
    <3>a. /\ DOMAIN m = DOMAIN n \cup DOMAIN data
          /\ \A k \in DOMAIN n : k \notin DOMAIN data => m[k] = n[k]
      BY MergeKeeps
    <3>b. \A k \in {"triggers", "ignoredRegex"} : IsList(m[k])
      BY <3>2, ListMerge
    <3> HIDE DEF data, merged, m
    <3>3. /\ DOMAIN d.notifications = DOMAIN n \cup DOMAIN data
          /\ \A k \in {"triggers", "ignoredRegex"} : IsList(d.notifications[k])
      BY <3>1, <3>a, <3>b DEF m
    <3>4. "triggers" \notin g => d.notifications["triggers"] = n["triggers"]
      BY <1>1, <3>1, <3>2, <3>a DEF m
    <3>5. Listed(d)
      BY <3>2, <3>3 DEF Listed
    <3>6. Holds(d, g)
      BY <2>4, <3>1, <3>4, <3>5 DEF Holds, Sound, Complete
    <3> QED
      BY <2>1, <3>6, ChangedHolds DEF data
  <2>6. CASE section = "sessions"
    <3>1. d.notifications = c.notifications /\ d.sessions = JsonMerge(c.sessions, data) /\ d.httpServer = c.httpServer
      BY <2>2, <2>3, <2>6 DEF Sections
    <3> DEFINE n == c.sessions
               m == JsonMerge(n, data)
    <3>a. /\ DOMAIN m = DOMAIN n \cup DOMAIN data
          /\ \A k \in DOMAIN n : k \notin DOMAIN data => m[k] = n[k]
      BY MergeKeeps
    <3> HIDE DEF data, merged, m
    <3>2. \A kind \in DOMAIN d.sessions \ g : kind \in DOMAIN n \ g /\ d.sessions[kind] = n[kind]
      BY <1>1, <2>6, <3>1, <3>a DEF m
    <3>3. \A kind \in DOMAIN d.sessions \ g : Tidy(d.sessions[kind], kind, g)
      BY <2>4, <3>2
    <3>4. Holds(d, g)
      BY <2>4, <3>1, <3>3 DEF Holds, Sound, Complete, Listed
    <3> QED
      BY <2>1, <3>4, ChangedHolds DEF data
  <2>7. CASE section = "httpServer"
    <3>1. d.notifications = c.notifications /\ d.sessions = c.sessions /\ d.httpServer = JsonMerge(c.httpServer, data)
      BY <2>2, <2>3, <2>7 DEF Sections
    <3>2. "port" \in DOMAIN JsonMerge(c.httpServer, data)
      <4>1. Deserializes("httpServer", data, JsonMerge(c.httpServer, data))
        BY <1>3, <2>2, <2>7
      <4> QED
        BY <4>1 DEF Deserializes
    <3>3. "port" \notin g => PortIsFree(d.httpServer)
      BY <1>3, <2>4, <2>7, <3>1, <3>2, PortMerge DEF IsCall
    <3>4. Holds(d, g)
      BY <2>4, <3>1, <3>3 DEF Holds, Sound, Complete, Listed
    <3> QED
      BY <2>1, <3>4, ChangedHolds
  <2>8. CASE section \notin {"notifications", "sessions", "httpServer"}
    <3>1. d.notifications = c.notifications /\ d.sessions = c.sessions /\ d.httpServer = c.httpServer
      BY <2>3, <2>8 DEF Sections
    <3>2. Holds(d, g)
      BY <2>4, <3>1 DEF Holds, Sound, Complete, Listed
    <3> QED
      BY <2>1, <3>2, ChangedHolds
  <2> QED
    BY <2>5, <2>6, <2>7, <2>8
<1> QED
  BY <1>2, <1>3

LEMMA OutcomeHolds ==
    ASSUME NEW c, NEW g, IsSettings(c), Holds(c, g), NEW call, IsCall(call), AsItCame(call) \subseteq g
    PROVE  HoldsOut(Outcome(c, call), g)
<1>1. CASE call.op = "update"
  <2>1. Outcome(c, call) = UpdateConfig(c, call.section, call.data)
    BY <1>1 DEF Outcome
  <2> QED
    BY <1>1, <2>1, UpdateHolds
<1>2. CASE call.op \in {"add_trigger", "update_trigger", "remove_trigger"}
  <2>1. Outcome(c, call) = TriggerOutcome(c, call)
    BY <1>2 DEF Outcome
  <2> QED
    BY <1>2, <2>1, TriggerHolds
<1>3. CASE call.op \in {"hide_many", "unhide_many"}
  <2>1. Outcome(c, call) = ManyOutcome(c, call)
    BY <1>3 DEF Outcome
  <2>2. NamesTwice(call) => "twice" \in g
    BY <1>3 DEF AsItCame
  <2> QED
    BY <1>3, <2>1, <2>2, SessionHolds
<1>4. CASE call.op \notin {"update", "add_trigger", "update_trigger", "remove_trigger", "hide_many", "unhide_many"}
  <2>1. Outcome(c, call) \in {IgnoreOutcome(c, call), SessionOutcome(c, call), SnoozeOutcome(c, call)}
    BY <1>4 DEF Outcome
  <2> QED
    BY <2>1, IgnoreHolds, SessionHolds, SnoozeHolds
<1> QED
  BY <1>1, <1>2, <1>3, <1>4

-----------------------------------------------------------------------------
(* The settings and the file. *)

LEMMA DefaultsAreSound == Sound(DefaultConfig, {})
<1> DEFINE n == DefaultConfig.notifications
           off == Off("notifications", Flags("notifications"))
<1>1. PICK values : /\ n = Settings(off, values)
                    /\ {"triggers", "ignoredRegex"} \subseteq DOMAIN values
                    /\ values["triggers"] = <<>> /\ values["ignoredRegex"] = <<"default">>
  BY DEF DefaultConfig
<1>2. /\ DefaultConfig.httpServer = <<>>
      /\ DefaultConfig.sessions = [pinnedSessions |-> <<>>, hiddenSessions |-> <<>>]
  BY DEF DefaultConfig
<1>3. "triggers" \notin DOMAIN off /\ "ignoredRegex" \notin DOMAIN off
  BY DEF Off, Flags
<1> HIDE DEF n, off
<1>4. /\ {"triggers", "ignoredRegex"} \subseteq DOMAIN n
      /\ n["triggers"] = <<>> /\ n["ignoredRegex"] = <<"default">>
  BY <1>1, <1>3 DEF Settings
<1>5. IsList(<<>>) /\ IsList(<<"default">>)
  <2>1. <<"default">> \in Seq({"default"})
    OBVIOUS
  <2> QED
    BY <2>1, EmptyList, ListOf
<1>6. AreOwn(<<>>)
  <2>1. TriggerIds(<<>>) = {} /\ Range(<<>>) = {} /\ Len(<<>>) = 0
    BY DEF TriggerIds, Range
  <2> QED
    BY <2>1, FS_EmptySet DEF AreOwn
<1>7. \A kind \in DOMAIN DefaultConfig.sessions : DefaultConfig.sessions[kind] = <<>>
  BY <1>2
<1>8. \A kind : Tidy(<<>>, kind, {})
  BY DEF Tidy
<1> QED
  BY <1>2, <1>4, <1>5, <1>6, <1>7, <1>8 DEF Sound, Listed, PortIsFree, n

LEMMA LoadedHolds ==
    ASSUME NEW c, NEW g, IsSettings(c), Sound(c, g)
    PROVE  Holds(Loaded(c), g)
<1> DEFINE s == c.notifications.triggers
<1>1. IsList(s) /\ ("triggers" \notin g => AreOwn(s))
  BY DEF Sound, Listed
<1> HIDE DEF s
<1>2. IsList(MergeTriggers(s)) /\ ("triggers" \notin g => Fitted(MergeTriggers(s)))
  BY <1>1, MergeFits
<1>3. Loaded(c) = WithTriggers(c, MergeTriggers(s))
  BY DEF Loaded, s
<1> QED
  BY <1>2, <1>3, TriggersPart

LEMMA FoundIsSound ==
    ASSUME NEW c, HasLists(c)
    PROVE  Sound(c, AsFound(c))
<1> DEFINE g == AsFound(c)
<1>1. \A kind \in DOMAIN c.sessions \ g : AreClean(c.sessions[kind])
  BY DEF AsFound
<1>2. "triggers" \notin g => AreOwn(c.notifications.triggers)
  BY DEF AsFound
<1>3. "port" \notin g => PortIsFree(c.httpServer)
  BY DEF AsFound
<1> HIDE DEF g
<1>4. Sound(c, g)
  BY <1>1, <1>2, <1>3 DEF Sound, Listed, Tidy, AreClean, HasLists
<1> QED
  BY <1>4 DEF g

\* The settings keep what the calls promise, and so does the file, which may
\* lack a builtin trigger that the next start adds.
SoundInv ==
    /\ Holds(config, given)
    /\ file.state = "whole" => Sound(file.config, given)

LEMMA SoundInit ==
    ASSUME NativeInit
    PROVE  SoundInv
<1>1. PICK f \in {Absent} \cup {Whole(c, 0) : c \in OldFiles} :
          file = InitialFile(f) /\ config = InitialConfig(f)
  BY DEF NativeInit, Init
<1>2. given = AsFound(file.config)
  BY DEF NativeInit, Init
<1>3. CASE f = Absent
  <2>1. config = Loaded(DefaultConfig) /\ file.config = Loaded(DefaultConfig)
    BY <1>1, <1>3 DEF InitialFile, InitialConfig, Absent, Whole
  <2>2. Holds(Loaded(DefaultConfig), {})
    BY DefaultsAreSound, DefaultsAreSettings, LoadedHolds
  <2>3. Holds(Loaded(DefaultConfig), given)
    BY <2>2, MoreGiven DEF Holds
  <2> QED
    BY <2>1, <2>3 DEF SoundInv, Holds
<1>4. CASE f \in {Whole(c, 0) : c \in OldFiles}
  <2>1. PICK c \in OldFiles : f = Whole(c, 0)
    BY <1>4
  <2>2. config = Loaded(c) /\ file.config = c
    BY <1>1, <2>1 DEF InitialFile, InitialConfig, Whole
  <2>3. IsSettings(c) /\ HasLists(c)
    BY ConfigStoreAssumption
  <2>4. Sound(c, given)
    BY <1>2, <2>2, <2>3, FoundIsSound
  <2> QED
    BY <2>2, <2>3, <2>4, LoadedHolds DEF SoundInv
<1> QED
  BY <1>3, <1>4

LEMMA SoundNext ==
    ASSUME FormInv, SoundInv, [Next]_vars
    PROVE  SoundInv'
<1>1. SettingsStep
  BY SettingsSteps DEF FormInv
<1>2. ASSUME UNCHANGED <<config, given>>, file' \in {file, Torn, Whole(config, version)} PROVE SoundInv'
  BY <1>2 DEF SoundInv, Holds, Torn, Whole
<1>3. CASE \E w \in Callers : \E call : IsCall(call) /\ Begin(w, call)
  BY <1>2, <1>3 DEF Begin
<1>4. ASSUME NEW w \in Workers, Mutate(w) PROVE SoundInv'
  <2> DEFINE call == calls[w].call
             out == Outcome(config, call)
  <2>1. CASE out.changed
    <3>1. config' = out.config /\ given' = given \cup AsItCame(call) /\ file' = file
      BY <1>4, <2>1 DEF Mutate
    <3>2. IsSettings(config) /\ IsCall(call)
      BY DEF FormInv
    <3> HIDE DEF call
    <3>3. Holds(config, given') /\ (file.state = "whole" => Sound(file.config, given'))
      BY <3>1, MoreGiven DEF SoundInv, Holds
    <3>4. HoldsOut(out, given')
      BY <3>1, <3>2, <3>3, OutcomeHolds
    <3> QED
      BY <2>1, <3>1, <3>3, <3>4 DEF SoundInv, HoldsOut
  <2>2. CASE ~out.changed
    BY <1>2, <1>4, <2>2 DEF Mutate
  <2> QED
    BY <2>1, <2>2
<1>5. ASSUME NEW w \in Workers, CallStep(w), ~Mutate(w) PROVE SoundInv'
  <2>1. UNCHANGED <<config, given>> /\ file' \in {file, Torn, Whole(config, version)}
    BY <1>5 DEF CallStep, StartWrite, FinishWrite, FailWrite, SetRoot, ReadRoot, ReplaceContext, Content
  <2> QED
    BY <1>2, <2>1
<1>6. CASE Start
  <2>1. file.state = "whole"
    BY <1>6 DEF Start, FormInv
  <2>2. file' = file /\ config' = Loaded(file.config) /\ given' = given
    BY <1>6, <2>1 DEF Start, InitialFile, InitialConfig
  <2> QED
    BY <2>1, <2>2, LoadedHolds DEF SoundInv, FormInv
<1>7. CASE Crash
  BY <1>2, <1>7 DEF Crash
<1>8. CASE \E c \in Checkers : Enabled(c)
  BY <1>2, <1>8 DEF Enabled
<1>9. CASE UNCHANGED SettingsRest
  BY <1>2, <1>9 DEF SettingsRest
<1> QED
  BY <1>1, <1>3, <1>4, <1>5, <1>6, <1>7, <1>8, <1>9 DEF SettingsStep

-----------------------------------------------------------------------------
(* The cache of patterns. *)

FitsCache(cache) == IsFiniteSet(cache) /\ Cardinality(cache) <= MAX_REGEX_CACHE_SIZE

LEMMA PatternFits ==
    ASSUME NEW cache, FitsCache(cache), NEW p
    PROVE  FitsCache(WithPattern(cache, p))
<1>1. MAX_REGEX_CACHE_SIZE \in Nat \ {0} /\ IsFiniteSet(cache) /\ Cardinality(cache) \in Nat
  BY NativeNotificationAssumption, FS_CardinalityType DEF FitsCache
<1>2. CASE p \in cache
  BY <1>2 DEF WithPattern
<1>3. CASE p \notin cache /\ Cardinality(cache) >= MAX_REGEX_CACHE_SIZE
  <2>1. WithPattern(cache, p) = {p}
    BY <1>3 DEF WithPattern
  <2>2. IsFiniteSet({p}) /\ Cardinality({p}) = 1
    BY FS_Singleton
  <2> QED
    BY <1>1, <2>1, <2>2 DEF FitsCache
<1>4. CASE p \notin cache /\ ~(Cardinality(cache) >= MAX_REGEX_CACHE_SIZE)
  <2>1. WithPattern(cache, p) = cache \cup {p}
    BY <1>4 DEF WithPattern
  <2>2. IsFiniteSet(cache \cup {p}) /\ Cardinality(cache \cup {p}) = Cardinality(cache) + 1
    BY <1>1, <1>4, FS_AddElement
  <2> QED
    BY <1>1, <1>4, <2>1, <2>2 DEF FitsCache
<1> QED
  BY <1>2, <1>3, <1>4

\* The caches after the patterns of a list, up to the n-th.
Caches(f, cache, list, n) ==
    f = [i \in 0 .. n |-> IF i = 0 THEN cache ELSE WithPattern(f[i - 1], list[i])]

LEMMA CachesExist ==
    ASSUME NEW cache, NEW list, NEW n \in Nat
    PROVE  \E f : Caches(f, cache, list, n)
<1> DEFINE T == {i \in Nat : ~\E f : Caches(f, cache, list, i)}
<1> SUFFICES ASSUME T # {} PROVE FALSE
  OBVIOUS
<1>1. T \in SUBSET Nat
  OBVIOUS
<1>2. PICK k \in T : \A j \in T : k <= j
  BY <1>1, LeastNumber
<1> HIDE DEF T
<1>3. k \in Nat /\ ~\E f : Caches(f, cache, list, k)
  BY DEF T
<1>4. k # 0
  <2> DEFINE f == [i \in 0 .. 0 |-> cache]
  <2>1. Caches(f, cache, list, 0)
    BY DEF Caches
  <2> QED
    BY <1>3, <2>1
<1>5. k - 1 \in Nat /\ ~(k <= k - 1)
  BY <1>3, <1>4
<1>6. PICK f : Caches(f, cache, list, k - 1)
  BY <1>2, <1>5 DEF T
<1> DEFINE g == [i \in 0 .. k |-> IF i = k THEN WithPattern(f[k - 1], list[k]) ELSE f[i]]
<1>7. \A i \in 0 .. k : g[i] = IF i = 0 THEN cache ELSE WithPattern(g[i - 1], list[i])
  <2> TAKE i \in 0 .. k
  <2>1. \A j \in 0 .. (k - 1) : g[j] = f[j] /\ f[j] = IF j = 0 THEN cache ELSE WithPattern(f[j - 1], list[j])
    BY <1>3, <1>5, <1>6 DEF Caches
  <2>2. g[k] = WithPattern(f[k - 1], list[k])
    BY <1>3
  <2> HIDE DEF g
  <2>3. CASE i = 0
    BY <1>3, <1>4, <2>1, <2>3
  <2>4. CASE i # 0 /\ i # k
    <3>1. i \in 0 .. (k - 1) /\ i - 1 \in 0 .. (k - 1)
      BY <1>3, <2>4
    <3> QED
      BY <2>1, <2>4, <3>1
  <2>5. CASE i = k
    <3>1. k - 1 \in 0 .. (k - 1)
      BY <1>3, <1>4
    <3> QED
      BY <1>4, <2>1, <2>2, <2>5, <3>1
  <2> QED
    BY <2>3, <2>4, <2>5
<1>8. Caches(g, cache, list, k)
  <2>1. g = [i \in 0 .. k |-> g[i]]
    OBVIOUS
  <2> HIDE DEF g
  <2> QED
    BY <1>7, <2>1 DEF Caches
<1> QED
  BY <1>3, <1>8

LEMMA RememberedFits ==
    ASSUME NEW cache, FitsCache(cache), NEW list, Len(list) \in Nat
    PROVE  FitsCache(Remembered(cache, list))
<1> DEFINE n == Len(list)
           f == CHOOSE x : Caches(x, cache, list, n)
<1>1. Remembered(cache, list) = f[n]
  BY DEF Remembered, Caches
<1>2. Caches(f, cache, list, n)
  BY CachesExist
<1> HIDE DEF f, n
<1>3. n \in Nat
  BY DEF n
<1>4. /\ f[0] = cache
      /\ \A i \in 1 .. n : f[i] = WithPattern(f[i - 1], list[i])
  BY <1>2, <1>3 DEF Caches
<1> DEFINE T == {i \in 0 .. n : ~FitsCache(f[i])}
<1>5. T = {}
  <2> SUFFICES ASSUME T # {} PROVE FALSE
    OBVIOUS
  <2>1. T \in SUBSET Nat
    BY <1>3
  <2>2. PICK k \in T : \A j \in T : k <= j
    BY <2>1, LeastNumber
  <2>3. k \in 0 .. n /\ ~FitsCache(f[k])
    OBVIOUS
  <2>4. k # 0
    BY <1>4, <2>3
  <2>5. k \in 1 .. n /\ k - 1 \in 0 .. n /\ ~(k <= k - 1)
    BY <1>3, <2>3, <2>4
  <2>6. FitsCache(f[k - 1])
    BY <2>2, <2>5
  <2> QED
    BY <1>4, <2>3, <2>5, <2>6, PatternFits
<1> QED
  BY <1>1, <1>3, <1>5

LEMMA LookedLength ==
    ASSUME IsList(config.notifications.ignoredRegex), NEW e
    PROVE  Len(Looked(e)) \in Nat
<1> DEFINE list == config.notifications.ignoredRegex
           I == {i \in 1 .. Len(list) : IsMatch(list[i], e)}
           i == SelectInSeq(list, LAMBDA p : IsMatch(p, e))
<1>1. list \in Seq(Range(list)) /\ Len(list) \in Nat
  BY DEF IsList
<1>2. i = IF I # {} THEN Min(I) ELSE 0
  BY DEF SelectInSeq
<1>3. I # {} => Min(I) \in I
  <2>1. I \in SUBSET Nat
    BY <1>1
  <2> HIDE DEF I
  <2> QED
    BY <2>1, LeastIsMin
<1>4. Looked(e) = IF i = 0 THEN list ELSE SubSeq(list, 1, i)
  BY DEF Looked
<1>5. i # 0 => i \in 1 .. Len(list)
  BY <1>2, <1>3
<1> HIDE DEF list, i
<1>6. CASE i = 0
  BY <1>1, <1>4, <1>6
<1>7. CASE i # 0
  <2>1. Len(SubSeq(list, 1, i)) = i
    BY <1>1, <1>5, <1>7
  <2> QED
    BY <1>4, <1>5, <1>7, <2>1
<1> QED
  BY <1>6, <1>7

LEMMA CacheSteps ==
    ASSUME [Next]_vars
    PROVE  (\E c \in Checkers : Regex(c)) \/ regexCache' \in {regexCache, {}}
<1>1. ASSUME NEW c, Enabled(c) \/ Cleared(c) \/ Repository(c) \/ ReadClock(c) \/ Throttle(c)
      PROVE  regexCache' = regexCache
  BY <1>1 DEF Enabled, Cleared, Repository, ReadClock, Throttle
<1>2. ASSUME NEW c, NEW e, Arrive(c, e) PROVE regexCache' = regexCache
  BY <1>2 DEF Arrive
<1>3. ASSUME Forget \/ Click \/ Tick \/ UNCHANGED nativeVars \/ UNCHANGED vars PROVE regexCache' = regexCache
  BY <1>3 DEF Forget, Click, Tick, vars, nativeVars
<1>4. Ends => regexCache' = {}
  BY DEF Ends
<1> QED
  BY <1>1, <1>2, <1>3, <1>4 DEF Next

LEMMA CacheNext ==
    ASSUME SoundInv, FitsCache(regexCache), [Next]_vars
    PROVE  FitsCache(regexCache')
<1>1. CASE \E c \in Checkers : Regex(c)
  <2> PICK c \in Checkers : Regex(c)
    BY <1>1
  <2> DEFINE list == Looked(checks[c].error)
  <2>1. IsList(config.notifications.ignoredRegex)
    BY DEF SoundInv, Holds, Sound, Listed
  <2>2. Len(list) \in Nat
    BY <2>1, LookedLength
  <2>3. regexCache' = Remembered(regexCache, list)
    BY DEF Regex
  <2> HIDE DEF list
  <2> QED
    BY <2>2, <2>3, RememberedFits
<1>2. FitsCache({})
  BY FS_EmptySet, NativeNotificationAssumption DEF FitsCache
<1> QED
  BY <1>1, <1>2, CacheSteps

-----------------------------------------------------------------------------

\* Whatever calls, writes that fail and starts there were, the triggers are
\* such as the checks of a call accept, with every builtin one among them; the
\* lists of sessions name none twice and are not empty; and the cache of
\* patterns keeps its limit.
THEOREM SettingsKeepSound == Spec => []SettingsAreSound
<1> DEFINE All == FormInv /\ ClearInv /\ ShownInv /\ ThrottleInv /\ ClickInv /\ OncePerWindow
<1>1. NativeInit => SoundInv /\ FitsCache(regexCache)
  BY SoundInit, FS_EmptySet, NativeNotificationAssumption DEF FitsCache, NativeInit
<1>2. FormInv /\ SoundInv /\ FitsCache(regexCache) /\ [Next]_vars => SoundInv' /\ FitsCache(regexCache)'
  BY SoundNext, CacheNext
<1>3. NativeInit => ShownInv /\ ThrottleInv /\ ClickInv /\ OncePerWindow
  BY NativeStart
<1>4. FormInv /\ ClearInv /\ ShownInv /\ ThrottleInv /\ ClickInv /\ OncePerWindow /\ [Next]_vars
          => (ShownInv /\ ThrottleInv /\ ClickInv /\ OncePerWindow)'
  BY NativeNext
<1>5. SoundInv => TriggersAreSound
  <2> SUFFICES ASSUME SoundInv, "triggers" \notin given PROVE TriggersAreSound
    BY DEF TriggersAreSound
  <2> DEFINE s == config.notifications.triggers
  <2>1. IsList(s) /\ AreOwn(s) /\ TriggerIds(DefaultTriggers) \subseteq TriggerIds(s)
    BY DEF SoundInv, Holds, Sound, Complete, Listed
  <2> HIDE DEF s
  <2>2. ASSUME NEW d \in Range(DefaultTriggers) PROVE \E t \in Range(s) : t.id = d.id /\ t.isBuiltin
    <3>1. d.id \in TriggerIds(DefaultTriggers)
      BY DEF Range, TriggerIds
    <3>2. PICK i \in DOMAIN s : s[i].id = d.id
      BY <2>1, <3>1 DEF TriggerIds
    <3>3. s[i] \in Range(s)
      BY DEF Range
    <3> QED
      BY <2>1, <3>1, <3>2, <3>3 DEF AreOwn
  <2>3. Cardinality(TriggerIds(s)) = Len(s) /\ \A t \in Range(s) : ValidateTrigger(t)
    BY <2>1 DEF AreOwn
  <2> QED
    BY <2>2, <2>3 DEF TriggersAreSound, s
<1>6. SoundInv => ListsAreClean
  BY DEF SoundInv, Holds, Sound, Tidy, ListsAreClean
<1>7. FormInv /\ ClearInv /\ ShownInv /\ ClickInv /\ SoundInv /\ FitsCache(regexCache) => TypeOK
  <2> SUFFICES ASSUME FormInv, ClearInv, ShownInv, ClickInv, SoundInv, FitsCache(regexCache) PROVE TypeOK
    OBVIOUS
  <2>1. DOMAIN config = DOMAIN DefaultConfig /\ config.notifications.snoozedUntil \in Nat
        /\ file.state \in {"absent", "torn", "whole"}
    BY DEF FormInv, IsSettings
  <2>2. "port" \notin given => PortIsFree(config.httpServer)
    BY DEF SoundInv, Holds, Sound
  <2>3. \A c \in Checkers : calls[c].pc # "idle" => checks[c].pc = "clear"
    BY DEF ClearInv
  <2>4. lastShown \in 0..Len(shown)
    <3>1. Len(shown) \in Nat
      BY DEF ShownInv
    <3> QED
      BY <3>1 DEF ClickInv
  <2> QED
    BY <2>1, <2>2, <2>3, <2>4 DEF TypeOK, FitsCache
<1> QED
  BY <1>1, <1>2, <1>3, <1>4, <1>5, <1>6, <1>7, FormOK, PTL DEF Spec, SettingsAreSound
=============================================================================
