---------------------------- MODULE ConfigStore -----------------------------
(***************************************************************************)
(* The settings of the program (infrastructure/config/mod.rs): one value    *)
(* behind a lock, a file that is written while the lock is held for         *)
(* reading, and the root of the sessions, which is kept a second time in a  *)
(* global (utils/path_decoder.rs) and a third time in the local context     *)
(* (infrastructure/context_rebuild.rs). The window and HTTP clients call it *)
(* at the same time (commands/config.rs, http/routes/config.rs,             *)
(* services/config_service_impl.rs). A write may fail, or the program end,  *)
(* before the file is truncated or before it is written.                    *)
(***************************************************************************)
EXTENDS ConfigRules, FiniteSetsExt

CONSTANTS
    Callers,      \* calls that can be under way at once
    Checkers,     \* checks of new errors that can be under way at once
    Scenarios,    \* what comes in in one behaviour: [calls, made, errors, clock, faults],
                  \* the calls it may be made of, and the bounds of the run
    OldFiles,     \* the settings an earlier version left in the file
    Midnight      \* the time the next day begins

\* The parts of the settings that are always there: a setting that a file of an
\* earlier version lacks has its default, and a time is a whole number.
IsSettings(c) ==
    /\ DOMAIN c = DOMAIN DefaultConfig
    /\ "claudeRootPath" \in DOMAIN c.general
    /\ "snoozedUntil" \in DOMAIN c.notifications /\ c.notifications.snoozedUntil \in Nat
\* Their lists are lists.
IsList(s) == s \in Seq(Range(s))
HasLists(c) ==
    /\ {"triggers", "ignoredRegex"} \subseteq DOMAIN c.notifications
    /\ IsList(c.notifications.triggers) /\ IsList(c.notifications.ignoredRegex)
    /\ \A kind \in DOMAIN c.sessions: \A p \in DOMAIN c.sessions[kind]: IsList(c.sessions[kind][p])
\* A number that is sent is a whole one, or is marked as a fraction; an array is
\* a list, a trigger has its fields.
IsCall(call) ==
    /\ call.op = "update" =>
          \A key \in DOMAIN call.data:
              /\ call.data[key].kind = "number" => call.data[key].v \in Int
              /\ call.data[key].kind = "array" => IsList(call.data[key].v)
    /\ call.op = "hide_many" => IsList(call.sessions)
    /\ call.op = "add_trigger" => {"id", "isBuiltin"} \subseteq DOMAIN call.trigger

ASSUME ConfigStoreAssumption ==
    /\ Callers \cap Checkers = {}
    /\ Midnight \in Nat
    /\ \A c \in OldFiles: IsSettings(c) /\ HasLists(c)
    /\ \A s \in DOMAIN Scenarios: \A i \in DOMAIN Scenarios[s].calls: IsCall(Scenarios[s].calls[i])

VARIABLES
    running,      \* whether the program runs
    config,       \* ConfigManager.config
    file,         \* [state, config, version] of the file
    override,     \* CLAUDE_ROOT_OVERRIDE, None when it is not set
    contextRoot,  \* the root the local context was built for
    calls,        \* each caller's and checker's call: [pc, call, config, version, root]
    clock,        \* the time
    scenario,     \* the calls of this behaviour
    \* kept for the properties: the number of the last change and of the last
    \* acknowledged one; whether two updates of the general section overlapped
    \* or a write failed since the start, and what was ever taken as it was given,
    \* by an old file or an update of the whole.
    version, acked, overlap, unsaved, given,
    made, faults  \* calls and faults so far

storeVars == <<running, config, file, override, contextRoot, calls, clock, scenario,
               version, acked, overlap, unsaved, given, made, faults>>

Workers == Callers \cup Checkers
Idle == [pc |-> "idle", call |-> [op |-> None], config |-> <<>>, version |-> 0, root |-> None]
UpdatesRoot(call) == call.op = "update" /\ call.section = "general"
NamesRoot(call) == UpdatesRoot(call) /\ "claudeRootPath" \in DOMAIN call.data

-----------------------------------------------------------------------------
(* The front doors. *)

\* An HTTP client's ids are looked at before anything else is done; of a list
\* of sessions only the project is. The window's ids are taken as they are.
GoodIds == {"p", "s", "s1", "s2", "bash", "mine"}
AdmitsTrigger(call) == call.op \in {"update_trigger", "remove_trigger"} => call.id \in GoodIds
AdmitsSession(call) ==
    /\ call.op \in {"pin", "unpin", "hide", "unhide"} => {call.project, call.session} \subseteq GoodIds
    /\ call.op \in {"hide_many", "unhide_many"} => call.project \in GoodIds
Admits(call) == call.via = "http" => AdmitsTrigger(call) /\ AdmitsSession(call)

\* What the call does to the settings.
TriggerOutcome(c, call) ==
    CASE call.op = "add_trigger" -> AddTrigger(c, call.trigger)
      [] call.op = "update_trigger" -> UpdateTrigger(c, call.id, call.updates)
      [] OTHER -> RemoveTrigger(c, call.id)
IgnoreOutcome(c, call) ==
    CASE call.op = "add_regex" -> AddIgnoreRegex(c, call.pattern)
      [] call.op = "remove_regex" -> RemoveIgnoreRegex(c, call.pattern)
      [] call.op = "add_repository" -> AddIgnoreRepository(c, call.repo)
      [] OTHER -> RemoveIgnoreRepository(c, call.repo)
SessionOutcome(c, call) ==
    CASE call.op = "pin" -> PinSession(c, call.project, call.session)
      [] call.op = "unpin" -> UnpinSession(c, call.project, call.session)
      [] call.op = "hide" -> HideSession(c, call.project, call.session)
      [] OTHER -> UnhideSession(c, call.project, call.session)
ManyOutcome(c, call) ==
    IF call.op = "hide_many" THEN HideSessions(c, call.project, call.sessions)
    ELSE UnhideSessions(c, call.project, call.sessions)
SnoozeOutcome(c, call) ==
    IF call.op = "snooze" THEN Snooze(c, call.minutes, clock, Midnight) ELSE ClearSnooze(c)
Outcome(c, call) ==
    CASE call.op = "update" -> UpdateConfig(c, call.section, call.data)
      [] call.op \in {"add_trigger", "update_trigger", "remove_trigger"} -> TriggerOutcome(c, call)
      [] call.op \in {"add_regex", "remove_regex", "add_repository", "remove_repository"} -> IgnoreOutcome(c, call)
      [] call.op \in {"pin", "unpin", "hide", "unhide"} -> SessionOutcome(c, call)
      [] call.op \in {"hide_many", "unhide_many"} -> ManyOutcome(c, call)
      [] OTHER -> SnoozeOutcome(c, call)

\* What get_claude_root_info tells of the root, and the one that is scanned.
ClaudeRootInfo(c) == IF c.general.claudeRootPath = None THEN "default" ELSE c.general.claudeRootPath
ResolvedRoot(o) == IF o = None THEN "default" ELSE o

-----------------------------------------------------------------------------
(* What the rules of the single calls do not reach. *)

\* Triggers as calls may leave them, in this version or one before it.
AreOwn(triggers) ==
    /\ Cardinality(TriggerIds(triggers)) = Len(triggers)
    /\ \A t \in Range(triggers):
          /\ {"id", "isBuiltin"} \subseteq DOMAIN t /\ ValidateTrigger(t)
          /\ t.id \in TriggerIds(DefaultTriggers) => t.isBuiltin
\* A list that names nothing twice.
IsSet(ids) == Cardinality(Range(ids)) = Len(ids)
AreClean(lists) == \A p \in DOMAIN lists: lists[p] # <<>> /\ IsSet(lists[p])
PortIsFree(server) == server # <<>> => "port" \in DOMAIN server /\ server["port"] \in Ports

\* The parts of an old file that are otherwise, and those that a call brings
\* with it: nothing looks at a list of triggers or sessions that is sent as a
\* whole, nor for a session that is named twice.
AsFound(c) ==
    {kind \in DOMAIN c.sessions : ~AreClean(c.sessions[kind])}
        \cup (IF AreOwn(c.notifications.triggers) THEN {} ELSE {"triggers"})
        \cup (IF PortIsFree(c.httpServer) THEN {} ELSE {"port"})
NamesTwice(call) == call.op = "hide_many" /\ ~IsSet(call.sessions)
AsItCame(call) ==
    IF call.op = "update" THEN {key \in DOMAIN call.data : key = "triggers" \/ call.section = "sessions"}
    ELSE IF NamesTwice(call) THEN {"twice"} ELSE {}

-----------------------------------------------------------------------------
Absent == [state |-> "absent", config |-> <<>>, version |-> 0]
Whole(c, v) == [state |-> "whole", config |-> c, version |-> v]
Torn == [state |-> "torn", config |-> <<>>, version |-> 0]

\* initialize: a missing file gives the defaults, which are written.
InitialFile(f) == IF f.state = "absent" THEN Whole(Loaded(DefaultConfig), 0) ELSE f
InitialConfig(f) == IF f.state = "absent" THEN Loaded(DefaultConfig) ELSE Loaded(f.config)
RootOf(c) == IF c.general.claudeRootPath = "" THEN None ELSE c.general.claudeRootPath

Init ==
    /\ running = TRUE
    /\ \E f \in {Absent} \cup {Whole(c, 0) : c \in OldFiles} :
         /\ file = InitialFile(f)
         /\ config = InitialConfig(f)
    /\ override = RootOf(config) /\ contextRoot = ResolvedRoot(override)
    /\ calls = [w \in Workers |-> Idle]
    /\ clock = 0
    /\ scenario \in DOMAIN Scenarios
    /\ version = 0 /\ acked = 0
    /\ overlap = FALSE /\ unsaved = FALSE /\ given = AsFound(file.config)
    /\ made = 0 /\ faults = 0

At(w, pc) == running /\ calls[w].pc = pc
Moves(w, pc) == calls' = [calls EXCEPT ![w].pc = pc]

\* A call comes in, or is refused at the door.
Begin(w, call) ==
    /\ At(w, "idle") /\ made < Scenarios[scenario].made /\ made' = made + 1
    /\ calls' = IF Admits(call) THEN [calls EXCEPT ![w] = [Idle EXCEPT !.pc = "mutate", !.call = call]] ELSE calls
    /\ UNCHANGED <<running, config, file, override, contextRoot, clock, scenario, version, acked,
                   overlap, unsaved, given, faults>>

\* The lock is taken for writing, which waits for the files that are being
\* written; the settings are changed in one go.
Mutate(w) ==
    /\ At(w, "mutate")
    /\ \A o \in Workers: calls[o].pc # "writing"
    /\ LET out == Outcome(config, calls[w].call)
           others == {o \in Workers \ {w} : UpdatesRoot(calls[o].call) /\ calls[o].pc \notin {"idle", "mutate"}}
       IN  IF out.changed
           THEN /\ config' = out.config
                /\ version' = version + 1
                /\ calls' = [calls EXCEPT ![w] = [@ EXCEPT !.pc = "persist", !.config = out.config,
                                !.version = version + 1, !.root = RootOf(out.config)]]
                /\ overlap' = (overlap \/ (UpdatesRoot(calls[w].call) /\ others # {}))
                /\ given' = given \cup AsItCame(calls[w].call)
           ELSE /\ calls' = [calls EXCEPT ![w] = Idle]
                /\ UNCHANGED <<config, version, overlap, given>>
    /\ UNCHANGED <<running, file, override, contextRoot, clock, scenario, acked, unsaved, made, faults>>

\* persist_inner: the lock is taken for reading and held until the file,
\* which is truncated first, is written with what is in memory now.
StartWrite(w) ==
    /\ At(w, "persist")
    /\ Moves(w, "writing")
    /\ file' = Torn
    /\ UNCHANGED <<running, config, override, contextRoot, clock, scenario, version, acked,
                   overlap, unsaved, given, made, faults>>

\* Mutant: the file gets the settings as this call left them.
ContentOfCall(w) == Whole(calls[w].config, calls[w].version)
Content(w) == Whole(config, version)

FinishWrite(w) ==
    /\ At(w, "writing")
    /\ file' = Content(w)
    /\ IF UpdatesRoot(calls[w].call)
       THEN Moves(w, "root") /\ UNCHANGED acked
       ELSE calls' = [calls EXCEPT ![w] = Idle] /\ acked' = Max({acked, calls[w].version})
    /\ UNCHANGED <<running, config, override, contextRoot, clock, scenario, version,
                   overlap, unsaved, given, made, faults>>

\* The write fails, before the file is opened or after it was truncated: the
\* caller is told, the settings in memory stay changed.
FailWrite(w) ==
    /\ At(w, "persist") \/ At(w, "writing")
    /\ faults < Scenarios[scenario].faults /\ faults' = faults + 1
    /\ calls' = [calls EXCEPT ![w] = Idle]
    /\ unsaved' = TRUE
    /\ UNCHANGED <<running, config, file, override, contextRoot, clock, scenario, version, acked,
                   overlap, given, made>>

\* Mutant: the global gets the root as it was sent.
OverrideRootSent(w) ==
    IF NamesRoot(calls[w].call) THEN calls[w].call.data["claudeRootPath"].v ELSE calls[w].root
\* set_claude_root_override, with the root of this call's own result.
OverrideRoot(w) == calls[w].root
SetRoot(w) ==
    /\ At(w, "root")
    /\ override' = OverrideRoot(w)
    /\ IF NamesRoot(calls[w].call)
       THEN Moves(w, "rebuild") /\ UNCHANGED acked
       ELSE calls' = [calls EXCEPT ![w] = Idle] /\ acked' = Max({acked, calls[w].version})
    /\ UNCHANGED <<running, config, file, contextRoot, clock, scenario, version,
                   overlap, unsaved, given, made, faults>>

\* rebuild_local_context: the paths are read, then the context is replaced.
ReadRoot(w) ==
    /\ At(w, "rebuild")
    /\ calls' = [calls EXCEPT ![w].pc = "replace", ![w].root = ResolvedRoot(override)]
    /\ UNCHANGED <<running, config, file, override, contextRoot, clock, scenario, version, acked,
                   overlap, unsaved, given, made, faults>>
ReplaceContext(w) ==
    /\ At(w, "replace")
    /\ contextRoot' = calls[w].root
    /\ calls' = [calls EXCEPT ![w] = Idle] /\ acked' = Max({acked, calls[w].version})
    /\ UNCHANGED <<running, config, file, override, clock, scenario, version,
                   overlap, unsaved, given, made, faults>>

\* The program ends; the file is what it is.
Crash ==
    /\ running /\ faults < Scenarios[scenario].faults /\ faults' = faults + 1
    /\ running' = FALSE
    /\ calls' = [w \in Workers |-> Idle]
    /\ UNCHANGED <<config, file, override, contextRoot, clock, scenario, version, acked,
                   overlap, unsaved, given, made>>

\* The program starts; with a torn file it gives up.
Start ==
    /\ ~running /\ file.state # "torn"
    /\ running' = TRUE
    /\ file' = InitialFile(file)
    /\ config' = InitialConfig(file)
    /\ override' = RootOf(config') /\ contextRoot' = ResolvedRoot(override')
    /\ version' = file.version
    /\ overlap' = FALSE /\ unsaved' = FALSE
    /\ UNCHANGED <<calls, clock, scenario, acked, given, made, faults>>

CallStep(w) ==
    \/ Mutate(w) \/ StartWrite(w) \/ FinishWrite(w) \/ FailWrite(w)
    \/ SetRoot(w) \/ ReadRoot(w) \/ ReplaceContext(w)

-----------------------------------------------------------------------------
(* Properties. *)

Quiet == running /\ \A w \in Workers: calls[w].pc \in {"idle", "mutate"}

\* What a caller was told is saved is in the file as long as the file can be
\* read at all: no write of an older state comes after it.
AckedIsOnDisk == file.state = "whole" => file.version >= acked

\* With no call under way, a file that can be read gives the settings in
\* memory, as they are or after the next start; only a failed write leaves
\* them apart.
DiskIsSettings ==
    Quiet /\ ~unsaved => /\ file.state = "whole"
                          /\ config \in {file.config, Loaded(file.config)}

\* With no call under way, the root that is shown, the one in the global and
\* the one the context works on are one, unless two updates of the general
\* section overlapped or a write failed.
RootInUse ==
    Quiet /\ ~overlap /\ ~unsaved =>
        /\ override = RootOf(config)
        /\ contextRoot = ResolvedRoot(override)
        /\ config.general.claudeRootPath # "" => ClaudeRootInfo(config) = contextRoot

\* Unless the list of triggers was given as a whole, every builtin trigger
\* is there and is marked, no two triggers have one name, and every trigger
\* would be taken by the check that a new one must pass.
TriggersAreSound ==
    running /\ "triggers" \notin given =>
        LET triggers == config.notifications.triggers
        IN  /\ Cardinality(TriggerIds(triggers)) = Len(triggers)
            /\ \A d \in Range(DefaultTriggers): \E t \in Range(triggers): t.id = d.id /\ t.isBuiltin
            /\ \A t \in Range(triggers): ValidateTrigger(t)

\* Unless the lists of sessions were given as a whole, no session is pinned
\* twice, none is hidden twice unless a list that names it twice came in, which
\* is taken as it is, and no project has an empty list.
ListsAreClean ==
    \A kind \in DOMAIN config.sessions \ given: \A p \in DOMAIN config.sessions[kind]:
        LET ids == config.sessions[kind][p]
        IN  ids # <<>> /\ (IsSet(ids) \/ (kind = "hiddenSessions" /\ "twice" \in given))

\* What was changed is saved: what a caller was told of is never lost, and at
\* rest the file gives the settings in memory.
SettingsAreSaved == AckedIsOnDisk /\ DiskIsSettings
=============================================================================
