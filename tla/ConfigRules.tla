---------------------------- MODULE ConfigRules -----------------------------
(***************************************************************************)
(* The settings as data: what an update of a section may hold               *)
(* (infrastructure/config_validator.rs), how it is merged into the settings *)
(* (config/mod.rs), and what the calls for triggers, ignored messages and   *)
(* repositories, pinned and hidden sessions and the snooze change            *)
(* (infrastructure/config/..., infrastructure/trigger_manager/...).         *)
(*                                                                         *)
(* A JSON value is an entry [kind, v]: its kind and, where it matters, what *)
(* it holds. A list holds entries. A regular expression is known by what    *)
(* the two compilers of the code make of it: "safe" is taken by both,       *)
(* "unsafe" only by the one that does not look for costly patterns, and     *)
(* "broken" by none. An operation returns [ok, changed, config].            *)
(***************************************************************************)
EXTENDS Integers, Sequences, FiniteSets, SequencesExt

None == "none"
Blank == "blank"    \* a text of spaces

\* The settings a text, a flag or a number is expected for.
Flags(section) ==
    CASE section = "notifications" -> {"enabled", "soundEnabled", "includeSubagentErrors"}
      [] section = "general" -> {"launchAtLogin", "showDockIcon", "autoExpandAIGroups", "useNativeTitleBar"}
      [] section = "display" -> {"showTimestamps", "compactMode", "syntaxHighlighting"}
      [] section = "httpServer" -> {"enabled"}
      [] section = "ssh" -> {"autoReconnect"}
      [] OTHER -> {}
Sections == {"notifications", "general", "display", "sessions", "ssh", "httpServer"}

\* The settings of the first over those of the second.
Settings(flags, values) == [k \in DOMAIN flags \cup DOMAIN values |->
                               IF k \in DOMAIN flags THEN flags[k] ELSE values[k]]
Off(section, on) == [k \in Flags(section) |-> k \in on]

\* A trigger the program brings along, and the list of them.
BuiltinTrigger(id, content, mode, fields) ==
    [f \in {"id", "name", "enabled", "contentType", "mode", "isBuiltin", "requireError", "matchPattern",
            "matchField", "toolName", "tokenThreshold", "tokenType", "ignorePatterns"} |->
        CASE f = "id" -> id [] f = "name" -> id [] f = "enabled" -> FALSE [] f = "contentType" -> content
          [] f = "mode" -> mode [] f = "isBuiltin" -> TRUE
          [] OTHER -> Settings(fields, [requireError |-> FALSE, ignorePatterns |-> <<>>, matchPattern |-> None,
                                        matchField |-> None, toolName |-> None, tokenThreshold |-> None,
                                        tokenType |-> None])[f]]
DefaultTriggers ==
    <<BuiltinTrigger("bash", "tool_use", "content_match", [matchPattern |-> "safe"]),
      BuiltinTrigger("error", "tool_result", "error_status",
                     [requireError |-> TRUE, ignorePatterns |-> <<"safe">>]),
      BuiltinTrigger("tokens", "tool_result", "token_threshold",
                     [tokenThreshold |-> "some", tokenType |-> "total"])>>

DefaultConfig ==
    [notifications |-> Settings(Off("notifications", Flags("notifications")),
        [ignoredRegex |-> <<"default">>, ignoredRepositories |-> <<>>, snoozedUntil |-> 0,
         snoozeMinutes |-> 30, triggers |-> <<>>]),
     general |-> Settings(Off("general", {"showDockIcon"}),
        [theme |-> "dark", defaultTab |-> "dashboard", claudeRootPath |-> None]),
     display |-> Off("display", {"showTimestamps", "syntaxHighlighting"}),
     sessions |-> [pinnedSessions |-> <<>>, hiddenSessions |-> <<>>],
     ssh |-> Settings(Off("ssh", {}), [lastConnection |-> <<>>, profiles |-> <<>>, lastActiveContextId |-> ""]),
     httpServer |-> <<>>]

-----------------------------------------------------------------------------
(* Updates of a section: a function from keys to entries. *)

\* What each key of a section takes (validate_*_payload).
TextList(e) == e.kind = "array" /\ \A x \in Range(e.v): x.kind = "string"
ValidateTriggerPayload(e) ==
    /\ e.kind = "object"
    /\ e.v.id \notin {None, Blank} /\ e.v.name \notin {None, Blank}
    /\ e.v.contentType \in {"tool_result", "tool_use", "thinking", "text"}
    /\ e.v.mode \in {"error_status", "content_match", "token_threshold"}
ValidateNotifications(key, e) ==
    \/ key \in Flags("notifications") /\ e.kind = "bool"
    \/ key \in {"ignoredRegex", "ignoredRepositories"} /\ TextList(e)
    \/ key = "snoozedUntil" /\ (e.kind = "null" \/ (e.kind \in {"number", "fraction"} /\ e.v >= 0))
    \/ key = "snoozeMinutes" /\ e.kind = "number" /\ e.v \in 1..1440
    \/ key = "triggers" /\ e.kind = "array" /\ \A x \in Range(e.v): ValidateTriggerPayload(x)
ValidateGeneral(key, e) ==
    \/ key \in Flags("general") /\ e.kind = "bool"
    \/ key = "theme" /\ e.kind = "string" /\ e.v \in {"dark", "light", "system"}
    \/ key = "defaultTab" /\ e.kind = "string" /\ e.v \in {"dashboard", "last-session"}
    \/ key = "claudeRootPath" /\ (e.kind = "null" \/ (e.kind = "string" /\ e.v # "relative"))
ValidateDisplay(key, e) == key \in Flags("display") /\ e.kind = "bool"
Ports == 1024..65535
ValidateHttpServer(key, e) ==
    \/ key = "enabled" /\ e.kind = "bool"
    \/ key = "port" /\ e.kind = "number" /\ e.v \in Ports
ValidateSshProfile(e) ==
    /\ e.kind = "object"
    /\ e.v.id \notin {None, Blank} /\ e.v.port.kind \in {"number", "fraction"}
    /\ e.v.authMethod \in {"password", "privateKey", "agent", "auto"}
ValidateSsh(key, e) ==
    \/ key = "autoReconnect" /\ e.kind = "bool"
    \/ key = "lastActiveContextId" /\ e.kind = "string"
    \/ key = "lastConnection" /\ e.kind \in {"null", "object"}
    \/ key = "profiles" /\ e.kind = "array" /\ \A x \in Range(e.v): ValidateSshProfile(x)
Validate(section, key, e) ==
    CASE section = "notifications" -> ValidateNotifications(key, e)
      [] section = "general" -> ValidateGeneral(key, e)
      [] section = "display" -> ValidateDisplay(key, e)
      [] section = "httpServer" -> ValidateHttpServer(key, e)
      [] section = "ssh" -> ValidateSsh(key, e)
      [] OTHER -> TRUE
ValidateUpdatePayload(section, data) == \A key \in DOMAIN data: Validate(section, key, data[key])

\* What a merged section must be to be read back into its type: a snooze in
\* fractions passes the check above, but is no time; a server has both its
\* keys; a connection has all of its own.
Deserializes(section, data, merged) ==
    /\ ("snoozedUntil" \in DOMAIN data => data["snoozedUntil"].kind # "fraction")
    /\ (section = "ssh" =>
          /\ \A x \in Range(merged.profiles): x.v.port.kind = "number"
          /\ DOMAIN merged.lastConnection \in {{}, {"host", "username", "port", "authMethod"}})
    /\ (section = "httpServer" => {"enabled", "port"} \subseteq DOMAIN merged)
    /\ (section = "sessions" => \A key \in DOMAIN data: data[key].kind = "object")

\* A root is written without "." and ".." and without a slash at its end.
NormalizeClaudeRootPath(path) == IF path = "/a/./" THEN "/a" ELSE path
WithNormalRoot(section, data) ==
    IF section = "general" /\ "claudeRootPath" \in DOMAIN data /\ data["claudeRootPath"].kind = "string"
          /\ data["claudeRootPath"].v \notin {Blank, ""}
    THEN [data EXCEPT !["claudeRootPath"].v = NormalizeClaudeRootPath(@)]
    ELSE data

\* Objects are merged key by key, everything else is replaced (json_merge);
\* no value stands for null.
Merged(old, e, none) == CASE e.kind = "object" -> Settings(e.v, old) [] e.kind = "null" -> none [] OTHER -> e.v
JsonMerge(old, data) ==
    [k \in DOMAIN old \cup DOMAIN data |->
        IF k \notin DOMAIN data THEN old[k]
        ELSE LET none == CASE k = "snoozedUntil" -> 0 [] k = "lastConnection" -> <<>> [] OTHER -> None
             IN  IF data[k].kind = "array" /\ k \in {"ignoredRegex", "ignoredRepositories", "triggers"}
                 THEN [i \in DOMAIN data[k].v |-> data[k].v[i].v] \o <<>>
                 ELSE Merged(IF k \in DOMAIN old THEN old[k] ELSE none, data[k], none)]

Refused(config) == [ok |-> FALSE, changed |-> FALSE, config |-> config]
Same(config) == [ok |-> TRUE, changed |-> FALSE, config |-> config]
Changed(config) == [ok |-> TRUE, changed |-> TRUE, config |-> config]

UpdateConfig(config, section, data) ==
    LET merged == JsonMerge(config[section], WithNormalRoot(section, data))
    IN  IF /\ section \in Sections
           /\ ValidateUpdatePayload(section, data)
           /\ Deserializes(section, data, merged)
        THEN Changed([config EXCEPT ![section] = merged])
        ELSE Refused(config)

-----------------------------------------------------------------------------
(* Triggers. *)

\* What retain leaves of a list: the elements at these places.
Chosen(s, places) == FlattenSeq([i \in DOMAIN s |-> IF i \in places THEN <<s[i]>> ELSE <<>>])
NotNamed(triggers, id) == Chosen(triggers, {j \in DOMAIN triggers : triggers[j].id # id})

\* The mode of a trigger is told from its fields when an update names none.
InferMode(t) ==
    CASE t.requireError -> "error_status"
      [] ~t.requireError /\ (t.matchPattern # None \/ t.matchField # None) -> "content_match"
      [] ~t.requireError /\ t.matchPattern = None /\ t.matchField = None /\ t.tokenThreshold # None
            -> "token_threshold"
      [] OTHER -> "error_status"

\* Every field of the right kind is taken over, but for the builtin mark.
ExpectedKind(field) ==
    CASE field \in {"enabled", "requireError"} -> "bool" [] field = "ignorePatterns" -> "array" [] OTHER -> "string"
ApplyUpdates(t, updates) ==
    [f \in DOMAIN t |->
        IF f \in DOMAIN updates \ {"id", "isBuiltin"} /\ updates[f].kind = ExpectedKind(f)
        THEN updates[f].v ELSE t[f]]
ShouldInferMode(updates) == ~("mode" \in DOMAIN updates /\ updates["mode"].kind = "string")
Updated(t, updates) ==
    LET applied == ApplyUpdates(t, updates)
    IN  IF ShouldInferMode(updates) THEN [applied EXCEPT !.mode = InferMode(applied)] ELSE applied

ValidateTrigger(t) ==
    /\ t.id \notin {None, Blank} /\ t.name \notin {None, Blank}
    /\ (t.mode = "content_match" =>
          /\ t.matchField # None \/ (t.contentType = "tool_use" /\ t.toolName = None)
          /\ t.matchPattern \in {None, "safe"})
    /\ (t.mode = "token_threshold" => t.tokenThreshold # None /\ t.tokenType # None)
    /\ Range(t.ignorePatterns) \subseteq {"safe"}

TriggerIds(triggers) == {triggers[i].id : i \in DOMAIN triggers}
WithTriggers(config, triggers) == [config EXCEPT !.notifications.triggers = triggers]

AddTrigger(config, t) ==
    LET triggers == config.notifications.triggers
    IN  IF ValidateTrigger(t) /\ t.id \notin TriggerIds(triggers)
        THEN Changed(WithTriggers(config, Append(triggers, t)))
        ELSE Refused(config)

UpdateTrigger(config, id, updates) ==
    LET triggers == config.notifications.triggers
        i == SelectInSeq(triggers, LAMBDA t: t.id = id)
    IN  IF i # 0 /\ ValidateTrigger(Updated(triggers[i], updates))
        THEN Changed(WithTriggers(config, [triggers EXCEPT ![i] = Updated(@, updates)]))
        ELSE Refused(config)

\* Mutant: builtin triggers are removed like any other.
RemoveTriggerAny(config, id) ==
    LET triggers == config.notifications.triggers
    IN  IF id \in TriggerIds(triggers)
        THEN Changed(WithTriggers(config, NotNamed(triggers, id)))
        ELSE Refused(config)
\* The first trigger of that name decides, and all of the name go.
RemoveTrigger(config, id) ==
    LET triggers == config.notifications.triggers
        i == SelectInSeq(triggers, LAMBDA t: t.id = id)
    IN  IF i # 0 /\ ~triggers[i].isBuiltin
        THEN Changed(WithTriggers(config, NotNamed(triggers, id)))
        ELSE Refused(config)

\* At the start: builtin triggers the program no longer knows are dropped,
\* the ones that are missing are added.
MergeTriggers(loaded) ==
    LET Known(t) == ~t.isBuiltin \/ t.id \in TriggerIds(DefaultTriggers)
        known == Chosen(loaded, {i \in DOMAIN loaded : Known(loaded[i])})
    IN  known \o Chosen(DefaultTriggers, {i \in DOMAIN DefaultTriggers : DefaultTriggers[i].id \notin TriggerIds(known)})
Loaded(config) == WithTriggers(config, MergeTriggers(config.notifications.triggers))

-----------------------------------------------------------------------------
(* Ignored messages and repositories, the snooze. *)

AddIgnoreRegex(config, pattern) ==
    LET list == config.notifications.ignoredRegex
    IN  IF pattern \in {Blank, "broken"} THEN Refused(config)
        ELSE IF pattern \in Range(list) THEN Same(config)
        ELSE Changed([config EXCEPT !.notifications.ignoredRegex = Append(list, pattern)])
AddIgnoreRepository(config, repo) ==
    LET list == config.notifications.ignoredRepositories
    IN  IF repo = Blank \/ repo \in Range(list) THEN Same(config)
        ELSE Changed([config EXCEPT !.notifications.ignoredRepositories = Append(list, repo)])
Without(config, key, x) ==
    LET list == config.notifications[key]
    IN  IF x \in Range(list)
        THEN Changed([config EXCEPT !.notifications[key] = Chosen(list, {i \in DOMAIN list : list[i] # x})])
        ELSE Same(config)
RemoveIgnoreRegex(config, pattern) == Without(config, "ignoredRegex", pattern)
RemoveIgnoreRepository(config, repo) == Without(config, "ignoredRepositories", repo)

SetSnooze(config, until) == Changed([config EXCEPT !.notifications.snoozedUntil = until])
\* -1 asks for the next midnight.
Snooze(config, minutes, now, midnight) ==
    CASE minutes = -1 -> SetSnooze(config, midnight)
      [] minutes \in 1..1440 -> SetSnooze(config, now + minutes)
      [] OTHER -> Refused(config)
ClearSnooze(config) == SetSnooze(config, 0)

-----------------------------------------------------------------------------
(* Pinned and hidden sessions: a function from projects to lists. *)

Of(lists, p) == IF p \in DOMAIN lists THEN lists[p] ELSE <<>>
\* A project whose list is empty is removed.
Cleaned(lists, p) ==
    IF p \in DOMAIN lists /\ lists[p] = <<>> THEN [q \in DOMAIN lists \ {p} |-> lists[q]] ELSE lists
Put(lists, p, ids) == [q \in DOMAIN lists \cup {p} |-> IF q = p THEN ids ELSE lists[q]]
InFront(config, kind, p, ids) ==
    LET lists == config.sessions[kind]
        new == Chosen(ids, {i \in DOMAIN ids : ids[i] \notin Range(Of(lists, p))})
    IN  IF new = <<>> THEN Same(config)
        ELSE Changed([config EXCEPT !.sessions[kind] = Put(lists, p, new \o Of(lists, p))])
Taken(config, kind, p, ids) ==
    LET lists == config.sessions[kind]
        old == Of(lists, p)
        rest == Chosen(old, {i \in DOMAIN old : old[i] \notin ids})
    IN  Changed([config EXCEPT !.sessions[kind] = IF p \in DOMAIN lists THEN Cleaned(Put(lists, p, rest), p) ELSE lists])

PinSession(config, p, s) == InFront(config, "pinnedSessions", p, <<s>>)
UnpinSession(config, p, s) == Taken(config, "pinnedSessions", p, {s})
HideSession(config, p, s) == InFront(config, "hiddenSessions", p, <<s>>)
UnhideSession(config, p, s) == Taken(config, "hiddenSessions", p, {s})
HideSessions(config, p, ids) == InFront(config, "hiddenSessions", p, ids)
UnhideSessions(config, p, ids) ==
    IF ids = <<>> THEN Same(config) ELSE Taken(config, "hiddenSessions", p, Range(ids))
=============================================================================
