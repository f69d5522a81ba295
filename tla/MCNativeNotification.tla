------------------------ MODULE MCNativeNotification -----------------------
EXTENDS NativeNotification

Bool(b) == [kind |-> "bool", v |-> b]
Text(t) == [kind |-> "string", v |-> t]
Number(n) == [kind |-> "number", v |-> n]
Items(s) == [kind |-> "array", v |-> s]
Null == [kind |-> "null", v |-> None]

Update(section, data) == [op |-> "update", via |-> "command", section |-> section, data |-> data]
Session(op, via, s) == [op |-> op, via |-> via, project |-> "p", session |-> s]
Many(op, list) == [op |-> op, via |-> "http", project |-> "p", sessions |-> list]

Mine == [DefaultTriggers[1] EXCEPT !.id = "mine", !.isBuiltin = FALSE, !.matchField = "command"]
TriggerCalls ==
    <<[op |-> "add_trigger", via |-> "command", trigger |-> Mine],
      [op |-> "add_trigger", via |-> "command", trigger |-> [Mine EXCEPT !.contentType = "text", !.matchField = None]],
      [op |-> "update_trigger", via |-> "http", id |-> "bash",
       updates |-> [enabled |-> Bool(TRUE), isBuiltin |-> Bool(FALSE), matchPattern |-> Text("unsafe")]],
      [op |-> "update_trigger", via |-> "command", id |-> "mine",
       updates |-> [requireError |-> Bool(TRUE), name |-> Number(1)]],
      [op |-> "update_trigger", via |-> "command", id |-> "tokens", updates |-> [enabled |-> Bool(TRUE)]],
      [op |-> "remove_trigger", via |-> "command", id |-> "bash"],
      [op |-> "remove_trigger", via |-> "http", id |-> "mine"],
      [op |-> "remove_trigger", via |-> "http", id |-> "odd id"],
      Update("notifications", [triggers |-> Items(<<[kind |-> "object", v |-> Mine]>>)])>>
RootCalls ==
    <<Update("general", [claudeRootPath |-> Text("/a/./")]),
      Update("general", [claudeRootPath |-> Null, theme |-> Text("light")]),
      Update("general", [claudeRootPath |-> Text("")]),
      Update("general", [claudeRootPath |-> Text("relative")]),
      Update("general", [theme |-> Text("light")])>>
SectionCalls ==
    <<Update("display", [compactMode |-> Bool(TRUE)]),
      Update("display", [compactMode |-> Number(1)]),
      Update("general", [other |-> Bool(TRUE)]),
      Update("httpServer", [enabled |-> Bool(TRUE)]),
      Update("httpServer", [enabled |-> Bool(TRUE), port |-> Number(3456)]),
      Update("httpServer", [port |-> Number(80)]),
      Update("notifications", [snoozedUntil |-> [kind |-> "fraction", v |-> 1]]),
      Update("notifications", [snoozeMinutes |-> Number(0)]),
      Update("ssh", [lastConnection |-> Null, autoReconnect |-> Bool(TRUE)]),
      Update("ssh", [profiles |-> Items(<<[kind |-> "object", v |->
            [id |-> "host", port |-> Number(22), authMethod |-> "agent"]]>>)]),
      Update("sessions", [pinnedSessions |-> [kind |-> "object", v |-> [p |-> <<>>]]])>>
SessionCalls ==
    <<Session("pin", "command", "s1"), Session("unpin", "http", "s1"), Session("pin", "http", "odd id"),
      Session("hide", "command", "s1"), Session("unhide", "command", "s1"),
      Many("hide_many", <<"s1", "s2">>), Many("unhide_many", <<"s1">>), Many("unhide_many", <<>>)>>
TwiceCalls == <<Many("hide_many", <<"s1", "s1">>), Session("hide", "command", "s1"), Session("unhide", "command", "s1")>>
SnoozeCalls ==
    <<[op |-> "snooze", via |-> "command", minutes |-> 1], [op |-> "snooze", via |-> "http", minutes |-> -1],
      [op |-> "clear_snooze", via |-> "command"]>>
IgnoreCalls ==
    <<[op |-> "add_regex", via |-> "command", pattern |-> "safe"],
      [op |-> "add_regex", via |-> "command", pattern |-> "unsafe"],
      [op |-> "add_regex", via |-> "command", pattern |-> "broken"],
      [op |-> "remove_regex", via |-> "command", pattern |-> "safe"],
      [op |-> "add_repository", via |-> "command", repo |-> "r"],
      [op |-> "remove_repository", via |-> "command", repo |-> "r"],
      [op |-> "snooze", via |-> "command", minutes |-> 0],
      Update("notifications", [enabled |-> Bool(FALSE), snoozedUntil |-> Null])>>

Workload(list, n, e, t, f) == [calls |-> list, made |-> n, errors |-> e, clock |-> t, faults |-> f]
MCScenarios ==
    <<Workload(TriggerCalls, 2, 0, 0, 1), Workload(RootCalls, 3, 0, 0, 1), Workload(SectionCalls, 2, 0, 0, 1),
      Workload(SessionCalls, 3, 0, 0, 1), Workload(SnoozeCalls, 2, 1, 2, 0), Workload(IgnoreCalls, 1, 2, 1, 1),
      Workload(TwiceCalls, 3, 0, 0, 0), Workload(<<>>, 0, 3, 5, 0)>>

\* No caller and no checker differs from another.
AnyOrder == Permutations(Callers) \cup Permutations(Checkers)

\* An earlier version knew another builtin trigger and not all of today's.
MCOldFiles ==
    {WithTriggers(DefaultConfig, <<[DefaultTriggers[2] EXCEPT !.enabled = TRUE],
                                   [DefaultTriggers[1] EXCEPT !.id = "old"]>>)}
MCErrors == {"e", "f", "g"}
MCHashOf == [e \in MCErrors |-> e]
MCRepoOf == [e \in MCErrors |-> IF e = "e" THEN "r" ELSE None]
MCMatchedBy == [e \in MCErrors |-> CASE e = "e" -> {"safe", "unsafe"} [] e = "f" -> {} [] e = "g" -> {"default"}]
=============================================================================
