------------------------------ MODULE SshConfig ------------------------------
(***************************************************************************)
(* Where a connection goes: the entries of the SSH configuration            *)
(* (ssh_config_parser.rs), what they fill in (ssh_config_merge.rs), and what *)
(* ssh -G says of the host (host_resolver.rs, connect_flow.rs).             *)
(*                                                                         *)
(* A configuration is a sequence of lines. A line has a key, its values in   *)
(* their order (the patterns of Host, the paths of IdentityFile), and as     *)
(* number the port it names, 0 when it names none that parses.              *)
(* The settings of a connection are a record: host, port, user, method, and  *)
(* the path key of the private key. A host that ssh -G resolved has host,    *)
(* port, user, files, agent, and whether it is only a fallback.             *)
(***************************************************************************)
EXTENDS Naturals, Sequences, FiniteSets, SequencesExt, FiniteSetsExt

CONSTANTS
    Wildcards,    \* the patterns that hold * or ? or start with !
    Covers,       \* the pairs of a pattern and a host it covers
    ConfigFiles,  \* the lines of every other file
    SameFile,     \* the file a path leads to
    GlobFiles,    \* the files of a pattern of Include, in the directory's order
    IncludeDepth, \* how deep Include goes
    DefaultKeys   \* the names ssh -G gives for a host it knows nothing about

ConfigLine == [key : STRING, values : Seq(STRING), number : Nat]

ASSUME SshConfigAssumption ==
    /\ IncludeDepth \in Nat \ {0}
    /\ DOMAIN SameFile = DOMAIN ConfigFiles
    /\ \A f \in DOMAIN ConfigFiles: ConfigFiles[f] \in Seq(ConfigLine)
    /\ \A g \in DOMAIN GlobFiles: GlobFiles[g] \in Seq(STRING)

None == "none"
DefaultPort == 22

-----------------------------------------------------------------------------
(* The entries of the configuration. *)

Canonical == {SameFile[f] : f \in DOMAIN ConfigFiles}

\* Mutant: what an included file includes in turn is forgotten.
TakeFileForgets(text, f, deeper) ==
    IF f \notin DOMAIN ConfigFiles \/ SameFile[f] \in text.visited THEN text
    ELSE LET seen == text.visited \cup {SameFile[f]}
         IN  [lines |-> text.lines \o deeper[f][seen].lines, visited |-> seen]

\* A text has its lines, and the files that were read for it. The lines of a
\* file that exists and was not read before follow those of the text; deeper
\* tells what becomes of a file one level down.
TakeFile(text, f, deeper) ==
    IF f \notin DOMAIN ConfigFiles \/ SameFile[f] \in text.visited THEN text
    ELSE LET more == deeper[f][text.visited \cup {SameFile[f]}]
         IN  [lines |-> text.lines \o more.lines, visited |-> more.visited]

TakeFiles(text, files, deeper) ==
    LET Taken[n \in 0 .. Len(files)] == IF n = 0 THEN text ELSE TakeFile(Taken[n - 1], files[n], deeper)
    IN  Taken[Len(files)]

\* The files an Include names stand where it was. One that does not exist
\* leaves the line.
ExpandLine(text, line, deeper) ==
    LET name == line.values[1]
    IN  CASE line.key = "Include" /\ name \in DOMAIN GlobFiles -> TakeFiles(text, GlobFiles[name], deeper)
          [] line.key = "Include" /\ name \in DOMAIN ConfigFiles \ DOMAIN GlobFiles -> TakeFile(text, name, deeper)
          [] OTHER -> [text EXCEPT !.lines = Append(@, line)]

ExpandLines(lines, before, deeper) ==
    LET Text[n \in 0 .. Len(lines)] ==
            IF n = 0 THEN [lines |-> <<>>, visited |-> before] ELSE ExpandLine(Text[n - 1], lines[n], deeper)
    IN  Text[Len(lines)]

\* What becomes of each file, given those read before: with its includes, and
\* as it is, at the last level.
ExpandFiles(deeper) ==
    [f \in DOMAIN ConfigFiles |-> [before \in SUBSET Canonical |-> ExpandLines(ConfigFiles[f], before, deeper)]]
Unexpanded ==
    [f \in DOMAIN ConfigFiles |-> [before \in SUBSET Canonical |-> [lines |-> ConfigFiles[f], visited |-> before]]]

\* expand_includes_inner: what becomes of each file so many levels above the last.
ExpandIncludes[depth \in 0 .. IncludeDepth] ==
    IF depth = 0 THEN Unexpanded ELSE ExpandFiles(ExpandIncludes[depth - 1])

Expanded(lines) == ExpandLines(lines, {}, ExpandIncludes[IncludeDepth - 1])

\* The values of all the lines with the key, in their order.
ValuesOf(lines, key) == FlattenSeq([i \in DOMAIN lines |-> IF lines[i].key = key THEN lines[i].values ELSE <<>>])

\* What stands at the places, in their order.
Chosen(s, places) == FlattenSeq([i \in DOMAIN s |-> IF i \in places THEN <<s[i]>> ELSE <<>>])

\* The names of the Host lines, in their order, each once, no patterns.
HostAliases(text) ==
    LET names == ValuesOf(text, "Host")
    IN  Chosen(names, {i \in DOMAIN names: names[i] \notin Wildcards /\ \A j \in 1 .. i - 1: names[j] # names[i]})

IsHost(line) == line.key = "Host"
Names(line, alias) == IsHost(line) /\ alias \in ToSet(line.values)

\* Mutant: the next Host line does not end the block.
BlockOfAliasRunsOn(text, alias) ==
    LET first == Min({i \in DOMAIN text: Names(text[i], alias)})
    IN  SubSeq(text, first, Len(text))

\* The first block that names the alias, with those right after it that do too.
BlockOfAlias(text, alias) ==
    LET first == Min({i \in DOMAIN text: Names(text[i], alias)})
        ends  == {i \in first .. Len(text): IsHost(text[i]) /\ ~Names(text[i], alias)}
    IN  SubSeq(text, first, IF ends = {} THEN Len(text) ELSE Min(ends) - 1)

IdentityFiles(text, alias) == ValuesOf(BlockOfAlias(text, alias), "IdentityFile")

\* SSHConfig::query: the last line with the key in a block that covers the alias.
LinesFor(text, alias, key) ==
    {i \in DOMAIN text:
        /\ text[i].key = key
        /\ LET hosts == {h \in 1 .. i: IsHost(text[h])}
           IN  /\ hosts # {}
               /\ \E p \in ToSet(text[Max(hosts)].values): p = alias \/ <<p, alias>> \in Covers}
Query(text, alias, key) ==
    LET found == LinesFor(text, alias, key) IN IF found = {} THEN None ELSE text[Max(found)].values[1]
QueryPort(text, alias) ==
    LET found == LinesFor(text, alias, "Port") IN IF found = {} THEN 0 ELSE text[Max(found)].number

\* SshConfigParser: the text with its includes, and the names in it.
ParserOf(text) == [text |-> text, aliases |-> HostAliases(text)]
Parser(lines) == ParserOf(Expanded(lines).lines)

NoEntry == [alias |-> None, host |-> None, user |-> None, port |-> 0, files |-> <<>>]

\* The parser's resolve_host: only names of HostAliases have an entry. A host
\* name that is the alias and the default port are left out.
Entry(parser, alias) ==
    IF alias \notin ToSet(parser.aliases) THEN NoEntry
    ELSE LET name == Query(parser.text, alias, "HostName")
             port == QueryPort(parser.text, alias)
         IN  [alias |-> alias, host |-> IF name = alias THEN None ELSE name, user |-> Query(parser.text, alias, "User"),
              port |-> IF port = DefaultPort THEN 0 ELSE port, files |-> IdentityFiles(parser.text, alias)]

-----------------------------------------------------------------------------
(* What the settings become. *)

\* The entry fills in what the user left at its default. With keys of its own
\* it also turns the automatic method into the one with a private key.
WithEntry(cfg, entry) ==
    LET keyed == cfg.method = "auto" /\ entry.files # <<>>
    IN  [cfg EXCEPT
            !.host = IF @ = None /\ entry.host # None THEN entry.host ELSE @,
            !.user = IF @ = None THEN entry.user ELSE @,
            !.port = IF @ = DefaultPort /\ entry.port # 0 THEN entry.port ELSE @,
            !.method = IF keyed THEN "key" ELSE @,
            !.key = IF keyed /\ @ = None THEN entry.files[1] ELSE @]

\* merge_with_ssh_config_static; without any user it is the one of the system.
MergeWithSshConfig(cfg, entry, system) ==
    [WithEntry(cfg, entry) EXCEPT !.user = IF @ = None THEN system ELSE @]

Fallback(host) ==
    [host |-> host, port |-> DefaultPort, user |-> None, files |-> <<>>, agent |-> None, fallback |-> TRUE]

\* The last line of a key counts; every identity file does.
ParseSshG(lines) ==
    LET Said(key, none) == LET at == {i \in DOMAIN lines: lines[i].key = key}
                           IN  IF at = {} THEN none ELSE lines[Max(at)].values[1]
        ports == {i \in DOMAIN lines: lines[i].key = "port" /\ lines[i].number # 0}
    IN  [host |-> Said("hostname", None), port |-> IF ports = {} THEN DefaultPort ELSE lines[Max(ports)].number,
         user |-> Said("user", None), files |-> ValuesOf(lines, "identityfile"),
         agent |-> Said("identityagent", None), fallback |-> FALSE]

\* says is what ssh -G prints for each host it answers for; late are the hosts
\* for which it takes longer than it may.
RunSshG(host, says, late) ==
    IF host \in DOMAIN says /\ host \notin late THEN ParseSshG(says[host]) ELSE Fallback(host)

HasInheritedConfig(r, input) ==
    \/ r.files # <<>> /\ ~(ToSet(r.files) \subseteq DefaultKeys)
    \/ r.agent # None
    \/ r.user # None
    \/ r.host \notin {None, input}

\* The names whose entry has this host.
AliasesOf(parser, host) ==
    Chosen(parser.aliases, {i \in DOMAIN parser.aliases:
                               LET a == parser.aliases[i] IN a # host /\ Query(parser.text, a, "HostName") = host})

\* The keys of the parser's entry when ssh -G named none.
WithBackfill(r, parser, alias) == IF r.files # <<>> THEN r ELSE [r EXCEPT !.files = Entry(parser, alias).files]

Found(r, parser, name, asked) == [found |-> WithBackfill(r, parser, name), asked |-> asked]

\* host_resolver::resolve_host: what ssh -G says of the host, or of the first
\* alias with this host name when it says nothing of its own of the host. asked
\* are the names it is run for.
ResolveHost(input, parser, says, late) ==
    LET ByAlias(first, alias, other) ==
            Found(IF HasInheritedConfig(other, input) THEN other ELSE first, parser,
                  IF HasInheritedConfig(other, input) THEN alias ELSE input, {input, alias})
        ByHost(first, names) ==
            IF HasInheritedConfig(first, input) \/ names = <<>> THEN Found(first, parser, input, {input})
            ELSE ByAlias(first, names[1], RunSshG(names[1], says, late))
    IN  ByHost(RunSshG(input, says, late), AliasesOf(parser, input))

MergeResolved(cfg, r) ==
    [cfg EXCEPT !.host = IF r.host # None THEN r.host ELSE @,
                !.port = IF r.fallback THEN @ ELSE r.port,
                !.user = IF @ = None /\ r.user # None THEN r.user ELSE @]
=============================================================================
