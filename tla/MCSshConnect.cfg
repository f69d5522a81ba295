CONSTANTS
    alice = alice
    bob = bob
    Callers = {alice, bob}
    Scenarios <- MCScenarios
    Wildcards <- MCWildcards
    Covers <- MCCovers
    ConfigFiles <- MCConfigFiles
    SameFile <- MCSameFile
    GlobFiles <- MCGlobFiles
    IncludeDepth = 10
    DefaultKeys = {"rsa", "ed"}
    SSH_G_TIMEOUT = 5
    TCP_PROBE_TIMEOUT = 5
    CONNECT_TIMEOUT = 15
    CONNECT_CHAIN_TIMEOUT = 25
    AUTH_TIMEOUT = 15
    AGENT_CANDIDATE_TIMEOUT = 3
    SFTP_OPEN_TIMEOUT = 8
    DEFAULT_KEY_NAMES <- MCDefaultKeyNames
    DefaultKey = "rsa"
    MaxSessions = 3
    MAX_RETRIES = 3
    FIRST_CHUNK = 2
    FULL_CHUNK = 4
    HeadLines = {1, 3}
    MaxBytes = 5
SPECIFICATION MCSpec
INVARIANTS
    AttemptsAreSound
    HostIsTheTyped
    EachFileOnce
    ConnectionIsOwned
    ReadsAreTrue
PROPERTIES
    ConnectionGoesOn
CHECK_DEADLOCK FALSE
