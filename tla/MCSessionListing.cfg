CONSTANTS
    PARALLEL_WINDOW_MS = 1
    MEANINGFUL_SUBAGENT_DURATION_MS = 1
    PreviewRows = 4
    CwdRows = 1
    StageLimits = {1}
    PageLimit = 2
    Query = 3
    MaxResults = 2
    MinResults = 1
    Contexts = {"local", "host"}
    Remote = {"host"}
    Paths <- MCPaths
    Encode <- MCEncode
    Decode <- MCDecode
    Dirs <- MCDirs
    LongerIds <- MCLongerIds
    Scenarios <- MCScenarios
    Facts <- MCFacts
    ParallelWindow = 1
    MaxParentDepth = 3
    Session = "c1"
    Tasks <- MCTasks
    Files <- MCFiles
    MaxSpoken = 4
    Notes <- MCNotes
    Deletions = 2
    Artifacts <- MCArtifacts
SPECIFICATION MCSpec
INVARIANTS
    CallsAreSound
    ListsAgree
    CrewIsLinked
    DeletionReports

    
CHECK_DEADLOCK FALSE
