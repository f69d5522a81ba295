SPECIFICATION MCSpec
CONSTANTS
    PARALLEL_WINDOW_MS = 1
    MEANINGFUL_SUBAGENT_DURATION_MS = 1
    Texts = {"plain", "reminder", "stdout"}
    Tools = {"Task", "ExitPlanMode", "Shutdown"}
    Calls = {"a", "b"}
    Ticks = {0, 2}
    MaxLines = 4
    MaxProcs = 1
    Workers = {w1, w2}
    Projects <- MCProjects
    FilesOf <- MCFilesOf
    PathOf <- MCPathOf
    Cwds <- MCCwds
    Uses <- MCUses
    Results <- MCResults
    RepoOf <- MCRepoOf
    Triggers <- MCTriggers
    MAX_ERRORS = 2
    MAX_TOTAL_COUNT = 2
    MaxMessages = 3
INVARIANTS
    DetailIsWhole
    ScopeIsOwn
    PartsFindTheWhole
    TestIsDetection
PROPERTIES
    ChunkIdsStable
SYMMETRY Symmetry
CHECK_DEADLOCK FALSE
