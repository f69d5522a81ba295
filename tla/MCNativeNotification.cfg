SPECIFICATION Spec
CONSTANTS
    Callers = {w1, w2}
    Checkers = {c1, c2}
    Scenarios <- MCScenarios
    OldFiles <- MCOldFiles
    Midnight = 3
    Errors <- MCErrors
    HashOf <- MCHashOf
    RepoOf <- MCRepoOf
    MatchedBy <- MCMatchedBy
    THROTTLE = 2
    WINDOW = 3
    MAX_REGEX_CACHE_SIZE = 1
SYMMETRY AnyOrder
INVARIANTS
    SettingsAreSaved
    SettingsAreSound
    RootInUse
    NotifiesInTime
PROPERTIES
    SnoozeLostOnlyInRace
CHECK_DEADLOCK FALSE
