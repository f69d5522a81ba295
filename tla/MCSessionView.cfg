CONSTANTS
    s1 = s1
    s2 = s2
    none = none
    Sessions = {s1, s2}
    NoSession = none
    FirstChunks = 1
    MaxWrites = 2
    MaxCalls = 4
    MaxCloses = 1
    MaxManual = 1
    MaxActs = 5
SYMMETRY Alike
SPECIFICATION Spec
CHECK_DEADLOCK FALSE
INVARIANTS
    RefreshesAreExact
    AtRestCurrent
