SPECIFICATION Spec
CONSTANTS
    Hosts = {h1}
    Requests = {r1, r2}
    Kinds = {"main"}
    NoHost = NoHost
    NoProc = NoProc
    MaxInst = 3
    MaxGen = 4
    MaxDisc = 1
SYMMETRY Symmetry
INVARIANTS TypeOK NoOrphanToken OneListener ActiveHasToken InactiveSshQuiet
CHECK_DEADLOCK FALSE
