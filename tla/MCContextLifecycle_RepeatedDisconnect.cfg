SPECIFICATION Spec
CONSTANTS
    Hosts = {h1}
    Requests = {r1}
    Kinds = {"main"}
    NoHost = NoHost
    NoProc = NoProc
    MaxInst = 3
    MaxGen = 4
    MaxDisc = 1
PROPERTY RepeatedDisconnectIsNoOp
CHECK_DEADLOCK FALSE
