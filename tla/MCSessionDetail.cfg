CONSTANTS
    c1 = c1
    c2 = c2
    Clients = {c1, c2}
    Contexts = {"local", "ssh"}
    Local = "local"
    MaxWrites = 1
    MaxAsks = 4
    MaxTroubles = 1
SYMMETRY Alike
SPECIFICATION Spec
CHECK_DEADLOCK FALSE
INVARIANTS
    AnswersAreHonest
    InvalidationReaches
