\* One file of two lines, the first with a message or silent, written twice, and
\* one mishap: a rewrite, a failing access or a lost event.
SPECIFICATION FairSpec
CONSTANTS
    MaxLen = 4
    Silences <- MCSilences
    MaxWrites = 2
    MaxMishaps = 1
INVARIANTS
    GuardExcludes
    LinesAreAccounted
PROPERTIES
    EventsAreServed
CHECK_DEADLOCK FALSE
