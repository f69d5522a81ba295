\* One task adds errors, another edits the history; one file access fails, and the
\* application is killed once.
SPECIFICATION Spec
CONSTANTS
    Workers = {w1, w2}
    Adders = {w1}
    Tools = {t1}
    NoTool = NoTool
    MaxNotifications = 2
    MaxErrors = 3
    MaxFails = 1
    MaxCrashes = 1
INVARIANTS
    PruneBound
    HistoryIsSound
    SavedAtRest
    ReplacesTwin
CHECK_DEADLOCK FALSE
