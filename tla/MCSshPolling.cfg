\* A watcher that is started twice, over one root or two, one failing access, two remote changes.
SPECIFICATION FairSpec
CONSTANTS
    projects = projects
    pi = pi
    app = app
    work = work
    memory = memory
    run = run
    Roots <- MCRoots
    Watchable <- MCWatchable
    ExtraRoots = {pi}
    Projects = {app, work}
    RootOf <- MCRootOf
    Files = {memory, run}
    ProjectOf <- MCProjectOf
    MemoryFiles = {memory}
    MaxSize = 2
    HeadSize = 2
    MaxWrites = 2
    MaxFails = 1
    MaxStarts = 2
INVARIANTS
    WatcherIsSound
PROPERTIES
    RemovedIsGone
    CatchesUp
CHECK_DEADLOCK FALSE
