\* Syncs of two bridges, or one and a client, or a client of the history; every statement a step.
SPECIFICATION FairSpec
CONSTANTS
    b1 = b1
    b2 = b2
    Bridges = {b1, b2}
    Deployments <- SharedOrOwn
    MaxStore = 2
    MaxDays = 2
    MaxTools = 1
    MaxFaults = 1
INVARIANTS TypeOK ExecutionsCoverModelUsage HistoryWindowsNested NeverMoreThanStore SyncReplacesAll
PROPERTY CatchesUp
CHECK_DEADLOCK FALSE
