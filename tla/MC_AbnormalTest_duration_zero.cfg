\* event_init with duration 0.0 raises NameError on mtindex.
CONSTANTS
    NFaults = 1
    StartRuns = {1}
    Durations = {0}
    EndRuns = {1}
    MaxTime <- MCMaxTime
    MaxEvalTicks = 2
    SpawnMayFail = FALSE
    DaemonMayCrash = FALSE
    ListenAtSpawn = TRUE
    PackResults = {TRUE}
    OperatorMayAbort = FALSE
SPECIFICATION QuietSpec
PROPERTY ValidSpecAccepted
