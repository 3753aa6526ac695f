\* With endrun 0 the clock can pass stopts and endts between stop_ipc's and the end check's time.time().
CONSTANTS
    NFaults = 1
    StartRuns = {1}
    Durations = {1}
    EndRuns = {0}
    MaxTime <- MCMaxTime
    MaxEvalTicks = 2
    SpawnMayFail = FALSE
    DaemonMayCrash = FALSE
    ListenAtSpawn = TRUE
    PackResults = {TRUE}
    OperatorMayAbort = FALSE
SPECIFICATION QuietSpec
INVARIANT DisarmedAtNormalEnd
