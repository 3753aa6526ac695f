\* gptp2d_proc.close reopens the IPC socket instead of closing it.
CONSTANTS
    NFaults = 1
    StartRuns = {1}
    Durations = {1}
    EndRuns = {1}
    MaxTime <- MCMaxTime
    MaxEvalTicks = 2
    SpawnMayFail = FALSE
    DaemonMayCrash = FALSE
    ListenAtSpawn = TRUE
    PackResults = {TRUE}
    OperatorMayAbort = FALSE
SPECIFICATION QuietSpec
INVARIANT NoSocketLeftOpen
