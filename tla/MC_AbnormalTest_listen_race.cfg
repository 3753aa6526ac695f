\* A REGISTER sent before the master daemon binds its IPC port is lost.
CONSTANTS
    NFaults = 1
    StartRuns = {0}
    Durations = {1}
    EndRuns = {1}
    MaxTime <- MCMaxTime
    MaxEvalTicks = 2
    SpawnMayFail = FALSE
    DaemonMayCrash = FALSE
    ListenAtSpawn = FALSE
    PackResults = {TRUE}
    OperatorMayAbort = FALSE
SPECIFICATION QuietSpec
INVARIANT ArmedMatchesActive
