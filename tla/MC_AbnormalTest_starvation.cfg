\* Timers are evaluated only on idle polls; daemon output that never pauses keeps the run alive forever.
CONSTANTS
    NFaults = 1
    StartRuns = {1}
    Durations = {1}
    EndRuns = {1}
    MaxTime <- MCMaxTime
    MaxEvalTicks = 2
    SpawnMayFail = FALSE
    DaemonMayCrash = FALSE
    ListenAtSpawn = TRUE
    PackResults = {TRUE}
    OperatorMayAbort = FALSE
SPECIFICATION Spec
PROPERTY RunTerminates
