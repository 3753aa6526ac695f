\* Exit paths: one eventconf, every failure the environment can produce
\* (spawn failure, daemon crash, operator abort, invalid or duration-0
\* eventconf, a daemon that binds its IPC port late): cleanup on every
\* exit path, the Event Timer's lifecycle through all of them, and
\* termination.
CONSTANTS
    NFaults = 1
    StartRuns = {0, 1}
    Durations = {0, 1}
    EndRuns = {1}
    MaxTime <- MCMaxTime
    MaxEvalTicks = 2
    SpawnMayFail = TRUE
    DaemonMayCrash = TRUE
    ListenAtSpawn = FALSE
    PackResults = {TRUE, FALSE}
    OperatorMayAbort = TRUE
SPECIFICATION QuietSpec
INVARIANTS
    TypeOK
    CleanupOnEveryExit
PROPERTIES
    FaultTimerRefined
    RunTerminates
