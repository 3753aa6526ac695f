\* Timer evaluation: two eventconfs evaluated in list order, with the clock
\* advancing up to one offset unit inside an idle-tick evaluation, and a
\* master daemon that may crash.
CONSTANTS
    NFaults = 2
    StartRuns = {0, 1}
    Durations = {1, 2}
    EndRuns = {1}
    MaxTime <- MCMaxTime
    MaxEvalTicks = 2
    SpawnMayFail = FALSE
    DaemonMayCrash = TRUE
    ListenAtSpawn = TRUE
    PackResults = {TRUE}
    OperatorMayAbort = FALSE
SPECIFICATION QuietSpec
INVARIANTS
    DisarmedAtNormalEnd
    NoEarlyEnd
    ArmedMatchesActive
