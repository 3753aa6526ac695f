\* AF_UNIX monitor against a daemon that stops and restarts: the reconnect
\* path of update() is taken, and the display invariants still hold.
CONSTANTS
    c1 = c1
    c2 = c2
    None = None
    Clocks <- MCClocks
    NDomains = 2
    Ports = {1}
    Period = 2
    UnixMode = TRUE
    CtlSw = FALSE
    MaxPresses = 0
    MaxRestarts = 2
    MaxEvents = 2
    QueueCap = 10
    DaemonMayStop = TRUE
    DaemonTimely = TRUE
SPECIFICATION Spec
PROPERTIES
    EventuallyConnected
