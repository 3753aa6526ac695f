\* The monitor in AF_UNIX mode against a daemon that may start after it
\* and whose ports, GMs and active domain change twice.  Replies to start()
\* and to the notices stay below the kernel's 10-datagram queue.
CONSTANTS
    c1 = c1
    c2 = c2
    None = None
    Clocks <- MCClocks
    NDomains = 2
    Ports = {1}
    Period = 2
    UnixMode = TRUE
    CtlSw = FALSE
    MaxPresses = 0
    MaxRestarts = 1
    MaxEvents = 2
    QueueCap = 10
    DaemonMayStop = FALSE
    DaemonTimely = TRUE
SPECIFICATION Spec
INVARIANTS
    TypeOK
    PathsOnlyWhenOperational
PROPERTIES
    EventuallyConsistent
