\* Violation expected: after the daemon restarts, the send of the periodic
\* request fails and update() reconnects without calling start(); nothing
\* asks the new daemon for the port and clock state again.
CONSTANTS
    c1 = c1
    c2 = c2
    None = None
    Clocks <- MCClocks
    NDomains = 2
    Ports = {1}
    Period = 2
    UnixMode = TRUE
    CtlSw = FALSE
    MaxPresses = 0
    MaxRestarts = 2
    MaxEvents = 1
    QueueCap = 10
    DaemonMayStop = TRUE
    DaemonTimely = TRUE
SPECIFICATION Spec
PROPERTIES
    EventuallyConsistent
