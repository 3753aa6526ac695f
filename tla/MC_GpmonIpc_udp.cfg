\* The monitor in UDP mode ('--udpport') with the domain switch button,
\* against a daemon that may exit and be restarted: pending ICMP errors,
\* failed start() and reconnects after a failed send; the inactive screen
\* they cause must not stick once the daemon stays up.
CONSTANTS
    c1 = c1
    c2 = c2
    None = None
    Clocks <- MCClocks
    NDomains = 2
    Ports = {1}
    Period = 2
    UnixMode = FALSE
    CtlSw = TRUE
    MaxPresses = 1
    MaxRestarts = 2
    MaxEvents = 1
    QueueCap = 10
    DaemonMayStop = TRUE
    DaemonTimely = TRUE
SPECIFICATION Spec
PROPERTIES
    EventuallyActive
