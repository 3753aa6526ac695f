\* Violation expected: an ACTIVE_DOMAIN notice or a CLOCKD datagram for a
\* domain that has no box yet reaches update_active_domain, which
\* dereferences the None that get_domaind returns.
CONSTANTS
    c1 = c1
    c2 = c2
    None = None
    Clocks <- MCClocks
    NDomains = 2
    Ports = {1}
    Period = 2
    UnixMode = TRUE
    CtlSw = FALSE
    MaxPresses = 0
    MaxRestarts = 1
    MaxEvents = 1
    QueueCap = 10
    DaemonMayStop = FALSE
    DaemonTimely = TRUE
SPECIFICATION Spec
INVARIANT
    NoUncaughtException
