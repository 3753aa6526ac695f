------------------------------ MODULE GpmonIpc ------------------------------
(***************************************************************************)
(* The gptp2d status monitor of src/gptp2/gpmongui.py: its IPC client      *)
(* ListenIpcSocket (ipc_connect, start, stop, the per-frame update with   *)
(* its reconnect counter, decode_rdata and the decode_* handlers) composed *)
(* with the display state of GpmonScreenManager (activate, update_gportd, *)
(* update_active_domain, and GpmonDomainBox/GpmonPortdBox update_portd and *)
(* update_info) and the Single/Multi domain switch button.                *)
(*                                                                         *)
(* The gptp2d daemon at the other end of the datagram socket is the       *)
(* environment: it starts, stops, answers requests in order, and sends    *)
(* notices when the state of a port, a domain's GM or the active domain   *)
(* changes.  Kivy calls update() once per frame from one thread, so every *)
(* method of the client is one atomic step.                               *)
(***************************************************************************)
EXTENDS Integers, Sequences, SequencesExt, FiniteSets

CONSTANTS
    NDomains,       \* gPTP domains 0..NDomains-1 the daemon runs
    Ports,          \* portIndex values (> 0) of the daemon's ports
    Clocks,         \* clock identities a GM may have
    Period,         \* the update count (300 in the code) between retries
    UnixMode,       \* udpport == 0: AF_UNIX socket to server_node
    CtlSw,          \* the '--ctlsw' control switches are shown
    MaxPresses,     \* bound on presses of the domain switch button
    MaxRestarts,    \* bound on daemon (re)starts
    MaxEvents,      \* bound on daemon state changes
    QueueCap,       \* datagrams a socket's receive queue holds
                    \* (net.unix.max_dgram_qlen, 10 by default)
    DaemonMayStop,  \* the daemon may exit while the monitor runs
    DaemonTimely,   \* the daemon answers a request within Period frames
    None            \* Python None (a model value)

ASSUME Period \in Nat \ {0} /\ NDomains \in Nat \ {0}

Domains == 0..(NDomains - 1)
NoClock == ""                 \* GpmonDomainBox.gmClockId before any GPORTD

\* The gptpipc request commands the monitor sends (GPTPIPC_CMD_*).
Request == [cmd : {"SWITCH", "GPORT", "NDPORT", "CLOCK", "TSN"},
            dom : Domains \cup {-1}]
Req(c, d) == [cmd |-> c, dom |-> d]

\* The data the daemon sends (GPTPIPC_GPTPD_*), abstracted to the fields
\* decode_* hands to the screen manager.
Flags == {"NETDEV_DOWN", "NETDEV_UP", "AS_DOWN", "AS_UP",
          "ACTIVE_DOMAIN", "GM_CHANGE"}
Notice(f, d, p) == [type |-> "NOTICE", flag |-> f, dom |-> d, port |-> p]
Gportd(d, p, a, o, g, path) ==
    [type |-> "GPORTD", dom |-> d, port |-> p, as |-> a, oper |-> o,
     gm |-> g, path |-> path]
Clockd(d, act) == [type |-> "CLOCKD", dom |-> d, active |-> act]
Ndportd == [type |-> "NDPORTD"]

\* GpmonPortdBox state: asCapable, portOper and the GM path shown.
PortSt == [as : {0, 1}, oper : {0, 1}, paths : Seq(Clocks)]
NewPortd == [as |-> 0, oper |-> 0, paths |-> <<>>]

\* GpmonDomainBox.activeDomain: set to False in __init__ and never
\* assigned again.
ActiveDomainAttr == [d \in Domains |-> FALSE]

VARIABLES
    \* the monitor
    phase,          \* "build" | "start" | "run" | "stopped" | "crashed"
    sock,           \* ListenIpcSocket.sock: None, or the daemon
                    \* incarnation it was connected to
    pcount,         \* ListenIpcSocket.pcount
    sockErr,        \* an ICMP error is pending on the UDP socket
    active,         \* GpmonScreenManager.active (the shown screen)
    switchMode,     \* active_domain_switch of the switch button
    presses,        \* presses of the switch button so far
    domBox,         \* domains that have a GpmonDomainBox
    portBox,        \* per domain, ports that have a GpmonPortdBox
    pst,            \* per domain and port, the GpmonPortdBox state
    gmClock,        \* per domain, GpmonDomainBox.gmClockId
    labelActive,    \* per domain, label shown in ACTIVE_DOMAIN_COLOR
    toClient,       \* datagrams queued on the monitor's socket
    \* the daemon
    up,             \* gptp2d is running
    inc,            \* its incarnation (number of starts)
    known,          \* it has learned the monitor's address
    toDaemon,       \* requests queued on its IPC socket
    dAs, dOper,     \* per domain and port asCapable; per port portOper
    dGm, dActive,   \* per domain GM clock; the active domain
    events          \* state changes made so far

monVars == <<phase, sock, pcount, sockErr, active, switchMode, presses, domBox,
             portBox, pst, gmClock, labelActive, toClient>>
dispVars == <<domBox, portBox, pst, gmClock, labelActive>>
dmnVars == <<up, inc, known, toDaemon, dAs, dOper, dGm, dActive, events>>
vars == <<monVars, dmnVars>>

TypeOK ==
    /\ phase \in {"build", "start", "run", "stopped", "crashed"}
    /\ sock \in {None} \cup (0..MaxRestarts)
    /\ pcount \in 0..Period
    /\ sockErr \in BOOLEAN /\ active \in BOOLEAN
    /\ switchMode \in {-1, 0} /\ presses \in 0..MaxPresses
    /\ domBox \subseteq Domains
    /\ portBox \in [Domains -> SUBSET Ports]
    /\ pst \in [Domains -> [Ports -> PortSt]]
    /\ gmClock \in [Domains -> Clocks \cup {NoClock}]
    /\ labelActive \in [Domains -> BOOLEAN]
    /\ up \in BOOLEAN /\ inc \in 0..MaxRestarts /\ known \in BOOLEAN
    /\ toDaemon \in Seq(Request)
    /\ dAs \in [Domains -> [Ports -> {0, 1}]] /\ dOper \in [Ports -> {0, 1}]
    /\ dGm \in [Domains -> Clocks] /\ dActive \in Domains
    /\ events \in 0..MaxEvents

InitGm == CHOOSE c \in Clocks : TRUE

\* The daemon's state right after it starts.
DaemonFresh(as, oper, gm, act) ==
    /\ as = [d \in Domains |-> [p \in Ports |-> 0]]
    /\ oper = [p \in Ports |-> 1]
    /\ gm = [d \in Domains |-> InitGm]
    /\ act = 0

Init ==
    /\ phase = "build"
    /\ sock = None /\ pcount = 0 /\ sockErr = FALSE
    /\ active = TRUE /\ switchMode = -1 /\ presses = 0
    /\ domBox = {} /\ portBox = [d \in Domains |-> {}]
    /\ pst = [d \in Domains |-> [p \in Ports |-> NewPortd]]
    /\ gmClock = [d \in Domains |-> NoClock]
    /\ labelActive = [d \in Domains |-> FALSE]
    /\ toClient = <<>>
    /\ up \in BOOLEAN /\ inc = IF up THEN 1 ELSE 0
    /\ known = FALSE /\ toDaemon = <<>> /\ events = 0
    /\ DaemonFresh(dAs, dOper, dGm, dActive)

-----------------------------------------------------------------------------
(* Sending on ListenIpcSocket.sock.  An AF_UNIX datagram socket connected *)
(* to an incarnation of the daemon that has exited raises ECONNREFUSED.   *)
(* A connected UDP socket hands a datagram for a closed port to the       *)
(* kernel, which drops it and leaves an ICMP error pending: the next send *)
(* or recv raises and clears it.  SendOut(s, e, reqs) is the outcome of   *)
(* sending reqs one after the other on a socket connected to s with error *)
(* flag e: whether every send returned, what reached the daemon, and the  *)
(* error left pending.                                                    *)
SendOut(s, e, reqs) ==
    IF UnixMode
    THEN IF up /\ s = inc
         THEN [ok |-> TRUE, sent |-> reqs, err |-> FALSE]
         ELSE [ok |-> reqs = <<>>, sent |-> <<>>, err |-> FALSE]
    ELSE IF e
         THEN [ok |-> reqs = <<>>, sent |-> <<>>, err |-> reqs = <<>>]
    ELSE IF up
         THEN [ok |-> TRUE, sent |-> reqs, err |-> FALSE]
         ELSE [ok |-> Len(reqs) <= 1, sent |-> <<>>, err |-> Len(reqs) = 1]

\* The socket ipc_connect leaves: AF_UNIX connect fails while the daemon's
\* server_node is not bound; a UDP connect always succeeds.
Connected == IF UnixMode /\ ~up THEN None ELSE inc

\* ipc_connect closes the old socket (its queued datagrams are lost) and
\* opens a new one.  A new UDP socket has a new port, which the daemon has
\* not seen; the AF_UNIX one is bound to the same my_node path.
ipc_connect(s) ==
    /\ sock' = s
    /\ toClient' = <<>>
    /\ sockErr' = FALSE
    /\ known' = IF UnixMode THEN known ELSE FALSE

\* Requests that reach the daemon are queued on its socket.  A send to a
\* full AF_UNIX datagram queue blocks until the daemon reads: the step
\* that sends cannot happen before there is room.
Deliver(rs) ==
    /\ Len(toDaemon) + Len(rs) <= QueueCap
    /\ toDaemon' = toDaemon \o rs

StartReqs == <<Req("SWITCH", -1), Req("GPORT", -1), Req("NDPORT", -1),
               Req("CLOCK", -1), Req("TSN", 0)>>

\* start() on a freshly connected socket s: the four requests and the
\* shaper-off control; on socket.error the socket is closed.
start(s) ==
    LET o == SendOut(s, FALSE, StartReqs)
    IN  /\ Deliver(o.sent)
        /\ sock' = IF o.ok THEN s ELSE None
        /\ sockErr' = FALSE
        /\ toClient' = IF o.ok THEN toClient ELSE <<>>

-----------------------------------------------------------------------------
(* The display.  update_info of GpmonPortdBox: a 0 argument clears the    *)
(* GM path; otherwise a given path replaces the shown one (path boxes are *)
(* reused in order, extra ones removed) in reverse order.                 *)
\* Mutant: the path is cleared only when both asCapable and portOper are 0.
update_infoBothDown(st, a, o, g) ==
    LET s1 == [st EXCEPT !.as = IF a = None THEN @ ELSE a,
                         !.oper = IF o = None THEN @ ELSE o]
    IN  IF a = 0 /\ o = 0 THEN [s1 EXCEPT !.paths = <<>>]
        ELSE IF g = None THEN s1
        ELSE [s1 EXCEPT !.paths = Reverse(g)]

update_info(st, a, o, g) ==
    LET s1 == [st EXCEPT !.as = IF a = None THEN @ ELSE a,
                         !.oper = IF o = None THEN @ ELSE o]
    IN  IF a = 0 \/ o = 0 THEN [s1 EXCEPT !.paths = <<>>]
        ELSE IF g = None THEN s1
        ELSE [s1 EXCEPT !.paths = Reverse(g)]

\* GpmonScreenManager.update_gportd: a negative domainNumber applies to
\* every domain box; otherwise the domain box is created on first use
\* (create_new_domain colours "Domain 0" active).  In each domain,
\* GpmonDomainBox.update_portd records a new GM and creates the port box
\* on first use before update_info.
update_gportd(dn, p, a, o, g, path) ==
    LET ds == IF dn < 0 THEN domBox ELSE {dn}
    IN  /\ domBox' = domBox \cup ds
        /\ labelActive' = [d \in Domains |->
                             IF d \in ds \ domBox THEN d = 0
                             ELSE labelActive[d]]
        /\ gmClock' = [d \in Domains |->
                         IF d \in ds /\ g # None THEN g ELSE gmClock[d]]
        /\ portBox' = [d \in Domains |->
                         IF d \in ds THEN portBox[d] \cup {p}
                         ELSE portBox[d]]
        /\ pst' = [d \in Domains |-> [q \in Ports |->
                     IF d \in ds /\ q = p
                     THEN update_info(pst[d][q], a, o, path)
                     ELSE pst[d][q]]]

\* GpmonScreenManager.update_active_domain for a domain that has a box.
\* The "no change" test compares with activeDomain, which stays False.
update_active_domain(d, act) ==
    /\ labelActive' =
         IF act = ActiveDomainAttr[d] THEN labelActive
         ELSE IF act
              THEN [x \in Domains |->
                      IF x \in domBox THEN x = d ELSE labelActive[x]]
              ELSE [labelActive EXCEPT ![d] = FALSE]
    /\ UNCHANGED <<domBox, portBox, pst, gmClock>>

-----------------------------------------------------------------------------
(* The monitor.  GpMonApp.build constructs ListenIpcSocket, whose         *)
(* __init__ calls ipc_connect; the kivy EventLoop then calls start() of   *)
(* the input provider once and update() on every frame.                   *)
Build ==
    /\ phase = "build"
    /\ phase' = "start"
    /\ ipc_connect(Connected)
    /\ UNCHANGED <<pcount, active, switchMode, presses, dispVars, up, inc, toDaemon,
                   dAs, dOper, dGm, dActive, events>>

Start ==
    /\ phase = "start"
    /\ phase' = "run"
    /\ IF sock = None THEN UNCHANGED <<sock, sockErr, toClient, toDaemon>>
       ELSE start(sock)
    /\ UNCHANGED <<pcount, active, switchMode, presses, dispVars, up, inc, known,
                   dAs, dOper, dGm, dActive, events>>

\* Mutant: a successful reconnect is not followed by start().
UpdateNoSockNoStart ==
    /\ phase = "run" /\ sock = None
    /\ IF pcount + 1 = Period
       THEN /\ pcount' = 0
            /\ ipc_connect(Connected)
            /\ UNCHANGED toDaemon
       ELSE /\ pcount' = pcount + 1
            /\ UNCHANGED <<sock, sockErr, toClient, toDaemon, known>>
    /\ UNCHANGED <<phase, active, switchMode, presses, dispVars, up, inc,
                   dAs, dOper, dGm, dActive, events>>

\* update() without a socket: count frames; at Period reconnect and, when
\* the connect succeeds, start() again.
UpdateNoSock ==
    /\ phase = "run" /\ sock = None
    /\ IF pcount + 1 = Period
       THEN /\ pcount' = 0
            /\ IF Connected = None
               THEN /\ ipc_connect(None)
                    /\ UNCHANGED toDaemon
               ELSE /\ start(Connected)
                    /\ known' = IF UnixMode THEN known ELSE FALSE
       ELSE /\ pcount' = pcount + 1
            /\ UNCHANGED <<sock, sockErr, toClient, toDaemon, known>>
    /\ UNCHANGED <<phase, active, switchMode, presses, dispVars, up, inc,
                   dAs, dOper, dGm, dActive, events>>

\* The environment's timing: with DaemonTimely, the Period-th idle frame
\* does not come before the daemon has read the requests sent so far.
Answered == DaemonTimely /\ pcount + 1 = Period => toDaemon = <<>>

\* Mutant: pcount is not reset after the periodic request.
UpdateIdleNoReset ==
    /\ phase = "run" /\ sock # None
    /\ toClient = <<>> /\ ~sockErr
    /\ Answered
    /\ pcount' = pcount + 1
    /\ IF pcount + 1 = Period
       THEN LET o == SendOut(sock, sockErr, <<Req("NDPORT", 0)>>)
            IN  /\ Deliver(o.sent)
                /\ IF o.ok
                   THEN /\ sockErr' = o.err
                        /\ UNCHANGED <<sock, toClient, known, active>>
                   ELSE /\ active' = FALSE
                        /\ ipc_connect(Connected)
       ELSE UNCHANGED <<sock, sockErr, toClient, toDaemon, known, active>>
    /\ UNCHANGED <<phase, switchMode, presses, dispVars, up, inc,
                   dAs, dOper, dGm, dActive, events>>

\* Mutant: a failed send only shows the inactive screen; the socket is
\* kept (ipc_connect is not called).
UpdateIdleNoReconnect ==
    /\ phase = "run" /\ sock # None
    /\ toClient = <<>> /\ ~sockErr
    /\ Answered
    /\ IF pcount + 1 = Period
       THEN LET o == SendOut(sock, sockErr, <<Req("NDPORT", 0)>>)
            IN  /\ pcount' = 0
                /\ Deliver(o.sent)
                /\ sockErr' = o.err
                /\ active' = (active /\ o.ok)
                /\ UNCHANGED <<sock, toClient, known>>
       ELSE /\ pcount' = pcount + 1
            /\ UNCHANGED <<sock, sockErr, toClient, toDaemon, known, active>>
    /\ UNCHANGED <<phase, switchMode, presses, dispVars, up, inc,
                   dAs, dOper, dGm, dActive, events>>

\* Mutant: the periodic NDPORT request is never sent.
UpdateIdleNoProbe ==
    /\ phase = "run" /\ sock # None
    /\ toClient = <<>> /\ ~sockErr
    /\ Answered
    /\ pcount' = IF pcount + 1 = Period THEN 0 ELSE pcount + 1
    /\ UNCHANGED <<sock, sockErr, toClient, toDaemon, known, active>>
    /\ UNCHANGED <<phase, switchMode, presses, dispVars, up, inc,
                   dAs, dOper, dGm, dActive, events>>

\* update() when poll(0) reports nothing: count frames; at Period request
\* the NDPORT info; if that send raises, show the inactive screen and
\* ipc_connect() again (without start()).
UpdateIdle ==
    /\ phase = "run" /\ sock # None
    /\ toClient = <<>> /\ ~sockErr
    /\ Answered
    /\ IF pcount + 1 = Period
       THEN LET o == SendOut(sock, sockErr, <<Req("NDPORT", 0)>>)
            IN  /\ pcount' = 0
                /\ Deliver(o.sent)
                /\ IF o.ok
                   THEN /\ sockErr' = o.err
                        /\ UNCHANGED <<sock, toClient, known, active>>
                   ELSE /\ active' = FALSE
                        /\ ipc_connect(Connected)
       ELSE /\ pcount' = pcount + 1
            /\ UNCHANGED <<sock, sockErr, toClient, toDaemon, known, active>>
    /\ UNCHANGED <<phase, switchMode, presses, dispVars, up, inc,
                   dAs, dOper, dGm, dActive, events>>

\* update() when poll(0) reports an event and recv raises (the pending
\* ICMP error of a UDP socket): show the inactive screen.
UpdateRecvError ==
    /\ phase = "run" /\ sock # None /\ sockErr
    /\ pcount' = 0 /\ sockErr' = FALSE /\ active' = FALSE
    /\ UNCHANGED <<phase, sock, switchMode, presses, dispVars, toClient, dmnVars>>

\* update() receiving datagram m: decode_rdata dispatches on its type; a
\* socket.error from a send inside the decoder shows the inactive screen,
\* otherwise activate(True).  The clock-difference labels of
\* update_dc_diff are text only.
NextDatagram == IF toClient = <<>> THEN {} ELSE {Head(toClient)}

Received(m) ==
    /\ phase = "run" /\ sock # None /\ ~sockErr
    /\ toClient # <<>> /\ m = Head(toClient)
    /\ pcount' = 0
    /\ toClient' = Tail(toClient)

\* decode_ndportd only prints; decode_gportd hands the port data over.
RecvData ==
    \E m \in NextDatagram :
        /\ Received(m)
        /\ m.type \in {"NDPORTD", "GPORTD"}
        /\ active' = TRUE
        /\ IF m.type = "GPORTD"
           THEN update_gportd(m.dom, m.port, m.as, m.oper, m.gm, m.path)
           ELSE UNCHANGED dispVars
        /\ UNCHANGED <<phase, sock, sockErr, switchMode, presses, dmnVars>>

\* decode_clockd: update_clockd (own clock id labels) and then
\* update_active_domain, which dereferences the domain box it looks up.
RecvClockd ==
    \E m \in NextDatagram :
        /\ Received(m)
        /\ m.type = "CLOCKD"
        /\ IF m.dom \in domBox
           THEN /\ update_active_domain(m.dom, m.active)
                /\ active' = TRUE /\ phase' = phase
           ELSE /\ phase' = "crashed"
                /\ UNCHANGED <<active, dispVars>>
        /\ UNCHANGED <<sock, sockErr, switchMode, presses, dmnVars>>

\* decode_notice for the flags that only change the display.
RecvPortNotice ==
    \E m \in NextDatagram :
        /\ Received(m)
        /\ m.type = "NOTICE"
        /\ m.flag \in {"NETDEV_DOWN", "AS_DOWN", "AS_UP"}
        /\ CASE m.flag = "NETDEV_DOWN" ->
                  update_gportd(-1, m.port, None, 0, None, None)
             [] m.flag = "AS_DOWN" ->
                  update_gportd(m.dom, m.port, 0, None, None, None)
             [] m.flag = "AS_UP" ->
                  update_gportd(m.dom, m.port, 1, None, None, None)
        /\ active' = TRUE
        /\ UNCHANGED <<phase, sock, sockErr, switchMode, presses, dmnVars>>

\* decode_notice for ACTIVE_DOMAIN: update_active_domain(domainNumber, True).
RecvActiveNotice ==
    \E m \in NextDatagram :
        /\ Received(m)
        /\ m.type = "NOTICE" /\ m.flag = "ACTIVE_DOMAIN"
        /\ IF m.dom \in domBox
           THEN /\ update_active_domain(m.dom, TRUE)
                /\ active' = TRUE /\ phase' = phase
           ELSE /\ phase' = "crashed"
                /\ UNCHANGED <<active, dispVars>>
        /\ UNCHANGED <<sock, sockErr, switchMode, presses, dmnVars>>

\* decode_notice for GM_CHANGE (request the clock info, then the domain's
\* port info) and NETDEV_UP (request the port info of every domain).
NoticeReqs(m) ==
    IF m.flag = "GM_CHANGE"
    THEN <<Req("CLOCK", -1), Req("GPORT", m.dom)>>
    ELSE <<Req("GPORT", -1)>>

RecvRequestNotice ==
    \E m \in NextDatagram :
        /\ Received(m)
        /\ m.type = "NOTICE" /\ m.flag \in {"GM_CHANGE", "NETDEV_UP"}
        /\ LET o == SendOut(sock, FALSE, NoticeReqs(m))
           IN  /\ Deliver(o.sent)
               /\ sockErr' = o.err
               /\ active' = o.ok
        /\ UNCHANGED <<phase, sock, switchMode, presses, dispVars, up, inc, known,
                       dAs, dOper, dGm, dActive, events>>

\* SingleMultiDomainSw.on_release: flip the mode and
\* send_active_domain_switch, whose sends are not guarded: no socket
\* (AttributeError) or a send error (socket.error) escapes to kivy.  The
\* background colours of update_active_domain_bg are not modelled.
SwitchRelease ==
    /\ CtlSw /\ phase = "run" /\ presses < MaxPresses
    /\ presses' = presses + 1
    /\ LET m == IF switchMode = -1 THEN 0 ELSE -1
           o == SendOut(sock, sockErr, <<Req("SWITCH", m), Req("CLOCK", -1)>>)
       IN  IF sock # None /\ o.ok
           THEN /\ switchMode' = m
                /\ Deliver(o.sent)
                /\ sockErr' = o.err
                /\ phase' = phase
           ELSE /\ phase' = "crashed"
                /\ UNCHANGED <<switchMode, toDaemon, sockErr>>
    /\ UNCHANGED <<sock, pcount, active, dispVars, toClient, up, inc, known,
                   dAs, dOper, dGm, dActive, events>>

\* stop() when the EventLoop ends: switch the shaper off and close.
stop ==
    /\ phase = "run"
    /\ LET o == SendOut(sock, sockErr, <<Req("TSN", 0)>>)
       IN  IF sock = None \/ o.ok
           THEN /\ phase' = "stopped"
                /\ Deliver(IF sock = None THEN <<>> ELSE o.sent)
           ELSE /\ phase' = "crashed"
                /\ UNCHANGED toDaemon
    /\ sock' = None /\ toClient' = <<>> /\ sockErr' = FALSE
    /\ UNCHANGED <<pcount, active, switchMode, presses, dispVars, up, inc, known,
                   dAs, dOper, dGm, dActive, events>>

Update ==
    \/ UpdateNoSock \/ UpdateIdle \/ UpdateRecvError
    \/ RecvData \/ RecvClockd \/ RecvPortNotice \/ RecvActiveNotice
    \/ RecvRequestNotice

Monitor == Build \/ Start \/ Update

Halted == phase \in {"stopped", "crashed"} /\ UNCHANGED vars

-----------------------------------------------------------------------------
(* The daemon.  It keeps the address of the client whose request it last *)
(* served and sends its replies and notices there.  A datagram reaches    *)
(* the monitor's socket only if that socket is open and, for AF_UNIX, is  *)
(* connected to this incarnation of the daemon.                           *)
Reaches == known /\ sock # None /\ (UnixMode => sock = inc)

\* The daemon does not wait for the monitor: a datagram for a full
\* receive queue is dropped.
Enqueue(q, ms) == q \o SubSeq(ms, 1, Min({Len(ms), QueueCap - Len(q)}))

DomSeq(dn) == IF dn = -1 THEN [i \in 1..NDomains |-> i - 1] ELSE <<dn>>
PortSeq == SetToSortSeq(Ports, LAMBDA x, y : x < y)

DPath(d, p) == IF dAs[d][p] = 1 /\ dOper[p] = 1 THEN <<dGm[d]>> ELSE <<>>
GportOf(d, p) == Gportd(d, p, dAs[d][p], dOper[p], dGm[d], DPath(d, p))

Replies(r) ==
    CASE r.cmd = "GPORT" ->
           FlattenSeq([i \in DOMAIN DomSeq(r.dom) |->
                         [j \in DOMAIN PortSeq |->
                            GportOf(DomSeq(r.dom)[i], PortSeq[j])]])
      [] r.cmd = "CLOCK" ->
           [i \in DOMAIN DomSeq(r.dom) |->
              Clockd(DomSeq(r.dom)[i], DomSeq(r.dom)[i] = dActive)]
      [] r.cmd = "NDPORT" -> <<Ndportd>>
      [] OTHER -> <<>>

DaemonServe ==
    /\ up /\ toDaemon # <<>>
    /\ toDaemon' = Tail(toDaemon)
    /\ known' = TRUE
    /\ toClient' = IF sock # None /\ (UnixMode => sock = inc)
                   THEN Enqueue(toClient, Replies(Head(toDaemon)))
                   ELSE toClient
    /\ UNCHANGED <<phase, sock, pcount, sockErr, active, switchMode, presses, dispVars,
                   up, inc, dAs, dOper, dGm, dActive, events>>

Notify(m) ==
    toClient' = IF Reaches THEN Enqueue(toClient, <<m>>) ELSE toClient

DaemonEvent ==
    /\ up /\ events < MaxEvents
    /\ events' = events + 1
    /\ \/ \E d \in Domains, p \in Ports :
            /\ dAs' = [dAs EXCEPT ![d][p] = 1 - @]
            /\ Notify(Notice(IF dAs[d][p] = 0 THEN "AS_UP" ELSE "AS_DOWN",
                             d, p))
            /\ UNCHANGED <<dOper, dGm, dActive>>
       \/ \E p \in Ports :
            /\ dOper' = [dOper EXCEPT ![p] = 1 - @]
            /\ Notify(Notice(IF dOper[p] = 0 THEN "NETDEV_UP"
                             ELSE "NETDEV_DOWN", -1, p))
            /\ UNCHANGED <<dAs, dGm, dActive>>
       \/ \E d \in Domains : \E c \in Clocks \ {dGm[d]} :
            /\ dGm' = [dGm EXCEPT ![d] = c]
            /\ Notify(Notice("GM_CHANGE", d, 0))
            /\ UNCHANGED <<dAs, dOper, dActive>>
       \/ \E d \in Domains \ {dActive} :
            /\ dActive' = d
            /\ Notify(Notice("ACTIVE_DOMAIN", d, 0))
            /\ UNCHANGED <<dAs, dOper, dGm>>
    /\ UNCHANGED <<phase, sock, pcount, sockErr, active, switchMode, presses, dispVars,
                   up, inc, known, toDaemon>>

DaemonStop ==
    /\ DaemonMayStop /\ up
    /\ up' = FALSE /\ toDaemon' = <<>>
    /\ UNCHANGED <<monVars, inc, known, dAs, dOper, dGm, dActive, events>>

DaemonStart ==
    /\ ~up /\ inc < MaxRestarts
    /\ up' = TRUE /\ inc' = inc + 1 /\ known' = FALSE
    /\ DaemonFresh(dAs', dOper', dGm', dActive')
    /\ UNCHANGED <<monVars, toDaemon, events>>

Daemon == DaemonServe \/ DaemonEvent \/ DaemonStop \/ DaemonStart

User == SwitchRelease \/ stop

Next == Monitor \/ User \/ Daemon \/ Halted

\* Kivy calls update() on every frame, and the daemon reads its socket.
Spec == Init /\ [][Next]_vars /\ WF_vars(Monitor) /\ WF_vars(DaemonServe)

-----------------------------------------------------------------------------
(* Properties.                                                            *)

\* update_info clears the GM path of a port whenever asCapable or portOper
\* drops to 0, so a port box never shows a path to a GM through a port
\* that is down, whatever order notices and GPORTD replies arrive in.
PathsOnlyWhenOperational ==
    \A d \in Domains, p \in Ports :
        pst[d][p].paths # <<>> => pst[d][p].as = 1 /\ pst[d][p].oper = 1

\* What the screen shows agrees with the daemon: the active screen, a box
\* for every domain and port, each port's asCapable and portOper, each
\* domain's GM and the active-domain label.
Consistent ==
    /\ active
    /\ domBox = Domains
    /\ \A d \in Domains :
         /\ portBox[d] = Ports
         /\ gmClock[d] = dGm[d]
         /\ labelActive[d] = (d = dActive)
         /\ \A p \in Ports : /\ pst[d][p].as = dAs[d][p]
                             /\ pst[d][p].oper = dOper[p]

\* Once the daemon stays up (and its state stops changing, which the bound
\* on events makes eventual), the reconnect counter, start() and the
\* notice handlers bring the screen to agree with the daemon for good,
\* unless the monitor has stopped or died.
EventuallyConsistent ==
    <>[]up => <>[](Consistent \/ phase \in {"stopped", "crashed"})

\* The reconnect logic of update() converges on the running daemon: once
\* the daemon stays up, the monitor ends up for good with an AF_UNIX
\* socket connected to the current incarnation (a send to the old one
\* fails, ipc_connect runs again, and a socket without a daemon is
\* retried every Period frames), unless it has stopped or died.
EventuallyConnected ==
    <>[]up => <>[](sock = inc \/ phase \in {"stopped", "crashed"})

\* The inactive screen does not stick: once the daemon stays up, a pending
\* ICMP error (a UDP send to a daemon that was down) is raised by recv and
\* cleared, the periodic NDPORT request reaches the running daemon, and
\* its reply makes update() call activate(True) for good, unless the
\* monitor has stopped or died.
EventuallyActive ==
    <>[]up => <>[](active \/ phase \in {"stopped", "crashed"})

\* No exception escapes update() or a button handler into the kivy loop.
NoUncaughtException == phase # "crashed"
=============================================================================
