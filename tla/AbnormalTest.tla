---------------------------- MODULE AbnormalTest ----------------------------
(***************************************************************************)
(* The fault-injection harness of src/abnormal_test.py: run_single_test    *)
(* with its two gptp2d_proc daemon instances, and test_procs.testrun with  *)
(* event_init, event_monitor/data_poll, start_ipc and stop_ipc.            *)
(*                                                                         *)
(* The clock 'now' counts from testrun's starttm in half units of the     *)
(* offsets, so that a time.time() can fall strictly between two stamps.   *)
(* Every time.time() of the code is a separate read of 'now', and the      *)
(* clock may advance between two reads (Tick).  The two daemons are the    *)
(* environment: they print, send notices, bind their IPC port, crash, and  *)
(* the master applies the REGISTER/DEREGISTER datagrams it receives.       *)
(***************************************************************************)
EXTENDS Integers, Sequences, FiniteSets

CONSTANTS
    NFaults,          \* length of the eventconfs list given to testrun
    StartRuns,        \* values of eventconf['startrun'] ('-a')
    Durations,        \* values of eventconf['duration'] ('-d', default 0.0)
    EndRuns,          \* values of eventconf['endrun'] ('-t')
    MaxTime,          \* bound on the clock
    MaxEvalTicks,     \* bound on clock advance inside one idle-tick evaluation
    SpawnMayFail,     \* subprocess.Popen of the daemon may raise
    DaemonMayCrash,   \* a daemon may exit while the harness runs
    ListenAtSpawn,    \* the daemon has bound its IPC port when Popen returns
    OperatorMayAbort, \* the operator may press Enter on the console
    PackResults       \* may struct.pack of start_ipc's request succeed / raise?

ASSUME NFaults \in Nat \ {0} /\ MaxTime \in Nat /\ MaxEvalTicks \in Nat

Faults == 1..NFaults
Gp == {0, 1}                  \* suffix_no of gp0 (master) and gp1 (slave)
Master == 0                   \* start_ipc/stop_ipc send on gp0.ipcsock only
NotSet == -1                  \* eventconf has no 'state' key yet
PENDING == 0
ACTIVE == 1
STOPPED == 2
REGISTER == "REGISTER"
DEREGISTER == "DEREGISTER"

\* known: msgtype and evttype are names _const knows; packs: repeat,
\* interval and eventpara fit an int32, so that struct.pack succeeds (Codec).
EventConf == [startrun : StartRuns, duration : Durations,
              endrun : EndRuns, known : BOOLEAN, packs : PackResults]

VARIABLES
    pc, cur,          \* controller location; daemon or eventconf index
    outcome,          \* how the run left testrun
    now, evalTicks,   \* clock; its advance since the last idle poll
    conf,             \* the eventconf dicts
    state,            \* eventconf['state']
    endm,             \* testrun's loop flag
    proc, ipcsock,    \* gptp2d_proc.proc and .ipcsock
    alive, listening, \* daemon process running; its IPC port bound
    armed,            \* faults registered in the master daemon
    chan,             \* datagrams in flight to the master's IPC port
    sockErr,          \* ICMP error pending on gp0.ipcsock
    hup, outReady, ipcReady, console

vars == <<pc, cur, outcome, now, evalTicks, conf, state, endm, proc, ipcsock,
          alive, listening, armed, chan, sockErr, hup, outReady, ipcReady,
          console>>
envVars == <<alive, listening, armed, chan, sockErr, hup, outReady,
             ipcReady, console>>

\* event_init: startts = starttm + startrun, stopts = startts + duration,
\* endts = stopts + endrun (the duration 0 branch never completes), in
\* half units of the clock.
StartTs(k) == 2 * conf[k].startrun
StopTs(k) == StartTs(k) + 2 * conf[k].duration
EndTs(k) == StopTs(k) + 2 * conf[k].endrun

TypeOK ==
    /\ pc \in {"run", "conn", "evinit", "poll", "start", "stop", "end",
               "close", "done"}
    /\ cur \in 0..NFaults
    /\ outcome \in {"none", "normal", "invalid", "abort", "pollerror",
                    "exception"}
    /\ now \in 0..MaxTime /\ evalTicks \in 0..MaxEvalTicks
    /\ conf \in [Faults -> EventConf]
    /\ state \in [Faults -> {NotSet, PENDING, ACTIVE, STOPPED}]
    /\ endm \in BOOLEAN
    /\ proc \in [Gp -> {"none", "running"}]
    /\ ipcsock \in [Gp -> {"none", "open"}]
    /\ alive \in [Gp -> BOOLEAN] /\ listening \in [Gp -> BOOLEAN]
    /\ armed \subseteq Faults
    /\ chan \in Seq(Faults \X {REGISTER, DEREGISTER})
    /\ sockErr \in BOOLEAN /\ console \in BOOLEAN
    /\ hup \in [Gp -> BOOLEAN] /\ outReady \in [Gp -> BOOLEAN]
    /\ ipcReady \in [Gp -> BOOLEAN]

Init ==
    /\ pc = "run" /\ cur = 0 /\ outcome = "none"
    /\ now = 0 /\ evalTicks = 0
    /\ conf \in [Faults -> EventConf]
    /\ state = [k \in Faults |-> NotSet]
    /\ endm = FALSE
    /\ proc = [i \in Gp |-> "none"] /\ ipcsock = [i \in Gp |-> "none"]
    /\ alive = [i \in Gp |-> FALSE] /\ listening = [i \in Gp |-> FALSE]
    /\ armed = {} /\ chan = <<>> /\ sockErr = FALSE
    /\ hup = [i \in Gp |-> FALSE] /\ outReady = [i \in Gp |-> FALSE]
    /\ ipcReady = [i \in Gp |-> FALSE] /\ console = FALSE

\* Mutant: the except clause returns without reaching the close() calls.
RaiseNoCleanup == pc' = "done" /\ cur' = 0 /\ outcome' = "exception"

\* An exception escapes testrun or the start-up in the try block: the
\* except clause prints it and run_single_test goes on to gp0.close().
Raise == pc' = "close" /\ cur' = 0 /\ outcome' = "exception"

Goto(loc, idx) == pc' = loc /\ cur' = idx

-----------------------------------------------------------------------------
(* run_single_test start-up                                                *)

\* gptp2d_proc.run: Popen of the daemon.  On failure the except clause
\* reads the undefined self.confsection, so an AttributeError escapes.
Run ==
    LET i == cur IN
    /\ pc = "run"
    /\ \/ /\ proc' = [proc EXCEPT ![i] = "running"]
          /\ alive' = [alive EXCEPT ![i] = TRUE]
          /\ listening' = [listening EXCEPT ![i] = ListenAtSpawn]
          /\ IF i = 0 THEN Goto("run", 1) ELSE Goto("conn", 0)
          /\ UNCHANGED outcome
       \/ /\ SpawnMayFail
          /\ Raise
          /\ UNCHANGED <<proc, alive, listening>>
    /\ UNCHANGED <<now, evalTicks, conf, state, endm, ipcsock, armed, chan,
                   sockErr, hup, outReady, ipcReady, console>>

\* gptp2d_proc.ipcsock_open: a new datagram socket connected to the
\* daemon's port.  A UDP connect on the loopback succeeds whether or not
\* the daemon has bound the port, so 'while gp.ipcsock_open()' never loops.
ipcsock_open(i) == ipcsock' = [ipcsock EXCEPT ![i] = "open"]

Connect ==
    LET i == cur IN
    /\ pc = "conn"
    /\ ipcsock_open(i)
    /\ IF i = 0 THEN Goto("conn", 1) ELSE Goto("evinit", 1)
    /\ UNCHANGED <<outcome, now, evalTicks, conf, state, endm, proc, envVars>>

-----------------------------------------------------------------------------
(* test_procs.testrun                                                      *)

\* event_init of eventconfs[cur].  An unknown msgtype or evttype returns
\* -1 and testrun returns after printing "invalid event".  With
\* duration 0.0 the derived stopts reads 'mtindex', a name not defined in
\* event_init's scope: a NameError escapes testrun.
EventInit ==
    LET k == cur IN
    /\ pc = "evinit"
    /\ \/ /\ ~conf[k].known
          /\ Goto("close", 0) /\ outcome' = "invalid"
          /\ UNCHANGED state
       \/ /\ conf[k].known /\ conf[k].duration = 0
          /\ Raise
          /\ UNCHANGED state
       \/ /\ conf[k].known /\ conf[k].duration # 0
          /\ state' = [state EXCEPT ![k] = PENDING]
          /\ IF k = NFaults THEN Goto("poll", 0) ELSE Goto("evinit", k + 1)
          /\ UNCHANGED outcome
    /\ UNCHANGED <<now, evalTicks, conf, endm, proc, ipcsock, envVars>>

\* data_poll: the sources registered with POLLIN, and whether one of them
\* reports a revents other than plain POLLIN (a daemon's stdout at EOF,
\* or an ICMP error pending on gp0.ipcsock).
StdoutReady(i) == outReady[i] \/ hup[i]
IpcReady(i) == ipcReady[i] \/ (i = Master /\ sockErr)
AnyReady == console \/ \E i \in Gp : StdoutReady(i) \/ IpcReady(i)
Unexpected == sockErr \/ \E i \in Gp : hup[i]

\* Mutant: endm = True hoisted out of the while loop.
PollIdleNoReset ==
    /\ pc = "poll"
    /\ ~AnyReady
    /\ Goto("start", 1) /\ evalTicks' = 0
    /\ UNCHANGED <<outcome, now, conf, state, endm, proc, ipcsock, envVars>>

\* Nothing ready within 100 ms: event_monitor returns 1 and testrun
\* evaluates every eventconf, starting with endm = True.
PollIdle ==
    /\ pc = "poll"
    /\ ~AnyReady
    /\ Goto("start", 1) /\ endm' = TRUE /\ evalTicks' = 0
    /\ UNCHANGED <<outcome, now, conf, state, proc, ipcsock, envVars>>

\* Something ready: data_poll returns -1 on an unexpected event; otherwise
\* event_monitor reads the sources in kids order, the console first
\* (returns -1), then one readline per stdout and one recv per socket.
PollData ==
    /\ pc = "poll"
    /\ AnyReady
    /\ \/ /\ Unexpected
          /\ Goto("close", 0) /\ outcome' = "pollerror"
          /\ UNCHANGED <<console, outReady, ipcReady>>
       \/ /\ ~Unexpected /\ console
          /\ console' = FALSE
          /\ Goto("close", 0) /\ outcome' = "abort"
          /\ UNCHANGED <<outReady, ipcReady>>
       \/ /\ ~Unexpected /\ ~console
          /\ outReady' = [i \in Gp |-> FALSE]
          /\ ipcReady' = [i \in Gp |-> FALSE]
          /\ UNCHANGED <<pc, cur, outcome, console>>
    /\ UNCHANGED <<now, evalTicks, conf, state, endm, proc, ipcsock,
                   alive, listening, armed, chan, sockErr, hup>>

event_monitor == PollIdle \/ PollData

\* self.gp0.ipcsock.send(sd) followed by eventconf['state'] = st.  A send
\* raises when an ICMP error is pending; a datagram to a port nobody has
\* bound is dropped and leaves such an error behind.
Send(k, cmd, st, next) ==
    IF sockErr
    THEN Raise /\ UNCHANGED <<state, chan, sockErr>>
    ELSE /\ state' = [state EXCEPT ![k] = st]
         /\ Goto(next, k) /\ UNCHANGED outcome
         /\ IF alive[Master] /\ listening[Master]
            THEN chan' = Append(chan, <<k, cmd>>) /\ UNCHANGED sockErr
            ELSE sockErr' = TRUE /\ UNCHANGED chan

\* Mutant: start_ipc without its eventconf['state'] != 0 test.
start_ipc_anystate ==
    LET k == cur IN
    /\ pc = "start"
    /\ IF now < StartTs(k)
       THEN Goto("stop", k) /\ UNCHANGED <<outcome, state, chan, sockErr>>
       ELSE IF ~conf[k].packs THEN Raise /\ UNCHANGED <<state, chan, sockErr>>
       ELSE Send(k, REGISTER, ACTIVE, "stop")
    /\ UNCHANGED <<now, evalTicks, conf, endm, proc, ipcsock, alive,
                   listening, armed, hup, outReady, ipcReady, console>>

\* start_ipc: arm the fault once time.time() >= startts.  struct.pack
\* raises struct.error before the send when a command-line integer does
\* not fit an int32.
start_ipc ==
    LET k == cur IN
    /\ pc = "start"
    /\ IF now < StartTs(k) \/ state[k] # PENDING
       THEN Goto("stop", k) /\ UNCHANGED <<outcome, state, chan, sockErr>>
       ELSE IF ~conf[k].packs THEN Raise /\ UNCHANGED <<state, chan, sockErr>>
       ELSE Send(k, REGISTER, ACTIVE, "stop")
    /\ UNCHANGED <<now, evalTicks, conf, endm, proc, ipcsock, alive,
                   listening, armed, hup, outReady, ipcReady, console>>

\* Mutant: stop_ipc compares with eventconf['endts'] instead of 'stopts'.
stop_ipc_endts ==
    LET k == cur IN
    /\ pc = "stop"
    /\ IF now < EndTs(k) \/ state[k] # ACTIVE
       THEN Goto("end", k) /\ UNCHANGED <<outcome, state, chan, sockErr>>
       ELSE Send(k, DEREGISTER, STOPPED, "end")
    /\ UNCHANGED <<now, evalTicks, conf, endm, proc, ipcsock, alive,
                   listening, armed, hup, outReady, ipcReady, console>>

\* Mutant: stop_ipc packs _const.enums['REGISTER'] (copied from start_ipc).
stop_ipc_register ==
    LET k == cur IN
    /\ pc = "stop"
    /\ IF now < StopTs(k) \/ state[k] # ACTIVE
       THEN Goto("end", k) /\ UNCHANGED <<outcome, state, chan, sockErr>>
       ELSE Send(k, REGISTER, STOPPED, "end")
    /\ UNCHANGED <<now, evalTicks, conf, endm, proc, ipcsock, alive,
                   listening, armed, hup, outReady, ipcReady, console>>

\* stop_ipc: disarm it once time.time() >= stopts.
stop_ipc ==
    LET k == cur IN
    /\ pc = "stop"
    /\ IF now < StopTs(k) \/ state[k] # ACTIVE
       THEN Goto("end", k) /\ UNCHANGED <<outcome, state, chan, sockErr>>
       ELSE Send(k, DEREGISTER, STOPPED, "end")
    /\ UNCHANGED <<now, evalTicks, conf, endm, proc, ipcsock, alive,
                   listening, armed, hup, outReady, ipcReady, console>>

\* Mutant: time.time() >= endts ends the loop.
EndCheckGeq ==
    LET k == cur
        e == endm /\ now >= EndTs(k)
    IN
    /\ pc = "end"
    /\ endm' = e
    /\ IF k < NFaults THEN Goto("start", k + 1) /\ UNCHANGED outcome
       ELSE IF e THEN Goto("close", 0) /\ outcome' = "normal"
       ELSE Goto("poll", 0) /\ UNCHANGED outcome
    /\ UNCHANGED <<now, evalTicks, conf, state, proc, ipcsock, envVars>>

\* Mutant: the per-eventconf loop runs one index past the list.
EndCheckPastEnd ==
    LET k == cur
        e == endm /\ now > EndTs(k)
    IN
    /\ pc = "end"
    /\ endm' = e
    /\ IF k <= NFaults THEN Goto("start", k + 1) /\ UNCHANGED outcome
       ELSE IF e THEN Goto("close", 0) /\ outcome' = "normal"
       ELSE Goto("poll", 0) /\ UNCHANGED outcome
    /\ UNCHANGED <<now, evalTicks, conf, state, proc, ipcsock, envVars>>

\* endm = endm and (time.time() > endts); after the last eventconf the
\* while loop ends when endm holds.
EndCheck ==
    LET k == cur
        e == endm /\ now > EndTs(k)
    IN
    /\ pc = "end"
    /\ endm' = e
    /\ IF k < NFaults THEN Goto("start", k + 1) /\ UNCHANGED outcome
       ELSE IF e THEN Goto("close", 0) /\ outcome' = "normal"
       ELSE Goto("poll", 0) /\ UNCHANGED outcome
    /\ UNCHANGED <<now, evalTicks, conf, state, proc, ipcsock, envVars>>

-----------------------------------------------------------------------------
(* run_single_test clean-up: gp0.close() then gp1.close()                  *)

\* gptp2d_proc.close: calls ipcsock_open (not ipcsock_close), then
\* terminates and waits for the process if there is one.
close ==
    LET i == cur IN
    /\ pc = "close"
    /\ ipcsock_open(i)
    /\ IF proc[i] = "running"
       THEN /\ proc' = [proc EXCEPT ![i] = "none"]
            /\ alive' = [alive EXCEPT ![i] = FALSE]
            /\ listening' = [listening EXCEPT ![i] = FALSE]
            /\ IF i = Master THEN armed' = {} /\ chan' = <<>>
                             ELSE UNCHANGED <<armed, chan>>
       ELSE UNCHANGED <<proc, alive, listening, armed, chan>>
    /\ IF i = 0 THEN Goto("close", 1) ELSE Goto("done", 0)
    /\ UNCHANGED <<outcome, now, evalTicks, conf, state, endm, sockErr, hup,
                   outReady, ipcReady, console>>

Harness ==
    Run \/ Connect \/ EventInit \/ event_monitor \/ start_ipc \/ stop_ipc
    \/ EndCheck \/ close

Terminated == pc = "done" /\ UNCHANGED vars

-----------------------------------------------------------------------------
(* Environment: the clock, the daemons and the operator                    *)

InEval == pc \in {"start", "stop", "end"}

Tick ==
    /\ pc \notin {"run", "conn", "done"}
    /\ now < MaxTime
    /\ InEval => evalTicks < MaxEvalTicks
    /\ now' = now + 1
    /\ evalTicks' = IF InEval THEN evalTicks + 1 ELSE evalTicks
    /\ UNCHANGED <<pc, cur, outcome, conf, state, endm, proc, ipcsock,
                   envVars>>

DaemonListen(i) ==
    /\ alive[i] /\ ~listening[i]
    /\ listening' = [listening EXCEPT ![i] = TRUE]
    /\ UNCHANGED <<pc, cur, outcome, now, evalTicks, conf, state, endm, proc,
                   ipcsock, alive, armed, chan, sockErr, hup, outReady,
                   ipcReady, console>>

DaemonCrash(i) ==
    /\ DaemonMayCrash /\ alive[i]
    /\ alive' = [alive EXCEPT ![i] = FALSE]
    /\ listening' = [listening EXCEPT ![i] = FALSE]
    /\ hup' = [hup EXCEPT ![i] = TRUE]
    /\ IF i = Master THEN armed' = {} /\ chan' = <<>>
                     ELSE UNCHANGED <<armed, chan>>
    /\ UNCHANGED <<pc, cur, outcome, now, evalTicks, conf, state, endm, proc,
                   ipcsock, sockErr, outReady, ipcReady, console>>

DaemonPrint(i) ==
    /\ alive[i] /\ ~outReady[i]
    /\ outReady' = [outReady EXCEPT ![i] = TRUE]
    /\ UNCHANGED <<pc, cur, outcome, now, evalTicks, conf, state, endm, proc,
                   ipcsock, alive, listening, armed, chan, sockErr, hup,
                   ipcReady, console>>

DaemonNotice(i) ==
    /\ alive[i] /\ listening[i] /\ ~ipcReady[i]
    /\ ipcReady' = [ipcReady EXCEPT ![i] = TRUE]
    /\ UNCHANGED <<pc, cur, outcome, now, evalTicks, conf, state, endm, proc,
                   ipcsock, alive, listening, armed, chan, sockErr, hup,
                   outReady, console>>

\* The master's abnormal-event hook table: REGISTER adds, DEREGISTER
\* removes the fault.
DaemonRecv ==
    /\ alive[Master] /\ listening[Master] /\ chan # <<>>
    /\ LET m == Head(chan) IN
       armed' = IF m[2] = REGISTER THEN armed \cup {m[1]} ELSE armed \ {m[1]}
    /\ chan' = Tail(chan)
    /\ UNCHANGED <<pc, cur, outcome, now, evalTicks, conf, state, endm, proc,
                   ipcsock, alive, listening, sockErr, hup, outReady,
                   ipcReady, console>>

OperatorEnter ==
    /\ OperatorMayAbort /\ ~console /\ pc \notin {"close", "done"}
    /\ console' = TRUE
    /\ UNCHANGED <<pc, cur, outcome, now, evalTicks, conf, state, endm, proc,
                   ipcsock, alive, listening, armed, chan, sockErr, hup,
                   outReady, ipcReady>>

Environment ==
    \/ Tick \/ DaemonRecv \/ OperatorEnter
    \/ \E i \in Gp : DaemonListen(i) \/ DaemonCrash(i) \/ DaemonPrint(i)
                     \/ DaemonNotice(i)

Next == Harness \/ Environment \/ Terminated

\* One control thread always runs; time passes; the daemon reads its socket.
Spec == Init /\ [][Next]_vars
        /\ WF_vars(Harness) /\ WF_vars(Tick) /\ WF_vars(DaemonRecv)

\* In addition: the daemons' output pauses for a whole poll timeout
\* infinitely often.
QuietSpec == Spec /\ SF_vars(PollIdle)

-----------------------------------------------------------------------------
(* Properties                                                              *)

\* run_single_test closes both instances on every exit path (normal end,
\* invalid event, abort, poll error, any exception): when it returns, no
\* daemon process is left running.
CleanupOnEveryExit ==
    pc = "done" => \A i \in Gp : proc[i] = "none" /\ ~alive[i]

\* Spec 4.2: close() closes the IPC socket if open.  When the run is over
\* neither instance holds an open socket.
NoSocketLeftOpen ==
    pc = "done" => \A i \in Gp : ipcsock[i] = "none"

\* A run that ends because every endts has passed has disarmed every fault
\* it armed: no eventconf is left ACTIVE (or PENDING) at the normal end.
DisarmedAtNormalEnd ==
    outcome = "normal" => \A k \in Faults : state[k] = STOPPED

\* Spec 8: the run never ends normally while time <= endts of some fault.
NoEarlyEnd ==
    outcome = "normal" => \A k \in Faults : now > EndTs(k)

\* Whenever the master daemon is up, listening and has consumed every
\* datagram, its set of registered faults is exactly the set the harness
\* believes ACTIVE.
ArmedMatchesActive ==
    (alive[Master] /\ listening[Master] /\ chan = <<>>)
        => armed = {k \in Faults : state[k] = ACTIVE}

\* Spec 4.3/8: an eventconf whose selectors are known is accepted by
\* event_init; the run leaves initialisation only into the poll loop.
ValidSpecAccepted ==
    [][pc = "evinit" /\ conf[cur].known => pc' \in {"evinit", "poll"}]_vars

\* The refinement mapping: eventconf['state'] is the lifecycle, startts
\* and stopts the arm and disarm times, time.time() the clock.
Phase(st) == CASE st = NotSet -> "unset" [] st = PENDING -> "pending"
               [] st = ACTIVE -> "active" [] st = STOPPED -> "stopped"
Timer == INSTANCE FaultTimer WITH
    phase <- [k \in Faults |-> Phase(state[k])],
    armAt <- [k \in Faults |-> StartTs(k)],
    disarmAt <- [k \in Faults |-> StopTs(k)],
    clock <- now

\* Spec 4.3: event_init, start_ipc and stop_ipc together implement the
\* Event Timer: every eventconf is initialised once, armed only once
\* time.time() >= startts and while PENDING, disarmed only once
\* time.time() >= stopts and while ACTIVE, never moved back.
FaultTimerRefined == Timer!Spec

\* Every run of the harness eventually returns from run_single_test.
RunTerminates == <>(pc = "done")

=============================================================================
