# TLA+ models of the excelfore-gptp test harness

This directory holds TLA+ models of the Python code under `src/`. The main
subject is `src/abnormal_test.py`. It is a fault-injection harness for the
gptp2d daemon. It starts two daemons (gp0 = master, gp1 = slave). Over the
master's UDP IPC port it registers and later deregisters "abnormal events"
(skipped Sync, bad sequence numbers, ...) at set times, and it echoes the
daemons' console output until every fault's observation window has passed.

## 1. Inventory

### Components of `src/abnormal_test.py` (the core)

| Component | Code | State | Operations |
|---|---|---|---|
| Daemon Instance | `gptp2d_proc` | `proc` (Popen or None), `ipcsock` (socket or None), ports, config file name | `run` (Popen), `ipcsock_open` (socket + UDP connect), `ipcsock_close`, `close` (reopen socket!, terminate, wait), `create_config_file` |
| Event Timer | `test_procs.event_init`, `start_ipc`, `stop_ipc` | per eventconf dict: `mtindex`, `evtindex`, `startts`, `stopts`, `endts`, `state` 0/1/2 | init (selector lookup, timestamps), arm (REGISTER datagram, state 1), disarm (DEREGISTER, state 2) |
| Readiness Multiplexer | `test_procs.data_poll`, `event_monitor` | none across calls | poll the console, both stdouts, both IPC sockets (100 ms); -1 on any revents other than POLLIN; console input = abort; one `readline`/`recv` per ready source |
| Test Run Controller | `run_single_test`, `test_procs.testrun` | `endm`, `starttm` | spawn both, connect both (retry loop), init all timers, loop: poll; on idle poll evaluate every timer in list order and end once `time.time() > endts` for all; always `close()` both |
| Command Codec | `REQ_DATA_FMT`, `struct.pack` | none | pack 11 fields as `=iiiiiiifiii` |
| Scenario menu / CLI | `MenuItems`, `testMenu`, `get_runtime_options` | menu items | turn text options into eventconf dicts |

How they interact: a single thread, no callbacks. The controller calls the
instances and the multiplexer. On every idle poll it calls `start_ipc` and
`stop_ipc` for each eventconf, and these pack a command and send it on gp0's
socket. The daemons are outside the repository's Python: they print, they
exit, they bind their IPC port when they are ready, and the master applies
the datagrams it receives.

What makes it hard:
- Time is read with `time.time()` many times per loop pass (once in
  `start_ipc`, once in `stop_ipc`, once in the end check). The clock moves
  between these reads.
- Timers are only evaluated when a poll times out with nothing ready.
- UDP datagrams are sent without an acknowledgement, and a UDP `connect`
  succeeds even when the peer's port is not bound.
- Daemons can fail to start or crash at any point, and `close()` has to run
  on every exit path.

### Other sources (outside the core)

- `src/gptp2/gpmongui.py`: a kivy status monitor. Its state is the
  `ListenIpcSocket` IPC client (connect, a 300-update counter that drives
  periodic requests and reconnects, decode of notices) and the screen
  manager's domain and port boxes (asCapable, portOper, GM path). Modelled
  in `GpmonIpc.tla`; its `ReadGptpipcH.scan_enum` (which reads the enum
  values out of gptpipc.h) in `EnumScan.tla`.
- `src/sm_create.py`: a C state-machine generator. It reads `sm_list.txt`
  with `\` line continuation and converts CamelCase names (`gen_sm_name`,
  `mkvitems`), then writes each item's C: the state enum, the instance
  struct, the state functions and switch, and the init function.
  Modelled in `SmCreate.tla`.
- `src/gptp2/gptp2_gen_debug.py`, `src/xl4combase/tools/gen_c_debug_strings.py`:
  they scan a region between two marker lines and build a string table from
  enum items (`print_items` fills the gaps left by explicit enum values).
  Modelled in `EnumScan.tla`.
- `src/xl4unibase/ub_genconf.py`: it classifies `#define DEFAULT_x` values
  (string, bytes, int, int64, label) and writes C declarations, get/set
  functions and a values test. The generator is modelled in `UbGenconf.tla`
  and the configuration store its C code keeps in `ConfStore.tla`.
- `src/xl4combase/tools/vport_pcap_conv.py`: a scapy batch filter. It turns
  the UDP packets to the virtual ports of a capture into the Ethernet frames
  they carry. Modelled in `PcapConv.tla`.

These are build-time tools and a monitor; they do not interact with the
harness or with each other. `MC_Generators.tla` checks the generator
modules together only to keep them in one run.

### What makes each component correct

- Controller: both daemons are terminated on every exit path. The run ends
  only after every fault's `endts`. A normal end leaves no fault armed. The
  run terminates.
- Event Timer: REGISTER and then DEREGISTER at most once each, in that order,
  and never early. The master's hook table agrees with the harness's view.
  A valid eventconf is accepted.
- Daemon Instance: after `close()`, no process is running and no socket is
  open.
- Codec: the fields round-trip through the C struct, and out-of-range ints are rejected.
- Scenario menu / CLI: the menu runs exactly the scenarios picked and ends
  on '0'; every catalogued scenario passes `event_init`.
- State machine generator: the C written for a well-formed list item
  declares every field, parameter, enumerator and function once, and
  uses only what it declares.

## 2. Modules

### `AbnormalTest.tla` (core; done)

This module models `run_single_test` and `testrun`. It has one action per
handler. Every handler's early returns and exceptions are kept:

| Action | Code |
|---|---|
| `Run` | `gptp2d_proc.run`. A failed Popen raises AttributeError (`self.confsection` is undefined) |
| `Connect` | `while gpN.ipcsock_open()`. The UDP connect always succeeds |
| `EventInit` | `event_init`. An unknown selector gives "invalid event" and return. `duration == 0` raises NameError (`mtindex`) |
| `PollIdle`, `PollData` (`event_monitor`) | `data_poll` + `event_monitor`. Idle gives evaluation with `endm = True`. An unexpected revents gives -1. Console gives -1 (abort). Otherwise one read per source |
| `start_ipc`, `stop_ipc` (with `Send`) | time guard and state guard, then the send. In `start_ipc`, `struct.pack` raises struct.error first when the eventconf's integers do not fit an int32 (`conf[k].packs = FALSE`, see `Codec.tla`). The send raises if an ICMP error is pending. It is dropped (and leaves an error) if the master is dead or has not bound its port |
| `EndCheck` | `endm = endm and time.time() > endts`. After the last eventconf the loop ends when `endm` holds |
| `close` | `gptp2d_proc.close`: `ipcsock_open()` (sic), then terminate + wait |
| `Raise` | the `except` of `run_single_test`, which then runs both `close()` calls |

`pc`/`cur` is the controller's location and its loop index. `conf` holds the
eventconf values. `state` holds `eventconf['state']` (-1 = not yet set).
`now` is the clock, counted from `starttm` in half units of the offsets, so
that a read can fall strictly between two stamps. `evalTicks` is how far the
clock moved during the current evaluation.

The environment is modelled from the daemon's role in the spec, because the
daemon is not Python: `Tick`, `DaemonListen`, `DaemonCrash`, `DaemonPrint`,
`DaemonNotice`, `DaemonRecv` (the master's hook table `armed`, fed from the
FIFO `chan`) and `OperatorEnter`.

Fairness:
- `Spec` puts weak fairness on the harness (one thread that never blocks
  except in the bounded poll), on `Tick` (time passes) and on `DaemonRecv`
  (the daemon reads its socket).
- `QuietSpec` adds strong fairness on `PollIdle`. This is an assumption about
  the daemons, not something the code guarantees: their output pauses for a
  whole poll timeout infinitely often. The `starvation` configuration shows what
  happens without it.

`MC_AbnormalTest.tla` instantiates the model. `MCMaxTime` is the latest
possible `endts` plus a half unit, so that every configuration can reach its
normal end.

### `FaultTimer.tla` (abstract Event Timer) and the refinement

`FaultTimer.tla` states what spec 4.3 promises of one Event Timer, not
code. `initialize` fixes `armAt` and `disarmAt` and makes the timer
PENDING. `tick` moves PENDING to ACTIVE once `clock >= armAt`, and ACTIVE
to STOPPED once `clock >= disarmAt`. Nothing moves backwards, one timer
changes per step, and the clock only advances. It has no fairness: spec 4.3
lets a run end with a timer still PENDING.

`AbnormalTest` instantiates it as `Timer` with this refinement mapping:
- `phase` is `eventconf['state']`, where -1 (no key yet) is `unset`;
- `armAt` and `disarmAt` are `startts` and `stopts`;
- `clock` is `now`.
`FaultTimerRefined == Timer!Spec` is a PROPERTY of the exit_paths run. Every
harness step is an abstract step or a stutter: `EventInit` is `Initialize`,
a `start_ipc` send is `Arm`, a `stop_ipc` send is `Disarm`, `Tick` is
`Advance`, and everything else leaves the mapped state alone. That includes
the sends that raise, the struct.error of `start_ipc`, and the
exceptions. The property fails if a send is not guarded by both the time
test and the `state` test of its handler. The mutant `start_ipc_anystate`
drops the `state != 0` test, and a STOPPED fault is armed again by a later
evaluation.

### Runs

| Run | cfg | Expect | Checks |
|---|---|---|---|
| exit_paths | `MC_AbnormalTest.cfg` | pass | `TypeOK`, `CleanupOnEveryExit`, `FaultTimerRefined`, `RunTerminates` (QuietSpec) |
| timers | `MC_AbnormalTest_timers.cfg` | pass | `DisarmedAtNormalEnd`, `NoEarlyEnd`, `ArmedMatchesActive` |
| close_socket | `..._close_socket.cfg` | violation | `NoSocketLeftOpen` |
| endrun_zero | `..._endrun_zero.cfg` | violation | `DisarmedAtNormalEnd` with `endrun = 0` |
| listen_race | `..._listen_race.cfg` | violation | `ArmedMatchesActive` with `startrun = 0` and a daemon that binds its port late |

Two more configurations are kept beside these runs but are not among the
project's checked runs (their results are recorded as hazards):
`MC_AbnormalTest_duration_zero.cfg` finds `ValidSpecAccepted` violated with
`duration = 0`, and `MC_AbnormalTest_starvation.cfg` finds `RunTerminates`
violated under `Spec` without the idle-poll fairness.

**exit_paths** has one eventconf and every failure switched on: spawn
failure, daemon crash, operator abort, unknown selector, duration 0, an
integer that does not pack (`PackResults = {TRUE, FALSE}`), and a
late port bind. Every exit reaches `done` with both processes gone, and under
QuietSpec every behaviour gets there. On all these paths the harness
implements the abstract Event Timer (`FaultTimerRefined`, above).

**timers** has two eventconfs. Their offsets are 0 to 2 units and the end
offset is 1 unit. The clock may move by up to one offset unit
(`MaxEvalTicks = 2` half units) inside one evaluation, and the master may
crash. The run shows three things:
- The loop never ends before every `endts` has passed.
- A normal end leaves every fault STOPPED.
- Whenever the master is up, listening and has drained its socket, its hook
  table equals the set of ACTIVE eventconfs.

These bounds are enough for the interesting cases:
- Two eventconfs give evaluation order and a second send after a failed one.
- Offsets 0 and 1 give arming on the first evaluation and later.
- A one-unit end offset against a one-unit clock skew is exactly the boundary
  that the `endrun_zero` run crosses.

### Findings (violation runs and the two configurations above)

- `close()` calls `ipcsock_open()` instead of `ipcsock_close()`
  (abnormal_test.py:110). An open socket is left after the run. This is a
  code bug.
- The clock is read separately by `stop_ipc` and by the end check (lines 231
  and 261). With `-t 0` the loop can end between the two reads with the
  fault still registered. The spec evaluates against a single `now`.
- The UDP connect (line 119) succeeds before the daemon binds its port, so
  with `-a 0` the REGISTER can be lost while the harness marks it ACTIVE. The
  spec says connect is retried until the listener is up.
- `duration == 0` (the CLI default) raises NameError on `mtindex` (line
  205), so such a run never reaches the poll loop. This is a code bug that
  the spec notes.
- Timers run only on idle polls (line 256). Continuous daemon output means
  no fault is ever armed and the run never ends. This is a spec gap.

### `GpmonIpc.tla` (the gpmongui status monitor)

`src/gptp2/gpmongui.py` is a kivy application. `GpMonApp.build` creates the
screen manager and a `ListenIpcSocket`, and registers the socket object as
an input provider. The kivy `EventLoop` then calls its `start()` once, its
`update()` on every frame, and its `stop()` at the end, all on one thread.
So each method is one atomic step of the model. `MC_GpmonIpc.tla` gives
the clock identities as model values.

State (monitor): `phase` (build, start, run, stopped, crashed), `sock`
(None or the daemon incarnation the socket is connected to), `pcount`,
`sockErr` (a pending ICMP error on the UDP socket), `active` (the shown
screen), `switchMode`, and the display: `domBox`, `portBox`, `pst`
(`asCapable`, `portOper`, the GM path of each `GpmonPortdBox`), `gmClock`
and `labelActive` (a domain label coloured active). `toClient` is the
socket's receive queue.

| Action | Code |
|---|---|
| `Build` | `GpMonApp.build`, `ListenIpcSocket.__init__` and `ipc_connect` (an AF_UNIX connect fails while the daemon is down) |
| `Start` | `start()`: four requests and the shaper-off control; on `socket.error` the socket is closed |
| `UpdateNoSock` | `update()` without a socket: at the Period-th frame reconnect, then `start()` |
| `UpdateIdle` | `update()` with nothing to read: at the Period-th frame send NDPORT; if that send raises, `activate(False)` and `ipc_connect()` without `start()` |
| `UpdateRecvError` | `recv` raises the pending ICMP error: `activate(False)` |
| `RecvData`, `RecvClockd`, `RecvPortNotice`, `RecvActiveNotice`, `RecvRequestNotice` | `decode_rdata` and the `decode_*` handlers with the screen manager calls they make (`update_gportd`, `update_portd`, `update_info`, `update_active_domain`), then `activate(True)` or, on a send error, `activate(False)` |
| `SwitchRelease` | `SingleMultiDomainSw.on_release` and `send_active_domain_switch` (unguarded sends) |
| `stop` | `stop()` |

An exception other than `socket.error` leaves the kivy loop. The model
records it as `phase = "crashed"`.

The gptp2d daemon is C code that is not in this repository. It is modelled
from its role (`DaemonServe`, `DaemonEvent`, `DaemonStop`, `DaemonStart`).
It answers requests in order: GPORT with a GPORTD per domain and port, CLOCK
with a CLOCKD per domain, NDPORT with an NDPORTD. It sends a notice when a
port's asCapable or portOper, a domain's GM, or the active domain changes.
It replies to the address it last heard from. Two socket facts shape the
model:
- A new incarnation cannot reach an AF_UNIX socket still connected to the
  old one.
- A new UDP socket is unknown to the daemon until it sends.

Assumptions about the environment, which the code does not control:
- The daemon drops a datagram for a full queue rather than blocking
  (`Enqueue`).
- The monitor's own sends block when the daemon's queue is full
  (`Deliver`).
- With `DaemonTimely`, the daemon has read the queued requests before the
  next periodic request. Without it, the NDPORT requests pile up while the
  daemon is slow.

Bounds:
- `Period = 2` stands for the 300-frame counter. Only the equality test and
  the resets matter.
- `QueueCap = 10` is `net.unix.max_dgram_qlen`.
- Two domains exercise domain -1 fan-out, a second domain box and the
  active-domain label. One port keeps the start() reply burst (5 datagrams)
  plus notices within the queue. With two ports it overflows; that is listed
  as a hazard.
- `MaxEvents` (1 or 2 daemon state changes) and `MaxRestarts` bound the
  environment. With 2 events the AS_UP, GPORTD-with-path, AS_DOWN sequence
  is reachable.

Fairness: weak fairness on `Monitor` (kivy keeps calling `update()`) and on
`DaemonServe` (the daemon reads its socket). The user's button and `stop`
have no fairness.

| Run | cfg | Expect | Checks |
|---|---|---|---|
| gpmon_unix | `MC_GpmonIpc.cfg` | pass | `TypeOK`, `PathsOnlyWhenOperational`, `EventuallyConsistent` (daemon may start late, never stops) |
| gpmon_udp | `MC_GpmonIpc_udp.cfg` | pass | `EventuallyActive` (UDP, switch button, daemon restarts, one daemon state change) |
| gpmon_reconnect | `MC_GpmonIpc_reconnect.cfg` | pass | `EventuallyConnected` (AF_UNIX, daemon restarts) |
| gpmon_restart | `MC_GpmonIpc_restart.cfg` | violation | `EventuallyConsistent` with restarts |
| gpmon_crash | `MC_GpmonIpc_crash.cfg` | violation | `NoUncaughtException` |

`TypeOK` and `PathsOnlyWhenOperational` are checked once, in gpmon_unix.
`update_info` is the only writer of the paths. Neither the UDP transport
nor a daemon restart reaches it, so the other runs check other things:
- `EventuallyActive` (gpmon_udp): once the daemon stays up, the screen
  ends up active for good. A UDP send to a daemon that is down leaves an
  ICMP error. The next `recv` raises it and `update()` shows the inactive
  screen (`UpdateRecvError`). Only the periodic NDPORT request (line 262)
  makes the restarted daemon learn the new address and answer, which
  brings `activate(True)`. A mutant that never sends the request
  (`UpdateIdleNoProbe`) leaves the screen inactive for good.
- `EventuallyConnected` (gpmon_reconnect): see the finding below.

Findings:
- After a failed periodic send, `update()` reconnects but does not call
  `start()` (gpmongui.py:270). The no-socket branch does. After a daemon
  restart the monitor is connected again (`EventuallyConnected` holds), but
  nothing asks for the port and clock state. The boxes stay empty or stale
  for good (`EventuallyConsistent` fails).
- `update_active_domain` does not check `get_domaind`'s None
  (gpmongui.py:726). An ACTIVE_DOMAIN notice that arrives before the first
  GPORTD reply raises AttributeError out of `update()` (six steps from the
  start).
- `GpmonDomainBox.activeDomain` is never assigned after `__init__`, so the
  "no change" test of `update_active_domain` only ever returns for a false
  argument. The model keeps this as `ActiveDomainAttr`.

### The generators and tools: `EnumScan.tla`, `SmCreate.tla`, `UbGenconf.tla`, `ConfStore.tla`, `PcapConv.tla`, `Codec.tla`, `Scenario.tla`

These are build-time scripts with no concurrency: each is a function from an
input file to an output. Each module models that function as operators
(RECURSIVE where the code loops), and checks it against a reference
definition written independently of the loop, for every input of a bounded
set. A single variable holds the input and `Next` leaves it unchanged, so
the checks are invariants over the initial states. Text is abstracted to
what the code's comparisons and regular expressions see.

**`EnumScan.tla`** covers three scanners.
- `oneEnumItem` of `gptp2_gen_debug.py`: `Scan` is the `scanfile` loop, with
  the start mark (`enum`) restarting the collected lines and the end mark
  (the enum's name on a `}` line). `ItemOf`/`item_list` apply the two
  regular expressions. `PrintLoop`/`print_items` fill the gaps between
  explicit values. `GenTable` is the main program's array declaration.
- `oneItem` of `gen_c_debug_strings.py`: `oneItem_scanfile` and
  `oneItem_item_list`.
- `ReadGptpipcH.scan_enum` of `gpmongui.py`: `ScanEnum`, including its
  `break` at an unreadable line.

A header line is one of: an opening `typedef enum {`, a closing `} name;`,
an enumerator (name, initialiser in decimal, hex or absent, trailing comma
or not), a comment, a blank line, or an unrelated line. Files are a plain
line, then the target enum of up to `MaxBody = 3` body lines, alone or with
another enum of one line before or after it. The values are `{0, 1, 2}`.
This is enough for a gap, a repeated value, and a value lower than the next
index. The references are `Enumerators` and `ValueTable`, which give each
enumerator its C value.

**`SmCreate.tla`** covers `sm_create.py`.
- `read_sm_list`: `ReadLoop` (markers, `rstrip`) and `add_itemline`
  (`Continued` is the `rfind('\\') == len - 1` test, which an empty line
  also passes).
- `gen_sm_name`: `SmNameLoop`.
- `mkvitems`: `VLoop`, with the `gptpnet_data_t` and `MD` prefix cases.
- what `one_init` writes, kept as names rather than text:
  - `gvars` and `states` come from `__init__`;
  - `create_data_type` gives the struct fields;
  - `dec_init_function` and `IndexParams` give the init parameters;
  - `init_function` gives the `(*sm)->f = p` assignments, or the
    IndexError an empty name raises;
  - `debug_msg` gives the indices it logs;
  - `create_enum`, `state_procedures` and `static_functions` give the
    enumerators, the case labels and the function names.

  The struct and the init body test the flags with `find("D")` and
  `find("P")`. The parameters and `debug_msg` compare the flags whole with
  `"DP"`, `"D"` and `"P"`. `GeneratedSmCompiles` states that, for an item
  with distinct types and distinct new state names, every declaration is
  made once and every use is declared. The generators run draws items
  from these sets:
  - flags `DP`, `D`, `P` or another word;
  - one or two types from `gptpnet_data_t`, `MDA`, `Aa`, `Da`;
  - one or two states.

  Three inputs outside these sets make the property fail:
  - a type with no upper-case letter, which raises IndexError;
  - two types with the same initials, such as `Aa` and `Aaa`;
  - the flags `PD`, for which the struct and the init body use an index
    the parameters do not declare.

Lines are sequences over `x`, space and `\`. Lists have up to 3 lines of up
to 3 characters (132,000 files). This covers a continuation with and without
a space before it, blank lines inside a continuation, and a continuation
pending at `END`. Names are 2 or 3 CamelCase words over `A`/`B`, `a`/`b`,
optionally after the acronym `MD`. Type names are up to 3 letters over
`M`, `D`, `A`, `a`. The references are `Joined`/`Terminators` (the list text
without continuations), `SnakeCase` (word starts by letter case) and
`Initials`.

**`UbGenconf.tla`** covers `ub_genconf.py`.
- `ReadDefaults`/`DefaultHeader`: the `#define` loop, with `slen` never
  reset.
- `get_value`: the classification and the int32 range test.
- `print_default_defs` and `StrDecl`: the C declaration.
- `print_unittest_items`: the check that the generated `conf_values_test`
  makes of the declared value.

A `#define` line is abstracted to its value literal:
- a string with or without `max_length`;
- an unterminated string;
- a decimal or hex integer;
- a leading-zero decimal;
- bytes;
- a label.

Both the value Python's `int()` reads and the value the C compiler reads
(`CValue`) are modelled, and C's signed conversion is `Wrap` (`% 2^w`).
TLC's integers are 32-bit, so the widths are scaled. `IntW = 8` stands for
int32_t and `LongW = 16` for int64_t. The literals are exactly at the
edges: `2^7 - 1`, `2^7`, `-2^7`, `-2^7 - 1`, in decimal and hex. Headers
have up to 3 defines.

**`ConfStore.tla`** is the configuration store that the C code written by
`ub_genconf.py` keeps. It is the one stateful part here. It instantiates
UbGenconf for the `default_array` of a header (`Items`) and the declared
objects (`Default`).
- State:
  - `store[i]` is the `value_<name>` object of item `i`.
  - `ret` is what the last set call returned.
  - Two history variables record what the caller asked for: `written[i]`
    is the last value passed for item `i`, and `known` says whether the
    last call named an item.
- Actions:
  - `SetItem` is `conf_set_item` with an enumerator, or with
    `CONF_ENUM_LAST_ITEM`.
  - `SetStritem` is `conf_set_stritem` with a header line's name, a skipped
    line's name or an unknown name.
- Operators:
  - `print_enum` and `print_config_item_strings` are `CONF_ENUM_LAST_ITEM`
    and `config_item_strings`.
  - `conf_get_item_num` is the `strcmp` loop.
  - `conf_set_item` is the switch. Its default case returns -1.
  - `SetValue` has one case per kind: an int32, int64 or label assignment;
    C's `strncpy` with `sizeof-1` for a string; `memcpy` for bytes.
  - `conf_get_intitem`, `conf_get_lintitem` and `CString` are the reads. A
    string with no NUL is read past its end.
- Inputs: a caller passes a value of the item's type. The functions take a
  `void *` and trust the caller for it. Headers are at most 2 items from
  `StoreLits`: strings with arrays of 1 and 3 bytes, an int, an int64,
  bytes, a label, and an unterminated string that the generator skips.
  Set strings are up to 3 characters over `a`, so a string is longer than
  its array. The defaults are made of a different character.

**`PcapConv.tla`** covers `vport_pcap_conv.py`.
- `get_runtime_options`, `OptLoop` and `ParseRange` are the option loop:
  - getopt's refusal (exit 2) and `-h`;
  - the last `-i`, `-o` and `-r` win;
  - `(int(pr[0]), int(pr[len(pr)-1]))`, where an empty part raises
    ValueError.
- `ConvLoop` is the main loop: the UDP test, `InRange` (both bounds
  included), and the IndexError of a load shorter than an Ethernet header.
  That error aborts the program before `wrpcap`.
- `Decap` builds the frame. `MacText` gives the `%02x` digits of a MAC
  byte. The type is big-endian. The time is kept.
- `Main` is `__main__`.

A packet is a record whose load is a sequence of byte values. Ports 1 and 3
stand for the two default blocks, and 2 for the gap between them. Captures
are up to 2 packets. Loads are a gPTP frame, the same without payload, and
one byte short. The command lines are `-i` alone or with `-o`, `-r`
arguments of up to 2 pieces (a port, two ports, or `1-`), a second `-r`,
`-h`, and an unknown option.

The reference re-encodes a frame as scapy writes it: the bytes its MAC
texts spell, then the ethertype, then the payload. It selects the ports a
range argument names (`p`, or `p` to `q`).

**`Codec.tla`** covers the request encoding of `abnormal_test.py`, a pure
part of the core checked here with the generators.
- The `_const` tables (`msgsstrs`/`msgtints`, `evtsstrs`/`evttints`, the
  command and subcommand enums) and `msgtypeindex`/`evttypeindex`, which
  give -1 for an unknown name.
- `pack(fmt, vals)` is `struct.pack` for `REQ_DATA_FMT`: an `i` is the
  two's complement of the value, little-endian, and raises struct.error
  outside the signed range; the `f` is the IEEE single-precision bits.
- `start_ipc_args` and `stop_ipc_args` are the two calls' argument lists.
An `i` is 2 bytes here (16 bits stand for 32) so that the range edges are
small numbers. A probability is `n / 2^e`, a number a float holds exactly.
The reference reads the bytes back through `gptpipc_client_req_data_t` as
the docstring above `REQ_DATA_FMT` declares it: field offsets, signed
ints, and a float compared exactly with `n / 2^e`.
- `PackedRequestDecodes`: for every accepted eventconf (known names,
  probabilities 1.0, 0.5, 0.75 and 0.0, integers at both edges of the int
  range and one past each), the REGISTER datagram decodes to the command,
  the enums of the names given, and prob, repeat, interval and eventpara in
  their fields, unless one of the integers does not fit, in which case
  struct.error is raised. The DEREGISTER datagram always decodes. In the
  core the struct.error case is the `Raise` of `start_ipc`, which
  `CleanupOnEveryExit` covers.

**`Scenario.tla`** covers the front end of `abnormal_test.py`:
- `get_runtime_options` is a fold of `Apply` over the options getopt
  returns. getopt's refusal comes first, `-h` exits, `int()`/`float()`
  of bad text raises ValueError, and `RunField`/`EvField` say which key
  each option sets. An option is a record with its argument as a name or a
  number, or text the conversions refuse. The long options take the same
  branches and are not listed separately.
- `menuitems` is the `MenuItems` catalogue: the argument lists of all 16
  scenarios. Titles, state-machine lists and comments are only printed.
- `ReadLine` is one line read by `show_menu` together with `run_menu`'s
  reaction (`Answer`): EOF raises IndexError at `aline[0]`, `c` shows
  comments, a number below 17 answers `mn - 1`, and anything else is read
  past. `run_item` parses a scenario's lists. `run_single_test` is
  AbnormalTest, and here a run is the eventconf list it is given.
- `Main` is `__main__`: exit 2, the single run with `-b 0`, or the menu.
The stdin lines are a fixed sequence read through an index `pos`, ending
with EOF.
- `MenuFollowsOperator`: in menu mode the runs are exactly the scenarios
  whose numbers (1 to 16) were typed, in order, and the menu ends only
  after a `0`. Typed lines are up to 3 of 0, 1, 16, 17, -1, `c` and text.
  `-1` answers -2 (comments) and is harmless. A lower negative number ends
  the menu: `Scenario_negative.cfg` (with `MC_Scenario.tla`) finds this
  property violated by a typed `-3`, recorded as a hazard.
- `ScenariosPassEventInit`: every eventconf of each of the 16 catalogued
  scenarios, built by `run_item` from the defaults, has known selectors and a duration other than 0.0, so it never
  reaches the `mtindex` NameError that the command line's default
  duration does (a hazard of the core). The option-to-key table,
  the catalogue and `event_init`'s lookups (Codec's tables) meet here.

**`MC_Generators.tla`** instantiates the modules (EnumScan twice, UbGenconf
for the literal sets and for the checks) and checks all their properties in
one run. Each initial state holds one input of one generator or tool, and a
fixed input of the others. Only the store (the set calls) and the menu (the
lines read) take steps, each from its own initial states and in variables
of its own (`sheader`..., `sargv`...); the other initial states keep them
empty.

| Run | cfg | Expect | Checks |
|---|---|---|---|
| generators | `MC_Generators.cfg` | pass | `TableIndexedByValue`, `OneItemListsEnumerators`, `EnumsMatchHeader`, `ItemsAreLogicalLines`, `SmNameIsSnakeCase`, `MkvitemsAreInitials`, `GeneratedSmCompiles`, `ValuesTestPasses`, `SetFailsOnlyOnUnknown`, `ReadsBackLastSet`, `ConvertsRequestedPorts`, `PackedRequestDecodes`, `MenuFollowsOperator`, `ScenariosPassEventInit` (174,384 states) |
| genconf_stale | `UbGenconf_stale.cfg` | violation | `ValuesTestPasses` when an unannotated string follows an annotated one |

The store and converter properties:
- `ReadsBackLastSet`: after any sequence of set calls, by number or by
  name, every item reads back the last value passed for it. A string is cut
  to its array less one byte. It is still NUL-terminated over an earlier,
  longer value, because `strncpy` pads with NULs. Setting by name goes
  through `conf_get_item_num`, so an off-by-one in its loop shows here too.
  The call still returns 0 when it truncates; that is a hazard, not a
  finding.
- `SetFailsOnlyOnUnknown`: a set call returns -1 exactly when it names no
  item. Names the generator skipped count as unknown. The `item<0` test of
  `conf_set_stritem` never holds; only the default case of `conf_set_item`
  makes the call fail.
- `ConvertsRequestedPorts`: a run with `-i` and numeric ranges completes
  when every packet to a requested port carries an Ethernet header. The
  file written holds, in capture order and with their times, exactly one
  frame per UDP packet to a requested port, and each frame re-encodes to
  that packet's payload. A short packet aborts the whole run with nothing
  written. The model keeps that outcome, and it is listed as a hazard.

Finding:
- `slen` is set once before the loop of `DefaultHeader.__init__`
  (ub_genconf.py:34) and only assigned when a string carries `max_length`.
  So a later string without `max_length` is declared `char value_X[slen]`
  with the earlier size. Its default loses its terminating 0, and the
  generated `conf_values_test` `strcmp`s past the array.

The same properties fail on further inputs. These configurations are kept
for that, and are recorded as hazards rather than runs:
- `EnumScan_hex.cfg` (`TableIndexedByValue`): `([0-9]*)` reads `0x8` as 0
  (gptp2_gen_debug.py:31). The name lands at the wrong index, and the table
  is declared too small.
- `EnumScan_nocomma.cfg` (`EnumsMatchHeader`): a last enumerator without a
  comma makes `scan_enum` stop reading the file (gpmongui.py:915). Later
  lookups raise KeyError.
- `SmCreate_oneword.cfg` and `SmCreate_letter.cfg` (`SmNameIsSnakeCase`):
  - A one-word name gets a leading `_` (sm_create.py:118).
  - After a one-letter first word, `len(name) > 1` drops an underscore
    (line 112).
- `UbGenconf_octal.cfg` (`ValuesTestPasses`): `010` is declared 10, while C
  reads `DEFAULT_X` as 8 (ub_genconf.py:77).
- `UbGenconf_suffix.cfg` (`DeclaredTypeHoldsValue`): `5000000000LL` is a
  label and is declared `int32_t` (line 121). No passing run checks
  `DeclaredTypeHoldsValue`. On inputs without a suffix, `get_value`'s own
  range test picks the type, so there it holds by construction.

## 3. Not modelled, and why

- The echo of lines (`monios`, including the `'gp10pc'` typo that disables
  the master IPC echo) and all printing are output only.
- `create_config_file` is a text writer.
- Pipe contents are abstracted to "data ready". A partial line that blocks
  `readline` is listed as a hazard.
- terminate + wait is one step. The daemon's signal handling is not in this
  repository.
- gpmongui: colours, label text, `emphasize_gm`, `update_clockd` (own clock
  id labels) and `update_dc_diff` (spawns `gptpclock_monitor` and rewrites a
  label) change only what is drawn. `RestartExtSw` and the
  `TashpScreenManager` variant spawn external programs from a config file.
  `ReadGptpipcH.scan_flags` only evaluates `1<<enums[...]` over what
  `scan_enum` produced.
- sm_create: the layout of the builders' output is not modelled. This
  covers `replace_text`, which puts each builder's text in place of the
  template line holding its mark, and `header`. The main program's item
  selection and printing are not modelled either; they pick and print
  text.
- ub_genconf: the option parsing, the file heads and the header's
  prototypes are I/O and fixed text. A bytes value with a non-hex piece
  raises ValueError before any file is opened. The length of the buffer a
  caller passes for a bytes item is not represented (a hazard).
- gptp2_gen_debug/gen_c_debug_strings: the output formatting of the tables.
- vport_pcap_conv: `rdpcap`, `wrpcap` and the usage text are I/O. The
  packet layers scapy decodes are abstracted to a record per packet.

## 4. Plan for the next sittings

1. Larger instances of the core: three eventconfs, and a clock skew of
   more than one offset unit inside an evaluation.
2. Byte-level pipe contents, so that a partial line that blocks `readline`
   can be reached.
