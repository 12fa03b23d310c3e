# A TLA+ development of xvc-server-d2xx

xvc-server-d2xx lets Xilinx tools reach JTAG cables over TCP. A *manager* process
forks one *instance* process per FTDI cable. An instance listens on its own port,
speaks the XVC protocol with its client and turns every `shift` command into MPSSE
commands for the cable, sent with FTDI's D2XX library. This directory models the
server's own logic in TLA+, checks it with TLC on small instances and proves the main
invariants with TLAPS for every value of the constants.

Paths below are relative to the repository's root (`src/main.c` is `src/src/main.c`
in PROJECT.json).

## Inventory

| Component | State | Operations | Talks to |
|---|---|---|---|
| TCP server, `src/tcp_server.c` | `connections[]` (fd, state, addr), `connection_count`, `max_fd`, the `fd_set`s of one poll | `tcp_server_poll` (select, accept, client loop), `tcp_server_close_connection`, `tcp_server_stop` | the instance, through the callbacks `on_connect`, `on_data`, `on_disconnect` |
| Instance callbacks, `src/main.c` | `active_xvc_conn`, the client IP lock, `g_running` | `on_client_connect`, `on_client_data`, `on_client_disconnect`, `signal_handler`, the loop of `run_instance` | the XVC handler |
| XVC handler, `src/xvc_protocol.c` | `xvc_context_t`: socket, buffers, JTAG tracker, `seen_tlr` | `xvc_handle` with `xvc_init`, blocking `xvc_read_exact` and `xvc_write_exact` | the adapter |
| JTAG state machines | none (a table and a switch) | `jtag_next_state`, `next_state` | used by the handler and by the adapter |
| Scan engine, `src/mpsse_adapter.c` | command buffer, expected answers, observers, observer pool, believed TAP state | `mpsse_adapter_scan`, `mpsse_adapter_set_frequency`, and the buffer functions below them | the chip, over USB |
| Instance manager, `main` and `check_children` | `instances[].pid`, `g_running`, `g_reload` | spawn, reap and restart, reload, kill, wait | its children: signals, `waitpid` |
| Configuration, `src/config.c` | `g_config`: the instances, their ports, device ids, settings and lists; the section selected last | `config_load` line by line, `config_parse_device_id` | written by hand or by `xvc-discover`; read by `main` |
| Whitelist, `src/whitelist.c` | entries of addresses and masks, the mode | load, add, check | `run_instance` loads it, the TCP server asks for a verdict |
| Device manager and `xvc-discover` | the devices found on the bus | scan, make an instance of each, write the INI file | the configuration, through the file |
| FTDI wrapper, `src/ftdi_adapter.c` | an open device | open, `ftdi_adapter_set_period`; the rest passes calls on | handler above, scan engine below |
| Logging | a level and a file | print | nothing reads it back |

What is hard here:

* **Interleaving with the outside.** Every process is single threaded, but clients
  connect, send part of a command, send urgent data, and close at any point between two
  steps; signals arrive between a test of a flag and the action decided on it; children
  die while others are being reaped.
* **Stale snapshots.** `select`'s sets are used after `accept` and after other slots
  were closed; a new connection is told from an old one by its descriptor number;
  `active_xvc_conn` is a pointer into a table whose slots are reused.
* **Blocking reads and writes.** The handler reads whole commands with blocking reads,
  answers them with blocking writes, and stays in its loop until the TAP has been reset
  and is idle.
* **Two (three) ideas of one TAP state.** The handler's tracker, the adapter's state and
  the target's TAP move on different events and are reset at different times.
* **Buffers.** The scan engine cuts a bit vector at every change between Shift and
  other states, cuts the runs into odd bits, bytes and a last bit, and flushes whenever
  one of two buffers fills. A flush may fail in the middle, and the process may be
  killed there and be followed by another that takes the TAP for reset.
* **Bytes.** A command arrives in any pieces and several at once; the handler must know
  before each read how many bytes belong to it. Periods go through three roundings and a
  clamp on their way to the chip and back to the client.
* **One pass over a file.** A line's effect depends on the section before it and on what
  was read so far; instances are found by id, in any order and with gaps.
* **Competition.** Children open a device and a port exclusively. One that gets either of
  them not ends and is started again, while its predecessor may be just ending.

PROJECT.json lists each hazard at its line with the properties that cover it.

## Modules

| Module | Models | Checked by | Proved in |
|---|---|---|---|
| `JtagTap` | the two TAP tables, the TMS walk, the impact workaround's condition | through the modules that use it | `JtagTapProofs` |
| `XvcInstance` | one instance process: poll loop, callbacks, lock, XVC handler, with clients, clock and signals as environment; extends `JtagTap` | `instance_*`, `claim_session` | `XvcInstanceProofs` |
| `InstanceChild` | *abstract*: an instance process as its parent sees it | `instance_live` | `XvcInstanceProofs` |
| `TckPeriod` | period, frequency and divisor, with their truncations and clamps | through `XvcFraming` | `XvcFramingProofs` |
| `XvcFraming` | `xvc_handle` byte by byte; extends `TckPeriod` | `framing`, `claim_shift` | `XvcFramingProofs` |
| `XvcService` | *abstract*: requests answered in order until the connection ends | `framing` | `XvcFramingProofs` |
| `MpsseScan` | one cable's scan engine, its process and the chip; extends `JtagTap` | `scan_*`, `claim_scan` | `MpsseScanProofs`, `MpsseExactProofs` |
| `JtagScan` | *abstract*: a vector clocked once and TDO returned | `scan_exact` | `MpsseExactProofs` |
| `InstanceManager` | the manager and its children, each child seen from outside | `manager` | `InstanceManagerProofs` |
| `Deployment` | the manager with its children's start-up, the devices and ports they compete for; extends `InstanceManager` | `manager`, `claim_serves` | `DeploymentProofs` |
| `Config` | `config_load`, `config_parse_device_id` | through `Startup` | `StartupProofs` |
| `Discovery` | the survey of the bus and the file written from it; extends `Config` | through `Startup` | `StartupProofs` |
| `Whitelist` | entries, loading and the verdict | through `Startup` | `StartupProofs` |
| `Startup` | from a file to running instances; extends `Discovery` and `Whitelist` | `startup` | `StartupProofs` |

The modules named `MC...` give the constants their values.
Each module keeps the names of the functions and fields it translates; "map" in
PROJECT.json names the lines of every definition. Definitions marked *Mutant* are
plausible wrong versions of the definition after them. They are not part of any
specification; PROJECT.json pairs each with the property that notices it.

### How the modules fit together

Four refinements tie the models to each other, so that what one takes for granted another
shows:

* `XvcFraming` implements `XvcService` (`ImplementsService`). A command that is complete is
  answered as a whole, from its own bytes, and nothing of the next is touched. That is the
  step which `XvcInstance` takes for one command.
* `XvcInstance` implements `InstanceChild` (`ImplementsChild`), which is the child that
  `InstanceManager` assumes: it stops when told unless a client holds it in a read or a
  write, and may end at any time.
* `Deployment` implements `InstanceManager` (`ImplementsManager`, with fairness): giving the
  children a start-up and something to compete for adds no behaviour of the manager.
* `MpsseScan` implements `JtagScan` (`ImplementsScan`) while no transfer fails: the buffers,
  the cuts and the flushes cannot be told from one clocking of the vector, nor can a
  process killed between two of them from one killed between two clocks.

### XvcInstance

The table's fields are `fd`, `state`, `addr`, `connection_count` and `max_fd`;
`active`, `lock`, `xvc` and `mpsse_state` are the instance's context. `pc` and `idx` say
where the process is: `"poll"` before `select`, `"accept"`, `"scan"` in the client loop at
slot `idx`, `"read"` in `xvc_handle`, `"write"` when an answer does not go out at once, then
`"stopped"` or `"killed"`. One action is what
happens between two points at which the environment can make a difference:

* `Select` fills `read_fds` and `except_fds` from the sockets up to `max_fd`;
* `Accept`, `AcceptRefuse` (whitelist, or no free slot) and `AcceptFails` (no descriptor,
  or the client gone) are the branches of the accept part. `Accept` includes
  `on_client_connect`, whose answer the code ignores; it is recorded in the history
  variable `refused` and nowhere else;
* `ScanException`, `ScanData` and `ScanDone` are the client loop; `ScanData` includes
  `on_client_data` up to the handler's first read, and the failing allocation of
  `xvc_init` is `ScanDataNoMemory`;
* `ReadEof`, `HandleQuery`, `HandleInvalid`, `ShiftOversize`, `ShiftSkip`, `Shift` and
  `ShiftScanFails` are the ways one round of `xvc_handle`'s loop ends, a failing write
  included. A round that ends the connection runs `on_client_data`'s error path, then
  `tcp_server_close_connection` with `on_client_disconnect`, in that order;
* `WriteBlocks`: the client does not take its answer and `xvc_write_exact` waits. The command's
  effects are recorded by the action that ends the wait, since nothing else runs meanwhile;
* `Stop`, `SelectFails` and `Sigpipe` end the process.

A client's socket holds nothing, part of a command, or one whole command (`wire`), the
end of file (`eof`) and urgent data (`oob`). Data is abstracted to the command's kind
and, for `shift`, its TMS vector; TDI and TDO play no part in the instance's control.
`accept` returns the lowest free descriptor, as POSIX requires: the reuse of descriptor
numbers is what several properties are about. A command with a negative length, which ends the
process, is in `XvcFraming` only; for the instance's parent it is a child that dies.

### MpsseScan

A scan is in one of the states of `pc`: `"next"` looks for the next run
(`NextRun`), `"tms"` appends TMS commands, `"leading"`, `"whole"`, `"trailing"` and `"last"`
are the four parts of `append_tdi_shift`'s loop, `Finish` is the final flush. The
operations on the buffer (`mpsse_buffer_flush`, `mpsse_buffer_append`, ...) are operators
that yield the set of their outcomes, so that the early returns of the code are one
operator, `Then`. The chip is external: it executes commands in order, keeps the level of
TMS between commands, and queues one answer byte per byte, or per command of fewer bits.

Data is symbolic: TDI bit *k* is the number *k*, and the TDO bit sampled at the *n*-th
clock is the number *n*. A lost, repeated or misplaced bit is a wrong number. A USB
failure is a write of which nothing, some commands, or a torn command went out; a call of
the read loop that fails after some bytes; or a timeout, when the queue has been drained and
holds less than is waited for. What was read is lost, the rest arrives later. Observers that a
failed scan left point into the `result_buf` of that scan, which `on_client_data` frees when the
scan's connection ends. A copy to freed memory is modelled by its outcomes: the next
connection's buffer is that memory, or nobody reads it (both are tried by each scan), or the
process dies (`Killed`); the heap itself is not modelled. Left out is
`last_tdi`, the level of TDI during TMS commands: no register is in a Shift state then.

`mpsse_adapter_close` and `Killed` end the process, the one between scans, the other at any
point of a scan, with a part of the final flush sent too; `Reopen` is `mpsse_adapter_open` in the next one. The chip
and the target's TAP survive; `Reopened` empties the chip's queues as `FT_Purge` does, and
the adapter believes in Test-Logic-Reset. Failures are counted per process.

### XvcFraming

A connection is a stream of bytes. `pc` names the read the handler is at, `got` the bytes
of it that have come; `cmd_buf` and `vector_buf` are the code's buffers. The client sends
whole requests, several at a time if it likes, and the reads are served from the stream in
every division (`read` may return fewer bytes than wanted). TMS byte *k* of a vector is the
number *k* and TDI byte *k* is 64 + *k*. Fields are four bytes, least significant first, and
signed: `len + 7` wraps and the division by 8 truncates as in C, so a length of -14 to -1 makes
no bytes and a failing scan, and one below makes a negative size, which passes the size check
and ends the process in `memset` (`"crashed"`).
The frequency of the configuration is chosen once; where there is one, `settck`'s period is
replaced by it. When the transfer that sets the divisor fails, the chip keeps the one it had
and the period is echoed.

### Config, Discovery, Whitelist and Startup

A line is a record: a section header, a header without its bracket, a key with a value, or
nothing. A key is what `atoi` reads from it, whether it has a colon, and a name. A value is
a number, a word, a device id or an address with a prefix; what each reader makes of a value
of another kind is modelled (`Number` gives 0, `config_parse_device_id` the cleared id,
`Parses` is false). A frequency goes through `strtoul` into 32 bits and wraps. `ReadLine` is
one round of `config_load`'s loop. The lines that `xvc-discover` prints are read back without
what looks like a comment in them (`Reread`, with `stripped` as a constant): a serial number
that holds a `#` or a `;`, or has a blank at its end, comes back shorter. A file comes from `xvc-discover`, which surveys a bus,
or from a set of files with every section under its own header, a torn one or none. The
bus may then come up in another order. `main` applies its options, chooses what to run (every
enabled instance, or the single one in the foreground), and each instance loads its list and
chooses its device. A mask for a prefix of length 0 is a shift by the full width, undefined
in C: `zero_shift` is chosen from the masks that builds produce.

### Deployment

A child opens its device (`OpenDevice`), listens on its port (`Listen`) and only then looks
at `g_running`. It fails when another process has either, or, as a fault, without reason. A
child that ends releases both. Which device a child wants is `Wanted`: the one with its
serial number, or the first of the bus for `auto`.

### InstanceManager

`main` is at one of its loops (`pc`, `i`). A child is running, hanging (blocked in a read or a
write, see `Blocked` in `XvcInstance`), a zombie or gone, and has its own copy of `g_running`,
which it inherits at the fork. `Reap` is one round of `check_children`; the decision to
restart is taken there and `Restart` is a step of its own, because the code sleeps for a
second between the two and looks at no flag afterwards. SIGINT reaches the children as
well, as it does from a terminal; SIGTERM reaches the manager alone.

## Runs

| Run | Instance | Distinct states |
|---|---|---|
| `instance_pair` | 2 slots, 2 descriptors, 2 clients of different addresses, lock of 1 s, clock up to 1 s | 1.8 million |
| `instance_full` | 1 slot, 2 descriptors, 3 clients (one not whitelisted), no lock, 7 vectors | 1.3 million |
| `instance_live` | 2 slots, 2 clients, `FairSpec` | 114,000 |
| `framing` | up to 3 requests on one connection, 5 periods, 7 lengths around a limit of 2 bytes and around and below 0, with and without a configured frequency, one failing transfer | 585,000 |
| `scan_exact` | chip buffer of 4 bytes (so 12 and 8), faultless link, about 60 vectors of up to 52 bits, TAP agreed or elsewhere at the start, restarts | 25,000 |
| `scan_failures` | chip buffer of 2 bytes, one failure per process, pool of 10 allocations, restarts | 15,000 |
| `manager` | 3 instances, 2 enabled of which one has no board, 3 pids, three faults of the other, one failing fork, `DSpec` | 26,000 |
| `startup` | 3 instances, lists of 2 entries, addresses of 3 bits, 7 buses, about 24,000 files of up to 7 lines and those of `xvc-discover` | 2.8 million |

What they show:

* **`instance_pair`** - `FdConservation`: descriptors neither leak nor alias and `select`
  sees them all. `ActiveIsOpen`: the session pointer never names a closed or reused slot,
  through the four ways a connection can end. `LockBounded`: a lock never outlives its
  timeout. `HandlerServesItsSlot`: the handler, which keeps its own copy of the descriptor,
  reads from the slot it was called for. `SnapshotIsFresh`: although `accept` and closes
  happen after `select`, no slot that is still to be visited has a stale bit that would
  make the handler block. This rests on closed slots being skipped and on at most one
  accept per round, *before* the loop: a descriptor closed in the loop is not reused in it.
* **`instance_full`** - a full table and a blocked address. `SyncPreserved`: within a
  session tracker and adapter stay together, although the tables are two and the
  workaround withholds movements. `ResetResyncs`: five ones bring them together again.
* **`instance_live`** - `ImplementsChild`: seen from outside the process is an
  `InstanceChild`, so it stops when told unless a client holds it in a read or a write.
  `BacklogDrains`: waiting connections are taken. `CommandServed`: a complete command is
  answered, or its connection ends. Both make one exception: the process may spend the rest of
  its life in the handler of one connection, whose client stops in the middle or never leaves
  the loop of `xvc_handle`. One that holds it up for a while is no excuse.
* **`framing`** - `ImplementsService`, above, with its liveness: no complete request waits
  for ever. `TckTruthful`: the period a `settck` is answered with is the one the chip runs
  at, through the roundings down of period and frequency and the clamps of the divisor.
  `NeverLosesItsPlace`: the server ends a connection only for a vector whose length is not
  positive or too large, or after a failing transfer; data is never taken for a command.
* **`scan_exact`** - `ScanCorrect`: every bit clocked once, in order, read back to its
  place. `TapTracked`: adapter and TAP agree after every scan that started in agreement or
  clocked a reset. `NoSpuriousFailure`: the flush before an append always makes room.
  `AnswersAccounted`: the count of expected answers never drifts from what the buffered
  commands will answer, nor across a process that died with answers in the chip's queue,
  which is what the purge in `mpsse_adapter_open` is for. `ImplementsScan`, above.
* **`scan_failures`** - the buffer's bounds, and `ResetRecovers`: whatever a failed scan or
  a killed process left behind, five ones in a later successful scan bring adapter and TAP
  together. `ScanReturns`: no loop of a scan goes on for ever.
* **`manager`** - `PidTracksChild`: no kill or wait for a pid that was reaped.
  `StopReachesAll` and `NoOrphans`: a child forked just after the stop signal is stopped
  as well. `StopsOrHangs`: a stop request ends the manager unless clients keep a child
  hanging, for ever or again and again. `RestartsWhileForkWorks`: an instance that dies while
  another is being reaped or restarted is started again, also after a fork of the other has
  failed. `UndisputedServes`: an instance with a device and a port of its own comes to serve,
  and again after each crash, while another fails to start over and over, because a restart
  never meets a process of the same instance that still holds them. `ImplementsManager`.
* **`startup`** - `LoadsAsWritten`: reading line by line comes to the file read as a whole,
  the last line for a key winning. `EveryMappingRuns`: gaps and the order of ids do not
  matter, and ports are `base_port + id - 1` when `base_port` comes before the mappings or on
  the command line. `VerdictAsListed`: a list whose entries
  all parse gives the verdict of its two sets, in any order of lines. `StrictFailsClosed`:
  with bad entries, too many, or a wrong mask, strict mode still admits only what the file
  allows. `DiscoveredIsOpened`: a file written by `xvc-discover` gives each device that has a
  serial number, one that a line can hold, an instance of its own, on a reordered bus too.
  `BlocksInForce`: a block entry that parses, has room and stands behind none that does not
  parse keeps its network out, whatever follows it. The cases that the conditions of
  `EveryMappingRuns` and of the list properties leave out are listed under *Seen while modelling*.

### Bounds

Two slots and two descriptors are the least with which a slot and a descriptor can be
reused by another client while a second connection is open; one slot and three clients
fill the table. One second of clock and of lock timeout let a lock be set, be renewed
(when the clock has moved) and expire. `UrgentPeers` bounds which clients may
send urgent data, `MaxTime` the clock, `MaxFailures` and `MaxFaults` the failing transfers
and steps, `MaxForkFailures` the failing forks, `MaxRequests` the requests of a connection:
three are one answered, one being read and one behind it. `MAX_INSTANCES`,
`MAX_WHITELIST_ENTRIES` and `MAX_DEVICES` are 3, 2 and 2 for 32, 64 and 32, so that ids,
entries and devices beyond the limit occur; `AddrBits` is 3 for 32, which has prefixes of
every kind. `UINT_RANGE` is 2^30 for 2^32, which TLC's integers do not hold; a frequency of
-1 wraps in either. `Text` is the set of strings and `bus_location` the name that
`device_manager_scan` prints for a place on the bus. `Periods` has the default, the fastest, one between two divisors, and one beyond
the slowest. The scan engine's sizes are scaled: all thresholds
are computed from `chip_buffer_size` as in the code, and 4 bytes make every flush condition
true for some vector. TMS commands of six bits and the bits of a byte keep their size.

### Fairness

`XvcInstance!FairSpec` is weak fairness of the process's own steps while it is not blocked:
it is one thread that the kernel schedules. Nothing is assumed of clients, who may stop sending
a command or taking an answer at any point, nor of clock, signals, or errors of `select`. `InstanceManager!FairSpec` is weak fairness of the manager and of a child that has
been told to stop and is not blocked, and strong fairness of reaping each child:
`waitpid(-1)` looks through the children in a fixed order and none is passed over for ever.
A blocked child is not assumed to go on. `Deployment!DSpec` replaces the child's fairness by
weak fairness of each child's own steps, faults excluded. `XvcFraming!Spec` and
`MpsseScan!FairSpec` are weak fairness of the handler's and of the scan's steps: a single
thread whose transfers have timeouts. A client is never assumed to send the rest of a command.
`XvcFraming` does assume that a client takes its answers: its question is what is answered, and
an answer that is not taken blocks the process in `XvcInstance`.

### Claims the code does not keep

Each `claim_*` run states what the documentation or a comment says and lets TLC show a
behaviour of the code that does not keep it.

| Run, property | Claim | What the code does |
|---|---|---|
| `claim_session`, `SessionsApart` | main.c:209 "Set/refresh the IP lock when client disconnects"; xvc-server-multi.conf.example:88 "the instance remains locked to their IP" | `LockFollows`: when the session's client closes, `on_client_data` clears the session before `on_client_disconnect` looks at it, and no lock is set |
| | ARCHITECTURE.md:298 "The active session continues uninterrupted" | `ActiveContinues`: a failing command of another connection clears the session (main.c:189) |
| | README.md:660 "The new connection is rejected" | `RefusedIsNotServed`: `tcp_server_poll` ignores `on_connect`'s answer and serves the connection |
| | xvc_protocol.c:185 "Initialize on first call or when socket changes (new connection)" | `ContextIsNew`: after a close on an exception, which does not free the context, a connection with the same descriptor number inherits tracker and `seen_tlr` |
| | xvc_protocol.h:135 "0 on success, -1 on error" | an answer to a client that has gone raises SIGPIPE and ends the instance with all its connections |
| `claim_shift`, `LengthChecked` | xvc_protocol.c:285 "Check if we have enough buffer space" | a negative length passes, and `memset` gets a negative size: one command can end the instance |
| | xvc_protocol.c:253 'supports both "shift:" (v1.0) and "shifte:" (old protocol)' | the test at :265 looks at the byte before the `e`, so an old request is read one byte early |
| `claim_scan`, `SuccessReturnsTdo` | mpsse_adapter.h:60-62 "Output TDO data bytes", "0 on success" | a run of more whole bytes than `chip_buffer_size` (65536) has the last chunk's observer copy the run's total from the last chunk's answer |
| | the same | after a partial write the buffer is sent again in front of the next scan's; the extra answers stay in the queue and later scans return 0 with the TDO of the scan before |
| `claim_serves`, `EveryInstanceServes` | main.c:358 "Auto-restart if still running" | after a failing fork nothing tries again |
| | README.md:320-321 "4 = auto # Instance 4 auto-detects device", the same for 5 | every `auto` instance opens the first device of the bus (main.c:248), and all but one are restarted for ever |

A run covers the claims about one subject, and TLC stops at the first that it finds broken.
The others fail by themselves as well: each part of `SessionsApart` when it is the property
instead of the whole; the old form when `Lengths` has no negative number (`LengthChecked`
includes `NeverLosesItsPlace`); the stale answers when `Claimed` loses its vectors of two
chunks; the devices with `MaxForkFailures = 0`.

Seen while modelling, without a run of their own:

* A new connection's tracker starts in Test-Logic-Reset wherever the adapter is
  (xvc_protocol.c:128).
* A read or a write that waits for a client is restarted after SIGTERM, so the process does
  not stop before the client goes on or closes.
* README.md:343 gives the ports as "instance_port = base_port + instance_id - 1"; an instance
  mapped above the file's `base_port` keeps the default's port (config.c:186).
* README.md:374 promises a "Blocklist per instance"; a block entry behind an invalid one
  (whitelist.c:156), past the limit (config.c:266) or, depending on the build, with a prefix
  of 0 (whitelist.c:94) is not in force.
* SIGHUP is acknowledged and nothing is reloaded (main.c:518, a TODO). `max_restart_attempts`
  of the sample configuration is not read; `max_instances` and `instance_mgmt_enabled` are read
  and not used.
* README.md:532 shows a section `[ip_whitelist]`, which `parse_section` does not know: its
  lines have no effect and the list stays off.
* With the default frequency of 30 MHz `settck` changes nothing; README.md:627 has TCK
  controlled by the client. Device ids of the forms `BUS:` and `CUSTOM:` are opened as serial
  numbers.
* The observers that a failed scan leaves point to memory that `on_client_data` frees
  (mpsse_adapter.c:418).

## Proofs

`XvcInstanceProofs` proves, for every size of the table, set of descriptors, clients,
addresses and vectors, and every timeout:

* `TypeCorrect`, `FdsConserved`, `ActiveNeverDangles`, `LockIsBounded`, `HandlerServesSlot`:
  the invariants of `instance_pair`. The inductive invariant `IInv` is their conjunction
  with "accept is only tried while a client is queued". None is inductive alone: that the
  counter counts needs the distinctness of descriptors; that the handler's socket is its
  slot's needs that no other slot holds it; that a closed slot is not the active one needs
  the type of the table. The proof has one lemma per action and one for closing a
  connection, which six actions share.
* `SyncIsPreserved` and `ResetAlwaysResyncs`: the two action properties about the trackers,
  from `TablesAgree` and `ResetJoins` below.
* `InstanceIsChild`: every step of the instance is a step of `InstanceChild` or a stutter, the
  safety part of `ImplementsChild`. It needs no invariant: a signal changes nothing the
  status is computed from, no other step touches `g_running`, and an ended process stays ended.

Assumptions: the ones `XvcInstance` names, which give the constants their types.

`JtagTapProofs` proves what both of them rest on, for vectors of any length: the table of
`xvc_protocol.c` and the switch of `mpsse_adapter.c` are one function (`TablesAgree`); a walk
stays among the sixteen states (`WalkType`);
five ones lead from every state to Test-Logic-Reset (`FiveOnesReset`), so that walks along a
vector that holds them end together wherever they began (`ResetJoins`); the movements that the
workaround skips lead back to where they began (`BogusReturns`). An induction schema cannot be
instantiated by the provers; where one is needed, the proof takes the first place at which two
paths part, or up to which none exists, and refutes it (`FirstPlace`, from the well-foundedness
of the naturals).

`InstanceManagerProofs` proves `ManagerTypeCorrect`, `ManagerKnowsItsChildren`,
`EveryChildIsStopped` and `NoChildOutlives` for any number of instances and pids. The induction needs three more
facts: instances not yet reached by the spawn loop have no pid (`NoneYet`), children behind
the kill loop's index have been told (`KilledSoFar`), and those behind the wait loop's index
are gone (`WaitedSoFar`).

`DeploymentProofs` proves `DeploymentImplementsManager` (the safety part of
`ImplementsManager`: each step of a child is one that `InstanceManager` allows it, or leaves
the manager's variables alone) and, with it, `DeploymentIsSafe`: the manager's invariants hold
in the composed system for any bus, device ids and ports.

`SnapshotsAreFresh` (in `XvcInstanceProofs`) is the invariant about `select`'s sets, for any
number of slots. It needs two more facts: an open descriptor is one client's
(`OneConnectionEach`), and every slot from the loop's index on that has a bit set is still
the connection that the bit was set for and has something to read (`FreshAhead`). The only
accept of a round comes before the loop, and a slot that is closed in the loop is behind it.

`XvcFramingProofs` proves, for every sequence of requests, every division into reads, any
`max_vector_size` and any configured frequency: `FramingTypeCorrect`, `TckIsTruthful`,
`KeepsItsPlace`, and `HandlerImplementsService`, the safety part of `ImplementsService`.

* The inductive invariant (`BytesTracked`) says where in the stream the handler is. Each
  request has an offset, the sum of the lengths before it; the bytes taken so far are the
  offset of the current request plus what earlier reads of it and the current read took, and
  byte *j* of a request is at its offset plus *j*. From this follows what `cmd_buf` and
  `vector_buf` hold: always bytes of the current request, in place.
* Lengths and periods are any 32-bit numbers, negative ones included. `FramingTypeCorrect` has
  no hypothesis and an invariant of its own (`TypeInv`). The other three state one, `NewForm`:
  no client uses the old form of `shift`; with one the handler loses its place, which is what
  `claim_shift` shows.
* `PeriodIsTrue` is the arithmetic: the truncated period that is reported is within one
  percent of the chip's for each of the 65536 divisors.
* Proving found two `CASE` expressions, in `RightAnswers` and in `mpsse_buffer_append`, whose
  guards overlapped, so that what they meant depended on TLC taking the first. They are now
  disjoint.

`StartupProofs` proves the invariants of the `startup` run but `BlocksInForce`, for every file, every bus
and every order it comes up in later, any number of instances and any size of lists:
`ConfigTypeCorrect`, `FilesLoadAsWritten`, `MappedInstancesRun`,
`StrictListsFailClosed`, `VerdictsAsListed` and `DiscoveredDevicesOpen`.

* The properties speak of the file as a whole, the code reads it in one pass. The inductive
  invariant (`LinesTracked`) is the properties' reading of the lines *before the current one*:
  the section selected is the one the next line stands in; each instance is enabled, and has
  the device, frequency, timeout and list, that the lines read so far give it; the number of
  instances is the id of an enabled one; ports follow the formula if no `base_port` comes
  after a mapping. `ReadLine` preserves each part for a reason of its own, one lemma each,
  over one lemma (`ReadEffect`) on what a line may change.
* For `DiscoveredDevicesOpen`, `WrittenMaps` finds the sections of the file that `output_ini`
  writes and its one mapping for each instance, and `PlaceExists` and `ScanLists` show that
  the survey lists devices that are on the bus.
* For the lists, `SameBlock` shows that equality under a mask is membership in an interval,
  and `ListKept` what loading keeps of a list. With a prefix of length 0 and either mask an
  entry matches no more than its network.

Assumptions beside the types of the constants: `TextAssumption`, that the words the program
knows are strings; that the two names for the limit of a list are one number; and
`PowersAssumption`, that the powers of two up to the width of an address are positive, a fact
of arithmetic that the provers lack. TLC evaluates all of them.

`MpsseScanProofs` proves `ScanTypeCorrect`: for every size of the buffers and of the pool,
every set of vectors and any number of failing transfers the counts of command bytes, of
answers and of allocations stay within what was allocated. The induction needs to know the
commands that the buffer holds and the chip (`IType`): a command that clocks has at least one
bit, and the run being appended is not empty. What a sequence of commands does to the chip is
again the end of a run of steps, found by the first-place argument (`ExecutedIsRun`,
`ExecutedStep`).

`MpsseExactProofs` proves that a scan is exact while no transfer fails: `ScanIsExact`,
`TapIsTracked`, `ScanNeverFailsAlone` and `AnswersNeverDrift`, for every `chip_buffer_size`,
every set of vectors, every state of the target and any order of scans, settings of the
frequency, stops and kills.

* Two hypotheses are stated in the theorems. `ShortRuns`: no run in a Shift state has more
  whole bytes than one chunk takes; with a longer one the theorems are false, which is what
  `claim_scan` shows. A chunk takes 65536 bytes, so it holds for vectors of up to that
  size, the default of 2048 included. `PoolFits`: the pool has room for two allocations a
  bit. The pool has 16 MiB and a default vector has 16384 bits. TLC evaluates both on the
  instance of `scan_exact` (`MCMpsseExact`).
* It does not matter when the buffer is flushed: a chip *now*, with commands in the buffer and
  observers waiting, is compared with the chip and the TDO vector that they will come to
  (`Soon`). A flush leaves that future as it is (`FlushSoon`), an append adds one command to
  it (`AppendSilent`, `AppendHeard`), and two chips that differ in their queues alone stay so
  (`TwinStep`). An observer finds its bits whatever answers come before and behind its own
  (`ObserveMore`).
* The future chip is the one that has clocked `cur` bits of the vector, each in its turn, along
  the path from where it began, with TMS low when the adapter is in a Shift state (`Rides`);
  the future vector is right up to `cur` (`FilledTo`). That TMS stays low between scans is
  part of the invariant (`Ready`): a scan may begin in the Shift state in which the last
  ended, and its first command has no TMS level of its own.
* `IPlace` says where each part of `append_tdi_shift` starts; from it follows that the leading
  bits, the whole bytes, the trailing bits and the last bit add up to the run (`Parts`), so
  that the loop takes each part once and in order, and that the one chunk's answer goes to
  the bulk copier at its own place (`WholeMoves`).
* `IExact` bounds the pool as well: a bit takes no more than two allocations, and the bulk
  copier, allocated ahead, is the one more that the first two parts may owe.

`ScanImplementsAbstract` proves the safety part of `ImplementsScan` from the same two
hypotheses: a behaviour in which no transfer fails starts as `JtagScan` does, and each of its
steps is one of `JtagScan` or a stutter. The invariants above say where the chip will be when
the whole buffer has been sent; a process may also be killed when a part of it has. `IWay`
adds that the chip, stopped behind any of the buffered commands, is on the path of the vector
from where the scan began (`On`), which makes a kill a `JtagScan` kill after that many clocks.

`ResetAlwaysRecovers` proves `ResetRecovers`, with any number of failing transfers and from
`ShortRuns` alone: a longer run may leave out bits of the vector, ones among them, without
derailing the chip. Here nothing is known of the answers, or of what a failed scan has left in
the buffer and the chip.

* `IHeard` says of a scan under way that the chip, when all of the buffer has been sent, is
  derailed or has clocked the vector up to `cur` - but for some zeros at its beginning (`Led`).
  The exception is needed: a failed scan may leave TMS high at the chip and the adapter in a
  Shift state. The next scan's first bits then have no TMS level of their own; the adapter
  takes them for zeros, the chip clocks ones. They are zeros in the vector (`LedByPin`), so
  the five ones come behind them, and both ends of the walk meet (`LedHome`, `ResetJoins`).
* A chip that waits for data takes the first command for it and is derailed (`Derails`); no
  later command brings it back within the scan, and the property leaves it out.

Only model-checked: all liveness (fairness is out of the prover's reach), with it the second
half, the fairness, of each of the four refinements; and `BlocksInForce`.

## Not modelled

* `src/logging.c`, `device_manager_print`, the JSON and YAML forms of `xvc-discover`, scripts:
  output that no part of the program reads.
* Code without a caller: `device_manager_find`, `_assign` and `_release`, `config_save`,
  `ftdi_adapter_scan_chunked`, `ftdi_adapter_open_bus`, and `bit_copy.h`, which no file includes.
* Settings that are only passed on or logged: latency timer, aliases, `async`, `jtag_mode`.
* Statistics and profiling of the handler; socket options.
* The heap: `xvc_init` forgets the buffers of the connection before, without freeing them.
* D2XX and the chip, except as the external part of `MpsseScan`.

## Plan

1. *Done*: `JtagTap`, `XvcInstance`, `MpsseScan`, `InstanceManager`, their runs, and the
   proofs of the instance's and the manager's invariants.
2. *Done*: `XvcFraming` and `TckPeriod`; `Config`, `Discovery`, `Whitelist` and `Startup`;
   `Deployment`; process restarts in `MpsseScan`.
3. *Done*: the abstract specifications `XvcService`, `JtagScan` and `InstanceChild`, the four
   refinements, and the proofs of two of them.
4. *Done*: the proofs of `SnapshotIsFresh`, of `XvcFraming`'s invariants and the safety part
   of `ImplementsService`, of invariants of `Startup`, and of the facts about TMS walks
   with `ResetResyncs`; the bounds of `MpsseScan`'s buffers and pool.
5. *Done*: the exactness of scans, the safety part of `ImplementsScan` and `ResetRecovers`
   (`MpsseExactProofs`). Every invariant that a run is expected to keep is
   now proved, except `BlocksInForce`.
