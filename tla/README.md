# Becky in TLA+

Becky runs *effects* (virtual machines, containers, commands, Rust functions)
behind one interface, `FxControl` (`becky-engine/src/control.rs`): allocate,
bootstrap, start, status, stop, destroy, archive. Each provider is a crate.
These modules model the parts of it that run concurrently, outlive a process,
or keep what a user would miss.

Paths are relative to the repository. A line number in a comment of a module
refers to the file its definition is mapped to in `PROJECT.json`.

## Inventory

| component | state it keeps | operations | what is hard | what makes it correct |
|---|---|---|---|---|
| QEMU worker, reader, tickers (`becky-fx-qemu/src/manager.rs` 430-713, `comm.rs`, `handle.rs`) | four bounded channels, the RwLock of the running instance, the tasks themselves | select loop, polls, forwarding of events, cancel and join | tasks that wait for each other's channels; replies behind events; shutdown while everything is busy | events reach the metadata once and in order; a returned worker leaves no task; no call hangs |
| QEMU manager (`manager.rs` 82-427) | `vms`, `vmctl`, the internal channel, the metadata | create, run_watchers, discovery, stop, shutdown, drain | several awaits in a call, partial failure, restart of the engine | stopped means gone; the metadata agrees with the process; one worker per VM |
| QEMU instance (`instance.rs`) | pid file, sockets, QMP connection | start, attach, status, verify | a VM that dies between two steps; a half made connection; a VM asked for with another command line | attach finds the process that runs, start starts no second one with its command line |
| Rust-function provider (`becky-fx-rust-fn/src/lib.rs`) | pid file, handles with `latest_state` and a monitor task | start or reattach, status, stop, destroy, stop_monitor | pid reuse, zombies, crash, monitors racing with calls | one worker per function; stopped means gone; a status that is true |
| System-command provider (`becky-fx-system-command/src/lib.rs`) | pid file, owned child | start, status, stop, destroy | as above, plus the scan of all processes for the command line | as above |
| Docker provider (`becky-fx-docker/src/lib.rs`) | the container, which lives in the daemon; handles with `latest_state` and a monitor task | ensure image and network, start, status, stop, destroy, stop_monitor | others use the name; commands time out and are carried out late; a monitor that is cancelled while it waits | start and destroy tell the truth; the monitor notices the end; nothing hangs |
| QEMU storage (`becky-fx-qemu/src/lib.rs` 113-765, `storage_qcow.rs`) | files in the data directory of a machine | create, info and check, resize | several tasks at once, beside a running machine; failing programs nobody notices; crashes; names that clash | what was created can be opened; guest data is kept |
| Bare engine (`examples/bare/src/engine.rs`) | table of processes | register, main loop | errors of one process | no live process is forgotten |
| Inventory of the machines (`manager.rs` 82-357, `instance.rs` 100-180, 445-568) | `vms`, metadata records, runtime directories | the calls of the manager, two discoveries | a machine goes from configuration to record and back at every restart | it is found under its id, and as what it was asked to be |
| Effect ids (`becky-fx-id`) | none | parse, print | numbers and uuids among strings | parsing what was printed gives the id back |
| Effect interface (`becky-engine/src/control.rs`, `state.rs`) | none of its own | `FxControl` | what every provider promises | providers implement it |
| Engine storage (`becky-engine/src/storage.rs`), command runner (`becky-utils`) | directories; none | the trait `SysStorage`; `run_system_command` | an exit status nobody looks at, a timeout | see their users |
| Descriptive types (`cpu.rs`, `os.rs`, `machine_conf.rs`, ...) | none | none | nothing | |

How they interact: the application owns a `QemuManager` and calls it with
`&mut self`, so its calls do not overlap. The manager spawns one worker task per
VM and talks to it over a command channel; the worker spawns tickers, which use
the same command channel, and owns the handle whose event reader task reads the
QMP socket. Worker and manager share the `RwLock` of the running instance. The
worker sends each event to the application and then to the manager, which
applies it only when the application calls `drain_worker_events`. The other
providers have no manager: the caller owns the handle, the handle owns a monitor
task, and what outlives the process is the pid file or the container.

The hazards of this code, each at its line and with the properties aimed at it,
are listed in `PROJECT.json`.

## Modules

| module | models |
|---|---|
| `QemuWorker` | one VM from the moment its worker runs: QEMU, reader, tickers, worker, application, the manager's stop, shutdown and drain, and what allocate and discovery write meanwhile |
| `QemuWorkerProofs` | theorems about `QemuWorker` |
| `FxRustFn`, `MCFxRustFn` | the Rust-function provider with its processes, pid file, handles and monitors |
| `FxRustFnProofs` | theorems about `FxRustFn` |
| `QemuManager` | the registry over restarts: vms, vmctl, metadata, runtime directory; create, run_watchers, discovery, command lines, partial failure of stop |
| `QemuManagerProofs` | theorems about `QemuManager` |
| `FxSystemCommand` | the system-command provider: pid files, process scan, spawn, handles, destroy, crash |
| `FxSystemCommandProofs` | theorems about `FxSystemCommand` |
| `BareEngine` | the main loop of the example engine, composed with `FxSystemCommand` |
| `MCFxSystemCommand` | its effects, made interchangeable for TLC |
| `BareEngineProofs` | theorems about `BareEngine`, on top of those about the provider |
| `FxEffect` | the abstract life cycle of an effect, which the four providers and the engine implement |
| `FxDocker` | the Docker provider with its daemon, handle and monitor |
| `FxDockerProofs` | theorems about `FxDocker` |
| `QemuStorage`, `MCQemuStorage` | the files of a machine under concurrent allocates, checks and resizes |
| `QemuStorageProofs` | theorems about `QemuStorage` |
| `QemuInventory`, `MCQemuInventory` | all machines of a manager: entries, records, directories and ids |
| `QemuInventoryProofs` | theorems about `QemuInventory` |

Each module has one run that checks it as a whole, runs for the questions that
need another instance (liveness, a second caller), and a run for a
disagreement with what the repository says.

What is proved and what is not: every invariant and every action property of the
passing runs is a theorem for all values of the constants (for `AtMostOneWorker`
see `FxRustFn`), and so is that all providers implement `FxEffect`. The seven
liveness properties (`CallReturnsOrStuck`, `CallsEnd`, `EngineEnds`,
`AttachUnlessLost`, `CallsAndMonitorsEnd` and two named `MonitorNotices`) rest on
fairness, hence on ENABLED, which the provers cannot handle: they are only
model-checked. The theorems that no run states (`MachineLifeCycle`,
`FunctionLifeCycle`, `OwnedIsHeldHolds`, `ContainerLifeCycle`,
`ShutdownLosesNothing`, `OneProcessWithoutCrash`) are explained with their
modules.

What could still be modelled: a life cycle in which a container or a machine
that stopped is started again as the same instance.

## QemuWorker

The variables are the channels, the place of each task in its code, the lock and
the metadata of the VM:

| code | model |
|---|---|
| QMP socket, `comm.rs` reader task | `socket`, `reader`, `rheld` |
| `qapi_event_tx`/`rx` of the instance (capacity 100, `instance.rs` 48) | `qmp`, `QmpCap` |
| worker command channel (capacity 32, `manager.rs` 26) | `cmds`, `CmdCap` |
| application's channel | `appq`, `AppCap` (only its length matters) |
| `internal_event_tx`/`rx` (capacity 32) | `metaq`, `MetaCap` |
| `schedule_event` tasks | `ticker`, one per poll in `Polls` |
| `worker_process` | `wphase`, `wcall`, `wev` |
| `Arc<RwLock<QemuRunningInstance>>`, fair in tokio | `lock`, `waiters` |
| `vmctl`, `vms` entry of the VM | `ctl`, `vm` |
| place in stop, shutdown, drain | `mpc` |
| metadata state and record | `mstate`, `recpid` |

An event is known by its number in `emitted`; `applied` and `lost` are history
variables for the properties. Each await of the code that can block or let
another task run is the border between two actions. The initial state is the
one `create` and `run_watchers` leave behind once the worker's prologue has
started its tickers.

Abstractions: a guest agent call has its own socket and a timeout, so it is one
step that always ends. The replies of QMP are delivered by the reader (this is
how the `qapi` crate works, and why the reader can withhold one). The cancel
messages to the tickers are sent together: each has a channel of its own with
room for it. A panic of a task (join error) is left out. Two branches of the
worker's select cannot be taken and are not modelled: the command channel never
closes, because the worker holds a sender itself (`manager.rs` 579-584), and the
QMP channel never closes, because the instance keeps a sender (589-594). The
worker therefore never notices by itself that QEMU is gone, in the model as in
the code.

### Runs

| run | asks | result |
|---|---|---|
| `worker_safety` | every interleaving with one ticker, capacities 1 and a metadata store that may fail: `TypeOK`, `EventsInOrder`, `NoEventLost`, `WorkerLeavesNothing`, `StoppedMeansGone`, `StuckForever` | hold |
| `worker_calls` | `RunningHasPid` and the liveness property `CallReturnsOrStuck`, with metadata that never fails | hold |

`CallReturnsOrStuck` is not as good as it sounds: the three circular waits
(`StuckOnMetadata`, `StuckOnTicker`, `StuckOnReader`) are the only ways in which
stop, shutdown and drain hang, but each of them can be reached, with every task
running and QEMU answering. A stop may then never return, and never report its
timeout (`lib.rs` 890) either; by `StuckForever` nothing ends that state.

- `StuckOnMetadata`: the worker sends to the manager's full channel, the
  manager joins the worker. It needs as many undrained events as the channel
  holds (32 in the code, shared by all VMs).
- `StuckOnTicker`: the worker joins a ticker that waits for room in the command
  channel nobody reads any more.
- `StuckOnReader`: a QMP call waits, under the write lock and without a timeout,
  for a reply behind an event that does not fit into the QMP channel.

`RunningHasPid` says of the pair that the metadata has of a VM, state and record,
what can be said of it: between two calls, a VM that is recorded as running or
paused has a record with its pid, while it lives. The other direction is false:
drain, stop and shutdown write both, but `discover_existing_from_metadata` writes
`Stopped` without the record of a VM that has died (158-164), whether or not it has
a worker, and allocate the record without the state (287). Both are actions
(`Discover`, `Allocate`). After QEMU has died discovery may find another process
under its pid and register the VM again; of a discovery that replaces the entry of
a running worker, and with it the lock they share, see `QemuManager`.

`worker_calls` leaves out failing metadata: an update that fails between state
and record breaks `RunningHasPid`, and for the liveness property it only makes a
call return earlier. `worker_safety` has it. `StoppedMeansGone` is about what stop
itself does; what a stop that fails on the metadata leaves behind (a state without
its record, a VM in `vms` without a worker) no property excludes.

No property says that a VM stays Stopped after stop, because it does not:
events that were queued before are persisted when the application drains them
(403), and overwrite the state.

Bounds: capacities of 1 and two or three events fill every channel and let each
task hold one event, which is all that the hazards need; a larger capacity only
makes the full channel a rarer case. The theorems hold for every capacity.

Fairness: every task of the tokio runtime runs when it can (weak fairness);
QEMU answers a command as long as it lives; the application reads its channel.
Senders to one channel are served in turn, because tokio's semaphore is fair,
hence strong fairness of the manager's two sends; a sleeping ticker whose cancel
message is there ends eventually although it may fire first, hence strong
fairness of `TickerCancel`. No fairness makes the guest exit, QEMU emit an event
or the application call the manager.

### Proofs

`QemuWorkerProofs` proves, for every set of tickers, every capacity and every
number of events (assumptions `PollsAssumption`, `CapsAssumption`):

- `TypeCorrect`: `TypeOK`, inductive as it stands. It is split into flags,
  queues and control because Boolean variables and sequences want different
  provers.
- `LockCorrect`: `LockOK`, inductive under `TypeOK`, with the lemmas `Enqueue`
  and `Dequeue` about who waits in a queue.
- `WorkerLeavesNothingHolds`, inductive under both.
- `StoppedMeansGoneHolds`. The property speaks of the end of stop only; the
  strengthening `StopProgress` says for each phase of stop what it has waited
  for: the process is gone from `stopShut` on, the worker from `stopLock` on.
- `StuckForeverHolds`: an action property, from `TypeOK` and `LockOK`. No step
  frees a circular wait.
- `EventsInOrderHolds` and `NoEventLostHolds`, from `FlowOK`. The pipeline of an
  event is a concatenation of channels and hands, about which the provers know
  little; `FlowOK` says the same place by place: each channel is sorted, and what
  is further on is older than what follows (`PlacesSorted`). `PlacesOfPipeline`
  shows that the two agree. Its other part, `HandsOK`, is what makes the steps
  preserve it: a task holds an event only in the phases in which it passes one
  on, and no reply is in a channel of events.
- `RunningHasPidHolds`. State and record are written one after the other;
  `RecordOK` says at which places of drain and shutdown the state may be ahead, and
  that a VM that lives and was forgotten by a shutdown has its pid in the record,
  which a late event no longer writes. It needs `FlowOK` to know that the manager
  holds an event in a drain, and `StopProgress` for the end of stop. Like the
  property it is about metadata that takes every update.

Only model-checked: the liveness property `CallReturnsOrStuck`.

## QemuManager

One VM over the life of the manager's process and its restarts: the QEMU
processes of the VM with the command line of each (`line`), what they leave in the
runtime directory (`pidfile`, `sock`) and who holds their QMP connection (`conn`);
the entries of the VM in `vms` (its pid and, in `entry`, its command line) and
`vmctl`; the command line in its metadata record (`record`); and the place of the
manager in the call it is in (`pc`). The calls take `&mut self`, so they do not
overlap; QEMU boots and exits between any two steps of a call, and the manager may
crash there.

`QemuWorker` takes the manager's part over one running worker in every detail.
`QemuManager` abstracts that: its worker is a task that holds a connection until
it is joined, draining writes the record of the entry (`Drain`), and a join
returns. Whether it does is the subject of `QemuWorker`.

Command lines. QEMU is started by the system command, without a pid directory: the
processes are scanned for one with exactly the same command line (`Scanned`;
`becky-fx-system-command/src/lib.rs` 481-491 and 582-609), and another is spawned
if there is none. Each create, allocate and discovery of directories comes with a
request and so with a command line of its own (`Ask`, recorded in `asked`); the
entries and records of earlier calls have theirs. (That the command line of a
record is still the same when it was parsed and printed again, `utils.rs` 25, is
taken on the word of the external crate that does both.) A start whose attempt to attach
failed (the QEMU is still booting, or lost) therefore spawns a second QEMU beside
one with another command line. The model has this: `NewQemu`, and `QemuWritePid`
and `QemuListen`, by which the second takes over the paths of the first, unless it
gives up because of it (`QemuExit`). What is true then is that no command line has
two QEMUs (`AtMostOneQemu`). `Recoverable`, `StopWaitsForItsQemu` and
`NoLiveOrphan` are false then, and are claimed for VMs that the application asks
for with one command line (`OneLine`), over all calls, crashes and restarts:
nothing in the code refuses a second one.

| code | model |
|---|---|
| `existing_or_new` | `CreateBegin`, `AllocateBegin`, `DiscoverRuntime`, then `Reconcile`, `Remove` |
| `try_attach_existing` | `AttachFound`, `AttachStale`, `Connect`, `AttachTimeout` |
| `fx_start` | the above, then `Spawn`, `Connect`, `StartTimeout` |
| `try_monitor_qemu_with_api` | `Monitor`, `MonitorError`, `Fail` |
| the two metadata updates, the guest agent, verify | `RecordRunning`, `MetaError`, `GuestAgent`, `GuestAgentError`, `Verify`, `VerifyError` |
| `create`, `run_watchers` | `CreateBegin` to `CreateWork`, `WatchBegin` to `WatchWork` |
| `register_existing`, discovery | `DiscoverRuntime`, `DiscoverMetadata`, `Register` |
| `stop`, `shutdown` | `StopBegin` to `StopRecord`, `ShutdownJoin`, `ShutdownRecord` |

`ret` says where a reconciliation or a failed attempt to attach goes on; it
plays the part of the return address. The check of the pid and the removal of the
files are two steps, because a QEMU may be booting. External are QEMU, which
writes its pid file, opens its socket and serves one client at a time, and the
crash. The scan of the processes and the spawn that follows are one step: the
calls do not overlap, and nobody else starts a QEMU with this command line.

### Runs

| run | asks | result |
|---|---|---|
| `manager_safety` | `TypeOK`, `AtMostOneQemu`, `Recoverable`, `StopWaitsForItsQemu`, `NoLiveOrphan`, `LostForGood` and the liveness property `AttachUnlessLost`, with two command lines, crashes and failures | hold |

`AttachUnlessLost` names the only ways to lose a QEMU: a socket removed under a
booting one, and a connection left open. The second is what a start leaves that
fails late, on the metadata or the guest agent: its event reader was spawned
before (`comm.rs` 70), keeps QEMU's only QMP connection, and is aborted by
nobody, so that no later create attaches. By `LostForGood` only a restart of the
manager or the end of QEMU ends that state.

After a stop that failed on the metadata the VM stays in `vms`, its event
receiver gone with the worker that was joined. `run_watchers` then registers a
worker that returns at once: `vmctl` is `"ended"`, and stop finds nobody to send
to. The model has this state; no property excludes it.

`NoLiveOrphan` allows workers that `vmctl` does not have. They exist: create over
a VM whose QEMU has died puts the new worker in the place of the old one
(`manager.rs` 343), which never notices the end of its QEMU and runs on with its
tickers, out of reach of every call.

Bounds: `MaxPid` is the number of QEMUs ever spawned. Two, with two command
lines of which one has a guest agent, let a QEMU run beside another, and beside
the orphan and the stale files of one that has ended; the theorems bound neither.
When all are spent `SpawnBound` lets the spawn fail.

Fairness: QEMU boots unless it exits, a call that has begun goes on, and,
strongly, the application calls create again whenever it can: the property is
about an application that retries. The manager crashes only finitely often, for
one that always crashes before it attaches never does.

### Proofs

`QemuManagerProofs` proves every safety property of `manager_safety` for any
`Lines` and `MaxPid` and any setting of the flags (`ManagerAssumption`). The
inductive invariant `IInv` has two layers. `Core` holds whatever the VM is asked
for with: `AtMostOneQemu`, whose step is that a call knows its command line
(`LineOK`), and who holds which connection (`ConnOK`, `CurOK`, `WorkerOK`). With one
command line `AtMostOneQemu` says that one QEMU lives (`OneQemu`), and under this
`Rest` is inductive (`OneLine => Rest`, as `asked` only grows). `Recoverable` is
not inductive by itself: a `Remove` whose check has been made would break it, so
`RemoveOK` keeps what the check saw, and it lasts because a worker's QEMU has been
up (`ConnOK`) and so does not boot any more. `NoLiveOrphan` needs `CallOK`: a call
is connected to a QEMU only while no worker's QEMU is up. `LostForGoodHolds` is an
action property, from `Core`: with any command lines. `AttachUnlessLost` is only
model-checked.

`MachineLifeCycle` shows that the manager implements `FxEffect` (see below) for a
VM that is asked for with one command line (`[]OneLine`): every step of it, a crash
included, is one of the abstract life cycle or changes nothing of it.

| `FxEffect` | `QemuManager` |
|---|---|
| `last` | `Newest`, the QEMU that was spawned last: pids are given out in order |
| `up` | a QEMU of the VM lives |
| `handle` | `vms` |
| `destroyed` | `pc = "stopRecord"`: stop has waited for the QEMU; it then drops the entry |

It needs `NewestOK`: a call that monitors a QEMU, having found or spawned it some
steps ago, monitors the newest one, and no other lives. No step is `Lose`:
a QEMU that outlives a crash is still the one that is up, and the scan finds it,
so none is spawned beside it. With a second command line one would be.

## FxRustFn

Processes are numbered in the order of their spawns; `proc` gives what the
process table shows of each (a dead child nobody has waited for is a zombie,
which sysinfo lists without a command line, so `observe_worker_process` calls
it mismatched), `parent` which monitor waits for it. `pidfile` is the content of
the pid file, with `Torn` for a file that was created and not yet written.
Each handle has `pid`, `own` (spawned here), `st` (`latest_state`), `mon` (its
monitor task) and a program counter `pc` for the call in progress. A call is cut
wherever the code looks at the process table, touches the pid file or awaits.

A caller stands for a value of `FxRustFn` with one handle. Its calls borrow the
value and do not overlap; two values for one function and run directory, in one
process or in two, are not kept apart by anything.

### Runs

| run | asks | result |
|---|---|---|
| `rustfn_single` | one caller with failing I/O and reused pids: `AtMostOneWorker`, and the liveness properties `MonitorNotices` and `CallsEnd` | hold |
| `rustfn_shared` | two overlapping callers, crashes, failing I/O, reused pids: `TypeOK`, `EndedIsGone`, `StoppedIsReported` | hold |
| `rustfn_forgotten` | `EndNotForgotten` (`control.rs` 73) | violated: status overwrites the end that the monitor recorded, and nothing corrects it |

`EndNotForgotten` is also broken by destroy, whose cancelled monitor does not
record the end it has brought about; the trace of the run is the race.

Bounds: `MaxPid` is the number of workers ever spawned. Two are enough for a
worker and its successor, a third for one that follows both. Two callers are
interchangeable (symmetry, safety only). `rustfn_single` leaves out crashes: a
crash between the spawn and the pid file leaves a worker no later start finds.

Two things nothing in the code prevents, and no property claims: `fx_stop` signals
the pid of a worker that is gone, whoever has it by then (`lib.rs` 470), and
`fx_destroy` of a second handle, whose worker is gone, removes the pid file of the
worker that followed (496), so that the next start finds none.

Fairness: monitors run, a call that has begun goes on, dead children without a
monitor are reaped (tokio's orphan queue, or init). A worker need not exit: stop
and destroy then time out.

### Proofs

`FxRustFnProofs` shows `TypeOK`, `EndedIsGone` and `StoppedIsReported` for any
callers and any `MaxPid`, with or without crashes, failing I/O and reused pids. The
inductive invariant adds to them: `KnownOK`, every pid that the file, a call or a
handle names is that of a worker that was spawned (so a wait cannot take an unused
pid for a dead worker); `CallOK`, what a call has made sure of where it is, above
all that the worker of `stopJoin`, `stopSet` and `destroyJoin` is gone; `EndedOK`,
the worker of an ended handle was reaped, which is stable, while "not running"
is not what the waits establish.

`AtMostOneWorkerHolds` assumes one caller and no crash, as the run
`rustfn_single` does, and needs `FileOK`: the pid file names the worker that runs,
unless the start in progress has yet to write it, and a handle finds either its
own pid in the file or no file. With a second caller it is false: both read that
there is no file and both spawn. The two liveness properties are only
model-checked.

`FunctionLifeCycle`, under the same two assumptions and for the same reasons, is
that the provider implements `FxEffect`: `last` is the worker spawned last, `up` is
that a worker runs, `handle` is `pid[h]`, and `destroyed` is that the last call was a
stop or destroy that returned Ok and the handle is still there. Monitors, writes
of the state and the pid file are stutters, and what is left has to come in the
order of the life cycle.

`OwnedIsHeldHolds`, for any callers and with crashes, says how far the signal of
`fx_stop` (470) can be trusted: while the monitor of an own worker waits for it,
the worker has its pid, because nobody else reaps it. Its invariant `HeldOK` says the same of a worker
whose pid file is being written (`SpawnedIsHeld`); that the orphan queue keeps off
needs that its mark, `Nobody`, is not a caller (`NobodyAssumption`).

## FxSystemCommand

The effects in `Cmds` have the same command line, as the copies of the example
engine have. What a start goes by to find their processes:

| code | model |
|---|---|
| `pid_directory`; `nice_level` or `pin_to_cpus` | `dir`, `nice`, fixed at the beginning |
| the process table | `proc`: `"wrapper"` has the launch line, `"command"` the command line; `cmdOf` the effect it was spawned for |
| `tokio::process::Child` | `held`: while it exists nobody else reaps the process |
| the pid file | `file`, with `Torn` for a file that is created and empty |
| `self.state` | `st`, the pid of `Running` |
| `FxSystemProcessRunning` | `kind`, `hpid` |
| place in a call | `pc` |

`fx_start` is `StartReattach`, or `StartStale`, `StaleRemove` or `StartUnfiled`
followed by `Choose...` and, where it spawns, `Spawn`, `SpawnShort` or
`SpawnError`, `FileCreate` and `FileWrite`; `fx_status` is `StatusExited`;
`fx_destroy` is `DestroyGroup` and `DestroyWait` for an own child, `DestroyPid` and
`PollGone` or `PollTimeout` for a pid. `fx_stop` sends SIGTERM and changes nothing.
The waiter task of an own child does what `destroy` waits for and is part of
`DestroyWait`. Abstracted: the other processes of a process group, which are
signalled with it; the 100 polls of `wait_for_pid_exit`.

| run | asks | result |
|---|---|---|
| `command_safety` | two effects, two processes, all settings of `dir` and `nice`, failing files, reused pids, crashes: `TypeOK`, `AtMostOneProcess`, `Recorded`, `ChildIsHeld`, `DestroyedIsGone`, `WaitsForKilled` and the refinement `LifeCycle` | hold |
| `command_niced` | `LaterStartsUsePidFile` (`lib.rs` 153) | violated: the process in the pid file is compared with the launch line, which it lost with exec; the file is removed and the command started again |

`AtMostOneProcess` exempts what `command_niced` finds, and processes that a crash
left before their pid file was written (`adrift`). A start whose pid file cannot be
written fails and leaves its process running; the state of the value then leads
the next start to it. `SpawnShort` is a process that exits so early that the
first `try_wait` reaps it: the start then fails with "pid is None" (lib.rs
751-755), although the test at 1093 expects such a start to succeed.

`MaxPid` is the number of processes ever spawned: two, of one effect or of both.
The theorems need no bound. The effects are alike (symmetry, safety only).

### The life cycle

`FxEffect` says what `FxControl` promises of one effect, for any provider: a start
spawns only when no instance runs, a handle is one on the instance that was
started last, and destroy returns Ok when that does not run any more. It knows
neither pids nor files. `LifeCycle` is that `FxSystemCommand` implements it, for
each effect with a pid directory and without a wrapper:

| `FxEffect` | `FxSystemCommand` |
|---|---|
| `Instances` | `Pids` |
| `last` | `last[c]`, history: the process spawned last, forgotten in a crash before its pid file |
| `up` | that process lives |
| `handle` | `hpid[c]` |
| `destroyed` | `ended[c]` |

This is more than the invariants: the pid a start found some steps ago must still
be that of the last process when the handle is made. Without a pid directory a
start may attach to the process of another effect with the same command line;
with a wrapper see `command_niced`.

The run checks `LifeCycle` with TLC. `FxEffect` is also implemented by the engine
(`EngineLifeCycle`), the QEMU manager (`MachineLifeCycle`, for one command line), the Rust functions
(`FunctionLifeCycle`) and the containers (`ContainerLifeCycle`), each with the
mapping given with its module. Those mappings are in the modules of the proofs,
and no run states them.

### Proofs

`FxSystemCommandProofs` proves every property of `command_safety` for all `Cmds`,
`MaxPid` and flags (`CommandAssumption`). The invariant `IInv` adds to them who was
spawned for whom (`ProcOK`, `OwnOK`, `DirOK`, `CallOK`) and two parts that carry
`AtMostOneProcess`: `KnownOK`, every process is named by the state of its value or
by its pid file, and `StartOK`, what a start knows at each point. The step from
"no file, state not running" to "nothing runs" is `KnownOK`; that it stays true
until the spawn is `StartOK`.

`LifeCycleHolds` adds `LastOK`, which relates `last` to the processes and the pid
files, and then shows for each action of `FxSystemCommand` the one of `FxEffect`
that it is, or that it is a stutter.

`OneProcessWithoutCrash` says what the exemption of `AtMostOneProcess` is about:
without a crash nothing is ever adrift, so that an effect has one process unless
a wrapper launches it, whatever fails.

## BareEngine

`BareEngine` extends `FxSystemCommand` with the main loop of the example: the
effects have pid files and no wrapper (`BareInit`), and only the engine calls
them. `eng` and `todo` say where the loop is; the table of tasks is the set of
effects with a handle. `BootStart` and `BootStep` are the starts, one after the
other, by the actions of `FxSystemCommand`; `SweepKeep` and `SweepRemove` are what a
rescan does with each task. A new engine (`Boot`) follows one that was shut down,
that crashed, or that ended because all commands had.

| run | asks | result |
|---|---|---|
| `bare_engine` | `NoneForgotten`, and the liveness property `EngineEnds`, for two commands, three processes, failing files and crashes | hold |

`NoneForgotten` exempts the commands the engine logged it could not start
(`failed`): a command whose pid file could not be written runs on, and the engine
may log "all commands exited" (`engine.rs` 221) before it does. That no command is
started twice is `AtMostOneProcess` of `FxSystemCommand`; `EngineKeepsProvider`
proves it of the engine. `NoneForgotten` also exempts processes that are `adrift`:
a crash, and here a shutdown too, ends the engine before the pid file of a command
was written, or after it could not be. A status that fails (`engine.rs` 492-497:
`try_wait` reports an error) drops the task of a process that may live; the
operating system gives no such error for a child nobody else has reaped, and the
branch is not modelled.

Fairness: the loop goes on and the ticker sends `Rescan` again and again (169-174).
No command has to exit.

### Proofs

`BareEngineProofs` extends the module and the proofs of the provider. A step of
the engine is a step of the provider, the beginning of a new life (`Forget`), or
the removal of a task, which looks at the status and drops the handle at once
(`ProviderStep`). So the provider's invariant `IInv` and `LastOK` hold here too
(`BareIInv`), which gives `EngineKeepsProvider` and, with the refinement of each
step, `EngineLifeCycle`.

`NoneForgottenHolds` needs more: the provider allows an effect with a process and
no handle. `TableOK` says that an effect whose start has come to an end in this
life of the engine (`Settled`) has its handle on its process, if it has one, unless
it is in `failed`. Starts establish it, because by `StartOK` and `AtMostOneProcess`
the process of the handle is the only one; sweeps keep it, because a task is only
removed when its process has ended (`RemovedHasEnded`).

`ShutdownLosesNothing` assumes that files can be written (`~IoMayFail`) and that
nothing crashes, and then needs neither exemption: after any number of shutdowns
and new engines every process is in the table, and no command has two. `CleanOK`
carries it: an engine is shut down between two starts, when every process has
its pid file, and a start fails only if the command has no process.

## FxDocker

One `FxContainerDocker` value, its caller's handle with the monitor task, and the
container of that name. Everything the provider does is a docker command; a call
is cut between two commands, and between the answer of an inspect and the write
of what it says.

| code | model |
|---|---|
| configured network and image | `needs`, fixed at the beginning |
| the container in the daemon | `cont` (which one has the name), `run`, `made` |
| a command that was killed at its timeout | `late`: the daemon may still carry it out |
| place in a call | `pc`, `op`, `seen` (what its inspect answered), `fresh` (`created`) |
| `DockerContainerHandle` | `hid`, `latest` (`latest_state`), `mon`, `cancel` |
| `monitor_container` | `MonInspect`, `MonWrite`, `MonAwake`, `MonCancelled` |
| `wait_for_container_stop` | `MonSpawnWait`, `MonWaitReturns`, `MonRetry`, `MonCancelled` |

`fx_start` is `Start`, `Ensure`, `Exists`, `Look`, `Command` (create, start), `See`
and `Give`; `fx_destroy` is `Destroy`, `Tell`, `Join` and `Command` (rm). External are
the daemon (`Carry`, `LateCommand`) and other users of it (`OtherUse`), who may
create, run, pause, kill and remove a container of the name at any time.

| run | asks | result |
|---|---|---|
| `docker` | two containers, one late command, commands that fail, time out and are refused, others who use the name: `TypeOK`, `DestroyedIsGone`, `StartTellsTruth`, and the liveness properties `CallsAndMonitorsEnd` and `MonitorNotices` | hold |

`DestroyedIsGone` exempts a container that a create made after the provider gave
up on it: nobody takes a command back. `StartTellsTruth` exempts a start whose
container was replaced between two of its commands: the provider goes by the
name.

Two things the model shows and no property claims. The daemon reports a paused
container as running too, and `inspect_to_state` asks for running first, so its
branch for paused containers is never taken. And a destroy whose `rm` fails has
already joined the monitor: the handle that is kept has nobody to write its
state.

Bounds: two containers, for one that is replaced; one late command, for a create
or an rm that comes after the next call; the theorems need neither.

Fairness: the runtime polls the task of the call and the monitor (weak fairness
of `Step` and `Monitor`). tokio's select takes its ready branches in random order,
so a cancellation that is there again and again is taken (strong fairness of
`MonCancelled`), and the docker command does not fail to start for ever (strong
fairness of `MonSpawnWait`). No container has to exit.

`FxDockerProofs` proves the three invariants for all `Configs`, any number of
containers and late commands, and any setting of the flags. They are inductive
together with what a call has made sure of at each place (`StartInv`,
`DestroyInv`). The liveness properties are only model-checked.

Their exemptions are about others who use the name and about commands carried
out late. `ContainerLifeCycle` is what remains without them (`Private`: nobody
else uses the name, and either no command fails or none is carried out after it
was given up on): the provider implements `FxEffect`, no container is left after
a destroy that returned Ok, and the container a start returns was up in the call.
An instance is a container, `up` is that it is there, from create to rm, whether or
not its process runs; `handle` is `hid` and `destroyed` is `ended`. With others about
none of it holds: somebody may replace the container between inspect and handle.

## QemuStorage

The files of a machine and the tasks that work on them. `allocate` takes `&self`,
so several may do so at once, each with its own configuration, and while a machine
runs that an earlier manager started. A machine is only started by a call that
takes `&mut self`, when no allocate is under way (`GuestStarts`).

| code | model |
|---|---|
| `disk_stem`, `iso_dest_path`, `cloud_image_stem` and the paths made of them | `Stem`, `Dest`: a name is the sequence of its parts between dots, `Clean` is `sanitize_storage_name` |
| a file | `state` ("none", "part", "whole"), `form`, and `data`: what a guest wrote is in it |
| the loop of `sys_storage_create` | `Begin`, `Look`, `Inspect`, `Make`, `Copy`, `Written`, `CopyError`, `NoFile`, `Advance`, `End` |
| `qemu_img_create`, which takes any exit status for success | `SilentError` |
| `sys_storage_info`, `sys_storage_check` | `Check` |
| `sys_storage_resize` | `Resize` |
| the drives of the command line | `Usable`, `GuestStarts` |

The look at a file and its creation are two steps, the creation itself has a
beginning and an end. External are the guest and QEMU's lock on a disk it has
open. Assumed of `qemu-img`: `create` empties the file when it starts, and `info`
prints nothing for a file that is not there.

| run | asks | result |
|---|---|---|
| `storage` | two tasks, one directory, three configurations: `StorageTypeOK`, `PromisesKept`, and the action property `GuestDataKept` | hold |

The configurations of `MCQemuStorage` are there for their names: a disk "a b" and
the overlay of the cloud image "a_b.img" come out as one file of one format, a raw
disk "c" and an ISO "c.img" as one of two formats. Two tasks are enough for one
that looks before and one that looks after the other has made the file, and they
are interchangeable (symmetry; neither property is about liveness). The theorems
need no bound.

`PromisesKept` exempts files a qemu-img failed on unnoticed, a copy failed on or a
crash cut off (`blame`), and drives of two formats with one name (`Clash`);
`GuestDataKept` exempts an ISO of the disk's name and a resize, which may shrink.
All four are there in the code: nothing refuses them. Two more things the code does
and no property forbids: the check of an ISO looks at its source and not at the
copy the machine uses, and an allocate for a running machine copies its ISO
again.

`QemuStorageProofs` proves the three for all configurations and any number of
tasks. A promise is about a moment when nobody is at work on the file, so it is
not inductive: `Kept` and `Seen` say what holds of a file meanwhile, `JobKept` that
it does for the entries a task has behind it, and `ReturnedOK` for those it
returned. `GuestOK` carries `GuestDataKept`: nobody is about to make a disk a guest
has open or has written to.

## QemuInventory

All machines of one manager. Here a call is a single step: how the calls on one
machine interleave with its QEMU is the subject of `QemuManager`. What matters is
what is known of a machine at which place, and what is lost on the way from one
to the next.

| code | model |
|---|---|
| the QEMU process a pid file names, and the runtime directories | `process`, `made` |
| `QemuMetadataRecord` | `records`, with `command` and `desired` |
| the entries of `vms` | `vms`, with the command line and the disks of the configuration |
| `Display` and `FromStr` of `FxId` | `Text`, `Parse` |
| `vm_root_path` with the id pushed to it (`instance.rs` 197-217, 902) | `Dir`, from `PathOf` |
| `existing_or_new`, `metadata_record`, `existing_from_metadata_record` | `New`, `ToRecord` (`Desired`), `FromRecord` (`Configured`) |
| `create`, `allocate`, `run_watchers`, `stop`, `shutdown` | `Create`, `Allocate`, `Watch`, `Stop`, `Shutdown` |
| `discover_existing_from_runtime_dir`, `..._from_metadata` | `DiscoverDirs`, `DiscoverRecords` |

| run | asks | result |
|---|---|---|
| `inventory` | a number, a string that reads as this number, a string that is a path, two machines, records of an old version, shutdowns, restarts and discoveries that fail half way: `FoundUnderItsId`, `MachineKept` | hold |

A directory is named by the printed id and its name is parsed again.
`FoundUnderItsId` exempts (`LostDirs`) the directories of two kinds of strings,
which nothing in the code refuses as ids. A string that reads as a UUID or a
number comes back as another id: "007" as the number 7, whose directory is another
one. And a string that is no name of a directory leads elsewhere (`PathOf`): of
"a/b", "..", "/x" or the empty string the directory is not one of those that
`discover_existing_from_runtime_dir` lists (124-135; `Outside`), and "./a" is listed
as "a". Machines of such ids are not found; those of all other ids are.

"Found" is that the machine is registered from a discovery of all directories on,
until the entries go or a process is left without one: at a shutdown, which drops
the entries of all machines with a worker while they run on (237-272), at a restart
of the manager's process, or when a create fails after it has started QEMU
(history `scanned`). After each of them it takes another discovery. That a machine
is registered under no other id holds throughout.

`MachineKept` is about machines that nobody ever asked to be something else; the
discovery of directories counts as asking, because it gives every machine it finds
the configuration it was called with (116). Then a start that does not attach may
join a second QEMU to the first (`Run`, see `QemuManager`); the model keeps the one
that the pid file names. Records of an old version give no disks (454). A record
does not have the type of the CPU, and memory and accelerator only as text that is
parsed again; the command line has them all, and is what a machine is started with,
but the configuration rebuilt from a record falls back to defaults for what is
missing or does not parse.

Bounds: both machines are asked for under the number only (`Wanted`); under the
strings, whose directories no discovery of directories registers, one is. The
theorems have no bounds.

`QemuInventoryProofs` proves both properties for any ids, machines, paths and
directories (`InventoryAssumption`: ids are printed canonically, and what reads as a
number or a UUID is a plain name). `MachineKept` is not inductive, since an entry
comes from a record and a record from an entry; `ProcessOK`, `RecordOK` and
`EntryOK` say the same of all three at once. `OneKey` is what makes
`FoundUnderItsId` true: two keys of one directory are the same unless one of its
ids is in the exempted kinds, and by `Listed` such a directory is one the scan
lists.

## Not modelled

- The command line of QEMU, the images it boots from, networks, and the
  validation of configurations: data that is computed and handed on.
- `FxAccounting` and `StatsCollect`: they read and change nothing.
- `fx_archive`: of Docker it commits an image, of QEMU it saves a snapshot by one
  QMP call nobody in the repository makes, of the others it does nothing.
  `fx_bootstrap` is `todo!()` or empty.
- The descriptive types of `becky-engine` (`cpu.rs`, `os.rs`, `host.rs`,
  `machine_conf.rs`, `sys_conf.rs`, `boot_methods.rs`, `verify.rs`, `metadata.rs`, ...)
  and its empty implementations.
- `StorageFilesystem`, which makes sure that directories exist.
- The start of the example programs (arguments, logging, executor), and logging.
