---------------------------- MODULE QemuWorker ----------------------------
(***************************************************************************)
(* One QEMU virtual machine while a QemuManager watches it: the QEMU       *)
(* process at the other end of the QMP socket, the event reader task that  *)
(* owns the receiving half of the socket, the worker task with the ticker  *)
(* tasks that feed it, and the manager operations stop, shutdown and       *)
(* drain_worker_events, which run one at a time (they take &mut self), and *)
(* what allocate and discovery write about the VM meanwhile.  Discovery    *)
(* also replaces the entry of a running worker, see QemuManager; here the  *)
(* entry and its lock are the worker's.                                    *)
(*                                                                         *)
(*   QEMU -socket-> reader -qmp-> worker -appq-> application               *)
(*                    |             |  \-metaq-> manager -> metadata       *)
(*                    \--reply----->|                                      *)
(*          tickers, manager -cmds->/                                      *)
(*                                                                         *)
(* Every arrow but the socket is a bounded tokio channel whose send waits  *)
(* for room.  The reader delivers the replies to QMP commands as well as   *)
(* the events, so it delivers no reply while it waits for room.            *)
(*                                                                         *)
(* An event is known by its number: the n-th event QEMU emitted is         *)
(* emitted[n], and the queues hold the numbers.                            *)
(***************************************************************************)
EXTENDS Naturals, Sequences, SequencesExt

CONSTANTS
    Polls,        \* the commands sent by a ticker task of their own
    Supported,    \* the commands QEMU and its guest agent list as supported
    Events,       \* the QMP events QEMU may emit
    MaxEvents,    \* bound: the events QEMU emits in a behaviour
    CmdCap,       \* capacity of the worker's command channel
    QmpCap,       \* capacity of the instance's QMP event channel
    AppCap,       \* capacity of the application's event channel
    MetaCap,      \* capacity of the manager's internal event channel
    MetaMayFail   \* whether an update of the metadata may fail

QmpPolls == {"Status", "QueryBlock"}
GaPolls  == {"Ping", "Info"}
Commands == QmpPolls \cup GaPolls \cup {"Powerdown", "Shutdown"}

ASSUME PollsAssumption == Polls \subseteq QmpPolls \cup GaPolls
ASSUME CapsAssumption  == /\ CmdCap \in Nat \ {0}
                          /\ QmpCap \in Nat \ {0}
                          /\ AppCap \in Nat \ {0}
                          /\ MetaCap \in Nat \ {0}
                          /\ MaxEvents \in Nat
                          /\ MetaMayFail \in BOOLEAN

VARIABLES
    alive,      \* the QEMU process exists
    emitted,    \* the events QEMU has emitted, in order
    asked,      \* QEMU has a QMP command it has not answered
    socket,     \* what QEMU wrote and the reader has not read yet
    reader,     \* "reading" | "sending" | "ended"
    rheld,      \* the event the reader is sending
    replied,    \* the reader delivered the reply the worker waits for
    qmp,        \* the instance's QMP event channel
    cmds,       \* the worker's command channel
    ticker,     \* poll -> "sleep" | "sending" | "ended"
    wphase,     \* where the worker is
    wcall,      \* the command the worker is executing
    wev,        \* the event the worker is forwarding
    cancelled,  \* the worker has sent the tickers their cancel message
    appq,       \* how many events the application's channel holds
    metaq,      \* the manager's internal event channel
    lock,       \* who holds the RwLock of the running instance
    waiters,    \* who waits for it, first come first served
    mpc,        \* where the manager is
    mev,        \* the event drain_worker_events is persisting
    mseen,      \* what shutdown saw of the process
    ctl,        \* vmctl has the VM
    vm,         \* "registered" while vms has the VM, else what removed it
    mstate,     \* the state the metadata holds for the VM
    recpid,     \* the metadata record of the VM has a runtime pid
    applied,    \* history: the events whose state was persisted
    lost        \* history: the events drain took and failed to persist

qemuVars   == <<alive, emitted>>
readerVars == <<reader, rheld, qmp>>
pollVars   == <<ticker, cancelled>>
workerVars == <<wphase, wcall, wev>>
lockVars   == <<lock, waiters>>
mgrVars    == <<mpc, mev, mseen, ctl, vm>>
metaVars   == <<mstate, recpid, applied, lost>>
vars == <<alive, emitted, asked, socket, reader, rheld, replied, qmp, cmds,
          ticker, wphase, wcall, wev, cancelled, appq, metaq, lock, waiters,
          mpc, mev, mseen, ctl, vm, mstate, recpid, applied, lost>>

Reply == 0                      \* a command's reply, on the socket
Message == 0 .. MaxEvents       \* what the socket carries: Reply or an event

----------------------------------------------------------------------------
(* Events and the states they stand for                                    *)

\* handle_event: the QMP events a worker forwards; the others it drops.
ErrorEvents   == {"GUEST_PANICKED", "WATCHDOG", "BLOCK_IO_ERROR",
                  "BLOCK_IMAGE_CORRUPTED", "DEVICE_UNPLUG_GUEST_ERROR",
                  "MEMORY_FAILURE"}
StoppedEvents == {"SHUTDOWN", "POWERDOWN"}
PausedEvents  == {"SUSPEND", "STOP"}
RunningEvents == {"RESUME", "RESET", "DEVICE_DELETED", "MIGRATION",
                  "MIGRATION_PASS"}
Forwarded == ErrorEvents \cup StoppedEvents \cup PausedEvents \cup RunningEvents

States == {"Running", "Paused", "Stopped", "Error"}

\* state_from_worker_event
StateOf(e) == CASE e \in ErrorEvents   -> "Error"
                [] e \in StoppedEvents -> "Stopped"
                [] e \in PausedEvents  -> "Paused"
                [] OTHER               -> "Running"

----------------------------------------------------------------------------
Init ==
    \* The state create and run_watchers leave: the process runs, the reader
    \* and the worker are spawned, the metadata says Running.
    /\ alive = TRUE /\ emitted = <<>> /\ asked = FALSE /\ socket = <<>>
    /\ reader = "reading" /\ rheld = Reply /\ replied = FALSE /\ qmp = <<>>
    /\ cmds = <<>> /\ ticker = [p \in Polls |-> "sleep"] /\ cancelled = FALSE
    /\ wphase = "select" /\ wcall = "Status" /\ wev = Reply
    /\ appq = 0 /\ metaq = <<>>
    /\ lock = "free" /\ waiters = <<>>
    /\ mpc = "idle" /\ mev = Reply /\ mseen = TRUE
    /\ ctl = TRUE /\ vm = "registered"
    /\ mstate = "Running" /\ recpid = TRUE /\ applied = <<>> /\ lost = {}

----------------------------------------------------------------------------
(* QEMU                                                                    *)

\* QEMU emits an event of its own accord.
QemuEmit(e) ==
    /\ alive
    /\ Len(emitted) < MaxEvents
    /\ emitted' = Append(emitted, e)
    /\ socket'  = Append(socket, Len(emitted) + 1)
    /\ UNCHANGED <<alive, asked, replied, cmds, appq, metaq, readerVars,
                   pollVars, workerVars, lockVars, mgrVars, metaVars>>

\* QEMU answers the command it was sent, behind the events it wrote before.
QemuAnswer ==
    /\ alive
    /\ asked
    /\ asked'  = FALSE
    /\ socket' = Append(socket, Reply)
    /\ UNCHANGED <<replied, cmds, appq, metaq, qemuVars, readerVars,
                   pollVars, workerVars, lockVars, mgrVars, metaVars>>

\* The process exits: the guest powered down, or QEMU crashed.
QemuExit ==
    /\ alive
    /\ alive' = FALSE
    /\ UNCHANGED <<emitted, asked, socket, replied, cmds, appq, metaq,
                   readerVars, pollVars, workerVars, lockVars, mgrVars,
                   metaVars>>

----------------------------------------------------------------------------
(* The event reader                                                        *)

\* The reader takes a message off the socket: a reply goes to the call that
\* waits for it, an event has to be sent on before the next message is read.
ReaderRead ==
    /\ reader = "reading"
    /\ socket # <<>>
    /\ socket' = Tail(socket)
    /\ \/ /\ Head(socket) = Reply
          /\ replied' = TRUE
          /\ UNCHANGED <<reader, rheld>>
       \/ /\ Head(socket) # Reply
          /\ reader' = "sending"
          /\ rheld'  = Head(socket)
          /\ UNCHANGED replied
    /\ UNCHANGED <<asked, qmp, cmds, appq, metaq, qemuVars, pollVars,
                   workerVars, lockVars, mgrVars, metaVars>>

\* Mutant of ReaderSend: try_send in place of send, its error ignored.
ReaderTrySend ==
    /\ reader = "sending"
    /\ qmp'    = IF Len(qmp) < QmpCap THEN Append(qmp, rheld) ELSE qmp
    /\ reader' = "reading"
    /\ rheld'  = Reply
    /\ UNCHANGED <<asked, socket, replied, cmds, appq, metaq, qemuVars,
                   pollVars, workerVars, lockVars, mgrVars, metaVars>>

ReaderSend ==
    /\ reader = "sending"
    /\ Len(qmp) < QmpCap
    /\ qmp'    = Append(qmp, rheld)
    /\ reader' = "reading"
    /\ rheld'  = Reply
    /\ UNCHANGED <<asked, socket, replied, cmds, appq, metaq, qemuVars,
                   pollVars, workerVars, lockVars, mgrVars, metaVars>>

\* Mutant of ReaderEof: the reader goes on reading a stream that ended.
ReaderEofIgnored ==
    /\ reader = "reading"
    /\ socket = <<>>
    /\ ~alive
    /\ UNCHANGED vars

\* The stream ends once the process is gone and all it wrote has been read.
ReaderEof ==
    /\ reader = "reading"
    /\ socket = <<>>
    /\ ~alive
    /\ reader' = "ended"
    /\ UNCHANGED <<asked, socket, replied, rheld, qmp, cmds, appq, metaq,
                   qemuVars, pollVars, workerVars, lockVars, mgrVars, metaVars>>

----------------------------------------------------------------------------
(* The ticker tasks of schedule_event                                      *)

\* The interval elapsed: the ticker starts to send its command.
TickerFire(p) ==
    /\ ticker[p] = "sleep"
    /\ ticker' = [ticker EXCEPT ![p] = "sending"]
    /\ UNCHANGED <<asked, socket, replied, cmds, appq, metaq, cancelled,
                   qemuVars, readerVars, workerVars, lockVars, mgrVars,
                   metaVars>>

\* Mutant of TickerSend: the channel were unbounded.
TickerSendUnbounded(p) ==
    /\ ticker[p] = "sending"
    /\ Len(cmds) <= CmdCap
    /\ cmds'   = Append(cmds, p)
    /\ ticker' = [ticker EXCEPT ![p] = "sleep"]
    /\ UNCHANGED <<asked, socket, replied, appq, metaq, cancelled, qemuVars,
                   readerVars, workerVars, lockVars, mgrVars, metaVars>>

\* The command is sent as soon as the channel has room.
TickerSend(p) ==
    /\ ticker[p] = "sending"
    /\ Len(cmds) < CmdCap
    /\ cmds'   = Append(cmds, p)
    /\ ticker' = [ticker EXCEPT ![p] = "sleep"]
    /\ UNCHANGED <<asked, socket, replied, appq, metaq, cancelled, qemuVars,
                   readerVars, workerVars, lockVars, mgrVars, metaVars>>

\* Mutant of TickerCancel: the send were an arm of the select as well.
TickerCancelSending(p) ==
    /\ ticker[p] # "ended"
    /\ cancelled
    /\ ticker' = [ticker EXCEPT ![p] = "ended"]
    /\ UNCHANGED <<asked, socket, replied, cmds, appq, metaq, cancelled,
                   qemuVars, readerVars, workerVars, lockVars, mgrVars,
                   metaVars>>

\* Only a ticker that is not sending sees the cancel message.
TickerCancel(p) ==
    /\ ticker[p] = "sleep"
    /\ cancelled
    /\ ticker' = [ticker EXCEPT ![p] = "ended"]
    /\ UNCHANGED <<asked, socket, replied, cmds, appq, metaq, cancelled,
                   qemuVars, readerVars, workerVars, lockVars, mgrVars,
                   metaVars>>

----------------------------------------------------------------------------
(* The worker                                                              *)

\* The worker receives Shutdown and cancels its tickers; it then only joins
\* them, and reads neither of its channels again.
WorkerShutdown ==
    /\ wphase = "select"
    /\ cmds # <<>> /\ Head(cmds) = "Shutdown"
    /\ cmds' = Tail(cmds)
    /\ cancelled' = TRUE
    /\ wphase' = "joining"
    /\ UNCHANGED <<asked, socket, replied, ticker, wcall, wev, appq, metaq,
                   qemuVars, readerVars, lockVars, mgrVars, metaVars>>

\* The worker receives a command it has to execute under the write lock.
WorkerCommand ==
    /\ wphase = "select"
    /\ cmds # <<>> /\ Head(cmds) # "Shutdown"
    /\ cmds' = Tail(cmds)
    /\ IF Head(cmds) = "QueryBlock" /\ "QueryBlock" \notin Supported
         THEN UNCHANGED <<wphase, wcall, waiters>>
         ELSE /\ wphase'  = "lock"
              /\ wcall'   = Head(cmds)
              /\ waiters' = Append(waiters, "worker")
    /\ UNCHANGED <<asked, socket, replied, wev, lock, appq, metaq, qemuVars,
                   readerVars, pollVars, mgrVars, metaVars>>

\* A command that asks QEMU or the guest agent something.  query_status and
\* query_block are not looked up again once they got here.
Asks(c) == c \in QmpPolls \/ c \in Supported

\* The worker gets the lock.  A QMP call starts if the connection is up, a
\* guest agent call on a socket of its own; any other call fails at once.
WorkerLock ==
    /\ wphase = "lock"
    /\ lock = "free"
    /\ waiters # <<>> /\ Head(waiters) = "worker"
    /\ waiters' = Tail(waiters)
    /\ \/ /\ wcall \notin GaPolls /\ Asks(wcall) /\ alive /\ reader # "ended"
          /\ lock' = "worker" /\ wphase' = "qmp" /\ asked' = TRUE
       \/ /\ wcall \in GaPolls /\ Asks(wcall)
          /\ lock' = "worker" /\ wphase' = "ga" /\ UNCHANGED asked
       \/ /\ \/ ~Asks(wcall)
             \/ wcall \notin GaPolls /\ ~(alive /\ reader # "ended")
          /\ wphase' = "select" /\ UNCHANGED <<lock, asked>>
    /\ UNCHANGED <<socket, replied, cmds, wcall, wev, appq, metaq, qemuVars,
                   readerVars, pollVars, mgrVars, metaVars>>

\* A QMP call has no timeout: it ends with its reply or with the stream.
WorkerReplied ==
    /\ wphase = "qmp"
    /\ replied \/ reader = "ended"
    /\ replied' = FALSE
    /\ asked'   = FALSE
    /\ lock'    = "free"
    /\ wphase'  = "select"
    /\ UNCHANGED <<socket, cmds, wcall, wev, waiters, appq, metaq, qemuVars,
                   readerVars, pollVars, mgrVars, metaVars>>

\* A guest agent call ends with its answer or with its timeout.
WorkerGaDone ==
    /\ wphase = "ga"
    /\ lock'   = "free"
    /\ wphase' = "select"
    /\ UNCHANGED <<asked, socket, replied, cmds, wcall, wev, waiters, appq,
                   metaq, qemuVars, readerVars, pollVars, mgrVars, metaVars>>

\* handle_event: an event is forwarded or dropped.
WorkerEvent ==
    /\ wphase = "select"
    /\ qmp # <<>>
    /\ qmp' = Tail(qmp)
    /\ IF emitted[Head(qmp)] \in Forwarded
         THEN wphase' = "app" /\ wev' = Head(qmp)
         ELSE UNCHANGED <<wphase, wev>>
    /\ UNCHANGED <<asked, socket, replied, cmds, reader, rheld, wcall, appq,
                   metaq, qemuVars, pollVars, lockVars, mgrVars, metaVars>>

\* forward_worker_event: first to the application, then to the manager.
WorkerToApp ==
    /\ wphase = "app"
    /\ appq < AppCap
    /\ appq'   = appq + 1
    /\ wphase' = "meta"
    /\ UNCHANGED <<asked, socket, replied, cmds, wcall, wev, metaq, qemuVars,
                   readerVars, pollVars, lockVars, mgrVars, metaVars>>

WorkerToManager ==
    /\ wphase = "meta"
    /\ Len(metaq) < MetaCap
    /\ metaq'  = Append(metaq, wev)
    /\ wev'    = Reply
    /\ wphase' = "select"
    /\ UNCHANGED <<asked, socket, replied, cmds, wcall, appq, qemuVars,
                   readerVars, pollVars, lockVars, mgrVars, metaVars>>

\* Mutant of WorkerReturn: the tickers are cancelled and not joined.
WorkerReturnEarly ==
    /\ wphase = "joining"
    /\ reader' = "ended"
    /\ wphase' = "done"
    /\ UNCHANGED <<asked, socket, replied, rheld, qmp, cmds, wcall, wev,
                   appq, metaq, qemuVars, pollVars, lockVars, mgrVars,
                   metaVars>>

\* All tickers joined, the worker aborts the reader and returns; the reader
\* drops the event it was sending, the QMP channel is never read again.
WorkerReturn ==
    /\ wphase = "joining"
    /\ \A p \in Polls : ticker[p] = "ended"
    /\ reader' = "ended"
    /\ wphase' = "done"
    /\ UNCHANGED <<asked, socket, replied, rheld, qmp, cmds, wcall, wev,
                   appq, metaq, qemuVars, pollVars, lockVars, mgrVars,
                   metaVars>>

\* The application reads its channel.
AppRecv ==
    /\ appq > 0
    /\ appq' = appq - 1
    /\ UNCHANGED <<asked, socket, replied, cmds, metaq, qemuVars, readerVars,
                   pollVars, workerVars, lockVars, mgrVars, metaVars>>

----------------------------------------------------------------------------
(* The manager                                                             *)

mgrKeeps == <<alive, emitted, asked, socket, replied, appq, readerVars,
              pollVars, workerVars>>      \* what no manager step changes

\* stop: the VM is looked up in vms, then its lock is asked for.
StopBegin ==
    /\ mpc = "idle"
    /\ vm = "registered"
    /\ mpc' = "stopRead"
    /\ waiters' = Append(waiters, "manager")
    /\ UNCHANGED <<mgrKeeps, cmds, metaq, lock, mev, mseen, ctl, vm, metaVars>>

\* stop reads the pid; without a worker in vmctl it returns NotFound.
StopReadPid ==
    /\ mpc = "stopRead"
    /\ lock = "free"
    /\ waiters # <<>> /\ Head(waiters) = "manager"
    /\ waiters' = Tail(waiters)
    /\ mpc' = IF ctl THEN "stopSend" ELSE "idle"
    /\ UNCHANGED <<mgrKeeps, cmds, metaq, lock, mev, mseen, ctl, vm, metaVars>>

\* stop sends SystemPowerdown to the worker.
StopSend ==
    /\ mpc = "stopSend"
    /\ Len(cmds) < CmdCap
    /\ cmds' = Append(cmds, "Powerdown")
    /\ mpc'  = "stopWait"
    /\ UNCHANGED <<mgrKeeps, metaq, lockVars, mev, mseen, ctl, vm, metaVars>>

\* wait_for_process_exit: the process is gone.
StopExited ==
    /\ mpc = "stopWait"
    /\ ~alive
    /\ ctl' = FALSE
    /\ mpc' = "stopShut"
    /\ UNCHANGED <<mgrKeeps, cmds, metaq, lockVars, mev, mseen, vm, metaVars>>

\* Mutant of StopTimeout: the timeout is ignored and the stop completed.
StopTimeoutIgnored ==
    /\ mpc = "stopWait"
    /\ alive
    /\ ctl' = FALSE
    /\ mpc' = "stopShut"
    /\ UNCHANGED <<mgrKeeps, cmds, metaq, lockVars, mev, mseen, vm, metaVars>>

\* wait_for_process_exit: the deadline passed, stop returns Timeout.
StopTimeout ==
    /\ mpc = "stopWait"
    /\ alive
    /\ mpc' = "idle"
    /\ UNCHANGED <<mgrKeeps, cmds, metaq, lockVars, mev, mseen, ctl, vm,
                   metaVars>>

\* The worker is sent Shutdown, by stop or by shutdown.
SendShutdown ==
    /\ mpc \in {"stopShut", "shutSend"}
    /\ Len(cmds) < CmdCap
    /\ cmds' = Append(cmds, "Shutdown")
    /\ mpc'  = IF mpc = "stopShut" THEN "stopJoin" ELSE "shutJoin"
    /\ UNCHANGED <<mgrKeeps, metaq, lockVars, mev, mseen, ctl, vm, metaVars>>

\* stop joins the worker and asks for the lock again.
StopJoin ==
    /\ mpc = "stopJoin"
    /\ wphase = "done"
    /\ mpc' = "stopLock"
    /\ waiters' = Append(waiters, "manager")
    /\ UNCHANGED <<mgrKeeps, cmds, metaq, lock, mev, mseen, ctl, vm, metaVars>>

\* The manager gets the read lock it asked for.
ManagerLock ==
    /\ mpc \in {"stopLock", "shutLock", "drainLock"}
    /\ lock = "free"
    /\ waiters # <<>> /\ Head(waiters) = "manager"
    /\ waiters' = Tail(waiters)
    /\ lock' = "manager"
    /\ mpc' = CASE mpc = "stopLock"  -> "stopState"
                [] mpc = "shutLock"  -> "shutState"
                [] OTHER             -> "drainRecord"
    /\ mseen' = IF mpc = "shutLock" THEN alive ELSE mseen
    /\ UNCHANGED <<mgrKeeps, cmds, metaq, mev, ctl, vm, metaVars>>

\* stop persists Stopped.
StopState ==
    /\ mpc = "stopState"
    /\ mstate' = "Stopped"
    /\ mpc' = "stopRecord"
    /\ UNCHANGED <<mgrKeeps, cmds, metaq, lockVars, mev, mseen, ctl, vm,
                   recpid, applied, lost>>

\* stop persists the record without a pid, forgets the VM and returns.
StopRecord ==
    /\ mpc = "stopRecord"
    /\ recpid' = FALSE
    /\ vm'   = "stopped"
    /\ lock' = "free"
    /\ mpc'  = "idle"
    /\ UNCHANGED <<mgrKeeps, cmds, metaq, waiters, mev, mseen, ctl, mstate,
                   applied, lost>>

\* An update of the metadata fails in stop: the VM stays in vms only.
StopMetaError ==
    /\ MetaMayFail
    /\ mpc \in {"stopState", "stopRecord"}
    /\ lock' = "free"
    /\ mpc'  = "idle"
    /\ UNCHANGED <<mgrKeeps, cmds, metaq, waiters, mev, mseen, ctl, vm,
                   metaVars>>

\* shutdown takes the whole of vmctl.
ShutdownBegin ==
    /\ mpc = "idle"
    /\ ctl
    /\ ctl' = FALSE
    /\ mpc' = "shutSend"
    /\ UNCHANGED <<mgrKeeps, cmds, metaq, lockVars, mev, mseen, vm, metaVars>>

\* shutdown joins the worker and removes the VM before it asks for the lock.
ShutdownJoin ==
    /\ mpc = "shutJoin"
    /\ wphase = "done"
    /\ vm'  = "shutdown"
    /\ mpc' = "shutLock"
    /\ waiters' = Append(waiters, "manager")
    /\ UNCHANGED <<mgrKeeps, cmds, metaq, lock, mev, mseen, ctl, metaVars>>

\* shutdown persists what it saw of the process; an error is only logged.
ShutdownState ==
    /\ mpc = "shutState"
    /\ \/ mstate' = IF mseen THEN "Running" ELSE "Stopped"
       \/ MetaMayFail /\ UNCHANGED mstate
    /\ mpc' = "shutRecord"
    /\ UNCHANGED <<mgrKeeps, cmds, metaq, lockVars, mev, mseen, ctl, vm,
                   recpid, applied, lost>>

ShutdownRecord ==
    /\ mpc = "shutRecord"
    /\ \/ recpid' = mseen
       \/ MetaMayFail /\ UNCHANGED recpid
    /\ lock' = "free"
    /\ mpc'  = "idle"
    /\ UNCHANGED <<mgrKeeps, cmds, metaq, waiters, mev, mseen, ctl, vm,
                   mstate, applied, lost>>

\* drain_worker_events runs until the channel is empty.
DrainBegin ==
    /\ mpc = "idle"
    /\ metaq # <<>>
    /\ mpc' = "drain"
    /\ UNCHANGED <<mgrKeeps, cmds, metaq, lockVars, mev, mseen, ctl, vm,
                   metaVars>>

DrainTake ==
    /\ mpc = "drain"
    /\ metaq # <<>>
    /\ mev'   = Head(metaq)
    /\ metaq' = Tail(metaq)
    /\ mpc'   = "drainState"
    /\ UNCHANGED <<mgrKeeps, cmds, lockVars, mseen, ctl, vm, metaVars>>

DrainEnd ==
    /\ mpc = "drain"
    /\ metaq = <<>>
    /\ mpc' = "idle"
    /\ UNCHANGED <<mgrKeeps, cmds, metaq, lockVars, mev, mseen, ctl, vm,
                   metaVars>>

\* The state of the event is persisted; the record only of a VM in vms.
DrainState ==
    /\ mpc = "drainState"
    /\ mstate'  = StateOf(emitted[mev])
    /\ applied' = Append(applied, mev)
    /\ IF vm = "registered"
         THEN mpc' = "drainLock" /\ waiters' = Append(waiters, "manager")
              /\ UNCHANGED mev
         ELSE mpc' = "drain" /\ mev' = Reply /\ UNCHANGED waiters
    /\ UNCHANGED <<mgrKeeps, cmds, metaq, lock, mseen, ctl, vm, recpid, lost>>

\* Mutant of DrainRecord: a paused VM is recorded without a pid.
DrainRecordRunningOnly ==
    /\ mpc = "drainRecord"
    /\ recpid' = (StateOf(emitted[mev]) = "Running")
    /\ lock' = "free"
    /\ mev'  = Reply
    /\ mpc'  = "drain"
    /\ UNCHANGED <<mgrKeeps, cmds, metaq, waiters, mseen, ctl, vm, mstate,
                   applied, lost>>

DrainRecord ==
    /\ mpc = "drainRecord"
    /\ recpid' = (StateOf(emitted[mev]) \in {"Running", "Paused"})
    /\ lock' = "free"
    /\ mev'  = Reply
    /\ mpc'  = "drain"
    /\ UNCHANGED <<mgrKeeps, cmds, metaq, waiters, mseen, ctl, vm, mstate,
                   applied, lost>>

\* Mutant of DrainError: the event goes back into the channel to be retried.
DrainErrorRequeue ==
    /\ MetaMayFail
    /\ mpc \in {"drainState", "drainRecord"}
    /\ Len(metaq) < MetaCap
    /\ metaq' = Append(metaq, mev)
    /\ mev'   = Reply
    /\ lock'  = IF mpc = "drainRecord" THEN "free" ELSE lock
    /\ mpc'   = "idle"
    /\ UNCHANGED <<mgrKeeps, cmds, waiters, mseen, ctl, vm, metaVars>>

\* An update of the metadata fails in drain: the event it took is gone, and
\* what is left in the channel waits for the next call.
DrainError ==
    /\ MetaMayFail
    /\ mpc \in {"drainState", "drainRecord"}
    /\ IF mpc = "drainState"
         THEN lost' = lost \cup {mev} /\ UNCHANGED lock
         ELSE lock' = "free" /\ UNCHANGED lost
    /\ mev'  = Reply
    /\ mpc'  = "idle"
    /\ UNCHANGED <<mgrKeeps, cmds, metaq, waiters, mseen, ctl, vm, mstate,
                   recpid, applied>>

\* discover_existing_from_metadata: a process found at the VM's pid registers the
\* VM, with or without a worker, and after QEMU has died it may be another's that
\* was given the pid; without one the state is persisted as Stopped.
Discover ==
    /\ mpc = "idle"
    /\ \/ vm' = "registered" /\ UNCHANGED mstate
       \/ ~alive /\ mstate' = "Stopped" /\ UNCHANGED vm
    /\ UNCHANGED <<mgrKeeps, cmds, metaq, lockVars, mpc, mev, mseen, ctl, recpid,
                   applied, lost>>

\* allocate persists the record of a VM, which may run, with the pid found.
Allocate ==
    /\ mpc = "idle"
    /\ recpid' \in {TRUE, alive}
    /\ UNCHANGED <<mgrKeeps, cmds, metaq, lockVars, mgrVars, mstate, applied, lost>>

----------------------------------------------------------------------------
Qemu    == (\E e \in Events : QemuEmit(e)) \/ QemuAnswer \/ QemuExit
Reader  == ReaderRead \/ ReaderSend \/ ReaderEof
Ticker(p) == TickerFire(p) \/ TickerSend(p) \/ TickerCancel(p)
Worker  == \/ WorkerShutdown \/ WorkerCommand \/ WorkerLock \/ WorkerReplied
           \/ WorkerGaDone \/ WorkerEvent \/ WorkerToApp \/ WorkerToManager
           \/ WorkerReturn
Stop    == \/ StopReadPid \/ StopSend \/ StopExited \/ StopTimeout
           \/ StopJoin \/ StopState \/ StopRecord \/ StopMetaError
Shutdown == ShutdownJoin \/ ShutdownState \/ ShutdownRecord
Drain   == DrainTake \/ DrainEnd \/ DrainState \/ DrainRecord \/ DrainError
Begin   == StopBegin \/ ShutdownBegin \/ DrainBegin
Others  == Discover \/ Allocate

Next == \/ Qemu \/ Reader \/ (\E p \in Polls : Ticker(p)) \/ Worker \/ AppRecv
        \/ Begin \/ Stop \/ Shutdown \/ Drain \/ SendShutdown \/ ManagerLock
        \/ Others

Spec == Init /\ [][Next]_vars

\* Every task runs, a sleeping ticker wakes, QEMU answers a command while it
\* lives and the application reads its channel; the senders that wait for
\* room on one channel are served in turn (tokio's semaphores are fair), so a
\* manager that waits while tickers compete gets its slot.  Nothing obliges
\* the application to call the manager, QEMU to emit, or the guest to exit.
Fairness ==
    /\ WF_vars(QemuAnswer) /\ WF_vars(Reader) /\ WF_vars(Worker)
    /\ \A p \in Polls : WF_vars(Ticker(p)) /\ SF_vars(TickerCancel(p))
    /\ WF_vars(AppRecv)
    /\ SF_vars(StopSend) /\ SF_vars(SendShutdown)
    /\ WF_vars(Stop) /\ WF_vars(Shutdown) /\ WF_vars(Drain)
    /\ WF_vars(ManagerLock)

FairSpec == Spec /\ Fairness

----------------------------------------------------------------------------
(* Properties                                                              *)

Phases == {"select", "lock", "qmp", "ga", "app", "meta", "joining", "done"}
StopPcs  == {"stopRead", "stopSend", "stopWait", "stopShut", "stopJoin",
             "stopLock", "stopState", "stopRecord"}
ShutPcs  == {"shutSend", "shutJoin", "shutLock", "shutState", "shutRecord"}
DrainPcs == {"drain", "drainState", "drainLock", "drainRecord"}

FlagsOK ==
    /\ alive \in BOOLEAN /\ asked \in BOOLEAN /\ replied \in BOOLEAN
    /\ cancelled \in BOOLEAN /\ mseen \in BOOLEAN /\ ctl \in BOOLEAN
    /\ recpid \in BOOLEAN

QueuesOK ==
    /\ emitted \in Seq(Events) /\ Len(emitted) <= MaxEvents
    /\ socket \in Seq(Message)
    /\ qmp \in Seq(Message) /\ Len(qmp) <= QmpCap
    /\ cmds \in Seq(Commands) /\ Len(cmds) <= CmdCap
    /\ appq \in 0 .. AppCap
    /\ metaq \in Seq(Message) /\ Len(metaq) <= MetaCap
    /\ waiters \in Seq({"worker", "manager"})
    /\ applied \in Seq(Message) /\ lost \subseteq Message

ControlOK ==
    /\ reader \in {"reading", "sending", "ended"} /\ rheld \in Message
    /\ ticker \in [Polls -> {"sleep", "sending", "ended"}]
    /\ wphase \in Phases /\ wcall \in Commands /\ wev \in Message
    /\ lock \in {"free", "worker", "manager"}
    /\ mpc \in {"idle"} \cup StopPcs \cup ShutPcs \cup DrainPcs
    /\ mev \in Message
    /\ vm \in {"registered", "stopped", "shutdown"}
    /\ mstate \in States

\* Every variable has a value of its type, and no channel more than it holds.
TypeOK == FlagsOK /\ QueuesOK /\ ControlOK

Waiting(q, x) == \E i \in DOMAIN q : q[i] = x
Once(q)       == \A i, j \in DOMAIN q : q[i] = q[j] => i = j

\* The write lock is held exactly during a QMP or guest agent call, the read
\* lock exactly while the manager persists something about the VM, and the
\* queue holds exactly who waits, once each (manager.rs:363, 386, 413, 540).
LockOK ==
    /\ lock = "worker"  <=> wphase \in {"qmp", "ga"}
    /\ lock = "manager" <=> mpc \in {"stopState", "stopRecord", "shutState",
                                     "shutRecord", "drainRecord"}
    /\ Waiting(waiters, "worker")  <=> wphase = "lock"
    /\ Waiting(waiters, "manager") <=> mpc \in {"stopRead", "stopLock",
                                                "shutLock", "drainLock"}
    /\ Once(waiters)

\* What is between QEMU and the metadata, oldest first, with a Reply where a task
\* holds no event and where the socket carries a reply.  The held event of drain
\* counts until its state is persisted.
IsEvent(m) == m # Reply
Taken      == IF mpc = "drainState" THEN <<mev>> ELSE <<>>
InFlight   == metaq \o <<wev>> \o qmp \o <<rheld>> \o socket
Pipeline   == applied \o Taken \o InFlight

\* The events of a sequence are in the order in which QEMU emitted them.
Sorted(s) == \A i, j \in DOMAIN s :
                 i < j /\ IsEvent(s[i]) /\ IsEvent(s[j]) => s[i] < s[j]

\* The states are persisted in the order QEMU emitted the events and each at
\* most once, through four queues and two tasks that hold one event each,
\* whatever drain fails and however often it is called.
EventsInOrder == Sorted(Pipeline)

\* While the worker runs, an event it forwards is on its way or persisted: no
\* full channel and no blocked task drops one, only a failed drain does.
NoEventLost ==
    wphase # "done" =>
        \A n \in DOMAIN emitted :
            emitted[n] \in Forwarded => n \in ToSet(Pipeline) \cup lost

\* A worker that returned leaves no task behind that could still send on its
\* channels or hold its lock: stop_scheduled_tasks and stop_event_reader join.
WorkerLeavesNothing ==
    wphase = "done" => /\ reader = "ended"
                       /\ \A p \in Polls : ticker[p] = "ended"
                       /\ lock # "worker"

\* stop reports a VM stopped, in the metadata and by forgetting it, only once
\* its process has exited and its worker has returned.
StoppedMeansGone ==
    mpc \in {"stopState", "stopRecord"} \/ vm = "stopped" =>
        ~alive /\ wphase = "done"

\* Between two calls, as long as QEMU lives: if the metadata says that the VM is
\* running or paused, its record has the pid.  drain, stop and shutdown persist
\* both, discovery the state and allocate the record alone, and after a shutdown
\* the events that come late have no entry in vms to write a record from.
RunningHasPid ==
    ~MetaMayFail /\ mpc = "idle" /\ alive =>
        (mstate \in {"Running", "Paused"} => recpid)

\* The manager waits for something only the worker can give it.
AwaitsWorker ==
    \/ mpc \in {"stopJoin", "shutJoin"}
    \/ mpc \in {"stopSend", "stopShut", "shutSend"} /\ Len(cmds) = CmdCap

AwaitsLock == mpc \in {"stopRead", "drainLock"}

\* The worker waits for room in the channel only the manager empties.
StuckOnMetadata == /\ wphase = "meta"
                   /\ Len(metaq) = MetaCap
                   /\ AwaitsWorker

\* The worker joins a ticker that waits for room in the channel the worker
\* no longer reads.
StuckOnTicker == /\ wphase = "joining"
                 /\ Len(cmds) = CmdCap
                 /\ \E p \in Polls : ticker[p] = "sending"
                 /\ AwaitsWorker

\* The worker waits for a reply behind an event the reader cannot send on,
\* because the channel the worker does not read meanwhile is full.
StuckOnReader == /\ wphase = "qmp" /\ ~replied
                 /\ reader = "sending"
                 /\ Len(qmp) = QmpCap
                 /\ AwaitsWorker \/ AwaitsLock

Stuck == StuckOnMetadata \/ StuckOnTicker \/ StuckOnReader

\* A call of the manager returns, or comes to one of the three circular waits
\* above: there is no other way for stop, shutdown and drain to hang.
CallReturnsOrStuck == mpc # "idle" ~> (mpc = "idle" \/ Stuck)

\* Each of them is for ever: not even the exit of QEMU ends it.
StuckForever == [][Stuck => Stuck']_vars

=============================================================================
