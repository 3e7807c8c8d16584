---------------------------- MODULE QemuManager ----------------------------
(***************************************************************************)
(* The QemuManager over one virtual machine: its QEMU processes with the   *)
(* pid file and the QMP socket they leave, the entries of the VM in vms    *)
(* and vmctl, its record in the metadata, and the calls of the manager,    *)
(* over crashes and restarts of the process the manager runs in.  The      *)
(* calls take &mut self and treat the VMs one by one, so one VM is         *)
(* followed.  What the worker does with its VM is in QemuWorker; here it   *)
(* is a task that holds the QMP connection until it is joined.             *)
(*                                                                         *)
(* QEMU serves one QMP client at a time.  The event reader task holds the  *)
(* connection, from the moment it is spawned (comm.rs:70) until it is      *)
(* aborted or the stream ends; a handle that is dropped does not abort it. *)
(*                                                                         *)
(* A start looks for a process with exactly its command line, and a VM may *)
(* be asked for with more than one: create, allocate and the discovery of  *)
(* directories each come with a request of their own, and what the manager *)
(* starts by itself has the command line of an entry or a record.  So a VM *)
(* may come to have several QEMUs, which share the paths of its files.     *)
(*                                                                         *)
(* Pids are given out in order and not reused.  Of the metadata the model  *)
(* keeps the command line in the record of the VM, which is all the        *)
(* manager reads back; what the updates write is in QemuWorker.            *)
(***************************************************************************)
EXTENDS Naturals

CONSTANTS
    Lines,        \* the command lines the VM may be asked for with
    NoLine,       \* no command line
    GaLines,      \* those with a guest agent, which may not answer in time
    MaxPid,       \* bound: the QEMU processes ever spawned
    MetaMayFail,  \* an update of the metadata may fail
    CanCrash      \* the process of the manager may crash

ASSUME ManagerAssumption == /\ NoLine \notin Lines /\ GaLines \subseteq Lines
                            /\ MaxPid \in Nat
                            /\ {MetaMayFail, CanCrash} \subseteq BOOLEAN

Pids == 1 .. MaxPid
None == 0

VARIABLES
    qemu,     \* pid -> "unused" | "boot" | "pid" | "up" | "gone"
    line,     \* pid -> the command line it was spawned with
    pidfile,  \* the pid in the pid file
    sock,     \* the process whose QMP socket is at the socket path
    conn,     \* pid -> "free" | "call" | "worker" | "leaked", its QMP client
    vms,      \* the pid in the VM's entry of vms
    entry,    \* the command line in that entry
    rx,       \* the entry still has its event receiver
    vmctl,    \* "none" | "run" | "ended", the worker in vmctl
    wpid,     \* the process that worker is connected to
    record,   \* the command line in the VM's record in the metadata
    pc,       \* where the manager is
    ret,      \* where it goes on when it has not attached
    call,     \* "create" | "watch", who started the VM
    want,     \* the command line a call is about
    cur,      \* the process a call is connected to
    hpid,     \* the pid in the handle of a call
    asked     \* history: the command lines the application asked for

osVars   == <<qemu, line, pidfile, sock>>
regVars  == <<vms, entry, rx, vmctl, wpid>>
callVars == <<call, want, cur, hpid, asked>>
vars == <<qemu, line, pidfile, sock, conn, vms, entry, rx, vmctl, wpid, record,
          pc, ret, call, want, cur, hpid, asked>>

Pcs == {"idle", "reconcile", "remove", "register", "allocate", "attach",
        "connect", "spawn", "connectNew", "monitor", "record", "ga", "verify",
        "work", "stopWait", "stopRecord", "shutRecord"}

\* Every variable has a value of its type, a VM with a worker in vmctl has its
\* entry in vms, and no command line is in use that nobody asked for.
TypeOK ==
    /\ qemu \in [Pids -> {"unused", "boot", "pid", "up", "gone"}]
    /\ {pidfile, sock, vms, wpid, cur, hpid} \subseteq Pids \cup {None}
    /\ conn \in [Pids -> {"free", "call", "worker", "leaked"}]
    /\ rx \in BOOLEAN /\ asked \subseteq Lines
    /\ line \in [Pids -> asked \cup {NoLine}]
    /\ {entry, record, want} \subseteq asked \cup {NoLine}
    /\ vmctl \in {"none", "run", "ended"}
    /\ vmctl # "none" => vms # None /\ wpid # None
    /\ pc \in Pcs /\ ret \in {"attach", "spawn", "register", "allocate"}
    /\ call \in {"create", "watch"}

Init ==
    /\ qemu = [p \in Pids |-> "unused"] /\ line = [p \in Pids |-> NoLine]
    /\ pidfile = None /\ sock = None /\ conn = [p \in Pids |-> "free"]
    /\ vms = None /\ entry = NoLine /\ rx = FALSE
    /\ vmctl = "none" /\ wpid = None /\ record = NoLine
    /\ pc = "idle" /\ ret = "spawn" /\ call = "create" /\ want = NoLine
    /\ cur = None /\ hpid = None /\ asked = {}

Live(p) == p # None /\ qemu[p] \in {"boot", "pid", "up"}

\* A call returns, and what it knew goes with it.
Return == /\ pc' = "idle" /\ ret' = "spawn" /\ call' = "create" /\ want' = NoLine
          /\ cur' = None /\ hpid' = None /\ UNCHANGED asked

\* live_pid_from_pidfile, None if there is none.
LivePid == IF Live(pidfile) THEN pidfile ELSE None

----------------------------------------------------------------------------
(* QEMU                                                                    *)

\* QEMU writes its pid file, later it opens its socket.  It takes the paths over
\* from another QEMU of the VM, or it gives up because of that one and exits.
QemuWritePid(p) ==
    /\ qemu[p] = "boot"
    /\ qemu' = [qemu EXCEPT ![p] = "pid"]
    /\ pidfile' = p
    /\ UNCHANGED <<line, sock, conn, regVars, record, pc, ret, callVars>>

QemuListen(p) ==
    /\ qemu[p] = "pid"
    /\ qemu' = [qemu EXCEPT ![p] = "up"]
    /\ sock' = p
    /\ UNCHANGED <<line, pidfile, conn, regVars, record, pc, ret, callVars>>

\* QEMU exits, and removes what is at its paths unless it crashed.  Its stream
\* ends, and so does a reader that nobody joins.
QemuExit(p) ==
    /\ Live(p)
    /\ qemu' = [qemu EXCEPT ![p] = "gone"]
    /\ pidfile' \in {pidfile, None} /\ sock' \in {sock, None}
    /\ conn' = [conn EXCEPT ![p] = IF @ = "leaked" THEN "free" ELSE @]
    /\ UNCHANGED <<line, regVars, record, pc, ret, callVars>>

----------------------------------------------------------------------------
(* The beginning of a call                                                 *)

\* A call comes with a request, which says the command line.
Ask(l) == want' = l /\ asked' = asked \cup {l}

\* existing_or_new first reconciles the files, for create, for allocate and for
\* a directory that discover_existing_from_runtime_dir finds.
CreateBegin ==
    /\ pc = "idle"
    /\ \E l \in Lines : Ask(l)
    /\ call' = "create"
    /\ pc' = "reconcile" /\ ret' = "attach"
    /\ UNCHANGED <<osVars, conn, regVars, record, cur, hpid>>

AllocateBegin ==
    /\ pc = "idle"
    /\ \E l \in Lines : Ask(l)
    /\ pc' = "reconcile" /\ ret' = "allocate"
    /\ UNCHANGED <<osVars, conn, regVars, record, call, cur, hpid>>

DiscoverRuntime ==
    /\ pc = "idle"
    /\ \E l \in Lines : Ask(l)
    /\ pc' = "reconcile" /\ ret' = "register"
    /\ UNCHANGED <<osVars, conn, regVars, record, call, cur, hpid>>

\* discover_existing_from_metadata finds the record of the VM.
DiscoverMetadata ==
    /\ pc = "idle"
    /\ record # NoLine
    /\ want' = record
    /\ pc' = "register"
    /\ UNCHANGED <<osVars, conn, regVars, record, ret, call, cur, hpid, asked>>

\* run_watchers comes to the VM, which has no worker.  It tries to attach, and
\* then calls fx_start, which tries to attach first.
WatchBegin ==
    /\ pc = "idle"
    /\ vms # None
    /\ vmctl = "none"
    /\ call' = "watch" /\ want' = entry
    /\ pc' = "attach" /\ ret' = "attach"
    /\ UNCHANGED <<osVars, conn, regVars, record, cur, hpid, asked>>

----------------------------------------------------------------------------
(* Reconciliation, allocate and discovery                                  *)

\* Mutant of Reconcile: the files are removed whether or not a process runs.
ReconcileUnchecked ==
    /\ pc = "reconcile"
    /\ pc' = "remove"
    /\ UNCHANGED <<osVars, conn, regVars, record, ret, callVars>>

\* On to what follows the reconciliation or the attempt to attach.
GoOn == pc' = ret /\ ret' = "spawn"

\* reconcile_existing_files looks at the pid first and then removes the files.
Reconcile ==
    /\ pc = "reconcile"
    /\ IF LivePid # None THEN GoOn ELSE pc' = "remove" /\ UNCHANGED ret
    /\ UNCHANGED <<osVars, conn, regVars, record, callVars>>

Remove ==
    /\ pc = "remove"
    /\ pidfile' = None /\ sock' = None
    /\ GoOn
    /\ UNCHANGED <<qemu, line, conn, regVars, record, callVars>>

\* allocate records the VM, unless its storage or the metadata fails.
Allocate ==
    /\ pc = "allocate"
    /\ record' \in {want, record}
    /\ Return
    /\ UNCHANGED <<osVars, conn, regVars>>

\* A live VM gets an entry in vms, with a new receiver, in place of the one it
\* may have.
Register ==
    /\ pc = "register"
    /\ IF LivePid # None THEN vms' = LivePid /\ entry' = want /\ rx' = TRUE
                         ELSE UNCHANGED <<vms, entry, rx>>
    /\ Return
    /\ UNCHANGED <<osVars, conn, vmctl, wpid, record>>

----------------------------------------------------------------------------
(* Starting or attaching: try_attach_existing, fx_start,                   *)
(* try_connect_ctl_socket and try_monitor_qemu_with_api                    *)

\* A live pid file and a socket: the connection is tried.
AttachFound ==
    /\ pc = "attach"
    /\ LivePid # None
    /\ IF sock # None THEN pc' = "connect" /\ UNCHANGED ret ELSE GoOn
    /\ UNCHANGED <<osVars, conn, regVars, record, callVars>>

AttachStale ==
    /\ pc = "attach"
    /\ LivePid = None
    /\ pc' = "reconcile"
    /\ UNCHANGED <<osVars, conn, regVars, record, ret, callVars>>

\* Mutant of Connectable: the connections the manager holds are not
\* counted, as if QEMU served any number of clients.
ConnectableBusy(p) == p # None /\ qemu[p] = "up"

\* try_connect_ctl_socket: QEMU listens at the path and has no other client.
Connectable(p) == p # None /\ qemu[p] = "up" /\ conn[p] = "free"

Connect ==
    /\ pc \in {"connect", "connectNew"}
    /\ Connectable(sock)
    /\ conn' = [conn EXCEPT ![sock] = "call"]
    /\ cur' = sock
    /\ pc' = "monitor"
    /\ UNCHANGED <<osVars, regVars, record, ret, call, want, hpid, asked>>

\* Time is up: an attach goes on to start, a start fails.
AttachTimeout ==
    /\ pc = "connect"
    /\ ~Connectable(sock)
    /\ GoOn
    /\ UNCHANGED <<osVars, conn, regVars, record, callVars>>

StartTimeout ==
    /\ pc = "connectNew"
    /\ ~Connectable(sock)
    /\ Return
    /\ UNCHANGED <<osVars, conn, regVars, record>>

\* Another QEMU, with the command line of the call.
NewQemu ==
    \E p \in Pids : /\ qemu[p] = "unused"
                    /\ \A q \in Pids : q < p => qemu[q] # "unused"
                    /\ qemu' = [qemu EXCEPT ![p] = "boot"]
                    /\ line' = [line EXCEPT ![p] = want]

\* Mutant of Spawn: the processes are not scanned for the command line.
SpawnUnscanned ==
    /\ pc = "spawn"
    /\ NewQemu
    /\ pc' = "connectNew"
    /\ UNCHANGED <<pidfile, sock, conn, regVars, record, ret, callVars>>

\* The scan of the processes finds a QEMU with the command line of the call; one
\* with another command line it does not see.
Scanned == \E p \in Pids : Live(p) /\ line[p] = want

\* The system command: spawn QEMU unless a process with its command line runs.
Spawn ==
    /\ pc = "spawn"
    /\ IF Scanned THEN UNCHANGED <<qemu, line>> ELSE NewQemu
    /\ pc' = "connectNew"
    /\ UNCHANGED <<pidfile, sock, conn, regVars, record, ret, callVars>>

\* All MaxPid processes have been spawned: the bound of the model fails it.
SpawnBound ==
    /\ pc = "spawn"
    /\ ~Scanned /\ \A p \in Pids : qemu[p] # "unused"
    /\ Return
    /\ UNCHANGED <<osVars, conn, regVars, record>>

\* A call that fails once the reader was spawned drops the handle; the reader
\* goes on until its stream ends.
Fail ==
    /\ conn' = [conn EXCEPT ![cur] = "leaked"]
    /\ Return
    /\ UNCHANGED <<osVars, regVars, record>>

\* try_monitor_qemu_with_api: the pid file names a process and QEMU answers.
Monitor ==
    /\ pc = "monitor"
    /\ LivePid # None
    /\ qemu[cur] = "up"
    /\ hpid' = LivePid
    /\ pc' = "record"
    /\ UNCHANGED <<osVars, conn, regVars, record, ret, call, want, cur, asked>>

MonitorError == pc = "monitor" /\ (LivePid = None \/ qemu[cur] # "up") /\ Fail

\* The metadata is told the state, and then the record.
RecordRunning ==
    /\ pc = "record"
    /\ record' = want
    /\ pc' = CASE want \in GaLines -> "ga"
               [] call = "create"  -> "verify"
               [] OTHER            -> "work"
    /\ UNCHANGED <<osVars, conn, regVars, ret, callVars>>

MetaError == MetaMayFail /\ pc = "record" /\ Fail

\* attach_guest_agent; an agent that is not up yet fails the call.
GuestAgent ==
    /\ pc = "ga"
    /\ qemu[cur] = "up"
    /\ pc' = IF call = "create" THEN "verify" ELSE "work"
    /\ UNCHANGED <<osVars, conn, regVars, record, ret, callVars>>

GuestAgentError == pc = "ga" /\ Fail

\* fx_op_verify: no process is no error, but a process that does not answer.
Verify ==
    /\ pc = "verify"
    /\ qemu[cur] = "up" \/ ~Live(hpid)
    /\ pc' = "work"
    /\ UNCHANGED <<osVars, conn, regVars, record, ret, callVars>>

VerifyError == pc = "verify" /\ qemu[cur] # "up" /\ Fail

\* The new worker of create has an event receiver; it takes the place of a
\* worker that vmctl has, which runs on.
CreateWork ==
    /\ pc = "work" /\ call = "create"
    /\ conn' = [conn EXCEPT ![cur] = "worker"]
    /\ vms' = hpid /\ entry' = want /\ rx' = FALSE
    /\ vmctl' = "run" /\ wpid' = cur
    /\ Return
    /\ UNCHANGED <<osVars, record>>

\* Mutant of WatchWork: the entry keeps the pid it was discovered with.
WatchWorkKeepsPid ==
    /\ pc = "work" /\ call = "watch"
    /\ conn' = [conn EXCEPT ![cur] = IF rx THEN "worker" ELSE "free"]
    /\ rx' = FALSE
    /\ vmctl' = IF rx THEN "run" ELSE "ended"
    /\ wpid' = cur
    /\ Return
    /\ UNCHANGED <<osVars, vms, entry, record>>

\* The worker of run_watchers returns at once if an earlier worker has taken
\* the receiver of the entry, and stops its reader.
WatchWork ==
    /\ pc = "work" /\ call = "watch"
    /\ conn' = [conn EXCEPT ![cur] = IF rx THEN "worker" ELSE "free"]
    /\ vms' = hpid /\ rx' = FALSE
    /\ vmctl' = IF rx THEN "run" ELSE "ended"
    /\ wpid' = cur
    /\ Return
    /\ UNCHANGED <<osVars, entry, record>>

----------------------------------------------------------------------------
(* stop                                                                    *)

\* stop sends the powerdown; to a worker that has ended it cannot.
StopBegin ==
    /\ pc = "idle"
    /\ vms # None
    /\ vmctl = "run"
    /\ pc' = "stopWait"
    /\ UNCHANGED <<osVars, conn, regVars, record, ret, callVars>>

WorkerEnds == conn' = [p \in Pids |->
                          IF p = wpid /\ conn[p] = "worker" THEN "free" ELSE conn[p]]

\* Mutant of JoinWorker: the worker that was joined stays in vmctl.
JoinWorkerKept == WorkerEnds /\ UNCHANGED vmctl

\* The worker in vmctl is told to shut down and joined.
JoinWorker == WorkerEnds /\ vmctl' = "none"

StopExited ==
    /\ pc = "stopWait"
    /\ ~Live(vms)
    /\ JoinWorker
    /\ pc' = "stopRecord"
    /\ UNCHANGED <<osVars, vms, entry, rx, wpid, record, ret, callVars>>

\* Mutant of StopTimeout: the worker is taken out of vmctl before the wait.
StopTimeoutForgets ==
    /\ pc = "stopWait"
    /\ Live(vms)
    /\ vmctl' = "none"
    /\ Return
    /\ UNCHANGED <<osVars, conn, vms, entry, rx, wpid, record>>

StopTimeout ==
    /\ pc = "stopWait"
    /\ Live(vms)
    /\ Return
    /\ UNCHANGED <<osVars, conn, regVars, record>>

StopRecord ==
    /\ pc = "stopRecord"
    /\ record' = entry
    /\ vms' = None /\ entry' = NoLine /\ rx' = FALSE
    /\ Return
    /\ UNCHANGED <<osVars, conn, vmctl, wpid>>

\* An update fails: the entry in vms stays, without its event receiver.
StopMetaError ==
    /\ MetaMayFail
    /\ pc = "stopRecord"
    /\ Return
    /\ UNCHANGED <<osVars, conn, regVars, record>>

----------------------------------------------------------------------------
(* shutdown                                                                *)

ShutdownJoin ==
    /\ pc = "idle"
    /\ vmctl # "none"
    /\ JoinWorker
    /\ vms' = None /\ entry' = NoLine /\ rx' = FALSE
    /\ want' = entry
    /\ pc' = "shutRecord"
    /\ UNCHANGED <<osVars, wpid, record, ret, call, cur, hpid, asked>>

\* The errors of the two updates are only logged.
ShutdownRecord ==
    /\ pc = "shutRecord"
    /\ record' \in {want} \cup (IF MetaMayFail THEN {record} ELSE {})
    /\ Return
    /\ UNCHANGED <<osVars, conn, regVars>>

----------------------------------------------------------------------------
\* drain_worker_events persists an event of a worker the VM has or has had: the
\* record is that of the entry.
Drain ==
    /\ pc = "idle"
    /\ vms # None /\ wpid # None
    /\ record' = entry
    /\ UNCHANGED <<osVars, conn, regVars, pc, ret, callVars>>

\* The process of the manager crashes and is started again.  Its connections
\* close; QEMU has a process group of its own and goes on.
Crash ==
    /\ CanCrash
    /\ conn' = [p \in Pids |-> "free"]
    /\ vms' = None /\ entry' = NoLine /\ rx' = FALSE
    /\ vmctl' = "none" /\ wpid' = None
    /\ Return
    /\ UNCHANGED <<osVars, record>>

Boot(p) == QemuWritePid(p) \/ QemuListen(p)
Begin == \/ CreateBegin \/ AllocateBegin \/ DiscoverRuntime \/ DiscoverMetadata
         \/ WatchBegin \/ StopBegin \/ ShutdownJoin
Start == \/ Reconcile \/ Remove \/ Allocate \/ Register
         \/ AttachFound \/ AttachStale \/ AttachTimeout \/ StartTimeout
         \/ Connect \/ Spawn \/ SpawnBound \/ Monitor \/ MonitorError
         \/ RecordRunning \/ MetaError \/ GuestAgent \/ GuestAgentError
         \/ Verify \/ VerifyError \/ CreateWork \/ WatchWork
End   == \/ StopExited \/ StopTimeout \/ StopRecord \/ StopMetaError
         \/ ShutdownRecord

Next == \/ \E p \in Pids : Boot(p) \/ QemuExit(p)
        \/ Begin \/ Start \/ End \/ Drain \/ Crash

Spec == Init /\ [][Next]_vars

\* QEMU boots unless it exits, a call that has begun goes on, the application
\* calls create again and again, and the manager crashes finitely often.
FairSpec == /\ Spec
            /\ \A p \in Pids : WF_vars(Boot(p))
            /\ WF_vars(Start \/ End)
            /\ SF_vars(CreateBegin)
            /\ <>[][~Crash]_vars

----------------------------------------------------------------------------
(* Properties                                                              *)

\* The VM has two QEMU processes only if the application has asked for it with
\* two command lines, and then no two of them have the same; however starts,
\* crashes and restarts interleave with the boot of a QEMU that an earlier call
\* spawned and gave up, and wherever the manager has the command line from.
AtMostOneQemu ==
    \A p, q \in Pids : Live(p) /\ Live(q) /\ p # q =>
                          line[p] # line[q] /\ {line[p], line[q]} \subseteq asked

\* The application has asked for the VM with one command line only.
OneLine == \A l, m \in asked : l = m

\* A QEMU with a worker can be found again after a crash: the record is there
\* and has its command line, and no reconciliation has removed the pid file or
\* the socket, although it looks at the pid before it removes them.
Recoverable == OneLine /\ vmctl = "run" /\ qemu[wpid] = "up" =>
                 record = line[wpid] /\ pidfile = wpid /\ sock = wpid

\* stop waits for the QEMU its worker is connected to: the pid in vms, which
\* discovery and restarts replace, is not another's.
StopWaitsForItsQemu == OneLine /\ vmctl = "run" /\ Live(wpid) => vms = wpid

\* A worker whose QEMU runs is the one in vmctl, so stop and shutdown reach it.
NoLiveOrphan ==
    OneLine => \A p \in Pids : conn[p] = "worker" /\ qemu[p] = "up" =>
                                   vmctl = "run" /\ wpid = p

\* A QEMU is lost when its connection was left open or its socket was removed.
Lost(p) == qemu[p] = "up" /\ (conn[p] = "leaked" \/ sock # p)

\* These are the only ways in which retries of create fail to attach to a QEMU
\* that is up.
AttachUnlessLost ==
    \A p \in Pids : qemu[p] = "up" ~> \/ vmctl = "run" /\ wpid = p
                                      \/ qemu[p] = "gone" \/ Lost(p)

\* And no call of the manager gets a lost QEMU back; it takes a crash of the
\* manager, or the end of QEMU.
LostForGood == [][\A p \in Pids : Lost(p) => \/ Lost(p)' \/ qemu'[p] = "gone"
                                            \/ Crash]_vars

=============================================================================
