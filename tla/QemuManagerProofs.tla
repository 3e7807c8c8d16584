-------------------------- MODULE QemuManagerProofs --------------------------
(***************************************************************************)
(* The safety properties of QemuManager, for any number of processes and   *)
(* command lines and whatever of the metadata, the guest agent and the     *)
(* manager may fail.                                                       *)
(*                                                                         *)
(* The proof has two layers.  Core holds however many command lines the VM *)
(* is asked for with: no two of its QEMUs have the same (AtMostOneQemu), a *)
(* call knows what it looks for (LineOK), and a connection belongs to one  *)
(* client and is only ever to a process that has been up (ConnOK, CurOK,   *)
(* WorkerOK).  When all the requests have the same command line, one QEMU  *)
(* lives at a time (OneQemu), and Rest says what follows for the files and *)
(* the entries: what a call knows of the process it is connected to before *)
(* it gets a worker (CallOK), and that a reconciliation that is about to   *)
(* remove the files has seen that no worker needs them (RemoveOK).         *)
(***************************************************************************)
EXTENDS QemuManager, TLAPS

Monitored == {"record", "ga", "verify", "work"}
Connected == Monitored \cup {"monitor"}
WorkerUp  == vmctl = "run" /\ qemu[wpid] = "up"

LineOK ==
    /\ \A p \in Pids : qemu[p] # "unused" => line[p] # NoLine
    /\ pc \notin {"idle", "stopWait", "stopRecord"} => want # NoLine
    /\ vms # None => entry # NoLine
    /\ pc \in {"stopWait", "stopRecord"} => vms # None
    /\ call = "watch" =>
         vms # None /\ pc \notin {"idle", "stopWait", "stopRecord", "shutRecord"}

ConnOK   == \A p \in Pids : conn[p] # "free" => qemu[p] \in {"up", "gone"}
CurOK    == /\ pc \in Connected => cur # None /\ conn[cur] = "call"
            /\ pc \in Monitored => hpid # None
WorkerOK == vmctl = "run" => conn[wpid] = "worker"
EndOK    == pc \in {"stopRecord", "shutRecord"} => vmctl = "none"

Core == /\ TypeOK /\ LineOK /\ AtMostOneQemu /\ ConnOK /\ CurOK /\ WorkerOK
        /\ EndOK

OneQemu == \A p, q \in Pids : Live(p) /\ Live(q) => p = q

CallOK ==
    /\ pc \in Connected => /\ qemu[cur] = "up" => sock = cur
                           /\ ~WorkerUp
    /\ pc \in Monitored => (qemu[cur] = "up" => hpid = cur /\ pidfile = cur)
    /\ pc \in Monitored \ {"record"} => record # NoLine

RemoveOK == pc = "remove" => ~WorkerUp
Found    == WorkerUp => record # NoLine /\ pidfile = wpid /\ sock = wpid
Served   == vmctl = "run" /\ Live(wpid) => vms = wpid
NoOrphan == \A p \in Pids : conn[p] = "worker" /\ qemu[p] = "up" =>
                                 vmctl = "run" /\ wpid = p

Rest == CallOK /\ RemoveOK /\ Found /\ Served /\ NoOrphan

IInv == Core /\ (OneLine => Rest)

(* The definitions that hardly any leaf can do without.                    *)
USE ManagerAssumption DEF Pids, None, TypeOK, Live, WorkerUp, osVars, regVars, callVars

LEMMA InitIInv == Init => IInv
  BY DEF Init, IInv, Core, Rest, Pcs, LineOK, AtMostOneQemu, CallOK, Connected,
         Monitored, ConnOK, CurOK, WorkerOK, RemoveOK, EndOK, Found, Served, NoOrphan

----------------------------------------------------------------------------
(* However many command lines there are.  A QEMU is spawned only when none *)
(* with its command line lives.                                            *)

LEMMA CoreQemu == ASSUME NEW p \in Pids, Core, Boot(p) \/ QemuExit(p)
                  PROVE  Core'
<1> USE DEF Core, LineOK, AtMostOneQemu, ConnOK, CurOK, WorkerOK, EndOK
<1>1. CASE QemuWritePid(p)
  BY <1>1 DEF QemuWritePid
<1>2. CASE QemuListen(p)
  BY <1>2 DEF QemuListen
<1>3. CASE QemuExit(p)
  BY <1>3 DEF QemuExit
<1> QED  BY <1>1, <1>2, <1>3 DEF Boot

LEMMA CoreBegin == ASSUME Core, Begin \/ Drain  PROVE Core'
<1> USE DEF Core, Pcs, LineOK, AtMostOneQemu, ConnOK, CurOK, Connected, Monitored,
            WorkerOK, EndOK, Ask
<1>1. CASE CreateBegin
  BY <1>1 DEF CreateBegin
<1>2. CASE AllocateBegin
  BY <1>2 DEF AllocateBegin
<1>3. CASE DiscoverRuntime
  BY <1>3 DEF DiscoverRuntime
<1>4. CASE DiscoverMetadata
  BY <1>4 DEF DiscoverMetadata
<1>5. CASE WatchBegin
  BY <1>5 DEF WatchBegin
<1>6. CASE StopBegin
  BY <1>6 DEF StopBegin
<1>7. CASE ShutdownJoin
  <2>1. /\ pc = "idle" /\ vms # None /\ vmctl' = "none" /\ pc' = "shutRecord" /\ want' = entry
        /\ vms' = None /\ entry' = NoLine /\ rx' = FALSE
        /\ conn' = [p \in Pids |-> IF p = wpid /\ conn[p] = "worker" THEN "free"
                                                                  ELSE conn[p]]
        /\ UNCHANGED <<osVars, wpid, record, ret, call, cur, hpid, asked>>
    BY <1>7 DEF ShutdownJoin, JoinWorker, WorkerEnds
  <2>2. want' # NoLine
    BY <2>1
  <2>3. conn' \in [Pids -> {"free", "call", "worker", "leaked"}]
    BY <2>1
  <2>4. rx' \in BOOLEAN /\ {vms', wpid'} \subseteq Pids \cup {None}
    BY <2>1
  <2>5. {entry', record', want'} \subseteq asked' \cup {NoLine} /\ asked' \subseteq Lines
    BY <2>1
  <2>6. vmctl' \in {"none", "run", "ended"} /\ (vmctl' = "none")
    BY <2>1
  <2>7. TypeOK'
    BY <2>1, <2>3, <2>4, <2>5, <2>6
  <2> QED  BY <2>1, <2>2, <2>7
<1>8. CASE Drain
  BY <1>8 DEF Drain
<1> QED  BY <1>1, <1>2, <1>3, <1>4, <1>5, <1>6, <1>7, <1>8 DEF Begin

LEMMA CoreStart == ASSUME Core, Start  PROVE Core'
<1> USE DEF Core, Pcs, LineOK, AtMostOneQemu, ConnOK, CurOK, Connected, Monitored,
            WorkerOK, EndOK, Return, GoOn
<1>1. CASE Reconcile \/ Remove
  BY <1>1 DEF Reconcile, Remove, LivePid
<1>2. CASE Allocate
  BY <1>2 DEF Allocate
<1>3. CASE Register
  <2>1. /\ \/ vms' = LivePid /\ LivePid # None /\ entry' = want /\ rx' = TRUE
           \/ UNCHANGED <<vms, entry, rx>>
        /\ pc = "register" /\ Return
        /\ UNCHANGED <<osVars, conn, vmctl, wpid, record>>
    BY <1>3, Zenon DEF Register
  <2>2. vms' \in Pids \cup {None} /\ rx' \in BOOLEAN /\ (vms # None => vms' # None)
    BY <2>1 DEF LivePid
  <2>3. entry' \in {entry, want} /\ (vms' # None => entry' # NoLine)
    BY <2>1
  <2> QED  BY <2>1, <2>2, <2>3
<1>4. CASE AttachFound \/ AttachStale \/ AttachTimeout \/ StartTimeout \/ SpawnBound
  BY <1>4 DEF AttachFound, AttachStale, AttachTimeout, StartTimeout, SpawnBound
<1>5. CASE Connect
  BY <1>5 DEF Connect, Connectable
<1>6. CASE Spawn
  <2>1. CASE Scanned
    BY <1>6, <2>1 DEF Spawn
  <2>2. CASE ~Scanned
    <3>1. PICK p \in Pids : /\ qemu[p] = "unused"
                            /\ qemu' = [qemu EXCEPT ![p] = "boot"]
                            /\ line' = [line EXCEPT ![p] = want]
      BY <1>6, <2>2 DEF Spawn, NewQemu
    <3>2. want \in asked
      BY <1>6 DEF Spawn
    <3>3. AtMostOneQemu'
      BY <1>6, <2>2, <3>1, <3>2 DEF Spawn, Scanned
    <3> QED  BY <1>6, <3>1, <3>2, <3>3 DEF Spawn
  <2> QED  BY <2>1, <2>2
<1>7. CASE Monitor
  BY <1>7 DEF Monitor, LivePid
<1>8. CASE MonitorError \/ MetaError \/ GuestAgentError \/ VerifyError
  <2>1. Fail /\ pc \in Connected
    BY <1>8 DEF MonitorError, MetaError, GuestAgentError, VerifyError
  <2> QED  BY <2>1 DEF Fail
<1>9. CASE RecordRunning
  <2>1. /\ pc = "record" /\ pc' \in Monitored /\ record' = want
        /\ UNCHANGED <<osVars, conn, regVars, ret, callVars>>
    BY <1>9, Zenon DEF RecordRunning
  <2> QED  BY <2>1
<1>10. CASE GuestAgent \/ Verify
  BY <1>10 DEF GuestAgent, Verify
<1>11. CASE CreateWork
  <2>1. /\ pc = "work" /\ rx' = FALSE /\ vms' = hpid /\ entry' = want /\ wpid' = cur
        /\ vmctl' = "run" /\ conn' = [conn EXCEPT ![cur] = "worker"]
        /\ Return /\ UNCHANGED <<osVars, record>>
    BY <1>11 DEF CreateWork
  <2>2. cur \in Pids /\ hpid \in Pids /\ want # NoLine /\ conn[cur] = "call"
    BY <2>1
  <2>3. conn' \in [Pids -> {"free", "call", "worker", "leaked"}] /\ rx' \in BOOLEAN
    BY <2>1, <2>2
  <2>4. TypeOK'
    BY <2>1, <2>2, <2>3
  <2>5. (LineOK /\ AtMostOneQemu /\ EndOK /\ CurOK)'
    BY <2>1, <2>2
  <2>6. (ConnOK /\ WorkerOK)'
    BY <2>1, <2>2
  <2> QED  BY <2>4, <2>5, <2>6
<1>12. CASE WatchWork
  <2>1. /\ pc = "work" /\ call = "watch"
        /\ rx' = FALSE /\ vms' = hpid /\ wpid' = cur /\ Return
        /\ UNCHANGED <<osVars, entry, record>>
        /\ \/ vmctl' = "run" /\ conn' = [conn EXCEPT ![cur] = "worker"]
           \/ vmctl' = "ended" /\ conn' = [conn EXCEPT ![cur] = "free"]
    BY <1>12, Zenon DEF WatchWork
  <2>2. cur \in Pids /\ hpid \in Pids /\ conn[cur] = "call"
    BY <2>1
  <2>3. conn' \in [Pids -> {"free", "call", "worker", "leaked"}] /\ rx' \in BOOLEAN
    BY <2>1, <2>2
  <2>4. TypeOK'
    BY <2>1, <2>2, <2>3
  <2>5. (LineOK /\ AtMostOneQemu /\ EndOK /\ CurOK)'
    BY <2>1, <2>2
  <2>6. (ConnOK /\ WorkerOK)'
    BY <2>1, <2>2
  <2> QED  BY <2>4, <2>5, <2>6
<1> QED
  BY <1>1, <1>2, <1>3, <1>4, <1>5, <1>6, <1>7, <1>8, <1>9, <1>10, <1>11, <1>12 DEF Start

LEMMA CoreEnd == ASSUME Core, End \/ Crash \/ UNCHANGED vars  PROVE Core'
<1> USE DEF Core, Pcs, LineOK, AtMostOneQemu, ConnOK, CurOK, Connected, Monitored,
            WorkerOK, EndOK, Return
<1>1. CASE StopExited
  BY <1>1 DEF StopExited, JoinWorker, WorkerEnds
<1>2. CASE StopTimeout \/ StopMetaError
  BY <1>2 DEF StopTimeout, StopMetaError
<1>3. CASE StopRecord
  BY <1>3 DEF StopRecord
<1>4. CASE ShutdownRecord
  BY <1>4 DEF ShutdownRecord
<1>5. CASE Crash
  BY <1>5 DEF Crash
<1>6. CASE UNCHANGED vars
  BY <1>6 DEF vars
<1> QED  BY <1>1, <1>2, <1>3, <1>4, <1>5, <1>6 DEF End

LEMMA CoreStep == Core /\ [Next]_vars => Core'
  BY CoreQemu, CoreBegin, CoreStart, CoreEnd DEF Next

(* With one command line no two QEMUs live.                                *)
LEMMA OneQemuLives == Core /\ OneLine => OneQemu
  BY DEF Core, AtMostOneQemu, OneLine, OneQemu

(* And the requests had one command line before if they have one after.    *)
LEMMA OneLineBefore == Core /\ [Next]_vars /\ OneLine' => OneLine
<1>1. ASSUME [Next]_vars, Core  PROVE asked \subseteq asked'
  <2>1. CASE CreateBegin \/ AllocateBegin \/ DiscoverRuntime
    BY <2>1 DEF CreateBegin, AllocateBegin, DiscoverRuntime, Ask
  <2> QED
    BY <1>1, <2>1 DEF Next, vars, Begin, Start, End, Boot, QemuWritePid, QemuListen,
       QemuExit, DiscoverMetadata, WatchBegin, StopBegin, ShutdownJoin, Reconcile,
       Remove, Allocate, Register, AttachFound, AttachStale, AttachTimeout,
       StartTimeout, Connect, Spawn, SpawnBound, Monitor, MonitorError,
       RecordRunning, MetaError, GuestAgent, GuestAgentError, Verify, VerifyError,
       CreateWork, WatchWork, StopExited, StopTimeout, StopRecord, StopMetaError,
       ShutdownRecord, Drain, Crash, Return, Fail
<1> QED  BY <1>1 DEF OneLine

----------------------------------------------------------------------------
(* With one command line.  OneLine is not needed as such in what follows,  *)
(* but only that one QEMU lives before a step and after it.                *)

(* QEMU.  A process that boots is the only one that lives, so no worker    *)
(* and no call needs the files it takes over.                              *)

LEMMA QemuStep ==
  ASSUME NEW p \in Pids, Core, OneQemu, Rest, Boot(p) \/ QemuExit(p)
  PROVE  Rest'
<1> USE DEF Core, OneQemu, Rest, CallOK, Connected, Monitored, ConnOK, CurOK, WorkerOK,
            RemoveOK, Found, Served, NoOrphan
<1>1. CASE QemuWritePid(p)
  <2>1. \A q \in Pids : qemu[q] # "up"
    BY <1>1 DEF QemuWritePid
  <2> QED  BY <1>1, <2>1 DEF QemuWritePid
<1>2. CASE QemuListen(p)
  <2>1. conn[p] = "free" /\ \A q \in Pids : qemu[q] # "up"
    BY <1>2 DEF QemuListen
  <2> QED  BY <1>2, <2>1 DEF QemuListen
<1>3. CASE QemuExit(p)
  <2>1. /\ \A q \in Pids : qemu'[q] \notin {"boot", "pid", "up"}
        /\ UNCHANGED <<regVars, record, pc, ret, callVars>>
    BY <1>3 DEF QemuExit
  <2> QED  BY <2>1
<1> QED  BY <1>1, <1>2, <1>3 DEF Boot

----------------------------------------------------------------------------
(* Steps that move the manager on and leave the connections and vmctl      *)
(* alone.  The pid file and the socket are removed only when no worker     *)
(* needs them, which Reconcile sees in the pid file.                       *)

LEMMA ReconcileStep ==
  ASSUME Core, OneQemu, Rest, Reconcile \/ Remove \/ Allocate \/ Register
  PROVE  Rest'
<1> USE DEF Core, OneQemu, Rest, LineOK, CallOK, Connected, Monitored, NoOrphan, Return, GoOn
<1>1. CASE Reconcile
  <2>1. LivePid = None => ~WorkerUp
    BY DEF LivePid, Found
  <2> QED
    BY <1>1, <2>1 DEF Reconcile, LivePid, WorkerOK, RemoveOK, Found, Served
<1>2. CASE Remove
  BY <1>2 DEF Remove, WorkerOK, RemoveOK, Found, Served
<1>3. CASE Allocate
  BY <1>3 DEF Allocate, WorkerOK, RemoveOK, Found, Served
<1>4. CASE Register
  <2>1. \/ vms' = LivePid /\ LivePid # None /\ vms' \in Pids
        \/ vms' = vms
    <3>1. \/ vms' = LivePid /\ LivePid # None
          \/ UNCHANGED <<vms, entry, rx>>
      BY <1>4, Zenon DEF Register
    <3> QED  BY <3>1 DEF LivePid
  <2>2. UNCHANGED <<qemu, pidfile, sock, conn, vmctl, wpid, record>>
        /\ pc = "register" /\ pc' = "idle"
    BY <1>4 DEF Register
  <2>3. Served'
    BY <2>1, <2>2 DEF LivePid, Served, Found, WorkerOK
  <2> QED
    BY <2>1, <2>2, <2>3 DEF WorkerOK, RemoveOK, Found
<1> QED  BY <1>1, <1>2, <1>3, <1>4

LEMMA QuietStep ==
  ASSUME Core, OneQemu, Rest,
         \/ CreateBegin \/ AllocateBegin \/ DiscoverRuntime \/ DiscoverMetadata
         \/ WatchBegin \/ StopBegin \/ AttachFound \/ AttachStale
         \/ AttachTimeout \/ StartTimeout \/ Spawn \/ SpawnBound \/ GuestAgent
         \/ Verify \/ StopTimeout \/ StopMetaError \/ Drain \/ UNCHANGED vars
  PROVE  Rest'
<1> USE DEF Core, OneQemu, Rest, LineOK, CallOK, Connected, Monitored, ConnOK, CurOK,
            WorkerOK, RemoveOK, EndOK, Found, Served, NoOrphan, Return, GoOn, Ask
<1>1. CASE CreateBegin
  BY <1>1 DEF CreateBegin
<1>2. CASE AllocateBegin
  BY <1>2 DEF AllocateBegin
<1>3. CASE DiscoverRuntime
  BY <1>3 DEF DiscoverRuntime
<1>4. CASE DiscoverMetadata
  BY <1>4 DEF DiscoverMetadata
<1>5. CASE WatchBegin
  BY <1>5 DEF WatchBegin
<1>6. CASE StopBegin
  BY <1>6 DEF StopBegin
<1>7. CASE AttachFound
  BY <1>7 DEF AttachFound
<1>8. CASE AttachStale
  BY <1>8 DEF AttachStale
<1>9. CASE AttachTimeout
  BY <1>9 DEF AttachTimeout
<1>10. CASE StartTimeout
  BY <1>10 DEF StartTimeout
<1>11. CASE Spawn
  <2>1. /\ UNCHANGED <<pidfile, sock, conn, regVars, record>> /\ pc' = "connectNew"
        /\ \A q \in Pids : conn[q] # "free" => qemu'[q] = qemu[q]
    BY <1>11 DEF Spawn, NewQemu
  <2>2. vmctl = "run" => qemu'[wpid] = qemu[wpid]
    BY <2>1
  <2> QED  BY <2>1, <2>2
<1>12. CASE SpawnBound
  BY <1>12 DEF SpawnBound
<1>13. CASE GuestAgent
  BY <1>13 DEF GuestAgent
<1>14. CASE Verify
  BY <1>14 DEF Verify
<1>15. CASE StopTimeout
  BY <1>15 DEF StopTimeout
<1>16. CASE StopMetaError
  BY <1>16 DEF StopMetaError
<1>17. CASE Drain
  BY <1>17 DEF Drain
<1>18. CASE UNCHANGED vars
  BY <1>18 DEF vars
<1> QED
  BY <1>1, <1>2, <1>3, <1>4, <1>5, <1>6, <1>7, <1>8, <1>9, <1>10, <1>11, <1>12,
     <1>13, <1>14, <1>15, <1>16, <1>17, <1>18

----------------------------------------------------------------------------
(* A call connects to a process that has no client, and so none that is    *)
(* vmctl's.  It keeps what it knows of that process while it is up.        *)

LEMMA ConnectStep ==
  ASSUME Core, OneQemu, Rest,
         \/ Connect \/ Monitor \/ MonitorError \/ RecordRunning \/ MetaError
         \/ GuestAgentError \/ VerifyError
  PROVE  Rest'
<1> USE DEF Core, OneQemu, Rest, LineOK, CallOK, Connected, Monitored, CurOK, RemoveOK
<1>1. CASE Connect
  <2>1. ~WorkerUp
    BY <1>1 DEF Connect, Connectable, WorkerOK, Found
  <2> QED
    BY <1>1, <2>1 DEF Connect, Connectable, Found, Served, NoOrphan
<1>2. CASE Monitor
  <2>1. LivePid = cur
    BY <1>2 DEF Monitor, LivePid
  <2> QED
    BY <1>2, <2>1 DEF Monitor, LivePid, Found, Served, NoOrphan
<1>3. CASE RecordRunning
  <2>1. /\ pc = "record" /\ pc' \in Monitored /\ record' = want /\ want # NoLine
        /\ UNCHANGED <<osVars, conn, regVars, ret, callVars>>
    BY <1>3, Zenon DEF RecordRunning
  <2> QED  BY <2>1 DEF Found, Served, NoOrphan
<1>4. CASE MonitorError \/ MetaError \/ GuestAgentError \/ VerifyError
  <2>1. Fail /\ pc \in Connected
    BY <1>4 DEF MonitorError, MetaError, GuestAgentError, VerifyError
  <2> QED
    BY <2>1 DEF Fail, Return, WorkerOK, Found, Served, NoOrphan
<1> QED  BY <1>1, <1>2, <1>3, <1>4

----------------------------------------------------------------------------
(* A worker takes over the connection of its call.  No other worker has a  *)
(* QEMU that is up: it would be vmctl's, by NoOrphan, which CallOK         *)
(* excludes.                                                               *)

LEMMA WorkStep == ASSUME Core, OneQemu, Rest, CreateWork \/ WatchWork
                  PROVE  Rest'
<1> USE DEF Core, OneQemu, Rest, CallOK, Connected, Monitored, CurOK, RemoveOK, ConnOK
<1>1. \A p \in Pids : conn[p] = "worker" => qemu[p] # "up"
  BY DEF NoOrphan, CreateWork, WatchWork
<1>2. /\ pc = "work" /\ pc' = "idle" /\ vms' = hpid /\ wpid' = cur
      /\ UNCHANGED <<osVars, record>>
      /\ \/ vmctl' = "run" /\ conn' = [conn EXCEPT ![cur] = "worker"]
         \/ vmctl' = "ended" /\ conn' = [conn EXCEPT ![cur] = "free"]
  BY Zenon DEF CreateWork, WatchWork, Return
<1> QED
  BY <1>1, <1>2 DEF Found, Served, NoOrphan

----------------------------------------------------------------------------
(* stop and shutdown end the worker before they forget it; after a crash   *)
(* there is none.                                                          *)

LEMMA EndStep ==
  ASSUME Core, OneQemu, Rest,
         StopExited \/ StopRecord \/ ShutdownJoin \/ ShutdownRecord \/ Crash
  PROVE  Rest'
<1> USE DEF Core, Rest, LineOK, CallOK, Connected, Monitored, RemoveOK, EndOK, Found,
            Served, NoOrphan, Return
<1>1. CASE StopExited
  BY <1>1 DEF StopExited, JoinWorker, WorkerEnds
<1>2. CASE ShutdownJoin
  BY <1>2 DEF ShutdownJoin, JoinWorker, WorkerEnds
<1>3. CASE StopRecord
  BY <1>3 DEF StopRecord
<1>4. CASE ShutdownRecord
  BY <1>4 DEF ShutdownRecord
<1>5. CASE Crash
  BY <1>5 DEF Crash
<1> QED  BY <1>1, <1>2, <1>3, <1>4, <1>5

LEMMA RestStep == Core /\ OneQemu /\ Rest /\ [Next]_vars => Rest'
  BY QemuStep, ReconcileStep, QuietStep, ConnectStep, WorkStep, EndStep
     DEF Next, Begin, Start, End

----------------------------------------------------------------------------
LEMMA Inductive == Spec => []IInv
<1>1. Init => IInv
  BY InitIInv
<1>2. IInv /\ [Next]_vars => IInv'
  BY CoreStep, OneLineBefore, OneQemuLives, RestStep DEF IInv
<1> QED  BY <1>1, <1>2, PTL DEF Spec

(* Every variable keeps its type, the VM of a worker has its entry, and no *)
(* command line is used that nobody asked for.                             *)
THEOREM TypeCorrect == Spec => []TypeOK
<1>1. IInv => TypeOK
  BY DEF IInv, Core
<1> QED  BY <1>1, Inductive, PTL

(* However often QEMU is started, with whatever command lines, and however *)
(* often the manager is restarted: no two QEMUs of the VM live with the    *)
(* same command line (create, 300; the scan of the system command).        *)
THEOREM AtMostOneQemuHolds == Spec => []AtMostOneQemu
<1>1. IInv => AtMostOneQemu
  BY DEF IInv, Core
<1> QED  BY <1>1, Inductive, PTL

(* The record, with the command line of its QEMU, the pid file and the     *)
(* socket of a worker's QEMU are there, for the manager to find it again   *)
(* after a crash, as long as the VM is asked for with one command line.    *)
THEOREM RecoverableHolds == Spec => []Recoverable
<1>1. IInv => Recoverable
  <2>1. SUFFICES ASSUME IInv, OneLine, vmctl = "run", qemu[wpid] = "up"
                 PROVE  record = line[wpid] /\ pidfile = wpid /\ sock = wpid
    BY DEF Recoverable
  <2>2. record \in asked /\ line[wpid] \in asked
    BY <2>1 DEF IInv, Core, LineOK, Rest, Found
  <2>3. record = line[wpid]
    BY <2>1, <2>2 DEF OneLine
  <2> QED  BY <2>1, <2>3 DEF IInv, Rest, Found
<1> QED  BY <1>1, Inductive, PTL

(* The pid stop waits for is that of the QEMU its worker serves, as long   *)
(* as the VM is asked for with one command line.                           *)
THEOREM StopWaitsForItsQemuHolds == Spec => []StopWaitsForItsQemu
<1>1. IInv => StopWaitsForItsQemu
  BY DEF IInv, Rest, Served, StopWaitsForItsQemu
<1> QED  BY <1>1, Inductive, PTL

(* A worker that vmctl does not have has lost its QEMU, as long as the VM  *)
(* is asked for with one command line.                                     *)
THEOREM NoLiveOrphanHolds == Spec => []NoLiveOrphan
<1>1. IInv => NoLiveOrphan
  BY DEF IInv, Rest, NoOrphan, NoLiveOrphan
<1> QED  BY <1>1, Inductive, PTL

----------------------------------------------------------------------------
(* A QEMU whose connection or socket is lost stays lost until it exits or  *)
(* the manager crashes: a leaked connection belongs to no call, and only a *)
(* QEMU that boots makes a socket.                                         *)
THEOREM LostForGoodHolds == Spec => LostForGood
<1>1. ASSUME IInv, [Next]_vars, NEW p \in Pids, Lost(p)
      PROVE  Lost(p)' \/ qemu'[p] = "gone" \/ Crash
  <2> USE DEF IInv, Core, Lost
  <2>1. ASSUME NEW q \in Pids, Boot(q) \/ QemuExit(q)
        PROVE  Lost(p)' \/ qemu'[p] = "gone"
    BY <1>1, <2>1 DEF Boot, QemuWritePid, QemuListen, QemuExit
  <2>2. ASSUME conn' = conn, qemu' = qemu, sock' \in {sock, None}
        PROVE  Lost(p)'
    BY <1>1, <2>2
  <2>3. ASSUME qemu' = qemu, sock' = sock, conn[p] = "leaked" => conn'[p] = "leaked"
        PROVE  Lost(p)'
    BY <1>1, <2>3
  <2>4. CASE Begin \/ End \/ Drain
    <3>1. CASE ShutdownJoin \/ StopExited
      BY <3>1, <2>3 DEF ShutdownJoin, StopExited, JoinWorker, WorkerEnds
    <3>2. CASE ~(ShutdownJoin \/ StopExited)
      <4>1. UNCHANGED <<conn, qemu, sock>>
        BY <2>4, <3>2 DEF Begin, End, CreateBegin, AllocateBegin, DiscoverRuntime,
             DiscoverMetadata, WatchBegin, StopBegin, StopTimeout, StopRecord,
             StopMetaError, ShutdownRecord, Drain
      <4> QED  BY <4>1, <2>2
    <3> QED  BY <3>1, <3>2
  <2>5. CASE Connect
    <3>1. conn[p] = "leaked" => conn'[p] = "leaked"
      BY <2>5 DEF Connect, Connectable
    <3> QED  BY <2>5, <2>3, <3>1 DEF Connect
  <2>6. CASE MonitorError \/ MetaError \/ GuestAgentError \/ VerifyError
    <3>1. Fail
      BY <2>6 DEF MonitorError, MetaError, GuestAgentError, VerifyError
    <3>2. conn[p] = "leaked" => conn'[p] = "leaked"
      BY <3>1 DEF Fail
    <3> QED  BY <3>1, <3>2, <2>3 DEF Fail
  <2>7. CASE CreateWork \/ WatchWork
    <3>1. UNCHANGED <<qemu, sock>>
          /\ \E c \in {"worker", "free"} : conn' = [conn EXCEPT ![cur] = c]
      BY <2>7, Zenon DEF CreateWork, WatchWork
    <3>2. conn[cur] = "call"
      BY <1>1, <2>7 DEF CreateWork, WatchWork, CurOK, Connected, Monitored
    <3> QED  BY <1>1, <3>1, <3>2, <2>3
  <2>8. CASE Spawn
    BY <1>1, <2>8 DEF Spawn, NewQemu
  <2>9. CASE \/ Reconcile \/ Remove \/ Allocate \/ Register \/ AttachFound
             \/ AttachStale \/ AttachTimeout \/ StartTimeout \/ SpawnBound
             \/ Monitor \/ RecordRunning \/ GuestAgent \/ Verify
    <3>1. conn' = conn /\ qemu' = qemu /\ sock' \in {sock, None}
      BY <2>9 DEF Reconcile, Remove, Allocate, Register, AttachFound, AttachStale,
           AttachTimeout, StartTimeout, SpawnBound, Monitor, RecordRunning,
           GuestAgent, Verify
    <3> QED  BY <3>1, <2>2
  <2>10. CASE UNCHANGED vars
    BY <2>10, <2>2 DEF vars
  <2> QED
    BY <1>1, <2>1, <2>4, <2>5, <2>6, <2>7, <2>8, <2>9, <2>10 DEF Next, Start
<1>2. IInv /\ [Next]_vars =>
        [\A p \in Pids : Lost(p) => \/ Lost(p)' \/ qemu'[p] = "gone"
                                   \/ Crash]_vars
  BY <1>1
<1> QED  BY <1>2, Inductive, PTL DEF Spec, LostForGood

----------------------------------------------------------------------------
(* For a VM that is asked for with one command line the manager has the    *)
(* life cycle of FxEffect: it starts a machine only when none runs, what   *)
(* it enters into vms is always the machine that was started last,         *)
(* discovered or started by itself, and stop finds a machine to have       *)
(* exited when it has.  destroyed is where stop has found that; it then    *)
(* drops the entry.  With a second command line it does not have it: that  *)
(* starts a second machine beside the first.                               *)

SpawnedUpTo(n) == \A p \in Pids : qemu[p] # "unused" <=> p <= n
Newest == CHOOSE n \in 0 .. MaxPid : SpawnedUpTo(n)

Machine == INSTANCE FxEffect WITH
    Instances <- Pids, None <- 0, last <- Newest, up <- \E p \in Pids : Live(p),
    handle <- vms, destroyed <- pc = "stopRecord"

\* Pids are given out in order, only the machine started last may run, and a
\* call that has found one has found that one.
NewestOK ==
    /\ \E n \in 0 .. MaxPid : SpawnedUpTo(n)
    /\ \A p \in Pids : Live(p) => p = Newest
    /\ pc \in Monitored => hpid = Newest

LEMMA NewestIs == ASSUME NEW n \in 0 .. MaxPid, SpawnedUpTo(n)  PROVE Newest = n
<1>1. ASSUME NEW m \in 0 .. MaxPid, SpawnedUpTo(m)  PROVE m = n
  <2>1. CASE m < n
    <3>1. n \in Pids /\ qemu[n] # "unused" /\ ~(n <= m)
      BY <2>1 DEF SpawnedUpTo
    <3> QED  BY <1>1, <3>1 DEF SpawnedUpTo
  <2>2. CASE n < m
    <3>1. m \in Pids /\ qemu[m] # "unused" /\ ~(m <= n)
      BY <1>1, <2>2 DEF SpawnedUpTo
    <3> QED  BY <3>1 DEF SpawnedUpTo
  <2> QED  BY <2>1, <2>2
<1> QED  BY <1>1 DEF Newest

\* Most steps leave pids that were never used as they are.
LEMMA NewestKept ==
  ASSUME NewestOK, \A p \in Pids : qemu'[p] # "unused" <=> qemu[p] # "unused"
  PROVE  Newest' = Newest /\ \E n \in 0 .. MaxPid : SpawnedUpTo(n)'
  BY DEF NewestOK, Newest, SpawnedUpTo

LEMMA NewestSpawned ==
  ASSUME NewestOK, TypeOK, NEW p \in Pids, qemu[p] = "unused", \A q \in Pids : q < p => qemu[q] # "unused",
         qemu' = [qemu EXCEPT ![p] = "boot"]
  PROVE  Newest' = p /\ SpawnedUpTo(p)' /\ Newest # p
<1>1. PICK n \in 0 .. MaxPid : SpawnedUpTo(n)
  BY DEF NewestOK
<1>2. Newest = n
  BY <1>1, NewestIs
<1>3. n < p
  BY <1>1 DEF SpawnedUpTo
<1>4. \A q \in Pids : q > p => qemu[q] = "unused"
  BY <1>1, <1>3 DEF SpawnedUpTo
<1>5. \A q \in Pids : qemu'[q] # "unused" <=> q <= p
  BY <1>4
<1>6. SpawnedUpTo(p)'
  BY <1>5 DEF SpawnedUpTo
<1>7. Newest' = p
  <2>1. ASSUME NEW m \in 0 .. MaxPid, SpawnedUpTo(m)'  PROVE m = p
    <3>1. p <= m
      BY <2>1, <1>5 DEF SpawnedUpTo
    <3>2. ~(p < m)
      BY <2>1, <1>5 DEF SpawnedUpTo
    <3> QED  BY <3>1, <3>2
  <2> QED  BY <1>6, <2>1 DEF Newest
<1> QED  BY <1>2, <1>3, <1>6, <1>7

----------------------------------------------------------------------------
\* A step that changes neither the machines nor the entry is none of FxEffect's.
LEMMA MachineSame ==
  ASSUME Newest' = Newest, \A p \in Pids : Live(p)' <=> Live(p), vms' = vms,
         pc' = "stopRecord" <=> pc = "stopRecord"
  PROVE  Machine!Next \/ UNCHANGED Machine!vars
<1>1. (\E p \in Pids : Live(p))' = (\E p \in Pids : Live(p))
  OBVIOUS
<1>2. (pc = "stopRecord")' = (pc = "stopRecord")
  OBVIOUS
<1> QED  BY <1>1, <1>2 DEF Machine!vars

LEMMA MachineQemu ==
  ASSUME Core, OneQemu, NewestOK, NEW p \in Pids, Boot(p) \/ QemuExit(p)
  PROVE  NewestOK' /\ (Machine!Next \/ UNCHANGED Machine!vars)
<1>1. /\ UNCHANGED <<pc, vms, hpid>>
      /\ \A q \in Pids : qemu'[q] # "unused" <=> qemu[q] # "unused"
      /\ \A q \in Pids : Live(q)' => Live(q)
  BY DEF Boot, QemuWritePid, QemuListen, QemuExit, Core
<1>2. Newest' = Newest /\ NewestOK'
  BY <1>1, NewestKept DEF NewestOK, Monitored
<1>3. CASE Boot(p)
  <2>1. \A q \in Pids : Live(q)' <=> Live(q)
    BY <1>3 DEF Boot, QemuWritePid, QemuListen, Core
  <2> QED  BY <1>1, <1>2, <2>1, MachineSame
<1>4. CASE QemuExit(p)
  <2>1. (\E q \in Pids : Live(q)) /\ ~(\E q \in Pids : Live(q))'
    BY <1>4 DEF QemuExit, Core, OneQemu
  <2>2. Machine!End
    BY <1>1, <1>2, <2>1 DEF Machine!End
  <2> QED  BY <1>2, <2>2 DEF Machine!Next
<1> QED  BY <1>2, <1>3, <1>4

LEMMA MachineSpawn ==
  ASSUME Core, OneQemu, OneLine, NewestOK, Spawn
  PROVE  NewestOK' /\ (Machine!Next \/ UNCHANGED Machine!vars)
<1>1. pc = "spawn" /\ pc' = "connectNew" /\ UNCHANGED <<vms, hpid>>
  BY DEF Spawn
<1>2. CASE \E p \in Pids : Live(p)
  <2>1. qemu' = qemu
    <3>1. \A p \in Pids : Live(p) => line[p] = want
      BY <1>1 DEF Core, LineOK, OneLine
    <3> QED  BY <1>2, <3>1 DEF Spawn, Scanned
  <2>2. Newest' = Newest /\ NewestOK'
    BY <1>1, <2>1, NewestKept DEF NewestOK, Monitored
  <2> QED  BY <1>1, <2>1, <2>2, MachineSame
<1>3. CASE ~\E p \in Pids : Live(p)
  <2>1. PICK p \in Pids : /\ qemu[p] = "unused" /\ \A q \in Pids : q < p => qemu[q] # "unused"
                          /\ qemu' = [qemu EXCEPT ![p] = "boot"]
    BY <1>3 DEF Spawn, Scanned, NewQemu
  <2>2. Newest' = p /\ SpawnedUpTo(p)' /\ Newest # p
    BY <2>1, NewestSpawned DEF Core
  <2>3. \A q \in Pids : Live(q)' => q = p
    BY <1>3, <2>1 DEF Core
  <2>4. NewestOK'
    BY <1>1, <2>2, <2>3 DEF NewestOK, Monitored
  <2>5. (\E q \in Pids : Live(q))' \in BOOLEAN
    BY Zenon
  <2>6. (pc = "stopRecord")' = (pc = "stopRecord")
    BY <1>1
  <2>7. Machine!Spawn
    BY <1>1, <1>3, <2>2, <2>5, <2>6 DEF Machine!Spawn
  <2> QED  BY <2>4, <2>7 DEF Machine!Next
<1> QED  BY <1>2, <1>3

\* Every other step of the manager leaves the machines to themselves.
LEMMA MachineEntry ==
  ASSUME Core, OneQemu, NewestOK, qemu' = qemu, pc' \in Monitored => hpid' = Newest,
         vms' \in {vms, None, Newest},
         pc' = "stopRecord" =>
           vms' = vms /\ vms # None /\ (pc = "stopRecord" \/ ~Live(vms))
  PROVE  NewestOK' /\ (Machine!Next \/ UNCHANGED Machine!vars)
<1>1. Newest' = Newest
  BY NewestKept
<1>2. NewestOK'
  BY <1>1, NewestKept DEF NewestOK
<1>3. \A p \in Pids : Live(p)' <=> Live(p)
  OBVIOUS
<1>4. (\E p \in Pids : Live(p))' = (\E p \in Pids : Live(p))
  BY <1>3
<1>5. CASE pc' # "stopRecord" /\ vms' \in {vms, None}
  <2>1. Machine!Call
    BY <1>1, <1>4, <1>5 DEF Machine!Call
  <2> QED  BY <1>2, <2>1 DEF Machine!Next
<1>6. CASE pc' # "stopRecord" /\ vms' = Newest /\ Newest # None
  <2>1. Machine!Attach
    BY <1>1, <1>4, <1>6 DEF Machine!Attach
  <2> QED  BY <1>2, <2>1 DEF Machine!Next
<1>7. CASE pc' = "stopRecord" /\ pc = "stopRecord"
  BY <1>1, <1>2, <1>3, <1>7, MachineSame
<1>8. CASE pc' = "stopRecord" /\ pc # "stopRecord"
  <2>1. vms # None /\ vms' = vms /\ ~Live(vms)
    BY <1>8
  <2>2. ~((\E p \in Pids : Live(p)) /\ vms = Newest)
    BY <2>1 DEF NewestOK
  <2>3. Machine!Destroyed
    BY <1>1, <1>4, <1>8, <2>1, <2>2 DEF Machine!Destroyed
  <2> QED  BY <1>2, <2>3 DEF Machine!Next
<1> QED  BY <1>5, <1>6, <1>7, <1>8

LEMMA MachineBegin ==
  ASSUME Core, OneQemu, NewestOK, Begin \/ End \/ Drain \/ Crash
  PROVE  NewestOK' /\ (Machine!Next \/ UNCHANGED Machine!vars)
<1> USE DEF Core, LineOK, NewestOK, Monitored, Return
<1>1. CASE CreateBegin \/ AllocateBegin \/ DiscoverRuntime \/ DiscoverMetadata \/ WatchBegin \/ StopBegin
  BY <1>1, MachineEntry DEF CreateBegin, AllocateBegin, DiscoverRuntime, DiscoverMetadata, WatchBegin, StopBegin
<1>2. CASE ShutdownJoin
  BY <1>2, MachineEntry DEF ShutdownJoin
<1>3. CASE StopExited
  BY <1>3, MachineEntry DEF StopExited
<1>4. CASE StopTimeout \/ StopRecord \/ StopMetaError \/ ShutdownRecord
  BY <1>4, MachineEntry DEF StopTimeout, StopRecord, StopMetaError, ShutdownRecord
<1>5. CASE Drain \/ Crash
  BY <1>5, MachineEntry DEF Drain, Crash
<1> QED  BY <1>1, <1>2, <1>3, <1>4, <1>5 DEF Begin, End

LEMMA MachineStart ==
  ASSUME Core, OneQemu, OneLine, NewestOK, Start
  PROVE  NewestOK' /\ (Machine!Next \/ UNCHANGED Machine!vars)
<1> USE DEF Core, LineOK, NewestOK, Monitored, Pcs, Return
<1>1. LivePid # None => LivePid = Newest
  BY DEF LivePid
<1>2. CASE Reconcile \/ Remove \/ Allocate
  BY <1>2, MachineEntry DEF Reconcile, Remove, Allocate, GoOn
<1>3. CASE Register
  BY <1>1, <1>3, MachineEntry DEF Register
<1>4. CASE AttachFound \/ AttachStale \/ AttachTimeout \/ StartTimeout \/ Connect \/ SpawnBound
  BY <1>4, MachineEntry DEF AttachFound, AttachStale, AttachTimeout, StartTimeout, Connect, SpawnBound, GoOn
<1>5. CASE Monitor
  BY <1>1, <1>5, MachineEntry DEF Monitor
<1>6. CASE MonitorError \/ MetaError \/ GuestAgentError \/ VerifyError
  <2>1. qemu' = qemu /\ pc' = "idle" /\ vms' = vms
    BY <1>6 DEF MonitorError, MetaError, GuestAgentError, VerifyError, Fail
  <2> QED  BY <2>1, MachineEntry
<1>7. CASE RecordRunning
  <2>1. qemu' = qemu /\ pc = "record" /\ pc' # "stopRecord" /\ pc' # "stopWait" /\ vms' = vms /\ hpid' = hpid
    BY <1>7, Zenon DEF RecordRunning
  <2> QED  BY <2>1, MachineEntry
<1>8. CASE GuestAgent \/ Verify
  BY <1>8, MachineEntry DEF GuestAgent, Verify
<1>9. CASE CreateWork \/ WatchWork
  BY <1>9, MachineEntry DEF CreateWork, WatchWork
<1>10. CASE Spawn
  BY <1>10, MachineSpawn
<1> QED  BY <1>2, <1>3, <1>4, <1>5, <1>6, <1>7, <1>8, <1>9, <1>10 DEF Start

\* Over any number of starts, discoveries, stops, crashes and restarts the
\* manager keeps to the life cycle of an effect (create, 300, and stop, 359), as
\* long as all the requests for the VM have one command line.
THEOREM MachineLifeCycle == Spec /\ []OneLine => Machine!Spec
<1>1. Init => NewestOK /\ Machine!Init
  <2> SUFFICES ASSUME Init  PROVE NewestOK /\ Machine!Init
    OBVIOUS
  <2>1. SpawnedUpTo(0)
    BY DEF Init, SpawnedUpTo
  <2>2. Newest = 0
    BY <2>1, NewestIs
  <2> QED  BY <2>1, <2>2 DEF Init, NewestOK, Monitored, Machine!Init
<1>2. IInv /\ OneLine /\ NewestOK /\ [Next]_vars =>
        NewestOK' /\ [Machine!Next]_Machine!vars
  <2> SUFFICES ASSUME IInv, OneLine, NewestOK, [Next]_vars
               PROVE  NewestOK' /\ (Machine!Next \/ UNCHANGED Machine!vars)
    OBVIOUS
  <2>1. Core /\ OneQemu
    BY OneQemuLives DEF IInv
  <2>2. CASE UNCHANGED vars
    BY <2>1, <2>2, MachineEntry DEF vars, NewestOK, Core, LineOK
  <2> QED  BY <2>1, <2>2, MachineQemu, MachineBegin, MachineStart DEF Next
<1> QED  BY <1>1, <1>2, Inductive, PTL DEF Spec, Machine!Spec

=============================================================================
