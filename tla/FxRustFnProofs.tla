--------------------------- MODULE FxRustFnProofs ---------------------------
(***************************************************************************)
(* Proofs about the Rust-function provider, for any number of callers and  *)
(* workers: what a stop or destroy that returned Ok has ended stays ended, *)
(* and stays reported.  A single caller never runs its function twice.     *)
(***************************************************************************)
EXTENDS FxRustFn, TLAPS

\* A worker that was spawned and reaped never runs again.
Gone(p) == proc[p] \in {"gone", "other"}

Starting == {"startObserve", "startSpawn", "startCreate", "startWrite"}
Spawned  == {"startCreate", "startWrite"}

\* Whatever names a pid names that of a worker that was spawned.
KnownOK ==
    /\ pidfile \in Pids => proc[pidfile] # "unused"
    /\ \A h \in Handles : /\ arg[h] # None => proc[arg[h]] # "unused"
                          /\ pid[h] # None => proc[pid[h]] # "unused"

\* What a call has made sure of where it is.
CallOK ==
    \A h \in Handles :
        /\ mon[h] # "off" => pid[h] # None
        /\ pc[h] \in Starting => pid[h] = None
        /\ pc[h] \in Starting \ {"startSpawn"} => arg[h] # None
        /\ pc[h] \notin Starting \cup {"idle"} => pid[h] # None
        /\ pc[h] \in {"stopJoin", "stopSet", "destroyJoin"} => Gone(pid[h])
        /\ pc[h] = "stopSet" => mon[h] = "off"
        /\ pc[h] = "statusRunning" => ended[h] # "stopped"

EndedOK ==
    \A h \in Handles :
        pid[h] # None /\ ended[h] # "no" => mon[h] = "off" /\ Gone(pid[h])

IInv == TypeOK /\ KnownOK /\ CallOK /\ EndedOK /\ StoppedIsReported

----------------------------------------------------------------------------
USE RustFnAssumption DEF Pids, None, Torn, Pcs, Goto, Free, Gone, Starting, Has,
    Observe, Exists, osVars, handleVars

LEMMA InitStep == Init => IInv
  BY DEF Init, IInv, TypeOK, KnownOK, CallOK, EndedOK, StoppedIsReported

LEMMA Stutter == ASSUME IInv, UNCHANGED vars  PROVE IInv'
  BY DEF vars, IInv, TypeOK, KnownOK, CallOK, EndedOK, StoppedIsReported

\* Processes come and go without the provider, and the provider's may crash.
LEMMA OsStep == ASSUME IInv, Os  PROVE IInv'
<1>1. ASSUME NEW p \in Pids, WorkerExit(p) \/ OrphanReap(p) \/ OtherStart(p) \/ OtherExit(p)
      PROVE  IInv'
  <2>1. TypeOK'
    BY <1>1 DEF WorkerExit, OrphanReap, OtherStart, OtherExit, IInv, TypeOK
  <2>2. \A q \in Pids : (proc[q] # "unused" => proc'[q] # "unused") /\ (Gone(q) => Gone(q)')
    BY <1>1 DEF WorkerExit, OrphanReap, OtherStart, OtherExit, IInv, TypeOK
  <2>3. UNCHANGED <<pidfile, pc, arg, handleVars>>
    BY <1>1 DEF WorkerExit, OrphanReap, OtherStart, OtherExit
  <2> QED
    BY <2>1, <2>2, <2>3 DEF IInv, TypeOK, KnownOK, CallOK, EndedOK, StoppedIsReported
<1>2. CASE Crash
  BY <1>2 DEF Crash, IInv, TypeOK, KnownOK, CallOK, EndedOK, StoppedIsReported
<1> QED
  BY <1>1, <1>2 DEF Os

\* A monitor only ends, and reports what it saw only if nobody stopped it.
LEMMA MonitorStep == ASSUME IInv, NEW h \in Handles, Monitor(h)  PROVE IInv'
<1>1. CASE OwnedReap(h)
  BY <1>1 DEF OwnedReap, IInv, TypeOK, KnownOK, CallOK, EndedOK, StoppedIsReported
<1>2. CASE OwnedRecord(h)
  BY <1>2 DEF OwnedRecord, IInv, TypeOK, KnownOK, CallOK, EndedOK, StoppedIsReported
<1>3. CASE ReattachedPoll(h)
  BY <1>3 DEF ReattachedPoll, IInv, TypeOK, KnownOK, CallOK, EndedOK, StoppedIsReported
<1>4. CASE MonitorCancelled(h)
  BY <1>4 DEF MonitorCancelled, Disown, IInv, TypeOK, KnownOK, CallOK, EndedOK, StoppedIsReported
<1> QED
  BY <1>1, <1>2, <1>3, <1>4 DEF Monitor

LEMMA StartStep == ASSUME IInv, NEW h \in Handles, Start(h)  PROVE IInv'
<1>1. CASE StartRead(h)
  BY <1>1 DEF StartRead, IInv, TypeOK, KnownOK, CallOK, EndedOK, StoppedIsReported
<1>2. CASE StartReattach(h)
  BY <1>2 DEF StartReattach, IInv, TypeOK, KnownOK, CallOK, EndedOK, StoppedIsReported
<1>3. CASE StartMismatch(h) \/ StartError(h) \/ SpawnBound(h)
  <2>1. pc' = [pc EXCEPT ![h] = "idle"] /\ UNCHANGED <<osVars, pidfile, arg, handleVars>>
    BY <1>3 DEF StartMismatch, StartError, SpawnBound
  <2> QED
    BY <2>1 DEF IInv, TypeOK, KnownOK, CallOK, EndedOK, StoppedIsReported
<1>4. CASE StartStale(h)
  BY <1>4 DEF StartStale, IInv, TypeOK, KnownOK, CallOK, EndedOK, StoppedIsReported
<1>5. CASE StartSpawn(h)
  BY <1>5 DEF StartSpawn, IInv, TypeOK, KnownOK, CallOK, EndedOK, StoppedIsReported
<1>6. CASE StartCreate(h)
  BY <1>6 DEF StartCreate, IInv, TypeOK, KnownOK, CallOK, EndedOK, StoppedIsReported
<1>7. CASE StartWrite(h)
  BY <1>7 DEF StartWrite, IInv, TypeOK, KnownOK, CallOK, EndedOK, StoppedIsReported
<1>8. CASE StartWriteError(h)
  BY <1>8 DEF StartWriteError, IInv, TypeOK, KnownOK, CallOK, EndedOK, StoppedIsReported
<1> QED
  BY <1>1, <1>2, <1>3, <1>4, <1>5, <1>6, <1>7, <1>8 DEF Start

LEMMA EndStep == ASSUME IInv, NEW h \in Handles, End(h)  PROVE IInv'
<1>1. CASE StopSignal(h) \/ DestroyKill(h) \/ WaitTimeout(h) \/ RemoveError(h)
  <2>1. PICK l \in {"idle", "stopWait", "destroyWait"} :
          pc' = [pc EXCEPT ![h] = l] /\ UNCHANGED <<osVars, pidfile, arg, handleVars>>
    BY <1>1 DEF StopSignal, DestroyKill, WaitTimeout, RemoveError
  <2>2. pid[h] # None
    BY <1>1 DEF StopSignal, DestroyKill, WaitTimeout, RemoveError, IInv, CallOK
  <2>3. TypeOK'
    BY <2>1 DEF IInv, TypeOK
  <2>4. CallOK'
    BY <2>1, <2>2 DEF IInv, TypeOK, CallOK
  <2>5. KnownOK' /\ EndedOK' /\ StoppedIsReported'
    BY <2>1 DEF IInv, KnownOK, EndedOK, StoppedIsReported
  <2> QED
    BY <2>3, <2>4, <2>5 DEF IInv
<1>2. CASE DestroyObserve(h)
  BY <1>2 DEF DestroyObserve, SendCancel, IInv, TypeOK, KnownOK, CallOK, EndedOK, StoppedIsReported
<1>3. CASE WaitGone(h)
  BY <1>3 DEF WaitGone, SendCancel, IInv, TypeOK, KnownOK, CallOK, EndedOK, StoppedIsReported
<1>4. CASE JoinRemove(h)
  <2>1. pid[h] # None /\ Gone(pid[h]) /\ mon[h] = "off"
    BY <1>4 DEF JoinRemove, IInv, CallOK
  <2>2. CASE pc[h] = "stopJoin"
    BY <1>4, <2>1, <2>2 DEF JoinRemove, IInv, TypeOK, KnownOK, CallOK, EndedOK, StoppedIsReported
  <2>3. CASE pc[h] = "destroyJoin"
    <3>1. TypeOK'
      BY <1>4, <2>3 DEF JoinRemove, IInv, TypeOK
    <3>2. KnownOK'
      BY <1>4 DEF JoinRemove, IInv, KnownOK
    <3>3. CallOK'
      BY <1>4, <2>3 DEF JoinRemove, IInv, TypeOK, CallOK
    <3>4. EndedOK' /\ StoppedIsReported'
      BY <1>4, <2>1, <2>3 DEF JoinRemove, IInv, TypeOK, EndedOK, StoppedIsReported
    <3> QED
      BY <3>1, <3>2, <3>3, <3>4 DEF IInv
  <2> QED
    BY <1>4, <2>2, <2>3 DEF JoinRemove
<1>5. CASE StopSet(h)
  BY <1>5 DEF StopSet, IInv, TypeOK, KnownOK, CallOK, EndedOK, StoppedIsReported
<1> QED
  BY <1>1, <1>2, <1>3, <1>4, <1>5 DEF End

LEMMA HandleStep ==
  ASSUME IInv, NEW h \in Handles,
         StatusObserve(h) \/ StatusWrite(h) \/ StopMonitor(h) \/ MonitorJoin(h) \/ Drop(h)
  PROVE  IInv'
<1>1. CASE StatusObserve(h)
  BY <1>1 DEF StatusObserve, IInv, TypeOK, KnownOK, CallOK, EndedOK, StoppedIsReported
<1>2. CASE StatusWrite(h)
  BY <1>2 DEF StatusWrite, IInv, TypeOK, KnownOK, CallOK, EndedOK, StoppedIsReported
<1>3. CASE StopMonitor(h)
  BY <1>3 DEF StopMonitor, SendCancel, IInv, TypeOK, KnownOK, CallOK, EndedOK, StoppedIsReported
<1>4. CASE MonitorJoin(h)
  BY <1>4 DEF MonitorJoin, IInv, TypeOK, KnownOK, CallOK, EndedOK, StoppedIsReported
<1>5. CASE Drop(h)
  BY <1>5 DEF Drop, Disown, IInv, TypeOK, KnownOK, CallOK, EndedOK, StoppedIsReported
<1> QED
  BY <1>1, <1>2, <1>3, <1>4, <1>5

LEMMA NextStep == ASSUME IInv, [Next]_vars  PROVE IInv'
  BY Stutter, OsStep, MonitorStep, StartStep, EndStep, HandleStep DEF Next, Caller

LEMMA Inductive == Spec => []IInv
<1>1. IInv /\ [Next]_vars => IInv'
  BY NextStep
<1> QED
  BY InitStep, <1>1, PTL DEF Spec

----------------------------------------------------------------------------
(* The theorems                                                            *)

\* Every variable keeps its type, whoever reads a pid file that another caller
\* is about to write (fx_start, 366-442).
THEOREM TypeCorrect == Spec => []TypeOK
<1>1. IInv => TypeOK
  BY DEF IInv
<1> QED
  BY Inductive, <1>1, PTL

\* A stop or destroy that returned Ok (466-503) has ended the worker and the
\* monitor, and neither comes back.
THEOREM EndedIsGoneHolds == Spec => []EndedIsGone
<1>1. IInv => EndedIsGone
  BY DEF IInv, EndedOK, EndedIsGone
<1> QED
  BY Inductive, <1>1, PTL

\* What a stop that returned Ok has set (471-476) is final.
THEOREM StoppedIsReportedHolds == Spec => []StoppedIsReported
<1>1. IInv => StoppedIsReported
  BY DEF IInv
<1> QED
  BY Inductive, <1>1, PTL

----------------------------------------------------------------------------
(* The children of this process                                            *)

Child(h, p) == parent[p] = h /\ proc[p] \in {"worker", "zombie"}

\* As long as a handle on an own worker has its monitor, the worker has its pid:
\* nobody else has reaped it, and fx_stop, which signals whatever has the pid
\* (470), signals the worker.  It loses both when the monitor has ended.
OwnedIsHeld == \A h \in Handles : mon[h] \in {"on", "cancel"} /\ own[h] => Child(h, pid[h])

\* The same of a worker whose pid file is being written, which is killed and
\* reaped if that fails.
SpawnedIsHeld == \A h \in Handles : pc[h] \in Spawned => Child(h, arg[h])

HeldOK == OwnedIsHeld /\ SpawnedIsHeld

\* Most steps reap nobody, disown nobody and start no monitor.
LEMMA HeldCalm ==
  ASSUME HeldOK, UNCHANGED <<pid, own>>, \A h \in Handles, p \in Pids : Child(h, p) => Child(h, p)',
         IInv, \A h \in Handles : mon'[h] \in {"on", "cancel"} => mon[h] \in {"on", "cancel"},
         \A h \in Handles : pc'[h] \in Spawned => pc[h] \in Spawned /\ arg'[h] = arg[h]
  PROVE  HeldOK'
<1>1. \A h \in Handles : /\ mon[h] # "off" => pid[h] \in Pids
                         /\ pc[h] \in Spawned => arg[h] \in Pids
  BY DEF IInv, TypeOK, CallOK, Spawned
<1> QED  BY <1>1 DEF HeldOK, OwnedIsHeld, SpawnedIsHeld

LEMMA HeldOs == ASSUME IInv, HeldOK, Os  PROVE HeldOK'
<1>1. ASSUME NEW p \in Pids, WorkerExit(p) \/ OrphanReap(p) \/ OtherStart(p) \/ OtherExit(p)
      PROVE  HeldOK'
  <2>1. UNCHANGED <<parent, pc, arg, pid, own, mon>>
    BY <1>1 DEF WorkerExit, OrphanReap, OtherStart, OtherExit
  <2>2. \A h \in Handles : h # Nobody => \A q \in Pids : Child(h, q) => Child(h, q)'
    BY <1>1 DEF WorkerExit, OrphanReap, OtherStart, OtherExit, IInv, TypeOK, Child
  <2> QED  BY <2>1, <2>2, HeldCalm, NobodyAssumption
<1>2. CASE Crash
  BY <1>2 DEF Crash, HeldOK, OwnedIsHeld, SpawnedIsHeld, Spawned
<1> QED  BY <1>1, <1>2 DEF Os

\* A monitor ends before its child does.
LEMMA HeldDisown ==
  ASSUME IInv, HeldOK, NEW h \in Handles, mon[h] = "cancel" \/ pc[h] = "idle",
         Disown(h), mon' = [mon EXCEPT ![h] = "off"], UNCHANGED <<proc, pc, arg, own>>,
         \A g \in Handles \ {h} : pid'[g] = pid[g]
  PROVE  HeldOK'
<1>1. \A g \in Handles : g # h => \A p \in Pids : Child(g, p) => Child(g, p)'
  BY DEF Disown, Child, IInv, TypeOK
<1>2. mon'[h] = "off" /\ pc'[h] \notin Spawned /\ \A g \in Handles \ {h} : mon'[g] = mon[g]
  BY DEF IInv, TypeOK, CallOK, Spawned
<1>3. \A g \in Handles : /\ mon[g] # "off" => pid[g] \in Pids
                         /\ pc[g] \in Spawned => arg[g] \in Pids
  BY DEF IInv, TypeOK, CallOK, Spawned
<1> QED  BY <1>1, <1>2, <1>3 DEF HeldOK, OwnedIsHeld, SpawnedIsHeld

LEMMA HeldMonitor == ASSUME IInv, HeldOK, NEW h \in Handles, Monitor(h)  PROVE HeldOK'
<1>1. CASE OwnedReap(h)
  <2>1. /\ parent[pid[h]] = h /\ pid[h] \in Pids /\ proc' = [proc EXCEPT ![pid[h]] = "gone"]
        /\ mon' = [mon EXCEPT ![h] = "record"] /\ UNCHANGED <<parent, pc, arg, pid, own>>
    BY <1>1 DEF OwnedReap, IInv, TypeOK, CallOK
  <2>2. pc[h] \notin Spawned
    BY <1>1 DEF OwnedReap, IInv, CallOK, Spawned
  <2>3. \A g \in Handles \ {h}, p \in Pids : Child(g, p) => Child(g, p)'
    BY <2>1 DEF Child, IInv, TypeOK
  <2>4. mon'[h] = "record" /\ \A g \in Handles \ {h} : mon'[g] = mon[g]
    BY <2>1 DEF IInv, TypeOK
  <2>5. \A g \in Handles : /\ mon[g] # "off" => pid[g] \in Pids
                           /\ pc[g] \in Spawned => arg[g] \in Pids
    BY DEF IInv, TypeOK, CallOK, Spawned
  <2> QED  BY <2>1, <2>2, <2>3, <2>4, <2>5 DEF HeldOK, OwnedIsHeld, SpawnedIsHeld
<1>2. CASE OwnedRecord(h) \/ ReattachedPoll(h)
  <2>1. UNCHANGED <<proc, parent, pc, arg, pid, own>> /\ mon' = [mon EXCEPT ![h] = "off"]
    BY <1>2 DEF OwnedRecord, ReattachedPoll
  <2>2. \A g \in Handles : mon'[g] \in {"on", "cancel"} => mon[g] \in {"on", "cancel"}
    BY <2>1 DEF IInv, TypeOK
  <2> QED  BY <2>1, <2>2, HeldCalm DEF Child
<1>3. CASE MonitorCancelled(h)
  BY <1>3, HeldDisown DEF MonitorCancelled
<1> QED  BY <1>1, <1>2, <1>3 DEF Monitor

LEMMA HeldStart == ASSUME IInv, HeldOK, NEW h \in Handles, Start(h)  PROVE HeldOK'
<1>1. CASE StartRead(h) \/ StartMismatch(h) \/ StartStale(h) \/ StartError(h) \/ SpawnBound(h) \/ StartCreate(h)
  <2>1. UNCHANGED <<proc, parent, pid, own, mon>>
    BY <1>1 DEF StartRead, StartMismatch, StartStale, StartError, SpawnBound, StartCreate
  <2>2. \A g \in Handles : pc'[g] \in Spawned => pc[g] \in Spawned /\ arg'[g] = arg[g]
    BY <1>1 DEF StartRead, StartMismatch, StartStale, StartError, SpawnBound, StartCreate, Spawned, IInv, TypeOK
  <2> QED  BY <2>1, <2>2, HeldCalm DEF Child
<1>2. CASE StartReattach(h)
  <2>1. /\ UNCHANGED <<proc, parent, arg>> /\ pc' = [pc EXCEPT ![h] = "idle"]
        /\ pid' = [pid EXCEPT ![h] = arg[h]] /\ own' = [own EXCEPT ![h] = FALSE]
        /\ mon' = [mon EXCEPT ![h] = "on"]
    BY <1>2 DEF StartReattach
  <2> QED  BY <2>1 DEF IInv, TypeOK, HeldOK, OwnedIsHeld, SpawnedIsHeld, Child, Spawned
<1>3. CASE StartWrite(h)
  <2>1. /\ UNCHANGED <<proc, parent, arg>> /\ pc' = [pc EXCEPT ![h] = "idle"]
        /\ pid' = [pid EXCEPT ![h] = arg[h]] /\ mon' = [mon EXCEPT ![h] = "on"]
        /\ own' = [own EXCEPT ![h] = TRUE]
    BY <1>3 DEF StartWrite
  <2>2. Child(h, arg[h])
    BY <1>3 DEF StartWrite, HeldOK, SpawnedIsHeld, Spawned
  <2> QED  BY <2>1, <2>2 DEF IInv, TypeOK, HeldOK, OwnedIsHeld, SpawnedIsHeld, Child, Spawned
<1>4. CASE StartSpawn(h)
  <2>1. PICK p \in Pids :
          /\ proc[p] = "unused" /\ proc' = [proc EXCEPT ![p] = "worker"]
          /\ parent' = [parent EXCEPT ![p] = h] /\ arg' = [arg EXCEPT ![h] = p]
    BY <1>4 DEF StartSpawn
  <2>2. pc' = [pc EXCEPT ![h] = "startCreate"] /\ UNCHANGED <<pid, own, mon>>
    BY <1>4 DEF StartSpawn
  <2>3. \A g \in Handles, q \in Pids : Child(g, q) => Child(g, q)'
    BY <2>1 DEF Child, IInv, TypeOK
  <2>4. Child(h, p)' /\ arg'[h] = p
    BY <2>1 DEF Child, IInv, TypeOK
  <2>5. \A g \in Handles \ {h} : arg'[g] = arg[g] /\ pc'[g] = pc[g]
    BY <2>1, <2>2 DEF IInv, TypeOK
  <2>6. \A g \in Handles : /\ mon[g] # "off" => pid[g] \in Pids
                           /\ pc[g] \in Spawned => arg[g] \in Pids
    BY DEF IInv, TypeOK, CallOK, Spawned
  <2> QED  BY <2>2, <2>3, <2>4, <2>5, <2>6 DEF HeldOK, OwnedIsHeld, SpawnedIsHeld
<1>5. CASE StartWriteError(h)
  <2>1. /\ pc[h] \in Spawned /\ arg[h] \in Pids /\ Child(h, arg[h]) /\ pid[h] = None
    BY <1>5 DEF StartWriteError, HeldOK, SpawnedIsHeld, Spawned, IInv, TypeOK, CallOK
  <2>2. /\ proc' = [proc EXCEPT ![arg[h]] = "gone"] /\ parent' = [parent EXCEPT ![arg[h]] = Nobody]
        /\ pc' = [pc EXCEPT ![h] = "idle"] /\ UNCHANGED <<arg, pid, own, mon>>
    BY <1>5 DEF StartWriteError
  <2>3. \A g \in Handles \ {h}, q \in Pids : Child(g, q) => Child(g, q)'
    BY <2>1, <2>2 DEF Child, IInv, TypeOK
  <2>4. mon[h] = "off" /\ pc'[h] = "idle"
    BY <2>1, <2>2 DEF IInv, TypeOK, CallOK
  <2>5. \A g \in Handles : /\ mon[g] # "off" => pid[g] \in Pids
                           /\ pc[g] \in Spawned => arg[g] \in Pids
    BY DEF IInv, TypeOK, CallOK, Spawned
  <2>6. \A g \in Handles \ {h} : pc'[g] = pc[g]
    BY <2>2 DEF IInv, TypeOK
  <2> QED  BY <2>2, <2>3, <2>4, <2>5, <2>6 DEF HeldOK, OwnedIsHeld, SpawnedIsHeld, Spawned
<1> QED  BY <1>1, <1>2, <1>3, <1>4, <1>5 DEF Start

LEMMA HeldCaller ==
  ASSUME IInv, HeldOK, NEW h \in Handles,
         End(h) \/ StatusObserve(h) \/ StatusWrite(h) \/ StopMonitor(h) \/ MonitorJoin(h) \/ Drop(h)
  PROVE  HeldOK'
<1>1. CASE Drop(h)
  <2>1. /\ pc[h] = "idle" /\ Disown(h) /\ mon' = [mon EXCEPT ![h] = "off"]
        /\ UNCHANGED <<proc, pc, arg, own>> /\ pid' = [pid EXCEPT ![h] = None]
    BY <1>1 DEF Drop, Free
  <2>2. \A g \in Handles \ {h} : pid'[g] = pid[g]
    BY <2>1 DEF IInv, TypeOK
  <2>3. proc' = proc /\ pc' = pc /\ arg' = arg /\ own' = own
    BY <2>1
  <2> QED  BY <2>1, <2>2, <2>3, HeldDisown
<1>2. CASE ~Drop(h)
  <2>1. UNCHANGED <<proc, parent, pid, own, arg>>
    BY <1>2 DEF End, StopSignal, DestroyObserve, DestroyKill, WaitGone, WaitTimeout, JoinRemove, RemoveError,
       StopSet, StatusObserve, StatusWrite, StopMonitor, MonitorJoin
  <2>2. \A g \in Handles : pc'[g] \in Spawned => pc[g] \in Spawned
    BY <1>2 DEF End, StopSignal, DestroyObserve, DestroyKill, WaitGone, WaitTimeout, JoinRemove, RemoveError,
       StopSet, StatusObserve, StatusWrite, StopMonitor, MonitorJoin, Spawned, IInv, TypeOK
  <2>3. \A g \in Handles : mon'[g] \in {"on", "cancel"} => mon[g] \in {"on", "cancel"}
    BY <1>2 DEF End, StopSignal, DestroyObserve, DestroyKill, WaitGone, WaitTimeout, JoinRemove, RemoveError,
       StopSet, StatusObserve, StatusWrite, StopMonitor, MonitorJoin, SendCancel, IInv, TypeOK
  <2> QED  BY <2>1, <2>2, <2>3, HeldCalm DEF Child
<1> QED  BY <1>1, <1>2

\* fx_stop never signals a stranger through a handle whose monitor waits for its
\* own worker: the pid is the worker's until that monitor has reaped it.
THEOREM OwnedIsHeldHolds == Spec => []OwnedIsHeld
<1>1. Init => HeldOK
  BY DEF Init, HeldOK, OwnedIsHeld, SpawnedIsHeld, Spawned
<1>2. IInv /\ HeldOK /\ [Next]_vars => HeldOK'
  <2>1. ASSUME IInv, HeldOK, UNCHANGED vars  PROVE HeldOK'
    BY <2>1, HeldCalm DEF vars, Child
  <2> QED  BY <2>1, HeldOs, HeldMonitor, HeldStart, HeldCaller DEF Next, Caller
<1>3. HeldOK => OwnedIsHeld
  BY DEF HeldOK
<1> QED
  BY Inductive, <1>1, <1>2, <1>3, PTL DEF Spec

----------------------------------------------------------------------------
(* One caller, in a process that does not crash                            *)

\* The pid file follows the worker: it names the one that runs, unless that
\* is the one fx_start is about to record.
FileOK(h) ==
    /\ \A p \in Pids : proc[p] = "worker" =>
                          \/ pidfile = p
                          \/ pc[h] \in Spawned /\ arg[h] = p
    /\ pc[h] = "startObserve" => pidfile = arg[h]
    /\ pc[h] \in {"startSpawn", "startCreate"} => pidfile = None
    /\ pc[h] = "startWrite" => pidfile = Torn
    /\ pid[h] # None => pidfile \in {pid[h], None}

LEMMA FileInit == ASSUME NEW h \in Handles, Init  PROVE FileOK(h)
  BY DEF Init, FileOK, Spawned

LEMMA FileStutter == ASSUME NEW h \in Handles, FileOK(h), UNCHANGED vars  PROVE FileOK(h)'
  BY DEF vars, FileOK, Spawned

LEMMA FileOs ==
  ASSUME NEW h \in Handles, ~CanCrash, IInv, FileOK(h), Os
  PROVE  FileOK(h)'
<1>1. PICK p \in Pids : WorkerExit(p) \/ OrphanReap(p) \/ OtherStart(p) \/ OtherExit(p)
  BY DEF Os, Crash
<1>2. \A q \in Pids : proc'[q] = "worker" => proc[q] = "worker"
  BY <1>1 DEF WorkerExit, OrphanReap, OtherStart, OtherExit, IInv, TypeOK
<1>3. UNCHANGED <<pidfile, pc, arg, handleVars>>
  BY <1>1 DEF WorkerExit, OrphanReap, OtherStart, OtherExit
<1> QED
  BY <1>2, <1>3 DEF FileOK, Spawned

LEMMA FileMonitor ==
  ASSUME NEW h \in Handles, IInv, FileOK(h), Monitor(h)
  PROVE  FileOK(h)'
<1>1. \A q \in Pids : proc'[q] = "worker" => proc[q] = "worker"
  BY DEF Monitor, OwnedReap, OwnedRecord, ReattachedPoll, MonitorCancelled, IInv, TypeOK
<1>2. UNCHANGED <<pidfile, pc, arg, pid>>
  BY DEF Monitor, OwnedReap, OwnedRecord, ReattachedPoll, MonitorCancelled
<1> QED
  BY <1>1, <1>2 DEF FileOK, Spawned

LEMMA FileStart ==
  ASSUME NEW h \in Handles, IInv, FileOK(h), Start(h)
  PROVE  FileOK(h)'
<1>1. CASE StartRead(h) \/ StartMismatch(h) \/ StartError(h) \/ SpawnBound(h)
  BY <1>1 DEF StartRead, StartMismatch, StartError, SpawnBound, IInv, TypeOK, CallOK, FileOK, Spawned
<1>2. CASE StartReattach(h)
  BY <1>2 DEF StartReattach, IInv, TypeOK, CallOK, FileOK, Spawned
<1>3. CASE StartStale(h)
  BY <1>3 DEF StartStale, IInv, TypeOK, CallOK, FileOK, Spawned
<1>4. CASE StartSpawn(h)
  BY <1>4 DEF StartSpawn, IInv, TypeOK, CallOK, FileOK, Spawned
<1>5. CASE StartCreate(h) \/ StartWrite(h)
  BY <1>5 DEF StartCreate, StartWrite, IInv, TypeOK, CallOK, FileOK, Spawned
<1>6. CASE StartWriteError(h)
  BY <1>6 DEF StartWriteError, IInv, TypeOK, CallOK, FileOK, Spawned
<1> QED
  BY <1>1, <1>2, <1>3, <1>4, <1>5, <1>6 DEF Start

\* The pid file is removed for a pid that was seen to be gone.
LEMMA FileEnd ==
  ASSUME NEW h \in Handles, IInv, FileOK(h), End(h)
  PROVE  FileOK(h)'
<1>1. CASE JoinRemove(h)
  BY <1>1 DEF JoinRemove, IInv, TypeOK, CallOK, FileOK, Spawned
<1>2. CASE ~JoinRemove(h)
  BY <1>2 DEF End, StopSignal, DestroyObserve, DestroyKill, WaitGone, WaitTimeout, RemoveError, StopSet,
      IInv, TypeOK, FileOK, Spawned
<1> QED
  BY <1>1, <1>2

LEMMA FileHandle ==
  ASSUME NEW h \in Handles, IInv, FileOK(h),
         StatusObserve(h) \/ StatusWrite(h) \/ StopMonitor(h) \/ MonitorJoin(h) \/ Drop(h)
  PROVE  FileOK(h)'
  BY DEF StatusObserve, StatusWrite, StopMonitor, MonitorJoin, Drop, IInv, TypeOK, FileOK, Spawned

\* A single caller never runs its function twice (fx_start, 366-442), whatever
\* it dropped, stopped or destroyed before and whichever step failed.
THEOREM AtMostOneWorkerHolds ==
  ASSUME NEW h, Handles = {h}, ~CanCrash
  PROVE  Spec => []AtMostOneWorker
<1>1. h \in Handles
  OBVIOUS
<1>2. Init => FileOK(h)
  BY <1>1, FileInit
<1>3. IInv /\ FileOK(h) /\ [Next]_vars => FileOK(h)'
  BY <1>1, FileStutter, FileOs, FileMonitor, FileStart, FileEnd, FileHandle DEF Next, Caller
<1>4. IInv /\ FileOK(h) => AtMostOneWorker
  BY <1>1 DEF IInv, TypeOK, FileOK, AtMostOneWorker, Spawned
<1> QED
  BY Inductive, <1>2, <1>3, <1>4, PTL DEF Spec

----------------------------------------------------------------------------
(* To a single caller the provider has the life cycle of FxEffect: it      *)
(* starts a worker only when none runs, gives a handle only on the one     *)
(* started last, and stop and destroy return Ok when that has ended.       *)

SpawnedUpTo(n) == \A p \in Pids : proc[p] # "unused" <=> p <= n
Newest == CHOOSE n \in 0 .. MaxPid : SpawnedUpTo(n)
Runs   == \E p \in Pids : proc[p] = "worker"

Function(h) == INSTANCE FxEffect WITH
    Instances <- Pids, None <- 0, last <- Newest, up <- Runs,
    handle <- pid[h], destroyed <- pid[h] # None /\ ended[h] # "no"

\* Pids are given out in order, only the worker started last may run, and a
\* start that spawned one is about to give a handle on it.
NewestOK(h) ==
    /\ \E n \in 0 .. MaxPid : SpawnedUpTo(n)
    /\ \A p \in Pids : proc[p] = "worker" => p = Newest
    /\ pc[h] \in Spawned => arg[h] = Newest

LEMMA NewestIs == ASSUME NEW n \in 0 .. MaxPid, SpawnedUpTo(n)  PROVE Newest = n
<1>1. ASSUME NEW m \in 0 .. MaxPid, SpawnedUpTo(m)  PROVE m = n
  <2>1. CASE m < n
    <3>1. n \in Pids /\ proc[n] # "unused" /\ ~(n <= m)
      BY <2>1 DEF SpawnedUpTo
    <3> QED  BY <1>1, <3>1 DEF SpawnedUpTo
  <2>2. CASE n < m
    <3>1. m \in Pids /\ proc[m] # "unused" /\ ~(m <= n)
      BY <1>1, <2>2 DEF SpawnedUpTo
    <3> QED  BY <3>1 DEF SpawnedUpTo
  <2> QED  BY <2>1, <2>2
<1> QED  BY <1>1 DEF Newest

\* Most steps leave pids that were never used as they are.
LEMMA NewestKept ==
  ASSUME NEW h \in Handles, NewestOK(h), \A p \in Pids : proc'[p] # "unused" <=> proc[p] # "unused"
  PROVE  Newest' = Newest /\ \E n \in 0 .. MaxPid : SpawnedUpTo(n)'
  BY DEF NewestOK, Newest, SpawnedUpTo

LEMMA NewestSpawned ==
  ASSUME NEW h \in Handles, NewestOK(h), TypeOK, NEW p \in Pids,
         proc[p] = "unused", \A q \in Pids : q < p => proc[q] # "unused",
         proc' = [proc EXCEPT ![p] = "worker"]
  PROVE  Newest' = p /\ SpawnedUpTo(p)' /\ Newest # p
<1>1. PICK n \in 0 .. MaxPid : SpawnedUpTo(n)
  BY DEF NewestOK
<1>2. Newest = n
  BY <1>1, NewestIs
<1>3. n < p
  BY <1>1 DEF SpawnedUpTo
<1>4. \A q \in Pids : q > p => proc[q] = "unused"
  BY <1>1, <1>3 DEF SpawnedUpTo
<1>5. \A q \in Pids : proc'[q] # "unused" <=> q <= p
  BY <1>4 DEF TypeOK
<1>6. SpawnedUpTo(p)'
  BY <1>5 DEF SpawnedUpTo
<1>7. Newest' = p
  <2>1. ASSUME NEW m \in 0 .. MaxPid, SpawnedUpTo(m)'  PROVE m = p
    <3>1. p <= m
      BY <2>1, <1>5 DEF SpawnedUpTo
    <3>2. ~(p < m)
      BY <2>1, <1>5 DEF SpawnedUpTo
    <3> QED  BY <3>1, <3>2
  <2> QED  BY <1>6, <2>1 DEF Newest
<1> QED  BY <1>2, <1>3, <1>6, <1>7

----------------------------------------------------------------------------
\* A step that leaves the handle alone ends the worker or does nothing to it.
LEMMA FunctionCalm ==
  ASSUME NEW h \in Handles, IInv, NewestOK(h),
         \A p \in Pids : proc'[p] # "unused" <=> proc[p] # "unused",
         \A p \in Pids : proc'[p] = "worker" => proc[p] = "worker",
         pc'[h] \in Spawned => pc[h] \in Spawned /\ arg'[h] = arg[h],
         pid'[h] = pid[h], ended'[h] = ended[h]
  PROVE  NewestOK(h)' /\ (Function(h)!Next \/ UNCHANGED Function(h)!vars)
<1>1. Newest' = Newest /\ NewestOK(h)'
  BY NewestKept DEF NewestOK
<1>2. (pid[h] # None /\ ended[h] # "no")' = (pid[h] # None /\ ended[h] # "no")
  OBVIOUS
<1>3. Runs' => Runs
  BY DEF Runs
<1>4. CASE Runs /\ ~Runs'
  <2>1. Function(h)!End
    BY <1>1, <1>2, <1>4 DEF Function!End
  <2> QED  BY <1>1, <2>1 DEF Function!Next
<1>5. CASE ~(Runs /\ ~Runs')
  <2>1. Runs' = Runs
    BY <1>3, <1>5 DEF Runs
  <2> QED  BY <1>1, <1>2, <2>1 DEF Function!vars
<1> QED  BY <1>4, <1>5

LEMMA FunctionOs ==
  ASSUME NEW h \in Handles, ~CanCrash, IInv, NewestOK(h), Os
  PROVE  NewestOK(h)' /\ (Function(h)!Next \/ UNCHANGED Function(h)!vars)
<1>1. PICK p \in Pids : WorkerExit(p) \/ OrphanReap(p) \/ OtherStart(p) \/ OtherExit(p)
  BY DEF Os, Crash
<1>2. /\ \A q \in Pids : proc'[q] # "unused" <=> proc[q] # "unused"
      /\ \A q \in Pids : proc'[q] = "worker" => proc[q] = "worker"
  BY <1>1 DEF WorkerExit, OrphanReap, OtherStart, OtherExit, IInv, TypeOK
<1>3. UNCHANGED <<pc, arg, handleVars>>
  BY <1>1 DEF WorkerExit, OrphanReap, OtherStart, OtherExit
<1> QED  BY <1>2, <1>3, FunctionCalm

LEMMA FunctionMonitor ==
  ASSUME NEW h \in Handles, IInv, NewestOK(h), Monitor(h)
  PROVE  NewestOK(h)' /\ (Function(h)!Next \/ UNCHANGED Function(h)!vars)
<1>1. UNCHANGED <<pc, arg, pid, ended>>
  BY DEF Monitor, OwnedReap, OwnedRecord, ReattachedPoll, MonitorCancelled
<1>2. /\ \A q \in Pids : proc'[q] # "unused" <=> proc[q] # "unused"
      /\ \A q \in Pids : proc'[q] = "worker" => proc[q] = "worker"
  BY DEF Monitor, OwnedReap, OwnedRecord, ReattachedPoll, MonitorCancelled, IInv, TypeOK, CallOK
<1> QED  BY <1>1, <1>2, FunctionCalm

\* fx_start gives a handle.
LEMMA FunctionAttach ==
  ASSUME NEW h \in Handles, IInv, NewestOK(h), UNCHANGED proc, pc' = [pc EXCEPT ![h] = "idle"],
         Newest # None, pid' = [pid EXCEPT ![h] = Newest], ended' = [ended EXCEPT ![h] = "no"]
  PROVE  NewestOK(h)' /\ (Function(h)!Next \/ UNCHANGED Function(h)!vars)
<1>1. Newest' = Newest
  BY NewestKept
<1>2. NewestOK(h)'
  BY <1>1, NewestKept DEF NewestOK, Spawned, IInv, TypeOK
<1>3. Runs' = Runs
  BY DEF Runs
<1>4. pid'[h] = Newest /\ ended'[h] = "no"
  BY DEF IInv, TypeOK
<1>5. Function(h)!Attach
  BY <1>1, <1>3, <1>4 DEF Function!Attach
<1> QED  BY <1>2, <1>5 DEF Function!Next

LEMMA FunctionStart ==
  ASSUME NEW h \in Handles, IInv, FileOK(h), NewestOK(h), Start(h)
  PROVE  NewestOK(h)' /\ (Function(h)!Next \/ UNCHANGED Function(h)!vars)
<1>1. CASE StartRead(h) \/ StartMismatch(h) \/ StartStale(h) \/ StartError(h) \/ SpawnBound(h) \/ StartCreate(h)
  <2>1. UNCHANGED <<proc, handleVars>>
    BY <1>1 DEF StartRead, StartMismatch, StartStale, StartError, SpawnBound, StartCreate
  <2>2. pc'[h] \in Spawned => pc[h] \in Spawned /\ arg'[h] = arg[h]
    BY <1>1 DEF StartRead, StartMismatch, StartStale, StartError, SpawnBound, StartCreate, Spawned, IInv, TypeOK
  <2> QED  BY <2>1, <2>2, FunctionCalm
<1>2. CASE StartReattach(h)
  <2>1. arg[h] \in Pids /\ proc[arg[h]] = "worker"
    BY <1>2 DEF StartReattach, IInv, TypeOK, CallOK
  <2>2. arg[h] = Newest
    BY <2>1 DEF NewestOK
  <2>3. /\ UNCHANGED proc /\ pc' = [pc EXCEPT ![h] = "idle"]
        /\ pid' = [pid EXCEPT ![h] = Newest] /\ ended' = [ended EXCEPT ![h] = "no"]
    BY <1>2, <2>2 DEF StartReattach
  <2>4. Newest # None
    BY <2>1, <2>2
  <2> QED  BY <2>3, <2>4, FunctionAttach
<1>3. CASE StartWrite(h)
  <2>1. arg[h] = Newest /\ arg[h] # None
    BY <1>3 DEF StartWrite, IInv, CallOK, NewestOK, Spawned
  <2> QED  BY <1>3, <2>1, FunctionAttach DEF StartWrite
<1>4. CASE StartWriteError(h)
  <2>1. UNCHANGED <<arg, handleVars>> /\ pc'[h] = "idle"
    BY <1>4 DEF StartWriteError, IInv, TypeOK
  <2>2. /\ \A q \in Pids : proc'[q] # "unused" <=> proc[q] # "unused"
        /\ \A q \in Pids : proc'[q] = "worker" => proc[q] = "worker"
    BY <1>4 DEF StartWriteError, IInv, TypeOK, KnownOK, CallOK
  <2> QED  BY <2>1, <2>2, FunctionCalm DEF Spawned
<1>5. CASE StartSpawn(h)
  <2>1. PICK p \in Pids :
          /\ proc[p] = "unused" /\ \A q \in Pids : q < p => proc[q] # "unused"
          /\ proc' = [proc EXCEPT ![p] = "worker"] /\ arg' = [arg EXCEPT ![h] = p]
    BY <1>5 DEF StartSpawn
  <2>2. ~Runs
    BY <1>5 DEF StartSpawn, FileOK, Spawned, Runs
  <2>3. Newest' = p /\ SpawnedUpTo(p)' /\ Newest # p
    BY <2>1, NewestSpawned DEF IInv
  <2>4. arg'[h] = p /\ \A q \in Pids : proc'[q] = "worker" => q = p
    BY <2>1, <2>2 DEF Runs, IInv, TypeOK
  <2>5. NewestOK(h)'
    BY <2>3, <2>4 DEF NewestOK
  <2>6. UNCHANGED handleVars
    BY <1>5 DEF StartSpawn
  <2>7. (pid[h] # None /\ ended[h] # "no")' = (pid[h] # None /\ ended[h] # "no")
    BY <2>6
  <2>8. Runs' \in BOOLEAN
    BY Zenon DEF Runs
  <2>9. Function(h)!Spawn
    BY <2>2, <2>3, <2>6, <2>7, <2>8 DEF Function!Spawn
  <2> QED  BY <2>5, <2>9 DEF Function!Next
<1> QED  BY <1>1, <1>2, <1>3, <1>4, <1>5 DEF Start

\* A stop or destroy returns Ok.
LEMMA FunctionEnded ==
  ASSUME NEW h \in Handles, IInv, NewestOK(h), UNCHANGED <<proc, pid>>, pc'[h] = "idle",
         pid[h] # None, Gone(pid[h]), ended'[h] # "no"
  PROVE  NewestOK(h)' /\ (Function(h)!Next \/ UNCHANGED Function(h)!vars)
<1>1. Newest' = Newest
  BY NewestKept
<1>2. NewestOK(h)'
  BY <1>1, NewestKept DEF NewestOK, Spawned
<1>3. Runs' = Runs
  BY DEF Runs
<1>4. ~(Runs /\ pid[h] = Newest)
  BY DEF Runs, NewestOK
<1>5. Function(h)!Destroyed
  BY <1>1, <1>3, <1>4 DEF Function!Destroyed
<1> QED  BY <1>2, <1>5 DEF Function!Next

LEMMA FunctionEnd ==
  ASSUME NEW h \in Handles, IInv, NewestOK(h), End(h)
  PROVE  NewestOK(h)' /\ (Function(h)!Next \/ UNCHANGED Function(h)!vars)
<1>1. UNCHANGED <<proc, pid, arg>> /\ pc'[h] \notin Spawned
  BY DEF End, StopSignal, DestroyObserve, DestroyKill, WaitGone, WaitTimeout, JoinRemove, RemoveError,
     StopSet, Spawned, IInv, TypeOK
<1>2. CASE ended'[h] = ended[h]
  BY <1>1, <1>2, FunctionCalm
<1>3. CASE ended'[h] # ended[h]
  <2>1. (JoinRemove(h) /\ pc[h] = "destroyJoin") \/ StopSet(h)
    BY <1>3 DEF End, StopSignal, DestroyObserve, DestroyKill, WaitGone, WaitTimeout, JoinRemove, RemoveError, StopSet
  <2>2. pid[h] # None /\ Gone(pid[h])
    BY <2>1 DEF JoinRemove, StopSet, IInv, CallOK
  <2>3. pc'[h] = "idle" /\ ended'[h] # "no"
    BY <2>1 DEF JoinRemove, StopSet, IInv, TypeOK
  <2> QED  BY <1>1, <2>2, <2>3, FunctionEnded
<1> QED  BY <1>2, <1>3

LEMMA FunctionHandle ==
  ASSUME NEW h \in Handles, IInv, NewestOK(h),
         StatusObserve(h) \/ StatusWrite(h) \/ StopMonitor(h) \/ MonitorJoin(h) \/ Drop(h)
  PROVE  NewestOK(h)' /\ (Function(h)!Next \/ UNCHANGED Function(h)!vars)
<1>1. UNCHANGED <<proc, arg, ended>> /\ (pc'[h] \in Spawned => pc[h] \in Spawned)
  BY DEF StatusObserve, StatusWrite, StopMonitor, MonitorJoin, Drop, Spawned, IInv, TypeOK
<1>2. CASE ~Drop(h)
  <2>1. pid' = pid
    BY <1>2 DEF StatusObserve, StatusWrite, StopMonitor, MonitorJoin
  <2> QED  BY <1>1, <2>1, FunctionCalm
<1>3. CASE Drop(h)
  <2>1. Newest' = Newest
    BY <1>1, NewestKept
  <2>2. NewestOK(h)'
    BY <1>1, <2>1, NewestKept DEF NewestOK
  <2>3. Runs' = Runs
    BY <1>1 DEF Runs
  <2>4. pid'[h] = None
    BY <1>3 DEF Drop, IInv, TypeOK
  <2>5. Function(h)!Call
    BY <2>1, <2>3, <2>4 DEF Function!Call
  <2> QED  BY <2>2, <2>5 DEF Function!Next
<1> QED  BY <1>2, <1>3

\* What FxEffect says of any provider holds of the Rust functions of a single
\* caller (fx_start to fx_destroy, 366-503) that does not crash: a crash between
\* the spawn and the pid file leaves a worker that the next start cannot see.
THEOREM FunctionLifeCycle ==
  ASSUME NEW h, Handles = {h}, ~CanCrash
  PROVE  Spec => Function(h)!Spec
<1>1. h \in Handles
  OBVIOUS
<1>2. Init => FileOK(h) /\ NewestOK(h) /\ Function(h)!Init
  <2> SUFFICES ASSUME Init  PROVE FileOK(h) /\ NewestOK(h) /\ Function(h)!Init
    OBVIOUS
  <2>1. SpawnedUpTo(0)
    BY DEF Init, SpawnedUpTo
  <2>2. Newest = 0
    BY <2>1, NewestIs
  <2>3. FileOK(h)
    BY <1>1, FileInit
  <2> QED  BY <1>1, <2>1, <2>2, <2>3 DEF Init, NewestOK, Spawned, Runs, Function!Init
<1>3. IInv /\ FileOK(h) /\ [Next]_vars => FileOK(h)'
  BY <1>1, FileStutter, FileOs, FileMonitor, FileStart, FileEnd, FileHandle DEF Next, Caller
<1>4. IInv /\ FileOK(h) /\ NewestOK(h) /\ [Next]_vars => NewestOK(h)' /\ [Function(h)!Next]_(Function(h)!vars)
  <2> SUFFICES ASSUME IInv, FileOK(h), NewestOK(h), [Next]_vars
               PROVE  NewestOK(h)' /\ (Function(h)!Next \/ UNCHANGED Function(h)!vars)
    OBVIOUS
  <2>1. CASE UNCHANGED vars
    BY <1>1, <2>1, FunctionCalm DEF vars
  <2> QED
    BY <1>1, <2>1, FunctionOs, FunctionMonitor, FunctionStart, FunctionEnd, FunctionHandle DEF Next, Caller
<1> QED
  BY Inductive, <1>2, <1>3, <1>4, PTL DEF Spec, Function!Spec

=============================================================================
