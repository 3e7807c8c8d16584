----------------------------- MODULE FxRustFn -----------------------------
(***************************************************************************)
(* The Rust-function provider: worker processes of one registered          *)
(* function, the pid file that names the current one, and the handles the  *)
(* callers of FxControl hold.  Each handle has a monitor task: of an owned *)
(* handle (this process spawned the worker) it waits for the child, of a   *)
(* reattached one it polls the process table.                              *)
(*                                                                         *)
(* A caller runs fx_start, fx_status, fx_stop and fx_destroy on its own    *)
(* handle and on an FxRustFn value of its own, whose methods borrow it:    *)
(* the calls of one caller do not overlap, those of two callers, for the   *)
(* same function and run directory, do.                                    *)
(*                                                                         *)
(* A worker gets a pid no earlier worker had; a pid that was freed may be  *)
(* given to an unrelated process.                                          *)
(***************************************************************************)
EXTENDS Naturals, FiniteSets

CONSTANTS
    Handles,    \* the callers, each with room for one handle
    MaxPid,     \* bound: the workers ever spawned
    Reuse,      \* freed pids may go to unrelated processes
    IoMayFail,  \* pid-file operations and spawns may fail
    CanCrash    \* the process that holds the handles may crash

ASSUME RustFnAssumption == /\ MaxPid \in Nat
                           /\ {Reuse, IoMayFail, CanCrash} \subseteq BOOLEAN

Pids   == 1 .. MaxPid
None   == 0             \* no pid, no pid file
Torn   == MaxPid + 1    \* a pid file that was created and not yet written
Nobody == "nobody"      \* the parent of a process no monitor waits for

ASSUME NobodyAssumption == Nobody \notin Handles

VARIABLES
    proc,     \* pid -> "unused" | "worker" | "zombie" | "gone" | "other"
    parent,   \* pid -> the handle whose monitor waits for it, or Nobody
    pidfile,  \* what read_pid_file finds
    pc,       \* handle -> where its caller is
    arg,      \* handle -> the pid a call in progress works on
    pid,      \* handle -> its pid, None while the caller has no handle
    own,      \* handle -> spawned here, not reattached
    st,       \* handle -> latest_state
    mon,      \* handle -> "on" | "cancel" | "record" | "off", its monitor
    ended     \* history: handle -> "no" | "stopped" | "destroyed"

osVars     == <<proc, parent>>
handleVars == <<pid, own, st, mon, ended>>
vars == <<proc, parent, pidfile, pc, arg, pid, own, st, mon, ended>>

Init ==
    /\ proc = [p \in Pids |-> "unused"]
    /\ parent = [p \in Pids |-> Nobody]
    /\ pidfile = None
    /\ pc = [h \in Handles |-> "idle"]
    /\ arg = [h \in Handles |-> None]
    /\ pid = [h \in Handles |-> None]
    /\ own = [h \in Handles |-> FALSE]
    /\ st = [h \in Handles |-> "NotStarted"]
    /\ mon = [h \in Handles |-> "off"]
    /\ ended = [h \in Handles |-> "no"]

Goto(h, l) == pc' = [pc EXCEPT ![h] = l]

\* A caller may begin a call.
Free(h) == pc[h] = "idle"

\* observe_worker_process: a zombie is listed with an empty command line.
Observe(p) ==
    IF proc[p] = "worker" THEN "Matching"
    ELSE IF proc[p] \in {"zombie", "other"} THEN "Mismatched" ELSE "Missing"

\* process_exists
Exists(p) == Observe(p) # "Missing"

----------------------------------------------------------------------------
(* The operating system                                                    *)

\* A worker exits, of its own accord or on a signal.
WorkerExit(p) ==
    /\ proc[p] = "worker"
    /\ proc' = [proc EXCEPT ![p] = "zombie"]
    /\ UNCHANGED <<parent, pidfile, pc, arg, handleVars>>

\* A dead worker without a monitor is reaped by tokio's orphan queue, or by
\* init once its parent is gone.
OrphanReap(p) ==
    /\ proc[p] = "zombie"
    /\ parent[p] = Nobody
    /\ proc' = [proc EXCEPT ![p] = "gone"]
    /\ UNCHANGED <<parent, pidfile, pc, arg, handleVars>>

\* An unrelated process gets the pid of a worker that is gone, and exits.
OtherStart(p) ==
    /\ Reuse
    /\ proc[p] = "gone"
    /\ proc' = [proc EXCEPT ![p] = "other"]
    /\ UNCHANGED <<parent, pidfile, pc, arg, handleVars>>

OtherExit(p) ==
    /\ proc[p] = "other"
    /\ proc' = [proc EXCEPT ![p] = "gone"]
    /\ UNCHANGED <<parent, pidfile, pc, arg, handleVars>>

\* The process that holds the handles crashes; the workers go on.
Crash ==
    /\ CanCrash
    /\ parent' = [p \in Pids |-> Nobody]
    /\ pc'  = [h \in Handles |-> "idle"]
    /\ pid' = [h \in Handles |-> None]
    /\ mon' = [h \in Handles |-> "off"]
    /\ UNCHANGED <<proc, pidfile, arg, own, st, ended>>

----------------------------------------------------------------------------
(* The monitors                                                            *)

\* The monitor of an owned handle: child.wait() returned.
OwnedReap(h) ==
    /\ mon[h] \in {"on", "cancel"} /\ own[h]
    /\ proc[pid[h]] = "zombie" /\ parent[pid[h]] = h
    /\ proc' = [proc EXCEPT ![pid[h]] = "gone"]
    /\ mon'  = [mon EXCEPT ![h] = "record"]
    /\ UNCHANGED <<parent, pidfile, pc, arg, pid, own, st, ended>>

OwnedRecord(h) ==
    /\ mon[h] = "record"
    /\ st'  = [st EXCEPT ![h] = "Exited"]
    /\ mon' = [mon EXCEPT ![h] = "off"]
    /\ UNCHANGED <<osVars, pidfile, pc, arg, pid, own, ended>>

\* Mutant of ReattachedPoll: only a missing process ends the polling.
ReattachedPollMissing(h) ==
    /\ mon[h] \in {"on", "cancel"} /\ ~own[h]
    /\ Observe(pid[h]) = "Missing"
    /\ st'  = [st EXCEPT ![h] = "NotStarted"]
    /\ mon' = [mon EXCEPT ![h] = "off"]
    /\ UNCHANGED <<osVars, pidfile, pc, arg, pid, own, ended>>

\* monitor_reattached_pid finds that its worker is no longer there.
ReattachedPoll(h) ==
    /\ mon[h] \in {"on", "cancel"} /\ ~own[h]
    /\ Observe(pid[h]) # "Matching"
    /\ st'  = [st EXCEPT ![h] = IF Observe(pid[h]) = "Missing"
                                  THEN "NotStarted" ELSE "Error"]
    /\ mon' = [mon EXCEPT ![h] = "off"]
    /\ UNCHANGED <<osVars, pidfile, pc, arg, pid, own, ended>>

\* Nobody waits any more for the child of a monitor that ends early.
Disown(h) == parent' = [p \in Pids |-> IF parent[p] = h THEN Nobody
                                                       ELSE parent[p]]

\* The monitor receives the cancel message; an owned child is dropped.
MonitorCancelled(h) ==
    /\ mon[h] = "cancel"
    /\ mon' = [mon EXCEPT ![h] = "off"]
    /\ Disown(h)
    /\ UNCHANGED <<proc, pidfile, pc, arg, pid, own, st, ended>>

\* The first half of stop_monitor: the cancel message is sent.
SendCancel(h) ==
    mon' = [mon EXCEPT ![h] = IF @ = "on" THEN "cancel" ELSE @]

----------------------------------------------------------------------------
(* fx_start                                                                *)

\* Mutant of StartRead: whatever the file holds is taken for a pid.
StartReadUnparsed(h) ==
    /\ Free(h)
    /\ pid[h] = None
    /\ arg' = [arg EXCEPT ![h] = pidfile]
    /\ Goto(h, IF pidfile = None THEN "startSpawn" ELSE "startObserve")
    /\ UNCHANGED <<osVars, pidfile, handleVars>>

\* read_pid_file: a file without a pid in it is an error.
StartRead(h) ==
    /\ Free(h)
    /\ pid[h] = None
    /\ pidfile # Torn
    /\ arg' = [arg EXCEPT ![h] = pidfile]
    /\ Goto(h, IF pidfile = None THEN "startSpawn" ELSE "startObserve")
    /\ UNCHANGED <<osVars, pidfile, handleVars>>

\* reattached_handle
StartReattach(h) ==
    /\ pc[h] = "startObserve"
    /\ Observe(arg[h]) = "Matching"
    /\ pid' = [pid EXCEPT ![h] = arg[h]]
    /\ own' = [own EXCEPT ![h] = FALSE]
    /\ st'  = [st EXCEPT ![h] = "Running"]
    /\ mon' = [mon EXCEPT ![h] = "on"]
    /\ ended' = [ended EXCEPT ![h] = "no"]
    /\ Goto(h, "idle")
    /\ UNCHANGED <<osVars, pidfile, arg>>

\* The pid belongs to something else: fx_start returns PidMismatch.
StartMismatch(h) ==
    /\ pc[h] = "startObserve"
    /\ Observe(arg[h]) = "Mismatched"
    /\ Goto(h, "idle")
    /\ UNCHANGED <<osVars, pidfile, arg, handleVars>>

\* The pid is gone: whatever pid file is there now is removed.
StartStale(h) ==
    /\ pc[h] = "startObserve"
    /\ Observe(arg[h]) = "Missing"
    /\ pidfile' = None
    /\ Goto(h, "startSpawn")
    /\ UNCHANGED <<osVars, arg, handleVars>>

StartSpawn(h) ==
    /\ pc[h] = "startSpawn"
    /\ \E p \in Pids :
         /\ proc[p] = "unused" /\ \A q \in Pids : q < p => proc[q] # "unused"
         /\ proc'   = [proc EXCEPT ![p] = "worker"]
         /\ parent' = [parent EXCEPT ![p] = h]
         /\ arg'    = [arg EXCEPT ![h] = p]
    /\ Goto(h, "startCreate")
    /\ UNCHANGED <<pidfile, handleVars>>

\* write_pid_file is not atomic: the file is created, then written.
StartCreate(h) ==
    /\ pc[h] = "startCreate"
    /\ pidfile' = Torn
    /\ Goto(h, "startWrite")
    /\ UNCHANGED <<osVars, arg, handleVars>>

StartWrite(h) ==
    /\ pc[h] = "startWrite"
    /\ pidfile' = arg[h]
    /\ pid' = [pid EXCEPT ![h] = arg[h]]
    /\ own' = [own EXCEPT ![h] = TRUE]
    /\ st'  = [st EXCEPT ![h] = "Running"]
    /\ mon' = [mon EXCEPT ![h] = "on"]
    /\ ended' = [ended EXCEPT ![h] = "no"]
    /\ Goto(h, "idle")
    /\ UNCHANGED <<osVars, arg>>

\* The pid file cannot be written: the child is killed and waited for.
StartWriteError(h) ==
    /\ IoMayFail
    /\ pc[h] \in {"startCreate", "startWrite"}
    /\ proc'   = [proc EXCEPT ![arg[h]] = "gone"]
    /\ parent' = [parent EXCEPT ![arg[h]] = Nobody]
    /\ Goto(h, "idle")
    /\ UNCHANGED <<pidfile, arg, handleVars>>

\* The stale pid file cannot be removed, or the spawn fails.
StartError(h) ==
    /\ IoMayFail
    /\ \/ pc[h] = "startObserve" /\ Observe(arg[h]) = "Missing"
       \/ pc[h] = "startSpawn"
    /\ Goto(h, "idle")
    /\ UNCHANGED <<osVars, pidfile, arg, handleVars>>

\* All MaxPid workers have been spawned: the bound of the model fails it.
SpawnBound(h) ==
    /\ pc[h] = "startSpawn"
    /\ \A p \in Pids : proc[p] # "unused"
    /\ Goto(h, "idle")
    /\ UNCHANGED <<osVars, pidfile, arg, handleVars>>

----------------------------------------------------------------------------
(* fx_status                                                               *)

\* fx_status looks at the process and, unless it is missing, writes
\* latest_state afterwards, under a lock the monitor takes as well.
StatusObserve(h) ==
    /\ Free(h)
    /\ pid[h] # None
    /\ Exists(pid[h])
    /\ Goto(h, IF Observe(pid[h]) = "Matching" THEN "statusRunning"
                                               ELSE "statusError")
    /\ UNCHANGED <<osVars, pidfile, arg, handleVars>>

StatusWrite(h) ==
    /\ pc[h] \in {"statusRunning", "statusError"}
    /\ st' = [st EXCEPT ![h] = IF pc[h] = "statusRunning" THEN "Running"
                                                          ELSE "Error"]
    /\ Goto(h, "idle")
    /\ UNCHANGED <<osVars, pidfile, arg, pid, own, mon, ended>>

----------------------------------------------------------------------------
(* fx_stop and fx_destroy                                                  *)

\* A signal changes nothing here: a worker that gets one exits at some time, as
\* it may without.

\* Mutant of StopSignal: the wait for the process to exit were left out.
StopSignalOnly(h) ==
    /\ Free(h)
    /\ pid[h] # None
    /\ Exists(pid[h])
    /\ SendCancel(h)
    /\ Goto(h, "stopJoin")
    /\ UNCHANGED <<osVars, pidfile, arg, pid, own, st, ended>>

\* fx_stop sends SIGTERM to the pid, whatever it is by now.
StopSignal(h) ==
    /\ Free(h)
    /\ pid[h] # None
    /\ Exists(pid[h])
    /\ Goto(h, "stopWait")
    /\ UNCHANGED <<osVars, pidfile, arg, handleVars>>

\* fx_destroy kills the pid only if it was seen to be a worker.
DestroyObserve(h) ==
    /\ Free(h)
    /\ pid[h] # None
    /\ \/ /\ Observe(pid[h]) = "Matching"
          /\ Goto(h, "destroyKill")
          /\ UNCHANGED mon
       \/ /\ Observe(pid[h]) = "Missing"
          /\ SendCancel(h)
          /\ Goto(h, "destroyJoin")
    /\ UNCHANGED <<osVars, pidfile, arg, pid, own, st, ended>>

DestroyKill(h) ==
    /\ pc[h] = "destroyKill"
    /\ Goto(h, IF Exists(pid[h]) THEN "destroyWait" ELSE "idle")
    /\ UNCHANGED <<osVars, pidfile, arg, handleVars>>

\* wait_for_process_exit, in either call: the pid is gone, or time is up.
WaitGone(h) ==
    /\ pc[h] \in {"stopWait", "destroyWait"}
    /\ ~Exists(pid[h])
    /\ SendCancel(h)
    /\ Goto(h, IF pc[h] = "stopWait" THEN "stopJoin" ELSE "destroyJoin")
    /\ UNCHANGED <<osVars, pidfile, arg, pid, own, st, ended>>

\* Mutant of WaitTimeout: a worker that outlives the wait counts as stopped.
WaitTimeoutIgnored(h) ==
    /\ pc[h] \in {"stopWait", "destroyWait"}
    /\ Exists(pid[h])
    /\ SendCancel(h)
    /\ Goto(h, IF pc[h] = "stopWait" THEN "stopJoin" ELSE "destroyJoin")
    /\ UNCHANGED <<osVars, pidfile, arg, pid, own, st, ended>>

WaitTimeout(h) ==
    /\ pc[h] \in {"stopWait", "destroyWait"}
    /\ Exists(pid[h])
    /\ Goto(h, "idle")
    /\ UNCHANGED <<osVars, pidfile, arg, handleVars>>

\* Mutant of JoinRemove: the monitor is cancelled and not joined.
JoinRemoveEarly(h) ==
    /\ pc[h] \in {"stopJoin", "destroyJoin"}
    /\ pidfile' = None
    /\ IF pc[h] = "stopJoin"
         THEN Goto(h, "stopSet") /\ UNCHANGED ended
         ELSE Goto(h, "idle") /\ ended' = [ended EXCEPT ![h] = "destroyed"]
    /\ UNCHANGED <<osVars, arg, pid, own, st, mon>>

\* The monitor has been joined; the pid file is removed, whoever wrote it.
JoinRemove(h) ==
    /\ pc[h] \in {"stopJoin", "destroyJoin"}
    /\ mon[h] = "off"
    /\ pidfile' = None
    /\ IF pc[h] = "stopJoin"
         THEN Goto(h, "stopSet") /\ UNCHANGED ended
         ELSE Goto(h, "idle") /\ ended' = [ended EXCEPT ![h] = "destroyed"]
    /\ UNCHANGED <<osVars, arg, pid, own, st, mon>>

RemoveError(h) ==
    /\ IoMayFail
    /\ pc[h] \in {"stopJoin", "destroyJoin"}
    /\ mon[h] = "off"
    /\ Goto(h, "idle")
    /\ UNCHANGED <<osVars, pidfile, arg, handleVars>>

StopSet(h) ==
    /\ pc[h] = "stopSet"
    /\ st'    = [st EXCEPT ![h] = "Stopped"]
    /\ ended' = [ended EXCEPT ![h] = "stopped"]
    /\ Goto(h, "idle")
    /\ UNCHANGED <<osVars, pidfile, arg, pid, own, mon>>

----------------------------------------------------------------------------
(* Handles on their own                                                    *)

\* Mutant of StopMonitor: the monitor is joined and not cancelled.
StopMonitorJoinOnly(h) ==
    /\ Free(h)
    /\ pid[h] # None
    /\ mon[h] = "on"
    /\ Goto(h, "monitorJoin")
    /\ UNCHANGED <<osVars, pidfile, arg, handleVars>>

\* stop_monitor, called by the owner of the handle.
StopMonitor(h) ==
    /\ Free(h)
    /\ pid[h] # None
    /\ mon[h] = "on"
    /\ SendCancel(h)
    /\ Goto(h, "monitorJoin")
    /\ UNCHANGED <<osVars, pidfile, arg, pid, own, st, ended>>

MonitorJoin(h) ==
    /\ pc[h] = "monitorJoin"
    /\ mon[h] = "off"
    /\ Goto(h, "idle")
    /\ UNCHANGED <<osVars, pidfile, arg, handleVars>>

\* The handle is dropped: its cancel channel closes, which ends the monitor.
Drop(h) ==
    /\ Free(h)
    /\ pid[h] # None
    /\ pid' = [pid EXCEPT ![h] = None]
    /\ mon' = [mon EXCEPT ![h] = "off"]
    /\ Disown(h)
    /\ UNCHANGED <<proc, pidfile, pc, arg, own, st, ended>>

----------------------------------------------------------------------------
Os == \/ \E p \in Pids : \/ WorkerExit(p) \/ OrphanReap(p)
                         \/ OtherStart(p) \/ OtherExit(p)
      \/ Crash

Monitor(h) == OwnedReap(h) \/ OwnedRecord(h) \/ ReattachedPoll(h)
                \/ MonitorCancelled(h)

Start(h) == \/ StartRead(h) \/ StartReattach(h) \/ StartMismatch(h)
            \/ StartStale(h) \/ StartSpawn(h) \/ StartCreate(h)
            \/ StartWrite(h) \/ StartWriteError(h) \/ StartError(h)
            \/ SpawnBound(h)

End(h) == \/ StopSignal(h) \/ DestroyObserve(h) \/ DestroyKill(h)
          \/ WaitGone(h) \/ WaitTimeout(h) \/ JoinRemove(h) \/ RemoveError(h)
          \/ StopSet(h)

Caller(h) == \/ Start(h) \/ End(h) \/ StatusObserve(h) \/ StatusWrite(h)
             \/ StopMonitor(h) \/ MonitorJoin(h) \/ Drop(h)

Next == Os \/ \E h \in Handles : Monitor(h) \/ Caller(h)

Spec == Init /\ [][Next]_vars

\* The tasks run, a call that has begun goes on, zombies are reaped; no worker
\* has to exit and no caller to call.
Fairness == /\ \A p \in Pids : WF_vars(OrphanReap(p))
            /\ \A h \in Handles : /\ WF_vars(Monitor(h))
                                  /\ WF_vars(pc[h] # "idle" /\ Caller(h))

FairSpec == Spec /\ Fairness

----------------------------------------------------------------------------
(* Properties                                                              *)

Pcs == {"idle", "startObserve", "startSpawn", "startCreate", "startWrite",
        "statusRunning", "statusError", "stopWait", "stopJoin", "stopSet",
        "destroyKill", "destroyWait", "destroyJoin", "monitorJoin"}

\* Every variable has a value of its type.
TypeOK ==
    /\ proc \in [Pids -> {"unused", "worker", "zombie", "gone", "other"}]
    /\ parent \in [Pids -> Handles \cup {Nobody}]
    /\ pidfile \in Pids \cup {None, Torn}
    /\ pc \in [Handles -> Pcs] /\ arg \in [Handles -> Pids \cup {None}]
    /\ pid \in [Handles -> Pids \cup {None}] /\ own \in [Handles -> BOOLEAN]
    /\ st \in [Handles -> {"NotStarted", "Running", "Exited", "Stopped",
                           "Error"}]
    /\ mon \in [Handles -> {"on", "cancel", "record", "off"}]
    /\ ended \in [Handles -> {"no", "stopped", "destroyed"}]

Has(h) == pid[h] # None

\* control.rs:59: start runs the function or attaches to the instance that
\* already runs, so the function never runs twice.
AtMostOneWorker ==
    \A p, q \in Pids : proc[p] = "worker" /\ proc[q] = "worker" => p = q

\* A stop or destroy that returned Ok has ended the worker, which has been
\* reaped, and the monitor, whatever else raced with it.
EndedIsGone ==
    \A h \in Handles :
        Has(h) /\ ended[h] # "no" =>
            mon[h] = "off" /\ proc[pid[h]] \notin {"worker", "zombie"}

\* What a stop that returned Ok has set is final: no monitor records its own
\* view of the exit afterwards.  A status call that finds the pid taken by
\* another process may still turn it into an error.
StoppedIsReported ==
    \A h \in Handles :
        Has(h) /\ ended[h] = "stopped" => st[h] \in {"Stopped", "Error"}

\* A monitor that was not told to end notices that its worker is gone.
MonitorNotices ==
    \A h \in Handles :
        Has(h) /\ mon[h] = "on" /\ proc[pid[h]] # "worker" ~> mon[h] = "off"

\* Every call returns: the waits are bounded and the joins find a monitor
\* that ends.
CallsEnd == \A h \in Handles : pc[h] # "idle" ~> pc[h] = "idle"

\* control.rs:73: status returns the current status.  A worker that destroy
\* has killed, or that its own monitor saw exit, is not running.
EndNotForgotten ==
    \A h \in Handles :
        /\ Has(h) /\ pc[h] = "idle"
        /\ \/ ended[h] = "destroyed"
           \/ ended[h] = "no" /\ own[h] /\ mon[h] = "off" /\ parent[pid[h]] = h
        => st[h] # "Running"

=============================================================================
