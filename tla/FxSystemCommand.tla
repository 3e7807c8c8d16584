-------------------------- MODULE FxSystemCommand --------------------------
(***************************************************************************)
(* The system-command provider: effects with the same command line, the    *)
(* processes started for them, and what a start goes by to find them: the  *)
(* pid file of the effect if it has a pid directory, else the state of its *)
(* FxSystemCommand value and a scan of the process table.                  *)
(*                                                                         *)
(* The calls on one value borrow it and so do not overlap; the values of   *)
(* different effects are called concurrently.  A call is cut where it      *)
(* awaits and where it looks at the process table.                         *)
(*                                                                         *)
(* A command with a nice level or pinned CPUs is launched by a wrapper     *)
(* that replaces itself by the command: the command line of the process    *)
(* changes from the launch line to the command's.  A freed pid may go to   *)
(* an unrelated process.                                                   *)
(***************************************************************************)
EXTENDS Naturals, FiniteSets

CONSTANTS
    Cmds,       \* the effects
    MaxPid,     \* bound: the processes ever spawned
    IoMayFail,  \* files and spawns may fail
    CanCrash    \* the process that holds the values may crash and restart

ASSUME CommandAssumption == MaxPid \in Nat /\ {IoMayFail, CanCrash} \subseteq BOOLEAN

Pids == 1 .. MaxPid
None == 0             \* no pid, no pid file
Torn == MaxPid + 1    \* a pid file that was created and not yet written

VARIABLES
    dir,     \* effect -> it has a pid directory
    nice,    \* effect -> it is launched by a wrapper
    proc,    \* pid -> "unused" | "wrapper" | "command" | "zombie" | "gone" | "other"
    cmdOf,   \* pid -> the effect it was spawned for, or None
    held,    \* the processes whose Child object exists: nobody else reaps them
    killed,  \* the processes that were sent SIGKILL
    file,    \* effect -> what read_pid_file finds
    st,      \* effect -> the pid of state Running, None in another state
    kind,    \* effect -> "none" | "tokio" | "pid", the handle its caller has
    hpid,    \* effect -> the pid of the handle
    pc,      \* effect -> where the call on it is
    ended,   \* history: effect -> the last call was a destroy that returned Ok
    adrift,  \* history: processes that a crash left without a pid file
    last     \* history: effect -> the process spawned last, None if it is adrift

confVars   == <<dir, nice>>
osVars     == <<proc, cmdOf, killed>>
handleVars == <<kind, hpid>>
driftVars  == <<adrift, last>>
histVars   == <<ended, driftVars>>
vars == <<confVars, osVars, held, file, st, handleVars, pc, histVars>>

Init ==
    /\ dir \in [Cmds -> BOOLEAN] /\ nice \in [Cmds -> BOOLEAN]
    /\ proc = [p \in Pids |-> "unused"] /\ cmdOf = [p \in Pids |-> None]
    /\ held = {} /\ killed = {}
    /\ file = [c \in Cmds |-> None] /\ st = [c \in Cmds |-> None]
    /\ kind = [c \in Cmds |-> "none"] /\ hpid = [c \in Cmds |-> None]
    /\ pc = [c \in Cmds |-> "idle"]
    /\ ended = [c \in Cmds |-> FALSE] /\ adrift = {} /\ last = [c \in Cmds |-> None]

Goto(c, l) == pc' = [pc EXCEPT ![c] = l]
At(c, l)   == pc[c] = l

Live(p) == proc[p] \in {"wrapper", "command"}

\* A process is listed as long as it has a pid; a zombie is on some platforms.
Listed(p)   == proc[p] \in {"wrapper", "command", "other", "zombie"}
Unlisted(p) == proc[p] \in {"gone", "zombie"}

\* launch_command_line and command_equal: does the process have the line that
\* the effect is launched with, or the line of the command itself?
IsLaunch(c, p)  == proc[p] = IF nice[c] THEN "wrapper" ELSE "command"
IsCommand(p)    == proc[p] = "command"

Own(c) == IF kind[c] = "tokio" THEN {hpid[c]} ELSE {}

GiveDropsChild(c, k, p) ==
    /\ kind' = [kind EXCEPT ![c] = k]
    /\ hpid' = [hpid EXCEPT ![c] = p]
    /\ held' = held \ (Own(c) \cup {p})

\* The caller gets a handle on p; the one it had is dropped, with its Child.
Give(c, k, p) ==
    /\ kind' = [kind EXCEPT ![c] = k]
    /\ hpid' = [hpid EXCEPT ![c] = p]
    /\ held' = (held \ Own(c)) \cup (IF k = "tokio" THEN {p} ELSE {})

----------------------------------------------------------------------------
(* The operating system                                                    *)

Exec(p) ==
    /\ proc[p] = "wrapper"
    /\ proc' = [proc EXCEPT ![p] = "command"]
    /\ UNCHANGED <<confVars, cmdOf, killed, held, file, st, handleVars, pc, histVars>>

Exit(p) ==
    /\ Live(p)
    /\ proc' = [proc EXCEPT ![p] = "zombie"]
    /\ UNCHANGED <<confVars, cmdOf, killed, held, file, st, handleVars, pc, histVars>>

\* tokio's queue of orphans, or init.
Reap(p) ==
    /\ proc[p] = "zombie" /\ p \notin held
    /\ proc' = [proc EXCEPT ![p] = "gone"]
    /\ UNCHANGED <<confVars, cmdOf, killed, held, file, st, handleVars, pc, histVars>>

ReusePid(p) ==
    /\ proc[p] = "gone"
    /\ proc' = [proc EXCEPT ![p] = "other"]
    /\ UNCHANGED <<confVars, cmdOf, killed, held, file, st, handleVars, pc, histVars>>

----------------------------------------------------------------------------
(* fx_start                                                                *)

\* A call begins; it starts with the pid file if the effect has one.
Begin(c) == At(c, "idle") /\ ended' = [ended EXCEPT ![c] = FALSE]

StartReattach(c) ==
    /\ Begin(c) /\ dir[c] /\ file[c] \in Pids /\ IsLaunch(c, file[c])
    /\ st' = [st EXCEPT ![c] = file[c]]
    /\ Give(c, "pid", file[c])
    /\ UNCHANGED <<confVars, osVars, file, pc, driftVars>>

StartStaleUnchecked(c) ==
    /\ Begin(c) /\ dir[c] /\ file[c] \in Pids
    /\ Goto(c, "stale")
    /\ UNCHANGED <<confVars, osVars, held, file, st, handleVars, driftVars>>

StartStale(c) ==
    /\ Begin(c) /\ dir[c] /\ file[c] \in Pids /\ ~IsLaunch(c, file[c])
    /\ Goto(c, "stale")
    /\ UNCHANGED <<confVars, osVars, held, file, st, handleVars, driftVars>>

\* No pid file, or one that holds no pid.
StartUnfiled(c) ==
    /\ Begin(c) /\ (dir[c] => file[c] \notin Pids)
    /\ Goto(c, "choose")
    /\ UNCHANGED <<confVars, osVars, held, file, st, handleVars, driftVars>>

StaleRemove(c) ==
    /\ At(c, "stale")
    /\ file' = [file EXCEPT ![c] = None]
    /\ Goto(c, "choose")
    /\ UNCHANGED <<confVars, osVars, held, st, handleVars, histVars>>

RunningUnknown(c) == FALSE

\* With a pid directory only the pid of the own state is looked at.
Running(c) == st[c] # None /\ IsLaunch(c, st[c])

ChooseOwn(c) ==
    /\ At(c, "choose") /\ dir[c] /\ Running(c)
    /\ Goto(c, "rewrite")
    /\ UNCHANGED <<confVars, osVars, held, file, st, handleVars, histVars>>

\* current_system_state: the pid of the own state if there is one, else a scan.
Found(c, p) == IF st[c] # None THEN p = st[c] /\ IsCommand(p) ELSE IsCommand(p)

ChooseFound(c) ==
    /\ At(c, "choose") /\ ~dir[c]
    /\ \E p \in Pids :
        /\ Found(c, p)
        /\ st' = [st EXCEPT ![c] = p]
        /\ Give(c, "pid", p)
    /\ Goto(c, "idle")
    /\ UNCHANGED <<confVars, osVars, file, histVars>>

ChooseSpawn(c) ==
    /\ At(c, "choose")
    /\ IF dir[c] THEN ~Running(c) ELSE ~\E p \in Pids : Found(c, p)
    /\ Goto(c, "spawn")
    /\ UNCHANGED <<confVars, osVars, held, file, st, handleVars, histVars>>

Fresh(p) == proc[p] = "unused" /\ \A q \in 1 .. p - 1 : proc[q] # "unused"

\* The new process survives try_wait.
Spawn(c) ==
    /\ At(c, "spawn")
    /\ \E p \in Pids :
        /\ Fresh(p)
        /\ proc' = [proc EXCEPT ![p] = IF nice[c] THEN "wrapper" ELSE "command"]
        /\ cmdOf' = [cmdOf EXCEPT ![p] = c]
        /\ last' = [last EXCEPT ![c] = p]
        /\ st' = [st EXCEPT ![c] = p]
        /\ \/ /\ dir[c] /\ Goto(c, "record")
              /\ held' = held \cup {p} /\ UNCHANGED handleVars
           \/ ~dir[c] /\ Goto(c, "idle") /\ Give(c, "tokio", p)
    /\ UNCHANGED <<confVars, killed, file, ended, adrift>>

SpawnShortUnchecked(c) ==
    /\ At(c, "spawn")
    /\ \E p \in Pids :
        /\ Fresh(p)
        /\ proc' = [proc EXCEPT ![p] = "gone"]
        /\ cmdOf' = [cmdOf EXCEPT ![p] = c]
        /\ last' = [last EXCEPT ![c] = p]
    /\ st' = [st EXCEPT ![c] = None]
    /\ Give(c, "pid", None)
    /\ Goto(c, "idle")
    /\ UNCHANGED <<confVars, killed, file, ended, adrift>>

\* The new process has exited already: try_wait reaps it, and the start fails.
SpawnShort(c) ==
    /\ At(c, "spawn")
    /\ \E p \in Pids :
        /\ Fresh(p)
        /\ proc' = [proc EXCEPT ![p] = "gone"]
        /\ cmdOf' = [cmdOf EXCEPT ![p] = c]
        /\ last' = [last EXCEPT ![c] = p]
    /\ st' = [st EXCEPT ![c] = None]
    /\ Goto(c, "idle")
    /\ UNCHANGED <<confVars, killed, held, file, handleVars, ended, adrift>>

\* The files for stdout and stderr, or the spawn itself.
SpawnError(c) ==
    /\ At(c, "spawn") /\ (IoMayFail \/ ~\E p \in Pids : Fresh(p))
    /\ Goto(c, "idle")
    /\ UNCHANGED <<confVars, osVars, held, file, st, handleVars, histVars>>

\* write_pid_file: the file is there, and empty, before it holds the pid.
FileCreate(c) ==
    /\ \/ At(c, "record")  /\ Goto(c, "recording")
       \/ At(c, "rewrite") /\ Goto(c, "rewriting")
    /\ file' = [file EXCEPT ![c] = Torn]
    /\ UNCHANGED <<confVars, osVars, held, st, handleVars, histVars>>

FileWrite(c) ==
    /\ \/ At(c, "recording") /\ Give(c, "tokio", st[c])
       \/ At(c, "rewriting") /\ Give(c, "pid", st[c])
    /\ file' = [file EXCEPT ![c] = st[c]]
    /\ Goto(c, "idle")
    /\ UNCHANGED <<confVars, osVars, st, histVars>>

\* A file cannot be read, removed or written: the start fails.  A Child that
\* was spawned is dropped, its process runs on.
StartError(c) ==
    /\ IoMayFail
    /\ \/ At(c, "idle") /\ dir[c]
       \/ pc[c] \in {"stale", "record", "recording", "rewrite", "rewriting"}
    /\ held' = IF pc[c] \in {"record", "recording"} THEN held \ {st[c]} ELSE held
    /\ ended' = [ended EXCEPT ![c] = FALSE]
    /\ Goto(c, "idle")
    /\ UNCHANGED <<confVars, osVars, file, st, handleVars, driftVars>>

----------------------------------------------------------------------------
(* fx_status, fx_stop, fx_destroy                                          *)

\* try_wait reaps a child that has exited.  In all other cases fx_status
\* changes nothing, and so does fx_stop: it asks the process to exit, which it
\* may do anyhow, and does not wait.
StatusExited(c) ==
    /\ At(c, "idle") /\ kind[c] = "tokio" /\ proc[hpid[c]] = "zombie" /\ hpid[c] \in held
    /\ proc' = [proc EXCEPT ![hpid[c]] = "gone"]
    /\ held' = held \ {hpid[c]}
    /\ UNCHANGED <<confVars, cmdOf, killed, file, st, handleVars, pc, histVars>>

DestroyGroupTerm(c) ==
    /\ Begin(c) /\ kind[c] = "tokio" /\ Listed(hpid[c])
    /\ Goto(c, "wait")
    /\ UNCHANGED <<confVars, osVars, held, file, st, handleVars, driftVars>>

\* SIGKILL to the process group of an own child; the waiter then reaps it.
DestroyGroup(c) ==
    /\ Begin(c) /\ kind[c] = "tokio" /\ Listed(hpid[c])
    /\ killed' = IF Live(hpid[c]) THEN killed \cup {hpid[c]} ELSE killed
    /\ Goto(c, "wait")
    /\ UNCHANGED <<confVars, proc, cmdOf, held, file, st, handleVars, driftVars>>

DestroyWait(c) ==
    /\ At(c, "wait") /\ (hpid[c] \in held => proc[hpid[c]] = "zombie")
    /\ proc' = IF hpid[c] \in held THEN [proc EXCEPT ![hpid[c]] = "gone"] ELSE proc
    /\ held' = held \ {hpid[c]}
    /\ ended' = [ended EXCEPT ![c] = TRUE]
    /\ Goto(c, "idle")
    /\ UNCHANGED <<confVars, cmdOf, killed, file, st, handleVars, driftVars>>

\* A process that is only known by its pid is polled until it is not listed.
DestroyPid(c) ==
    /\ Begin(c) /\ kind[c] = "pid" /\ Listed(hpid[c])
    /\ killed' = IF Live(hpid[c]) THEN killed \cup {hpid[c]} ELSE killed
    /\ Goto(c, "poll")
    /\ UNCHANGED <<confVars, proc, cmdOf, held, file, st, handleVars, driftVars>>

PollGone(c) ==
    /\ At(c, "poll") /\ Unlisted(hpid[c])
    /\ ended' = [ended EXCEPT ![c] = TRUE]
    /\ Goto(c, "idle")
    /\ UNCHANGED <<confVars, osVars, held, file, st, handleVars, driftVars>>

PollTimeoutOk(c) ==
    /\ At(c, "poll") /\ Listed(hpid[c])
    /\ ended' = [ended EXCEPT ![c] = TRUE]
    /\ Goto(c, "idle")
    /\ UNCHANGED <<confVars, osVars, held, file, st, handleVars, driftVars>>

PollTimeout(c) ==
    /\ At(c, "poll") /\ Listed(hpid[c])
    /\ Goto(c, "idle")
    /\ UNCHANGED <<confVars, osVars, held, file, st, handleVars, histVars>>

\* Dropping a handle neither stops nor kills the process.
Drop(c) ==
    /\ At(c, "idle") /\ kind[c] # "none"
    /\ Give(c, "none", None)
    /\ ended' = [ended EXCEPT ![c] = FALSE]
    /\ UNCHANGED <<confVars, osVars, file, st, pc, driftVars>>

\* The process that holds the values is gone, and another one has new values.
Forget ==
    /\ st' = [c \in Cmds |-> None]
    /\ kind' = [c \in Cmds |-> "none"] /\ hpid' = [c \in Cmds |-> None]
    /\ held' = {}
    /\ pc' = [c \in Cmds |-> "idle"]
    /\ ended' = [c \in Cmds |-> FALSE]
    /\ adrift' = adrift \cup {p \in Pids : Live(p) /\ ~(dir[cmdOf[p]] /\ file[cmdOf[p]] = p)}
    /\ last' = [c \in Cmds |-> IF last[c] \in adrift' THEN None ELSE last[c]]
    /\ UNCHANGED <<confVars, osVars, file>>

Crash == CanCrash /\ Forget

----------------------------------------------------------------------------
Call(c) ==
    \/ StartReattach(c) \/ StartStale(c) \/ StartUnfiled(c)
    \/ StatusExited(c) \/ DestroyGroup(c) \/ DestroyPid(c) \/ Drop(c)
Step(c) ==
    \/ StaleRemove(c) \/ ChooseOwn(c) \/ ChooseFound(c) \/ ChooseSpawn(c)
    \/ Spawn(c) \/ SpawnShort(c) \/ SpawnError(c) \/ FileCreate(c) \/ FileWrite(c)
    \/ DestroyWait(c) \/ PollGone(c) \/ PollTimeout(c)
System(p) == Exec(p) \/ Exit(p) \/ Reap(p) \/ ReusePid(p)

Next ==
    \/ \E p \in Pids : System(p)
    \/ \E c \in Cmds : Call(c) \/ Step(c) \/ StartError(c)
    \/ Crash

Spec == Init /\ [][Next]_vars

----------------------------------------------------------------------------
(* Properties                                                              *)

\* The type of every variable.  A call that works on a pid has one.
TypeOK ==
    /\ dir \in [Cmds -> BOOLEAN] /\ nice \in [Cmds -> BOOLEAN]
    /\ proc \in [Pids -> {"unused", "wrapper", "command", "zombie", "gone", "other"}]
    /\ cmdOf \in [Pids -> Cmds \cup {None}]
    /\ held \subseteq Pids /\ killed \subseteq Pids /\ adrift \subseteq Pids
    /\ file \in [Cmds -> Pids \cup {None, Torn}]
    /\ st \in [Cmds -> Pids \cup {None}]
    /\ kind \in [Cmds -> {"none", "tokio", "pid"}]
    /\ hpid \in [Cmds -> Pids \cup {None}]
    /\ pc \in [Cmds -> {"idle", "stale", "choose", "spawn", "record", "recording",
                        "rewrite", "rewriting", "wait", "poll"}]
    /\ ended \in [Cmds -> BOOLEAN] /\ last \in [Cmds -> Pids \cup {None}]
    /\ \A c \in Cmds : /\ kind[c] # "none" <=> hpid[c] # None
                       /\ pc[c] \in {"record", "recording", "rewrite", "rewriting"}
                            => st[c] # None
                       /\ pc[c] \in {"wait", "poll"} => kind[c] # "none"

\* fx_start starts the command or attaches to the process that runs (656), in
\* whatever way starts fail: an effect has two processes only after a crash
\* before the pid file of one of them was written.  Commands launched by a
\* wrapper are exempt, see LaterStartsUsePidFile.
AtMostOneProcess ==
    \A p, q \in Pids \ adrift :
        /\ Live(p) /\ Live(q) /\ cmdOf[p] = cmdOf[q] /\ ~nice[cmdOf[p]]
        => p = q

\* The pid file names the process of the handle as long as it lives: this is
\* what a later start, of another process, goes by.
Recorded ==
    \A c \in Cmds :
        /\ dir[c] /\ ~nice[c] /\ kind[c] # "none" /\ Live(hpid[c])
        => file[c] = hpid[c]

\* Nobody else reaps an own child, so its pid cannot become another process's
\* under a stop or destroy, and only one that has exited is let go.
ChildIsHeld ==
    \A c \in Cmds : kind[c] = "tokio" =>
        IF hpid[c] \in held
          THEN proc[hpid[c]] \in {"wrapper", "command", "zombie"}
          ELSE ~Live(hpid[c])

\* When destroy has returned Ok the process does not run.
DestroyedIsGone == \A c \in Cmds : ended[c] => ~Live(hpid[c])

\* A destroy that waits for its own child, without a timeout, has killed it.
WaitsForKilled ==
    \A c \in Cmds : At(c, "wait") /\ Live(hpid[c]) => hpid[c] \in killed

\* The provider implements the life cycle of FxEffect for an effect that has a
\* pid directory and no wrapper: a start spawns only when no process of the
\* effect runs, whatever it saw some steps ago, a handle is always one on the
\* process that was spawned last, and destroy returns Ok when that has ended.
Effect(c) == INSTANCE FxEffect WITH
    Instances <- Pids, None <- 0, last <- last[c],
    up <- last[c] # None /\ Live(last[c]), handle <- hpid[c], destroyed <- ended[c]

LifeCycle ==
    /\ \A c \in Cmds : Effect(c)!Init
    /\ [][\A c \in Cmds : dir[c] /\ ~nice[c] => Effect(c)!Next \/ UNCHANGED Effect(c)!vars]_vars

\* "Later starts use those files" (153): an effect with a pid directory has one
\* process that runs its command, as long as nothing fails.
LaterStartsUsePidFile ==
    \A p, q \in Pids :
        /\ IsCommand(p) /\ IsCommand(q) /\ cmdOf[p] = cmdOf[q] /\ dir[cmdOf[p]]
        => p = q

=============================================================================
