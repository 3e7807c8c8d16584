---------------------------- MODULE BareEngine ----------------------------
(***************************************************************************)
(* The example engine: it starts a number of copies of one command, looks  *)
(* after them until all have exited, and leaves them running when it is    *)
(* shut down.  The next engine attaches to what it finds (AttachFxOnResume,*)
(* line 140).                                                              *)
(*                                                                         *)
(* The copies are the effects of FxSystemCommand, each with a pid file and *)
(* without a wrapper.  The engine calls one after the other, and the table *)
(* of tasks is the set of effects with a handle.  It starts a clone of an  *)
(* FxSystemCommand and keeps the clone only if that succeeds; nothing      *)
(* reads the state of a value after its start, so st needs no such care.   *)
(***************************************************************************)
EXTENDS FxSystemCommand

VARIABLES
    eng,     \* "down" | "start" | "loop" | "sweep" | "done", the main loop
    todo,    \* the effects still to be started or looked at
    failed   \* history: the effects this engine failed to start

engVars  == <<eng, todo, failed>>
bareVars == <<vars, engVars>>

BareInit ==
    /\ Init /\ dir = [c \in Cmds |-> TRUE] /\ nice = [c \in Cmds |-> FALSE]
    /\ eng = "down" /\ todo = {} /\ failed = {}

Tasks == {c \in Cmds : kind[c] # "none"}
Quiet == \A c \in Cmds : At(c, "idle")

Boot ==
    /\ eng \in {"down", "done"}
    /\ eng' = "start" /\ todo' = Cmds /\ failed' = {}
    /\ Forget

----------------------------------------------------------------------------
(* fx_start: the copies in the order of a hash map                         *)

Failing(c) == failed' = IF pc'[c] = "idle" /\ kind'[c] = "none"
                          THEN failed \cup {c} ELSE failed

BootStart(c) ==
    /\ eng = "start" /\ Quiet /\ c \in todo
    /\ StartReattach(c) \/ StartStale(c) \/ StartUnfiled(c) \/ StartError(c)
    /\ todo' = todo \ {c}
    /\ Failing(c)
    /\ UNCHANGED eng

BootStep(c) ==
    /\ ~At(c, "idle")
    /\ Step(c) \/ StartError(c)
    /\ Failing(c)
    /\ UNCHANGED <<eng, todo>>

Booted ==
    /\ eng = "start" /\ Quiet /\ todo = {}
    /\ eng' = "loop"
    /\ UNCHANGED <<vars, todo, failed>>

----------------------------------------------------------------------------
(* mainloop: Rescan looks at every task                                    *)

Rescan ==
    /\ eng = "loop"
    /\ eng' = "sweep" /\ todo' = Tasks
    /\ UNCHANGED <<vars, failed>>

StillRunsListed(c) == Listed(hpid[c]) /\ (kind[c] = "tokio" => proc[hpid[c]] # "zombie")
StillRunsOwned(c) == kind[c] = "tokio" /\ proc[hpid[c]] # "zombie"

\* What fx_status calls Running.
StillRuns(c) == IF kind[c] = "tokio" THEN proc[hpid[c]] # "zombie"
                                     ELSE IsCommand(hpid[c])

SweepKeep(c) ==
    /\ eng = "sweep" /\ c \in todo /\ StillRuns(c)
    /\ todo' = todo \ {c}
    /\ UNCHANGED <<vars, eng, failed>>

\* A task that has exited, an own child now reaped, or whose pid is no longer
\* the command's leaves the table.
SweepRemove(c) ==
    /\ eng = "sweep" /\ c \in todo /\ ~StillRuns(c)
    /\ proc' = IF kind[c] = "tokio" THEN [proc EXCEPT ![hpid[c]] = "gone"] ELSE proc
    /\ Give(c, "none", None)
    /\ todo' = todo \ {c}
    /\ UNCHANGED <<confVars, cmdOf, killed, file, st, pc, histVars, eng, failed>>

SweepEnd ==
    /\ eng = "sweep" /\ todo = {}
    /\ eng' = IF Tasks = {} THEN "done" ELSE "loop"
    /\ UNCHANGED <<vars, todo, failed>>

\* The engine leaves the commands to themselves.
Shutdown ==
    /\ eng = "loop"
    /\ eng' = "down" /\ todo' = {} /\ failed' = {}
    /\ Forget

EngineCrash ==
    /\ Crash
    /\ eng' = "down" /\ todo' = {} /\ failed' = {}

----------------------------------------------------------------------------
BareNext ==
    \/ Boot \/ Booted \/ Rescan \/ SweepEnd \/ Shutdown \/ EngineCrash
    \/ \E c \in Cmds : BootStart(c) \/ BootStep(c) \/ SweepKeep(c) \/ SweepRemove(c)
    \/ \E p \in Pids : (Exit(p) \/ Reap(p) \/ ReusePid(p)) /\ UNCHANGED engVars

BareSpec == BareInit /\ [][BareNext]_bareVars

\* The main loop runs, and the ticker sends Rescan again and again.
Fairness ==
    /\ WF_bareVars(Booted) /\ WF_bareVars(Rescan) /\ WF_bareVars(SweepEnd)
    /\ \A c \in Cmds : WF_bareVars(BootStart(c)) /\ WF_bareVars(BootStep(c))
    /\ \A c \in Cmds : WF_bareVars(SweepKeep(c) \/ SweepRemove(c))

FairBareSpec == BareSpec /\ Fairness

----------------------------------------------------------------------------
(* Properties                                                              *)

\* Between two rescans, and when it ends because all commands exited (221), the
\* engine has every process of its commands in its table, also those of earlier
\* engines, unless it logged that it could not start the command or a crash
\* came before the pid file.
NoneForgotten ==
    eng \in {"loop", "done"} =>
        \A p \in Pids \ adrift :
            Live(p) /\ cmdOf[p] \notin failed => hpid[cmdOf[p]] = p

\* An engine whose commands have all exited ends, in one life or the other.
EngineEnds ==
    eng \in {"loop", "sweep"} /\ (\A p \in Pids : ~Live(p)) ~> eng \in {"done", "down"}

=============================================================================
