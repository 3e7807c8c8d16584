-------------------------- MODULE BareEngineProofs --------------------------
(***************************************************************************)
(* The engine forgets no process of its commands, for every set of effects *)
(* and every number of processes, and the provider keeps its promises      *)
(* under the engine.                                                       *)
(*                                                                         *)
(* The steps of the engine are those of the provider, except that a sweep  *)
(* looks at the status and drops the handle at once; so the invariant of   *)
(* the provider, IInv of FxSystemCommandProofs, holds here too.  That the  *)
(* table is complete does not follow from it: an effect may have a process *)
(* and no handle.  TableOK adds what the engine does about it: it starts   *)
(* every effect after it forgot them all, and only drops a handle whose    *)
(* process has ended.                                                      *)
(***************************************************************************)
EXTENDS BareEngine, FxSystemCommandProofs

\* Every effect has a pid directory and no wrapper.
ConfOK == \A c \in Cmds : dir[c] /\ ~nice[c]

\* A call is underway only in a start.  It works on an effect without a handle;
\* an effect whose turn has not come yet has none either.
EngOK ==
    /\ eng \in {"down", "start", "loop", "sweep", "done"}
    /\ todo \subseteq Cmds /\ failed \subseteq Cmds
    /\ \A c \in Cmds :
        /\ ~ended[c] /\ pc[c] \in Starting \cup {"idle"}
        /\ pc[c] # "idle" => eng = "start" /\ c \notin todo /\ kind[c] = "none"
        /\ eng = "start" /\ c \in todo => kind[c] = "none"
        /\ eng = "sweep" /\ c \in todo => kind[c] # "none"

\* The start of c has come to an end in the life of this engine.
Settled(c) == eng # "down" /\ pc[c] = "idle" /\ ~(eng = "start" /\ c \in todo)

\* A process was spawned for an effect, and once this was started without an
\* error its handle is the one on its process, if it has one.
TableOK ==
    /\ \A p \in Pids : proc[p] # "unused" => cmdOf[p] \in Cmds
    /\ \A c \in Cmds, p \in Pids :
        Settled(c) /\ c \notin failed /\ Tracked(c, p) => hpid[c] = p

\* The inductive invariant.
BareInv == IInv /\ ConfOK /\ EngOK /\ TableOK /\ LastOK

----------------------------------------------------------------------------
USE CommandAssumption DEF Pids, None, Torn, Goto, At, Live, Listed, Unlisted, IsLaunch, IsCommand,
    Own, Give, Begin, Running, Found, Fresh, confVars, osVars, handleVars, driftVars, histVars,
    Starting, Recording, Writing, Tracked

LEMMA InitBare == BareInit => BareInv
<1> SUFFICES ASSUME BareInit  PROVE BareInv
  OBVIOUS
<1>1. Init
  BY DEF BareInit
<1>2. IInv
  BY <1>1, InitStep
<1>3. LastOK
  BY <1>1 DEF Init, LastOK
<1>4. ConfOK /\ EngOK /\ TableOK
  BY <1>1 DEF BareInit, Init, ConfOK, EngOK, TableOK, Settled
<1> QED  BY <1>2, <1>3, <1>4 DEF BareInv

\* A task that is removed had a process, which has ended.
LEMMA RemovedHasEnded ==
  ASSUME BareInv, NEW c \in Cmds, SweepRemove(c)
  PROVE  kind[c] # "none" /\ hpid[c] \in Pids /\ ~Live(hpid[c])
<1>1. kind[c] # "none" /\ hpid[c] \in Pids
  BY DEF SweepRemove, BareInv, EngOK, IInv, TypeOK
<1>2. cmdOf[hpid[c]] \in Cmds /\ ~nice[cmdOf[hpid[c]]]
  BY <1>1 DEF BareInv, ConfOK, TableOK, IInv, ProcOK
<1>3. proc[hpid[c]] # "wrapper"
  BY <1>1, <1>2 DEF BareInv, IInv, ProcOK
<1>4. kind[c] = "tokio" => proc[hpid[c]] = "zombie"
  BY DEF SweepRemove, StillRuns
<1>5. kind[c] # "tokio" => proc[hpid[c]] # "command"
  BY DEF SweepRemove, StillRuns
<1> QED  BY <1>1, <1>3, <1>4, <1>5

LEMMA RemoveIInv == ASSUME BareInv, NEW c \in Cmds, SweepRemove(c)  PROVE IInv'
<1>1. /\ kind[c] # "none" /\ hpid[c] \in Pids /\ ~Live(hpid[c])
      /\ \A d \in Cmds : pc[d] = "idle" /\ ~ended[d]
  BY RemovedHasEnded DEF SweepRemove, BareInv, EngOK
<1>2. /\ kind' = [kind EXCEPT ![c] = "none"] /\ hpid' = [hpid EXCEPT ![c] = None]
      /\ held' = held \ Own(c)
      /\ UNCHANGED <<dir, nice, cmdOf, killed, file, st, pc, ended, adrift, last>>
      /\ proc' = IF kind[c] = "tokio" THEN [proc EXCEPT ![hpid[c]] = "gone"] ELSE proc
  BY DEF SweepRemove
<1>3. /\ \A p \in Pids : Live(p)' <=> Live(p)
      /\ \A p \in Pids : (kind[c] = "tokio" /\ p = hpid[c]) \/ proc'[p] = proc[p]
      /\ \A p \in Pids : proc[p] # "unused" => proc'[p] # "unused"
  BY <1>1, <1>2 DEF BareInv, IInv, TypeOK, ProcOK
<1>4. TypeOK'
  BY <1>1, <1>2 DEF BareInv, IInv, TypeOK
<1>5. ProcOK'
  BY <1>1, <1>2, <1>3 DEF BareInv, IInv, TypeOK, ProcOK
<1>6. OwnOK' /\ DirOK'
  BY <1>1, <1>2, <1>3 DEF BareInv, IInv, TypeOK, OwnOK, DirOK
<1>7. ChildIsHeld'
  BY <1>1, <1>2, <1>3 DEF BareInv, IInv, TypeOK, OwnOK, ChildIsHeld
<1>8. (StartOK /\ KnownOK /\ AtMostOneProcess /\ Recorded)'
  BY <1>1, <1>2, <1>3 DEF BareInv, IInv, TypeOK, StartOK, KnownOK, AtMostOneProcess, Recorded
<1>9. (CallOK /\ DestroyedIsGone /\ WaitsForKilled)'
  BY <1>1, <1>2, <1>3 DEF BareInv, IInv, TypeOK, CallOK, DestroyedIsGone, WaitsForKilled
<1> QED  BY <1>4, <1>5, <1>6, <1>7, <1>8, <1>9 DEF IInv

\* Every other step is one of the provider's, or a new engine replaces the old.
LEMMA ProviderStep ==
  ASSUME [BareNext]_bareVars
  PROVE  [Next]_vars \/ Forget \/ \E c \in Cmds : SweepRemove(c)
<1>1. CASE Boot \/ Shutdown \/ EngineCrash
  BY <1>1 DEF Boot, Shutdown, EngineCrash, Crash
<1>2. CASE Booted \/ Rescan \/ SweepEnd \/ UNCHANGED bareVars
  BY <1>2 DEF Booted, Rescan, SweepEnd, bareVars
<1>3. ASSUME NEW c \in Cmds, BootStart(c) \/ BootStep(c) \/ SweepKeep(c)
      PROVE  [Next]_vars
  BY <1>3 DEF BootStart, BootStep, SweepKeep, Next, Call
<1>4. ASSUME NEW p \in Pids, Exit(p) \/ Reap(p) \/ ReusePid(p)
      PROVE  [Next]_vars
  BY <1>4 DEF Next, System
<1> QED  BY <1>1, <1>2, <1>3, <1>4 DEF BareNext

LEMMA BareIInv == ASSUME BareInv, [BareNext]_bareVars  PROVE IInv' /\ LastOK' /\ ConfOK'
<1>1. CASE [Next]_vars
  <2>1. IInv'  BY <1>1, NextStep DEF BareInv
  <2>2. LastOK'  BY <1>1, <2>1, LastStep DEF BareInv
  <2>3. UNCHANGED confVars
    BY <1>1 DEF Next, vars, System, Exec, Exit, Reap, ReusePid, Call, Step, StartReattach, StartStale,
       StartUnfiled, StatusExited, DestroyGroup, DestroyPid, Drop, StaleRemove, ChooseOwn, ChooseFound,
       ChooseSpawn, Spawn, SpawnShort, SpawnError, FileCreate, FileWrite, DestroyWait, PollGone,
       PollTimeout, StartError, Crash, Forget
  <2> QED  BY <2>1, <2>2, <2>3 DEF BareInv, ConfOK
<1>2. CASE Forget
  <2>1. IInv'  BY <1>2, ForgetStep DEF BareInv
  <2>2. LastOK'  BY <1>2, <2>1, LastForget DEF BareInv
  <2>3. ConfOK'  BY <1>2 DEF Forget, BareInv, ConfOK
  <2> QED  BY <2>1, <2>2, <2>3
<1>3. ASSUME NEW c \in Cmds, SweepRemove(c)  PROVE IInv' /\ LastOK' /\ ConfOK'
  <2>1. IInv'  BY <1>3, RemoveIInv
  <2>2. /\ UNCHANGED <<nice, dir, cmdOf, adrift, last, st, pc>>
        /\ \A p \in Pids : Live(p)' => Live(p)
        /\ \A p \in Pids : proc[p] # "unused" => proc'[p] # "unused"
    BY <1>3 DEF SweepRemove, BareInv, IInv, TypeOK
  <2>3. LastOK'  BY <2>1, <2>2, LastCalm DEF BareInv
  <2> QED  BY <2>1, <2>2, <2>3 DEF BareInv, ConfOK
<1> QED  BY <1>1, <1>2, <1>3, ProviderStep

----------------------------------------------------------------------------
(* The table                                                               *)

\* A start that ends without a look at the process table, because it found the
\* process of the pid file: this is the only one the effect has.
LEMMA ReattachStep ==
  ASSUME BareInv, NEW c \in Cmds, BootStart(c), StartReattach(c)
  PROVE  EngOK' /\ TableOK'
<1>1. /\ eng = "start" /\ eng' = eng /\ todo' = todo \ {c} /\ pc[c] = "idle" /\ pc' = pc
      /\ hpid' = [hpid EXCEPT ![c] = file[c]] /\ kind' = [kind EXCEPT ![c] = "pid"]
      /\ ended' = [ended EXCEPT ![c] = FALSE]
      /\ file[c] \in Pids /\ Live(file[c])
      /\ UNCHANGED <<proc, cmdOf, adrift>>
  BY DEF BootStart, StartReattach, BareInv, ConfOK
<1>2. failed' = failed
  BY <1>1 DEF BootStart, Failing, BareInv, IInv, TypeOK
<1>3. \A p \in Pids : Tracked(c, p) => p = file[c]
  BY <1>1 DEF BareInv, ConfOK, IInv, DirOK, AtMostOneProcess
<1>4. EngOK'
  BY <1>1, <1>2 DEF BareInv, EngOK, IInv, TypeOK
<1>5. TableOK'
  BY <1>1, <1>2, <1>3 DEF BareInv, EngOK, TableOK, Settled, IInv, TypeOK
<1> QED  BY <1>4, <1>5

\* A start begins and goes on to the steps of BootStep, or fails.
LEMMA StartingStep ==
  ASSUME BareInv, NEW c \in Cmds, BootStart(c), StartStale(c) \/ StartUnfiled(c) \/ StartError(c)
  PROVE  EngOK' /\ TableOK'
<1>1. /\ eng = "start" /\ eng' = eng /\ c \in todo /\ todo' = todo \ {c} /\ pc[c] = "idle"
      /\ \E l \in {"stale", "choose", "idle"} : pc' = [pc EXCEPT ![c] = l]
      /\ failed' = IF pc'[c] = "idle" /\ kind'[c] = "none" THEN failed \cup {c} ELSE failed
      /\ UNCHANGED <<proc, cmdOf, adrift, kind, hpid>>
      /\ ended' = [ended EXCEPT ![c] = FALSE]
  BY DEF BootStart, Failing, StartStale, StartUnfiled, StartError, Quiet
<1>2. EngOK'
  BY <1>1 DEF BareInv, EngOK, IInv, TypeOK
<1>3. TableOK'
  BY <1>1 DEF BareInv, EngOK, TableOK, Settled, IInv, TypeOK
<1> QED  BY <1>2, <1>3

\* The steps of a start that give no handle: the call goes on, or fails.
LEMMA WorkingStep ==
  ASSUME BareInv, NEW c \in Cmds, BootStep(c), ~FileWrite(c)
  PROVE  EngOK' /\ TableOK'
<1>1. /\ pc[c] \in Starting /\ eng = "start" /\ c \notin todo /\ kind[c] = "none" /\ dir[c]
      /\ UNCHANGED <<eng, todo>>
      /\ failed' = IF pc'[c] = "idle" /\ kind'[c] = "none" THEN failed \cup {c} ELSE failed
      /\ \A d \in Cmds : ~ended[d]
  BY DEF BootStep, Failing, BareInv, EngOK, ConfOK
<1>2. ASSUME UNCHANGED <<proc, cmdOf, adrift>>, UNCHANGED <<kind, hpid>>,
             ended' = ended \/ ended' = [ended EXCEPT ![c] = FALSE],
             NEW l \in Starting \cup {"idle"}, pc' = [pc EXCEPT ![c] = l]
      PROVE  EngOK' /\ TableOK'
  <2>1. EngOK'
    BY <1>1, <1>2 DEF BareInv, EngOK, IInv, TypeOK
  <2>2. TableOK'
    BY <1>1, <1>2 DEF BareInv, EngOK, TableOK, Settled, IInv, TypeOK
  <2> QED  BY <2>1, <2>2
<1>3. ASSUME NEW p \in Pids, Fresh(p), NEW s \in {"command", "gone"},
             proc' = [proc EXCEPT ![p] = s], cmdOf' = [cmdOf EXCEPT ![p] = c],
             UNCHANGED <<adrift, kind, hpid, ended>>,
             NEW l \in {"record", "idle"}, pc' = [pc EXCEPT ![c] = l]
      PROVE  EngOK' /\ TableOK'
  <2>1. EngOK'
    BY <1>1, <1>3 DEF BareInv, EngOK, IInv, TypeOK
  <2>2. /\ cmdOf'[p] = c /\ \A q \in Pids \ {p} : cmdOf'[q] = cmdOf[q] /\ proc'[q] = proc[q]
        /\ \A d \in Cmds \ {c} : pc'[d] = pc[d]
    BY <1>3 DEF BareInv, IInv, TypeOK
  <2>3. ~Settled(c)' \/ c \in failed'
    BY <1>1, <1>3 DEF Settled, BareInv, IInv, TypeOK
  <2>4. TableOK'
    BY <1>1, <1>3, <2>2, <2>3 DEF BareInv, EngOK, TableOK, Settled
  <2> QED  BY <2>1, <2>4
<1>4. CASE StaleRemove(c) \/ ChooseOwn(c) \/ ChooseSpawn(c) \/ SpawnError(c) \/ FileCreate(c) \/ StartError(c)
  <2>1. UNCHANGED <<proc, cmdOf, adrift>> /\ UNCHANGED <<kind, hpid>>
    BY <1>4 DEF StaleRemove, ChooseOwn, ChooseSpawn, SpawnError, FileCreate, StartError
  <2>2. ended' = ended \/ ended' = [ended EXCEPT ![c] = FALSE]
    BY <1>4 DEF StaleRemove, ChooseOwn, ChooseSpawn, SpawnError, FileCreate, StartError
  <2>3. \E l \in Starting \cup {"idle"} : pc' = [pc EXCEPT ![c] = l]
    BY <1>4 DEF StaleRemove, ChooseOwn, ChooseSpawn, SpawnError, FileCreate, StartError
  <2> QED  BY <1>2, <2>1, <2>2, <2>3
<1>5. CASE Spawn(c)
  <2>1. \E p \in Pids : /\ Fresh(p) /\ proc' = [proc EXCEPT ![p] = "command"]
                        /\ cmdOf' = [cmdOf EXCEPT ![p] = c]
    BY <1>5 DEF Spawn, BareInv, ConfOK
  <2>2. pc' = [pc EXCEPT ![c] = "record"] /\ UNCHANGED <<adrift, kind, hpid, ended>>
    BY <1>1, <1>5 DEF Spawn
  <2> QED  BY <1>3, <2>1, <2>2
<1>6. CASE SpawnShort(c)
  <2>1. \E p \in Pids : /\ Fresh(p) /\ proc' = [proc EXCEPT ![p] = "gone"]
                        /\ cmdOf' = [cmdOf EXCEPT ![p] = c]
    BY <1>6 DEF SpawnShort
  <2>2. pc' = [pc EXCEPT ![c] = "idle"] /\ UNCHANGED <<adrift, kind, hpid, ended>>
    BY <1>6 DEF SpawnShort
  <2> QED  BY <1>3, <2>1, <2>2
<1>7. ~(ChooseFound(c) \/ DestroyWait(c) \/ PollGone(c) \/ PollTimeout(c))
  BY <1>1 DEF ChooseFound, DestroyWait, PollGone, PollTimeout
<1> QED  BY <1>4, <1>5, <1>6, <1>7 DEF BootStep, Step

\* The pid file is written and the caller gets the handle on that process, the
\* only one of the effect.
LEMMA HandleStep ==
  ASSUME BareInv, NEW c \in Cmds, BootStep(c), FileWrite(c)
  PROVE  EngOK' /\ TableOK'
<1>1. /\ pc[c] \in Writing /\ eng = "start" /\ c \notin todo /\ st[c] \in Pids
      /\ UNCHANGED <<eng, todo, proc, cmdOf, adrift, ended>>
      /\ pc' = [pc EXCEPT ![c] = "idle"] /\ hpid' = [hpid EXCEPT ![c] = st[c]]
      /\ \E k \in {"tokio", "pid"} : kind' = [kind EXCEPT ![c] = k]
  BY DEF BootStep, FileWrite, BareInv, EngOK, IInv, TypeOK
<1>2. failed' = failed
  BY <1>1 DEF BootStep, Failing, BareInv, IInv, TypeOK
<1>3. \A p \in Pids : Tracked(c, p) => p = st[c]
  BY <1>1 DEF BareInv, ConfOK, IInv, StartOK
<1>4. EngOK'
  BY <1>1, <1>2 DEF BareInv, EngOK, IInv, TypeOK
<1>5. TableOK'
  BY <1>1, <1>2, <1>3 DEF BareInv, EngOK, TableOK, Settled, IInv, TypeOK
<1> QED  BY <1>4, <1>5

\* The main loop.
LEMMA SweepStep ==
  ASSUME BareInv, NEW c \in Cmds, SweepKeep(c) \/ SweepRemove(c)
  PROVE  EngOK' /\ TableOK'
<1>1. CASE SweepKeep(c)
  BY <1>1 DEF SweepKeep, vars, BareInv, EngOK, TableOK, Settled
<1>2. CASE SweepRemove(c)
  <2>1. /\ eng = "sweep" /\ c \in todo /\ todo' = todo \ {c} /\ hpid[c] \in Pids /\ ~Live(hpid[c])
        /\ kind' = [kind EXCEPT ![c] = "none"] /\ hpid' = [hpid EXCEPT ![c] = None]
        /\ UNCHANGED <<eng, failed, pc, cmdOf, adrift, ended>>
    BY <1>2, RemovedHasEnded DEF SweepRemove
  <2>2. /\ \A p \in Pids : Live(p)' => Live(p)
        /\ \A p \in Pids : proc'[p] # "unused" => proc[p] # "unused"
    BY <1>2, <2>1 DEF SweepRemove, BareInv, IInv, TypeOK, ProcOK, EngOK
  <2>3. EngOK'
    BY <2>1 DEF BareInv, EngOK, IInv, TypeOK
  <2>4. TableOK'
    BY <2>1, <2>2 DEF BareInv, TableOK, Settled, IInv, TypeOK
  <2> QED  BY <2>3, <2>4
<1> QED  BY <1>1, <1>2

LEMMA LoopStep ==
  ASSUME BareInv, Booted \/ Rescan \/ SweepEnd \/ UNCHANGED bareVars
  PROVE  EngOK' /\ TableOK'
<1>1. CASE Booted
  BY <1>1 DEF Booted, Quiet, vars, BareInv, EngOK, TableOK, Settled
<1>2. CASE Rescan
  BY <1>2 DEF Rescan, Tasks, vars, BareInv, EngOK, TableOK, Settled
<1>3. CASE SweepEnd
  BY <1>3 DEF SweepEnd, vars, BareInv, EngOK, TableOK, Settled
<1>4. CASE UNCHANGED bareVars
  BY <1>4 DEF bareVars, engVars, vars, BareInv, EngOK, TableOK, Settled
<1> QED  BY <1>1, <1>2, <1>3, <1>4

\* An engine ends, or a new one is to start every effect.
LEMMA LifeStep ==
  ASSUME BareInv, Boot \/ Shutdown \/ EngineCrash
  PROVE  EngOK' /\ TableOK'
<1>1. /\ Forget /\ eng' \in {"start", "down"} /\ (eng' = "start" => todo' = Cmds)
      /\ todo' \subseteq Cmds /\ failed' = {}
  BY DEF Boot, Shutdown, EngineCrash, Crash
<1>2. \A c \in Cmds : ~Settled(c)'
  BY <1>1 DEF Settled
<1>3. EngOK'
  BY <1>1 DEF Forget, EngOK
<1>4. TableOK'
  BY <1>1, <1>2 DEF Forget, BareInv, TableOK
<1> QED  BY <1>3, <1>4

LEMMA OsStep ==
  ASSUME BareInv, NEW p \in Pids, Exit(p) \/ Reap(p) \/ ReusePid(p), UNCHANGED engVars
  PROVE  EngOK' /\ TableOK'
<1>1. /\ \A q \in Pids : Live(q)' => Live(q)
      /\ \A q \in Pids : proc'[q] # "unused" => proc[q] # "unused"
      /\ UNCHANGED <<cmdOf, kind, hpid, pc, ended, adrift>>
  BY DEF Exit, Reap, ReusePid, BareInv, IInv, TypeOK
<1>2. UNCHANGED <<eng, todo, failed>>
  BY DEF engVars
<1> QED  BY <1>1, <1>2 DEF BareInv, EngOK, TableOK, Settled

LEMMA BareInductive == BareSpec => []BareInv
<1>1. ASSUME BareInv, [BareNext]_bareVars  PROVE EngOK' /\ TableOK'
  <2>1. ASSUME NEW c \in Cmds, BootStart(c)  PROVE EngOK' /\ TableOK'
    <3>1. StartReattach(c) \/ StartStale(c) \/ StartUnfiled(c) \/ StartError(c)
      BY <2>1 DEF BootStart
    <3> QED  BY <1>1, <2>1, <3>1, ReattachStep, StartingStep
  <2>2. ASSUME NEW c \in Cmds, BootStep(c)  PROVE EngOK' /\ TableOK'
    BY <1>1, <2>2, WorkingStep, HandleStep
  <2> QED  BY <1>1, <2>1, <2>2, SweepStep, LoopStep, LifeStep, OsStep DEF BareNext
<1>2. BareInv /\ [BareNext]_bareVars => BareInv'
  BY <1>1, BareIInv DEF BareInv
<1> QED  BY InitBare, <1>2, PTL DEF BareSpec

----------------------------------------------------------------------------
\* Between two rescans, and when it ends, the engine has every process of its
\* commands in its table, those of earlier engines included (AttachFxOnResume,
\* 140), unless it logged that the start failed or a crash came before the pid
\* file.
THEOREM NoneForgottenHolds == BareSpec => []NoneForgotten
<1>1. BareInv => NoneForgotten
  <2> SUFFICES ASSUME BareInv, eng \in {"loop", "done"}, NEW p \in Pids \ adrift, Live(p),
                      cmdOf[p] \notin failed
               PROVE  hpid[cmdOf[p]] = p
    BY DEF NoneForgotten
  <2>1. cmdOf[p] \in Cmds /\ Tracked(cmdOf[p], p)
    BY DEF BareInv, TableOK
  <2>2. Settled(cmdOf[p])
    BY <2>1 DEF BareInv, EngOK, Settled
  <2> QED  BY <2>1, <2>2 DEF BareInv, TableOK
<1> QED  BY <1>1, BareInductive, PTL

\* Whatever the engine does, and however often it is started again, a command
\* has one process but for those a crash left without a pid file, and the pid
\* file names the process of every task.
THEOREM EngineKeepsProvider == BareSpec => [](TypeOK /\ AtMostOneProcess /\ Recorded /\ ChildIsHeld)
<1>1. BareInv => TypeOK /\ AtMostOneProcess /\ Recorded /\ ChildIsHeld
  BY DEF BareInv, IInv
<1> QED  BY <1>1, BareInductive, PTL

\* Each task of the engine has the life cycle of FxEffect: the engine, which
\* drops handles in the middle of a status and starts anew after it forgot all,
\* never makes an effect do what a provider promises it does not.
THEOREM EngineLifeCycle == BareSpec => LifeCycle
<1>1. BareInit => \A c \in Cmds : Effect(c)!Init
  BY EffectInit DEF BareInit
<1>2. ASSUME BareInv, BareInv', [BareNext]_bareVars
      PROVE  [\A c \in Cmds : dir[c] /\ ~nice[c] => Effect(c)!Next \/ UNCHANGED Effect(c)!vars]_vars
  <2> SUFFICES ASSUME NEW d \in Cmds, dir[d], ~nice[d], vars' # vars
               PROVE  Effect(d)!Next \/ UNCHANGED Effect(d)!vars
    OBVIOUS
  <2>1. CASE Next  BY <1>2, <2>1, EffectStep DEF BareInv
  <2>2. CASE Forget  BY <1>2, <2>2, EffectForget DEF BareInv
  <2>3. ASSUME NEW c \in Cmds, SweepRemove(c)
        PROVE  Effect(d)!Next \/ UNCHANGED Effect(d)!vars
    <3>1. /\ hpid'[d] \in {hpid[d], None} /\ last'[d] = last[d] /\ ended'[d] = ended[d] /\ ~ended[d]
          /\ \A p \in Pids : Live(p)' <=> Live(p)
      BY <1>2, <2>3 DEF SweepRemove, StillRuns, BareInv, IInv, TypeOK, EngOK
    <3>2. (last[d] # None /\ Live(last[d]))' <=> (last[d] # None /\ Live(last[d]))
      BY <1>2, <3>1 DEF BareInv, IInv, TypeOK
    <3> QED  BY <3>1, <3>2 DEF Effect!Next, Effect!Call
  <2> QED  BY <1>2, <2>1, <2>2, <2>3, ProviderStep
<1> QED  BY <1>1, <1>2, BareInductive, PTL DEF BareSpec, LifeCycle

----------------------------------------------------------------------------
(* Engines that are shut down, and files that can be written               *)

\* Every process has its pid file, but for the one that is being started, and
\* an effect whose start failed has no process.
CleanOK ==
    /\ adrift = {}
    /\ \A c \in Cmds, p \in Pids : pc[c] = "idle" /\ Tracked(c, p) => file[c] = p
    /\ \A c \in failed : /\ pc[c] = "idle" /\ ~(eng = "start" /\ c \in todo)
                         /\ \A p \in Pids : ~Tracked(c, p)

\* Nothing starts, and no file changes.
LEMMA CleanCalm ==
  ASSUME BareInv, CleanOK, UNCHANGED <<adrift, cmdOf, file, pc, failed>>,
         \A p \in Pids : Live(p)' => Live(p),
         \A c \in Cmds : eng' = "start" /\ c \in todo' => eng = "start" /\ c \in todo
  PROVE  CleanOK'
BY DEF CleanOK, BareInv, EngOK

\* A start begins.
LEMMA CleanBegin == ASSUME ~IoMayFail, BareInv, CleanOK, NEW c \in Cmds, BootStart(c)  PROVE CleanOK'
<1>1. /\ eng = "start" /\ eng' = eng /\ c \in todo /\ todo' = todo \ {c}
      /\ failed' = IF pc'[c] = "idle" /\ kind'[c] = "none" THEN failed \cup {c} ELSE failed
  BY DEF BootStart, Failing
<1>2. CASE StartReattach(c)
  <2>1. /\ pc' = pc /\ UNCHANGED <<proc, cmdOf, adrift, file>> /\ file[c] \in Pids
        /\ kind' = [kind EXCEPT ![c] = "pid"]
    BY <1>2 DEF StartReattach
  <2>2. failed' = failed
    BY <1>1, <2>1 DEF BareInv, IInv, TypeOK
  <2> QED  BY <1>1, <2>1, <2>2, CleanCalm
<1>3. CASE StartStale(c) \/ StartUnfiled(c)
  <2>1. /\ pc[c] = "idle" /\ \E l \in {"stale", "choose"} : pc' = [pc EXCEPT ![c] = l]
        /\ UNCHANGED <<proc, cmdOf, adrift, file>>
    BY <1>3 DEF StartStale, StartUnfiled
  <2>2. failed' = failed /\ pc'[c] # "idle" /\ \A d \in Cmds \ {c} : pc'[d] = pc[d]
    BY <1>1, <2>1 DEF BareInv, IInv, TypeOK
  <2>3. failed \subseteq Cmds /\ c \notin failed
    BY <1>1 DEF CleanOK, BareInv, EngOK
  <2> QED  BY <1>1, <2>1, <2>2, <2>3 DEF CleanOK
<1> QED  BY <1>2, <1>3 DEF BootStart, StartError

\* A start goes on: it writes the pid file of the only process there is, or it
\* fails when there is none.
LEMMA CleanGoOn == ASSUME ~IoMayFail, BareInv, CleanOK, NEW c \in Cmds, BootStep(c)  PROVE CleanOK'
<1>1. /\ pc[c] \in Starting /\ eng = "start" /\ c \notin todo /\ kind[c] = "none" /\ dir[c]
      /\ UNCHANGED <<eng, todo>> /\ c \notin failed /\ failed \subseteq Cmds /\ ~nice[c]
      /\ failed' = IF pc'[c] = "idle" /\ kind'[c] = "none" THEN failed \cup {c} ELSE failed
  BY DEF BootStep, Failing, BareInv, EngOK, ConfOK, CleanOK
<1>2. CASE StaleRemove(c) \/ ChooseOwn(c) \/ ChooseSpawn(c) \/ FileCreate(c)
  <2>1. /\ UNCHANGED <<proc, cmdOf, adrift>> /\ \A d \in Cmds \ {c} : file'[d] = file[d]
        /\ \E l \in Starting : pc' = [pc EXCEPT ![c] = l]
    BY <1>2 DEF StaleRemove, ChooseOwn, ChooseSpawn, FileCreate, BareInv, IInv, TypeOK
  <2>2. failed' = failed /\ pc'[c] # "idle" /\ \A d \in Cmds \ {c} : pc'[d] = pc[d]
    BY <1>1, <2>1 DEF BareInv, IInv, TypeOK
  <2> QED  BY <1>1, <2>1, <2>2 DEF CleanOK
<1>3. CASE Spawn(c)
  <2>1. /\ pc' = [pc EXCEPT ![c] = "record"] /\ UNCHANGED <<adrift, file>>
        /\ \E p \in Pids : /\ \A q \in Pids \ {p} : proc'[q] = proc[q] /\ cmdOf'[q] = cmdOf[q]
                           /\ cmdOf'[p] = c
    BY <1>1, <1>3 DEF Spawn, BareInv, IInv, TypeOK
  <2>2. failed' = failed /\ pc'[c] # "idle" /\ \A d \in Cmds \ {c} : pc'[d] = pc[d]
    BY <1>1, <2>1 DEF BareInv, IInv, TypeOK
  <2> QED  BY <1>1, <2>1, <2>2 DEF CleanOK
<1>4. CASE SpawnShort(c) \/ SpawnError(c)
  <2>1. /\ pc[c] = "spawn" /\ pc' = [pc EXCEPT ![c] = "idle"] /\ UNCHANGED <<adrift, file, kind>>
        /\ \A q \in Pids : (proc'[q] = proc[q] /\ cmdOf'[q] = cmdOf[q]) \/ ~Live(q)'
    BY <1>4 DEF SpawnShort, SpawnError, BareInv, IInv, TypeOK
  <2>2. failed' = failed \cup {c} /\ pc'[c] = "idle" /\ \A d \in Cmds \ {c} : pc'[d] = pc[d]
    BY <1>1, <2>1 DEF BareInv, IInv, TypeOK
  <2>3. \A p \in Pids : ~Tracked(c, p)
    BY <1>1, <2>1 DEF BareInv, IInv, StartOK
  <2> QED  BY <1>1, <2>1, <2>2, <2>3 DEF CleanOK
<1>5. CASE FileWrite(c)
  <2>1. /\ pc[c] \in Writing /\ pc' = [pc EXCEPT ![c] = "idle"] /\ file' = [file EXCEPT ![c] = st[c]]
        /\ \E k \in {"tokio", "pid"} : kind' = [kind EXCEPT ![c] = k]
        /\ UNCHANGED <<adrift, proc, cmdOf>>
    BY <1>5 DEF FileWrite
  <2>2. /\ failed' = failed /\ file'[c] = st[c]
        /\ \A d \in Cmds \ {c} : pc'[d] = pc[d] /\ file'[d] = file[d]
    BY <1>1, <2>1 DEF BareInv, IInv, TypeOK
  <2>3. \A p \in Pids : Tracked(c, p) => p = st[c]
    BY <1>1, <2>1 DEF BareInv, IInv, StartOK
  <2> QED  BY <1>1, <2>1, <2>2, <2>3 DEF CleanOK
<1>6. ~(ChooseFound(c) \/ DestroyWait(c) \/ PollGone(c) \/ PollTimeout(c) \/ StartError(c))
  BY <1>1 DEF ChooseFound, DestroyWait, PollGone, PollTimeout, StartError
<1> QED  BY <1>2, <1>3, <1>4, <1>5, <1>6 DEF BootStep, Step

\* No start is underway when an engine ends or begins, so that all it forgets is
\* in a pid file.
LEMMA CleanForget == ASSUME BareInv, CleanOK, Boot \/ Shutdown  PROVE CleanOK'
<1>1. Forget /\ failed' = {} /\ eng # "start"
  BY DEF Boot, Shutdown
<1>2. \A p \in Pids : Live(p) => cmdOf[p] \in Cmds /\ dir[cmdOf[p]] /\ file[cmdOf[p]] = p
  BY <1>1 DEF BareInv, EngOK, TableOK, ConfOK, CleanOK
<1> QED  BY <1>1, <1>2 DEF Forget, CleanOK

LEMMA CleanStep ==
  ASSUME ~IoMayFail, ~CanCrash, BareInv, CleanOK, [BareNext]_bareVars
  PROVE  CleanOK'
<1>1. CASE Booted \/ Rescan \/ SweepEnd \/ UNCHANGED bareVars
  <2>1. /\ UNCHANGED <<adrift, cmdOf, file, pc, failed, proc>>
        /\ \A c \in Cmds : eng' = "start" /\ c \in todo' => eng = "start" /\ c \in todo
    BY <1>1 DEF Booted, Rescan, SweepEnd, bareVars, engVars, vars
  <2> QED  BY <2>1, CleanCalm
<1>2. ASSUME NEW c \in Cmds, SweepKeep(c) \/ SweepRemove(c)  PROVE CleanOK'
  <2>1. /\ UNCHANGED <<adrift, cmdOf, file, pc, failed>> /\ eng' = eng /\ eng # "start"
        /\ \A p \in Pids : Live(p)' => Live(p)
    BY <1>2 DEF SweepKeep, SweepRemove, vars, BareInv, IInv, TypeOK
  <2> QED  BY <2>1, CleanCalm
<1>3. ASSUME NEW p \in Pids, Exit(p) \/ Reap(p) \/ ReusePid(p), UNCHANGED engVars  PROVE CleanOK'
  <2>1. /\ UNCHANGED <<adrift, cmdOf, file, pc, eng, todo, failed>>
        /\ \A q \in Pids : Live(q)' => Live(q)
    BY <1>3 DEF Exit, Reap, ReusePid, engVars, BareInv, IInv, TypeOK
  <2> QED  BY <2>1, CleanCalm
<1>4. ~EngineCrash
  BY DEF EngineCrash, Crash
<1> QED  BY <1>1, <1>2, <1>3, <1>4, CleanBegin, CleanGoOn, CleanForget DEF BareNext

\* The table is complete, and no command runs twice.
NothingLost ==
    /\ eng \in {"loop", "done"} => \A p \in Pids : Live(p) => hpid[cmdOf[p]] = p
    /\ \A p, q \in Pids : Live(p) /\ Live(q) /\ cmdOf[p] = cmdOf[q] => p = q

\* Shutting the engine down and starting another one, any number of times, loses
\* no process and starts no command twice, as long as files can be written: a
\* start then only fails when no process runs.  So only a crash, or a file that
\* fails, can leave a process that the next engine does not find.
THEOREM ShutdownLosesNothing ==
  ASSUME ~IoMayFail, ~CanCrash
  PROVE  BareSpec => []NothingLost
<1>1. BareInit => CleanOK
  BY DEF BareInit, Init, CleanOK
<1>2. BareInv /\ CleanOK /\ [BareNext]_bareVars => CleanOK'
  BY CleanStep
<1>3. BareInv /\ CleanOK => NothingLost
  <2> SUFFICES ASSUME BareInv, CleanOK  PROVE NothingLost
    OBVIOUS
  <2>1. \A p \in Pids : Live(p) => cmdOf[p] \in Cmds /\ Tracked(cmdOf[p], p)
    BY DEF BareInv, TableOK, CleanOK
  <2>2. ASSUME eng \in {"loop", "done"}, NEW p \in Pids, Live(p)  PROVE hpid[cmdOf[p]] = p
    <3>1. Settled(cmdOf[p]) /\ cmdOf[p] \notin failed
      BY <2>1, <2>2 DEF BareInv, EngOK, Settled, CleanOK
    <3> QED  BY <2>1, <2>2, <3>1 DEF BareInv, TableOK
  <2>3. \A p, q \in Pids : Live(p) /\ Live(q) /\ cmdOf[p] = cmdOf[q] => p = q
    BY <2>1 DEF BareInv, ConfOK, CleanOK, IInv, AtMostOneProcess
  <2> QED  BY <2>2, <2>3 DEF NothingLost
<1> QED  BY <1>1, <1>2, <1>3, BareInductive, PTL DEF BareSpec

=============================================================================
