----------------------- MODULE FxSystemCommandProofs -----------------------
(***************************************************************************)
(* The safety properties of FxSystemCommand hold for every set of effects  *)
(* and every number of processes, with failing files and with crashes.     *)
(*                                                                         *)
(* AtMostOneProcess is not inductive: a start spawns a process after it    *)
(* looked at the pid file and at the state of the value, some steps        *)
(* earlier, and has to conclude from them that no process is left.  KnownOK*)
(* says what makes that right: every process is named by the state or by   *)
(* the pid file.  StartOK is what the start has found out so far, and keeps*)
(* on knowing while other calls, and the operating system, go on.          *)
(***************************************************************************)
EXTENDS FxSystemCommand, TLAPS

Starting  == {"stale", "choose", "spawn", "record", "recording", "rewrite", "rewriting"}
Recording == {"record", "recording"}
Writing   == {"record", "recording", "rewrite", "rewriting"}

\* The processes of c but for those that a crash left without a pid file.
Tracked(c, p) == p \notin adrift /\ Live(p) /\ cmdOf[p] = c

\* Who is held has not been reaped, only wrapped commands have wrappers, and
\* every pid that is remembered anywhere was spawned.
ProcOK ==
    /\ \A p \in held : proc[p] \in {"wrapper", "command", "zombie"}
    /\ \A p \in Pids : proc[p] = "wrapper" => nice[cmdOf[p]]
    /\ \A p \in adrift : proc[p] # "unused"
    /\ \A c \in Cmds : /\ kind[c] # "none" => proc[hpid[c]] # "unused"
                       /\ st[c] # None => proc[st[c]] # "unused"
                       /\ file[c] \in Pids => proc[file[c]] # "unused"

\* An own child was spawned for its effect; so was the process whose pid file is
\* being written, which is not the process of the handle yet.
OwnOK ==
    \A c \in Cmds :
        /\ kind[c] = "tokio" => cmdOf[hpid[c]] = c
        /\ pc[c] \in Recording => /\ st[c] \in held /\ cmdOf[st[c]] = c
                                  /\ st[c] # hpid[c]

\* With a pid directory, state and file only name processes of the effect.
DirOK ==
    \A c \in Cmds : dir[c] =>
        /\ st[c] # None => cmdOf[st[c]] = c /\ st[c] \notin adrift
        /\ file[c] \in Pids => cmdOf[file[c]] = c /\ (Live(file[c]) => file[c] \notin adrift)

\* What a start knows: the file names no live process when it goes on without
\* one, nothing runs when it is about to spawn, the pid it writes is that of the
\* only process, and the process of an old handle has ended.
StartOK ==
    \A c \in Cmds : ~nice[c] =>
        /\ pc[c] \in {"stale", "choose", "spawn"} /\ dir[c] /\ file[c] \in Pids => ~Live(file[c])
        /\ pc[c] = "spawn" => \A p \in Pids : ~Tracked(c, p)
        /\ pc[c] \in Writing => \A p \in Pids : Tracked(c, p) => p = st[c]
        /\ pc[c] \in Starting /\ dir[c] /\ kind[c] # "none" => ~Live(hpid[c])

\* Every process is named by the state of its value or by its pid file.
KnownOK ==
    \A c \in Cmds, p \in Pids :
        Tracked(c, p) /\ ~nice[c] => st[c] = p \/ (dir[c] /\ file[c] = p)

\* Where calls can be: only an own child is waited for, only a value with a pid
\* directory writes a file.
CallOK ==
    \A c \in Cmds : /\ pc[c] = "wait" => kind[c] = "tokio"
                    /\ ended[c] => pc[c] = "idle" /\ kind[c] # "none"
                    /\ pc[c] \in Writing => dir[c]

\* The inductive invariant.
IInv == /\ TypeOK /\ ProcOK /\ OwnOK /\ ChildIsHeld /\ DirOK /\ StartOK /\ KnownOK
        /\ AtMostOneProcess /\ Recorded /\ CallOK /\ DestroyedIsGone /\ WaitsForKilled

----------------------------------------------------------------------------
USE CommandAssumption DEF Pids, None, Torn, Goto, At, Live, Listed, Unlisted, IsLaunch, IsCommand,
    Own, Give, Begin, Running, Found, Fresh, confVars, osVars, handleVars, driftVars, histVars, Starting, Recording, Writing, Tracked

\* The operating system takes a step.
LEMMA SystemStep == ASSUME IInv, NEW p \in Pids, Exec(p) \/ Exit(p) \/ Reap(p) \/ ReusePid(p)
  PROVE IInv'
<1>1. CASE Exec(p)
  <2>1. TypeOK'
    BY <1>1 DEF Exec, IInv, TypeOK
  <2>2. ProcOK'
    BY <1>1 DEF Exec, IInv, TypeOK, ProcOK
  <2>3. (OwnOK /\ ChildIsHeld)'
    BY <1>1 DEF Exec, IInv, TypeOK, ProcOK, OwnOK, ChildIsHeld, CallOK
  <2>4. DirOK'
    BY <1>1 DEF Exec, IInv, TypeOK, ProcOK, OwnOK, DirOK, CallOK
  <2>5. (StartOK /\ Recorded)'
    BY <1>1 DEF Exec, IInv, TypeOK, ProcOK, OwnOK, DirOK, StartOK, KnownOK, AtMostOneProcess, Recorded, CallOK
  <2>6. (KnownOK /\ AtMostOneProcess)'
    BY <1>1 DEF Exec, IInv, TypeOK, ProcOK, OwnOK, DirOK, StartOK, KnownOK, AtMostOneProcess, CallOK
  <2>7. (CallOK /\ DestroyedIsGone /\ WaitsForKilled)'
    BY <1>1 DEF Exec, IInv, TypeOK, ProcOK, ChildIsHeld, CallOK, DestroyedIsGone, WaitsForKilled
  <2> QED  BY <2>1, <2>2, <2>3, <2>4, <2>5, <2>6, <2>7 DEF IInv
<1>2. CASE Exit(p)
  <2>1. TypeOK'
    BY <1>2 DEF Exit, IInv, TypeOK
  <2>2. ProcOK'
    BY <1>2 DEF Exit, IInv, TypeOK, ProcOK
  <2>3. (OwnOK /\ ChildIsHeld)'
    BY <1>2 DEF Exit, IInv, TypeOK, ProcOK, OwnOK, ChildIsHeld, CallOK
  <2>4. DirOK'
    BY <1>2 DEF Exit, IInv, TypeOK, ProcOK, OwnOK, DirOK, CallOK
  <2>5. (StartOK /\ Recorded)'
    BY <1>2 DEF Exit, IInv, TypeOK, ProcOK, OwnOK, DirOK, StartOK, KnownOK, AtMostOneProcess, Recorded, CallOK
  <2>6. (KnownOK /\ AtMostOneProcess)'
    BY <1>2 DEF Exit, IInv, TypeOK, ProcOK, OwnOK, DirOK, StartOK, KnownOK, AtMostOneProcess, CallOK
  <2>7. (CallOK /\ DestroyedIsGone /\ WaitsForKilled)'
    BY <1>2 DEF Exit, IInv, TypeOK, ProcOK, ChildIsHeld, CallOK, DestroyedIsGone, WaitsForKilled
  <2> QED  BY <2>1, <2>2, <2>3, <2>4, <2>5, <2>6, <2>7 DEF IInv
<1>3. CASE Reap(p)
  <2>1. TypeOK'
    BY <1>3 DEF Reap, IInv, TypeOK
  <2>2. ProcOK'
    BY <1>3 DEF Reap, IInv, TypeOK, ProcOK
  <2>3. (OwnOK /\ ChildIsHeld)'
    BY <1>3 DEF Reap, IInv, TypeOK, ProcOK, OwnOK, ChildIsHeld, CallOK
  <2>4. DirOK'
    BY <1>3 DEF Reap, IInv, TypeOK, ProcOK, OwnOK, DirOK, CallOK
  <2>5. (StartOK /\ Recorded)'
    BY <1>3 DEF Reap, IInv, TypeOK, ProcOK, OwnOK, DirOK, StartOK, KnownOK, AtMostOneProcess, Recorded, CallOK
  <2>6. (KnownOK /\ AtMostOneProcess)'
    BY <1>3 DEF Reap, IInv, TypeOK, ProcOK, OwnOK, DirOK, StartOK, KnownOK, AtMostOneProcess, CallOK
  <2>7. (CallOK /\ DestroyedIsGone /\ WaitsForKilled)'
    BY <1>3 DEF Reap, IInv, TypeOK, ProcOK, ChildIsHeld, CallOK, DestroyedIsGone, WaitsForKilled
  <2> QED  BY <2>1, <2>2, <2>3, <2>4, <2>5, <2>6, <2>7 DEF IInv
<1>4. CASE ReusePid(p)
  <2>1. TypeOK'
    BY <1>4 DEF ReusePid, IInv, TypeOK
  <2>2. ProcOK'
    BY <1>4 DEF ReusePid, IInv, TypeOK, ProcOK
  <2>3. (OwnOK /\ ChildIsHeld)'
    BY <1>4 DEF ReusePid, IInv, TypeOK, ProcOK, OwnOK, ChildIsHeld, CallOK
  <2>4. DirOK'
    BY <1>4 DEF ReusePid, IInv, TypeOK, ProcOK, OwnOK, DirOK, CallOK
  <2>5. (StartOK /\ Recorded)'
    BY <1>4 DEF ReusePid, IInv, TypeOK, ProcOK, OwnOK, DirOK, StartOK, KnownOK, AtMostOneProcess, Recorded, CallOK
  <2>6. (KnownOK /\ AtMostOneProcess)'
    BY <1>4 DEF ReusePid, IInv, TypeOK, ProcOK, OwnOK, DirOK, StartOK, KnownOK, AtMostOneProcess, CallOK
  <2>7. (CallOK /\ DestroyedIsGone /\ WaitsForKilled)'
    BY <1>4 DEF ReusePid, IInv, TypeOK, ProcOK, ChildIsHeld, CallOK, DestroyedIsGone, WaitsForKilled
  <2> QED  BY <2>1, <2>2, <2>3, <2>4, <2>5, <2>6, <2>7 DEF IInv
<1> QED  BY <1>1, <1>2, <1>3, <1>4

\* A call begins, or ends at once.
LEMMA BeginStep == ASSUME IInv, NEW c \in Cmds, StartReattach(c) \/ StartStale(c) \/ StartUnfiled(c) \/ StatusExited(c) \/ DestroyGroup(c) \/ DestroyPid(c) \/ Drop(c)
  PROVE IInv'
<1>1. CASE StartReattach(c)
  <2>1. TypeOK'
    <3>1. /\ kind' \in [Cmds -> {"none", "tokio", "pid"}]
          /\ hpid' \in [Cmds -> Pids \cup {None}] /\ st' \in [Cmds -> Pids \cup {None}]
          /\ held' \subseteq Pids /\ ended' \in [Cmds -> BOOLEAN]
      BY <1>1 DEF StartReattach, IInv, TypeOK
    <3> QED  BY <1>1, <3>1 DEF StartReattach, IInv, TypeOK
  <2>2. ProcOK'
    BY <1>1 DEF StartReattach, IInv, TypeOK, ProcOK
  <2>3. (OwnOK /\ ChildIsHeld)'
    BY <1>1 DEF StartReattach, IInv, TypeOK, ProcOK, OwnOK, ChildIsHeld, CallOK
  <2>4. DirOK'
    BY <1>1 DEF StartReattach, IInv, TypeOK, ProcOK, OwnOK, DirOK, CallOK
  <2>5. (StartOK /\ Recorded)'
    BY <1>1 DEF StartReattach, IInv, TypeOK, ProcOK, OwnOK, DirOK, StartOK, KnownOK, AtMostOneProcess, Recorded, CallOK
  <2>6. (KnownOK /\ AtMostOneProcess)'
    BY <1>1 DEF StartReattach, IInv, TypeOK, ProcOK, OwnOK, DirOK, StartOK, KnownOK, AtMostOneProcess, CallOK
  <2>7. (CallOK /\ DestroyedIsGone /\ WaitsForKilled)'
    BY <1>1 DEF StartReattach, IInv, TypeOK, ProcOK, ChildIsHeld, CallOK, DestroyedIsGone, WaitsForKilled
  <2> QED  BY <2>1, <2>2, <2>3, <2>4, <2>5, <2>6, <2>7 DEF IInv
<1>2. CASE StartStale(c)
  <2>1. TypeOK'
    BY <1>2 DEF StartStale, IInv, TypeOK
  <2>2. ProcOK'
    BY <1>2 DEF StartStale, IInv, TypeOK, ProcOK
  <2>3. (OwnOK /\ ChildIsHeld)'
    BY <1>2 DEF StartStale, IInv, TypeOK, ProcOK, OwnOK, ChildIsHeld, CallOK
  <2>4. DirOK'
    BY <1>2 DEF StartStale, IInv, TypeOK, ProcOK, OwnOK, DirOK, CallOK
  <2>5. (StartOK /\ Recorded)'
    BY <1>2 DEF StartStale, IInv, TypeOK, ProcOK, OwnOK, DirOK, StartOK, KnownOK, AtMostOneProcess, Recorded, CallOK
  <2>6. (KnownOK /\ AtMostOneProcess)'
    BY <1>2 DEF StartStale, IInv, TypeOK, ProcOK, OwnOK, DirOK, StartOK, KnownOK, AtMostOneProcess, CallOK
  <2>7. (CallOK /\ DestroyedIsGone /\ WaitsForKilled)'
    BY <1>2 DEF StartStale, IInv, TypeOK, ProcOK, ChildIsHeld, CallOK, DestroyedIsGone, WaitsForKilled
  <2> QED  BY <2>1, <2>2, <2>3, <2>4, <2>5, <2>6, <2>7 DEF IInv
<1>3. CASE StartUnfiled(c)
  <2>1. TypeOK'
    BY <1>3 DEF StartUnfiled, IInv, TypeOK
  <2>2. ProcOK'
    BY <1>3 DEF StartUnfiled, IInv, TypeOK, ProcOK
  <2>3. (OwnOK /\ ChildIsHeld)'
    BY <1>3 DEF StartUnfiled, IInv, TypeOK, ProcOK, OwnOK, ChildIsHeld, CallOK
  <2>4. DirOK'
    BY <1>3 DEF StartUnfiled, IInv, TypeOK, ProcOK, OwnOK, DirOK, CallOK
  <2>5. (StartOK /\ Recorded)'
    BY <1>3 DEF StartUnfiled, IInv, TypeOK, ProcOK, OwnOK, DirOK, StartOK, KnownOK, AtMostOneProcess, Recorded, CallOK
  <2>6. (KnownOK /\ AtMostOneProcess)'
    BY <1>3 DEF StartUnfiled, IInv, TypeOK, ProcOK, OwnOK, DirOK, StartOK, KnownOK, AtMostOneProcess, CallOK
  <2>7. (CallOK /\ DestroyedIsGone /\ WaitsForKilled)'
    BY <1>3 DEF StartUnfiled, IInv, TypeOK, ProcOK, ChildIsHeld, CallOK, DestroyedIsGone, WaitsForKilled
  <2> QED  BY <2>1, <2>2, <2>3, <2>4, <2>5, <2>6, <2>7 DEF IInv
<1>4. CASE StatusExited(c)
  <2>1. TypeOK'
    BY <1>4 DEF StatusExited, IInv, TypeOK
  <2>2. ProcOK'
    BY <1>4 DEF StatusExited, IInv, TypeOK, ProcOK
  <2>3. (OwnOK /\ ChildIsHeld)'
    BY <1>4 DEF StatusExited, IInv, TypeOK, ProcOK, OwnOK, ChildIsHeld, CallOK
  <2>4. DirOK'
    BY <1>4 DEF StatusExited, IInv, TypeOK, ProcOK, OwnOK, DirOK, CallOK
  <2>5. (StartOK /\ Recorded)'
    BY <1>4 DEF StatusExited, IInv, TypeOK, ProcOK, OwnOK, DirOK, StartOK, KnownOK, AtMostOneProcess, Recorded, CallOK
  <2>6. (KnownOK /\ AtMostOneProcess)'
    BY <1>4 DEF StatusExited, IInv, TypeOK, ProcOK, OwnOK, DirOK, StartOK, KnownOK, AtMostOneProcess, CallOK
  <2>7. (CallOK /\ DestroyedIsGone /\ WaitsForKilled)'
    BY <1>4 DEF StatusExited, IInv, TypeOK, ProcOK, ChildIsHeld, CallOK, DestroyedIsGone, WaitsForKilled
  <2> QED  BY <2>1, <2>2, <2>3, <2>4, <2>5, <2>6, <2>7 DEF IInv
<1>5. CASE DestroyGroup(c)
  <2>1. TypeOK'
    BY <1>5 DEF DestroyGroup, IInv, TypeOK
  <2>2. ProcOK'
    BY <1>5 DEF DestroyGroup, IInv, TypeOK, ProcOK
  <2>3. (OwnOK /\ ChildIsHeld)'
    BY <1>5 DEF DestroyGroup, IInv, TypeOK, ProcOK, OwnOK, ChildIsHeld, CallOK
  <2>4. DirOK'
    BY <1>5 DEF DestroyGroup, IInv, TypeOK, ProcOK, OwnOK, DirOK, CallOK
  <2>5. (StartOK /\ Recorded)'
    BY <1>5 DEF DestroyGroup, IInv, TypeOK, ProcOK, OwnOK, DirOK, StartOK, KnownOK, AtMostOneProcess, Recorded, CallOK
  <2>6. (KnownOK /\ AtMostOneProcess)'
    BY <1>5 DEF DestroyGroup, IInv, TypeOK, ProcOK, OwnOK, DirOK, StartOK, KnownOK, AtMostOneProcess, CallOK
  <2>7. (CallOK /\ DestroyedIsGone /\ WaitsForKilled)'
    BY <1>5 DEF DestroyGroup, IInv, TypeOK, ProcOK, ChildIsHeld, CallOK, DestroyedIsGone, WaitsForKilled
  <2> QED  BY <2>1, <2>2, <2>3, <2>4, <2>5, <2>6, <2>7 DEF IInv
<1>6. CASE DestroyPid(c)
  <2>1. TypeOK'
    BY <1>6 DEF DestroyPid, IInv, TypeOK
  <2>2. ProcOK'
    BY <1>6 DEF DestroyPid, IInv, TypeOK, ProcOK
  <2>3. (OwnOK /\ ChildIsHeld)'
    BY <1>6 DEF DestroyPid, IInv, TypeOK, ProcOK, OwnOK, ChildIsHeld, CallOK
  <2>4. DirOK'
    BY <1>6 DEF DestroyPid, IInv, TypeOK, ProcOK, OwnOK, DirOK, CallOK
  <2>5. (StartOK /\ Recorded)'
    BY <1>6 DEF DestroyPid, IInv, TypeOK, ProcOK, OwnOK, DirOK, StartOK, KnownOK, AtMostOneProcess, Recorded, CallOK
  <2>6. (KnownOK /\ AtMostOneProcess)'
    BY <1>6 DEF DestroyPid, IInv, TypeOK, ProcOK, OwnOK, DirOK, StartOK, KnownOK, AtMostOneProcess, CallOK
  <2>7. (CallOK /\ DestroyedIsGone /\ WaitsForKilled)'
    BY <1>6 DEF DestroyPid, IInv, TypeOK, ProcOK, ChildIsHeld, CallOK, DestroyedIsGone, WaitsForKilled
  <2> QED  BY <2>1, <2>2, <2>3, <2>4, <2>5, <2>6, <2>7 DEF IInv
<1>7. CASE Drop(c)
  <2>1. TypeOK'
    BY <1>7 DEF Drop, IInv, TypeOK
  <2>2. ProcOK'
    BY <1>7 DEF Drop, IInv, TypeOK, ProcOK
  <2>3. (OwnOK /\ ChildIsHeld)'
    BY <1>7 DEF Drop, IInv, TypeOK, ProcOK, OwnOK, ChildIsHeld, CallOK
  <2>4. DirOK'
    BY <1>7 DEF Drop, IInv, TypeOK, ProcOK, OwnOK, DirOK, CallOK
  <2>5. (StartOK /\ Recorded)'
    BY <1>7 DEF Drop, IInv, TypeOK, ProcOK, OwnOK, DirOK, StartOK, KnownOK, AtMostOneProcess, Recorded, CallOK
  <2>6. (KnownOK /\ AtMostOneProcess)'
    BY <1>7 DEF Drop, IInv, TypeOK, ProcOK, OwnOK, DirOK, StartOK, KnownOK, AtMostOneProcess, CallOK
  <2>7. (CallOK /\ DestroyedIsGone /\ WaitsForKilled)'
    BY <1>7 DEF Drop, IInv, TypeOK, ProcOK, ChildIsHeld, CallOK, DestroyedIsGone, WaitsForKilled
  <2> QED  BY <2>1, <2>2, <2>3, <2>4, <2>5, <2>6, <2>7 DEF IInv
<1> QED  BY <1>1, <1>2, <1>3, <1>4, <1>5, <1>6, <1>7

\* A start looks for a process to attach to.
LEMMA ChooseStep == ASSUME IInv, NEW c \in Cmds, StaleRemove(c) \/ ChooseOwn(c) \/ ChooseFound(c) \/ ChooseSpawn(c)
  PROVE IInv'
<1>1. CASE StaleRemove(c)
  <2>1. TypeOK'
    BY <1>1 DEF StaleRemove, IInv, TypeOK
  <2>2. ProcOK'
    BY <1>1 DEF StaleRemove, IInv, TypeOK, ProcOK
  <2>3. (OwnOK /\ ChildIsHeld)'
    BY <1>1 DEF StaleRemove, IInv, TypeOK, ProcOK, OwnOK, ChildIsHeld, CallOK
  <2>4. DirOK'
    BY <1>1 DEF StaleRemove, IInv, TypeOK, ProcOK, OwnOK, DirOK, CallOK
  <2>5. (StartOK /\ Recorded)'
    BY <1>1 DEF StaleRemove, IInv, TypeOK, ProcOK, OwnOK, DirOK, StartOK, KnownOK, AtMostOneProcess, Recorded, CallOK
  <2>6. (KnownOK /\ AtMostOneProcess)'
    BY <1>1 DEF StaleRemove, IInv, TypeOK, ProcOK, OwnOK, DirOK, StartOK, KnownOK, AtMostOneProcess, CallOK
  <2>7. (CallOK /\ DestroyedIsGone /\ WaitsForKilled)'
    BY <1>1 DEF StaleRemove, IInv, TypeOK, ProcOK, ChildIsHeld, CallOK, DestroyedIsGone, WaitsForKilled
  <2> QED  BY <2>1, <2>2, <2>3, <2>4, <2>5, <2>6, <2>7 DEF IInv
<1>2. CASE ChooseOwn(c)
  <2>1. TypeOK'
    BY <1>2 DEF ChooseOwn, IInv, TypeOK
  <2>2. ProcOK'
    BY <1>2 DEF ChooseOwn, IInv, TypeOK, ProcOK
  <2>3. (OwnOK /\ ChildIsHeld)'
    BY <1>2 DEF ChooseOwn, IInv, TypeOK, ProcOK, OwnOK, ChildIsHeld, CallOK
  <2>4. DirOK'
    BY <1>2 DEF ChooseOwn, IInv, TypeOK, ProcOK, OwnOK, DirOK, CallOK
  <2>5. (StartOK /\ Recorded)'
    BY <1>2 DEF ChooseOwn, IInv, TypeOK, ProcOK, OwnOK, DirOK, StartOK, KnownOK, AtMostOneProcess, Recorded, CallOK
  <2>6. (KnownOK /\ AtMostOneProcess)'
    BY <1>2 DEF ChooseOwn, IInv, TypeOK, ProcOK, OwnOK, DirOK, StartOK, KnownOK, AtMostOneProcess, CallOK
  <2>7. (CallOK /\ DestroyedIsGone /\ WaitsForKilled)'
    BY <1>2 DEF ChooseOwn, IInv, TypeOK, ProcOK, ChildIsHeld, CallOK, DestroyedIsGone, WaitsForKilled
  <2> QED  BY <2>1, <2>2, <2>3, <2>4, <2>5, <2>6, <2>7 DEF IInv
<1>3. CASE ChooseFound(c)
  <2> PICK p \in Pids : /\ IsCommand(p) /\ pc[c] = "choose" /\ pc' = [pc EXCEPT ![c] = "idle"]
                       /\ st' = [st EXCEPT ![c] = p] /\ Give(c, "pid", p)
    BY <1>3 DEF ChooseFound
  <2>1. TypeOK'
    <3>1. /\ kind' \in [Cmds -> {"none", "tokio", "pid"}]
          /\ hpid' \in [Cmds -> Pids \cup {None}] /\ st' \in [Cmds -> Pids \cup {None}]
          /\ held' \subseteq Pids
      BY DEF IInv, TypeOK
    <3> QED  BY <1>3, <3>1 DEF ChooseFound, IInv, TypeOK
  <2>2. ProcOK'
    BY <1>3 DEF ChooseFound, IInv, TypeOK, ProcOK
  <2>3. (OwnOK /\ ChildIsHeld)'
    BY <1>3 DEF ChooseFound, IInv, TypeOK, ProcOK, OwnOK, ChildIsHeld, CallOK
  <2>4. DirOK'
    BY <1>3 DEF ChooseFound, IInv, TypeOK, ProcOK, OwnOK, DirOK, CallOK
  <2>5. (StartOK /\ Recorded)'
    BY <1>3 DEF ChooseFound, IInv, TypeOK, ProcOK, OwnOK, DirOK, StartOK, KnownOK, AtMostOneProcess, Recorded, CallOK
  <2>6. (KnownOK /\ AtMostOneProcess)'
    BY <1>3 DEF ChooseFound, IInv, TypeOK, ProcOK, OwnOK, DirOK, StartOK, KnownOK, AtMostOneProcess, CallOK
  <2>7. (CallOK /\ DestroyedIsGone /\ WaitsForKilled)'
    BY <1>3 DEF ChooseFound, IInv, TypeOK, ProcOK, ChildIsHeld, CallOK, DestroyedIsGone, WaitsForKilled
  <2> QED  BY <2>1, <2>2, <2>3, <2>4, <2>5, <2>6, <2>7 DEF IInv
<1>4. CASE ChooseSpawn(c)
  <2>1. TypeOK'
    BY <1>4 DEF ChooseSpawn, IInv, TypeOK
  <2>2. ProcOK'
    BY <1>4 DEF ChooseSpawn, IInv, TypeOK, ProcOK
  <2>3. (OwnOK /\ ChildIsHeld)'
    BY <1>4 DEF ChooseSpawn, IInv, TypeOK, ProcOK, OwnOK, ChildIsHeld, CallOK
  <2>4. DirOK'
    BY <1>4 DEF ChooseSpawn, IInv, TypeOK, ProcOK, OwnOK, DirOK, CallOK
  <2>5. (StartOK /\ Recorded)'
    BY <1>4 DEF ChooseSpawn, IInv, TypeOK, ProcOK, OwnOK, DirOK, StartOK, KnownOK, AtMostOneProcess, Recorded, CallOK
  <2>6. (KnownOK /\ AtMostOneProcess)'
    BY <1>4 DEF ChooseSpawn, IInv, TypeOK, ProcOK, OwnOK, DirOK, StartOK, KnownOK, AtMostOneProcess, CallOK
  <2>7. (CallOK /\ DestroyedIsGone /\ WaitsForKilled)'
    BY <1>4 DEF ChooseSpawn, IInv, TypeOK, ProcOK, ChildIsHeld, CallOK, DestroyedIsGone, WaitsForKilled
  <2> QED  BY <2>1, <2>2, <2>3, <2>4, <2>5, <2>6, <2>7 DEF IInv
<1> QED  BY <1>1, <1>2, <1>3, <1>4

\* A start spawns, or fails to.
LEMMA SpawnStep == ASSUME IInv, NEW c \in Cmds, Spawn(c) \/ SpawnShort(c) \/ SpawnError(c)
  PROVE IInv'
<1>1. CASE Spawn(c)
  <2> PICK p \in Pids :
           /\ Fresh(p) /\ cmdOf' = [cmdOf EXCEPT ![p] = c] /\ st' = [st EXCEPT ![c] = p]
           /\ last' = [last EXCEPT ![c] = p]
           /\ proc' = [proc EXCEPT ![p] = IF nice[c] THEN "wrapper" ELSE "command"]
           /\ \/ /\ dir[c] /\ pc' = [pc EXCEPT ![c] = "record"]
                 /\ held' = held \cup {p} /\ UNCHANGED handleVars
              \/ ~dir[c] /\ pc' = [pc EXCEPT ![c] = "idle"] /\ Give(c, "tokio", p)
    BY <1>1 DEF Spawn
  <2> TypeOK /\ pc[c] = "spawn" /\ UNCHANGED <<confVars, killed, file, ended, adrift>>
    BY <1>1 DEF IInv, Spawn
  <2>0. /\ proc' \in [Pids -> {"unused", "wrapper", "command", "zombie", "gone", "other"}]
        /\ proc'[p] \in {"wrapper", "command"} /\ p \notin held
        /\ \A q \in Pids \ {p} : proc'[q] = proc[q]
    BY DEF IInv, TypeOK, ProcOK
  <2>a. /\ cmdOf' \in [Pids -> Cmds \cup {None}] /\ cmdOf'[p] = c
        /\ \A q \in Pids \ {p} : cmdOf'[q] = cmdOf[q]
        /\ st' \in [Cmds -> Pids \cup {None}] /\ st'[c] = p
        /\ \A d \in Cmds \ {c} : st'[d] = st[d]
    BY DEF TypeOK
  <2>b. /\ pc' \in [Cmds -> {"idle", "stale", "choose", "spawn", "record", "recording",
                             "rewrite", "rewriting", "wait", "poll"}]
        /\ \A d \in Cmds \ {c} : pc'[d] = pc[d] /\ kind'[d] = kind[d] /\ hpid'[d] = hpid[d]
    BY DEF TypeOK
  <2>c. \/ /\ dir[c] /\ pc'[c] = "record" /\ held' = held \cup {p}
           /\ kind' = kind /\ hpid' = hpid
        \/ /\ ~dir[c] /\ pc'[c] = "idle" /\ kind'[c] = "tokio" /\ hpid'[c] = p
           /\ held' = (held \ Own(c)) \cup {p}
    BY DEF TypeOK
  <2>d. /\ kind' \in [Cmds -> {"none", "tokio", "pid"}]
        /\ hpid' \in [Cmds -> Pids \cup {None}] /\ held' \subseteq Pids
    <3>1. CASE dir[c]  BY <3>1 DEF TypeOK
    <3>2. CASE ~dir[c]
      <4>1. kind' = [kind EXCEPT ![c] = "tokio"] /\ hpid' = [hpid EXCEPT ![c] = p]
        BY <3>2
      <4>2. held' \subseteq Pids
        BY <2>c, <3>2 DEF TypeOK
      <4> QED  BY <4>1, <4>2 DEF TypeOK
    <3> QED  BY <3>1, <3>2
  <2>1. TypeOK'
    <3>1. \A d \in Cmds : /\ kind'[d] # "none" <=> hpid'[d] # None
                          /\ pc'[d] \in Writing => st'[d] # None
                          /\ pc'[d] \in {"wait", "poll"} => kind'[d] # "none"
      BY <2>a, <2>b, <2>c DEF TypeOK
    <3> QED  BY <2>0, <2>a, <2>b, <2>d, <3>1 DEF TypeOK
  <2>2. ProcOK'
    <3>1. \A q \in held' : proc'[q] \in {"wrapper", "command", "zombie"}
      BY <2>0, <2>c, <2>d DEF IInv, ProcOK
    <3>2. \A q \in Pids : proc'[q] = "wrapper" => nice'[cmdOf'[q]]
      BY <1>1 DEF Spawn, IInv, TypeOK, ProcOK
    <3>3. \A d \in Cmds : /\ kind'[d] # "none" => proc'[hpid'[d]] # "unused"
                          /\ st'[d] # None => proc'[st'[d]] # "unused"
                          /\ file'[d] \in Pids => proc'[file'[d]] # "unused"
      BY <1>1, <2>0 DEF Spawn, IInv, TypeOK, ProcOK
    <3>4. \A q \in adrift' : proc'[q] # "unused"
      BY <1>1, <2>0 DEF Spawn, IInv, TypeOK, ProcOK
    <3> QED  BY <3>1, <3>2, <3>3, <3>4 DEF ProcOK
  <2>3. (OwnOK /\ ChildIsHeld)'
    <3>1. OwnOK'
      BY <2>0, <2>a, <2>b, <2>c DEF IInv, TypeOK, ProcOK, OwnOK, CallOK
    <3>2. ChildIsHeld'
      BY <2>0, <2>a, <2>b, <2>c DEF IInv, TypeOK, ProcOK, OwnOK, ChildIsHeld
    <3> QED  BY <3>1, <3>2
  <2>4. DirOK'
    BY <1>1 DEF Spawn, IInv, TypeOK, ProcOK, OwnOK, DirOK, CallOK
  <2>5. (StartOK /\ Recorded)'
    <3>1. StartOK'
      BY <2>0, <2>a, <2>b, <2>c DEF IInv, TypeOK, ProcOK, OwnOK, DirOK, StartOK, KnownOK, CallOK
    <3>2. Recorded'
      BY <2>0, <2>a, <2>b, <2>c DEF IInv, TypeOK, ProcOK, OwnOK, StartOK, Recorded, CallOK
    <3> QED  BY <3>1, <3>2
  <2>6. (KnownOK /\ AtMostOneProcess)'
    BY <1>1 DEF Spawn, IInv, TypeOK, ProcOK, OwnOK, DirOK, StartOK, KnownOK, AtMostOneProcess, CallOK
  <2>7. (CallOK /\ DestroyedIsGone /\ WaitsForKilled)'
    <3>1. CallOK'
      BY <2>a, <2>b, <2>c DEF IInv, TypeOK, CallOK
    <3>2. \A d \in Cmds : ended[d] \/ pc'[d] = "wait" =>
              d # c /\ kind'[d] = kind[d] /\ hpid'[d] = hpid[d] /\ kind[d] # "none" /\ pc'[d] = pc[d]
      BY <2>b, <2>c DEF IInv, TypeOK, CallOK
    <3>3. DestroyedIsGone'
      BY <2>0, <3>2 DEF IInv, TypeOK, ProcOK, DestroyedIsGone
    <3>4. WaitsForKilled'
      BY <2>0, <3>2 DEF IInv, TypeOK, ProcOK, WaitsForKilled
    <3> QED  BY <3>1, <3>3, <3>4
  <2> QED  BY <2>1, <2>2, <2>3, <2>4, <2>5, <2>6, <2>7 DEF IInv
<1>2. CASE SpawnShort(c)
  <2>1. TypeOK'
    BY <1>2 DEF SpawnShort, IInv, TypeOK
  <2>2. ProcOK'
    BY <1>2 DEF SpawnShort, IInv, TypeOK, ProcOK
  <2>3. (OwnOK /\ ChildIsHeld)'
    BY <1>2 DEF SpawnShort, IInv, TypeOK, ProcOK, OwnOK, ChildIsHeld, CallOK
  <2>4. DirOK'
    BY <1>2 DEF SpawnShort, IInv, TypeOK, ProcOK, OwnOK, DirOK, CallOK
  <2>5. (StartOK /\ Recorded)'
    BY <1>2 DEF SpawnShort, IInv, TypeOK, ProcOK, OwnOK, DirOK, StartOK, KnownOK, AtMostOneProcess, Recorded, CallOK
  <2>6. (KnownOK /\ AtMostOneProcess)'
    BY <1>2 DEF SpawnShort, IInv, TypeOK, ProcOK, OwnOK, DirOK, StartOK, KnownOK, AtMostOneProcess, CallOK
  <2>7. (CallOK /\ DestroyedIsGone /\ WaitsForKilled)'
    BY <1>2 DEF SpawnShort, IInv, TypeOK, ProcOK, ChildIsHeld, CallOK, DestroyedIsGone, WaitsForKilled
  <2> QED  BY <2>1, <2>2, <2>3, <2>4, <2>5, <2>6, <2>7 DEF IInv
<1>3. CASE SpawnError(c)
  <2>1. TypeOK'
    BY <1>3 DEF SpawnError, IInv, TypeOK
  <2>2. ProcOK'
    BY <1>3 DEF SpawnError, IInv, TypeOK, ProcOK
  <2>3. (OwnOK /\ ChildIsHeld)'
    BY <1>3 DEF SpawnError, IInv, TypeOK, ProcOK, OwnOK, ChildIsHeld, CallOK
  <2>4. DirOK'
    BY <1>3 DEF SpawnError, IInv, TypeOK, ProcOK, OwnOK, DirOK, CallOK
  <2>5. (StartOK /\ Recorded)'
    BY <1>3 DEF SpawnError, IInv, TypeOK, ProcOK, OwnOK, DirOK, StartOK, KnownOK, AtMostOneProcess, Recorded, CallOK
  <2>6. (KnownOK /\ AtMostOneProcess)'
    BY <1>3 DEF SpawnError, IInv, TypeOK, ProcOK, OwnOK, DirOK, StartOK, KnownOK, AtMostOneProcess, CallOK
  <2>7. (CallOK /\ DestroyedIsGone /\ WaitsForKilled)'
    BY <1>3 DEF SpawnError, IInv, TypeOK, ProcOK, ChildIsHeld, CallOK, DestroyedIsGone, WaitsForKilled
  <2> QED  BY <2>1, <2>2, <2>3, <2>4, <2>5, <2>6, <2>7 DEF IInv
<1> QED  BY <1>1, <1>2, <1>3

\* A start writes the pid file, or fails to.
LEMMA FileStep == ASSUME IInv, NEW c \in Cmds, FileCreate(c) \/ FileWrite(c) \/ StartError(c)
  PROVE IInv'
<1>1. CASE FileCreate(c)
  <2>1. TypeOK'
    BY <1>1 DEF FileCreate, IInv, TypeOK
  <2>2. ProcOK'
    BY <1>1 DEF FileCreate, IInv, TypeOK, ProcOK
  <2>3. (OwnOK /\ ChildIsHeld)'
    BY <1>1 DEF FileCreate, IInv, TypeOK, ProcOK, OwnOK, ChildIsHeld, CallOK
  <2>4. DirOK'
    BY <1>1 DEF FileCreate, IInv, TypeOK, ProcOK, OwnOK, DirOK, CallOK
  <2>5. (StartOK /\ Recorded)'
    BY <1>1 DEF FileCreate, IInv, TypeOK, ProcOK, OwnOK, DirOK, StartOK, KnownOK, AtMostOneProcess, Recorded, CallOK
  <2>6. (KnownOK /\ AtMostOneProcess)'
    BY <1>1 DEF FileCreate, IInv, TypeOK, ProcOK, OwnOK, DirOK, StartOK, KnownOK, AtMostOneProcess, CallOK
  <2>7. (CallOK /\ DestroyedIsGone /\ WaitsForKilled)'
    BY <1>1 DEF FileCreate, IInv, TypeOK, ProcOK, ChildIsHeld, CallOK, DestroyedIsGone, WaitsForKilled
  <2> QED  BY <2>1, <2>2, <2>3, <2>4, <2>5, <2>6, <2>7 DEF IInv
<1>2. CASE FileWrite(c)
  <2>1. TypeOK'
    BY <1>2 DEF FileWrite, IInv, TypeOK
  <2>2. ProcOK'
    <3>1. pc[c] \in {"recording", "rewriting"} /\ held' \subseteq held \cup {st[c]}
      BY <1>2 DEF FileWrite, IInv, TypeOK
    <3>2. \A p \in held' : proc'[p] \in {"wrapper", "command", "zombie"}
      <4>1. CASE pc[c] = "recording"
        <5>1. st[c] \in held  BY <4>1 DEF IInv, OwnOK
        <5> QED  BY <1>2, <3>1, <5>1 DEF FileWrite, IInv, ProcOK
      <4>2. CASE pc[c] = "rewriting"
        <5>1. held' \subseteq held  BY <1>2, <4>2 DEF FileWrite
        <5> QED  BY <1>2, <5>1 DEF FileWrite, IInv, ProcOK
      <4> QED  BY <3>1, <4>1, <4>2
    <3>3. \A d \in Cmds : /\ kind'[d] # "none" => proc'[hpid'[d]] # "unused"
                          /\ file'[d] \in Pids => proc'[file'[d]] # "unused"
      BY <1>2 DEF FileWrite, IInv, TypeOK, ProcOK
    <3> QED  BY <1>2, <3>2, <3>3 DEF FileWrite, IInv, ProcOK
  <2>3. (OwnOK /\ ChildIsHeld)'
    <3>1. OwnOK'
      BY <1>2 DEF FileWrite, IInv, TypeOK, ProcOK, OwnOK, CallOK
    <3>2. CASE pc[c] = "recording"
      <4>1. kind'[c] = "tokio" /\ hpid'[c] = st[c] /\ st[c] \in held'
        BY <1>2, <3>2 DEF FileWrite, IInv, TypeOK
      <4>2. \A d \in Cmds \ {c} : /\ kind'[d] = kind[d] /\ hpid'[d] = hpid[d]
                                  /\ kind[d] = "tokio" => (hpid[d] \in held' <=> hpid[d] \in held)
        BY <1>2, <3>2 DEF FileWrite, IInv, TypeOK, OwnOK
      <4>3. UNCHANGED proc
        BY <1>2 DEF FileWrite
      <4> QED  BY <3>1, <3>2, <4>1, <4>2, <4>3 DEF IInv, TypeOK, ProcOK, OwnOK, ChildIsHeld
    <3>3. CASE pc[c] = "rewriting"
      <4>1. kind'[c] = "pid" /\ UNCHANGED proc
        BY <1>2, <3>3 DEF FileWrite, IInv, TypeOK
      <4>2. \A d \in Cmds \ {c} : /\ kind'[d] = kind[d] /\ hpid'[d] = hpid[d]
                                  /\ kind[d] = "tokio" => (hpid[d] \in held' <=> hpid[d] \in held)
        BY <1>2, <3>3 DEF FileWrite, IInv, TypeOK, OwnOK
      <4> QED  BY <3>1, <4>1, <4>2 DEF IInv, TypeOK, ChildIsHeld
    <3> QED  BY <1>2, <3>1, <3>2, <3>3 DEF FileWrite
  <2>4. DirOK'
    BY <1>2 DEF FileWrite, IInv, TypeOK, ProcOK, OwnOK, DirOK, CallOK
  <2>5. (StartOK /\ Recorded)'
    BY <1>2 DEF FileWrite, IInv, TypeOK, ProcOK, OwnOK, DirOK, StartOK, KnownOK, AtMostOneProcess, Recorded, CallOK
  <2>6. (KnownOK /\ AtMostOneProcess)'
    BY <1>2 DEF FileWrite, IInv, TypeOK, ProcOK, OwnOK, DirOK, StartOK, KnownOK, AtMostOneProcess, CallOK
  <2>7. (CallOK /\ DestroyedIsGone /\ WaitsForKilled)'
    <3>1. CallOK'
      BY <1>2 DEF FileWrite, IInv, TypeOK, CallOK
    <3>2. \A d \in Cmds \ {c} : hpid'[d] = hpid[d] /\ pc'[d] = pc[d]
      BY <1>2 DEF FileWrite, IInv, TypeOK
    <3>3. ~ended[c] /\ pc'[c] = "idle" /\ UNCHANGED <<proc, killed, ended>>
      BY <1>2 DEF FileWrite, IInv, TypeOK, CallOK
    <3> QED  BY <3>1, <3>2, <3>3 DEF IInv, TypeOK, DestroyedIsGone, WaitsForKilled
  <2> QED  BY <2>1, <2>2, <2>3, <2>4, <2>5, <2>6, <2>7 DEF IInv
<1>3. CASE StartError(c)
  <2>1. TypeOK'
    BY <1>3 DEF StartError, IInv, TypeOK
  <2>2. ProcOK'
    BY <1>3 DEF StartError, IInv, TypeOK, ProcOK
  <2>3. (OwnOK /\ ChildIsHeld)'
    BY <1>3 DEF StartError, IInv, TypeOK, ProcOK, OwnOK, ChildIsHeld, CallOK
  <2>4. DirOK'
    BY <1>3 DEF StartError, IInv, TypeOK, ProcOK, OwnOK, DirOK, CallOK
  <2>5. (StartOK /\ Recorded)'
    BY <1>3 DEF StartError, IInv, TypeOK, ProcOK, OwnOK, DirOK, StartOK, KnownOK, AtMostOneProcess, Recorded, CallOK
  <2>6. (KnownOK /\ AtMostOneProcess)'
    BY <1>3 DEF StartError, IInv, TypeOK, ProcOK, OwnOK, DirOK, StartOK, KnownOK, AtMostOneProcess, CallOK
  <2>7. (CallOK /\ DestroyedIsGone /\ WaitsForKilled)'
    BY <1>3 DEF StartError, IInv, TypeOK, ProcOK, ChildIsHeld, CallOK, DestroyedIsGone, WaitsForKilled
  <2> QED  BY <2>1, <2>2, <2>3, <2>4, <2>5, <2>6, <2>7 DEF IInv
<1> QED  BY <1>1, <1>2, <1>3

\* A destroy ends.
LEMMA EndStep == ASSUME IInv, NEW c \in Cmds, DestroyWait(c) \/ PollGone(c) \/ PollTimeout(c)
  PROVE IInv'
<1>1. CASE DestroyWait(c)
  <2>1. TypeOK'
    BY <1>1 DEF DestroyWait, IInv, TypeOK
  <2>2. ProcOK'
    BY <1>1 DEF DestroyWait, IInv, TypeOK, ProcOK
  <2>3. (OwnOK /\ ChildIsHeld)'
    BY <1>1 DEF DestroyWait, IInv, TypeOK, ProcOK, OwnOK, ChildIsHeld, CallOK
  <2>4. DirOK'
    BY <1>1 DEF DestroyWait, IInv, TypeOK, ProcOK, OwnOK, DirOK, CallOK
  <2>5. (StartOK /\ Recorded)'
    BY <1>1 DEF DestroyWait, IInv, TypeOK, ProcOK, OwnOK, DirOK, StartOK, KnownOK, AtMostOneProcess, Recorded, CallOK
  <2>6. (KnownOK /\ AtMostOneProcess)'
    BY <1>1 DEF DestroyWait, IInv, TypeOK, ProcOK, OwnOK, DirOK, StartOK, KnownOK, AtMostOneProcess, CallOK
  <2>7. (CallOK /\ DestroyedIsGone /\ WaitsForKilled)'
    BY <1>1 DEF DestroyWait, IInv, TypeOK, ProcOK, ChildIsHeld, CallOK, DestroyedIsGone, WaitsForKilled
  <2> QED  BY <2>1, <2>2, <2>3, <2>4, <2>5, <2>6, <2>7 DEF IInv
<1>2. CASE PollGone(c)
  <2>1. TypeOK'
    BY <1>2 DEF PollGone, IInv, TypeOK
  <2>2. ProcOK'
    BY <1>2 DEF PollGone, IInv, TypeOK, ProcOK
  <2>3. (OwnOK /\ ChildIsHeld)'
    BY <1>2 DEF PollGone, IInv, TypeOK, ProcOK, OwnOK, ChildIsHeld, CallOK
  <2>4. DirOK'
    BY <1>2 DEF PollGone, IInv, TypeOK, ProcOK, OwnOK, DirOK, CallOK
  <2>5. (StartOK /\ Recorded)'
    BY <1>2 DEF PollGone, IInv, TypeOK, ProcOK, OwnOK, DirOK, StartOK, KnownOK, AtMostOneProcess, Recorded, CallOK
  <2>6. (KnownOK /\ AtMostOneProcess)'
    BY <1>2 DEF PollGone, IInv, TypeOK, ProcOK, OwnOK, DirOK, StartOK, KnownOK, AtMostOneProcess, CallOK
  <2>7. (CallOK /\ DestroyedIsGone /\ WaitsForKilled)'
    BY <1>2 DEF PollGone, IInv, TypeOK, ProcOK, ChildIsHeld, CallOK, DestroyedIsGone, WaitsForKilled
  <2> QED  BY <2>1, <2>2, <2>3, <2>4, <2>5, <2>6, <2>7 DEF IInv
<1>3. CASE PollTimeout(c)
  <2>1. TypeOK'
    BY <1>3 DEF PollTimeout, IInv, TypeOK
  <2>2. ProcOK'
    BY <1>3 DEF PollTimeout, IInv, TypeOK, ProcOK
  <2>3. (OwnOK /\ ChildIsHeld)'
    BY <1>3 DEF PollTimeout, IInv, TypeOK, ProcOK, OwnOK, ChildIsHeld, CallOK
  <2>4. DirOK'
    BY <1>3 DEF PollTimeout, IInv, TypeOK, ProcOK, OwnOK, DirOK, CallOK
  <2>5. (StartOK /\ Recorded)'
    BY <1>3 DEF PollTimeout, IInv, TypeOK, ProcOK, OwnOK, DirOK, StartOK, KnownOK, AtMostOneProcess, Recorded, CallOK
  <2>6. (KnownOK /\ AtMostOneProcess)'
    BY <1>3 DEF PollTimeout, IInv, TypeOK, ProcOK, OwnOK, DirOK, StartOK, KnownOK, AtMostOneProcess, CallOK
  <2>7. (CallOK /\ DestroyedIsGone /\ WaitsForKilled)'
    BY <1>3 DEF PollTimeout, IInv, TypeOK, ProcOK, ChildIsHeld, CallOK, DestroyedIsGone, WaitsForKilled
  <2> QED  BY <2>1, <2>2, <2>3, <2>4, <2>5, <2>6, <2>7 DEF IInv
<1> QED  BY <1>1, <1>2, <1>3

\* The first state satisfies the invariant.
LEMMA InitStep == Init => IInv
  BY DEF Init, IInv, TypeOK, ProcOK, OwnOK, ChildIsHeld, DirOK, StartOK, KnownOK,
     AtMostOneProcess, Recorded, CallOK, DestroyedIsGone, WaitsForKilled

\* The process that holds the values is replaced.
LEMMA ForgetStep == ASSUME IInv, Forget  PROVE IInv'
<1>1. TypeOK'
  BY DEF Forget, IInv, TypeOK
<1>2. (ProcOK /\ OwnOK /\ ChildIsHeld /\ DirOK)'
  BY DEF Forget, IInv, TypeOK, ProcOK, OwnOK, ChildIsHeld, DirOK
<1>3. (StartOK /\ KnownOK /\ AtMostOneProcess /\ Recorded)'
  BY DEF Forget, IInv, TypeOK, StartOK, KnownOK, AtMostOneProcess, Recorded
<1>4. (CallOK /\ DestroyedIsGone /\ WaitsForKilled)'
  BY DEF Forget, IInv, TypeOK, CallOK, DestroyedIsGone, WaitsForKilled
<1> QED  BY <1>1, <1>2, <1>3, <1>4 DEF IInv

\* A stuttering step changes nothing.
LEMMA Stutter == ASSUME IInv, UNCHANGED vars  PROVE IInv'
  BY DEF vars, IInv, TypeOK, ProcOK, OwnOK, ChildIsHeld, DirOK, StartOK, KnownOK,
     AtMostOneProcess, Recorded, CallOK, DestroyedIsGone, WaitsForKilled

\* The invariant is inductive.
LEMMA NextStep == ASSUME IInv, [Next]_vars  PROVE IInv'
  BY SystemStep, BeginStep, ChooseStep, SpawnStep, FileStep, EndStep, ForgetStep, Stutter
     DEF Next, System, Call, Step, Crash

LEMMA Inductive == Spec => []IInv
<1>1. IInv /\ [Next]_vars => IInv'
  BY NextStep
<1> QED  BY InitStep, <1>1, PTL DEF Spec

----------------------------------------------------------------------------
\* The variables have their types, and a call that works on a pid has one.
THEOREM TypeCorrect == Spec => []TypeOK
<1>1. IInv => TypeOK  BY DEF IInv
<1> QED  BY <1>1, Inductive, PTL

\* fx_start never adds a process to one that runs for the effect, whatever
\* fails, except after a crash that came before the pid file was written.
THEOREM AtMostOneProcessHolds == Spec => []AtMostOneProcess
<1>1. IInv => AtMostOneProcess  BY DEF IInv
<1> QED  BY <1>1, Inductive, PTL

\* The pid file names the live process of the handle, so that the start of a
\* later process finds it.
THEOREM RecordedHolds == Spec => []Recorded
<1>1. IInv => Recorded  BY DEF IInv
<1> QED  BY <1>1, Inductive, PTL

\* Only the holder of a Child reaps it, and lets it go when it has exited.
THEOREM ChildIsHeldHolds == Spec => []ChildIsHeld
<1>1. IInv => ChildIsHeld  BY DEF IInv
<1> QED  BY <1>1, Inductive, PTL

\* A destroy that returns Ok leaves no process.
THEOREM DestroyedIsGoneHolds == Spec => []DestroyedIsGone
<1>1. IInv => DestroyedIsGone  BY DEF IInv
<1> QED  BY <1>1, Inductive, PTL

\* A destroy waits without a timeout only for a process it has killed.
THEOREM WaitsForKilledHolds == Spec => []WaitsForKilled
<1>1. IInv => WaitsForKilled  BY DEF IInv
<1> QED  BY <1>1, Inductive, PTL

\* An effect that is not launched by a wrapper has one process.
OneProcess ==
    \A p, q \in Pids : Live(p) /\ Live(q) /\ cmdOf[p] = cmdOf[q] /\ ~nice[cmdOf[p]] => p = q

\* Without a crash no process is adrift, whatever fails: with AtMostOneProcess,
\* "later starts use those files" (153) is true but for the wrappers that
\* LaterStartsUsePidFile is refuted by.
THEOREM OneProcessWithoutCrash == ASSUME ~CanCrash  PROVE Spec => []OneProcess
<1> DEFINE NoneAdrift == adrift = {}
<1>1. Init => NoneAdrift
  BY DEF Init
<1>2. NoneAdrift /\ [Next]_vars => NoneAdrift'
  <2> SUFFICES ASSUME [Next]_vars, adrift = {}  PROVE adrift' = {}
    OBVIOUS
  <2>1. ~Crash
    BY DEF Crash
  <2>2. UNCHANGED adrift
    BY <2>1 DEF Next, vars, System, Exec, Exit, Reap, ReusePid, Call, Step, StartReattach, StartStale,
       StartUnfiled, StatusExited, DestroyGroup, DestroyPid, Drop, StaleRemove, ChooseOwn, ChooseFound,
       ChooseSpawn, Spawn, SpawnShort, SpawnError, FileCreate, FileWrite, DestroyWait, PollGone,
       PollTimeout, StartError
  <2> QED  BY <2>2
<1>3. IInv /\ NoneAdrift => OneProcess
  BY DEF IInv, AtMostOneProcess, OneProcess
<1> HIDE DEF NoneAdrift
<1> QED  BY <1>1, <1>2, <1>3, Inductive, PTL DEF Spec

----------------------------------------------------------------------------
(* The provider implements FxEffect.                                       *)

\* The only process of an effect, if it has one, is the one spawned last, and it
\* is the one whose pid file a start writes.
LastOK ==
    \A c \in Cmds :
        /\ last[c] # None => /\ cmdOf[last[c]] = c /\ last[c] \notin adrift
                             /\ proc[last[c]] # "unused"
        /\ ~nice[c] => \A p \in Pids : Tracked(c, p) => p = last[c]
        /\ dir[c] /\ ~nice[c] /\ pc[c] \in Writing => st[c] = last[c]

\* Most steps start no process and lose none, and write the pid file of the
\* process they wrote it of before.
LEMMA LastCalm ==
  ASSUME IInv, IInv', LastOK, UNCHANGED <<nice, dir, cmdOf, adrift, last>>,
         \A p \in Pids : Live(p)' => Live(p), \A p \in Pids : proc[p] # "unused" => proc'[p] # "unused",
         \A c \in Cmds : pc'[c] \in Writing => pc[c] \in Writing /\ st'[c] = st[c]
  PROVE  LastOK'
  BY DEF IInv, TypeOK, LastOK

LEMMA LastSpawn == ASSUME IInv, IInv', LastOK, NEW c \in Cmds, Spawn(c) \/ SpawnShort(c)  PROVE LastOK'
<1>1. ASSUME NEW p \in Pids, Fresh(p), cmdOf' = [cmdOf EXCEPT ![p] = c], last' = [last EXCEPT ![c] = p],
             pc[c] = "spawn", UNCHANGED <<nice, dir, adrift>>,
             \A q \in Pids \ {p} : proc'[q] = proc[q], proc'[p] # "unused",
             \A d \in Cmds \ {c} : pc'[d] = pc[d] /\ st'[d] = st[d],
             pc'[c] \in Writing => st'[c] = p
      PROVE  LastOK'
  <2>1. ~nice[c] => \A q \in Pids : ~Tracked(c, q)
    BY <1>1 DEF IInv, StartOK
  <2>2. p \notin adrift /\ \A d \in Cmds : last[d] # p
    BY <1>1 DEF IInv, TypeOK, ProcOK, LastOK
  <2>3. last'[c] = p /\ cmdOf'[p] = c /\ \A q \in Pids \ {p} : cmdOf'[q] = cmdOf[q]
    BY <1>1 DEF IInv, TypeOK
  <2>4. \A d \in Cmds \ {c} : last'[d] = last[d]
    BY <1>1 DEF IInv, TypeOK
  <2> QED  BY <1>1, <2>1, <2>2, <2>3, <2>4 DEF IInv, TypeOK, LastOK
<1>2. CASE Spawn(c)
  <2> PICK p \in Pids :
           /\ Fresh(p) /\ cmdOf' = [cmdOf EXCEPT ![p] = c] /\ st' = [st EXCEPT ![c] = p]
           /\ last' = [last EXCEPT ![c] = p]
           /\ proc' = [proc EXCEPT ![p] = IF nice[c] THEN "wrapper" ELSE "command"]
           /\ \E l \in {"record", "idle"} : pc' = [pc EXCEPT ![c] = l]
    BY <1>2 DEF Spawn
  <2>1. UNCHANGED <<nice, dir, adrift>> /\ pc[c] = "spawn"
    BY <1>2 DEF Spawn
  <2>2. /\ \A q \in Pids \ {p} : proc'[q] = proc[q]
        /\ proc'[p] # "unused"
        /\ \A d \in Cmds \ {c} : pc'[d] = pc[d] /\ st'[d] = st[d]
        /\ pc'[c] \in Writing => st'[c] = p
    BY DEF IInv, TypeOK
  <2> QED  BY <1>1, <2>1, <2>2
<1>3. CASE SpawnShort(c)
  <2> PICK p \in Pids :
           /\ Fresh(p) /\ cmdOf' = [cmdOf EXCEPT ![p] = c]
           /\ last' = [last EXCEPT ![c] = p]
           /\ proc' = [proc EXCEPT ![p] = "gone"]
    BY <1>3 DEF SpawnShort
  <2>1. /\ UNCHANGED <<nice, dir, adrift>> /\ pc[c] = "spawn"
        /\ st' = [st EXCEPT ![c] = None] /\ pc' = [pc EXCEPT ![c] = "idle"]
    BY <1>3 DEF SpawnShort
  <2>2. /\ \A q \in Pids \ {p} : proc'[q] = proc[q]
        /\ proc'[p] # "unused"
        /\ \A d \in Cmds \ {c} : pc'[d] = pc[d] /\ st'[d] = st[d]
        /\ pc'[c] \in Writing => st'[c] = p
    BY <2>1 DEF IInv, TypeOK
  <2> QED  BY <1>1, <2>1, <2>2
<1> QED  BY <1>2, <1>3

LEMMA LastForget == ASSUME IInv, IInv', LastOK, Forget  PROVE LastOK'
  BY DEF Forget, IInv, TypeOK, ProcOK, LastOK

LEMMA LastStep == ASSUME IInv, IInv', LastOK, [Next]_vars  PROVE LastOK'
<1>1. CASE \E p \in Pids : System(p)
  <2> PICK p \in Pids : System(p)  BY <1>1
  <2>1. CASE Exec(p)  BY <2>1, LastCalm DEF Exec, IInv, TypeOK
  <2>2. CASE Exit(p)  BY <2>2, LastCalm DEF Exit, IInv, TypeOK
  <2>3. CASE Reap(p)  BY <2>3, LastCalm DEF Reap, IInv, TypeOK
  <2>4. CASE ReusePid(p)  BY <2>4, LastCalm DEF ReusePid, IInv, TypeOK
  <2> QED  BY <2>1, <2>2, <2>3, <2>4 DEF System
<1>2. ASSUME NEW c \in Cmds, Call(c) \/ Step(c) \/ StartError(c)
      PROVE  LastOK'
  <2>1. CASE StartReattach(c)  BY <2>1, LastCalm DEF StartReattach, IInv, TypeOK
  <2>2. CASE StartStale(c)  BY <2>2, LastCalm DEF StartStale, IInv, TypeOK
  <2>3. CASE StartUnfiled(c)  BY <2>3, LastCalm DEF StartUnfiled, IInv, TypeOK
  <2>4. CASE StatusExited(c)  BY <2>4, LastCalm DEF StatusExited, IInv, TypeOK
  <2>5. CASE DestroyGroup(c)  BY <2>5, LastCalm DEF DestroyGroup, IInv, TypeOK
  <2>6. CASE DestroyPid(c)  BY <2>6, LastCalm DEF DestroyPid, IInv, TypeOK
  <2>7. CASE Drop(c)  BY <2>7, LastCalm DEF Drop, IInv, TypeOK
  <2>8. CASE StaleRemove(c)  BY <2>8, LastCalm DEF StaleRemove, IInv, TypeOK
  <2>9. CASE ChooseFound(c)  BY <2>9, LastCalm DEF ChooseFound, IInv, TypeOK
  <2>10. CASE ChooseSpawn(c)  BY <2>10, LastCalm DEF ChooseSpawn, IInv, TypeOK
  <2>11. CASE SpawnError(c)  BY <2>11, LastCalm DEF SpawnError, IInv, TypeOK
  <2>12. CASE FileCreate(c)  BY <2>12, LastCalm DEF FileCreate, IInv, TypeOK
  <2>13. CASE FileWrite(c)  BY <2>13, LastCalm DEF FileWrite, IInv, TypeOK
  <2>14. CASE DestroyWait(c)  BY <2>14, LastCalm DEF DestroyWait, IInv, TypeOK
  <2>15. CASE PollGone(c)  BY <2>15, LastCalm DEF PollGone, IInv, TypeOK
  <2>16. CASE PollTimeout(c)  BY <2>16, LastCalm DEF PollTimeout, IInv, TypeOK
  <2>17. CASE StartError(c)  BY <2>17, LastCalm DEF StartError, IInv, TypeOK
  <2>18. CASE ChooseOwn(c)
    BY <2>18 DEF ChooseOwn, IInv, TypeOK, DirOK, LastOK
  <2>19. CASE Spawn(c) \/ SpawnShort(c)
    BY <2>19, LastSpawn
  <2> QED  BY <1>2, <2>1, <2>2, <2>3, <2>4, <2>5, <2>6, <2>7, <2>8, <2>9, <2>10, <2>11, <2>12, <2>13, <2>14, <2>15, <2>16, <2>17, <2>18, <2>19 DEF Call, Step
<1>3. CASE UNCHANGED vars
  BY <1>3, LastCalm DEF vars
<1> QED  BY <1>1, <1>2, <1>3, LastForget DEF Next, Crash

\* The abstract steps that most calls are: nothing or the end of the process
\* while the handle stays, and the beginning of a call or the drop of the handle.
LEMMA EffectSame ==
  ASSUME NEW d \in Cmds, last'[d] = last[d], hpid'[d] = hpid[d], ended'[d] = ended[d],
         Live(last[d])' => Live(last[d])
  PROVE  Effect(d)!Next \/ UNCHANGED Effect(d)!vars
<1>1. CASE last[d] # None /\ Live(last[d]) /\ ~Live(last[d])'
  BY <1>1 DEF Effect!Next, Effect!End
<1>2. CASE ~(last[d] # None /\ Live(last[d]) /\ ~Live(last[d])')
  BY <1>2 DEF Effect!vars
<1> QED  BY <1>1, <1>2

LEMMA EffectCall ==
  ASSUME NEW d \in Cmds, last'[d] = last[d], hpid'[d] \in {hpid[d], None}, ~ended'[d], UNCHANGED proc
  PROVE  Effect(d)!Next
  BY DEF Effect!Next, Effect!Call

LEMMA EffectAttach ==
  ASSUME NEW d \in Cmds, last[d] # None, last'[d] = last[d], hpid'[d] = last[d], ~ended'[d], UNCHANGED proc
  PROVE  Effect(d)!Next
  BY DEF Effect!Next, Effect!Attach

\* A call on another effect, which may spawn, but not the process spawned last.
LEMMA EffectOther ==
  ASSUME IInv, IInv', LastOK, NEW c \in Cmds, NEW d \in Cmds \ {c}, Call(c) \/ Step(c) \/ StartError(c)
  PROVE  Effect(d)!Next \/ UNCHANGED Effect(d)!vars
<1>1. hpid'[d] = hpid[d] /\ ended'[d] = ended[d]
  <2>1. CASE StartReattach(c)  BY <2>1 DEF StartReattach, IInv, TypeOK
  <2>2. CASE StartStale(c)  BY <2>2 DEF StartStale, IInv, TypeOK
  <2>3. CASE StartUnfiled(c)  BY <2>3 DEF StartUnfiled, IInv, TypeOK
  <2>4. CASE StatusExited(c)  BY <2>4 DEF StatusExited, IInv, TypeOK
  <2>5. CASE DestroyGroup(c)  BY <2>5 DEF DestroyGroup, IInv, TypeOK
  <2>6. CASE DestroyPid(c)  BY <2>6 DEF DestroyPid, IInv, TypeOK
  <2>7. CASE Drop(c)  BY <2>7 DEF Drop, IInv, TypeOK
  <2>8. CASE StaleRemove(c)  BY <2>8 DEF StaleRemove, IInv, TypeOK
  <2>9. CASE ChooseOwn(c)  BY <2>9 DEF ChooseOwn, IInv, TypeOK
  <2>10. CASE ChooseFound(c)  BY <2>10 DEF ChooseFound, IInv, TypeOK
  <2>11. CASE ChooseSpawn(c)  BY <2>11 DEF ChooseSpawn, IInv, TypeOK
  <2>12. CASE Spawn(c)  BY <2>12 DEF Spawn, IInv, TypeOK
  <2>13. CASE SpawnShort(c)  BY <2>13 DEF SpawnShort, IInv, TypeOK
  <2>14. CASE SpawnError(c)  BY <2>14 DEF SpawnError, IInv, TypeOK
  <2>15. CASE FileCreate(c)  BY <2>15 DEF FileCreate, IInv, TypeOK
  <2>16. CASE FileWrite(c)  BY <2>16 DEF FileWrite, IInv, TypeOK
  <2>17. CASE DestroyWait(c)  BY <2>17 DEF DestroyWait, IInv, TypeOK
  <2>18. CASE PollGone(c)  BY <2>18 DEF PollGone, IInv, TypeOK
  <2>19. CASE PollTimeout(c)  BY <2>19 DEF PollTimeout, IInv, TypeOK
  <2>20. CASE StartError(c)  BY <2>20 DEF StartError, IInv, TypeOK
  <2> QED  BY <2>1, <2>2, <2>3, <2>4, <2>5, <2>6, <2>7, <2>8, <2>9, <2>10, <2>11, <2>12, <2>13, <2>14, <2>15, <2>16, <2>17, <2>18, <2>19, <2>20 DEF Call, Step
<1>2. last'[d] = last[d] /\ (last[d] # None => (Live(last[d])' => Live(last[d])))
  <2>1. CASE StartReattach(c)  BY <2>1 DEF StartReattach
  <2>2. CASE StartStale(c)  BY <2>2 DEF StartStale
  <2>3. CASE StartUnfiled(c)  BY <2>3 DEF StartUnfiled
  <2>4. CASE DestroyGroup(c)  BY <2>4 DEF DestroyGroup
  <2>5. CASE DestroyPid(c)  BY <2>5 DEF DestroyPid
  <2>6. CASE Drop(c)  BY <2>6 DEF Drop
  <2>7. CASE StaleRemove(c)  BY <2>7 DEF StaleRemove
  <2>8. CASE ChooseOwn(c)  BY <2>8 DEF ChooseOwn
  <2>9. CASE ChooseFound(c)  BY <2>9 DEF ChooseFound
  <2>10. CASE ChooseSpawn(c)  BY <2>10 DEF ChooseSpawn
  <2>11. CASE SpawnError(c)  BY <2>11 DEF SpawnError
  <2>12. CASE FileCreate(c)  BY <2>12 DEF FileCreate
  <2>13. CASE FileWrite(c)  BY <2>13 DEF FileWrite
  <2>14. CASE PollGone(c)  BY <2>14 DEF PollGone
  <2>15. CASE PollTimeout(c)  BY <2>15 DEF PollTimeout
  <2>16. CASE StartError(c)  BY <2>16 DEF StartError
  <2>17. CASE StatusExited(c)  BY <2>17 DEF StatusExited, IInv, TypeOK
  <2>18. CASE DestroyWait(c)  BY <2>18 DEF DestroyWait, IInv, TypeOK, CallOK
  <2>19. CASE Spawn(c)  BY <2>19 DEF Spawn, IInv, TypeOK, LastOK
  <2>20. CASE SpawnShort(c)  BY <2>20 DEF SpawnShort, IInv, TypeOK, LastOK
  <2> QED  BY <2>1, <2>2, <2>3, <2>4, <2>5, <2>6, <2>7, <2>8, <2>9, <2>10, <2>11, <2>12, <2>13, <2>14, <2>15, <2>16, <2>17, <2>18, <2>19, <2>20 DEF Call, Step
<1>3. CASE last[d] # None  BY <1>1, <1>2, <1>3, EffectSame
<1>4. CASE last[d] = None  BY <1>1, <1>2, <1>4 DEF Effect!vars
<1> QED  BY <1>3, <1>4

\* A call on the effect itself.
LEMMA EffectOwn ==
  ASSUME IInv, IInv', LastOK, NEW d \in Cmds, dir[d], ~nice[d], Call(d) \/ Step(d) \/ StartError(d)
  PROVE  Effect(d)!Next \/ UNCHANGED Effect(d)!vars
<1>1. CASE StartReattach(d)
  <2>1. file[d] = last[d] /\ file[d] # None
    BY <1>1 DEF StartReattach, IInv, TypeOK, DirOK, LastOK
  <2>2. last'[d] = last[d] /\ hpid'[d] = last[d] /\ ~ended'[d] /\ UNCHANGED proc
    BY <1>1, <2>1 DEF StartReattach, IInv, TypeOK
  <2> QED  BY <2>1, <2>2, EffectAttach
<1>2. CASE FileWrite(d)
  <2>1. st[d] = last[d] /\ st[d] # None
    BY <1>2 DEF FileWrite, IInv, TypeOK, LastOK
  <2>2. last'[d] = last[d] /\ hpid'[d] = last[d] /\ UNCHANGED proc
    BY <1>2, <2>1 DEF FileWrite, IInv, TypeOK
  <2>3. ~ended'[d]
    BY <1>2 DEF FileWrite, IInv, CallOK
  <2> QED  BY <2>1, <2>2, <2>3, EffectAttach
<1>3. CASE StartStale(d) \/ StartUnfiled(d) \/ DestroyGroup(d) \/ DestroyPid(d) \/ Drop(d) \/ StartError(d)
  <2>1. hpid'[d] \in {hpid[d], None} /\ last'[d] = last[d] /\ UNCHANGED proc
    BY <1>3 DEF StartStale, StartUnfiled, DestroyGroup, DestroyPid, Drop, StartError, IInv, TypeOK
  <2>2. ~ended'[d]
    BY <1>3 DEF StartStale, StartUnfiled, DestroyGroup, DestroyPid, Drop, StartError, IInv, TypeOK
  <2> QED  BY <2>1, <2>2, EffectCall
<1>4. CASE StaleRemove(d) \/ ChooseOwn(d) \/ ChooseSpawn(d) \/ SpawnError(d) \/ FileCreate(d) \/ PollTimeout(d)
  <2>1. hpid'[d] = hpid[d] /\ ended'[d] = ended[d] /\ last'[d] = last[d] /\ UNCHANGED proc
    BY <1>4 DEF StaleRemove, ChooseOwn, ChooseSpawn, SpawnError, FileCreate, PollTimeout
  <2> QED  BY <2>1, EffectSame
<1>5. CASE StatusExited(d)
  <2>1. hpid'[d] = hpid[d] /\ ended'[d] = ended[d] /\ last'[d] = last[d]
    BY <1>5 DEF StatusExited
  <2>2. \A p \in Pids : Live(p)' => Live(p)
    BY <1>5 DEF StatusExited, IInv, TypeOK
  <2>3. CASE last[d] # None  BY <2>1, <2>2, <2>3, EffectSame DEF IInv, TypeOK
  <2>4. CASE last[d] = None  BY <2>1, <2>4 DEF Effect!vars
  <2> QED  BY <2>3, <2>4
<1>6. CASE ChooseFound(d)
  BY <1>6 DEF ChooseFound
<1>7. CASE Spawn(d) \/ SpawnShort(d)
  <2>1. ~(last[d] # None /\ Live(last[d]))
    BY <1>7 DEF Spawn, SpawnShort, IInv, TypeOK, StartOK, LastOK
  <2>2. last'[d] \in Pids \ {last[d]}
    <3>1. CASE Spawn(d)
      BY <3>1 DEF Spawn, IInv, TypeOK, LastOK
    <3>2. CASE SpawnShort(d)
      BY <3>2 DEF SpawnShort, IInv, TypeOK, LastOK
    <3> QED  BY <1>7, <3>1, <3>2
  <2>3. hpid'[d] = hpid[d] /\ ended'[d] = ended[d]
    BY <1>7 DEF Spawn, SpawnShort
  <2>4. (last[d] # None /\ Live(last[d]))' \in BOOLEAN
    BY Zenon
  <2>5. Effect(d)!Spawn
    BY <2>1, <2>2, <2>3, <2>4 DEF Effect!Spawn
  <2> QED  BY <2>5 DEF Effect!Next
<1>8. CASE DestroyWait(d) \/ PollGone(d)
  <2>1. /\ hpid'[d] = hpid[d] /\ last'[d] = last[d] /\ ended'[d] = TRUE
        /\ \A p \in Pids : Live(p)' <=> Live(p)
    <3>1. CASE DestroyWait(d)
      BY <3>1 DEF DestroyWait, IInv, TypeOK
    <3>2. CASE PollGone(d)
      BY <3>2 DEF PollGone, IInv, TypeOK
    <3> QED  BY <1>8, <3>1, <3>2
  <2>2. hpid[d] # None /\ hpid[d] \in Pids
    BY <1>8 DEF DestroyWait, PollGone, IInv, TypeOK
  <2>3. ~Live(hpid[d])
    BY <2>1, <2>2 DEF IInv, DestroyedIsGone
  <2>4. (last[d] # None /\ Live(last[d]))' <=> (last[d] # None /\ Live(last[d]))
    BY <2>1 DEF IInv, TypeOK
  <2>5. Effect(d)!Destroyed
    BY <2>1, <2>2, <2>3, <2>4 DEF Effect!Destroyed
  <2> QED  BY <2>5 DEF Effect!Next
<1> QED  BY <1>1, <1>2, <1>3, <1>4, <1>5, <1>6, <1>7, <1>8 DEF Call, Step

\* The holder of the values crashes; a process may be lost.
LEMMA EffectForget ==
  ASSUME IInv, LastOK, NEW d \in Cmds, Forget
  PROVE  Effect(d)!Next
<1>1. hpid'[d] = None /\ ~ended'[d] /\ UNCHANGED proc
  BY DEF Forget
<1>2. CASE last[d] \in adrift'
  <2>1. last[d] # None /\ Live(last[d]) /\ last'[d] = None
    BY <1>2 DEF Forget, IInv, TypeOK, LastOK
  <2> QED  BY <1>1, <2>1 DEF Effect!Next, Effect!Lose
<1>3. CASE last[d] \notin adrift'
  <2>1. last'[d] = last[d]
    BY <1>3 DEF Forget
  <2> QED  BY <1>1, <2>1, EffectCall
<1> QED  BY <1>2, <1>3

\* The operating system: a process ends, or changes nothing that matters.
LEMMA EffectSystem ==
  ASSUME IInv, NEW d \in Cmds, NEW p \in Pids, System(p)
  PROVE  Effect(d)!Next \/ UNCHANGED Effect(d)!vars
<1>1. hpid'[d] = hpid[d] /\ ended'[d] = ended[d] /\ last'[d] = last[d]
  BY DEF System, Exec, Exit, Reap, ReusePid
<1>2. \A q \in Pids : Live(q)' => Live(q)
  BY DEF System, Exec, Exit, Reap, ReusePid, IInv, TypeOK
<1>3. CASE last[d] # None  BY <1>1, <1>2, <1>3, EffectSame DEF IInv, TypeOK
<1>4. CASE last[d] = None  BY <1>1, <1>4 DEF Effect!vars
<1> QED  BY <1>3, <1>4

\* Every step of the provider is a step of the life cycle.
LEMMA EffectStep ==
  ASSUME IInv, IInv', LastOK, NEW d \in Cmds, dir[d], ~nice[d], Next
  PROVE  Effect(d)!Next \/ UNCHANGED Effect(d)!vars
<1>1. CASE \E p \in Pids : System(p)  BY <1>1, EffectSystem
<1>2. ASSUME NEW c \in Cmds, Call(c) \/ Step(c) \/ StartError(c)
      PROVE  Effect(d)!Next \/ UNCHANGED Effect(d)!vars
  BY <1>2, EffectOwn, EffectOther
<1>3. CASE Crash  BY <1>3, EffectForget DEF Crash
<1> QED  BY <1>1, <1>2, <1>3 DEF Next

LEMMA EffectInit == ASSUME Init, NEW d \in Cmds  PROVE Effect(d)!Init
  BY DEF Init, Effect!Init

\* An effect with a pid directory and no wrapper has the life cycle of FxEffect.
\* The map is the identity on handles; the instance that runs is the process
\* spawned last, if it lives.
THEOREM LifeCycleHolds == Spec => LifeCycle
<1>1. Init => LastOK /\ \A c \in Cmds : Effect(c)!Init
  <2>1. Init => LastOK  BY DEF Init, LastOK
  <2> QED  BY <2>1, EffectInit
<1>2. IInv /\ IInv' /\ LastOK /\ [Next]_vars => LastOK'
  BY LastStep
<1>3. IInv /\ IInv' /\ LastOK /\ [Next]_vars =>
        [\A c \in Cmds : dir[c] /\ ~nice[c] => Effect(c)!Next \/ UNCHANGED Effect(c)!vars]_vars
  BY EffectStep
<1> QED  BY <1>1, <1>2, <1>3, Inductive, PTL DEF Spec, LifeCycle

=============================================================================
