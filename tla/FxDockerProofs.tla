--------------------------- MODULE FxDockerProofs ---------------------------
(***************************************************************************)
(* What holds of FxDocker for every number of containers and abandoned     *)
(* commands.  Where a call is tells what it has made sure of: these facts, *)
(* with the types, are the inductive invariant.                            *)
(***************************************************************************)
EXTENDS FxDocker, FiniteSetTheorems, TLAPS

\* A destroy has a handle, and removes the container when its monitor is gone.
DestroyInv ==
    /\ pc \in {"status", "record", "stop", "tell", "join", "rm"} => hid # None
    /\ pc = "rm" => mon = "none"
    /\ ended => pc = "idle" /\ hid # None

\* What a start knows of the container, unless it was replaced meanwhile.
StartInv ==
    /\ pc \in {"exists", "create", "look", "start", "see", "give"} => op = "start"
    /\ pc \in {"idle", "status", "record", "stop", "tell", "join", "rm"} => op = "none"
    /\ op = "start" /\ Up(run) => ran # "no"
    /\ fresh => pc \in {"look", "start", "see", "give"}
    /\ pc \in {"look", "start", "see", "give"} /\ ran # "replaced" =>
         cont # None /\ (fresh => maker = "self")
    /\ pc \in {"see", "give"} => ran # "no"
    /\ pc = "give" /\ ran # "replaced" => seen.id = cont

IInv == TypeOK /\ DestroyInv /\ StartInv /\ DestroyedIsGone

----------------------------------------------------------------------------
USE DockerAssumption DEF Ids, None, Nothing, Commands, Up, Note, Goto, Return, Quiet, Calm, Begin,
    daemonVars, callVars, handleVars, monVars

LEMMA InitStep == Init => IInv
<1>1. Init => FlagsOK  BY Zenon DEF Init, FlagsOK
<1> QED  BY <1>1 DEF Init, IInv, TypeOK, DestroyInv, StartInv, DestroyedIsGone

LEMMA Stutter == ASSUME IInv, UNCHANGED vars  PROVE IInv'
  BY DEF vars, IInv, TypeOK, FlagsOK, DestroyInv, StartInv, DestroyedIsGone

\* Whatever happens to the container without the provider.
LEMMA EnvironmentStep == ASSUME IInv, Environment \/ LateCommand  PROVE IInv'
<1>1. CASE Ends /\ UNCHANGED <<needs, late, pc, callVars, handleVars, monVars, cancel>>
  <2>1. FlagsOK'
    BY <1>1, Zenon DEF Ends, SetRun, IInv, TypeOK, FlagsOK
  <2>2. TypeOK'
    BY <1>1, <2>1 DEF Ends, SetRun, IInv, TypeOK, StartInv
  <2>3. (DestroyInv /\ DestroyedIsGone)'
    BY <1>1 DEF Ends, SetRun, IInv, TypeOK, DestroyInv, StartInv, DestroyedIsGone
  <2>4. StartInv'
    BY <1>1 DEF Ends, SetRun, IInv, TypeOK, DestroyInv, StartInv
  <2> QED  BY <2>2, <2>3, <2>4 DEF IInv
<1>2. CASE OtherUse /\ UNCHANGED <<needs, late, pc, callVars, handleVars, monVars, cancel>>
  <2>1. FlagsOK'
    BY <1>2, Zenon DEF OtherUse, SetRun, Create, Remove, IInv, TypeOK, FlagsOK
  <2>2. TypeOK'
    BY <1>2, <2>1 DEF OtherUse, SetRun, Create, Remove, IInv, TypeOK, StartInv
  <2>3. (DestroyInv /\ DestroyedIsGone)'
    BY <1>2 DEF OtherUse, SetRun, Create, Remove, IInv, TypeOK, DestroyInv, StartInv, DestroyedIsGone
  <2>4. StartInv'
    BY <1>2 DEF OtherUse, SetRun, Create, Remove, IInv, TypeOK, DestroyInv, StartInv
  <2> QED  BY <2>2, <2>3, <2>4 DEF IInv
<1>3. CASE LateCommand
  <2>1. FlagsOK'
    BY <1>3, Zenon DEF LateCommand, Carry, SetRun, Create, Remove, IInv, TypeOK, FlagsOK
  <2>2. TypeOK'
    BY <1>3, <2>1 DEF LateCommand, Carry, SetRun, Create, Remove, IInv, TypeOK, StartInv
  <2>3. (DestroyInv /\ DestroyedIsGone)'
    BY <1>3 DEF LateCommand, Carry, SetRun, Create, Remove, IInv, TypeOK, DestroyInv, StartInv, DestroyedIsGone
  <2>4. StartInv'
    BY <1>3 DEF LateCommand, Carry, SetRun, Create, Remove, IInv, TypeOK, DestroyInv, StartInv
  <2> QED  BY <2>2, <2>3, <2>4 DEF IInv
<1> QED  BY <1>1, <1>2, <1>3 DEF Environment, LateCommand

\* A call begins, or the handle is dropped.
LEMMA CallStep == ASSUME IInv, Call  PROVE IInv'
<1>1. CASE Allocate
  <2>1. FlagsOK'
    BY <1>1, Zenon DEF Allocate, IInv, TypeOK, FlagsOK
  <2>2. TypeOK'
    BY <1>1, <2>1 DEF Allocate, IInv, TypeOK, StartInv
  <2>3. (DestroyInv /\ DestroyedIsGone)'
    BY <1>1 DEF Allocate, IInv, TypeOK, DestroyInv, StartInv, DestroyedIsGone
  <2>4. StartInv'
    BY <1>1 DEF Allocate, IInv, TypeOK, DestroyInv, StartInv
  <2> QED  BY <2>2, <2>3, <2>4 DEF IInv
<1>2. CASE Start
  <2>1. FlagsOK'
    BY <1>2, Zenon DEF Start, IInv, TypeOK, FlagsOK
  <2>2. TypeOK'
    BY <1>2, <2>1 DEF Start, IInv, TypeOK, StartInv
  <2>3. (DestroyInv /\ DestroyedIsGone)'
    BY <1>2 DEF Start, IInv, TypeOK, DestroyInv, StartInv, DestroyedIsGone
  <2>4. StartInv'
    BY <1>2 DEF Start, IInv, TypeOK, DestroyInv, StartInv
  <2> QED  BY <2>2, <2>3, <2>4 DEF IInv
<1>3. CASE Status
  <2>1. FlagsOK'
    BY <1>3, Zenon DEF Status, IInv, TypeOK, FlagsOK
  <2>2. TypeOK'
    BY <1>3, <2>1 DEF Status, IInv, TypeOK, StartInv
  <2>3. (DestroyInv /\ DestroyedIsGone)'
    BY <1>3 DEF Status, IInv, TypeOK, DestroyInv, StartInv, DestroyedIsGone
  <2>4. StartInv'
    BY <1>3 DEF Status, IInv, TypeOK, DestroyInv, StartInv
  <2> QED  BY <2>2, <2>3, <2>4 DEF IInv
<1>4. CASE Stop
  <2>1. FlagsOK'
    BY <1>4, Zenon DEF Stop, IInv, TypeOK, FlagsOK
  <2>2. TypeOK'
    BY <1>4, <2>1 DEF Stop, IInv, TypeOK, StartInv
  <2>3. (DestroyInv /\ DestroyedIsGone)'
    BY <1>4 DEF Stop, IInv, TypeOK, DestroyInv, StartInv, DestroyedIsGone
  <2>4. StartInv'
    BY <1>4 DEF Stop, IInv, TypeOK, DestroyInv, StartInv
  <2> QED  BY <2>2, <2>3, <2>4 DEF IInv
<1>5. CASE Destroy
  <2>1. FlagsOK'
    BY <1>5, Zenon DEF Destroy, IInv, TypeOK, FlagsOK
  <2>2. TypeOK'
    BY <1>5, <2>1 DEF Destroy, IInv, TypeOK, StartInv
  <2>3. (DestroyInv /\ DestroyedIsGone)'
    BY <1>5 DEF Destroy, IInv, TypeOK, DestroyInv, StartInv, DestroyedIsGone
  <2>4. StartInv'
    BY <1>5 DEF Destroy, IInv, TypeOK, DestroyInv, StartInv
  <2> QED  BY <2>2, <2>3, <2>4 DEF IInv
<1>6. CASE Drop
  <2>1. FlagsOK'
    BY <1>6, Zenon DEF Drop, IInv, TypeOK, FlagsOK
  <2>2. TypeOK'
    BY <1>6, <2>1 DEF Drop, IInv, TypeOK, StartInv
  <2>3. (DestroyInv /\ DestroyedIsGone)'
    BY <1>6 DEF Drop, IInv, TypeOK, DestroyInv, StartInv, DestroyedIsGone
  <2>4. StartInv'
    BY <1>6 DEF Drop, IInv, TypeOK, DestroyInv, StartInv
  <2> QED  BY <2>2, <2>3, <2>4 DEF IInv
<1> QED  BY <1>1, <1>2, <1>3, <1>4, <1>5, <1>6 DEF Call

\* A call goes on.
LEMMA StepStep == ASSUME IInv, Step  PROVE IInv'
<1>1. CASE Ensure
  <2>1. FlagsOK'
    BY <1>1, Zenon DEF Ensure, AfterEnsure, IInv, TypeOK, FlagsOK
  <2>2. TypeOK'
    BY <1>1, <2>1 DEF Ensure, AfterEnsure, IInv, TypeOK, StartInv
  <2>3. (DestroyInv /\ DestroyedIsGone)'
    BY <1>1 DEF Ensure, AfterEnsure, IInv, TypeOK, DestroyInv, StartInv, DestroyedIsGone
  <2>4. StartInv'
    BY <1>1 DEF Ensure, AfterEnsure, IInv, TypeOK, DestroyInv, StartInv
  <2> QED  BY <2>2, <2>3, <2>4 DEF IInv
<1>2. CASE Exists
  <2>1. FlagsOK'
    BY <1>2, Zenon DEF Exists, IInv, TypeOK, FlagsOK
  <2>2. TypeOK'
    BY <1>2, <2>1 DEF Exists, IInv, TypeOK, StartInv
  <2>3. (DestroyInv /\ DestroyedIsGone)'
    BY <1>2 DEF Exists, IInv, TypeOK, DestroyInv, StartInv, DestroyedIsGone
  <2>4. StartInv'
    BY <1>2 DEF Exists, IInv, TypeOK, DestroyInv, StartInv
  <2> QED  BY <2>2, <2>3, <2>4 DEF IInv
<1>3. CASE Look
  <2>1. FlagsOK'
    BY <1>3, Zenon DEF Look, IInv, TypeOK, FlagsOK
  <2>2. TypeOK'
    BY <1>3, <2>1 DEF Look, IInv, TypeOK, StartInv
  <2>3. (DestroyInv /\ DestroyedIsGone)'
    BY <1>3 DEF Look, IInv, TypeOK, DestroyInv, StartInv, DestroyedIsGone
  <2>4. StartInv'
    BY <1>3 DEF Look, IInv, TypeOK, DestroyInv, StartInv
  <2> QED  BY <2>2, <2>3, <2>4 DEF IInv
<1>4. CASE Command
  <2>1. FlagsOK'
    BY <1>4, Zenon DEF Command, AfterCommand, Carry, SetRun, Create, Remove, IInv, TypeOK, FlagsOK
  <2>2. TypeOK'
    BY <1>4, <2>1 DEF Command, AfterCommand, Carry, SetRun, Create, Remove, IInv, TypeOK, StartInv
  <2>3. (DestroyInv /\ DestroyedIsGone)'
    BY <1>4 DEF Command, AfterCommand, Carry, SetRun, Create, Remove, IInv, TypeOK, DestroyInv, StartInv, DestroyedIsGone
  <2>4. StartInv'
    <3>1. CASE pc = "create"
      BY <1>4, <3>1 DEF Command, AfterCommand, Carry, Create, IInv, TypeOK, DestroyInv, StartInv
    <3>2. CASE pc = "start"
      BY <1>4, <3>2 DEF Command, AfterCommand, Carry, SetRun, IInv, TypeOK, DestroyInv, StartInv
    <3>3. CASE pc = "stop"
      BY <1>4, <3>3 DEF Command, AfterCommand, Carry, SetRun, IInv, TypeOK, DestroyInv, StartInv
    <3>4. CASE pc = "rm"
      BY <1>4, <3>4 DEF Command, AfterCommand, Carry, Remove, IInv, TypeOK, DestroyInv, StartInv
    <3> QED  BY <1>4, <3>1, <3>2, <3>3, <3>4 DEF Command
  <2> QED  BY <2>2, <2>3, <2>4 DEF IInv
<1>5. CASE See
  <2>1. FlagsOK'
    BY <1>5, Zenon DEF See, inspect_to_state, IInv, TypeOK, FlagsOK
  <2>2. TypeOK'
    BY <1>5, <2>1 DEF See, inspect_to_state, IInv, TypeOK, StartInv
  <2>3. (DestroyInv /\ DestroyedIsGone)'
    BY <1>5 DEF See, inspect_to_state, IInv, TypeOK, DestroyInv, StartInv, DestroyedIsGone
  <2>4. StartInv'
    BY <1>5 DEF See, inspect_to_state, IInv, TypeOK, DestroyInv, StartInv
  <2> QED  BY <2>2, <2>3, <2>4 DEF IInv
<1>6. CASE Give
  <2>1. FlagsOK'
    BY <1>6, Zenon DEF Give, IInv, TypeOK, FlagsOK
  <2>2. TypeOK'
    BY <1>6, <2>1 DEF Give, IInv, TypeOK, StartInv
  <2>3. (DestroyInv /\ DestroyedIsGone)'
    BY <1>6 DEF Give, IInv, TypeOK, DestroyInv, StartInv, DestroyedIsGone
  <2>4. StartInv'
    BY <1>6 DEF Give, IInv, TypeOK, DestroyInv, StartInv
  <2> QED  BY <2>2, <2>3, <2>4 DEF IInv
<1>7. CASE Record
  <2>1. FlagsOK'
    BY <1>7, Zenon DEF Record, IInv, TypeOK, FlagsOK
  <2>2. TypeOK'
    BY <1>7, <2>1 DEF Record, IInv, TypeOK, DestroyInv
  <2>3. (DestroyInv /\ DestroyedIsGone)'
    BY <1>7 DEF Record, IInv, TypeOK, DestroyInv, StartInv, DestroyedIsGone
  <2>4. StartInv'
    BY <1>7 DEF Record, IInv, TypeOK, DestroyInv, StartInv
  <2> QED  BY <2>2, <2>3, <2>4 DEF IInv
<1>8. CASE Tell
  <2>1. FlagsOK'
    BY <1>8, Zenon DEF Tell, IInv, TypeOK, FlagsOK
  <2>2. TypeOK'
    BY <1>8, <2>1 DEF Tell, IInv, TypeOK, StartInv
  <2>3. (DestroyInv /\ DestroyedIsGone)'
    BY <1>8 DEF Tell, IInv, TypeOK, DestroyInv, StartInv, DestroyedIsGone
  <2>4. StartInv'
    BY <1>8 DEF Tell, IInv, TypeOK, DestroyInv, StartInv
  <2> QED  BY <2>2, <2>3, <2>4 DEF IInv
<1>9. CASE Join
  <2>1. FlagsOK'
    BY <1>9, Zenon DEF Join, IInv, TypeOK, FlagsOK
  <2>2. TypeOK'
    BY <1>9, <2>1 DEF Join, IInv, TypeOK, StartInv
  <2>3. (DestroyInv /\ DestroyedIsGone)'
    BY <1>9 DEF Join, IInv, TypeOK, DestroyInv, StartInv, DestroyedIsGone
  <2>4. StartInv'
    BY <1>9 DEF Join, IInv, TypeOK, DestroyInv, StartInv
  <2> QED  BY <2>2, <2>3, <2>4 DEF IInv
<1>10. CASE Fails
  <2>1. FlagsOK'
    BY <1>10, Zenon DEF Fails, Refused, IInv, TypeOK, FlagsOK
  <2>2. TypeOK'
    <3>1. late' \subseteq Commands
      BY <1>10 DEF Fails, IInv, TypeOK
    <3> QED  BY <1>10, <2>1, <3>1 DEF Fails, IInv, TypeOK, StartInv
  <2>3. (DestroyInv /\ DestroyedIsGone)'
    BY <1>10 DEF Fails, Refused, IInv, TypeOK, DestroyInv, StartInv, DestroyedIsGone
  <2>4. StartInv'
    BY <1>10 DEF Fails, Refused, IInv, TypeOK, DestroyInv, StartInv
  <2> QED  BY <2>2, <2>3, <2>4 DEF IInv
<1> QED  BY <1>1, <1>2, <1>3, <1>4, <1>5, <1>6, <1>7, <1>8, <1>9, <1>10 DEF Step

\* The monitor.
LEMMA MonitorStep == ASSUME IInv, Monitor  PROVE IInv'
<1>1. CASE MonInspect
  <2>1. FlagsOK'
    BY <1>1, Zenon DEF MonInspect, inspect_to_state, IInv, TypeOK, FlagsOK
  <2>2. TypeOK'
    BY <1>1, <2>1 DEF MonInspect, inspect_to_state, IInv, TypeOK, StartInv
  <2>3. (DestroyInv /\ DestroyedIsGone)'
    BY <1>1 DEF MonInspect, inspect_to_state, IInv, TypeOK, DestroyInv, StartInv, DestroyedIsGone
  <2>4. StartInv'
    BY <1>1 DEF MonInspect, inspect_to_state, IInv, TypeOK, DestroyInv, StartInv
  <2> QED  BY <2>2, <2>3, <2>4 DEF IInv
<1>2. CASE MonWrite
  <2>1. FlagsOK'
    BY <1>2, Zenon DEF MonWrite, IInv, TypeOK, FlagsOK
  <2>2. TypeOK'
    BY <1>2, <2>1 DEF MonWrite, IInv, TypeOK, StartInv
  <2>3. (DestroyInv /\ DestroyedIsGone)'
    BY <1>2 DEF MonWrite, IInv, TypeOK, DestroyInv, StartInv, DestroyedIsGone
  <2>4. StartInv'
    BY <1>2 DEF MonWrite, IInv, TypeOK, DestroyInv, StartInv
  <2> QED  BY <2>2, <2>3, <2>4 DEF IInv
<1>3. CASE MonSpawnWait
  <2>1. FlagsOK'
    BY <1>3, Zenon DEF MonSpawnWait, IInv, TypeOK, FlagsOK
  <2>2. TypeOK'
    BY <1>3, <2>1 DEF MonSpawnWait, IInv, TypeOK, StartInv
  <2>3. (DestroyInv /\ DestroyedIsGone)'
    BY <1>3 DEF MonSpawnWait, IInv, TypeOK, DestroyInv, StartInv, DestroyedIsGone
  <2>4. StartInv'
    BY <1>3 DEF MonSpawnWait, IInv, TypeOK, DestroyInv, StartInv
  <2> QED  BY <2>2, <2>3, <2>4 DEF IInv
<1>4. CASE MonWaitReturns
  <2>1. FlagsOK'
    BY <1>4, Zenon DEF MonWaitReturns, IInv, TypeOK, FlagsOK
  <2>2. TypeOK'
    BY <1>4, <2>1 DEF MonWaitReturns, IInv, TypeOK, StartInv
  <2>3. (DestroyInv /\ DestroyedIsGone)'
    BY <1>4 DEF MonWaitReturns, IInv, TypeOK, DestroyInv, StartInv, DestroyedIsGone
  <2>4. StartInv'
    BY <1>4 DEF MonWaitReturns, IInv, TypeOK, DestroyInv, StartInv
  <2> QED  BY <2>2, <2>3, <2>4 DEF IInv
<1>5. CASE MonRetry
  <2>1. FlagsOK'
    BY <1>5, Zenon DEF MonRetry, IInv, TypeOK, FlagsOK
  <2>2. TypeOK'
    BY <1>5, <2>1 DEF MonRetry, IInv, TypeOK, StartInv
  <2>3. (DestroyInv /\ DestroyedIsGone)'
    BY <1>5 DEF MonRetry, IInv, TypeOK, DestroyInv, StartInv, DestroyedIsGone
  <2>4. StartInv'
    BY <1>5 DEF MonRetry, IInv, TypeOK, DestroyInv, StartInv
  <2> QED  BY <2>2, <2>3, <2>4 DEF IInv
<1>6. CASE MonAwake
  <2>1. FlagsOK'
    BY <1>6, Zenon DEF MonAwake, IInv, TypeOK, FlagsOK
  <2>2. TypeOK'
    BY <1>6, <2>1 DEF MonAwake, IInv, TypeOK, StartInv
  <2>3. (DestroyInv /\ DestroyedIsGone)'
    BY <1>6 DEF MonAwake, IInv, TypeOK, DestroyInv, StartInv, DestroyedIsGone
  <2>4. StartInv'
    BY <1>6 DEF MonAwake, IInv, TypeOK, DestroyInv, StartInv
  <2> QED  BY <2>2, <2>3, <2>4 DEF IInv
<1>7. CASE MonCancelled
  <2>1. FlagsOK'
    BY <1>7, Zenon DEF MonCancelled, IInv, TypeOK, FlagsOK
  <2>2. TypeOK'
    BY <1>7, <2>1 DEF MonCancelled, IInv, TypeOK, StartInv
  <2>3. (DestroyInv /\ DestroyedIsGone)'
    BY <1>7 DEF MonCancelled, IInv, TypeOK, DestroyInv, StartInv, DestroyedIsGone
  <2>4. StartInv'
    BY <1>7 DEF MonCancelled, IInv, TypeOK, DestroyInv, StartInv
  <2> QED  BY <2>2, <2>3, <2>4 DEF IInv
<1> QED  BY <1>1, <1>2, <1>3, <1>4, <1>5, <1>6, <1>7 DEF Monitor

\* The invariant is inductive.
LEMMA Inductive == Spec => []IInv
<1>1. IInv /\ [Next]_vars => IInv'
  BY EnvironmentStep, CallStep, StepStep, MonitorStep, Stutter DEF Next
<1> QED  BY InitStep, <1>1, PTL DEF Spec

----------------------------------------------------------------------------
\* The variables have their types, and go together as TypeOK says.
THEOREM TypeCorrect == Spec => []TypeOK
<1>1. IInv => TypeOK  BY DEF IInv
<1> QED  BY <1>1, Inductive, PTL

\* A destroy that returned Ok leaves neither container nor monitor, and only
\* others or an abandoned create bring a container back.
THEOREM DestroyedIsGoneHolds == Spec => []DestroyedIsGone
<1>1. IInv => DestroyedIsGone  BY DEF IInv
<1> QED  BY <1>1, Inductive, PTL

\* A start that returns Ok had the container up, and created it if it says so,
\* unless somebody replaced it on the way.
THEOREM StartTellsTruthHolds == Spec => []StartTellsTruth
<1>1. IInv => StartTellsTruth
  BY DEF IInv, TypeOK, StartInv, StartTellsTruth
<1> QED  BY <1>1, Inductive, PTL

----------------------------------------------------------------------------
(* A container nobody else uses                                            *)

\* The name is the provider's own, and a command it gave up on is not carried
\* out later.
Private == ~Shared /\ (MaxLate = 0 \/ ~CliFails)

\* The container that has the name is the one created last, and a start is not
\* disturbed.
PrivateOK ==
    /\ late = {} /\ cont \in {None, made} /\ maker \in {"none", "self"}
    /\ ran # "replaced"
    /\ ended => cont = None

\* The instances are the containers: one is there from docker create to docker
\* rm, whether or not its process runs.
Container == INSTANCE FxEffect WITH
    Instances <- Ids, None <- 0, last <- made, up <- cont # None,
    handle <- hid, destroyed <- ended

\* What a step does that leaves the container in its place.
LEMMA PrivateCalm ==
  ASSUME PrivateOK, UNCHANGED <<made, cont, maker, late>>, ran' # "replaced", ended' => ended
  PROVE  PrivateOK'
  BY DEF PrivateOK

\* No command is carried out late.
LEMMA PrivateFails ==
  ASSUME Private, IInv, PrivateOK, Fails
  PROVE  PrivateOK' /\ UNCHANGED <<made, cont, hid, ended>>
<1>1. late' = late
  <2>1. CASE MaxLate = 0
    <3>1. {} \cup {pc} = {pc} /\ Cardinality({pc}) = 1
      BY FS_Singleton
    <3>2. late = {}
      BY DEF PrivateOK
    <3>3. late' = late \/ (late' = late \cup {pc} /\ Cardinality(late') <= MaxLate)
      BY DEF Fails
    <3>4. late \cup {pc} = {pc}
      BY <3>1, <3>2
    <3>5. late' = late \cup {pc} => Cardinality(late') = 1
      BY <3>1, <3>4, Zenon
    <3>6. ~(late' = late \cup {pc} /\ Cardinality(late') <= MaxLate)
      BY <2>1, <3>5
    <3> QED  BY <3>3, <3>6
  <2>2. CASE ~CliFails
    BY <2>2 DEF Fails
  <2> QED  BY <2>1, <2>2 DEF Private
<1>2. UNCHANGED <<made, cont, maker, hid, ended>> /\ ran' = "no"
  BY DEF Fails
<1> QED  BY <1>1, <1>2, PrivateCalm

\* A command of a call.
LEMMA PrivateCommand ==
  ASSUME Private, IInv, PrivateOK, Command
  PROVE  PrivateOK' /\ (Container!Next \/ UNCHANGED Container!vars)
<1>1. ~ended /\ late' = late /\ hid' = hid /\ (ended' <=> pc = "rm")
  BY DEF Command, IInv, DestroyInv
<1>2. CASE pc = "create"
  <2>1. /\ cont = None /\ made' = made + 1 /\ cont' = made' /\ maker' = "self" /\ made < MaxCont
        /\ ran' # "replaced"
    BY <1>2 DEF Command, Carry, Create, PrivateOK
  <2>2. PrivateOK'
    BY <1>1, <1>2, <2>1 DEF PrivateOK
  <2>3. made \in Nat /\ made' \in Ids /\ made' # made
    BY <2>1 DEF IInv, TypeOK
  <2>4. UNCHANGED ended
    BY <1>2 DEF Command, IInv, DestroyInv, TypeOK, FlagsOK
  <2> QED  BY <1>1, <2>1, <2>2, <2>3, <2>4 DEF Container!Next, Container!Spawn
<1>3. CASE pc \in {"start", "stop"}
  <2>1. UNCHANGED <<made, cont, maker>> /\ ran' # "replaced"
    BY <1>3 DEF Command, Carry, SetRun, PrivateOK
  <2>2. ended' = ended
    BY <1>1, <1>3 DEF Command, IInv, TypeOK, FlagsOK
  <2> QED  BY <1>1, <2>1, <2>2, PrivateCalm DEF Container!vars
<1>4. CASE pc = "rm"
  <2>1. cont' = None /\ maker' = "none" /\ made' = made /\ ended' /\ hid # None
    BY <1>4 DEF Command, Carry, Remove, IInv, DestroyInv
  <2>2. ran' # "replaced"
    BY <1>4 DEF Command, Carry, Remove, IInv, StartInv, PrivateOK
  <2>3. PrivateOK'
    BY <1>1, <2>1, <2>2 DEF PrivateOK
  <2> QED  BY <1>1, <2>1, <2>3 DEF Container!Next, Container!Destroyed
<1> QED  BY <1>2, <1>3, <1>4 DEF Command

LEMMA PrivateCall ==
  ASSUME IInv, PrivateOK, Call
  PROVE  PrivateOK' /\ (Container!Next \/ UNCHANGED Container!vars)
<1>1. /\ UNCHANGED <<made, cont, maker, late>> /\ hid' \in {hid, None} /\ ~ended'
      /\ ran' # "replaced"
  BY DEF Call, Allocate, Start, Status, Stop, Destroy, Drop, PrivateOK
<1>2. PrivateOK'
  BY <1>1, PrivateCalm
<1> QED  BY <1>1, <1>2 DEF Container!Next, Container!Call

LEMMA PrivateStep ==
  ASSUME Private, IInv, PrivateOK, Step
  PROVE  PrivateOK' /\ (Container!Next \/ UNCHANGED Container!vars)
<1>1. CASE Give
  <2>1. /\ pc = "give" /\ UNCHANGED <<made, cont, maker, late, ended>> /\ ran' = "no"
        /\ hid' = seen.id /\ ~ended
    BY <1>1 DEF Give, IInv, DestroyInv
  <2>2. seen.id = made /\ made # None
    BY <2>1 DEF IInv, StartInv, PrivateOK
  <2>3. PrivateOK'
    BY <2>1, PrivateCalm
  <2> QED  BY <2>1, <2>2, <2>3 DEF Container!Next, Container!Attach
<1>2. CASE Ensure \/ Exists \/ Look \/ See \/ Record \/ Tell \/ Join
  <2>1. UNCHANGED <<made, cont, maker, late, hid, ended>> /\ ran' # "replaced"
    BY <1>2 DEF Ensure, AfterEnsure, Exists, Look, See, Record, Tell, Join, PrivateOK
  <2> QED  BY <2>1, PrivateCalm DEF Container!vars
<1>3. CASE Fails
  BY <1>3, PrivateFails DEF Container!vars
<1> QED  BY <1>1, <1>2, <1>3, PrivateCommand DEF Step

\* The container's process may end, and the monitor only reads.
LEMMA PrivateOthers ==
  ASSUME Private, PrivateOK, Environment \/ LateCommand \/ Monitor \/ UNCHANGED vars
  PROVE  PrivateOK' /\ UNCHANGED Container!vars
<1>1. CASE Environment \/ LateCommand
  <2>1. UNCHANGED <<made, cont, maker, late, hid, ended>> /\ ran' # "replaced"
    BY <1>1 DEF Environment, LateCommand, Ends, SetRun, Private, PrivateOK
  <2> QED  BY <2>1, PrivateCalm DEF Container!vars
<1>2. CASE Monitor \/ UNCHANGED vars
  <2>1. UNCHANGED <<made, cont, maker, late, hid, ended, ran>>
    BY <1>2 DEF Monitor, MonInspect, MonWrite, MonSpawnWait, MonWaitReturns, MonRetry, MonAwake,
       MonCancelled, vars
  <2> QED  BY <2>1, PrivateCalm DEF Container!vars, PrivateOK
<1> QED  BY <1>1, <1>2

\* DestroyedIsGone and StartTellsTruth without their exceptions: no container is
\* left after destroy, and the one a start returns was up in the call.
KeptInPrivate ==
    /\ ended => cont = None
    /\ pc = "give" => ran = "yes" /\ seen.id = cont /\ (fresh => maker = "self")

\* As long as nobody else uses the name, a container has the life cycle that is
\* promised of every effect: a start creates one only when there is none and
\* returns the handle on the one created last, and fx_destroy returns Ok when it
\* is removed.
THEOREM ContainerLifeCycle == ASSUME Private  PROVE Spec => Container!Spec /\ []KeptInPrivate
<1>1. Init => PrivateOK /\ Container!Init
  BY DEF Init, PrivateOK, Container!Init
<1>2. IInv /\ PrivateOK /\ [Next]_vars => PrivateOK' /\ [Container!Next]_(Container!vars)
  BY PrivateCall, PrivateStep, PrivateOthers DEF Next
<1>3. IInv /\ PrivateOK => KeptInPrivate
  BY DEF PrivateOK, KeptInPrivate, IInv, TypeOK, StartInv
<1> QED  BY <1>1, <1>2, <1>3, Inductive, PTL DEF Spec, Container!Spec

=============================================================================
