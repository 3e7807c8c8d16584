------------------------------ MODULE FxDocker ------------------------------
(***************************************************************************)
(* The Docker provider: one FxContainerDocker value, the handle its caller *)
(* has, the monitor task of that handle, and the container of that name in *)
(* the Docker daemon.                                                      *)
(*                                                                         *)
(* Everything is done by running the docker command.  A call is cut        *)
(* between two commands, and between the answer of an inspect and the      *)
(* write of what it says.  A command that is not answered in time is       *)
(* killed, and the daemon may still carry it out.  The name is not         *)
(* reserved: others may create, run, pause and remove the container        *)
(* whenever they like.  Images and networks are shared with all of Docker; *)
(* whether one is there is a choice each time it is asked.                 *)
(***************************************************************************)
EXTENDS Naturals, FiniteSets

CONSTANTS
    Configs,   \* the configurations to look at, see needs
    MaxCont,   \* bound: the containers ever created
    MaxLate,   \* bound: the abandoned commands that may still be carried out
    CliFails,  \* docker commands may fail and may time out
    Shared     \* others use the container's name

ASSUME DockerAssumption ==
    /\ Configs \subseteq SUBSET {"network", "image"}
    /\ {MaxCont, MaxLate} \subseteq Nat /\ {CliFails, Shared} \subseteq BOOLEAN

Ids  == 1 .. MaxCont
None == 0

VARIABLES
    needs,   \* the configured ones of "network" and "image"
    made,    \* the containers created so far
    cont,    \* the container that has the name, or None
    run,     \* its state in the daemon
    late,    \* commands that were given up on and may still be carried out
    pc,      \* where the call is: the command it waits for, or what follows
    op,      \* "allocate" or "start" while one of them makes sure of network and image
    seen,    \* what the call's inspect answered and the call has not yet used
    hid,     \* the container of the handle, None without a handle
    latest,  \* latest_state of the handle
    mon,     \* where the handle's monitor is, "none" when it has ended
    mseen,   \* the state the monitor's inspect answered
    awaited, \* the container the monitor's docker wait is about
    cancel,  \* the monitor is told to end: by a message or by the dropped handle
    maker,   \* history: who created the container
    fresh,   \* this start created the container: created, in its handle
    ran,     \* history: "yes" once the container was up in this start, "replaced"
             \* once it was removed in between
    ended    \* history: the last call was a destroy that returned Ok

daemonVars == <<made, cont, run, maker, ran>>
callVars   == <<op, seen, fresh, ended>>
handleVars == <<hid, latest>>
monVars    == <<mon, mseen, awaited>>
vars == <<needs, daemonVars, late, pc, callVars, handleVars, monVars, cancel>>

Nothing == [id |-> None, st |-> "none"]
Commands == {"create", "start", "stop", "rm"}

Init ==
    /\ needs \in Configs
    /\ made = 0 /\ cont = None /\ run = "none" /\ late = {}
    /\ pc = "idle" /\ op = "none" /\ seen = Nothing
    /\ hid = None /\ latest = "none"
    /\ mon = "none" /\ mseen = "none" /\ awaited = None /\ cancel = FALSE
    /\ maker = "none" /\ fresh = FALSE /\ ran = "no" /\ ended = FALSE

Up(r) == r \in {"running", "paused"}

\* The daemon reports a paused container as running too, and running is tested
\* first.
inspect_to_state(r) ==
    IF Up(r) THEN "running"
    ELSE IF r \in {"created", "exited"} THEN "stopped" ELSE "unknown"

----------------------------------------------------------------------------
(* The daemon                                                              *)

\* history: the container is up, or is removed.
Note ==
    ran' = IF op # "start" THEN ran
           ELSE IF cont # None /\ cont' # cont THEN "replaced"
           ELSE IF ran = "no" /\ Up(run') THEN "yes" ELSE ran

Create(who) ==
    /\ cont = None /\ made < MaxCont
    /\ made' = made + 1 /\ cont' = made + 1 /\ run' = "created" /\ maker' = who
    /\ Note

SetRun(from, to) ==
    /\ run \in from /\ run' = to
    /\ UNCHANGED <<made, cont, maker>>
    /\ Note

Remove ==
    /\ cont' = None /\ run' = "none" /\ maker' = "none"
    /\ Note
    /\ UNCHANGED made

\* What a command of the provider does.  docker start takes a container that
\* runs, and docker stop one that does not, for done.
Carry(command, who) ==
    \/ command = "create" /\ Create(who)
    \/ command = "start" /\ SetRun({"created", "exited", "running"}, "running")
    \/ command = "stop" /\ SetRun({"running", "paused"}, "exited")
    \/ command = "stop" /\ run \in {"created", "exited"} /\ UNCHANGED daemonVars
    \/ command = "rm" /\ Remove

Refused(command) ==
    \/ command = "create" /\ (cont # None \/ made = MaxCont)
    \/ command = "start" /\ run \in {"none", "paused", "dead"}
    \/ command = "stop" /\ run \in {"none", "dead"}
    \/ command \in {"look", "see", "status"} /\ cont = None

LateCommand ==
    /\ \E command \in late : Carry(command, "late") /\ late' = late \ {command}
    /\ UNCHANGED <<needs, pc, callVars, handleVars, monVars, cancel>>

\* The container's process ends, or somebody else uses the name.
Ends == SetRun({"running"}, "exited")
OtherUse ==
    \/ Create("other")
    \/ cont # None /\ Remove
    \/ SetRun({"created", "exited"}, "running")
    \/ SetRun({"running"}, "paused") \/ SetRun({"paused"}, "running")
    \/ SetRun({"created", "exited"}, "dead")
Environment ==
    /\ \/ Ends
       \/ Shared /\ OtherUse
    /\ UNCHANGED <<needs, late, pc, callVars, handleVars, monVars, cancel>>

----------------------------------------------------------------------------
(* The calls                                                               *)

Begin(first) ==
    /\ pc = "idle" /\ pc' = first
    /\ ended' = FALSE
    /\ UNCHANGED <<needs, made, cont, run, maker, late, seen, fresh, handleVars, monVars, cancel>>

Allocate ==
    /\ needs # {}
    /\ Begin(IF "network" \in needs THEN "network" ELSE "image")
    /\ op' = "allocate" /\ UNCHANGED ran

Start ==
    /\ Begin(IF "network" \in needs THEN "network" ELSE "exists")
    /\ op' = "start" /\ ran' = IF Up(run) THEN "yes" ELSE "no"

Status  == hid # None /\ Begin("status") /\ UNCHANGED <<op, ran>>
Stop    == hid # None /\ Begin("stop") /\ UNCHANGED <<op, ran>>
Destroy == hid # None /\ Begin("tell") /\ UNCHANGED <<op, ran>>

Goto(l) == pc' = l /\ UNCHANGED <<op, fresh, ran>>
Return  == pc' = "idle" /\ op' = "none" /\ fresh' = FALSE /\ ran' = "no"
Quiet   == UNCHANGED <<needs, made, cont, run, maker, late, handleVars, monVars, cancel, ended>>

\* ensure_network and ensure_image: it is there, or a command creates it.
AfterEnsure(x) ==
    \/ op = "allocate" /\ x = "network" /\ "image" \in needs /\ Goto("image")
    \/ op = "allocate" /\ (x = "image" \/ "image" \notin needs) /\ Return
    \/ op = "start" /\ Goto(IF x = "network" THEN "exists" ELSE "create")
Ensure ==
    /\ \/ pc = "network" /\ (Goto("mknetwork") \/ AfterEnsure("network"))
       \/ pc = "mknetwork" /\ AfterEnsure("network")
       \/ pc = "image" /\ (Goto("pull") \/ AfterEnsure("image"))
       \/ pc = "pull" /\ AfterEnsure("image")
    /\ Quiet /\ UNCHANGED seen

\* container_exists; one that is missing is only created with an image.
Exists ==
    /\ pc = "exists"
    /\ \/ cont # None /\ Goto("look")
       \/ cont = None /\ "image" \in needs /\ Goto("image")
       \/ cont = None /\ "image" \notin needs /\ Return
    /\ Quiet /\ UNCHANGED seen

LookExited ==
    /\ pc = "look" /\ cont # None
    /\ Goto(IF run = "exited" THEN "start" ELSE "see")
    /\ Quiet /\ UNCHANGED seen

Look ==
    /\ pc = "look" /\ cont # None
    /\ Goto(IF Up(run) THEN "see" ELSE "start")
    /\ Quiet /\ UNCHANGED seen

AfterCommand == IF pc = "create" THEN "look" ELSE IF pc = "start" THEN "see" ELSE "idle"

\* docker create, start, stop and rm --force, answered with success.
Command ==
    /\ pc \in Commands /\ Carry(pc, "self")
    /\ pc' = AfterCommand
    /\ fresh' = (fresh \/ pc = "create")
    /\ ended' = (pc = "rm")
    /\ UNCHANGED <<needs, late, op, seen, handleVars, monVars, cancel>>

\* The inspects of fx_start, for the handle, and of fx_status.
See ==
    /\ pc \in {"see", "status"} /\ cont # None
    /\ seen' = [id |-> cont, st |-> inspect_to_state(run)]
    /\ Goto(IF pc = "see" THEN "give" ELSE "record")
    /\ Quiet

\* monitor_handle.  The caller drops the handle it had before; the monitor of
\* that one ends, and touches nothing anybody can see.
Give ==
    /\ pc = "give"
    /\ hid' = seen.id /\ latest' = seen.st
    /\ mon' = "inspect" /\ mseen' = "none" /\ awaited' = None /\ cancel' = FALSE
    /\ seen' = Nothing
    /\ Return
    /\ UNCHANGED <<needs, made, cont, run, maker, late, ended>>

Record ==
    /\ pc = "record"
    /\ latest' = seen.st /\ seen' = Nothing
    /\ Return
    /\ UNCHANGED <<needs, made, cont, run, maker, late, ended, hid, monVars, cancel>>

RmUnjoined ==
    /\ pc = "tell"
    /\ cancel' = TRUE
    /\ Goto("rm")
    /\ UNCHANGED <<needs, made, cont, run, maker, late, seen, ended, handleVars, monVars>>

\* stop_monitor: the message, and the wait for the task.
Tell ==
    /\ pc = "tell"
    /\ cancel' = TRUE
    /\ Goto("join")
    /\ UNCHANGED <<needs, made, cont, run, maker, late, seen, ended, handleVars, monVars>>
Join ==
    /\ pc = "join" /\ mon = "none"
    /\ Goto("rm")
    /\ Quiet /\ UNCHANGED seen

\* A command fails, is refused, or is given up on after its timeout: the call
\* returns the error and leaves the handle, without its monitor after "rm".
Fails ==
    /\ pc \in Commands \cup {"network", "mknetwork", "image", "pull", "exists", "look", "see", "status"}
    /\ CliFails \/ Refused(pc)
    /\ \/ UNCHANGED late
       \/ /\ CliFails /\ pc \in Commands
          /\ late' = late \cup {pc} /\ Cardinality(late') <= MaxLate
    /\ Return
    /\ UNCHANGED <<needs, made, cont, run, maker, seen, ended, handleVars, monVars, cancel>>

DropKeepsState ==
    /\ pc = "idle" /\ hid # None
    /\ hid' = None /\ cancel' = TRUE /\ ended' = FALSE
    /\ UNCHANGED <<needs, daemonVars, late, pc, op, seen, fresh, latest, monVars>>

Drop ==
    /\ pc = "idle" /\ hid # None
    /\ hid' = None /\ latest' = "none" /\ cancel' = TRUE /\ ended' = FALSE
    /\ UNCHANGED <<needs, daemonVars, late, pc, op, seen, fresh, monVars>>

----------------------------------------------------------------------------
(* monitor_container and wait_for_container_stop                           *)

Calm == UNCHANGED <<needs, daemonVars, late, pc, callVars, cancel>>

MonInspectKeeps ==
    /\ \/ mon = "inspect" /\ mon' = "write"
       \/ mon = "again" /\ mon' = "rewrite"
    /\ \/ cont # None /\ mseen' = inspect_to_state(run)
       \/ (CliFails \/ cont = None) /\ mseen' = IF hid = None THEN "unknown" ELSE latest
    /\ UNCHANGED awaited
    /\ Calm /\ UNCHANGED handleVars

MonInspect ==
    /\ \/ mon = "inspect" /\ mon' = "write"
       \/ mon = "again" /\ mon' = "rewrite"
    /\ \/ cont # None /\ mseen' = inspect_to_state(run)
       \/ (CliFails \/ cont = None) /\ mseen' = "unknown"
    /\ UNCHANGED awaited
    /\ Calm /\ UNCHANGED handleVars

\* A handle that was dropped took its latest_state with it.
MonWrite ==
    /\ \/ mon = "write" /\ mon' = IF mseen = "running" THEN "spawn" ELSE "sleep"
       \/ mon = "rewrite" /\ mon' = "inspect"
    /\ latest' = IF hid = None THEN "none" ELSE mseen
    /\ mseen' = "none"
    /\ UNCHANGED <<hid, awaited>>
    /\ Calm

MonSpawnWait ==
    /\ mon = "spawn" /\ mon' = "wait" /\ awaited' = cont
    /\ UNCHANGED mseen
    /\ Calm /\ UNCHANGED handleVars

\* docker wait returns when the container it was asked about does not run.
MonWaitReturns ==
    /\ mon = "wait" /\ awaited # None /\ (cont # awaited \/ ~Up(run))
    /\ mon' = "again" /\ awaited' = None
    /\ UNCHANGED mseen
    /\ Calm /\ UNCHANGED handleVars

\* Retry: docker wait does not start, or fails, for one because there is no
\* such container.  The pause after it does not listen for the cancellation.
MonRetry ==
    /\ \/ mon = "spawn" /\ CliFails
       \/ mon = "wait" /\ (CliFails \/ awaited = None)
    /\ mon' = "pause" /\ awaited' = None
    /\ UNCHANGED mseen
    /\ Calm /\ UNCHANGED handleVars

MonAwake ==
    /\ mon \in {"sleep", "pause"} /\ mon' = "inspect"
    /\ UNCHANGED <<mseen, awaited>>
    /\ Calm /\ UNCHANGED handleVars

CancelledAsleep ==
    /\ cancel /\ mon = "sleep"
    /\ mon' = "none" /\ awaited' = None
    /\ UNCHANGED mseen
    /\ Calm /\ UNCHANGED handleVars

MonCancelled ==
    /\ cancel /\ mon \in {"sleep", "wait"}
    /\ mon' = "none" /\ awaited' = None
    /\ UNCHANGED mseen
    /\ Calm /\ UNCHANGED handleVars

----------------------------------------------------------------------------
Call == Allocate \/ Start \/ Status \/ Stop \/ Destroy \/ Drop
Step == Ensure \/ Exists \/ Look \/ Command \/ See \/ Give \/ Record \/ Tell \/ Join \/ Fails
Monitor ==
    \/ MonInspect \/ MonWrite \/ MonSpawnWait \/ MonWaitReturns
    \/ MonRetry \/ MonAwake \/ MonCancelled

Next == LateCommand \/ Environment \/ Call \/ Step \/ Monitor

Spec == Init /\ [][Next]_vars

\* The runtime polls the task of the call and the monitor.  select takes its
\* ready branches in random order, so a cancellation that is there time and
\* again is taken; and docker wait does not fail to start for ever.
FairSpec ==
    /\ Spec
    /\ WF_vars(Step) /\ WF_vars(Monitor)
    /\ SF_vars(MonSpawnWait) /\ SF_vars(MonCancelled)

----------------------------------------------------------------------------
(* Properties                                                              *)

FlagsOK == cancel \in BOOLEAN /\ fresh \in BOOLEAN /\ ended \in BOOLEAN

\* The type of every variable, and what goes with what.
TypeOK ==
    /\ needs \in Configs /\ late \subseteq Commands
    /\ made \in 0 .. MaxCont /\ cont \in 0 .. made /\ hid \in 0 .. made
    /\ run \in {"none", "created", "running", "paused", "exited", "dead"}
    /\ cont = None <=> run = "none"
    /\ pc \in Commands \cup {"idle", "network", "mknetwork", "image", "pull", "exists", "look",
                             "see", "give", "status", "record", "tell", "join"}
    /\ op \in {"none", "allocate", "start"}
    /\ seen \in [id : 0 .. made, st : {"none", "running", "stopped", "unknown"}]
    /\ pc \in {"give", "record"} <=> seen.id # None
    /\ seen.id = None <=> seen.st = "none"
    /\ latest \in {"none", "running", "stopped", "unknown"}
    /\ hid = None <=> latest = "none"
    /\ mon \in {"none", "inspect", "write", "spawn", "wait", "again", "rewrite", "sleep", "pause"}
    /\ mseen \in {"none", "running", "stopped", "unknown"}
    /\ mon \in {"write", "rewrite"} => mseen # "none"
    /\ awaited \in 0 .. made
    /\ FlagsOK
    /\ maker \in {"none", "self", "late", "other"}
    /\ ran \in {"no", "yes", "replaced"}

\* When fx_destroy has returned Ok the handle's container is gone for good, its
\* monitor has ended, and a container of the name is there only because others
\* created it or a create was carried out after the provider gave up on it.
DestroyedIsGone ==
    ended => /\ mon = "none" /\ hid # cont
             /\ cont # None => maker \in {"late", "other"}

\* fx_start returns Ok only for a container that was up in the course of the
\* call, and says created only of one it created itself, unless the container
\* was removed or replaced between two of its commands.
StartTellsTruth ==
    pc = "give" /\ ran # "replaced" =>
        ran = "yes" /\ seen.id = cont /\ (fresh => maker = "self")

\* Every call returns, fx_destroy included, which waits for the monitor without
\* a timeout; and a monitor ends that was told to or whose handle was dropped.
CallsAndMonitorsEnd ==
    /\ pc # "idle" ~> pc = "idle"
    /\ cancel /\ mon # "none" ~> mon = "none" \/ ~cancel

\* The monitor notices the end: a container that is down for good is in the end
\* never again reported as running, whatever fx_status and the monitor wrote
\* over each other.
MonitorNotices ==
    <>[](hid # None /\ mon # "none" /\ ~Up(run)) => <>[](latest # "running")

=============================================================================
