------------------------- MODULE QemuWorkerProofs -------------------------
(***************************************************************************)
(* Proofs about the worker of a virtual machine, for every set of tickers, *)
(* every capacity of the four channels, every set of events and every      *)
(* number of them.  The type invariant is inductive as it stands; so is    *)
(* LockOK under it, and what the worker leaves behind under both.          *)
(* StoppedMeansGone is strengthened to StopProgress, which says how far    *)
(* stop has come by what it has waited for.  EventsInOrder is taken apart  *)
(* into the places an event passes through, and needs that a task holds an *)
(* event only while it has one to pass on (FlowOK).                        *)
(***************************************************************************)
EXTENDS QemuWorker, TLAPS

\* Type correctness.  Its content is in QueuesOK: no send of a ticker, of the
\* reader, the worker or the manager exceeds the capacity of its channel.
LEMMA TypeCorrect == Spec => []TypeOK
<1> USE PollsAssumption, CapsAssumption
<1>1. Init => TypeOK
  <2> SUFFICES ASSUME Init PROVE TypeOK
    OBVIOUS
  <2>1. FlagsOK BY Zenon DEF Init, FlagsOK
  <2>2. QueuesOK BY DEF Init, QueuesOK, Message, Reply
  <2>3. ControlOK
    BY DEF Init, ControlOK, Message, Reply, Phases, Commands, QmpPolls, States
  <2>4. QED BY <2>1, <2>2, <2>3 DEF TypeOK
<1>2. TypeOK /\ [Next]_vars => TypeOK'
  <2> SUFFICES ASSUME TypeOK, [Next]_vars
               PROVE  TypeOK'
    OBVIOUS
  <2> USE DEF TypeOK, Message, Reply, Phases, Commands, QmpPolls, GaPolls,
              States, StopPcs, ShutPcs, DrainPcs, qemuVars, readerVars,
              pollVars, workerVars, lockVars, mgrVars, metaVars, mgrKeeps
  <2>1. ASSUME NEW e \in Events, QemuEmit(e) PROVE TypeOK'
    <3>1. FlagsOK' BY <2>1, Zenon DEF QemuEmit, FlagsOK
    <3>2. QueuesOK' BY <2>1 DEF QemuEmit, QueuesOK, ControlOK
    <3>3. ControlOK' BY <2>1 DEF QemuEmit, ControlOK, QueuesOK
    <3>4. QED BY <3>1, <3>2, <3>3
  <2>2. CASE QemuAnswer
    <3>1. FlagsOK' BY <2>2, Zenon DEF QemuAnswer, FlagsOK
    <3>2. QueuesOK' BY <2>2 DEF QemuAnswer, QueuesOK, ControlOK
    <3>3. ControlOK' BY <2>2 DEF QemuAnswer, ControlOK, QueuesOK
    <3>4. QED BY <3>1, <3>2, <3>3
  <2>3. CASE QemuExit
    <3>1. FlagsOK' BY <2>3, Zenon DEF QemuExit, FlagsOK
    <3>2. QueuesOK' BY <2>3 DEF QemuExit, QueuesOK, ControlOK
    <3>3. ControlOK' BY <2>3 DEF QemuExit, ControlOK, QueuesOK
    <3>4. QED BY <3>1, <3>2, <3>3
  <2>4. CASE ReaderRead
    <3>1. FlagsOK' BY <2>4, Zenon DEF ReaderRead, FlagsOK
    <3>2. QueuesOK' BY <2>4 DEF ReaderRead, QueuesOK, ControlOK
    <3>3. ControlOK' BY <2>4 DEF ReaderRead, ControlOK, QueuesOK
    <3>4. QED BY <3>1, <3>2, <3>3
  <2>5. CASE ReaderSend
    <3>1. FlagsOK' BY <2>5, Zenon DEF ReaderSend, FlagsOK
    <3>2. QueuesOK' BY <2>5 DEF ReaderSend, QueuesOK, ControlOK
    <3>3. ControlOK' BY <2>5 DEF ReaderSend, ControlOK, QueuesOK
    <3>4. QED BY <3>1, <3>2, <3>3
  <2>6. CASE ReaderEof
    <3>1. FlagsOK' BY <2>6, Zenon DEF ReaderEof, FlagsOK
    <3>2. QueuesOK' BY <2>6 DEF ReaderEof, QueuesOK, ControlOK
    <3>3. ControlOK' BY <2>6 DEF ReaderEof, ControlOK, QueuesOK
    <3>4. QED BY <3>1, <3>2, <3>3
  <2>7. ASSUME NEW p \in Polls, TickerFire(p) PROVE TypeOK'
    <3>1. FlagsOK' BY <2>7, Zenon DEF TickerFire, FlagsOK
    <3>2. QueuesOK' BY <2>7 DEF TickerFire, QueuesOK, ControlOK
    <3>3. ControlOK' BY <2>7 DEF TickerFire, ControlOK, QueuesOK
    <3>4. QED BY <3>1, <3>2, <3>3
  <2>8. ASSUME NEW p \in Polls, TickerSend(p) PROVE TypeOK'
    <3>1. FlagsOK' BY <2>8, Zenon DEF TickerSend, FlagsOK
    <3>2. QueuesOK' BY <2>8 DEF TickerSend, QueuesOK, ControlOK
    <3>3. ControlOK' BY <2>8 DEF TickerSend, ControlOK, QueuesOK
    <3>4. QED BY <3>1, <3>2, <3>3
  <2>9. ASSUME NEW p \in Polls, TickerCancel(p) PROVE TypeOK'
    <3>1. FlagsOK' BY <2>9, Zenon DEF TickerCancel, FlagsOK
    <3>2. QueuesOK' BY <2>9 DEF TickerCancel, QueuesOK, ControlOK
    <3>3. ControlOK' BY <2>9 DEF TickerCancel, ControlOK, QueuesOK
    <3>4. QED BY <3>1, <3>2, <3>3
  <2>10. CASE WorkerShutdown
    <3>1. FlagsOK' BY <2>10, Zenon DEF WorkerShutdown, FlagsOK
    <3>2. QueuesOK' BY <2>10 DEF WorkerShutdown, QueuesOK, ControlOK
    <3>3. ControlOK' BY <2>10 DEF WorkerShutdown, ControlOK, QueuesOK
    <3>4. QED BY <3>1, <3>2, <3>3
  <2>11. CASE WorkerCommand
    <3>1. FlagsOK' BY <2>11, Zenon DEF WorkerCommand, FlagsOK
    <3>2. QueuesOK'
      <4>a. waiters' = waiters \/ waiters' = Append(waiters, "worker")
        BY <2>11, Zenon DEF WorkerCommand
      <4>b. waiters \in Seq({"worker", "manager"})
        BY DEF QueuesOK
      <4>1. waiters' \in Seq({"worker", "manager"})
        BY <4>a, <4>b
      <4>2. cmds' \in Seq(Commands) /\ Len(cmds') <= CmdCap
        BY <2>11 DEF WorkerCommand, QueuesOK
      <4>3. UNCHANGED <<emitted, socket, qmp, appq, metaq, applied, lost>>
        BY <2>11 DEF WorkerCommand
      <4>4. QED BY <4>1, <4>2, <4>3 DEF QueuesOK
    <3>3. ControlOK' BY <2>11 DEF WorkerCommand, ControlOK, QueuesOK
    <3>4. QED BY <3>1, <3>2, <3>3
  <2>12. CASE WorkerLock
    <3>1. FlagsOK' BY <2>12, Zenon DEF WorkerLock, FlagsOK
    <3>2. QueuesOK' BY <2>12 DEF WorkerLock, QueuesOK, ControlOK
    <3>3. ControlOK' BY <2>12 DEF WorkerLock, ControlOK, QueuesOK
    <3>4. QED BY <3>1, <3>2, <3>3
  <2>13. CASE WorkerReplied
    <3>1. FlagsOK' BY <2>13, Zenon DEF WorkerReplied, FlagsOK
    <3>2. QueuesOK' BY <2>13 DEF WorkerReplied, QueuesOK, ControlOK
    <3>3. ControlOK' BY <2>13 DEF WorkerReplied, ControlOK, QueuesOK
    <3>4. QED BY <3>1, <3>2, <3>3
  <2>14. CASE WorkerGaDone
    <3>1. FlagsOK' BY <2>14, Zenon DEF WorkerGaDone, FlagsOK
    <3>2. QueuesOK' BY <2>14 DEF WorkerGaDone, QueuesOK, ControlOK
    <3>3. ControlOK' BY <2>14 DEF WorkerGaDone, ControlOK, QueuesOK
    <3>4. QED BY <3>1, <3>2, <3>3
  <2>15. CASE WorkerEvent
    <3>1. FlagsOK' BY <2>15, Zenon DEF WorkerEvent, FlagsOK
    <3>2. QueuesOK'
      <4>1. /\ qmp # <<>> /\ qmp' = Tail(qmp)
            /\ UNCHANGED <<emitted, socket, cmds, appq, metaq, waiters, applied, lost>>
        BY <2>15 DEF WorkerEvent, qemuVars, lockVars, metaVars
      <4>2. qmp \in Seq(Message) /\ Len(qmp) <= QmpCap
        BY DEF QueuesOK
      <4>3. qmp' \in Seq(Message) /\ Len(qmp') <= QmpCap
        <5>1. qmp' \in Seq(Message) /\ Len(qmp') = Len(qmp) - 1
          BY <4>1, <4>2
        <5> QED  BY <4>2, <5>1
      <4> QED  BY <4>1, <4>3 DEF QueuesOK, Message
    <3>3. ControlOK' BY <2>15 DEF WorkerEvent, ControlOK, QueuesOK
    <3>4. QED BY <3>1, <3>2, <3>3
  <2>16. CASE WorkerToApp
    <3>1. FlagsOK' BY <2>16, Zenon DEF WorkerToApp, FlagsOK
    <3>2. QueuesOK' BY <2>16 DEF WorkerToApp, QueuesOK, ControlOK
    <3>3. ControlOK' BY <2>16 DEF WorkerToApp, ControlOK, QueuesOK
    <3>4. QED BY <3>1, <3>2, <3>3
  <2>17. CASE WorkerToManager
    <3>1. FlagsOK' BY <2>17, Zenon DEF WorkerToManager, FlagsOK
    <3>2. QueuesOK' BY <2>17 DEF WorkerToManager, QueuesOK, ControlOK
    <3>3. ControlOK' BY <2>17 DEF WorkerToManager, ControlOK, QueuesOK
    <3>4. QED BY <3>1, <3>2, <3>3
  <2>18. CASE WorkerReturn
    <3>1. FlagsOK' BY <2>18, Zenon DEF WorkerReturn, FlagsOK
    <3>2. QueuesOK' BY <2>18 DEF WorkerReturn, QueuesOK, ControlOK
    <3>3. ControlOK' BY <2>18 DEF WorkerReturn, ControlOK, QueuesOK
    <3>4. QED BY <3>1, <3>2, <3>3
  <2>19. CASE AppRecv
    <3>1. FlagsOK' BY <2>19, Zenon DEF AppRecv, FlagsOK
    <3>2. QueuesOK' BY <2>19 DEF AppRecv, QueuesOK, ControlOK
    <3>3. ControlOK' BY <2>19 DEF AppRecv, ControlOK, QueuesOK
    <3>4. QED BY <3>1, <3>2, <3>3
  <2>20. CASE StopBegin
    <3>1. FlagsOK' BY <2>20, Zenon DEF StopBegin, FlagsOK
    <3>2. QueuesOK' BY <2>20 DEF StopBegin, QueuesOK, ControlOK
    <3>3. ControlOK' BY <2>20 DEF StopBegin, ControlOK, QueuesOK
    <3>4. QED BY <3>1, <3>2, <3>3
  <2>21. CASE ShutdownBegin
    <3>1. FlagsOK' BY <2>21, Zenon DEF ShutdownBegin, FlagsOK
    <3>2. QueuesOK' BY <2>21 DEF ShutdownBegin, QueuesOK, ControlOK
    <3>3. ControlOK' BY <2>21 DEF ShutdownBegin, ControlOK, QueuesOK
    <3>4. QED BY <3>1, <3>2, <3>3
  <2>22. CASE DrainBegin
    <3>1. FlagsOK' BY <2>22, Zenon DEF DrainBegin, FlagsOK
    <3>2. QueuesOK' BY <2>22 DEF DrainBegin, QueuesOK, ControlOK
    <3>3. ControlOK' BY <2>22 DEF DrainBegin, ControlOK, QueuesOK
    <3>4. QED BY <3>1, <3>2, <3>3
  <2>23. CASE StopReadPid
    <3>1. FlagsOK' BY <2>23, Zenon DEF StopReadPid, FlagsOK
    <3>2. QueuesOK' BY <2>23 DEF StopReadPid, QueuesOK, ControlOK
    <3>3. ControlOK' BY <2>23 DEF StopReadPid, ControlOK, QueuesOK
    <3>4. QED BY <3>1, <3>2, <3>3
  <2>24. CASE StopSend
    <3>1. FlagsOK' BY <2>24, Zenon DEF StopSend, FlagsOK
    <3>2. QueuesOK' BY <2>24 DEF StopSend, QueuesOK, ControlOK
    <3>3. ControlOK' BY <2>24 DEF StopSend, ControlOK, QueuesOK
    <3>4. QED BY <3>1, <3>2, <3>3
  <2>25. CASE StopExited
    <3>1. FlagsOK' BY <2>25, Zenon DEF StopExited, FlagsOK
    <3>2. QueuesOK' BY <2>25 DEF StopExited, QueuesOK, ControlOK
    <3>3. ControlOK' BY <2>25 DEF StopExited, ControlOK, QueuesOK
    <3>4. QED BY <3>1, <3>2, <3>3
  <2>26. CASE StopTimeout
    <3>1. FlagsOK' BY <2>26, Zenon DEF StopTimeout, FlagsOK
    <3>2. QueuesOK' BY <2>26 DEF StopTimeout, QueuesOK, ControlOK
    <3>3. ControlOK' BY <2>26 DEF StopTimeout, ControlOK, QueuesOK
    <3>4. QED BY <3>1, <3>2, <3>3
  <2>27. CASE StopJoin
    <3>1. FlagsOK' BY <2>27, Zenon DEF StopJoin, FlagsOK
    <3>2. QueuesOK' BY <2>27 DEF StopJoin, QueuesOK, ControlOK
    <3>3. ControlOK' BY <2>27 DEF StopJoin, ControlOK, QueuesOK
    <3>4. QED BY <3>1, <3>2, <3>3
  <2>28. CASE StopState
    <3>1. FlagsOK' BY <2>28, Zenon DEF StopState, FlagsOK
    <3>2. QueuesOK' BY <2>28 DEF StopState, QueuesOK, ControlOK
    <3>3. ControlOK' BY <2>28 DEF StopState, ControlOK, QueuesOK
    <3>4. QED BY <3>1, <3>2, <3>3
  <2>29. CASE StopRecord
    <3>1. FlagsOK' BY <2>29, Zenon DEF StopRecord, FlagsOK
    <3>2. QueuesOK' BY <2>29 DEF StopRecord, QueuesOK, ControlOK
    <3>3. ControlOK' BY <2>29 DEF StopRecord, ControlOK, QueuesOK
    <3>4. QED BY <3>1, <3>2, <3>3
  <2>30. CASE StopMetaError
    <3>1. FlagsOK' BY <2>30, Zenon DEF StopMetaError, FlagsOK
    <3>2. QueuesOK' BY <2>30 DEF StopMetaError, QueuesOK, ControlOK
    <3>3. ControlOK' BY <2>30 DEF StopMetaError, ControlOK, QueuesOK
    <3>4. QED BY <3>1, <3>2, <3>3
  <2>31. CASE ShutdownJoin
    <3>1. FlagsOK' BY <2>31, Zenon DEF ShutdownJoin, FlagsOK
    <3>2. QueuesOK' BY <2>31 DEF ShutdownJoin, QueuesOK, ControlOK
    <3>3. ControlOK' BY <2>31 DEF ShutdownJoin, ControlOK, QueuesOK
    <3>4. QED BY <3>1, <3>2, <3>3
  <2>32. CASE ShutdownState
    <3>1. FlagsOK' BY <2>32, Zenon DEF ShutdownState, FlagsOK
    <3>2. QueuesOK' BY <2>32 DEF ShutdownState, QueuesOK, ControlOK
    <3>3. ControlOK' BY <2>32 DEF ShutdownState, ControlOK, QueuesOK
    <3>4. QED BY <3>1, <3>2, <3>3
  <2>33. CASE ShutdownRecord
    <3>1. FlagsOK' BY <2>33, Zenon DEF ShutdownRecord, FlagsOK
    <3>2. QueuesOK' BY <2>33 DEF ShutdownRecord, QueuesOK, ControlOK
    <3>3. ControlOK' BY <2>33 DEF ShutdownRecord, ControlOK, QueuesOK
    <3>4. QED BY <3>1, <3>2, <3>3
  <2>34. CASE DrainTake
    <3>1. FlagsOK' BY <2>34, Zenon DEF DrainTake, FlagsOK
    <3>2. QueuesOK' BY <2>34 DEF DrainTake, QueuesOK, ControlOK
    <3>3. ControlOK' BY <2>34 DEF DrainTake, ControlOK, QueuesOK
    <3>4. QED BY <3>1, <3>2, <3>3
  <2>35. CASE DrainEnd
    <3>1. FlagsOK' BY <2>35, Zenon DEF DrainEnd, FlagsOK
    <3>2. QueuesOK' BY <2>35 DEF DrainEnd, QueuesOK, ControlOK
    <3>3. ControlOK' BY <2>35 DEF DrainEnd, ControlOK, QueuesOK
    <3>4. QED BY <3>1, <3>2, <3>3
  <2>36. CASE DrainState
    <3>1. FlagsOK' BY <2>36, Zenon DEF DrainState, FlagsOK
    <3>2. QueuesOK'
      <4>a. waiters' = waiters \/ waiters' = Append(waiters, "manager")
        BY <2>36, Zenon DEF DrainState
      <4>b. waiters \in Seq({"worker", "manager"})
        BY DEF QueuesOK
      <4>1. waiters' \in Seq({"worker", "manager"})
        BY <4>a, <4>b
      <4>2. applied' \in Seq(Message)
        BY <2>36 DEF DrainState, QueuesOK, ControlOK
      <4>3. UNCHANGED <<emitted, socket, qmp, cmds, appq, metaq, lost>>
        BY <2>36 DEF DrainState
      <4>4. QED BY <4>1, <4>2, <4>3 DEF QueuesOK
    <3>3. ControlOK'
      <4>1. mstate' \in States
        BY <2>36 DEF DrainState, StateOf
      <4>2. mpc' \in {"drain", "drainLock"} /\ mev' \in Message
        BY <2>36 DEF DrainState, ControlOK
      <4>3. UNCHANGED <<reader, rheld, ticker, wphase, wcall, wev, lock, vm>>
        BY <2>36 DEF DrainState
      <4>4. QED BY <4>1, <4>2, <4>3 DEF ControlOK
    <3>4. QED BY <3>1, <3>2, <3>3
  <2>37. CASE DrainRecord
    <3>1. FlagsOK'
      <4>1. \A A, B : (A \in B) \in BOOLEAN
        OBVIOUS
      <4>2. recpid' \in BOOLEAN
        BY <2>37, <4>1, Zenon DEF DrainRecord
      <4>3. UNCHANGED <<alive, asked, replied, cancelled, mseen, ctl>>
        BY <2>37, Zenon DEF DrainRecord
      <4>4. QED BY <4>2, <4>3, Zenon DEF FlagsOK
    <3>2. QueuesOK' BY <2>37 DEF DrainRecord, QueuesOK, ControlOK
    <3>3. ControlOK' BY <2>37 DEF DrainRecord, ControlOK, QueuesOK
    <3>4. QED BY <3>1, <3>2, <3>3
  <2>38. CASE DrainError
    <3>1. FlagsOK' BY <2>38, Zenon DEF DrainError, FlagsOK
    <3>2. QueuesOK' BY <2>38 DEF DrainError, QueuesOK, ControlOK
    <3>3. ControlOK' BY <2>38 DEF DrainError, ControlOK, QueuesOK
    <3>4. QED BY <3>1, <3>2, <3>3
  <2>39. CASE SendShutdown
    <3>1. FlagsOK' BY <2>39, Zenon DEF SendShutdown, FlagsOK
    <3>2. QueuesOK' BY <2>39 DEF SendShutdown, QueuesOK, ControlOK
    <3>3. ControlOK' BY <2>39 DEF SendShutdown, ControlOK, QueuesOK
    <3>4. QED BY <3>1, <3>2, <3>3
  <2>40. CASE ManagerLock
    <3>1. FlagsOK' BY <2>40, Zenon DEF ManagerLock, FlagsOK
    <3>2. QueuesOK' BY <2>40 DEF ManagerLock, QueuesOK, ControlOK
    <3>3. ControlOK' BY <2>40 DEF ManagerLock, ControlOK, QueuesOK
    <3>4. QED BY <3>1, <3>2, <3>3
  <2>41. CASE UNCHANGED vars
    BY <2>41 DEF vars, FlagsOK, QueuesOK, ControlOK
  <2>43. CASE Discover
    <3>1. FlagsOK' BY <2>43, Zenon DEF Discover, FlagsOK
    <3>2. QueuesOK' BY <2>43 DEF Discover, QueuesOK, ControlOK
    <3>3. ControlOK' BY <2>43 DEF Discover, ControlOK, QueuesOK
    <3>4. QED BY <3>1, <3>2, <3>3
  <2>44. CASE Allocate
    <3>1. FlagsOK' BY <2>44, Zenon DEF Allocate, FlagsOK
    <3>2. QueuesOK' BY <2>44 DEF Allocate, QueuesOK, ControlOK
    <3>3. ControlOK' BY <2>44 DEF Allocate, ControlOK, QueuesOK
    <3>4. QED BY <3>1, <3>2, <3>3
  <2>45. QED
    BY <2>1, <2>2, <2>3, <2>4, <2>5, <2>6, <2>7, <2>8, <2>9, <2>10,
       <2>11, <2>12, <2>13, <2>14, <2>15, <2>16, <2>17, <2>18, <2>19,
       <2>20, <2>21, <2>22, <2>23, <2>24, <2>25, <2>26, <2>27, <2>28,
       <2>29, <2>30, <2>31, <2>32, <2>33, <2>34, <2>35, <2>36, <2>37,
       <2>38, <2>39, <2>40, <2>41, <2>43, <2>44
    DEF Next, Qemu, Reader, Ticker, Worker, Stop, Shutdown, Drain, Begin, Others
<1>3. QED
  BY <1>1, <1>2, PTL DEF Spec

----------------------------------------------------------------------------
(* The queue of waiters                                                    *)

\* What joining the queue changes.
LEMMA Enqueue ==
    ASSUME NEW S, NEW q \in Seq(S), NEW x \in S
    PROVE  /\ \A y : Waiting(Append(q, x), y) <=> Waiting(q, y) \/ y = x
           /\ Once(q) /\ ~Waiting(q, x) => Once(Append(q, x))
  BY DEF Waiting, Once

\* What being served changes: the head of the queue waits no longer.
LEMMA Dequeue ==
    ASSUME NEW S, NEW q \in Seq(S), q # <<>>, Once(q)
    PROVE  /\ \A y : Waiting(Tail(q), y) <=> Waiting(q, y) /\ y # Head(q)
           /\ Once(Tail(q))
<1>1. /\ DOMAIN q = 1 .. Len(q) /\ Len(q) \in Nat \ {0}
      /\ DOMAIN Tail(q) = 1 .. Len(q) - 1
      /\ \A i \in DOMAIN Tail(q) : Tail(q)[i] = q[i + 1]
  OBVIOUS
<1>2. Once(Tail(q))
  BY <1>1 DEF Once
<1>3. ASSUME NEW y, Waiting(Tail(q), y) PROVE Waiting(q, y) /\ y # Head(q)
  <2>1. PICK i \in DOMAIN Tail(q) : Tail(q)[i] = y
    BY <1>3 DEF Waiting
  <2>2. q[i + 1] = y /\ i + 1 \in DOMAIN q /\ 1 \in DOMAIN q /\ i + 1 # 1
    BY <1>1, <2>1
  <2>3. QED
    BY <2>2 DEF Waiting, Once
<1>4. ASSUME NEW y, Waiting(q, y), y # Head(q) PROVE Waiting(Tail(q), y)
  <2>1. PICK i \in DOMAIN q : q[i] = y
    BY <1>4 DEF Waiting
  <2>2. i # 1 /\ i - 1 \in DOMAIN Tail(q) /\ Tail(q)[i - 1] = y
    BY <1>1, <1>4, <2>1
  <2>3. QED
    BY <2>2 DEF Waiting
<1>5. QED
  BY <1>2, <1>3, <1>4

\* The RwLock around the running instance is used correctly: held by the worker
\* exactly during a QMP or guest agent call, by the manager exactly while it
\* persists something about the VM, and asked for once at a time.
THEOREM LockCorrect == Spec => []LockOK
<1>1. Init => LockOK
  BY DEF Init, LockOK, Waiting, Once
<1>2. TypeOK /\ LockOK /\ [Next]_vars => LockOK'
  <2> SUFFICES ASSUME TypeOK, LockOK, [Next]_vars
               PROVE  LockOK'
    OBVIOUS
  <2> USE DEF TypeOK, QueuesOK, LockOK, qemuVars, readerVars, pollVars,
              workerVars, lockVars, mgrVars, metaVars, mgrKeeps
  <2>1. ASSUME NEW e \in Events, QemuEmit(e) PROVE LockOK'
    BY <2>1, Enqueue, Dequeue DEF QemuEmit
  <2>2. CASE QemuAnswer
    BY <2>2, Enqueue, Dequeue DEF QemuAnswer
  <2>3. CASE QemuExit
    BY <2>3, Enqueue, Dequeue DEF QemuExit
  <2>4. CASE ReaderRead
    BY <2>4, Enqueue, Dequeue DEF ReaderRead
  <2>5. CASE ReaderSend
    BY <2>5, Enqueue, Dequeue DEF ReaderSend
  <2>6. CASE ReaderEof
    BY <2>6, Enqueue, Dequeue DEF ReaderEof
  <2>7. ASSUME NEW p \in Polls, TickerFire(p) PROVE LockOK'
    BY <2>7, Enqueue, Dequeue DEF TickerFire
  <2>8. ASSUME NEW p \in Polls, TickerSend(p) PROVE LockOK'
    BY <2>8, Enqueue, Dequeue DEF TickerSend
  <2>9. ASSUME NEW p \in Polls, TickerCancel(p) PROVE LockOK'
    BY <2>9, Enqueue, Dequeue DEF TickerCancel
  <2>10. CASE WorkerShutdown
    BY <2>10, Enqueue, Dequeue DEF WorkerShutdown
  <2>11. CASE WorkerCommand
    <3>1. /\ wphase = "select" /\ UNCHANGED <<lock, mpc>>
          /\ \/ UNCHANGED <<wphase, waiters>>
             \/ wphase' = "lock" /\ waiters' = Append(waiters, "worker")
      BY <2>11, Zenon DEF WorkerCommand
    <3>2. ~Waiting(waiters, "worker")
      BY <3>1
    <3>3. /\ \A y : Waiting(Append(waiters, "worker"), y)
                   <=> Waiting(waiters, y) \/ y = "worker"
          /\ Once(Append(waiters, "worker"))
      BY <3>2, Enqueue
    <3>4. CASE UNCHANGED waiters
      BY <3>1, <3>4
    <3>5. CASE waiters' = Append(waiters, "worker")
      <4>1. /\ Waiting(waiters', "worker") <=> Waiting(waiters, "worker") \/ "worker" = "worker"
            /\ Waiting(waiters', "manager") <=> Waiting(waiters, "manager") \/ "worker" = "manager"
            /\ Once(waiters')
        BY <3>3, <3>5
      <4>2. QED
        BY <3>1, <3>2, <4>1
    <3>6. QED
      BY <3>1, <3>4, <3>5
  <2>12. CASE WorkerLock
    BY <2>12, Enqueue, Dequeue DEF WorkerLock
  <2>13. CASE WorkerReplied
    BY <2>13, Enqueue, Dequeue DEF WorkerReplied
  <2>14. CASE WorkerGaDone
    BY <2>14, Enqueue, Dequeue DEF WorkerGaDone
  <2>15. CASE WorkerEvent
    BY <2>15, Enqueue, Dequeue DEF WorkerEvent
  <2>16. CASE WorkerToApp
    BY <2>16, Enqueue, Dequeue DEF WorkerToApp
  <2>17. CASE WorkerToManager
    BY <2>17, Enqueue, Dequeue DEF WorkerToManager
  <2>18. CASE WorkerReturn
    BY <2>18, Enqueue, Dequeue DEF WorkerReturn
  <2>19. CASE AppRecv
    BY <2>19, Enqueue, Dequeue DEF AppRecv
  <2>20. CASE StopBegin
    BY <2>20, Enqueue, Dequeue DEF StopBegin
  <2>21. CASE ShutdownBegin
    BY <2>21, Enqueue, Dequeue DEF ShutdownBegin
  <2>22. CASE DrainBegin
    BY <2>22, Enqueue, Dequeue DEF DrainBegin
  <2>23. CASE StopReadPid
    BY <2>23, Enqueue, Dequeue DEF StopReadPid
  <2>24. CASE StopSend
    BY <2>24, Enqueue, Dequeue DEF StopSend
  <2>25. CASE StopExited
    BY <2>25, Enqueue, Dequeue DEF StopExited
  <2>26. CASE StopTimeout
    BY <2>26, Enqueue, Dequeue DEF StopTimeout
  <2>27. CASE StopJoin
    BY <2>27, Enqueue, Dequeue DEF StopJoin
  <2>28. CASE StopState
    BY <2>28, Enqueue, Dequeue DEF StopState
  <2>29. CASE StopRecord
    BY <2>29, Enqueue, Dequeue DEF StopRecord
  <2>30. CASE StopMetaError
    BY <2>30, Enqueue, Dequeue DEF StopMetaError
  <2>31. CASE ShutdownJoin
    BY <2>31, Enqueue, Dequeue DEF ShutdownJoin
  <2>32. CASE ShutdownState
    BY <2>32, Enqueue, Dequeue DEF ShutdownState
  <2>33. CASE ShutdownRecord
    BY <2>33, Enqueue, Dequeue DEF ShutdownRecord
  <2>34. CASE DrainTake
    BY <2>34, Enqueue, Dequeue DEF DrainTake
  <2>35. CASE DrainEnd
    BY <2>35, Enqueue, Dequeue DEF DrainEnd
  <2>36. CASE DrainState
    <3>1. /\ mpc = "drainState" /\ UNCHANGED <<lock, wphase>>
          /\ \/ mpc' = "drain" /\ UNCHANGED waiters
             \/ mpc' = "drainLock" /\ waiters' = Append(waiters, "manager")
      BY <2>36, Zenon DEF DrainState
    <3>2. ~Waiting(waiters, "manager")
      BY <3>1
    <3>3. /\ \A y : Waiting(Append(waiters, "manager"), y)
                   <=> Waiting(waiters, y) \/ y = "manager"
          /\ Once(Append(waiters, "manager"))
      BY <3>2, Enqueue
    <3>4. CASE UNCHANGED waiters
      BY <3>1, <3>4
    <3>5. CASE waiters' = Append(waiters, "manager")
      <4>1. /\ Waiting(waiters', "worker") <=> Waiting(waiters, "worker") \/ "manager" = "worker"
            /\ Waiting(waiters', "manager") <=> Waiting(waiters, "manager") \/ "manager" = "manager"
            /\ Once(waiters')
        BY <3>3, <3>5
      <4>2. QED
        BY <3>1, <3>2, <4>1
    <3>6. QED
      BY <3>1, <3>4, <3>5
  <2>37. CASE DrainRecord
    BY <2>37, Enqueue, Dequeue DEF DrainRecord
  <2>38. CASE DrainError
    BY <2>38, Enqueue, Dequeue DEF DrainError
  <2>39. CASE SendShutdown
    BY <2>39, Enqueue, Dequeue DEF SendShutdown
  <2>40. CASE ManagerLock
    BY <2>40, Enqueue, Dequeue DEF ManagerLock
  <2>41. CASE UNCHANGED vars
    BY <2>41 DEF vars
  <2>43. CASE Discover
    BY <2>43 DEF Discover
  <2>44. CASE Allocate
    BY <2>44 DEF Allocate
  <2>45. QED
    BY <2>1, <2>2, <2>3, <2>4, <2>5, <2>6, <2>7, <2>8, <2>9, <2>10,
       <2>11, <2>12, <2>13, <2>14, <2>15, <2>16, <2>17, <2>18, <2>19,
       <2>20, <2>21, <2>22, <2>23, <2>24, <2>25, <2>26, <2>27, <2>28,
       <2>29, <2>30, <2>31, <2>32, <2>33, <2>34, <2>35, <2>36, <2>37,
       <2>38, <2>39, <2>40, <2>41, <2>43, <2>44
    DEF Next, Qemu, Reader, Ticker, Worker, Stop, Shutdown, Drain, Begin, Others
<1>3. QED
  BY <1>1, <1>2, TypeCorrect, PTL DEF Spec

\* A worker that returned (worker_process handling Shutdown) has joined its
\* tickers and the reader and does not hold the lock.
THEOREM WorkerLeavesNothingHolds == Spec => []WorkerLeavesNothing
<1>1. Init => WorkerLeavesNothing
  BY DEF Init, WorkerLeavesNothing
<1>2. TypeOK /\ LockOK /\ WorkerLeavesNothing /\ [Next]_vars
        => WorkerLeavesNothing'
  <2> SUFFICES ASSUME TypeOK, LockOK, WorkerLeavesNothing, [Next]_vars
               PROVE  WorkerLeavesNothing'
    OBVIOUS
  <2> USE DEF TypeOK, ControlOK, LockOK, WorkerLeavesNothing, qemuVars,
              readerVars, pollVars, workerVars, lockVars, mgrVars, metaVars,
              mgrKeeps
  <2>1. ASSUME NEW e \in Events, QemuEmit(e) PROVE WorkerLeavesNothing'
    BY <2>1 DEF QemuEmit
  <2>2. CASE QemuAnswer
    BY <2>2 DEF QemuAnswer
  <2>3. CASE QemuExit
    BY <2>3 DEF QemuExit
  <2>4. CASE ReaderRead
    BY <2>4 DEF ReaderRead
  <2>5. CASE ReaderSend
    BY <2>5 DEF ReaderSend
  <2>6. CASE ReaderEof
    BY <2>6 DEF ReaderEof
  <2>7. ASSUME NEW p \in Polls, TickerFire(p) PROVE WorkerLeavesNothing'
    BY <2>7 DEF TickerFire
  <2>8. ASSUME NEW p \in Polls, TickerSend(p) PROVE WorkerLeavesNothing'
    BY <2>8 DEF TickerSend
  <2>9. ASSUME NEW p \in Polls, TickerCancel(p) PROVE WorkerLeavesNothing'
    BY <2>9 DEF TickerCancel
  <2>10. CASE WorkerShutdown
    BY <2>10 DEF WorkerShutdown
  <2>11. CASE WorkerCommand
    BY <2>11 DEF WorkerCommand
  <2>12. CASE WorkerLock
    BY <2>12 DEF WorkerLock
  <2>13. CASE WorkerReplied
    BY <2>13 DEF WorkerReplied
  <2>14. CASE WorkerGaDone
    BY <2>14 DEF WorkerGaDone
  <2>15. CASE WorkerEvent
    BY <2>15 DEF WorkerEvent
  <2>16. CASE WorkerToApp
    BY <2>16 DEF WorkerToApp
  <2>17. CASE WorkerToManager
    BY <2>17 DEF WorkerToManager
  <2>18. CASE WorkerReturn
    BY <2>18 DEF WorkerReturn
  <2>19. CASE AppRecv
    BY <2>19 DEF AppRecv
  <2>20. CASE StopBegin
    BY <2>20 DEF StopBegin
  <2>21. CASE ShutdownBegin
    BY <2>21 DEF ShutdownBegin
  <2>22. CASE DrainBegin
    BY <2>22 DEF DrainBegin
  <2>23. CASE StopReadPid
    BY <2>23 DEF StopReadPid
  <2>24. CASE StopSend
    BY <2>24 DEF StopSend
  <2>25. CASE StopExited
    BY <2>25 DEF StopExited
  <2>26. CASE StopTimeout
    BY <2>26 DEF StopTimeout
  <2>27. CASE StopJoin
    BY <2>27 DEF StopJoin
  <2>28. CASE StopState
    BY <2>28 DEF StopState
  <2>29. CASE StopRecord
    BY <2>29 DEF StopRecord
  <2>30. CASE StopMetaError
    BY <2>30 DEF StopMetaError
  <2>31. CASE ShutdownJoin
    BY <2>31 DEF ShutdownJoin
  <2>32. CASE ShutdownState
    BY <2>32 DEF ShutdownState
  <2>33. CASE ShutdownRecord
    BY <2>33 DEF ShutdownRecord
  <2>34. CASE DrainTake
    BY <2>34 DEF DrainTake
  <2>35. CASE DrainEnd
    BY <2>35 DEF DrainEnd
  <2>36. CASE DrainState
    BY <2>36 DEF DrainState
  <2>37. CASE DrainRecord
    BY <2>37 DEF DrainRecord
  <2>38. CASE DrainError
    BY <2>38 DEF DrainError
  <2>39. CASE SendShutdown
    BY <2>39 DEF SendShutdown
  <2>40. CASE ManagerLock
    BY <2>40 DEF ManagerLock
  <2>41. CASE UNCHANGED vars
    BY <2>41 DEF vars
  <2>43. CASE Discover
    BY <2>43 DEF Discover
  <2>44. CASE Allocate
    BY <2>44 DEF Allocate
  <2>45. QED
    BY <2>1, <2>2, <2>3, <2>4, <2>5, <2>6, <2>7, <2>8, <2>9, <2>10,
       <2>11, <2>12, <2>13, <2>14, <2>15, <2>16, <2>17, <2>18, <2>19,
       <2>20, <2>21, <2>22, <2>23, <2>24, <2>25, <2>26, <2>27, <2>28,
       <2>29, <2>30, <2>31, <2>32, <2>33, <2>34, <2>35, <2>36, <2>37,
       <2>38, <2>39, <2>40, <2>41, <2>43, <2>44
    DEF Next, Qemu, Reader, Ticker, Worker, Stop, Shutdown, Drain, Begin, Others
<1>3. QED
  BY <1>1, <1>2, TypeCorrect, LockCorrect, PTL DEF Spec

\* stop has seen the process gone before it sends Shutdown, and has joined the
\* worker before it asks for the lock a second time; neither is undone.
StopProgress ==
    /\ mpc \in {"stopShut", "stopJoin", "stopLock", "stopState", "stopRecord"}
         \/ vm = "stopped" => ~alive
    /\ mpc \in {"stopLock", "stopState", "stopRecord"}
         \/ vm = "stopped" => wphase = "done"

LEMMA StopProgressCorrect == Spec => []StopProgress
<1>1. Init => StopProgress
  BY DEF Init, StopProgress
<1>2. TypeOK /\ StopProgress /\ [Next]_vars => StopProgress'
  <2> SUFFICES ASSUME TypeOK, StopProgress, [Next]_vars
               PROVE  StopProgress'
    OBVIOUS
  <2> USE DEF StopProgress, qemuVars, readerVars, pollVars, workerVars,
              lockVars, mgrVars, metaVars, mgrKeeps
  <2>1. ASSUME NEW e \in Events, QemuEmit(e) PROVE StopProgress'
    BY <2>1, Zenon DEF QemuEmit
  <2>2. CASE QemuAnswer
    BY <2>2, Zenon DEF QemuAnswer
  <2>3. CASE QemuExit
    BY <2>3, Zenon DEF QemuExit
  <2>4. CASE ReaderRead
    BY <2>4, Zenon DEF ReaderRead
  <2>5. CASE ReaderSend
    BY <2>5, Zenon DEF ReaderSend
  <2>6. CASE ReaderEof
    BY <2>6, Zenon DEF ReaderEof
  <2>7. ASSUME NEW p \in Polls, TickerFire(p) PROVE StopProgress'
    BY <2>7, Zenon DEF TickerFire
  <2>8. ASSUME NEW p \in Polls, TickerSend(p) PROVE StopProgress'
    BY <2>8, Zenon DEF TickerSend
  <2>9. ASSUME NEW p \in Polls, TickerCancel(p) PROVE StopProgress'
    BY <2>9, Zenon DEF TickerCancel
  <2>10. CASE WorkerShutdown
    BY <2>10, Zenon DEF WorkerShutdown
  <2>11. CASE WorkerCommand
    BY <2>11, Zenon DEF WorkerCommand
  <2>12. CASE WorkerLock
    BY <2>12, Zenon DEF WorkerLock
  <2>13. CASE WorkerReplied
    BY <2>13, Zenon DEF WorkerReplied
  <2>14. CASE WorkerGaDone
    BY <2>14, Zenon DEF WorkerGaDone
  <2>15. CASE WorkerEvent
    BY <2>15, Zenon DEF WorkerEvent
  <2>16. CASE WorkerToApp
    BY <2>16, Zenon DEF WorkerToApp
  <2>17. CASE WorkerToManager
    BY <2>17, Zenon DEF WorkerToManager
  <2>18. CASE WorkerReturn
    BY <2>18, Zenon DEF WorkerReturn
  <2>19. CASE AppRecv
    BY <2>19, Zenon DEF AppRecv
  <2>20. CASE StopBegin
    BY <2>20, Zenon DEF StopBegin
  <2>21. CASE ShutdownBegin
    BY <2>21, Zenon DEF ShutdownBegin
  <2>22. CASE DrainBegin
    BY <2>22, Zenon DEF DrainBegin
  <2>23. CASE StopReadPid
    BY <2>23, Zenon DEF StopReadPid
  <2>24. CASE StopSend
    BY <2>24, Zenon DEF StopSend
  <2>25. CASE StopExited
    BY <2>25, Zenon DEF StopExited
  <2>26. CASE StopTimeout
    BY <2>26, Zenon DEF StopTimeout
  <2>27. CASE StopJoin
    BY <2>27, Zenon DEF StopJoin
  <2>28. CASE StopState
    BY <2>28, Zenon DEF StopState
  <2>29. CASE StopRecord
    BY <2>29, Zenon DEF StopRecord
  <2>30. CASE StopMetaError
    BY <2>30, Zenon DEF StopMetaError
  <2>31. CASE ShutdownJoin
    BY <2>31, Zenon DEF ShutdownJoin
  <2>32. CASE ShutdownState
    BY <2>32, Zenon DEF ShutdownState
  <2>33. CASE ShutdownRecord
    BY <2>33, Zenon DEF ShutdownRecord
  <2>34. CASE DrainTake
    BY <2>34, Zenon DEF DrainTake
  <2>35. CASE DrainEnd
    BY <2>35, Zenon DEF DrainEnd
  <2>36. CASE DrainState
    BY <2>36, Zenon DEF DrainState
  <2>37. CASE DrainRecord
    BY <2>37, Zenon DEF DrainRecord
  <2>38. CASE DrainError
    BY <2>38, Zenon DEF DrainError
  <2>39. CASE SendShutdown
    BY <2>39, Zenon DEF SendShutdown
  <2>40. CASE ManagerLock
    BY <2>40, Zenon DEF ManagerLock
  <2>41. CASE UNCHANGED vars
    BY <2>41 DEF vars
  <2>43. CASE Discover
    BY <2>43 DEF Discover
  <2>44. CASE Allocate
    BY <2>44 DEF Allocate
  <2>45. QED
    BY <2>1, <2>2, <2>3, <2>4, <2>5, <2>6, <2>7, <2>8, <2>9, <2>10,
       <2>11, <2>12, <2>13, <2>14, <2>15, <2>16, <2>17, <2>18, <2>19,
       <2>20, <2>21, <2>22, <2>23, <2>24, <2>25, <2>26, <2>27, <2>28,
       <2>29, <2>30, <2>31, <2>32, <2>33, <2>34, <2>35, <2>36, <2>37,
       <2>38, <2>39, <2>40, <2>41, <2>43, <2>44
    DEF Next, Qemu, Reader, Ticker, Worker, Stop, Shutdown, Drain, Begin, Others
<1>3. QED
  BY <1>1, <1>2, TypeCorrect, PTL DEF Spec

\* QemuManager::stop persists Stopped, and forgets the VM, only after its
\* process has exited and its worker has returned.
THEOREM StoppedMeansGoneHolds == Spec => []StoppedMeansGone
<1>1. StopProgress => StoppedMeansGone
  BY DEF StopProgress, StoppedMeansGone
<1> QED
  BY <1>1, StopProgressCorrect, PTL

\* A manager call that has come to one of the three circular waits never
\* returns, whatever QEMU, the application and the tasks do.
THEOREM StuckForeverHolds == Spec => StuckForever
<1>1. TypeOK /\ LockOK /\ [Next]_vars => [Stuck => Stuck']_vars
  <2> SUFFICES ASSUME TypeOK, LockOK, Stuck, Next
               PROVE  Stuck'
    OBVIOUS
  <2> USE CapsAssumption
      DEF TypeOK, QueuesOK, LockOK, Stuck, StuckOnMetadata, StuckOnTicker,
          StuckOnReader, AwaitsWorker, AwaitsLock, qemuVars, readerVars,
          pollVars, workerVars, lockVars, mgrVars, metaVars, mgrKeeps
  <2>1. ASSUME NEW e \in Events, QemuEmit(e) PROVE Stuck'
    BY <2>1 DEF QemuEmit
  <2>2. CASE QemuAnswer
    BY <2>2 DEF QemuAnswer
  <2>3. CASE QemuExit
    BY <2>3 DEF QemuExit
  <2>4. CASE ReaderRead
    BY <2>4 DEF ReaderRead
  <2>5. CASE ReaderSend
    BY <2>5 DEF ReaderSend
  <2>6. CASE ReaderEof
    BY <2>6 DEF ReaderEof
  <2>7. ASSUME NEW p \in Polls, TickerFire(p) PROVE Stuck'
    BY <2>7 DEF TickerFire
  <2>8. ASSUME NEW p \in Polls, TickerSend(p) PROVE Stuck'
    BY <2>8 DEF TickerSend
  <2>9. ASSUME NEW p \in Polls, TickerCancel(p) PROVE Stuck'
    BY <2>9 DEF TickerCancel
  <2>10. CASE WorkerShutdown
    BY <2>10 DEF WorkerShutdown
  <2>11. CASE WorkerCommand
    BY <2>11 DEF WorkerCommand
  <2>12. CASE WorkerLock
    BY <2>12 DEF WorkerLock
  <2>13. CASE WorkerReplied
    BY <2>13 DEF WorkerReplied
  <2>14. CASE WorkerGaDone
    BY <2>14 DEF WorkerGaDone
  <2>15. CASE WorkerEvent
    BY <2>15 DEF WorkerEvent
  <2>16. CASE WorkerToApp
    BY <2>16 DEF WorkerToApp
  <2>17. CASE WorkerToManager
    BY <2>17 DEF WorkerToManager
  <2>18. CASE WorkerReturn
    BY <2>18 DEF WorkerReturn
  <2>19. CASE AppRecv
    BY <2>19 DEF AppRecv
  <2>20. CASE StopBegin
    BY <2>20 DEF StopBegin
  <2>21. CASE ShutdownBegin
    BY <2>21 DEF ShutdownBegin
  <2>22. CASE DrainBegin
    BY <2>22 DEF DrainBegin
  <2>23. CASE StopReadPid
    BY <2>23 DEF StopReadPid
  <2>24. CASE StopSend
    BY <2>24 DEF StopSend
  <2>25. CASE StopExited
    BY <2>25 DEF StopExited
  <2>26. CASE StopTimeout
    BY <2>26 DEF StopTimeout
  <2>27. CASE StopJoin
    BY <2>27 DEF StopJoin
  <2>28. CASE StopState
    BY <2>28 DEF StopState
  <2>29. CASE StopRecord
    BY <2>29 DEF StopRecord
  <2>30. CASE StopMetaError
    BY <2>30 DEF StopMetaError
  <2>31. CASE ShutdownJoin
    BY <2>31 DEF ShutdownJoin
  <2>32. CASE ShutdownState
    BY <2>32 DEF ShutdownState
  <2>33. CASE ShutdownRecord
    BY <2>33 DEF ShutdownRecord
  <2>34. CASE DrainTake
    BY <2>34 DEF DrainTake
  <2>35. CASE DrainEnd
    BY <2>35 DEF DrainEnd
  <2>36. CASE DrainState
    BY <2>36 DEF DrainState
  <2>37. CASE DrainRecord
    BY <2>37 DEF DrainRecord
  <2>38. CASE DrainError
    BY <2>38 DEF DrainError
  <2>39. CASE SendShutdown
    BY <2>39 DEF SendShutdown
  <2>40. CASE ManagerLock
    BY <2>40 DEF ManagerLock
  <2>43. CASE Discover
    BY <2>43 DEF Discover
  <2>44. CASE Allocate
    BY <2>44 DEF Allocate
  <2>45. QED
    BY <2>1, <2>2, <2>3, <2>4, <2>5, <2>6, <2>7, <2>8, <2>9, <2>10,
       <2>11, <2>12, <2>13, <2>14, <2>15, <2>16, <2>17, <2>18, <2>19,
       <2>20, <2>21, <2>22, <2>23, <2>24, <2>25, <2>26, <2>27, <2>28,
       <2>29, <2>30, <2>31, <2>32, <2>33, <2>34, <2>35, <2>36, <2>37,
       <2>38, <2>39, <2>40, <2>43, <2>44
    DEF Next, Qemu, Reader, Ticker, Worker, Stop, Shutdown, Drain, Begin, Others
<1>2. QED
  BY <1>1, TypeCorrect, LockCorrect, PTL DEF Spec, StuckForever

----------------------------------------------------------------------------
(* Sequences of messages                                                   *)

\* Every event of S was emitted before every event of T.
Below(S, T) == \A m \in S, n \in T : IsEvent(m) /\ IsEvent(n) => m < n

\* What is sorted, and what is in it, part by part.
LEMMA SortedConcat ==
    ASSUME NEW s \in Seq(Message), NEW t \in Seq(Message)
    PROVE  /\ s \o t \in Seq(Message)
           /\ ToSet(s \o t) = ToSet(s) \cup ToSet(t)
           /\ Sorted(s \o t) <=> Sorted(s) /\ Sorted(t) /\ Below(ToSet(s), ToSet(t))
<1> DEFINE u == s \o t
           m == Len(s)
           n == Len(t)
<1>1. u \in Seq(Message) /\ m \in Nat /\ n \in Nat
  OBVIOUS
<1>2. DOMAIN s = 1 .. m /\ DOMAIN t = 1 .. n /\ DOMAIN u = 1 .. (m + n)
  OBVIOUS
<1>3. \A i \in 1 .. m : i \in 1 .. (m + n) /\ u[i] = s[i]
  OBVIOUS
<1>4. \A i \in 1 .. n : m + i \in 1 .. (m + n) /\ u[m + i] = t[m + i - m] /\ m + i - m = i
  OBVIOUS
<1>5. \A i \in 1 .. (m + n) : i \in 1 .. m \/ \E k \in 1 .. n : i = m + k
  <2> SUFFICES ASSUME NEW i \in 1 .. (m + n), i \notin 1 .. m  PROVE i - m \in 1 .. n /\ i = m + (i - m)
    OBVIOUS
  <2> QED  BY <1>1
<1>6. \A i \in 1 .. n : u[m + i] = t[i]
  BY <1>4
<1> HIDE DEF u, m, n
<1>7. ToSet(u) = ToSet(s) \cup ToSet(t)
  BY <1>2, <1>3, <1>4, <1>5, <1>6 DEF ToSet
<1>8. ASSUME Sorted(u)  PROVE Sorted(s) /\ Sorted(t) /\ Below(ToSet(s), ToSet(t))
  <2>1. \A i \in 1 .. m, j \in 1 .. m : i < j /\ IsEvent(s[i]) /\ IsEvent(s[j]) => s[i] < s[j]
    BY <1>2, <1>3, <1>8 DEF Sorted
  <2>2. \A i \in 1 .. n, j \in 1 .. n : i < j /\ IsEvent(t[i]) /\ IsEvent(t[j]) => t[i] < t[j]
    <3> SUFFICES ASSUME NEW i \in 1 .. n, NEW j \in 1 .. n, i < j, IsEvent(t[i]), IsEvent(t[j])
                 PROVE  t[i] < t[j]
      OBVIOUS
    <3>1. m + i \in DOMAIN u /\ m + j \in DOMAIN u /\ u[m + i] = t[i] /\ u[m + j] = t[j]
      BY <1>2, <1>4, <1>6
    <3>2. m + i < m + j
      BY <1>1
    <3> QED  BY <1>8, <3>1, <3>2 DEF Sorted
  <2>3. \A i \in 1 .. m, j \in 1 .. n : IsEvent(s[i]) /\ IsEvent(t[j]) => s[i] < t[j]
    <3> SUFFICES ASSUME NEW i \in 1 .. m, NEW j \in 1 .. n, IsEvent(s[i]), IsEvent(t[j])
                 PROVE  s[i] < t[j]
      OBVIOUS
    <3>1. i \in DOMAIN u /\ m + j \in DOMAIN u /\ u[i] = s[i] /\ u[m + j] = t[j]
      BY <1>2, <1>3, <1>4, <1>6
    <3>2. i < m + j
      BY <1>1
    <3> QED  BY <1>8, <3>1, <3>2 DEF Sorted
  <2> QED  BY <1>2, <2>1, <2>2, <2>3 DEF Sorted, Below, ToSet
<1>9. ASSUME Sorted(s), Sorted(t), Below(ToSet(s), ToSet(t))  PROVE Sorted(u)
  <2> SUFFICES ASSUME NEW i \in 1 .. (m + n), NEW j \in 1 .. (m + n),
                      i < j, IsEvent(u[i]), IsEvent(u[j])
               PROVE  u[i] < u[j]
    BY <1>2 DEF Sorted
  <2>1. CASE j \in 1 .. m
    <3>1. i \in 1 .. m
      BY <1>1, <2>1
    <3> QED  BY <1>2, <1>3, <1>9, <2>1, <3>1 DEF Sorted
  <2>2. ASSUME NEW l \in 1 .. n, i \in 1 .. m, j = m + l  PROVE u[i] < u[j]
    <3>1. u[i] = s[i] /\ u[j] = t[l] /\ s[i] \in ToSet(s) /\ t[l] \in ToSet(t)
      BY <1>2, <1>3, <1>6, <2>2 DEF ToSet
    <3> QED  BY <1>9, <3>1 DEF Below
  <2>3. ASSUME NEW k \in 1 .. n, NEW l \in 1 .. n, i = m + k, j = m + l  PROVE u[i] < u[j]
    <3>1. u[i] = t[k] /\ u[j] = t[l]
      BY <1>6, <2>3
    <3>2. k < l
      BY <1>1, <2>3
    <3> QED  BY <1>2, <1>9, <3>1, <3>2 DEF Sorted
  <2>4. ASSUME NEW k \in 1 .. n, i = m + k, j \in 1 .. m  PROVE FALSE
    BY <1>1, <2>4
  <2> QED  BY <1>5, <2>1, <2>2, <2>3, <2>4
<1> QED
  BY <1>1, <1>7, <1>8, <1>9 DEF u

LEMMA OneElement ==
    ASSUME NEW m \in Message
    PROVE  <<m>> \in Seq(Message) /\ ToSet(<<m>>) = {m} /\ Sorted(<<m>>)
  BY CapsAssumption DEF Message, ToSet, Sorted

LEMMA SortedSnoc ==
    ASSUME NEW s \in Seq(Message), NEW m \in Message
    PROVE  /\ s \o <<m>> \in Seq(Message)
           /\ ToSet(s \o <<m>>) = ToSet(s) \cup {m}
           /\ Sorted(s \o <<m>>) <=> Sorted(s) /\ Below(ToSet(s), {m})
<1> DEFINE t == <<m>>
<1>1. t \in Seq(Message) /\ ToSet(t) = {m} /\ Sorted(t)
  BY OneElement
<1> HIDE DEF t
<1>2. /\ s \o t \in Seq(Message) /\ ToSet(s \o t) = ToSet(s) \cup ToSet(t)
      /\ Sorted(s \o t) <=> Sorted(s) /\ Sorted(t) /\ Below(ToSet(s), ToSet(t))
  BY <1>1, SortedConcat
<1>3. /\ s \o t \in Seq(Message) /\ ToSet(s \o t) = ToSet(s) \cup {m}
      /\ Sorted(s \o t) <=> Sorted(s) /\ Below(ToSet(s), {m})
  BY <1>1, <1>2
<1> QED  BY <1>3 DEF t

\* What sending to a channel, and receiving from one, changes.
LEMMA Sent ==
    ASSUME NEW q \in Seq(Message), NEW m \in Message
    PROVE  /\ ToSet(Append(q, m)) = ToSet(q) \cup {m}
           /\ Sorted(q) /\ Below(ToSet(q), {m}) => Sorted(Append(q, m))
<1>1. Append(q, m) = q \o <<m>>
  OBVIOUS
<1> QED  BY <1>1, SortedSnoc

LEMMA Received ==
    ASSUME NEW q \in Seq(Message), q # <<>>
    PROVE  /\ ToSet(q) = {Head(q)} \cup ToSet(Tail(q))
           /\ Sorted(q) => Sorted(Tail(q)) /\ Below({Head(q)}, ToSet(Tail(q)))
<1>1. q = <<Head(q)>> \o Tail(q) /\ Head(q) \in Message /\ Tail(q) \in Seq(Message)
  OBVIOUS
<1> DEFINE h == <<Head(q)>>  r == Tail(q)
<1>2. /\ ToSet(h \o r) = ToSet(h) \cup ToSet(r)
      /\ Sorted(h \o r) <=> Sorted(h) /\ Sorted(r) /\ Below(ToSet(h), ToSet(r))
  BY <1>1, SortedConcat, OneElement
<1>3. ToSet(h) = {Head(q)} /\ q = h \o r
  BY <1>1, OneElement
<1> HIDE DEF h, r
<1> QED  BY <1>2, <1>3 DEF r

----------------------------------------------------------------------------
(* The events on their way                                                 *)

TakenSet == IF mpc = "drainState" THEN {mev} ELSE {}
Queued   == ToSet(metaq) \cup {wev} \cup ToSet(qmp) \cup {rheld}
Places   == ToSet(applied) \cup TakenSet \cup Queued \cup ToSet(socket)

\* EventsInOrder, place by place.
PlacesSorted ==
    /\ Sorted(applied) /\ Sorted(metaq) /\ Sorted(qmp) /\ Sorted(socket)
    /\ Below(ToSet(applied), TakenSet)
    /\ Below(ToSet(applied) \cup TakenSet, Queued \cup ToSet(socket))
    /\ Below(ToSet(metaq), {wev})
    /\ Below(ToSet(metaq) \cup {wev}, ToSet(qmp))
    /\ Below(ToSet(metaq) \cup {wev} \cup ToSet(qmp), {rheld})
    /\ Below(Queued, ToSet(socket))

\* A task holds an event just while it has one to pass on, the queues of events
\* hold events only, and no event is known that was not emitted.
HandsOK ==
    /\ reader = "reading" => ~IsEvent(rheld)
    /\ reader = "sending" => IsEvent(rheld)
    /\ IsEvent(wev) <=> wphase \in {"app", "meta"}
    /\ mpc \in {"drainState", "drainLock", "drainRecord"} => IsEvent(mev)
    /\ Reply \notin ToSet(metaq) \cup ToSet(qmp)
    /\ \A m \in Places \cup {mev} : m <= Len(emitted)

FlowOK == PlacesSorted /\ HandsOK

\* The pipeline is its places, from the metadata back to the socket.
LEMMA PlacesOfPipeline ==
    ASSUME TypeOK
    PROVE  ToSet(Pipeline) = Places /\ (EventsInOrder <=> PlacesSorted)
<1> USE SortedConcat DEF TypeOK, QueuesOK, ControlOK
<1> DEFINE a == applied \o Taken
           w == metaq \o <<wev>>
           q == w \o qmp
           r == q \o <<rheld>>
<1>1. Taken \in Seq(Message) /\ ToSet(Taken) = TakenSet /\ Sorted(Taken)
  <2>1. CASE mpc = "drainState"
    BY <2>1, OneElement DEF Taken, TakenSet
  <2>2. CASE mpc # "drainState"
    BY <2>2 DEF Taken, TakenSet, ToSet, Sorted
  <2> QED  BY <2>1, <2>2
<1>2. /\ a \in Seq(Message) /\ ToSet(a) = ToSet(applied) \cup TakenSet
      /\ Sorted(a) <=> Sorted(applied) /\ Below(ToSet(applied), TakenSet)
  BY <1>1
<1>3. /\ w \in Seq(Message) /\ ToSet(w) = ToSet(metaq) \cup {wev}
      /\ Sorted(w) <=> Sorted(metaq) /\ Below(ToSet(metaq), {wev})
  BY SortedSnoc
<1> HIDE DEF a, w
<1>4. /\ q \in Seq(Message) /\ ToSet(q) = ToSet(metaq) \cup {wev} \cup ToSet(qmp)
      /\ Sorted(q) <=> Sorted(w) /\ Sorted(qmp) /\ Below(ToSet(metaq) \cup {wev}, ToSet(qmp))
  <2>1. /\ q \in Seq(Message) /\ ToSet(q) = ToSet(w) \cup ToSet(qmp)
        /\ Sorted(q) <=> Sorted(w) /\ Sorted(qmp) /\ Below(ToSet(w), ToSet(qmp))
    BY <1>3
  <2> HIDE DEF q
  <2> QED  BY <1>3, <2>1
<1> HIDE DEF q
<1>5. /\ r \in Seq(Message) /\ ToSet(r) = Queued
      /\ Sorted(r) <=> Sorted(q) /\ Below(ToSet(metaq) \cup {wev} \cup ToSet(qmp), {rheld})
  <2>1. /\ r \in Seq(Message) /\ ToSet(r) = ToSet(q) \cup {rheld}
        /\ Sorted(r) <=> Sorted(q) /\ Below(ToSet(q), {rheld})
    BY <1>4, SortedSnoc
  <2> HIDE DEF r
  <2> QED  BY <1>4, <2>1 DEF Queued
<1> HIDE DEF r
<1>6. /\ r \o socket \in Seq(Message) /\ ToSet(r \o socket) = Queued \cup ToSet(socket)
      /\ Sorted(r \o socket) <=> Sorted(r) /\ Sorted(socket) /\ Below(Queued, ToSet(socket))
  BY <1>5
<1>7. InFlight = r \o socket /\ Pipeline = a \o InFlight
  BY DEF InFlight, Pipeline, a, r, q, w
<1>8. /\ ToSet(Pipeline) = ToSet(a) \cup ToSet(InFlight)
      /\ Sorted(Pipeline) <=> Sorted(a) /\ Sorted(InFlight) /\ Below(ToSet(a), ToSet(InFlight))
  BY <1>2, <1>6, <1>7
<1>9. ToSet(Pipeline) = Places
  BY <1>2, <1>6, <1>7, <1>8 DEF Places
<1>10. Sorted(InFlight) <=>
          /\ Sorted(metaq) /\ Below(ToSet(metaq), {wev})
          /\ Sorted(qmp) /\ Below(ToSet(metaq) \cup {wev}, ToSet(qmp))
          /\ Below(ToSet(metaq) \cup {wev} \cup ToSet(qmp), {rheld})
          /\ Sorted(socket) /\ Below(Queued, ToSet(socket))
  BY <1>3, <1>4, <1>5, <1>6, <1>7
<1>11. Sorted(Pipeline) <=>
          /\ Sorted(applied) /\ Below(ToSet(applied), TakenSet) /\ Sorted(InFlight)
          /\ Below(ToSet(applied) \cup TakenSet, Queued \cup ToSet(socket))
  BY <1>2, <1>6, <1>7, <1>8
<1> QED
  BY <1>9, <1>10, <1>11 DEF EventsInOrder, PlacesSorted

LEMMA PlacesType ==
    ASSUME TypeOK
    PROVE  /\ Places \subseteq Message /\ Message \subseteq Nat
           /\ ToSet(applied) \cup TakenSet \cup Queued \cup ToSet(socket) \subseteq Places
<1>1. \A q \in Seq(Message) : ToSet(q) \subseteq Message
  BY DEF ToSet
<1>2. Places \subseteq Message
  BY <1>1 DEF Places, Queued, TakenSet, TypeOK, QueuesOK, ControlOK
<1> QED  BY <1>2, CapsAssumption DEF Places, Message, Reply

Persisting == {"drainState", "drainLock", "drainRecord"}

\* A step that moves no event.
LEMMA NoEventMoves ==
    ASSUME FlowOK,
           UNCHANGED <<emitted, socket, rheld, qmp, wev, metaq, applied, mev>>,
           reader' \in {reader, "ended"},
           wphase' \in {"app", "meta"} <=> wphase \in {"app", "meta"},
           mpc' \in Persisting => mpc \in Persisting,
           mpc' = "drainState" <=> mpc = "drainState"
    PROVE  FlowOK' /\ UNCHANGED Places
<1>1. UNCHANGED <<TakenSet, Queued, Places>>
  BY DEF TakenSet, Queued, Places
<1>2. PlacesSorted'
  BY <1>1 DEF FlowOK, PlacesSorted
<1>3. HandsOK'
  BY <1>1 DEF FlowOK, HandsOK, Persisting
<1> QED  BY <1>1, <1>2, <1>3 DEF FlowOK

\* QEMU writes to the socket.
LEMMA FlowQemu ==
    ASSUME TypeOK, TypeOK', FlowOK, QemuAnswer \/ \E e \in Events : QemuEmit(e)
    PROVE  FlowOK' /\ Places \subseteq Places'
<1>1. /\ \E m \in Message :
            /\ socket' = Append(socket, m)
            /\ IsEvent(m) => Len(emitted) < m /\ m <= Len(emitted')
      /\ Len(emitted) \in Nat /\ Len(emitted') \in Nat /\ Len(emitted) <= Len(emitted')
      /\ UNCHANGED <<reader, rheld, qmp, wphase, wev, metaq, applied, mpc, mev>>
  <2>1. CASE QemuAnswer
    BY <2>1, CapsAssumption DEF QemuAnswer, TypeOK, QueuesOK, Message, Reply, IsEvent,
        qemuVars, readerVars, workerVars, mgrVars, metaVars
  <2>2. ASSUME NEW e \in Events, QemuEmit(e)
        PROVE  /\ socket' = Append(socket, Len(emitted) + 1) /\ Len(emitted) + 1 \in Message
               /\ Len(emitted) \in Nat /\ Len(emitted') = Len(emitted) + 1
               /\ UNCHANGED <<reader, rheld, qmp, wphase, wev, metaq, applied, mpc, mev>>
    BY <2>2, CapsAssumption DEF QemuEmit, TypeOK, QueuesOK, Message, Reply,
        qemuVars, readerVars, workerVars, mgrVars, metaVars
  <2> QED  BY <2>1, <2>2
<1>2. PICK m \in Message : /\ socket' = Append(socket, m)
                           /\ IsEvent(m) => Len(emitted) < m /\ m <= Len(emitted')
  BY <1>1
<1>3. /\ UNCHANGED <<TakenSet, Queued>> /\ ToSet(socket') = ToSet(socket) \cup {m}
      /\ Sorted(socket) /\ Below(ToSet(socket), {m}) => Sorted(socket')
  BY <1>1, <1>2, Sent DEF TakenSet, Queued, TypeOK, QueuesOK
<1>4. /\ Places \subseteq Nat /\ m \in Nat /\ Places' = Places \cup {m}
      /\ \A x \in Places : x <= Len(emitted)
      /\ Queued \cup ToSet(socket) \cup ToSet(applied) \cup TakenSet \subseteq Places
  BY <1>1, <1>3, PlacesType DEF Places, FlowOK, HandsOK
<1>5. Below(Places, {m})
  <2> SUFFICES ASSUME NEW x \in Places, IsEvent(m)  PROVE x < m
    BY DEF Below
  <2> QED  BY <1>1, <1>2, <1>4
<1>6. PlacesSorted'
  BY <1>1, <1>3, <1>4, <1>5 DEF FlowOK, PlacesSorted, Below
<1>7. HandsOK'
  BY <1>1, <1>2, <1>4, CapsAssumption DEF FlowOK, HandsOK, Message, Reply, IsEvent, TypeOK, ControlOK
<1> QED  BY <1>4, <1>6, <1>7 DEF FlowOK

\* The reader takes a message off the socket and gives an event on.
LEMMA FlowReader ==
    ASSUME TypeOK, FlowOK, ReaderRead \/ ReaderSend
    PROVE  FlowOK' /\ Places \subseteq Places' \cup {Reply}
<1> USE DEF FlowOK, PlacesSorted, HandsOK, TypeOK, QueuesOK, ControlOK, qemuVars, workerVars, mgrVars,
            metaVars
<1>1. CASE ReaderRead
  <2>1. /\ reader = "reading" /\ socket # <<>> /\ socket' = Tail(socket)
        /\ \/ Head(socket) = Reply /\ UNCHANGED <<reader, rheld>>
           \/ reader' = "sending" /\ rheld' = Head(socket) /\ IsEvent(rheld')
        /\ UNCHANGED <<emitted, qmp, wphase, wev, metaq, applied, mpc, mev>>
    BY <1>1 DEF ReaderRead, IsEvent
  <2>2. /\ ToSet(socket) = {Head(socket)} \cup ToSet(socket')
        /\ Sorted(socket') /\ Below({Head(socket)}, ToSet(socket'))
    BY <2>1, Received
  <2>3. ~IsEvent(rheld) /\ TakenSet' = TakenSet
    BY <2>1 DEF TakenSet
  <2>4. rheld' = rheld \/ rheld' = Head(socket)
    BY <2>1
  <2>5. Queued' \subseteq Queued \cup {Head(socket)} /\ Queued \subseteq Queued' \cup {Reply}
    BY <2>1, <2>3, <2>4 DEF Queued, IsEvent
  <2>6. Places' \subseteq Places /\ Places \subseteq Places' \cup {Reply}
    BY <2>1, <2>2, <2>3, <2>5 DEF Places, Queued
  <2>7. PlacesSorted'
    BY <2>1, <2>2, <2>3, <2>4, <2>5 DEF Below, Queued
  <2>8. HandsOK'
    BY <2>1, <2>3, <2>6
  <2> QED  BY <2>6, <2>7, <2>8
<1>2. CASE ReaderSend
  <2>1. /\ reader = "sending" /\ qmp' = Append(qmp, rheld)
        /\ reader' = "reading" /\ rheld' = Reply
        /\ UNCHANGED <<emitted, socket, wphase, wev, metaq, applied, mpc, mev>>
    BY <1>2 DEF ReaderSend
  <2>2. /\ ToSet(qmp') = ToSet(qmp) \cup {rheld}
        /\ Below(ToSet(qmp), {rheld}) => Sorted(qmp')
    BY <2>1, Sent
  <2>3. IsEvent(rheld) /\ ~IsEvent(rheld') /\ TakenSet' = TakenSet
    BY <2>1 DEF TakenSet, IsEvent
  <2>4. Queued' = Queued \cup {Reply} /\ Places' = Places \cup {Reply}
    BY <2>1, <2>2, <2>3 DEF Queued, Places
  <2>5. PlacesSorted'
    <3>1. Sorted(qmp') /\ Below(ToSet(metaq) \cup {wev}, ToSet(qmp'))
      BY <2>2 DEF Below
    <3>2. \A S : Below(S, {rheld'})
      BY <2>3 DEF Below
    <3>3. /\ Below(ToSet(applied) \cup TakenSet, Queued' \cup ToSet(socket))
          /\ Below(Queued', ToSet(socket))
      BY <2>4 DEF Below, IsEvent
    <3> QED  BY <2>1, <2>3, <3>1, <3>2, <3>3
  <2>6. HandsOK'
    BY <2>1, <2>2, <2>3, <2>4 DEF IsEvent, Reply
  <2> QED  BY <2>4, <2>5, <2>6
<1> QED  BY <1>1, <1>2

\* The worker takes an event from its channel, and gives it to the manager.
LEMMA FlowWorker ==
    ASSUME TypeOK, FlowOK, WorkerEvent \/ WorkerToManager
    PROVE  /\ FlowOK'
           /\ \A m \in Places : \/ m \in Places' \cup {Reply}
                                \/ emitted[m] \notin Forwarded
<1> USE DEF FlowOK, PlacesSorted, HandsOK, TypeOK, QueuesOK, ControlOK, qemuVars, workerVars, mgrVars,
            metaVars
<1>1. CASE WorkerEvent
  <2>1. /\ wphase = "select" /\ qmp # <<>> /\ qmp' = Tail(qmp)
        /\ \/ wphase' = "app" /\ wev' = Head(qmp)
           \/ emitted[Head(qmp)] \notin Forwarded /\ UNCHANGED <<wphase, wev>>
        /\ UNCHANGED <<emitted, socket, reader, rheld, metaq, applied, mpc, mev>>
    BY <1>1 DEF WorkerEvent
  <2>2. /\ ToSet(qmp) = {Head(qmp)} \cup ToSet(qmp')
        /\ Sorted(qmp') /\ Below({Head(qmp)}, ToSet(qmp'))
    BY <2>1, Received
  <2>3. ~IsEvent(wev) /\ IsEvent(Head(qmp)) /\ TakenSet' = TakenSet
    BY <2>1, <2>2 DEF TakenSet, IsEvent
  <2>4. wev' = wev \/ wev' = Head(qmp)
    BY <2>1
  <2>5. /\ Queued' \subseteq Queued
        /\ Queued \subseteq Queued' \cup {Reply, Head(qmp)}
        /\ Head(qmp) \in Queued' \/ emitted[Head(qmp)] \notin Forwarded
    BY <2>1, <2>2, <2>3 DEF Queued, IsEvent
  <2>6. Places' \subseteq Places /\ Places \subseteq Places' \cup {Reply, Head(qmp)}
    BY <2>1, <2>3, <2>5 DEF Places
  <2>7. \A m \in Places : m \in Places' \cup {Reply} \/ emitted[m] \notin Forwarded
    BY <2>5, <2>6 DEF Places
  <2>8. PlacesSorted'
    BY <2>1, <2>2, <2>3, <2>4, <2>5 DEF Below, Queued
  <2>9. HandsOK'
    BY <2>1, <2>2, <2>3, <2>6 DEF IsEvent
  <2> QED  BY <2>7, <2>8, <2>9
<1>2. CASE WorkerToManager
  <2>1. /\ wphase = "meta" /\ metaq' = Append(metaq, wev) /\ wev' = Reply /\ wphase' = "select"
        /\ UNCHANGED <<emitted, socket, reader, rheld, qmp, applied, mpc, mev>>
    BY <1>2 DEF WorkerToManager, readerVars
  <2>2. /\ ToSet(metaq') = ToSet(metaq) \cup {wev}
        /\ Below(ToSet(metaq), {wev}) => Sorted(metaq')
    BY <2>1, Sent
  <2>3. IsEvent(wev) /\ ~IsEvent(wev') /\ TakenSet' = TakenSet
    BY <2>1 DEF TakenSet, IsEvent
  <2>4. Queued' = Queued \cup {Reply} /\ Places' = Places \cup {Reply}
    BY <2>1, <2>2, <2>3 DEF Queued, Places
  <2>5. PlacesSorted'
    BY <2>1, <2>2, <2>3, <2>4 DEF Below, Queued, IsEvent
  <2>6. HandsOK'
    BY <2>1, <2>2, <2>3, <2>4 DEF IsEvent, Reply
  <2> QED  BY <2>4, <2>5, <2>6
<1> QED  BY <1>1, <1>2

\* drain takes an event out of its channel, and persists its state.
LEMMA FlowDrain ==
    ASSUME TypeOK, FlowOK, DrainTake \/ DrainState \/ DrainRecord \/ DrainError
    PROVE  FlowOK' /\ Places \subseteq Places' \cup lost'
<1> USE DEF FlowOK, PlacesSorted, HandsOK, TypeOK, QueuesOK, ControlOK, mgrKeeps, readerVars, workerVars,
            Persisting
<1>1. CASE DrainTake
  <2>1. /\ mpc = "drain" /\ metaq # <<>> /\ metaq' = Tail(metaq)
        /\ mev' = Head(metaq) /\ mpc' = "drainState"
        /\ UNCHANGED <<emitted, socket, reader, rheld, qmp, wphase, wev, applied>>
    BY <1>1 DEF DrainTake, metaVars
  <2>2. /\ ToSet(metaq) = {Head(metaq)} \cup ToSet(metaq')
        /\ Sorted(metaq') /\ Below({Head(metaq)}, ToSet(metaq'))
    BY <2>1, Received
  <2>3. /\ TakenSet = {} /\ TakenSet' = {Head(metaq)} /\ Queued = Queued' \cup {Head(metaq)}
        /\ IsEvent(mev')
    BY <2>1, <2>2 DEF TakenSet, Queued, IsEvent
  <2>4. Places' = Places
    BY <2>1, <2>3 DEF Places
  <2>5. PlacesSorted'
    BY <2>1, <2>2, <2>3 DEF Below, Queued
  <2>6. HandsOK'
    BY <2>1, <2>2, <2>3, <2>4 DEF Places
  <2> QED  BY <2>4, <2>5, <2>6
<1>2. CASE DrainState
  <2>1. /\ mpc = "drainState" /\ applied' = Append(applied, mev)
        /\ \/ mpc' = "drainLock" /\ UNCHANGED mev
           \/ mpc' = "drain" /\ mev' = Reply
        /\ UNCHANGED <<emitted, socket, reader, rheld, qmp, wphase, wev, metaq>>
    BY <1>2, Zenon DEF DrainState
  <2>2. /\ ToSet(applied') = ToSet(applied) \cup {mev}
        /\ Below(ToSet(applied), {mev}) => Sorted(applied')
    BY <2>1, Sent
  <2>3. TakenSet = {mev} /\ TakenSet' = {} /\ Queued' = Queued
    BY <2>1 DEF TakenSet, Queued
  <2>4. Places' = Places
    BY <2>1, <2>2, <2>3 DEF Places
  <2>5. PlacesSorted'
    BY <2>1, <2>2, <2>3 DEF Below
  <2>6. HandsOK'
    BY <2>1, <2>4 DEF Reply
  <2> QED  BY <2>4, <2>5, <2>6
<1>3. CASE DrainRecord \/ DrainError
  <2>1. /\ mpc \in Persisting /\ mpc' \notin Persisting /\ mev' = Reply
        /\ mpc = "drainState" => mev \in lost'
        /\ UNCHANGED <<emitted, socket, reader, rheld, qmp, wphase, wev, metaq, applied>>
    BY <1>3 DEF DrainRecord, DrainError
  <2>2. TakenSet' = {} /\ TakenSet \subseteq lost' /\ Queued' = Queued
    BY <2>1 DEF TakenSet, Queued
  <2>3. Places' \subseteq Places /\ Places \subseteq Places' \cup lost'
    BY <2>1, <2>2 DEF Places
  <2>4. PlacesSorted'
    BY <2>1, <2>2 DEF Below
  <2>5. HandsOK'
    BY <2>1, <2>3 DEF Reply
  <2> QED  BY <2>3, <2>4, <2>5
<1> QED  BY <1>1, <1>2, <1>3

\* The steps that move an event, and QEMU's.
Moving == \/ \E e \in Events : QemuEmit(e)
          \/ QemuAnswer \/ ReaderRead \/ ReaderSend \/ WorkerEvent \/ WorkerToManager
          \/ DrainTake \/ DrainState \/ DrainRecord \/ DrainError

LEMMA Elsewhere ==
    ASSUME [Next]_vars, ~Moving
    PROVE  /\ UNCHANGED <<emitted, socket, rheld, qmp, wev, metaq, applied, mev, lost>>
           /\ reader' \in {reader, "ended"}
           /\ wphase' \in {"app", "meta"} <=> wphase \in {"app", "meta"}
           /\ mpc' \in Persisting => mpc \in Persisting
           /\ mpc' = "drainState" <=> mpc = "drainState"
<1> USE DEF Persisting, qemuVars, readerVars, workerVars, mgrVars, metaVars, mgrKeeps
<1>1. CASE QemuExit \/ ReaderEof \/ AppRecv \/ UNCHANGED vars
  BY <1>1 DEF QemuExit, ReaderEof, AppRecv, vars
<1>2. ASSUME NEW p \in Polls, Ticker(p)
      PROVE  UNCHANGED <<emitted, socket, readerVars, workerVars, metaq, mpc, mev, applied, lost>>
  BY <1>2 DEF Ticker, TickerFire, TickerSend, TickerCancel
<1>3. CASE \/ WorkerShutdown \/ WorkerCommand \/ WorkerLock \/ WorkerReplied
           \/ WorkerGaDone \/ WorkerToApp \/ WorkerReturn
  <2>1. UNCHANGED <<emitted, socket, rheld, qmp, wev, metaq, applied, mpc, mev, lost>>
    BY <1>3 DEF WorkerShutdown, WorkerCommand, WorkerLock, WorkerReplied, WorkerGaDone, WorkerToApp,
        WorkerReturn
  <2>2. reader' \in {reader, "ended"}
    BY <1>3 DEF WorkerShutdown, WorkerCommand, WorkerLock, WorkerReplied, WorkerGaDone, WorkerToApp,
        WorkerReturn
  <2>3. wphase' \in {"app", "meta"} <=> wphase \in {"app", "meta"}
    BY <1>3 DEF WorkerShutdown, WorkerCommand, WorkerLock, WorkerReplied, WorkerGaDone, WorkerToApp,
        WorkerReturn
  <2> QED  BY <2>1, <2>2, <2>3
<1>4. CASE Begin \/ Stop
  BY <1>4 DEF Begin, StopBegin, ShutdownBegin, DrainBegin, Stop, StopReadPid, StopSend, StopExited,
      StopTimeout, StopJoin, StopState, StopRecord, StopMetaError
<1>5. CASE Shutdown \/ DrainEnd \/ SendShutdown \/ ManagerLock
  BY <1>5 DEF Shutdown, ShutdownJoin, ShutdownState, ShutdownRecord, DrainEnd, SendShutdown, ManagerLock
<1>6. CASE Others
  BY <1>6 DEF Others, Discover, Allocate
<1> QED
  BY <1>1, <1>2, <1>3, <1>4, <1>5, <1>6 DEF Next, Moving, Qemu, Reader, Worker, Drain

\* No task but the manager changes what the metadata say.
LEMMA ManagerOnly ==
    ASSUME Qemu \/ Reader \/ (\E p \in Polls : Ticker(p)) \/ Worker \/ AppRecv \/ UNCHANGED vars
    PROVE  UNCHANGED <<mpc, vm, mstate, recpid, mev, mseen>> /\ (alive' => alive)
<1> USE DEF Qemu, QemuEmit, QemuAnswer, QemuExit, Reader, ReaderRead, ReaderSend, ReaderEof, Ticker,
      TickerFire, TickerSend, TickerCancel, Worker, WorkerShutdown, WorkerCommand, WorkerLock, WorkerReplied,
      WorkerGaDone, WorkerEvent, WorkerToApp, WorkerToManager, WorkerReturn, AppRecv, vars, qemuVars,
      mgrVars, metaVars
<1>1. UNCHANGED <<mpc, vm, mstate, recpid, mev, mseen>>
  OBVIOUS
<1>2. UNCHANGED alive \/ QemuExit
  OBVIOUS
<1>3. CASE QemuExit
  BY <1>1, <1>3
<1> QED  BY <1>1, <1>2, <1>3

\* Only QEMU emits events, and what drain has failed to persist stays lost.
LEMMA Histories ==
    ASSUME TypeOK, [Next]_vars
    PROVE  /\ lost \subseteq lost'
           /\ \A n \in DOMAIN emitted : n # Reply /\ emitted'[n] = emitted[n]
           /\ emitted' = emitted \/ \E e \in Events : QemuEmit(e)
<1>1. emitted' = emitted \/ \E e \in Events : QemuEmit(e)
  BY Elsewhere DEF Moving, QemuAnswer, ReaderRead, ReaderSend, WorkerEvent, WorkerToManager, DrainTake,
      DrainState, DrainRecord, DrainError, qemuVars, mgrKeeps
<1>2. lost \subseteq lost'
  BY Elsewhere DEF Moving, QemuEmit, QemuAnswer, ReaderRead, ReaderSend, WorkerEvent, WorkerToManager,
      DrainTake, DrainState, DrainRecord, DrainError, metaVars
<1>3. \A e : \A n \in DOMAIN emitted : n # 0 /\ Append(emitted, e)[n] = emitted[n]
  <2>1. emitted \in Seq(Events)
    BY DEF TypeOK, QueuesOK
  <2> QED  BY <2>1
<1> QED  BY <1>1, <1>2, <1>3 DEF QemuEmit, Reply

\* Events keep their order, and none leaves its place but for the next, or to be
\* dropped because nobody is told of it, or by a drain that fails.
LEMMA FlowStep ==
    ASSUME TypeOK, TypeOK', FlowOK, [Next]_vars
    PROVE  /\ FlowOK'
           /\ \A m \in Places : \/ m \in Places' \cup lost' \cup {Reply}
                                \/ emitted[m] \notin Forwarded
<1>1. CASE Moving
  BY <1>1, FlowQemu, FlowReader, FlowWorker, FlowDrain DEF Moving
<1>2. CASE ~Moving
  BY <1>2, Elsewhere, NoEventMoves
<1> QED  BY <1>1, <1>2

LEMMA FlowCorrect == Spec => []FlowOK
<1>1. Init => FlowOK
  BY DEF Init, FlowOK, PlacesSorted, HandsOK, Places, Queued, TakenSet, Below, Sorted, ToSet, IsEvent, Reply
<1> QED
  BY <1>1, FlowStep, TypeCorrect, PTL DEF Spec

\* The states are persisted in the order in which QEMU emitted the events and
\* each at most once (comm.rs reader, worker_process, drain_worker_events).
THEOREM EventsInOrderHolds == Spec => []EventsInOrder
<1>1. TypeOK /\ FlowOK => EventsInOrder
  BY PlacesOfPipeline DEF FlowOK
<1> QED
  BY <1>1, FlowCorrect, TypeCorrect, PTL

\* While the worker runs, an event it forwards is on its way or persisted, unless
\* a drain failed to persist it (handle_event, forward_worker_event,
\* drain_worker_events).
THEOREM NoEventLostHolds == Spec => []NoEventLost
<1> DEFINE Kept == \A n \in DOMAIN emitted : emitted[n] \in Forwarded => n \in Places \cup lost
<1>1. Init => Kept
  BY DEF Init
<1>2. TypeOK /\ TypeOK' /\ FlowOK /\ Kept /\ [Next]_vars => Kept'
  <2> SUFFICES ASSUME TypeOK, TypeOK', FlowOK, Kept, [Next]_vars,
                      NEW n \in DOMAIN emitted', emitted'[n] \in Forwarded
               PROVE  n \in Places' \cup lost'
    OBVIOUS
  <2>1. CASE n \in DOMAIN emitted
    BY <2>1, FlowStep, Histories
  <2>2. CASE n \notin DOMAIN emitted
    <3>1. PICK e \in Events : QemuEmit(e)
      BY <2>2, Histories
    <3>2. n = Len(emitted) + 1 /\ socket' = Append(socket, n) /\ n \in Message
      <4>1. /\ emitted \in Seq(Events) /\ emitted' = Append(emitted, e)
            /\ socket' = Append(socket, Len(emitted) + 1) /\ Len(emitted) < MaxEvents
        BY <3>1 DEF QemuEmit, TypeOK, QueuesOK
      <4>2. Len(emitted) \in Nat /\ DOMAIN emitted = 1 .. Len(emitted)
        BY <4>1
      <4>3. n \in 1 .. Len(emitted) + 1
        BY <4>1
      <4>4. n = Len(emitted) + 1
        BY <2>2, <4>2, <4>3
      <4> QED  BY <4>1, <4>2, <4>4, CapsAssumption DEF Message
    <3>3. ToSet(socket') = ToSet(socket) \cup {n}
      BY <3>2, Sent DEF TypeOK, QueuesOK
    <3> QED  BY <3>3 DEF Places
  <2> QED  BY <2>1, <2>2
<1>3. TypeOK /\ Kept => NoEventLost
  BY PlacesOfPipeline DEF NoEventLost
<1> HIDE DEF Kept
<1> QED
  BY <1>1, <1>2, <1>3, FlowCorrect, TypeCorrect, PTL DEF Spec

\* Where the manager may be while the metadata say that QEMU runs and the record
\* has no pid: drain has persisted the state of the event it holds, or shutdown
\* has persisted Running.  What drain persists it has from the event, what
\* shutdown persists from a process that was there; and once shutdown has
\* forgotten the VM its record has the pid, so drain need not write it.
RecordOK ==
    /\ alive /\ mstate \in {"Running", "Paused"} =>
         recpid \/ mpc \in {"drainLock", "drainRecord", "shutRecord"}
    /\ mpc \in {"drainLock", "drainRecord"} =>
         mstate = StateOf(emitted[mev]) /\ vm = "registered"
    /\ mpc \in {"shutState", "shutRecord"} => (alive => mseen)
    /\ alive /\ vm = "shutdown" => recpid \/ mpc \in ShutPcs

\* Between two calls, as long as QEMU lives, the record of a VM that the metadata
\* say is running or paused has the pid (stop, shutdown, drain_worker_events,
\* allocate and discover_existing_from_metadata write the two one by one).
THEOREM RunningHasPidHolds == Spec => []RunningHasPid
<1>1. Init => RecordOK
  BY DEF Init, RecordOK
<1>2. ASSUME TypeOK, TypeOK', FlowOK, StopProgress, RecordOK, ~MetaMayFail, [Next]_vars
      PROVE  RecordOK'
  <2> USE <1>2 DEF RecordOK, StopProgress, ShutPcs, qemuVars, readerVars, workerVars, mgrVars, metaVars,
                   mgrKeeps
  <2>1. CASE UNCHANGED <<mpc, vm, mstate, recpid, mev, mseen>> /\ (alive' => alive)
    <3>1. mpc \in {"drainLock", "drainRecord"} => mev \in DOMAIN emitted
      <4>1. mev \in Nat /\ mev <= Len(emitted) /\ emitted \in Seq(Events)
        BY PlacesType DEF FlowOK, HandsOK, TypeOK, QueuesOK, ControlOK
      <4>2. mpc \in {"drainLock", "drainRecord"} => mev # 0
        BY DEF FlowOK, HandsOK, IsEvent, Reply
      <4> QED  BY <4>1, <4>2
    <3>2. mpc \in {"drainLock", "drainRecord"} => emitted'[mev] = emitted[mev]
      BY <3>1, Histories
    <3> QED  BY <2>1, <3>2
  <2>2. CASE Begin \/ Stop
    BY <2>2 DEF Begin, StopBegin, ShutdownBegin, DrainBegin, Stop, StopReadPid, StopSend, StopExited,
      StopTimeout, StopJoin, StopState, StopRecord, StopMetaError
  <2>3. CASE Shutdown \/ SendShutdown
    BY <2>3 DEF Shutdown, ShutdownJoin, ShutdownState, ShutdownRecord, SendShutdown
  <2>4. CASE ManagerLock
    <3>1. /\ \/ mpc = "stopLock" /\ mpc' = "stopState" /\ mseen' = mseen
             \/ mpc = "shutLock" /\ mpc' = "shutState" /\ mseen' = alive
             \/ mpc = "drainLock" /\ mpc' = "drainRecord" /\ mseen' = mseen
          /\ UNCHANGED <<alive, emitted, mev, vm, mstate, recpid>>
      BY <2>4, Zenon DEF ManagerLock
    <3> QED  BY <3>1
  <2>5. CASE DrainTake \/ DrainEnd \/ DrainError
    BY <2>5 DEF DrainTake, DrainEnd, DrainError
  <2>6. CASE DrainState
    <3>1. /\ mstate' = StateOf(emitted[mev])
          /\ \/ vm = "registered" /\ mpc' = "drainLock" /\ mev' = mev
             \/ vm # "registered" /\ mpc' = "drain"
          /\ mpc = "drainState" /\ UNCHANGED <<alive, emitted, vm, recpid, mseen>>
      BY <2>6, Zenon DEF DrainState
    <3>2. vm # "registered" /\ alive => recpid
      BY <3>1 DEF TypeOK, ControlOK
    <3> QED  BY <3>1, <3>2
  <2>7. CASE DrainRecord
    <3>1. /\ recpid' = (mstate \in {"Running", "Paused"}) /\ vm = "registered"
          /\ mpc' = "drain" /\ UNCHANGED <<alive, vm, mstate, mseen>>
      BY <2>7, Zenon DEF DrainRecord
    <3> QED  BY <3>1
  <2>8. CASE Others
    BY <2>8 DEF Others, Discover, Allocate, FlowOK, TypeOK, FlagsOK
  <2> QED
    BY <2>1, <2>2, <2>3, <2>4, <2>5, <2>6, <2>7, <2>8, ManagerOnly DEF Next, Drain
<1>3. RecordOK => RunningHasPid
  BY DEF RecordOK, RunningHasPid
<1>4. CASE ~MetaMayFail
  BY <1>1, <1>2, <1>3, <1>4, FlowCorrect, StopProgressCorrect, TypeCorrect, PTL DEF Spec
<1>5. CASE MetaMayFail
  <2>1. RunningHasPid
    BY <1>5 DEF RunningHasPid
  <2> QED  BY <2>1, PTL
<1> QED  BY <1>4, <1>5

=============================================================================
