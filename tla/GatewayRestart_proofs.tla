------------------------ MODULE GatewayRestart_proofs ------------------------
(***************************************************************************)
(* Proofs about GatewayRestart: the run loop drives the command queue by   *)
(* the queue's own operations only, so everything proved of the queue      *)
(* holds across restarts; what the gateway guarantees about its lock and   *)
(* the draining flag; what it waited for; and that it implements           *)
(* GatewayLife, whenever its signals arrive.                               *)
(***************************************************************************)
EXTENDS GatewayRestart, CommandQueue_proofs

(* Seen from the queue, every step of the gateway is an operation of it.   *)
LEMMA GatewayStepIsQueueStep == [GatewayNext]_allVars => [QueueNext]_vars
<1> SUFFICES ASSUME [GatewayNext]_allVars PROVE [QueueNext]_vars
  OBVIOUS
<1> DEFINE Marks == gatewayDraining' = TRUE /\ EventLoop
                    /\ UNCHANGED <<laneVars, job, taskGeneration, stack, lanesToDrain>>
<1>1. Marks => MarkGatewayDraining
  BY DEF MarkGatewayDraining
<1>2. ASSUME EventLoop, Restart PROVE Marks \/ UNCHANGED vars
  BY <1>2 DEF Restart, BeginShutdown
<1>3. CASE QueueStep
  BY <1>3 DEF QueueStep, QueueNext
<1>4. CASE StopSignal
  BY <1>4 DEF StopSignal, BeginShutdown, CloseOrGoOn, HandlerRuns, laneVars, vars
<1>5. CASE DrainEnds \/ ServerCloses \/ LockReleased \/ InProcessRestart \/ Started
          \/ ScheduleGatewaySigusr1Restart
  BY <1>5 DEF DrainEnds, ServerCloses, LockReleased, InProcessRestart, Started, ScheduleGatewaySigusr1Restart
<1>6. CASE ForceExit \/ ProcessEnds \/ RelockFails \/ StartFails
  BY <1>6 DEF ForceExit, ProcessEnds, RelockFails, StartFails, Exit
<1>7. CASE Iterate
  BY <1>7 DEF Iterate, OnIteration, QueueNext
<1>8. CASE TimerFires \/ PollEnds \/ ConfigReload
  BY <1>1, <1>2, <1>8 DEF TimerFires, PollEnds, ConfigReload, HandlerRuns, QueueNext
<1>9. CASE ExternalSigusr1
  BY <1>1, <1>9 DEF ExternalSigusr1, BeginShutdown, CloseOrGoOn, HandlerRuns, QueueNext
<1>10. CASE UNCHANGED allVars
  BY <1>10 DEF allVars
<1>11. QED
  BY <1>3, <1>4, <1>5, <1>6, <1>7, <1>8, <1>9, <1>10 DEF GatewayNext

(* The run loop implements the open specification of the queue: whatever    *)
(* restarts do, they act on the lanes by markGatewayDraining, resetAllLanes *)
(* and the callbacks of the queue.                                          *)
THEOREM GatewayImplementsQueue == GatewaySpec => Init /\ [][QueueNext]_vars
<1>1. GatewayInit => Init
  BY DEF GatewayInit
<1>2. QED
  BY <1>1, GatewayStepIsQueueStep, PTL DEF GatewaySpec

(* Restarts, timed-out drains and interrupted tasks included, no lane of a   *)
(* gateway is stranded, no slot leaks and no accepted entry is lost.         *)
THEOREM QueueSurvivesRestarts ==
    GatewaySpec => [](NoLostWakeup /\ DrainingHasOwner /\ SlotsMatchTasks /\ QueueMatchesJobs)
<1>1. IndInv => NoLostWakeup /\ DrainingHasOwner /\ SlotsMatchTasks /\ QueueMatchesJobs
  BY DEF IndInv
<1>2. QED
  BY <1>1, GatewayImplementsQueue, InitInd, NextInd, PTL

(* Those who use the lanes of a gateway see its restarts as resets only.     *)
THEOREM GatewayServesLanes == GatewaySpec => ImplementsLanes
  BY GatewayImplementsQueue, InitInd, NextInd, ServiceInit, ServiceStep, PTL
     DEF ImplementsLanes, Service!Spec

(* Restarts do not make jobs wait for each other in a circle, the tasks that *)
(* they interrupt and whose inner entries go on waiting included.            *)
THEOREM GatewayHasNoCircularWait ==
    ASSUME NEW Rank, Ranked(Rank)
    PROVE  GatewaySpec => []NoDeadlock
<1>1. IndInv /\ AwaitInv => NoDeadlock
  BY NobodyIsStuck
<1>2. QED
  BY <1>1, GatewayImplementsQueue, InitInd, NextInd, AwaitInit, AwaitStep, PTL

-----------------------------------------------------------------------------
(* The lock, the port and the draining flag. *)

(* A gateway gives its lock up only in the shutdown it is in.              *)
LockInv ==
    /\ shuttingDown <=> (shutdown # "idle")
    /\ ServesUnderLock

(* A shutdown finds the loop in start() or waiting for its resolver, which is *)
(* the only time it can be woken; what a server listens for is known to the   *)
(* loop; and the queue refuses work from the signal to the end of the shutdown *)
(* and the reset of the next iteration, or until then when that end was missed.*)
LifeInv ==
    /\ (Alive /\ shuttingDown) => loop \in {"starting", "serving"}
    /\ Alive => (resolver = "waiting" <=> loop = "serving")
    /\ loop \in {"starting", "serving"} => ~firstIteration
    /\ (Alive /\ gatewayDraining) =>
           shuttingDown \/ missed \/ (loop = "iterate" /\ ~firstIteration)
    /\ listening <=> serverRef

(* The operations of the queue leave the draining flag alone.               *)
LEMMA QueueKeepsDrainingMark == QueueStep => gatewayDraining' = gatewayDraining
<1> SUFFICES ASSUME QueueStep PROVE gatewayDraining' = gatewayDraining
  OBVIOUS
<1>1. ASSUME Synchronous PROVE gatewayDraining' = gatewayDraining
  BY <1>1 DEF Synchronous, PumpStart, PumpExit, ResetStep, TaskAwaits, TaskThrows, TaskEnqueuesInner
<1>2. ASSUME Callback PROVE gatewayDraining' = gatewayDraining
  BY <1>2 DEF Callback, Enqueue, TaskEnds, SetCommandLaneConcurrency, ClearCommandLane
<1>3. QED
  BY <1>1, <1>2 DEF QueueStep

(* A restart request in a gateway that serves, from wherever it comes.      *)
LEMMA RestartStep ==
    LockInv /\ Restart =>
       /\ missed' = missed
       /\ loop' = loop /\ firstIteration' = firstIteration /\ resolver' = resolver
       /\ serverRef' = serverRef /\ listening' = listening /\ locked' = locked
       /\ \/ /\ gatewayDraining' = gatewayDraining
             /\ shuttingDown' = shuttingDown /\ shutdown' = shutdown
          \/ /\ gatewayDraining' = TRUE /\ shuttingDown' = TRUE
             /\ shutdown' \in {"closing", "closed", "draining"}
             /\ shutdown = "idle"
  BY DEF LockInv, Restart, BeginShutdown, CloseOrGoOn, shutdownVars, loopVars, vars

(* What a step of the config watcher can do.                                *)
LEMMA ConfigReloadStep ==
    ConfigReload => loop = "serving" /\ (Restart \/ UNCHANGED <<vars, loopVars, shutdownVars, missed>>)
  BY DEF ConfigReload

LEMMA LockStep == LockInv /\ [GatewayNext]_allVars => LockInv'
<1> SUFFICES ASSUME LockInv, [GatewayNext]_allVars PROVE LockInv'
  OBVIOUS
<1> USE DEF LockInv, ServesUnderLock, Alive
<1>1. CASE QueueStep
  BY <1>1 DEF QueueStep, gwVars
<1>2. CASE StopSignal
  BY <1>2 DEF StopSignal, BeginShutdown, CloseOrGoOn, HandlerRuns, loopVars
<1>3. CASE DrainEnds
  BY <1>3 DEF DrainEnds, CloseOrGoOn, loopVars
<1>4. CASE ServerCloses \/ LockReleased
  BY <1>4 DEF ServerCloses, LockReleased
<1>5. CASE ForceExit \/ ProcessEnds \/ RelockFails \/ StartFails
  BY <1>5 DEF ForceExit, ProcessEnds, RelockFails, StartFails, Exit, shutdownVars
<1>6. CASE InProcessRestart
  BY <1>6 DEF InProcessRestart, ReacquireLockForInProcessRestart
<1>7. CASE Iterate \/ Started
  BY <1>7 DEF Iterate, Started, shutdownVars
<1>8. CASE ScheduleGatewaySigusr1Restart
  BY <1>8 DEF ScheduleGatewaySigusr1Restart, loopVars, shutdownVars
<1>9. CASE TimerFires
  BY <1>9, RestartStep DEF TimerFires, HandlerRuns, loopVars, shutdownVars
<1>10. CASE PollEnds
  BY <1>10, RestartStep DEF PollEnds, HandlerRuns, loopVars, shutdownVars
<1>11. CASE ConfigReload
  BY <1>11, ConfigReloadStep, RestartStep DEF loopVars, shutdownVars
<1>12. CASE ExternalSigusr1
  BY <1>12 DEF ExternalSigusr1, BeginShutdown, CloseOrGoOn, HandlerRuns, loopVars
<1>13. CASE UNCHANGED allVars
  BY <1>13 DEF allVars, gwVars
<1>14. QED
  BY <1>1, <1>2, <1>3, <1>4, <1>5, <1>6, <1>7, <1>8, <1>9, <1>10, <1>11, <1>12, <1>13
     DEF GatewayNext

LEMMA LockAlways == GatewaySpec => []LockInv
<1>1. GatewayInit => LockInv
  BY DEF GatewayInit, LockInv, ServesUnderLock
<1>2. QED
  BY <1>1, LockStep, PTL DEF GatewaySpec

(* A gateway that runs and is not between two lives holds the lock that      *)
(* keeps a second gateway away: also after a respawn that failed, and when a *)
(* signal arrives while it starts.                                           *)
THEOREM GatewayHoldsLock == GatewaySpec => []ServesUnderLock
<1>1. LockInv => ServesUnderLock
  BY DEF LockInv
<1>2. QED
  BY <1>1, LockAlways, PTL

LEMMA LifeInvStep == LockInv /\ LifeInv /\ [GatewayNext]_allVars => LifeInv'
<1> SUFFICES ASSUME LockInv, LifeInv, [GatewayNext]_allVars PROVE LifeInv'
  OBVIOUS
<1> USE DEF LifeInv, Alive
<1>1. CASE QueueStep
  BY <1>1, QueueKeepsDrainingMark DEF QueueStep, gwVars
<1>2. CASE StopSignal
  BY <1>2 DEF StopSignal, BeginShutdown, CloseOrGoOn, HandlerRuns, loopVars, historyVars
<1>3. CASE DrainEnds
  BY <1>3 DEF DrainEnds, CloseOrGoOn, loopVars, historyVars, vars
<1>4. CASE ServerCloses \/ LockReleased
  BY <1>4 DEF ServerCloses, LockReleased, CloseServer, historyVars, vars
<1>5. CASE ForceExit \/ ProcessEnds \/ RelockFails \/ StartFails
  BY <1>5 DEF ForceExit, ProcessEnds, RelockFails, StartFails, Exit, shutdownVars, historyVars
<1>6. CASE InProcessRestart
  BY <1>6 DEF InProcessRestart, ResolveRestart, LockInv, vars
<1>7. CASE Iterate
  BY <1>7 DEF Iterate, OnIteration, ResetAllLanes, shutdownVars, vars
<1>8. CASE Started
  BY <1>8 DEF Started, LockInv, shutdownVars, historyVars, vars
<1>9. CASE ScheduleGatewaySigusr1Restart
  BY <1>9 DEF ScheduleGatewaySigusr1Restart, loopVars, shutdownVars, vars
<1>10. CASE TimerFires
  BY <1>10, RestartStep DEF TimerFires, HandlerRuns, loopVars, shutdownVars, vars
<1>11. CASE PollEnds
  BY <1>11, RestartStep DEF PollEnds, HandlerRuns, loopVars
<1>12. CASE ConfigReload
  BY <1>12, ConfigReloadStep, RestartStep DEF loopVars, shutdownVars, vars
<1>13. CASE ExternalSigusr1
  BY <1>13 DEF ExternalSigusr1, BeginShutdown, CloseOrGoOn, HandlerRuns, loopVars
<1>14. CASE UNCHANGED allVars
  BY <1>14 DEF allVars, gwVars, vars
<1>15. QED
  BY <1>1, <1>2, <1>3, <1>4, <1>5, <1>6, <1>7, <1>8, <1>9, <1>10, <1>11, <1>12, <1>13, <1>14
     DEF GatewayNext

LEMMA LifeInvAlways == GatewaySpec => []LifeInv
<1>1. GatewayInit => LifeInv
  BY DEF GatewayInit, Init, LifeInv, Alive
<1>2. QED
  BY <1>1, LifeInvStep, LockAlways, PTL DEF GatewaySpec

(* Every restart that is over while the gateway serves leaves one that accepts *)
(* work again: the draining flag of the queue outlives the shutdown that set   *)
(* it only when that shutdown was over before start() returned, and then until *)
(* the next restart.                                                           *)
THEOREM GatewayAcceptsWork == GatewaySpec => []ServesMeansAccepts
<1>1. LifeInv => ServesMeansAccepts
  BY DEF LifeInv, ServesMeansAccepts, Alive
<1>2. QED
  BY <1>1, LifeInvAlways, PTL

-----------------------------------------------------------------------------
(* What a restart waits for. *)

(* A task is started once: no operation of the queue takes a task that was   *)
(* started, or refused, back to the queue or to another generation.          *)
LEMMA TasksStartOnce ==
    ASSUME IndInv, [QueueNext]_vars, NEW j \in Jobs, job[j] \notin {"new", "queued"}
    PROVE  /\ job'[j] \notin {"new", "queued"}
           /\ job'[j] = "running" => job[j] = "running" /\ taskGeneration'[j] = taskGeneration[j]
<1> DEFINE Kept == /\ job'[j] \notin {"new", "queued"}
                   /\ job'[j] = "running" =>
                          job[j] = "running" /\ taskGeneration'[j] = taskGeneration[j]
<1>1. job \in [Jobs -> JobState] /\ taskGeneration \in [Jobs -> Nat]
  BY DEF IndInv, TypeOK
<1>2. ASSUME NEW l \in Lanes, PumpStart(l) PROVE Kept
  <2>1. Head(queue[l]) # j
    BY <1>2, HeadFacts DEF PumpStart, CanStart
  <2>2. job' = [job EXCEPT ![Head(queue[l])] = "running"]
        /\ taskGeneration' = [taskGeneration EXCEPT ![Head(queue[l])] = generation[l]]
    BY <1>2 DEF PumpStart
  <2>3. QED
    BY <1>1, <2>1, <2>2
<1>3. ASSUME NEW l \in Lanes, PumpExit(l) PROVE Kept
  BY <1>1, <1>3 DEF PumpExit
<1>4. ASSUME NEW k \in Jobs, NEW s, EnqueueCommandInLane(k, s), job[k] = "new",
             UNCHANGED taskGeneration
      PROVE  Kept
  BY <1>1, <1>4 DEF EnqueueCommandInLane
<1>5. ASSUME NEW k \in Jobs, NEW s, CompleteTask(k, s), UNCHANGED taskGeneration
      PROVE  Kept
  BY <1>1, <1>5 DEF CompleteTask
<1>6. ASSUME NEW k \in Jobs, TaskEnqueuesInner(k) PROVE Kept
  <2>1. Inner[k] \in Jobs /\ job[Inner[k]] = "new"
    BY <1>6, InnerAssumption DEF TaskEnqueuesInner, IndInv, InnerIsNew
  <2>2. QED
    BY <1>4, <1>6, <2>1 DEF TaskEnqueuesInner
<1>7. ASSUME NEW l \in Lanes, ClearCommandLane(l) PROVE Kept
  BY <1>1, <1>7 DEF ClearCommandLane
<1>8. ASSUME UNCHANGED <<job, taskGeneration>> PROVE Kept
  BY <1>8
<1>9. CASE Synchronous
  BY <1>2, <1>3, <1>5, <1>6, <1>8, <1>9 DEF Synchronous, ResetStep, TaskAwaits, TaskThrows
<1>10. CASE Callback
  BY <1>4, <1>5, <1>7, <1>8, <1>10 DEF Callback, Enqueue, TaskEnds, SetCommandLaneConcurrency
<1>11. CASE MarkGatewayDraining \/ ResetAllLanes
  BY <1>8, <1>11 DEF MarkGatewayDraining, ResetAllLanes
<1>12. CASE UNCHANGED vars
  BY <1>8, <1>12 DEF vars
<1>13. QED
  BY <1>9, <1>10, <1>11, <1>12 DEF QueueNext

(* Only the reset between two lives of the gateway moves the generations.  *)
LEMMA IterateMovesGenerations ==
    ASSUME [GatewayNext]_allVars, ~Iterate
    PROVE  generation' = generation
<1>1. ASSUME Restart PROVE generation' = generation
  BY <1>1 DEF Restart, vars, laneVars
<1>2. CASE QueueStep
  <2>1. Synchronous => generation' = generation
    BY DEF Synchronous, PumpStart, PumpExit, ResetStep, TaskAwaits, TaskThrows,
           TaskEnqueuesInner, laneVars
  <2>2. Callback => generation' = generation
    BY DEF Callback, Enqueue, TaskEnds, SetCommandLaneConcurrency, ClearCommandLane
  <2>3. QED
    BY <1>2, <2>1, <2>2 DEF QueueStep
<1>3. CASE StopSignal \/ ExternalSigusr1
  BY <1>3 DEF StopSignal, ExternalSigusr1, laneVars
<1>4. CASE DrainEnds \/ ServerCloses \/ LockReleased \/ InProcessRestart \/ Started
          \/ ScheduleGatewaySigusr1Restart
  BY <1>4 DEF DrainEnds, ServerCloses, LockReleased, InProcessRestart, Started,
              ScheduleGatewaySigusr1Restart, vars
<1>5. CASE ForceExit \/ ProcessEnds \/ RelockFails \/ StartFails
  BY <1>5 DEF ForceExit, ProcessEnds, RelockFails, StartFails, Exit, vars
<1>6. CASE TimerFires \/ PollEnds \/ ConfigReload
  BY <1>1, <1>6 DEF TimerFires, PollEnds, ConfigReload, vars
<1>7. CASE UNCHANGED allVars
  BY <1>7 DEF allVars, vars
<1>8. QED
  BY <1>2, <1>3, <1>4, <1>5, <1>6, <1>7 DEF GatewayNext

(* A wait that was not cut short leaves none of its tasks running, and the   *)
(* lanes are reset only when no shutdown is under way.                       *)
DrainInv ==
    /\ activeAtStart \subseteq Jobs
    /\ \A j \in activeAtStart : job[j] \notin {"new", "queued"}
    /\ shutdown = "draining" => drained
    /\ loop = "iterate" => shutdown = "idle"
    /\ drained /\ shutdown # "draining" => \A j \in activeAtStart : job[j] # "running"
    /\ DrainedRestartLeavesNoTask

(* The tasks in the slots are running tasks of their lane's generation, and no  *)
(* other running task is of that generation.                                    *)
LEMMA ActiveTasksRun ==
    ASSUME IndInv
    PROVE  ActiveTasks = {j \in Jobs : job[j] = "running" /\ taskGeneration[j] = generation[LaneOf[j]]}
<1>1. \A j \in Jobs : LaneOf[j] \in Lanes
  BY LaneOfAssumption
<1>2. QED
  BY <1>1 DEF IndInv, SlotsMatchTasks, ActiveTasks

(* A request begins to wait for the tasks of now; the gateway is not between *)
(* two lives then.                                                           *)
WaitBegins ==
    /\ activeAtStart' = ActiveTasks
    /\ drained' = TRUE
    /\ shutdown' = IF ActiveTasks = {} THEN CloseOrGoOn ELSE "draining"
    /\ loop' = loop /\ loop # "iterate"
    /\ UNCHANGED <<job, taskGeneration, generation>>

(* A step that is not about the wait.                                        *)
WaitKept ==
    /\ activeAtStart' = activeAtStart /\ drained' = drained
    /\ shutdown' = shutdown \/ (shutdown # "draining" /\ shutdown' # "draining")
    /\ loop' = "iterate" => shutdown' = "idle"

LEMMA RestartWaits ==
    ASSUME Restart, LockInv, loop # "iterate"
    PROVE  WaitKept \/ WaitBegins
  BY DEF Restart, BeginShutdown, CloseOrGoOn, WaitBegins, WaitKept, vars, laneVars, loopVars, shutdownVars

LEMMA WaitStep ==
    ASSUME [GatewayNext]_allVars, LockInv, loop = "iterate" => shutdown = "idle"
    PROVE  WaitKept \/ (WaitBegins /\ ~Iterate) \/ (DrainEnds /\ ~Iterate)
<1>1. CASE QueueStep
  BY <1>1 DEF QueueStep, gwVars, WaitKept
<1>2. CASE StopSignal
  BY <1>2 DEF StopSignal, BeginShutdown, CloseOrGoOn, HandlerRuns, loopVars, WaitKept, LockInv
<1>3. CASE DrainEnds
  BY <1>3 DEF DrainEnds, CloseOrGoOn, Iterate, shutdownVars, loopVars, LockInv
<1>4. CASE ServerCloses \/ LockReleased
  BY <1>4 DEF ServerCloses, LockReleased, WaitKept
<1>5. CASE ForceExit \/ ProcessEnds \/ RelockFails \/ StartFails
  BY <1>5 DEF ForceExit, ProcessEnds, RelockFails, StartFails, Exit, shutdownVars, WaitKept
<1>6. CASE InProcessRestart
  BY <1>6 DEF InProcessRestart, WaitKept
<1>7. CASE Iterate \/ Started
  BY <1>7 DEF Iterate, Started, shutdownVars, WaitKept
<1>8. CASE ScheduleGatewaySigusr1Restart
  BY <1>8 DEF ScheduleGatewaySigusr1Restart, loopVars, shutdownVars, WaitKept
<1>9. ASSUME Restart, loop # "iterate" PROVE WaitKept \/ (WaitBegins /\ ~Iterate)
  BY <1>9, RestartWaits DEF Iterate
<1>10. CASE TimerFires
  BY <1>9, <1>10 DEF TimerFires, HandlerRuns, loopVars, shutdownVars, WaitKept
<1>11. CASE PollEnds
  BY <1>9, <1>11 DEF PollEnds, HandlerRuns
<1>12. CASE ConfigReload
  BY <1>9, <1>12, ConfigReloadStep DEF loopVars, shutdownVars, WaitKept
<1>13. CASE ExternalSigusr1
  BY <1>13 DEF ExternalSigusr1, BeginShutdown, CloseOrGoOn, HandlerRuns, Iterate, WaitBegins,
               loopVars, laneVars
<1>14. CASE UNCHANGED allVars
  BY <1>14 DEF allVars, gwVars, WaitKept
<1>15. QED
  BY <1>1, <1>2, <1>3, <1>4, <1>5, <1>6, <1>7, <1>8, <1>10, <1>11, <1>12, <1>13, <1>14
     DEF GatewayNext

LEMMA DrainStep == IndInv /\ LockInv /\ DrainInv /\ [GatewayNext]_allVars => DrainInv'
<1> SUFFICES ASSUME IndInv, LockInv, DrainInv, [GatewayNext]_allVars PROVE DrainInv'
  OBVIOUS
<1>1. [QueueNext]_vars
  BY GatewayStepIsQueueStep
<1>2. ASSUME NEW j \in activeAtStart
      PROVE  /\ j \in Jobs
             /\ job'[j] \notin {"new", "queued"}
             /\ job'[j] = "running" => job[j] = "running" /\ taskGeneration'[j] = taskGeneration[j]
  BY <1>1, TasksStartOnce DEF DrainInv
<1>3. ~Iterate => generation' = generation
  BY IterateMovesGenerations
<1>4. CASE WaitKept
  <2>1. ASSUME NEW j \in activeAtStart', drained', shutdown' # "draining"
        PROVE  job'[j] # "running"
    BY <1>2, <1>4, <2>1 DEF WaitKept, DrainInv
  <2>2. DrainedRestartLeavesNoTask'
    <3>1. CASE shutdown = "draining"
      BY <1>2, <1>3, <1>4, <3>1 DEF WaitKept, DrainInv, DrainedRestartLeavesNoTask, Iterate
    <3>2. CASE shutdown # "draining"
      BY <1>4, <2>1, <3>2 DEF WaitKept, DrainedRestartLeavesNoTask
    <3>3. QED
      BY <3>1, <3>2
  <2>3. QED
    BY <1>2, <1>4, <2>1, <2>2 DEF WaitKept, DrainInv
<1>5. CASE WaitBegins
  <2>1. /\ ActiveTasks \subseteq Jobs
        /\ \A j \in ActiveTasks : job[j] = "running" /\ taskGeneration[j] = generation[LaneOf[j]]
    BY ActiveTasksRun
  <2>2. QED
    BY <1>5, <2>1 DEF WaitBegins, CloseOrGoOn, DrainInv, DrainedRestartLeavesNoTask
<1>6. CASE DrainEnds /\ ~Iterate
  <2>1. /\ activeAtStart' = activeAtStart /\ loop' = loop /\ loop # "iterate"
        /\ shutdown' \in {"closing", "closed"} /\ drained' = ~HasPending /\ drained
        /\ job' = job /\ taskGeneration' = taskGeneration /\ generation' = generation
    BY <1>6 DEF DrainEnds, CloseOrGoOn, loopVars, vars, DrainInv
  <2>2. ASSUME drained', NEW j \in activeAtStart PROVE job[j] # "running"
    <3>1. j \notin ActiveTasks
      BY <2>1, <2>2 DEF HasPending
    <3>2. job[j] = "running" => taskGeneration[j] = generation[LaneOf[j]]
      BY <2>1 DEF DrainInv, DrainedRestartLeavesNoTask
    <3>3. QED
      BY <3>1, <3>2, <1>2, ActiveTasksRun
  <2>3. QED
    BY <2>1, <2>2 DEF DrainInv, DrainedRestartLeavesNoTask
<1>7. QED
  BY <1>4, <1>5, <1>6, WaitStep DEF DrainInv

(* A restart whose wait was not cut short leaves none of the tasks it waited    *)
(* for running, whatever tasks end, start or are enqueued meanwhile; the next   *)
(* resetAllLanes therefore interrupts only tasks that started after the signal. *)
THEOREM DrainsAreComplete == GatewaySpec => []DrainedRestartLeavesNoTask
<1>1. GatewayInit => DrainInv
  BY DEF GatewayInit, DrainInv, DrainedRestartLeavesNoTask
<1>2. DrainInv => DrainedRestartLeavesNoTask
  BY DEF DrainInv
<1>3. QED
  BY <1>1, <1>2, DrainStep, LockAlways, GatewayImplementsQueue, InitInd, NextInd, PTL
     DEF GatewaySpec

-----------------------------------------------------------------------------
(* One life after the other. *)

(* A shutdown is at one of its places, and one that is for a restart has     *)
(* closed the lanes.                                                         *)
ShutdownInv ==
    /\ shutdown \in {"idle", "draining", "closing", "closed", "respawning"}
    /\ loop \in {"iterate", "starting", "serving", "exited"}
    /\ (Alive /\ shuttingDown /\ isRestart) => gatewayDraining

(* What a request for a restart does, seen from outside.                     *)
Asked ==
    /\ loop \in {"starting", "serving"} /\ missed' = missed
    /\ loop' = loop /\ firstIteration' = firstIteration
    /\ locked' = locked /\ listening' = listening /\ generation' = generation
    /\ \/ /\ gatewayDraining' = gatewayDraining /\ shuttingDown' = shuttingDown
          /\ shutdown' = shutdown /\ isRestart' = isRestart
       \/ /\ gatewayDraining' = TRUE /\ shuttingDown' = TRUE /\ ~shuttingDown
          /\ shutdown' = "draining" \/ shutdown' = CloseOrGoOn

LEMMA RestartAsks == Restart /\ loop \in {"starting", "serving"} => Asked
  BY DEF Restart, BeginShutdown, Asked, shutdownVars, loopVars, vars, laneVars

LEMMA RequestAsks ==
    ASSUME TimerFires \/ PollEnds \/ ConfigReload \/ ExternalSigusr1
    PROVE  Asked
<1>1. CASE TimerFires
  BY <1>1, RestartAsks DEF TimerFires, HandlerRuns, Asked, loopVars, shutdownVars, vars, laneVars
<1>2. CASE PollEnds
  BY <1>2, RestartAsks DEF PollEnds, HandlerRuns
<1>3. CASE ConfigReload
  BY <1>3, RestartAsks DEF ConfigReload, Asked, loopVars, shutdownVars, vars, laneVars
<1>4. CASE ExternalSigusr1
  BY <1>4 DEF ExternalSigusr1, HandlerRuns, BeginShutdown, Asked, loopVars, laneVars
<1>5. QED
  BY <1>1, <1>2, <1>3, <1>4

LEMMA ShutdownInvStep ==
    LockInv /\ LifeInv /\ ShutdownInv /\ [GatewayNext]_allVars => ShutdownInv'
<1> SUFFICES ASSUME LockInv, LifeInv, ShutdownInv, [GatewayNext]_allVars PROVE ShutdownInv'
  OBVIOUS
<1> USE DEF ShutdownInv, Alive
<1>1. CASE QueueStep
  BY <1>1, QueueKeepsDrainingMark DEF QueueStep, gwVars
<1>2. CASE StopSignal
  BY <1>2 DEF StopSignal, BeginShutdown, CloseOrGoOn, HandlerRuns, loopVars
<1>3. CASE DrainEnds \/ ServerCloses \/ LockReleased
  BY <1>3 DEF DrainEnds, CloseOrGoOn, ServerCloses, LockReleased, loopVars, vars
<1>4. CASE ForceExit \/ ProcessEnds \/ RelockFails \/ StartFails
  BY <1>4 DEF ForceExit, ProcessEnds, RelockFails, StartFails, Exit, shutdownVars
<1>5. CASE InProcessRestart
  BY <1>5 DEF InProcessRestart, ResolveRestart, vars
<1>6. CASE Iterate
  BY <1>6 DEF Iterate, LifeInv, shutdownVars
<1>7. CASE Started
  BY <1>7 DEF Started, shutdownVars, vars
<1>8. CASE ScheduleGatewaySigusr1Restart
  BY <1>8 DEF ScheduleGatewaySigusr1Restart, loopVars, shutdownVars, vars
<1>9. CASE TimerFires \/ PollEnds \/ ConfigReload \/ ExternalSigusr1
  <2>1. Asked
    BY <1>9, RequestAsks
  <2>2. shutdown' \in {"idle", "draining", "closing", "closed", "respawning"} /\ loop' = loop
    BY <2>1 DEF Asked, CloseOrGoOn
  <2>3. gatewayDraining' \/ UNCHANGED <<gatewayDraining, shuttingDown, isRestart>>
    BY <2>1, Zenon DEF Asked
  <2>4. QED
    BY <2>2, <2>3
<1>10. CASE UNCHANGED allVars
  BY <1>10 DEF allVars, gwVars, vars
<1>11. QED
  BY <1>1, <1>2, <1>3, <1>4, <1>5, <1>6, <1>7, <1>8, <1>9, <1>10 DEF GatewayNext

(* The stages, one by one.                                                   *)
LEMMA StageIs ==
    /\ ~Alive => Stage = "gone"
    /\ loop = "serving" => Stage = "serving"
    /\ loop = "iterate" /\ ~firstIteration => Stage = "rebooting"
    /\ loop = "starting" \/ (loop = "iterate" /\ firstIteration) => Stage = "booting"
  BY DEF Stage, Alive

LEMMA StageIsNext ==
    /\ (~Alive)' => Stage' = "gone"
    /\ loop' = "serving" => Stage' = "serving"
    /\ loop' = "iterate" /\ ~firstIteration' => Stage' = "rebooting"
    /\ loop' = "starting" \/ (loop' = "iterate" /\ firstIteration') => Stage' = "booting"
  BY DEF Stage, Alive

LEMMA StageStays ==
    ASSUME loop' = loop, firstIteration' = firstIteration
    PROVE  Stage' = Stage
  BY DEF Stage, Alive

(* Steps that are not seen.                                                  *)
LEMMA UnseenSteps ==
    ASSUME [GatewayNext]_allVars,
           \/ QueueStep \/ ScheduleGatewaySigusr1Restart \/ UNCHANGED allVars
    PROVE  UNCHANGED Life!lifeVars
<1>1. generation' = generation
  BY IterateMovesGenerations DEF QueueStep, ScheduleGatewaySigusr1Restart, Iterate,
     gwVars, loopVars, allVars
<1>2. gatewayDraining' = gatewayDraining
  BY QueueKeepsDrainingMark DEF ScheduleGatewaySigusr1Restart, allVars, vars
<1>3. UNCHANGED <<loop, firstIteration, shutdown, locked, listening, missed>>
  BY DEF QueueStep, ScheduleGatewaySigusr1Restart, allVars, gwVars, loopVars, shutdownVars
<1>4. Stage' = Stage
  BY <1>3, StageStays
<1>5. QED
  BY <1>1, <1>2, <1>3, <1>4 DEF Life!lifeVars

LEMMA LifeStep ==
    LockInv /\ LifeInv /\ ShutdownInv /\ [GatewayNext]_allVars => [Life!Next]_(Life!lifeVars)
<1> SUFFICES ASSUME LockInv, LifeInv, ShutdownInv, [GatewayNext]_allVars
             PROVE  [Life!Next]_(Life!lifeVars)
  OBVIOUS
<1>0. /\ ~Iterate => generation' = generation
      /\ loop \in {"starting", "serving"} => Stage \in {"booting", "serving"}
  BY IterateMovesGenerations, StageIs
<1>1. CASE QueueStep \/ ScheduleGatewaySigusr1Restart \/ UNCHANGED allVars
  BY <1>1, UnseenSteps
<1>2. CASE StopSignal
  <2>1. /\ Stage' = Stage /\ Stage \in {"booting", "serving"} /\ shutdown = "idle"
        /\ shutdown' = IF listening THEN "closing" ELSE "closed"
    BY <1>0, <1>2, StageStays
       DEF StopSignal, HandlerRuns, BeginShutdown, CloseOrGoOn, LockInv, LifeInv, loopVars
  <2>2. UNCHANGED <<locked, listening, gatewayDraining, missed, generation>>
    BY <1>2 DEF StopSignal, BeginShutdown, loopVars, laneVars, historyVars
  <2>3. QED
    BY <2>1, <2>2 DEF Life!Next, Life!BeginClose, Life!CloseOrGoOn
<1>3. CASE DrainEnds
  <2>1. /\ Stage' = Stage /\ Stage \in {"booting", "serving"} /\ shutdown = "draining"
        /\ shutdown' = IF listening THEN "closing" ELSE "closed"
    BY <1>0, <1>3, StageStays DEF DrainEnds, CloseOrGoOn, LockInv, LifeInv, loopVars
  <2>2. UNCHANGED <<locked, listening, gatewayDraining, missed, generation>>
    BY <1>3 DEF DrainEnds, loopVars, vars, historyVars
  <2>3. QED
    BY <2>1, <2>2 DEF Life!Next, Life!BeginClose, Life!CloseOrGoOn
<1>4. CASE ServerCloses
  <2>1. Stage' = Stage
    BY <1>4, StageStays DEF ServerCloses
  <2>2. /\ shutdown = "closing" /\ shutdown' = "respawning" /\ ~listening' /\ ~locked'
        /\ UNCHANGED <<gatewayDraining, missed, generation>>
    BY <1>4 DEF ServerCloses, CloseServer, vars, historyVars
  <2>3. QED
    BY <2>1, <2>2 DEF Life!Next, Life!Close
<1>5. CASE LockReleased
  <2>1. Stage' = Stage
    BY <1>5, StageStays DEF LockReleased
  <2>2. /\ shutdown = "closed" /\ shutdown' = "respawning" /\ ~locked'
        /\ UNCHANGED <<listening, gatewayDraining, missed, generation>>
    BY <1>5 DEF LockReleased, vars, historyVars
  <2>3. QED
    BY <2>1, <2>2 DEF Life!Next, Life!GoOn
<1>6. CASE ForceExit \/ ProcessEnds \/ RelockFails \/ StartFails
  <2>1. Stage = "booting" \/ shutdown \in {"closing", "respawning"}
    BY <1>6, StageIs DEF ForceExit, ProcessEnds, RelockFails, StartFails
  <2>2. Stage' = "gone"
    BY <1>6, StageIsNext DEF ForceExit, ProcessEnds, RelockFails, StartFails, Exit, Alive
  <2>3. ~listening' /\ ~locked' /\ UNCHANGED <<shutdown, gatewayDraining, missed, generation>>
    BY <1>6 DEF ForceExit, ProcessEnds, RelockFails, StartFails, Exit, vars, shutdownVars,
                historyVars
  <2>4. QED
    BY <2>1, <2>2, <2>3 DEF Life!Next, Life!End
<1>7. CASE InProcessRestart
  <2>1. /\ loop \in {"starting", "serving"} /\ ~firstIteration /\ gatewayDraining
        /\ resolver = "waiting" <=> loop = "serving"
    BY <1>7 DEF InProcessRestart, LockInv, LifeInv, ShutdownInv, Alive
  <2>2. /\ shutdown = "respawning" /\ shutdown' = "idle" /\ locked'
        /\ UNCHANGED <<firstIteration, listening, gatewayDraining, generation>>
    BY <1>7 DEF InProcessRestart, ReacquireLockForInProcessRestart, vars
  <2>3. CASE loop = "serving"
    <3>1. loop' = "iterate" /\ missed' = missed
      BY <1>7, <2>1, <2>3 DEF InProcessRestart, ResolveRestart
    <3>2. Stage = "serving" /\ Stage' = "rebooting"
      BY <2>1, <2>2, <2>3, <3>1, StageIs, StageIsNext
    <3>3. QED
      BY <2>1, <2>2, <3>1, <3>2 DEF Life!Next, Life!Stay
  <2>4. CASE loop = "starting"
    <3>1. loop' = "starting" /\ missed'
      BY <1>7, <2>1, <2>4 DEF InProcessRestart, ResolveRestart
    <3>2. Stage = "booting" /\ Stage' = "booting"
      BY <2>4, <3>1, StageIs, StageIsNext
    <3>3. QED
      BY <2>1, <2>2, <3>1, <3>2 DEF Life!Next, Life!Stay
  <2>5. QED
    BY <2>1, <2>3, <2>4
<1>8. CASE Iterate
  <2>1. Stage' = "booting" /\ UNCHANGED <<shutdown, locked, listening>>
    BY <1>8, StageIsNext DEF Iterate, shutdownVars
  <2>2. CASE firstIteration
    BY <1>8, <2>1, <2>2, StageIs DEF Iterate, OnIteration, Life!lifeVars, vars
  <2>3. CASE ~firstIteration
    <3>1. Stage = "rebooting"
      BY <1>8, <2>3, StageIs DEF Iterate
    <3>2. ~gatewayDraining' /\ ~missed' /\ generation' = [l \in Lanes |-> generation[l] + 1]
      BY <1>8, <2>3 DEF Iterate, OnIteration, ResetAllLanes
    <3>3. QED
      BY <2>1, <3>1, <3>2 DEF Life!Next, Life!Reset
  <2>4. QED
    BY <2>2, <2>3
<1>9. CASE Started
  <2>1. Stage = "booting" /\ Stage' = "serving"
    BY <1>9, StageIs, StageIsNext DEF Started
  <2>2. /\ locked \/ shutdown = "respawning"
        /\ ~gatewayDraining \/ shutdown # "idle" \/ missed
    BY <1>9 DEF Started, LockInv, ServesUnderLock, LifeInv, Alive
  <2>3. /\ ~listening /\ listening'
        /\ UNCHANGED <<shutdown, locked, gatewayDraining, missed, generation>>
    BY <1>9 DEF Started, vars, shutdownVars, historyVars
  <2>4. QED
    BY <2>1, <2>2, <2>3 DEF Life!Next, Life!Boot
<1>10. CASE TimerFires \/ PollEnds \/ ConfigReload \/ ExternalSigusr1
  <2>1. Asked
    BY <1>10, RequestAsks
  <2>2. Stage' = Stage /\ Stage \in {"booting", "serving"}
    BY <1>0, <2>1, StageStays DEF Asked
  <2>3. CASE UNCHANGED <<gatewayDraining, shuttingDown, shutdown>>
    BY <2>1, <2>2, <2>3 DEF Asked, Life!lifeVars
  <2>4. CASE /\ gatewayDraining' = TRUE /\ ~shuttingDown
             /\ shutdown' = "draining" \/ shutdown' = CloseOrGoOn
    <3>1. shutdown = "idle" /\ (serverRef <=> listening)
      BY <2>4 DEF LockInv, LifeInv
    <3>2. shutdown' = "draining" \/ shutdown' = IF listening THEN "closing" ELSE "closed"
      BY <2>4, <3>1 DEF CloseOrGoOn
    <3>3. QED
      BY <2>1, <2>2, <2>4, <3>1, <3>2 DEF Asked, Life!Next, Life!AskForRestart, Life!CloseOrGoOn
  <2>5. QED
    BY <2>1, <2>3, <2>4 DEF Asked
<1>11. QED
  BY <1>1, <1>2, <1>3, <1>4, <1>5, <1>6, <1>7, <1>8, <1>9, <1>10 DEF GatewayNext

(* The handlers of runGatewayLoop, the restart requests and the loop itself  *)
(* lead through one orderly life after the other, whatever the queue does    *)
(* and whenever a signal or a restart timer fires.                           *)
THEOREM GatewayLives == GatewaySpec => ImplementsLife
<1>1. GatewayInit => Life!Init /\ ShutdownInv
  <2> SUFFICES ASSUME GatewayInit PROVE Life!Init /\ ShutdownInv
    OBVIOUS
  <2>1. Stage = "booting"
    BY StageIs DEF GatewayInit
  <2>2. QED
    BY <2>1 DEF GatewayInit, Init, Life!Init, ShutdownInv
<1>2. QED
  BY <1>1, ShutdownInvStep, LifeStep, LockAlways, LifeInvAlways, PTL
     DEF GatewaySpec, ImplementsLife, Life!Spec
=============================================================================
