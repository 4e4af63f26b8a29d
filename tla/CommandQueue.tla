---------------------------- MODULE CommandQueue ----------------------------
(***************************************************************************)
(* The lane-aware command queue of src/process/command-queue.ts.           *)
(*                                                                         *)
(* A lane is a FIFO of entries and a set of running tasks, capped by       *)
(* maxConcurrent.  Everything runs on one JavaScript thread, so what can   *)
(* go wrong is re-entrancy: the pump loop of a lane starts a task, and the *)
(* synchronous prefix of that task may enqueue on another lane (an agent   *)
(* run holds a session lane and awaits an inner entry of a global lane:    *)
(* pi-embedded-runner/run.ts) or throw, which pumps the lane again inside  *)
(* the loop.  The variable stack is the JavaScript call stack of pump      *)
(* loops and task prefixes; event-loop callbacks run when it is empty.     *)
(***************************************************************************)
EXTENDS Integers, FiniteSets, Sequences, SequencesExt

CONSTANTS Lanes,       \* lane names
          Jobs,        \* queue entries; a job is also the id of its task
          NoJob,       \* "no job"
          LaneOf,      \* the lane each job is enqueued on
          Inner,       \* the job that a job's task enqueues and awaits, or NoJob
          TunedLanes,  \* lanes whose concurrency is configured (server-lanes.ts)
          ConcInputs,  \* values callers pass to setCommandLaneConcurrency
          MaxGen       \* bound: resets of the lanes that are explored

ASSUME NoJobAssumption == NoJob \notin Jobs
ASSUME LaneOfAssumption == LaneOf \in [Jobs -> Lanes]
ASSUME InnerAssumption == \* an entry is awaited by the one task that enqueues it
    /\ Inner \in [Jobs -> Jobs \cup {NoJob}]
    /\ \A j, k \in Jobs : Inner[j] = Inner[k] /\ Inner[j] # NoJob => j = k
ASSUME ConcAssumption == TunedLanes \subseteq Lanes /\ ConcInputs \subseteq Int
ASSUME MaxGenAssumption == MaxGen \in Nat

VARIABLES
    \* LaneState, per lane
    queue,           \* entries waiting, oldest first
    activeTaskIds,   \* tasks that occupy a slot
    maxConcurrent,
    draining,        \* a pump loop that drainLane started has not finished
    generation,
    \* module state
    gatewayDraining,
    \* per job
    job,             \* where the job is in its life
    taskGeneration,  \* the lane's generation when the task was started
    \* control
    stack,           \* JavaScript call stack, innermost frame last
    lanesToDrain     \* what the loop at the end of resetAllLanes has left

laneVars == <<queue, activeTaskIds, maxConcurrent, draining, generation>>
vars == <<queue, activeTaskIds, maxConcurrent, draining, generation,
          gatewayDraining, job, taskGeneration, stack, lanesToDrain>>

-----------------------------------------------------------------------------
(* Frames of the call stack. *)

\* A run of pump() for lane l.  j is the job whose completion called it and
\* whose promise is settled when the loop returns, NoJob under drainLane.
PumpFrame(l, j) == [kind |-> "pump", lane |-> l, job |-> j]

\* The part of j's task that runs before its first await.
TaskFrame(j) == [kind |-> "task", lane |-> LaneOf[j], job |-> j]

Frame == [kind : {"pump", "task"}, lane : Lanes, job : Jobs \cup {NoJob}]

JobState == {"new", "queued", "running", "settling", "settled", "cleared", "refused"}
Done == {"settled", "cleared", "refused"}

\* The thread is in the event loop: any callback may run next.
EventLoop == stack = <<>> /\ lanesToDrain = {}

\* The innermost frame is a pump loop of lane l, or the task prefix of job j.
InPump(l) == stack # <<>> /\ Last(stack).kind = "pump" /\ Last(stack).lane = l
InTask(j) == stack # <<>> /\ Last(stack).kind = "task" /\ Last(stack).job = j

-----------------------------------------------------------------------------
Init ==
    /\ queue = [l \in Lanes |-> <<>>]
    /\ activeTaskIds = [l \in Lanes |-> {}]
    /\ maxConcurrent = [l \in Lanes |-> 1]
    /\ draining = [l \in Lanes |-> FALSE]
    /\ generation = [l \in Lanes |-> 0]
    /\ gatewayDraining = FALSE
    /\ job = [j \in Jobs |-> "new"]
    /\ taskGeneration = [j \in Jobs |-> 0]
    /\ stack = <<>>
    /\ lanesToDrain = {}

\* drainLane(l) called with the call stack s: it returns at once when a pump
\* loop it started is still running, and starts one otherwise.
DrainLane(l, s) ==
    IF draining[l]
    THEN /\ stack' = s
         /\ UNCHANGED draining
    ELSE /\ draining' = [draining EXCEPT ![l] = TRUE]
         /\ stack' = Append(s, PumpFrame(l, NoJob))

\* enqueueCommandInLane for job j, called with the call stack s.
EnqueueCommandInLane(j, s) ==
    IF gatewayDraining
    THEN /\ job' = [job EXCEPT ![j] = "refused"]
         /\ stack' = s
         /\ UNCHANGED <<queue, draining>>
    ELSE /\ queue' = [queue EXCEPT ![LaneOf[j]] = Append(@, j)]
         /\ job' = [job EXCEPT ![j] = "queued"]
         /\ DrainLane(LaneOf[j], s)

\* Somebody outside the queue enqueues j.
Enqueue(j) ==
    /\ EventLoop
    /\ job[j] = "new"
    /\ \A k \in Jobs : Inner[k] # j
    /\ EnqueueCommandInLane(j, stack)
    /\ UNCHANGED <<activeTaskIds, maxConcurrent, generation, gatewayDraining,
                   taskGeneration, lanesToDrain>>

-----------------------------------------------------------------------------
(* The pump loop. *)

\* Bug: off by one.
CanStartOneMore(l) ==
    /\ Cardinality(activeTaskIds[l]) <= maxConcurrent[l]
    /\ queue[l] # <<>>

\* The condition of the while loop.
CanStart(l) ==
    /\ Cardinality(activeTaskIds[l]) < maxConcurrent[l]
    /\ queue[l] # <<>>

\* One iteration: the oldest entry takes a slot and its task is called.
PumpStart(l) ==
    /\ InPump(l)
    /\ CanStart(l)
    /\ LET j == Head(queue[l])
       IN  /\ queue' = [queue EXCEPT ![l] = Tail(@)]
           /\ activeTaskIds' = [activeTaskIds EXCEPT ![l] = @ \cup {j}]
           /\ taskGeneration' = [taskGeneration EXCEPT ![j] = generation[l]]
           /\ job' = [job EXCEPT ![j] = "running"]
           /\ stack' = Append(stack, TaskFrame(j))
    /\ UNCHANGED <<maxConcurrent, draining, generation, gatewayDraining, lanesToDrain>>

\* The loop ends; the caller, if it was a completion, settles its promise.
PumpExit(l) ==
    /\ InPump(l)
    /\ ~CanStart(l)
    /\ draining' = [draining EXCEPT ![l] = FALSE]
    /\ job' = [j \in Jobs |-> IF j = Last(stack).job THEN "settled" ELSE job[j]]
    /\ stack' = Front(stack)
    /\ UNCHANGED <<queue, activeTaskIds, maxConcurrent, generation, gatewayDraining,
                   taskGeneration, lanesToDrain>>

\* Bug: the slot is freed and nobody pumps.
CompleteTaskNoPump(j, s) ==
    /\ activeTaskIds' = [activeTaskIds EXCEPT ![LaneOf[j]] = @ \ {j}]
    /\ job' = [job EXCEPT ![j] = "settled"]
    /\ stack' = s

\* Bug: the lane is pumped with the slot still taken.
CompleteTaskKeepsSlot(j, s) ==
    /\ job' = [job EXCEPT ![j] = "settling"]
    /\ stack' = Append(s, PumpFrame(LaneOf[j], j))
    /\ UNCHANGED activeTaskIds

\* completeTask, then pump() and the settlement of the promise, for a task that
\* ends with the call stack s.  A task of an older generation gives up no slot
\* and pumps nothing.
CompleteTask(j, s) ==
    LET l == LaneOf[j] IN
    IF taskGeneration[j] # generation[l]
    THEN /\ job' = [job EXCEPT ![j] = "settled"]
         /\ stack' = s
         /\ UNCHANGED activeTaskIds
    ELSE /\ activeTaskIds' = [activeTaskIds EXCEPT ![l] = @ \ {j}]
         /\ job' = [job EXCEPT ![j] = "settling"]
         /\ stack' = Append(s, PumpFrame(l, j))

-----------------------------------------------------------------------------
(* Tasks.  A task either awaits something of its own, or enqueues Inner[j]  *)
(* in its synchronous prefix and awaits that.                               *)

TaskAwaits(j) ==
    /\ InTask(j)
    /\ Inner[j] = NoJob
    /\ stack' = Front(stack)
    /\ UNCHANGED <<laneVars, gatewayDraining, job, taskGeneration, lanesToDrain>>

\* The task throws before its first await: the catch block runs in the loop.
TaskThrows(j) ==
    /\ InTask(j)
    /\ Inner[j] = NoJob
    /\ CompleteTask(j, Front(stack))
    /\ UNCHANGED <<queue, maxConcurrent, draining, generation, gatewayDraining,
                   taskGeneration, lanesToDrain>>

TaskEnqueuesInner(j) ==
    /\ InTask(j)
    /\ Inner[j] # NoJob
    /\ EnqueueCommandInLane(Inner[j], Front(stack))
    /\ UNCHANGED <<activeTaskIds, maxConcurrent, generation, gatewayDraining,
                   taskGeneration, lanesToDrain>>

\* What the task awaited is there: it returns, or throws, from a callback.
TaskEnds(j) ==
    /\ EventLoop
    /\ job[j] = "running"
    /\ Inner[j] # NoJob => job[Inner[j]] \in Done
    /\ CompleteTask(j, stack)
    /\ UNCHANGED <<queue, maxConcurrent, draining, generation, gatewayDraining,
                   taskGeneration, lanesToDrain>>

-----------------------------------------------------------------------------
(* Operations on whole lanes. *)

\* Bug: the input is taken as it is.
RawConcurrency(n) == n

\* Math.max(1, Math.floor(n)).
CleanConcurrency(n) == IF n > 1 THEN n ELSE 1

SetCommandLaneConcurrency(l, n) ==
    /\ EventLoop
    /\ maxConcurrent' = [maxConcurrent EXCEPT ![l] = CleanConcurrency(n)]
    /\ DrainLane(l, stack)
    /\ UNCHANGED <<queue, activeTaskIds, generation, gatewayDraining, job,
                   taskGeneration, lanesToDrain>>

ClearCommandLane(l) ==
    /\ EventLoop
    /\ queue[l] # <<>>
    /\ queue' = [queue EXCEPT ![l] = <<>>]
    /\ job' = [j \in Jobs |-> IF \E i \in 1..Len(queue[l]) : queue[l][i] = j
                              THEN "cleared" ELSE job[j]]
    /\ UNCHANGED <<activeTaskIds, maxConcurrent, draining, generation, gatewayDraining,
                   taskGeneration, stack, lanesToDrain>>

MarkGatewayDraining ==
    /\ EventLoop
    /\ gatewayDraining' = TRUE
    /\ UNCHANGED <<laneVars, job, taskGeneration, stack, lanesToDrain>>

\* resetAllLanes: the pass over the lanes, then (ResetStep) the loop that
\* drains those that have entries.  A lane nobody used yet has no LaneState in
\* the code; bumping its generation here changes nothing that can be observed.
ResetAllLanes ==
    /\ EventLoop
    /\ gatewayDraining' = FALSE
    /\ generation' = [l \in Lanes |-> generation[l] + 1]
    /\ activeTaskIds' = [l \in Lanes |-> {}]
    /\ draining' = [l \in Lanes |-> FALSE]
    /\ lanesToDrain' = {l \in Lanes : queue[l] # <<>>}
    /\ UNCHANGED <<queue, maxConcurrent, job, taskGeneration, stack>>

\* The order of the lanes in the loop is the order of the code's Map; any
\* order is allowed here.
ResetStep(l) ==
    /\ stack = <<>>
    /\ l \in lanesToDrain
    /\ lanesToDrain' = lanesToDrain \ {l}
    /\ DrainLane(l, stack)
    /\ UNCHANGED <<queue, activeTaskIds, maxConcurrent, generation, gatewayDraining,
                   job, taskGeneration>>

\* getActiveTaskCount and getTotalQueueSize.
ActiveTasks == UNION {activeTaskIds[l] : l \in Lanes}
TotalQueueIsEmpty == \A l \in Lanes : queue[l] = <<>> /\ activeTaskIds[l] = {}

-----------------------------------------------------------------------------
\* What the thread does once a callback has called into the queue.
Synchronous ==
    \/ \E l \in Lanes : PumpStart(l) \/ PumpExit(l) \/ ResetStep(l)
    \/ \E j \in Jobs : TaskAwaits(j) \/ TaskThrows(j) \/ TaskEnqueuesInner(j)

\* Callbacks that any part of the gateway may run at any time.
Callback ==
    \/ \E j \in Jobs : Enqueue(j) \/ TaskEnds(j)
    \/ \E l \in TunedLanes, n \in ConcInputs : SetCommandLaneConcurrency(l, n)
    \/ \E l \in Lanes : ClearCommandLane(l)

\* Everything that can happen to the queue; the run loop alone calls the last two.
QueueNext == Synchronous \/ Callback \/ MarkGatewayDraining \/ ResetAllLanes

\* The same with a bounded number of resets.
Next ==
    \/ Synchronous \/ Callback \/ MarkGatewayDraining
    \/ ResetAllLanes /\ \A l \in Lanes : generation[l] < MaxGen

\* The thread never stops in the middle of a callback, and the event loop serves
\* its callbacks in order, so a task whose await is over is resumed even if
\* other callbacks keep the thread busy.
Fairness ==
    /\ WF_vars(Synchronous)
    /\ \A j \in Jobs : SF_vars(TaskEnds(j))

Spec == Init /\ [][Next]_vars /\ Fairness

-----------------------------------------------------------------------------
(* Properties. *)

TypeOK ==
    /\ queue \in [Lanes -> Seq(Jobs)]
    /\ activeTaskIds \in [Lanes -> SUBSET Jobs]
    /\ maxConcurrent \in [Lanes -> Nat \ {0}]
    /\ draining \in [Lanes -> BOOLEAN]
    /\ generation \in [Lanes -> Nat]
    /\ gatewayDraining \in BOOLEAN
    /\ job \in [Jobs -> JobState]
    /\ taskGeneration \in [Jobs -> Nat]
    /\ stack \in Seq(Frame)
    /\ lanesToDrain \in SUBSET Lanes

\* Some frame of the call stack s is a pump loop of lane l.
HasPump(s, l) == \E i \in 1..Len(s) : s[i].kind = "pump" /\ s[i].lane = l
Pumping(l) == HasPump(stack, l)

\* The draining flag of drainLane has an owner: a pump loop that will reset it.
\* A flag left TRUE would make every later drainLane of that lane return at once
\* and strand its queue (the situation the diag.warn in drainLane reports).
DrainingHasOwner == \A l \in Lanes : draining[l] => Pumping(l)

\* No lost wakeup: when a lane has an entry and a free slot, a pump loop of the
\* lane is on the call stack or the reset loop will start one.  In the event loop
\* (empty stack) a queued entry therefore always has every slot of its lane taken.
NoLostWakeup ==
    \A l \in Lanes : CanStart(l) => Pumping(l) \/ l \in lanesToDrain

\* The slots of a lane are held by exactly its running tasks of the current
\* generation: no slot leaks when a task throws or the lanes are reset, and a
\* completion of an interrupted task frees no slot of its successor.
SlotsMatchTasks ==
    \A l \in Lanes : activeTaskIds[l] =
        {j \in Jobs : LaneOf[j] = l /\ job[j] = "running" /\ taskGeneration[j] = generation[l]}

\* A job is in the queue of its lane as long as it is "queued", once, and
\* nowhere else: neither a restart nor a refusal loses or duplicates an entry.
QueueMatchesJobs ==
    \A l \in Lanes :
        /\ \A i \in 1..Len(queue[l]) : LaneOf[queue[l][i]] = l /\ job[queue[l][i]] = "queued"
        /\ \A i, k \in 1..Len(queue[l]) : queue[l][i] = queue[l][k] => i = k
        /\ \A j \in Jobs : LaneOf[j] = l /\ job[j] = "queued" =>
               \E i \in 1..Len(queue[l]) : queue[l][i] = j

\* A task is only started while the lane has a slot for it, nested pump loops
\* included.  (The cap itself may be exceeded: it can be lowered under running tasks.)
StartsWithinCap ==
    [][\A l \in Lanes : activeTaskIds'[l] \subseteq activeTaskIds[l]
           \/ Cardinality(activeTaskIds'[l]) <= maxConcurrent'[l]]_vars

\* Two agent runs of one session never overlap as long as the lanes are not reset:
\* a lane with the default concurrency runs one task at a time.
OneRunPerSession ==
    \A l \in Lanes \ TunedLanes : generation[l] = 0 =>
        \A j, k \in Jobs : LaneOf[j] = l /\ LaneOf[k] = l
                           /\ job[j] = "running" /\ job[k] = "running" => j = k

\* Whatever is accepted is settled: run to its end, or cleared.  This is where a
\* deadlock between a session lane and the global lane its task waits for would show.
AcceptedWorkSettles == \A j \in Jobs : job[j] = "queued" ~> job[j] \in Done

\* Jobs of S that wait for one another and for nothing else: for a slot whose
\* holders are all in S, or for an inner entry that is in S or will never end.
Unfinished == {j \in Jobs : job[j] \in {"queued", "running"}}
Deadlocked(S) ==
    \A j \in S :
        \/ job[j] = "queued" /\ activeTaskIds[LaneOf[j]] \cap Unfinished \subseteq S
        \/ /\ job[j] = "running" /\ Inner[j] # NoJob
           /\ job[Inner[j]] \notin Done
           /\ Inner[j] \in Unfinished => Inner[j] \in S

\* Session lanes and global lanes never wait for each other in a circle: whenever
\* the thread is idle, no jobs that were accepted are stuck among themselves.
NoDeadlock == EventLoop => \A S \in SUBSET Jobs : Deadlocked(S) => S = {}

\* Nested pump loops, tasks that throw and interrupted tasks do not show: the
\* queue is one of first-in first-out lanes with slots.
Fate == [j \in Jobs |-> IF job[j] \in {"settling", "settled"} THEN "ended" ELSE job[j]]
Service == INSTANCE TaskLanes WITH waiting <- queue, holders <- activeTaskIds,
               cap <- maxConcurrent, open <- ~gatewayDraining, fate <- Fate
ImplementsLanes == Service!Spec
=============================================================================
