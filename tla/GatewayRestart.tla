--------------------------- MODULE GatewayRestart ---------------------------
(***************************************************************************)
(* Restarting the gateway inside its process: the run loop of              *)
(* src/cli/gateway-cli/run-loop.ts, the restart requests of                *)
(* src/infra/restart.ts and src/gateway/server-reload-handlers.ts, and the *)
(* command queue they drain and reset (module CommandQueue, whose          *)
(* variables and actions this module extends).                             *)
(*                                                                         *)
(* The SIGUSR1 handler runs inside process.emit, so emitting the signal,   *)
(* consuming its authorization, marking the cycle handled and the first    *)
(* part of request() are one step; the restart tokens are equal again when *)
(* it ends, and the guard on them never refuses anything between steps.    *)
(* The clock is abstract: a delay or timeout may end at any moment.        *)
(***************************************************************************)
EXTENDS CommandQueue

CONSTANTS RespawnModes,        \* results of restartGatewayProcessWithFreshPid
          ExternalAllowed,     \* sigusr1ExternalAllowed: commands.restart is on
          MaxRestarts,         \* bound: restarts that are explored
          MaxPolls             \* bound: deferral polls alive at a time

ASSUME RespawnAssumption == RespawnModes \subseteq {"spawned", "supervised", "failed", "disabled"}
ASSUME ExternalAssumption == ExternalAllowed \in BOOLEAN
ASSUME GatewayBoundsAssumption == MaxRestarts \in Nat /\ MaxPolls \in Nat

VARIABLES
    \* runGatewayLoop
    loop,          \* where the while loop is
    firstIteration,\* of createRestartIterationHook
    resolver,      \* restartResolver: unset, waited for, or already called
    serverRef,     \* the variable server is not null
    listening,     \* a server was started and not closed: the port is bound
    locked,        \* the gateway lock is held
    shuttingDown,
    shutdown,      \* where the shutdown of request() is
    isRestart,     \* what that shutdown is for
    activeAtStart, \* the tasks waitForActiveTasks waits for
    drained,       \* the last wait ended before its deadline
    \* restart.ts and the config watcher
    timer,         \* pendingRestartTimer is set
    polls,         \* deferral polls no flag keeps track of
    reloadPoll,    \* restartPending of the server's config watcher: its poll
    \* history
    restarts,      \* restarts that began
    missed,        \* since the last reset, a restart ended that woke nobody
    unserved,      \* a restart was asked for and none has begun since
    groups         \* requests, those that one restart could serve counted once

loopVars == <<loop, firstIteration, resolver, serverRef, listening, locked>>
shutdownVars == <<shuttingDown, shutdown, isRestart, activeAtStart, drained>>
requestVars == <<timer, polls, reloadPoll>>
historyVars == <<restarts, missed, unserved, groups>>
gwVars == <<loop, firstIteration, resolver, serverRef, listening, locked,
            shuttingDown, shutdown, isRestart, activeAtStart, drained,
            timer, polls, reloadPoll, restarts, missed, unserved, groups>>
allVars == <<vars, gwVars>>

GatewayInit ==
    /\ Init
    /\ loop = "iterate"
    /\ firstIteration = TRUE
    /\ resolver = "unset"
    /\ serverRef = FALSE
    /\ listening = FALSE
    /\ locked = TRUE
    /\ shuttingDown = FALSE
    /\ shutdown = "idle"
    /\ isRestart = FALSE
    /\ activeAtStart = {}
    /\ drained = TRUE
    /\ timer = FALSE
    /\ polls = 0
    /\ reloadPoll = FALSE
    /\ restarts = 0
    /\ missed = FALSE
    /\ unserved = FALSE
    /\ groups = 0

Alive == loop # "exited"

\* What a signal or a timer needs to run its handler.  The handlers are installed
\* before the first start(), so they run while start() is awaited as well.
\* (Nothing but microtasks runs between a resolved restart and the next start().)
HandlerRuns == EventLoop /\ loop \in {"serving", "starting"}

-----------------------------------------------------------------------------
(* request("restart") and request("stop"). *)

\* server?.close: a server that start() has not returned yet is not closed, and with
\* none to close the shutdown goes on at once (only microtasks run in between).
CloseOrGoOn == IF serverRef THEN "closing" ELSE "closed"

\* The part of request() before its first await.  The tasks to wait for are
\* those active now; none means the server is closed at once.
BeginShutdown(restart) ==
    /\ shuttingDown' = TRUE
    /\ isRestart' = restart
    /\ IF restart
       THEN /\ gatewayDraining' = TRUE
            /\ activeAtStart' = ActiveTasks
            /\ drained' = TRUE
            /\ shutdown' = IF ActiveTasks = {} THEN CloseOrGoOn ELSE "draining"
       ELSE /\ shutdown' = CloseOrGoOn
            /\ UNCHANGED <<gatewayDraining, activeAtStart, drained>>

\* emitGatewayRestart and the SIGUSR1 handler it calls: the scheduled timer is
\* dropped; a gateway that is shutting down ignores the signal.
Restart ==
    /\ timer' = FALSE
    /\ IF shuttingDown
       THEN UNCHANGED <<vars, loopVars, shutdownVars, restarts, missed, unserved>>
       ELSE /\ restarts < MaxRestarts
            /\ restarts' = restarts + 1
            /\ unserved' = FALSE
            /\ BeginShutdown(TRUE)
            /\ UNCHANGED <<laneVars, job, taskGeneration, stack, lanesToDrain, loopVars, missed>>

\* SIGTERM or SIGINT.
StopSignal ==
    /\ HandlerRuns
    /\ ~shuttingDown
    /\ BeginShutdown(FALSE)
    /\ UNCHANGED <<laneVars, job, taskGeneration, stack, lanesToDrain,
                   loopVars, requestVars, historyVars>>

\* Bug: one finished task is enough.
HasPendingAll == activeAtStart # {} /\ activeAtStart \subseteq ActiveTasks

\* Some task that was active when the wait began still is (tasks that were
\* started since do not count).
HasPending == activeAtStart \cap ActiveTasks # {}

\* A check of waitForActiveTasks that ends the wait.
DrainEnds ==
    /\ EventLoop /\ Alive
    /\ shutdown = "draining"
    /\ shutdown' = CloseOrGoOn
    /\ drained' = ~HasPending        \* otherwise the deadline has passed
    /\ UNCHANGED <<vars, loopVars, shuttingDown, isRestart, activeAtStart,
                   requestVars, historyVars>>

\* Bug: the server is dropped before it is closed.
ForgetServer == serverRef' = FALSE /\ UNCHANGED listening

CloseServer == listening' = FALSE /\ serverRef' = FALSE

\* The awaited close of the server, or its failure, and the release of the lock.
ServerCloses ==
    /\ EventLoop /\ Alive
    /\ shutdown = "closing"
    /\ CloseServer
    /\ locked' = FALSE
    /\ shutdown' = "respawning"
    /\ UNCHANGED <<vars, loop, firstIteration, resolver, shuttingDown, isRestart,
                   activeAtStart, drained, requestVars, historyVars>>

\* The release of the lock when there was no server to close; one that start()
\* returned meanwhile goes on listening.
LockReleased ==
    /\ EventLoop /\ Alive
    /\ shutdown = "closed"
    /\ locked' = FALSE
    /\ shutdown' = "respawning"
    /\ UNCHANGED <<vars, loop, firstIteration, resolver, serverRef, listening, shuttingDown,
                   isRestart, activeAtStart, drained, requestVars, historyVars>>

Exit == /\ loop' = "exited"
        /\ locked' = FALSE
        /\ listening' = FALSE
        /\ serverRef' = FALSE
        /\ UNCHANGED <<vars, firstIteration, resolver, shutdownVars, requestVars, historyVars>>

\* The force-exit timer, which runs until the server is closed.
ForceExit == EventLoop /\ Alive /\ shutdown = "closing" /\ Exit

\* handleStopAfterServerClose, or a restart that a fresh process takes over.
ProcessEnds ==
    /\ EventLoop /\ Alive
    /\ shutdown = "respawning"
    /\ ~isRestart \/ RespawnModes \cap {"spawned", "supervised"} # {}
    /\ Exit

\* Bug: the lock that was given up for the child is not taken again.
KeepLockAsItIs == UNCHANGED locked

ReacquireLockForInProcessRestart == locked' = TRUE

\* Bug: nobody is woken.
ResolveNothing == UNCHANGED <<resolver, loop, missed>>

\* restartResolver?.(): nothing happens unless the loop waits for it.  While start()
\* runs it is unset, or still the one of the life before.
ResolveRestart ==
    IF resolver = "waiting"
    THEN resolver' = "called" /\ loop' = "iterate" /\ UNCHANGED missed
    ELSE missed' = TRUE /\ UNCHANGED <<resolver, loop>>

\* handleRestartAfterServerClose that stays in the process: the lock is taken
\* again and whoever waits for the restart promise is woken.
InProcessRestart ==
    /\ EventLoop /\ Alive
    /\ shutdown = "respawning"
    /\ isRestart
    /\ RespawnModes \cap {"failed", "disabled"} # {}
    /\ ReacquireLockForInProcessRestart
    /\ shuttingDown' = FALSE
    /\ shutdown' = "idle"
    /\ ResolveRestart
    /\ UNCHANGED <<vars, firstIteration, serverRef, listening, isRestart, activeAtStart,
                   drained, requestVars, restarts, unserved, groups>>

\* The lock cannot be taken again.
RelockFails ==
    /\ EventLoop /\ Alive
    /\ shutdown = "respawning"
    /\ isRestart
    /\ Exit

-----------------------------------------------------------------------------
(* The while loop of runGatewayLoop. *)

\* Bug: every iteration is taken for the first.
OnIterationSkips == firstIteration' = FALSE /\ UNCHANGED <<vars, missed>>

\* createRestartIterationHook: not the first time.
OnIteration ==
    IF firstIteration
    THEN firstIteration' = FALSE /\ UNCHANGED <<vars, missed>>
    ELSE ResetAllLanes /\ missed' = FALSE /\ UNCHANGED firstIteration

\* onIteration() and the call of start().
Iterate ==
    /\ EventLoop
    /\ loop = "iterate"
    /\ loop' = "starting"
    /\ OnIteration
    /\ UNCHANGED <<resolver, serverRef, listening, locked, shutdownVars, requestVars,
                   restarts, unserved, groups>>

\* start() binds the port and returns the server; the loop waits for restartResolver.
\* The new server has a config watcher of its own: a poll that the old one left
\* behind goes on, and no flag knows of it.
Started ==
    /\ EventLoop
    /\ loop = "starting"
    /\ loop' = "serving"
    /\ serverRef' = TRUE
    /\ ~listening
    /\ listening' = TRUE
    /\ resolver' = "waiting"
    /\ polls' = IF reloadPoll THEN polls + 1 ELSE polls
    /\ reloadPoll' = FALSE
    /\ UNCHANGED <<vars, firstIteration, locked, shutdownVars, timer, historyVars>>

\* start() throws (it always does when the port is bound): the finally block releases the lock.
StartFails == EventLoop /\ loop = "starting" /\ Exit

-----------------------------------------------------------------------------
(* Requests for a restart. *)

\* Requests since the last restart can be served by one restart.
Ask == /\ groups' = IF unserved THEN groups ELSE groups + 1
       /\ groups' <= MaxRestarts

\* Nothing pending, as far as the lanes go.  The pre-restart checks also count
\* replies that are being delivered, so they may find work when the lanes are empty.
Idle == TotalQueueIsEmpty

\* scheduleGatewaySigusr1Restart: one timer, whatever the number of calls (a
\* call may move it to an earlier moment).
ScheduleGatewaySigusr1Restart ==
    /\ EventLoop /\ Alive
    /\ Ask
    /\ unserved' = TRUE
    /\ timer' = TRUE
    /\ UNCHANGED <<vars, loopVars, shutdownVars, polls, reloadPoll, restarts, missed>>

\* The timer: restart now if nothing is pending, poll otherwise.
TimerFires ==
    /\ HandlerRuns
    /\ timer
    /\ \/ /\ Idle
          /\ Restart
          /\ UNCHANGED polls
       \/ /\ timer' = FALSE
          /\ polls < MaxPolls
          /\ polls' = polls + 1
          /\ UNCHANGED <<vars, loopVars, shutdownVars, restarts, missed, unserved>>
    /\ UNCHANGED <<reloadPoll, groups>>

\* A poll of deferGatewayRestartUntilIdle that ends: nothing is pending, the
\* check threw, or the deadline has passed.
PollEnds ==
    /\ HandlerRuns
    /\ \/ polls > 0 /\ polls' = polls - 1 /\ UNCHANGED reloadPoll
       \/ reloadPoll /\ reloadPoll' = FALSE /\ UNCHANGED polls
    /\ Restart
    /\ UNCHANGED groups

\* requestGatewayRestart of the config watcher: its flag keeps it to one poll.
\* The watcher lives as long as the server that started it.
ConfigReload ==
    /\ EventLoop /\ loop = "serving" /\ serverRef
    /\ \/ /\ Ask
          /\ reloadPoll' = TRUE
          /\ unserved' = TRUE
          /\ UNCHANGED <<vars, loopVars, shutdownVars, timer, restarts, missed>>
       \/ /\ Idle
          /\ IF shuttingDown THEN UNCHANGED groups ELSE Ask
          /\ Restart
          /\ UNCHANGED reloadPoll
    /\ UNCHANGED polls

\* SIGUSR1 from outside the process, when the configuration allows it.
ExternalSigusr1 ==
    /\ HandlerRuns
    /\ ExternalAllowed
    /\ ~shuttingDown
    /\ Ask
    /\ restarts < MaxRestarts
    /\ restarts' = restarts + 1
    /\ unserved' = FALSE
    /\ BeginShutdown(TRUE)
    /\ UNCHANGED <<laneVars, job, taskGeneration, stack, lanesToDrain, loopVars, requestVars, missed>>

-----------------------------------------------------------------------------
\* The queue runs until the process ends; only Iterate resets it and only
\* BeginShutdown marks it as draining.
QueueStep == Alive /\ (Synchronous \/ Callback) /\ UNCHANGED gwVars

ShutdownStep == DrainEnds \/ ServerCloses \/ LockReleased \/ ProcessEnds \/ InProcessRestart
LoopStep == Iterate \/ Started \/ StartFails

GatewayNext ==
    \/ QueueStep
    \/ StopSignal \/ DrainEnds \/ ServerCloses \/ LockReleased \/ ForceExit \/ ProcessEnds
    \/ InProcessRestart \/ RelockFails
    \/ Iterate \/ Started \/ StartFails
    \/ ScheduleGatewaySigusr1Restart \/ TimerFires \/ PollEnds \/ ConfigReload
    \/ ExternalSigusr1

\* Timers fire, the server closes or the force-exit timer ends the process, and
\* the loop's promises are resumed, even when the queue keeps the thread busy.
GatewayFairness ==
    /\ WF_allVars(Alive /\ Synchronous /\ UNCHANGED gwVars)
    /\ SF_allVars(ShutdownStep)
    /\ SF_allVars(LoopStep)

GatewaySpec == GatewayInit /\ [][GatewayNext]_allVars /\ GatewayFairness

-----------------------------------------------------------------------------
(* Properties. *)

\* A gateway that is not shutting down holds the lock that keeps a second
\* gateway away, also after it gave the lock up for a process that did not start.
ServesUnderLock == Alive /\ shutdown # "respawning" => locked

\* A restart whose wait was not cut short leaves none of the tasks it waited for
\* behind: what is still running from an older generation started later.
DrainedRestartLeavesNoTask ==
    drained => \A j \in activeAtStart :
        job[j] = "running" => taskGeneration[j] = generation[LaneOf[j]]

\* Enqueues are refused during the drain window only: once the gateway serves
\* again and no shutdown is under way, the queue accepts work.  The one exception is
\* a restart that is asked for while start() runs and is through before it returns:
\* nobody waits for its resolver, and the gateway that start() brings up refuses all
\* work until it is restarted once more.
ServesMeansAccepts == loop = "serving" /\ ~shuttingDown /\ ~missed => ~gatewayDraining

\* One agent run per session, restarts included.
OneAgentPerSession ==
    \A l \in Lanes \ TunedLanes : \A j, k \in Jobs :
        LaneOf[j] = l /\ LaneOf[k] = l /\ job[j] = "running" /\ job[k] = "running" => j = k

\* Seen from outside, the gateway goes through one life after the other (GatewayLife):
\* no order of signals, timers, polls and reloads, before or after start() returns,
\* closes, restarts or resets anything out of turn.
Stage ==
    CASE ~Alive -> "gone"
      [] loop = "serving" -> "serving"
      [] loop = "iterate" /\ ~firstIteration -> "rebooting"
      [] loop = "starting" \/ (loop = "iterate" /\ firstIteration) -> "booting"
Life == INSTANCE GatewayLife WITH stage <- Stage, lock <- locked, port <- listening,
            open <- ~gatewayDraining, life <- generation
ImplementsLife == Life!Spec

\* A shutdown comes to an end, tasks that never finish notwithstanding: the
\* process exits or the gateway serves again.
ShutdownEnds == shuttingDown ~> (~Alive \/ (loop = "serving" /\ serverRef /\ ~shuttingDown))
=============================================================================
