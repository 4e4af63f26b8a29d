# Verification of the gateway's coordination code

This directory models, model-checks and proves properties of the coordination
code of this OpenClaw fork (a personal AI gateway in TypeScript with a NapCat/QQ
channel, a Neo4j memory and local-model subagents). Paths below are relative to
the repository; `process/…`, `infra/…`, `auto-reply/…` and so on are under
`src/`.

The gateway is one JavaScript process. Nothing runs in parallel, yet almost
everything interleaves: every `await` gives the thread away, a restart may
happen *inside* the process while the tasks of the previous life go on, and what
was written to disk is read by a later life. The code that copes with this is
small and central, and unit tests reach few of its orders. That code is the
subject; the adapters around it are not.

## 1. Inventory

### Modelled

**Command queue** (`process/command-queue.ts`).
*State*: per lane a FIFO of entries, the set of active task ids, `maxConcurrent`,
the flag `draining` and a `generation`; one module flag `gatewayDraining`.
*Operations*: `enqueueCommandInLane`, `drainLane`/`pump`, `completeTask`,
`setCommandLaneConcurrency`, `clearCommandLane`, `markGatewayDraining`,
`resetAllLanes`, `getActiveTaskCount`, `getTotalQueueSize`, `waitForActiveTasks`.
*Interactions*: agent runs (`agents/pi-embedded-runner/run.ts`) take a slot of
their session lane and, from inside that task, enqueue and await an entry of a
global lane; the run loop drains and resets the lanes; cron and the reply
pipeline enqueue.
*Hard*: the pump loop is re-entered by tasks that throw before their first
await; a completion of an older generation must not free a slot of the new one;
nested entries can wait for one another.
*Correct when*: slots are those of running tasks and at most `maxConcurrent` are
given out; no entry is left with a free slot and nobody to pump it; a session has
one run at a time; what is accepted is settled.

**Gateway restart** (`cli/gateway-cli/run-loop.ts`, `infra/restart.ts`,
`gateway/server-reload-handlers.ts`).
*State*: where the run loop is, `restartResolver`, `server`, the gateway lock,
`shuttingDown`, the pending restart timer, deferral polls.
*Operations*: SIGTERM/SIGINT, SIGUSR1 from inside and outside, scheduled restarts,
config reloads, the drain, the close, the force-exit timer, the respawn of a
fresh process or a restart in place, the start of the next iteration.
*Hard*: a signal may arrive in any phase; the drain may time out, the close may
hang, the respawn may fail after the lock was given up.
*Correct when*: a serving gateway holds the lock and accepts work, unless it missed
a restart while it started; its server is closed before the lock is given up; a
drain that succeeded leaves no task behind; every shutdown ends.

**Followup queue** (`auto-reply/reply/queue/*`, `utils/queue-helpers.ts`, as
`agent-runner.ts` and `get-reply-run.ts` use it).
*State*: a map from session key to a queue object (items, summary lines, dropped
count, settings, `draining`); the drain loop's local variables.
*Operations*: enqueue with deduplication and drop policies, the drain with its
collect and single modes, failed runs, `clearFollowupQueue`, finalisation of a
main run.
*Hard*: a drain holds an *object* while everyone else looks it up by *key*;
counts taken before a run is awaited are applied after it; "is a run active" is
read several awaits before the enqueue.
*Correct when*: no accepted message disappears silently, messages are answered in
order, one loop drains a session, and whatever is queued has somebody to run it,
but for the messages that came too late for theirs.

**Outbound delivery queue** (`infra/outbound/delivery-queue.ts`, `deliver.ts`,
startup code in `gateway/server.impl.ts`).
*State*: a file per delivery with a retry count, the directory `failed/`; the
local variables of each send and of the recovery.
*Operations*: enqueue before the send, the payload loop, acknowledge, count a
failure, move to `failed/`, and the recovery at startup.
*Hard*: crashes between any two steps, files that somebody else replaced since
they were read, best-effort payloads, a recovery beside live sends, requests that
time out inside a channel.
*Correct when*: nothing that was written is lost but to an abort, nothing is sent
twice without a cause, and every entry leaves the queue that a recovery has time for.

**Subagent registry** (`agents/subagent-registry*.ts`, with the parts of
`subagent-announce.ts`, `subagent-spawn.ts` and `gateway/server-methods/agent-job.ts`
that it relies on).
*State*: a table of runs with their end, their cleanup flags, the reason why an
announce is suppressed and the number of retries, saved to `subagents/runs.json`;
per process the set `resumedRuns`, resume timers, pending lifecycle errors and
the calls under way.
*Operations*: registering a run, the reports of its end (lifecycle events, the
answer of `agent.wait`, a kill), the announce flow and what is done with its
result, deferrals and retries, the `subagent_ended` hook, steer and replacement,
the sweeper, and the restore after a crash.
*Hard*: several reports of one end; retries, wakes after another run's cleanup and
restored entries that all try to start a flow; a late report that overwrites the
outcome of a kill; a crash between saving a flag and doing what it stands for.
*Correct when*: no run is announced twice, no killed or replaced run is announced,
failed announces are bounded over restarts, and what ended is settled.

**Cron service** (`cron/service/*`).
*State*: jobs in a file and in a copy in memory, each with its next time and a
running marker; one timer, the flag `running`, the jobs a crash interrupted.
*Operations*: `start` with its catch-up of missed jobs, `onTimer`, `run` by hand,
`add`, `update`, `remove`, `list` and `status`, which maintain times as a side
effect.
*Hard*: a run is marked under a lock, executed outside it and its result applied
under it again, after a reload; requests, other runs, failed saves, two hours that
make a marker stale, and crashes come in between.
*Correct when*: a job has one run at a time, a one-shot fires once, an edit is not
undone by a result, the timer never dies and no due job is forgotten or skipped.

How these interact: a message enters the reply pipeline, which runs the agent
through the command queue or leaves the message in the followup queue; the reply
goes out through the delivery queue. Cron jobs enqueue agent runs in lane `cron`
and deliver through the delivery queue. An agent run may spawn a subagent, whose
end the registry announces to its requester, as a message of that session. The
restart drains and resets the command queue and, when the gateway starts again,
starts a delivery recovery; the registry restores its table and cron clears its
markers in the same start. `GatewayRestart` composes the restart with the command
queue; the other parts are modelled with the rest of the system as their
environment (a run ends, fails or never returns; a delivery is taken or fails).

### Not modelled

| Part | Why |
|---|---|
| Subagent model slots (`agents/subagent-concurrency.ts`, `subagent-spawn.ts`) | `subagent-spawn.ts:556` holds an unresolved merge-conflict marker in front of the slot check: in which order a run is registered and a slot is taken cannot be told from the source |
| Announce queue (`agents/subagent-announce-queue.ts`) | shares `queue-helpers.ts` and its drain loop with the followup queue; in `SubagentRegistry` a delivery to the requester is one step that succeeds or fails |
| Lock files (`agents/session-write-lock.ts`, `plugin-sdk/file-lock.ts`, `infra/gateway-lock.ts`) | rest on process ids, file times and exclusive creation between processes; `GatewayRestart` takes the gateway lock as held or not |
| Session store (`config/sessions/store.ts`), pairing stores | read-modify-write under such a lock; the rest is validation |
| Exec approvals, node invocations (`gateway/exec-approval-manager.ts`, `node-registry.ts`) | a table of promises that an answer or a timeout settles; taking the entry is one synchronous step |
| Heartbeat (`infra/heartbeat-wake.ts`) | one timer and coalesced reasons, nothing persisted: left out in favour of cron and the registry, which persist state |
| ACP sessions (`acp/control-plane/*`) | turns are serialised by a promise chain per session; the rest is an external runtime |
| Process supervisor, local model servers | their state is that of operating-system processes |
| NapCat channel, Neo4j memory | reconnection to, and queries of, external programs |
| Channels, providers, plugins, tools, UI, apps | adapters: input and output without a protocol of their own |

The models cover a small share of the repository's lines, and more of the same
kind would not change that: most lines are adapters, configuration, rendering and
command-line code, in which there is no order of events to get wrong. What is
modelled is the code through which all of them go.

## 2. Modules

| Module | Role |
|---|---|
| `TaskLanes` | what the command queue promises: first-in first-out lanes in front of slots |
| `CommandQueue` | the lanes, with the JavaScript call stack explicit |
| `GatewayLife` | what the gateway shows outside: one life after the other, under a lock and with a port |
| `GatewayRestart` | extends `CommandQueue` with the run loop and the restart requests |
| `FollowupInbox` | what a followup queue promises: an inbox read in order |
| `FollowupQueue` | the queue objects, the drains and the reply pipeline |
| `Outbox` | what the delivery queue promises: entries that leave only for a reason, parts in order |
| `DeliveryQueue` | files, sends and recoveries |
| `SubagentRegistry` | the table of runs, its saved copy, announce flows and timers |
| `CronService` | jobs on disk and in memory, ticks, catch-up, manual runs, edits |
| `MC…` | the instances TLC checks |
| `…_proofs` | theorems and their proofs |

### CommandQueue

`queue`, `activeTaskIds`, `maxConcurrent`, `draining` and `generation` are the
fields of `LaneState`. A job is a queue entry and its task. `stack` is the
JavaScript call stack, restricted to pump loops and the synchronous prefixes of
tasks; an action on its innermost frame (`PumpStart`, `PumpExit`,
`TaskEnqueuesInner`, `TaskAwaits`, `TaskThrows`) is a piece of synchronous code,
and `Enqueue`, `TaskEnds`, `ClearCommandLane` and the others are callbacks that
run when the stack is empty. `resetAllLanes` resets every lane and then pumps
those with entries one after the other (`lanesToDrain`). `LaneOf` and `Inner` say
which lane a job uses and which entry its task enqueues and awaits, as
`runEmbeddedPiAgent` does. Left out: `warnAfterMs`, `onWait`, log lines.

`TaskLanes` knows neither pump loops nor flags nor generations: an entry waits
until it is the oldest of its lane and a slot is free, and holds the slot until it
ends or all lanes are reset. `ImplementsLanes` is the refinement: `queue` is
`waiting`, `activeTaskIds` is `holders`, `gatewayDraining` is the negation of
`open`, and `Fate` does not tell a task that threw synchronously, whose completion
is still on the stack, from one that ended. `NoDeadlock` says that,
whenever the thread is idle, no accepted jobs are stuck among themselves: there is
no set in which every member waits for a slot that only members hold, or for an
inner entry that is a member or will never end.

### GatewayRestart

One action per piece of code between two awaits or timers: `StopSignal`,
`Restart` (the signal handler up to its first await), `DrainEnds`,
`ServerCloses`, `ProcessEnds`, `InProcessRestart`, `RelockFails`, `ForceExit`;
the loop's `Iterate`, `Started`, `StartFails`; the requests
`ScheduleGatewaySigusr1Restart`, `TimerFires`, `PollEnds`, `ConfigReload`,
`ExternalSigusr1`. Clocks are abstract: a timeout or delay may end at any moment.
`runGatewayLoop` installs the handlers before it calls `start()`, so that every
signal, timer and poll may also find the loop there: then there is no server to
close yet, or `start()` returns in the middle of the shutdown, and
`restartResolver` is unset or of the life before. `missed` remembers such a restart
until the next reset of the lanes.
`waitForActiveTasks` keeps the set of tasks that were active when it began, and
so does `activeAtStart`. Left out: the restart cooldown, hot reloads,
`triggerOpenClawRestart` through the service manager, and the pre-restart checks
other than the queue's (they may find work when the lanes are empty, which the
model allows).

`GatewayLife` keeps the stage of the gateway's life and of a shutdown, the lock, the
port, whether work is accepted and how often each lane was reset. `ImplementsLife`
maps `Stage` (a function of the loop), `shutdown`, `locked`, `listening` and
`generation` to them: no order of signals, timers, polls and reloads, before or after
`start()` returns, closes, restarts or resets out of turn. The contract says what a
signal during `start()` may lead to, and no more: a restart that nobody waited for
begins no life and leaves work refused until the next one does.

### FollowupInbox and FollowupQueue

`current` is the object under the session's key, `queue[q]` and `drain[q]` are
the object and the local variables of the loop that drains it, `phase[d]`
follows a message through the pipeline. `Iterate` is the head of the loop,
`IterateCollect`/`Snapshot` the two halves of a collect iteration around its
await, `IterateFollowup` the other modes, `RunEnds`/`RunThrows` the end of a
followup run, `Finally` the finally block. History variables record what was
accepted, what a prompt contained, what was only summarised, what was given up
on purpose, and which messages came too late (`orphaned`): `isActive` was read
some awaits before the enqueue, and the run it saw has ended since, or the queue
was cleared; or the main run threw before `finalizeWithFollowup`. `MayBeLate`
and `MayThrow` allow the two; every run that holds has both. `PendingHasDriver`
says that nothing else is ever left without a loop or a run that will start one.
`Inbox!Spec` in `FollowupQueue` is `FollowupInbox` under a refinement mapping;
`ImplementsInbox` states the refinement. Left out: the modes steer and
interrupt, deduplication by prompt (nobody calls it), texts.

### DeliveryQueue

`file[d]` is the retry count in the file of `d`, `sender[w]` the local variables
of a live `deliverOutboundPayloads` or of a recovery. Every access to the disk is
one action, for everything appears or goes by one rename or unlink; `ReadCount`
and `WriteCount` are two, and whatever happens between them is overwritten.
`DiskError` is the failure of any access. `Exit` ends the process at any moment;
`Start` and `Restart` begin a recovery, whose `LoadPending` comes later than the
first live deliveries may. `spent` is the least time that a recovery has used;
it may use more (`RecoveryEnds`). A payload is taken by the channel or not; a
send that fails although the channel took it only makes more resends.
`SendFails(w, isAbortError)` has the two kinds of error that `deliver.ts:276` tells
apart by name: an `AbortError` is acknowledged as if the caller had given the delivery
up (`aborted`), but a request that times out inside a channel ends with one as well
(`timedOut`; `signal/client.ts` through `utils/fetch-timeout.ts`). Not in the
model: two concurrent failures of one entry share the name of their temporary
file, so one rename fails (a `DiskError`) and a crash at that moment could leave
a file that `loadPendingDeliveries` skips.

`Outbox` has neither senders nor recoveries: an entry is written once, counts
its failures, and leaves when its delivery was taken whole, cut off by an
`AbortError` of its caller or its channel, or put aside (`failed/`); best-effort
entries may leave at any time, and an entry that went may come back with a
failure that is counted late. `ImplementsOutbox` maps the files and the
histories of the model to it.

### SubagentRegistry

`reg[r]` is the entry of run `r` in `subagentRuns`, `disk[r]` the entry as it was
last saved: whether it is listed, `endedReason`, `cleanupHandled`,
`cleanupCompletedAt`, `suppressAnnounceReason`, `announceRetryCount`,
`endedHookEmittedAt`. `proc[r]` is what this process does for the run: where its
announce flow is, after which step a hook emission is awaited, its resume timers,
whether it is in `resumedRuns`, whether a lifecycle error waits for its grace
period, whether an `agent.wait` is not answered, and whether the sweeper waits for
its `sessions.delete`. `Becomes` saves the table when the entry changed, as the
handlers do; `Bookkeep` is `completeCleanupBookkeeping`, which also wakes every
other run (`Awake`, which may call `Resume`). The actions: `Spawn`, `Register`;
`LifecycleStart`, `LifecycleError`, `LifecycleEnd`, `GraceEnds`, `WaitAnswered`,
`WaitFails` (all but the first two end in `CompleteRun`); `FlowDelivers`,
`FlowSkips`, `FlowReturns`, `FlowFails` with `Deferred` and `Retry`;
`HookEmitted`, `ResumeTimer`; `Kill`, `SteerMarks`, `SteerFails`,
`SteerReplaces`; `SweepTakes`, `SweepDeletes`, `SweepEnds`, which saves the table
once for all; `BackoffEnds` and `Expires` for the clock; `Crash` and `Restart`.
Time is two sets: a run is *cooling* within the backoff of its last failed
announce and *expired* five minutes after its end. Timers that can only end with
the backoff (`due`) are told apart from those that may end before it (`early`).
Left out: `releaseSubagentRun` (called only when a spawn is undone), what an
announcement says and how it is routed, a delivery that the requester got but that is
reported as failed (the announce is tried again then, so that `AnnouncedAtMostOnce`
counts the flows that report success), and errors of the save, which the registry
swallows. `Kill` is the mark; a run that ends between `abortEmbeddedPiRun` and the mark
(`subagents-tool.ts:245-263`) counts as ended, not as killed.

### CronService

`disk` and `mem` are the jobs in the file and in `state.store`; time is counted
per job in slots, slot `n` being the `n`-th time the job is due, so
`nextRunAtMs` is a slot and "past due" a comparison with `passed[j]`. A marker
is fresh or stuck (older than two hours). `run[c][j]` follows an execution of
`j` that cause `c` (tick, catch-up, manual) decided on: queued, running, then
its outcome. What `locked` holds together is one action, and each takes `ok`,
whether its save succeeded; the copy in memory has changed either way.
`attached` says that the tick still holds the very objects that are in memory,
since a reload replaces them. `StartClears`, `StartTakesMissed`,
`CatchupStarts`, `CatchupApplies`, `StartFinishes` are `start`; `TimerFires`,
`TickTakes`, `TickStarts`, `TickApplies`, `TickEnds` are `onTimer`;
`ManualTakes` and `ManualApplies` are `run`; `Update`, `UpdateRejected`,
`Remove`, `Add`, `Read` are the requests (`applyJobPatch` changes the job in
memory, `Patched`, before it may refuse the result: `UpdateRejected` leaves the
half-applied edit there, unsaved). `Maintained` and `Recomputed` are the two
ways of recomputing times, of which only the second moves times that are past
due. Left out: `cronEnabled`, schedules that cannot be computed, what a job
does, work that goes on after its timeout, and a second service over the same
file (section 6).

## 3. Runs

| Run | Result | What it shows |
|---|---|---|
| `command_queue` | holds | two runs of one session and one of another share lane main; concurrency 0 and 2, clears, one reset, tasks that throw: no stranded lane, no deadlock, one run per session, the lane contract (`ImplementsLanes`), and everything accepted settles |
| `gateway_restart` | holds | two restarts from any source, stop signals, fresh processes and restarts in place over a queue with two agent runs of a session, signals also while `start()` runs: lock, drained tasks, the drain flag, the order of its lives (`ImplementsLife`), and every shutdown ends |
| `restart_agent_overlap` | `OneAgentPerSession` fails | a drain that timed out, then the reset: two runs of a session at a time |
| `followup_queue` | holds | four deliveries (one a redelivery), two routes, two modes, policy `new`, failing followup runs, late decisions and main runs that throw: nothing is lost, one drain, the inbox refinement (which includes the order), everything accepted is run unless it came too late and nobody is left to run it, and drains end |
| `followup_queue_clear` | holds | dropping policies, clears, late decisions and main runs that throw: whatever is queued has a driver unless it came too late, and what was given up is never answered |
| `followup_summary_loss` | `NothingLost` fails | the front of the queue moves while a run is awaited |
| `delivery_queue` | holds | two deliveries (one of two payloads, one best-effort and mirrored) and a recovery, all failures, timeouts, crashes, aborts, restarts in place, the code's own waits: nothing lost but to an `AbortError`, nothing needlessly resent, entries come and go as in `Outbox`, and every entry leaves but those behind a wait that no recovery has the time for |
| `subagent_registry` | holds | a run and the one that may replace it: every report of an end, kills, steers, the sweeper, a crash at any point |
| `subagent_family` | holds | a run that spawns another: deferrals for the descendant, wakes, expiry, a deleted session; a flow owns its cleanup and every announce loop ends |
| `subagent_announce_lost` | `EndedIsSettled` fails | two siblings: the wake after the other's cleanup arms a second timer within the backoff, both timers return at once, and the announce is neither retried nor given up |
| `cron_service` | holds | a recurring job and a one-shot that is edited (edits that are refused included) and run by hand, one crash or failed save at any place: one run per job, the result of a one-shot is saved once, the timer lives, due jobs are handled |
| `cron_edits` | holds | a recurring job that is edited, run by hand and whose marker may get stale, beside a job that is added, removed and deleted by its own run: results undo no edit and skip no other job's time |

Each failing run refutes a sentence of the repository's documentation or
comments, quoted under "findings" in `PROJECT.json`.

**Bounds and why they suffice.** *Command queue*: the smallest instance in which
a session lane holds one entry back while two lanes compete for the global one,
and in which a completion can meet a newer generation (`MaxGen = 1`).
Concurrency 0 is a value the configuration can produce; `setCommandLaneConcurrency`
raises it to 1. *Restart*: two restarts (`MaxRestarts`), since the second is the
first that meets leftovers of an earlier life, and one stray poll (`MaxPolls`).
*Followup*: a cap of 2 with four messages reaches every policy; two or three
queue objects are what one clear under a drain needs. *Delivery*: time is
counted in units of 5 s, `BACKOFF_MS` is `<<1, 5, 24, 120>>` and `maxRecoveryMs`
12 of them, as in the code. `MaxRetries` is 3 instead of 5: an entry that failed
twice already waits longer than a recovery lasts, so a recovery counts no third
failure of it, and the third (put aside at the next start) needs a live sender
beside it. One recovery at a time is checked; the theorems cover any number.
*Subagents*: in `subagent_registry` the smallest instance with a replacement (two
runs in one session), two retries, so that a retry can be followed by the give-up,
and one crash at any point (`MaxCrashes`); the theorems cover any number.
`Controlled`, `Archived` and `Flaky` name the sessions whose runs
may be killed, steered, swept or report errors. Two sessions, one below the other
or side by side, are what deferrals and wakes need; those runs have no crash.
*Cron*: two kinds of job, each with a slot that passes (`MaxSlots = 1`: due before
and after the edit, with a next slot to move to), one edit per job (`MaxEdits`),
and one fault, a crash or a failed save (`MaxFaults`), in `cron_service`; which
job may be edited, run by hand, removed or get stale is split between the two runs.
Larger instances (two slots, two edits) were beyond five minutes; the theorems
cover them. Deadlock is checked in `command_queue`; elsewhere the system stops
when every input of the instance is used up.

**Fairness.** JavaScript runs what is on its stack to the end, hence weak
fairness of the synchronous steps. Strong fairness of callbacks (`TaskEnds`, the
shutdown, the run loop, the pipeline, the end of runs) says that the event loop
is fair to callbacks that become ready again and again; in the restart model
tasks have *no* fairness, because the force-exit timer and the drain's deadline
exist for tasks that never end. For the followup queue strong fairness of
`RunEnds` means that a followup run that is repeated does not fail for ever; the
code retries without limit and promises nothing otherwise. For deliveries, an
access to the disk that a recovery repeats succeeds in the end (failed sends may
go on for ever: that is what `MAX_RETRIES` is for), from some time on the process
only ends when it sends nothing, and it is started again; without further starts
nothing retries an entry, as the code documents for `maxRecoveryMs`. For subagents
timers end (grace period, backoff, resume), `agent.wait` is answered (its own
timeout counts as an answer), flows, hooks and steers come to an end, and the
process is started again; nothing says that a run ends by itself. For cron the
locked parts of `start` and `onTimer` get their turn, a timer that is set fires,
and executions of the catch-up and of a tick end: without a `timeoutSeconds` of
its own a job is cut off after ten minutes, an agent turn after an hour. (A job
with `timeoutSeconds: 0` has no cut-off and is not covered.) Manual runs and
requests have no fairness.

## 4. Proofs

All theorems hold for every value of the constants that satisfies the named
assumptions of the modules. `tlapm` proves them with Z3, Zenon and LS4.

**CommandQueue_proofs** (`TypeCorrect`, `NoStrandedLane`,
`SlotAndQueueAccounting`, `SessionExclusion`, `CapRespected`,
`QueueServesLanes`, `NoCircularWait`). The inductive invariant `IndInv` joins
the safety invariants with what the call stack says of the jobs in its frames
(`FramesMatchJobs`), that an inner entry is new until its task enqueues it
(`InnerIsNew`), that generations grow, and that an untuned lane has one slot.
`DrainingHasOwner` and `NoLostWakeup` are not inductive alone: a pump loop
leaves the stack only when its lane is no longer startable, and a frame can only
be popped soundly if it is known which job it belongs to. `CapRespected` is an
action property; a lane's concurrency may be lowered below the number of its
running tasks, so no state invariant bounds their number. `QueueServesLanes` is
the refinement of `TaskLanes`: under `IndInv` each step is one of the contract's
or invisible in it (a completion of an older generation, a frame that leaves the
stack, the pumping after a reset). `NoCircularWait` assumes a rank of the lanes
such that a task waits only for an entry of a lane ranked below its own. The
source justifies it: the only places where a task waits for another lane are
`run.ts:195-211` and `compact.ts:755-760`, and both go from a session lane to a
global one. `AwaitInv` adds that a task which has returned to the event loop has
enqueued its inner entry, and that a task which threw is settled by a frame on
the stack. If a set of jobs were stuck, take a member of it whose lane has the
lowest rank (the ranks are naturals, so `WFMin` gives one): if it is queued, no
wakeup is lost (`IndInv`), so a member that runs holds a slot of the same lane;
and a member that runs waits for one of lower rank.

**GatewayRestart_proofs** (`GatewayImplementsQueue`, `QueueSurvivesRestarts`,
`GatewayHoldsLock`, `GatewayAcceptsWork`, `DrainsAreComplete`,
`GatewayServesLanes`, `GatewayHasNoCircularWait`, `GatewayLives`). Every gateway
step is a step of `CommandQueue` or leaves it alone, so what holds of the queue
holds under restarts, its refinement and its freedom from deadlock included.
None of these theorems assumes anything of when signals come. `LifeInv`, for
`GatewayAcceptsWork`, says that work is refused only while a shutdown is under
way, after a restart was missed, or when the loop is about to reset the lanes,
and that the loop can be woken exactly while it serves. `GatewayLives` joins it
with `LockInv` and `ShutdownInv` (where a shutdown is, and that one for a
restart refuses work), and has one obligation per handler. `DrainInv`, for
`DrainsAreComplete`, says that the tasks a wait is for never become new or
queued again, that while a wait is over and was complete none of them runs, and
that lanes are reset only when no shutdown is under way.

**FollowupQueue_proofs** (`TypeCorrect`, `GivenUpStaysUnanswered` and
`QueuedIsDriven` without hypotheses; `OneDrain` without clears;
`AcceptedIsKept`, `AnswersInOrder`, `QueueIsInbox` under `NothingIsDropped`: no
clears, and policy `new`). `InboxInv` is `TypeOK`, `ControlInv` (one drain, of
the queue of the map; nothing dropped; the prompt of a running turn is the front
of the queue) and `HistoryInv` (every message is accepted once; what is queued
is a suffix of what was accepted, and what was answered is a prefix); `LEMMA
Step` shows that every step is idle, begins a turn for the first messages,
removes answered ones from the front or takes a new one. `followup_summary_loss`
shows that `NothingIsDropped` is needed. The refinement theorem covers initial
states and steps. `QueuedIsDriven` holds with clears, late decisions, main runs
that throw and any drop policy. It is inductive with the types alone: a drain
ends by starting one for the queue that the map holds by then, whichever that
is, or by leaving the session without a queue, and a message that finds neither
a drain nor a run is one of the orphaned. `GivenUpStaysUnanswered` is an action
property that holds with clears under running drains, late decisions and
failures. Its invariant `GivenUpInv` says that a message is known to one queue
object at most (`KnownOnce`), that no object knows what was given up or is still
on its way (`KnownIsHeld`), and that what was given up had arrived
(`GivenIsOver`); it needs neither one drain nor any order.

**DeliveryQueue_proofs** (`TypeCorrect`, `OnlyAbortedIsLost`,
`NothingIsSentAgain`, `QueueIsOutbox`). `OnlyAbortsLose` is inductive only with
`SentSoFar` (whoever is past a payload of a delivery that must be sent whole has
sent it) and `AckIsDue` (what is about to be acknowledged was sent whole, given
up by its caller, or timed out). No assumption on crashes, failures or the
number of overlapping recoveries is made: an entry may come back after an
acknowledgement, but none goes too early.

`NothingIsSentAgain` assumes that no best-effort caller both reports failures and
may abort (`BestEffort`, `Reporting` and `Abortable` have no common member), which
is so for every caller: `commands/agent/delivery.ts:220` reports without a signal,
`cron/isolated-agent/delivery-dispatch.ts` and `infra/outbound/message.ts` pass a
signal and do not report. Its invariant is about histories in which nothing has
crashed, failed or overlapped yet (`Calm`): every delivery has one holder, what
lies ahead of the holder is untouched, and a delivery that was begun is held.

`QueueIsOutbox` has no hypotheses. The reasons for which an entry may leave come
from the invariant of `OnlyAbortedIsLost`; `OutboxInv` adds that a delivery is written
before it is sent and once, that only what was written has a file, and that whoever
is about to write a count has read one, so that a late count brings back no entry
that never was.

**SubagentRegistry_proofs** (`TypesKept`, `NoSecondAnnounce`, `FiniteAttempts`,
`KilledStaysQuiet`, `ReplacedStaysQuiet`, `FlowOwns`, `MutedWhileSteering`,
`CompletedForGood`). The inductive invariant is local to a run: `Good` relates its
entry, the saved copy, its process state and its past. `GoodCopy` is about both
copies, because a crash replaces the one by the other: a cleanup that is open
belongs to a run that was neither announced nor killed, has no flow and has
retries left. `GoodFlow` says what a running flow and the calls of a run may rely
on, `GoodPast` what was announced, killed, replaced or steered. None of the safety
properties is inductive alone: that a run is announced once depends on what the
file says of it, and that a replaced run stays quiet on its steer having been
marked before it ended. Most handlers are `Calm`, one of a few harmless changes
for every run they touch; `CalmKeepsGood` settles these at once, also for the
runs that a cleanup wakes. `CompletedForGood` is an action property: `Advances`
says that a listed entry stays completed.

**CronService_proofs** (`TypesKept`, `RunsAlone`, `EditsLast`, `OneShotsFireOnce`,
`SchedulerStaysAlive`, `NothingSkipped`, all from `GoodAlways`). `Good` relates
the two entries of a job, its runs and its history, in named parts: `RunsAlone`
needs `Guarded` (both entries carry the marker of a live run, since the tick looks
at the file and a manual run at memory), `OneShotsFireOnce` needs that a one-shot
that fired is disabled in both entries and has no live run (`Once`), `EditsLast`
that both entries agree with the edit (`Wished`), and `SchedulerStaysAlive` that
an enabled recurring job always has a time (`Timed`), that both entries say the
same of it unless an edit was not saved (`Agreed`), and that start ends with a
timer (`Awake`). Nearly every step derives a job's entry from one of the two it
had (`Derives`, `DerivesKeepsGood`): a walk over all jobs, a result, or nothing.

**Only model-checked**: the liveness properties (`AcceptedWorkSettles`,
`ShutdownEnds`, `AcceptedIsServed`, `DrainsEnd`, `OnlyStrandedStay`,
`AnnounceLoopEnds`, `DueIsHandled`), since fairness and `ENABLED` are out of the
prover's reach. Every other property of a run that holds is also a theorem: the
invariants, the action properties and the four refinements. `StartsWithinCap`,
`SlotsMatchTasks` and `RunsInOrder` are theorems and not checked
by a run of their own, since the refinement that a run checks implies them or says
the same of all that it observes; `DrainingHasOwner` and `QueueMatchesJobs` are
proved as parts of the invariant. No module of the project uses a `RECURSIVE`
operator, and no proof uses induction over data; the least element of a set of
naturals is all that `NoCircularWait` needs of well-foundedness.

**What is left to prove**: an abstract specification of the subagent registry (a run
is announced or given up once) and one of cron (a slot is taken, handled once, or
skipped by an edit) would say little more than the invariants that are proved of
them; a joint theorem for the queues that meet through an agent run needs a module
that composes them first.

## 5. What else the models show

Disagreements that TLC finds at once and that no run repeats:

- a task accepted before the drain window has its inner entry refused in it
  (`run.ts:211`): the run settles with an error;
- a restart that is asked for while `start()` runs, and over before it returns, finds
  no resolver to call: the gateway goes on serving with every enqueue refused until
  it is restarted once more (`ServesMeansAccepts` without `~missed` fails). When
  `start()` returns while such a shutdown gives up the lock, no server is closed, and
  the next `start()` in place may find the port bound;
- a poll that an earlier reload left behind restarts the gateway again
  (`server-reload-handlers.ts:216`);
- a send that times out inside a channel with an `AbortError` is acknowledged as if
  its caller had aborted it: the message was not taken, and its file is removed
  (`OnlyAbortsLose` without `timedOut` fails);
- the recovery's waits of 120 s and 600 s never fit into its 60 s, so an entry that
  failed twice is neither tried again nor put aside at any start, and those enqueued
  after it stay in the queue with it (`OnlyStrandedStay` without `Stranded` fails);
- a followup message whose main run ends between `isActive` and the enqueue, or
  throws, is left without anybody to drain it until another run of the session ends
  (`PendingHasDriver` without `orphaned` fails); after a clear, the end of the old
  drain may delete the key of the new queue;
- in collect mode items are tested for one route before an await and copied after
  it, so a prompt may mix two routes; a summary that is pending without any items
  makes the loop of a mode other than collect go round until it is cleared;
- a recovery passes no `onError`: a best-effort entry of which a payload failed
  is acknowledged by it and lost (`OnlyAbortsLose` is stated for the others). Live
  calls do the same when their caller passes none;
- an aborted best-effort delivery is counted as a failure and sent again at the
  next start, where the tests acknowledge aborted deliveries;
- a recovery sends all payloads of an entry, also those that had been taken;
- an entry may be in the queue and in `failed/` at once, when a live failure and a
  recovery handle it at the same time;
- a best-effort delivery whose caller passed both an abort signal and `onError`
  would be sent from its beginning again after an abort (no caller passes both);
- a subagent that ends between the abort of a kill and its mark is announced, though
  the tool reports that it was killed (`KilledNeverAnnounced` is about marked runs);
- a subagent that ends after it was killed has its killed outcome overwritten (it
  stays unannounced); a crash during an announce flow leaves `cleanupHandled`
  saved, and the announce is not tried again after the restore, as
  `docs/tools/subagents.md:276` says;
- the end of cron's `start`, and `add`, recompute past-due times in full and may
  skip a slot that became due meanwhile, where the other paths take care not to
  (`NoSilentSkip` excepts the two);
- rescheduling a one-shot that ran ok never makes it fire, and rescheduling one
  while it runs is lost with its result;
- disabling a job under its run, or two hours, take its marker away, and the job
  may then run twice at once (`OneRunPerJob` excepts such runs); a result that
  could not be saved leaves the marker for two hours;
- a one-shot whose result could not be saved is executed again after a restart
  (`OneShotFiresOnce` counts saved results), and a marker that a failed save left
  behind keeps its job from running for two hours (`DueIsHandled` takes it for a run);
- an edit that is refused after `applyJobPatch` changed the job is in memory all the
  same: the next save writes it to the file, or the next reload drops it;
- two failed saves can leave a one-shot without a timer, which is why
  `SchedulerAlive` is about recurring jobs.

## 6. Limits

- The clocks are abstract throughout: a timeout or delay may end at any moment.
  What depends on the ratio of two delays is not covered, but for the recovery's
  budget, which `DeliveryQueue` counts.
- The two cases left out of the followup queue (modes steer and interrupt), the hot
  reload of `server-reload-handlers.ts` and the restart through the service
  manager are in no module.
- `CronService` is one service over its file. A hot reload, or a restart in place,
  makes a second one while the tick of the first may still run: `stop()` only
  clears the timer, the old tick arms it again, and the new start clears the
  markers of the old runs.
- The composition of the parts (section 1) is modelled for the restart and the
  command queue only; the others meet through runs that end and deliveries that
  are taken or fail, which each module leaves open.
- Section 1 lists the parts that are not modelled and why.

## 7. Checking

    tlc -workers 2 -config CommandQueue.cfg MCCommandQueue
    tlapm CommandQueue_proofs.tla

and likewise for the other configurations; `PROJECT.json` lists which module a
configuration belongs to, which source lines a definition translates, and for
each property a change of one definition that breaks it.
