----------------------------- MODULE CronService -----------------------------
(***************************************************************************)
(* The scheduler of cron jobs (src/cron/service/timer.ts, ops.ts, jobs.ts, *)
(* store.ts and locked.ts).  Jobs live in a file and in a copy in memory.  *)
(* Timer ticks, the catch-up of missed jobs at the start and manual runs   *)
(* mark a job as running under a lock, execute it outside the lock, and    *)
(* apply its result under the lock again; requests come in between.  What  *)
(* `locked` holds together is one step here; the order of the lock's queue *)
(* is left open.                                                           *)
(*                                                                         *)
(* Time is counted per job: slot n of a job is the n-th time it is due.    *)
(***************************************************************************)
EXTENDS Naturals, FiniteSets

CONSTANTS Jobs,         \* job ids
          OneShot,      \* jobs with schedule kind "at", the others recur
          DeletedAfter, \* one-shots with deleteAfterRun
          Backoff,      \* recurring jobs whose error backoff outlasts a slot
          Concurrency,  \* cronConfig.maxConcurrentRuns
          Initial,      \* jobs in the file at first, the others are added
          MaxSlots,     \* bound: slots of a job that pass
          Editable,     \* bound: jobs that are edited
          MaxEdits,     \* bound: edits of a job
          Removable,    \* bound: jobs that are removed
          Manual,       \* bound: jobs that are run by hand, one run at a time
          Slow,         \* bound: jobs whose marker may get older than STUCK_RUN_MS
          MaxFaults     \* bound: crashes and failed saves that are explored

ASSUME CronAssumption ==
    /\ OneShot \subseteq Jobs /\ DeletedAfter \subseteq OneShot
    /\ Backoff \subseteq Jobs /\ Initial \subseteq Jobs
    /\ Concurrency \in Nat \ {0}
ASSUME CronBoundsAssumption ==
    /\ MaxSlots \in Nat /\ MaxEdits \in Nat /\ MaxFaults \in Nat

VARIABLES
    disk,      \* the file of jobs
    mem,       \* state.store
    timer,     \* state.timer is set
    tick,      \* where onTimer is; any but "idle": state.running
    attached,  \* the tick holds the very job objects that are in memory
    phase,     \* where start is
    interrupted, \* startupInterruptedJobIds
    run,       \* per cause and job: an execution that was decided on
    passed,    \* per job: slots whose time has come
    faults,    \* crashes and failed saves so far
    \* history
    edits,     \* per job: edits so far
    wish,      \* per job: whether a user disabled or removed it last
    unsaved,   \* jobs with an edit that was refused or could not be saved
    created,   \* jobs that ever were
    lifted,    \* runs whose marker was taken away before their result was applied
    fired      \* per job: results of ticks and catch-ups saved since its last edit

stores == <<disk, mem, faults>>
sched == <<timer, tick, attached, phase, interrupted>>
history == <<edits, wish, unsaved, created, lifted, fired>>
vars == <<stores, sched, run, passed, history>>

-----------------------------------------------------------------------------
(* Jobs.                                                                   *)

Slots == 0 .. MaxSlots + 2

\* A job: state.nextRunAtMs as a slot or 0, state.runningAtMs as its age,
\* state.lastStatus, and the slot of a one-shot's schedule.at.
Job == [present : BOOLEAN,
        enabled : BOOLEAN,
        next : Slots,
        marker : {"no", "fresh", "stuck"},
        status : {"none", "ok", "error", "skipped"},
        at : Slots]

Gone == [present |-> FALSE, enabled |-> FALSE, next |-> 0, marker |-> "no",
         status |-> "none", at |-> 0]

NewJob(j) == [present |-> TRUE, enabled |-> TRUE, next |-> passed[j] + 1, marker |-> "no",
              status |-> "none", at |-> IF j \in OneShot THEN passed[j] + 1 ELSE 0]

Outcomes == {"ok", "error", "skipped"}
Causes == {"tick", "catchup", "manual"}
Stages == {"no", "queued", "running"} \cup Outcomes

Due(j, e) == e.next > 0 /\ e.next <= passed[j]

\* computeJobNextRunAtMs
NextRun(j, e) ==
    CASE ~e.enabled -> 0
      [] e.enabled /\ j \notin OneShot -> passed[j] + 1
      [] e.enabled /\ j \in OneShot -> IF e.status = "ok" THEN 0 ELSE e.at

\* Bug: does not look at the marker.
RunnableMarked(j, e) == e.present /\ e.enabled /\ Due(j, e)

\* isRunnableJob
Runnable(j, e) == e.present /\ e.enabled /\ e.marker = "no" /\ Due(j, e)

\* normalizeJobTickState
Normalized(e) ==
    IF ~e.enabled THEN [e EXCEPT !.next = 0, !.marker = "no"]
    ELSE IF e.marker = "stuck" THEN [e EXCEPT !.marker = "no"] ELSE e

\* recomputeNextRunsForMaintenance, and recomputeNextRuns
Maintained(store) ==
    [j \in Jobs |->
        LET e == Normalized(store[j])
        IN  IF store[j].present /\ e.next = 0 THEN [e EXCEPT !.next = NextRun(j, e)] ELSE e]

Recomputed(store) ==
    [j \in Jobs |->
        LET e == Normalized(store[j])
        IN  IF store[j].present /\ (e.next = 0 \/ Due(j, e))
            THEN [e EXCEPT !.next = NextRun(j, e)] ELSE e]

\* Jobs whose marker the walk over all jobs takes away.
Unmarked(store) == {j \in Jobs : ~store[j].enabled \/ store[j].marker = "stuck"}

\* Bug: a one-shot that failed keeps its time.
AfterRunStaysDue(j, e, outcome) ==
    LET done == [e EXCEPT !.marker = "no", !.status = outcome]
    IN  IF j \in DeletedAfter /\ outcome = "ok" THEN Gone
        ELSE IF j \in OneShot /\ outcome # "error" THEN [done EXCEPT !.enabled = FALSE, !.next = 0]
        ELSE IF ~e.enabled THEN [done EXCEPT !.next = 0]
        ELSE IF j \in OneShot THEN [done EXCEPT !.next = e.at]
        ELSE [done EXCEPT !.next = passed[j] + 1]

\* Bug: the backoff is added to the time before the run.
AfterRunBackedOff(j, e, outcome) ==
    LET done == [e EXCEPT !.marker = "no", !.status = outcome]
    IN  IF j \in DeletedAfter /\ outcome = "ok" THEN Gone
        ELSE IF j \in OneShot THEN [done EXCEPT !.enabled = FALSE, !.next = 0]
        ELSE IF ~e.enabled THEN [done EXCEPT !.next = 0]
        ELSE IF outcome = "error" THEN [done EXCEPT !.next = e.next + 2]
        ELSE [done EXCEPT !.next = passed[j] + 1]

\* applyJobResult
AfterRun(j, e, outcome) ==
    LET done == [e EXCEPT !.marker = "no", !.status = outcome]
    IN  IF j \in DeletedAfter /\ outcome = "ok" THEN Gone
        ELSE IF j \in OneShot THEN [done EXCEPT !.enabled = FALSE, !.next = 0]
        ELSE IF ~e.enabled THEN [done EXCEPT !.next = 0]
        ELSE IF outcome = "error" /\ j \in Backoff THEN [done EXCEPT !.next = passed[j] + 2]
        ELSE [done EXCEPT !.next = passed[j] + 1]

\* Bug: the full recomputation.
AppliedAdvancing(store, cause) ==
    Recomputed([j \in Jobs |-> IF run[cause][j] \in Outcomes /\ store[j].present
                               THEN AfterRun(j, store[j], run[cause][j]) ELSE store[j]])

\* applyOutcomeToStoredJob for every result of a cause, then the maintenance
Applied(store, cause) ==
    Maintained([j \in Jobs |-> IF run[cause][j] \in Outcomes /\ store[j].present
                               THEN AfterRun(j, store[j], run[cause][j]) ELSE store[j]])

\* Bug: takes enabled from what was run.
MergedEnabled(j, snapshot, reloaded) ==
    IF ~snapshot.present THEN Gone
    ELSE [snapshot EXCEPT !.enabled = j \notin OneShot, !.at = reloaded.at]

\* mergeManualRunSnapshotAfterReload: of the reloaded job only the schedule is
\* kept, the rest is what the run left in memory.
Merged(j, snapshot, reloaded) ==
    IF ~snapshot.present THEN Gone
    ELSE IF ~reloaded.present THEN reloaded
    ELSE [snapshot EXCEPT !.at = reloaded.at]

\* Marking jobs as running.
Marked(store, S) == [j \in Jobs |-> IF j \in S THEN [store[j] EXCEPT !.marker = "fresh"] ELSE store[j]]

-----------------------------------------------------------------------------
(* The store, the timer and the marker's history.                          *)

\* persist, which may fail after the copy in memory was changed.
Save(store, ok) ==
    /\ ok \/ faults < MaxFaults
    /\ faults' = IF ok THEN faults ELSE faults + 1
    /\ mem' = store
    /\ disk' = IF ok THEN store ELSE disk

\* Bug: looks for times to come only.
ArmedForFuture(store) ==
    \E j \in Jobs : store[j].present /\ store[j].enabled /\ store[j].next > passed[j]

\* armTimer: nextWakeAtMs finds a time to wake at.
ArmedFor(store) ==
    \E j \in Jobs : store[j].present /\ store[j].enabled /\ store[j].next > 0

ArmTimer(store, ok) == timer' = IF ok THEN ArmedFor(store) ELSE timer

Unsettled == {x \in Causes \X Jobs : run[x[1]][x[2]] # "no"}

\* The runs in S are settled, the markers of the jobs in J are taken away.  A
\* result takes the marker of its job with it, whoever's it is by then.
Lift(S, J) ==
    LET late == {x[2] : x \in S \cap lifted}
    IN  lifted' = (lifted \cup {x \in Unsettled : x[2] \in J \cup late}) \ S

RunsOf(cause) == {x \in Unsettled : x[1] = cause}

Settle(cause, ok) ==
    /\ run' = [run EXCEPT ![cause] = [j \in Jobs |-> "no"]]
    /\ fired' = [j \in Jobs |->
                    IF ok /\ run[cause][j] \in Outcomes /\ <<cause, j>> \notin lifted
                    THEN fired[j] + 1 ELSE fired[j]]

Idle == [c \in Causes |-> [j \in Jobs |-> "no"]]

Init ==
    /\ passed = [j \in Jobs |-> 0]
    /\ disk = [j \in Jobs |-> IF j \in Initial THEN NewJob(j) ELSE Gone]
    /\ mem = [j \in Jobs |-> Gone]
    /\ timer = FALSE
    /\ tick = "idle"
    /\ attached = FALSE
    /\ phase = "new"
    /\ interrupted = {}
    /\ run = Idle
    /\ faults = 0
    /\ edits = [j \in Jobs |-> 0]
    /\ wish = [j \in Jobs |-> "none"]
    /\ unsaved = {}
    /\ created = Initial
    /\ lifted = {}
    /\ fired = [j \in Jobs |-> 0]

-----------------------------------------------------------------------------
(* start: clear stale markers, catch up, take up the schedule.             *)

StartClears(ok) ==
    /\ phase = "new"
    /\ Save([j \in Jobs |-> [disk[j] EXCEPT !.marker = "no"]], ok)
    /\ interrupted' = {j \in Jobs : disk[j].marker # "no"}
    /\ phase' = IF ok THEN "cleared" ELSE "failed"
    /\ UNCHANGED <<timer, tick, attached, run, passed, history>>

\* runMissedJobs: interrupted jobs and one-shots that ran are left out.
Missed == {j \in Jobs \ interrupted :
              Runnable(j, mem[j]) /\ ~(j \in OneShot /\ mem[j].status # "none")}

StartTakesMissed(ok) ==
    /\ phase = "cleared"
    /\ IF Missed = {}
       THEN phase' = "finish" /\ UNCHANGED <<stores, run>>
       ELSE /\ Save(Marked(mem, Missed), ok)
            /\ phase' = IF ok THEN "catchup" ELSE "failed"
            /\ run' = IF ok THEN [run EXCEPT !["catchup"] =
                                     [j \in Jobs |-> IF j \in Missed THEN "queued" ELSE "no"]]
                      ELSE run
    /\ UNCHANGED <<timer, tick, attached, interrupted, passed, history>>

\* Missed jobs are executed one after the other.
CatchupStarts(j) ==
    /\ run["catchup"][j] = "queued"
    /\ \A i \in Jobs : run["catchup"][i] # "running"
    /\ run' = [run EXCEPT !["catchup"][j] = "running"]
    /\ UNCHANGED <<stores, sched, passed, history>>

CatchupApplies(ok) ==
    /\ phase = "catchup"
    /\ \A j \in Jobs : run["catchup"][j] \in Outcomes \cup {"no"}
    /\ Save(Applied(disk, "catchup"), ok)
    /\ Lift(RunsOf("catchup"), Unmarked(disk))
    /\ Settle("catchup", ok)
    /\ phase' = IF ok THEN "finish" ELSE "failed"
    /\ attached' = FALSE
    /\ UNCHANGED <<timer, tick, interrupted, passed, edits, wish, unsaved, created>>

StartFinishes(ok) ==
    /\ phase = "finish"
    /\ Save(Recomputed(disk), ok)
    /\ Lift({}, Unmarked(disk))
    /\ ArmTimer(mem', ok)
    /\ phase' = IF ok THEN "on" ELSE "failed"
    /\ attached' = FALSE
    /\ UNCHANGED <<tick, interrupted, run, passed, edits, wish, unsaved, created, fired>>

-----------------------------------------------------------------------------
(* onTimer.                                                                *)

\* The timer fires: while a tick is under way it is only armed again, as it is
\* at the beginning of a tick.
TimerFires ==
    /\ timer
    /\ tick = "idle"
    /\ tick' = "wants"
    /\ UNCHANGED <<stores, timer, attached, phase, interrupted, run, passed, history>>

DueJobs == {j \in Jobs : Runnable(j, disk[j])}

\* The first locked part: reload, mark what is due, or else maintain.
TickTakes(ok) ==
    /\ tick = "wants"
    /\ IF DueJobs = {}
       THEN /\ Save(Maintained(disk), ok)
            /\ Lift({}, Unmarked(disk))
            /\ tick' = "closing"
            /\ UNCHANGED <<attached, run>>
       ELSE /\ Save(Marked(disk, DueJobs), ok)
            /\ tick' = IF ok THEN "runs" ELSE "closing"
            /\ run' = IF ok THEN [run EXCEPT !["tick"] =
                                     [j \in Jobs |-> IF j \in DueJobs THEN "queued" ELSE "no"]]
                      ELSE run
            /\ attached' = ok
            /\ UNCHANGED lifted
    /\ UNCHANGED <<timer, phase, interrupted, passed, edits, wish, unsaved, created, fired>>

\* A worker takes the next job and marks the object it holds once more.
TickStarts(j) ==
    /\ run["tick"][j] = "queued"
    /\ Cardinality({i \in Jobs : run["tick"][i] = "running"}) < Concurrency
    /\ run' = [run EXCEPT !["tick"][j] = "running"]
    /\ mem' = IF attached /\ mem[j].present THEN Marked(mem, {j}) ELSE mem
    /\ UNCHANGED <<disk, sched, passed, faults, history>>

\* executeJobCoreWithTimeout returns, or times out, for any cause.
RunEnds(cause, j) ==
    /\ run[cause][j] = "running"
    /\ \E outcome \in Outcomes : run' = [run EXCEPT ![cause][j] = outcome]
    /\ UNCHANGED <<stores, sched, passed, history>>

\* The second locked part: reload, apply all results, maintain.
TickApplies(ok) ==
    /\ tick = "runs"
    /\ \A j \in Jobs : run["tick"][j] \in Outcomes \cup {"no"}
    /\ Save(Applied(disk, "tick"), ok)
    /\ Lift(RunsOf("tick"), Unmarked(disk))
    /\ Settle("tick", ok)
    /\ tick' = "closing"
    /\ UNCHANGED <<timer, attached, phase, interrupted, passed, edits, wish, unsaved, created>>

\* Whatever came of it, the tick is over and the timer armed.
TickEnds ==
    /\ tick = "closing"
    /\ tick' = "idle"
    /\ attached' = FALSE
    /\ timer' = ArmedFor(mem)
    /\ UNCHANGED <<stores, phase, interrupted, run, passed, history>>

-----------------------------------------------------------------------------
(* Requests.                                                               *)

Serves == phase # "new"

\* run, its first locked part
ManualTakes(j, forced, ok) ==
    /\ Serves
    /\ j \in Manual /\ run["manual"][j] = "no"
    /\ mem[j].present /\ mem[j].marker = "no"
    /\ forced \/ (mem[j].enabled /\ Due(j, mem[j]))
    /\ Save(Marked(mem, {j}), ok)
    /\ run' = IF ok THEN [run EXCEPT !["manual"][j] = "running"] ELSE run
    /\ UNCHANGED <<sched, passed, history>>

\* run, its second locked part: the result is applied to the copy in memory,
\* then the file is read again and the job's part of it replaced.
ManualApplies(j, ok) ==
    /\ run["manual"][j] \in Outcomes
    /\ run' = [run EXCEPT !["manual"][j] = "no"]
    /\ IF ~mem[j].present
       THEN /\ Lift({<<"manual", j>>}, {})
            /\ UNCHANGED <<stores, timer, attached>>
       ELSE LET snapshot == AfterRun(j, mem[j], run["manual"][j])
                merged == [disk EXCEPT ![j] = Merged(j, snapshot, disk[j])]
            IN  /\ Save(Maintained(merged), ok)
                /\ Lift({<<"manual", j>>}, Unmarked(merged))
                /\ ArmTimer(mem', ok)
                /\ attached' = FALSE
    /\ UNCHANGED <<tick, phase, interrupted, passed, edits, wish, unsaved, created, fired>>

\* applyJobPatch, which changes the job object in memory.
Patched(j, kind) ==
    CASE kind = "enable" -> [mem[j] EXCEPT !.enabled = TRUE]
      [] kind = "disable" -> [mem[j] EXCEPT !.enabled = FALSE]
      [] kind = "reschedule" /\ j \in OneShot -> [mem[j] EXCEPT !.at = passed[j] + 1]
      [] OTHER -> mem[j]

\* What update makes of a job.
Edited(j, kind) ==
    LET e == Patched(j, kind)
    IN  IF kind # "other"
        THEN IF e.enabled THEN [e EXCEPT !.next = NextRun(j, e)]
                          ELSE [e EXCEPT !.next = 0, !.marker = "no"]
        ELSE IF e.enabled /\ e.next = 0 THEN [e EXCEPT !.next = NextRun(j, e)]
        ELSE e

Update(j, kind, ok) ==
    /\ Serves
    /\ j \in Editable /\ edits[j] < MaxEdits
    /\ mem[j].present
    /\ Save([mem EXCEPT ![j] = Edited(j, kind)], ok)
    /\ Lift({}, IF kind # "other" /\ ~Edited(j, kind).enabled THEN {j} ELSE {})
    /\ ArmTimer(mem', ok)
    /\ edits' = [edits EXCEPT ![j] = @ + 1]
    /\ fired' = [fired EXCEPT ![j] = 0]
    /\ wish' = CASE kind = "disable" /\ ok -> [wish EXCEPT ![j] = "off"]
                 [] kind = "enable" -> [wish EXCEPT ![j] = "none"]
                 [] OTHER -> wish
    /\ unsaved' = IF ok THEN unsaved ELSE unsaved \cup {j}
    /\ UNCHANGED <<tick, attached, phase, interrupted, run, passed, created>>

\* The patched job is refused (assertSupportedJobSpec, assertDeliverySupport): the
\* caller gets an error, and the job in memory stays as the patch left it.
UpdateRejected(j, kind) ==
    /\ Serves
    /\ j \in Editable /\ edits[j] < MaxEdits
    /\ mem[j].present
    /\ mem' = [mem EXCEPT ![j] = Patched(j, kind)]
    /\ edits' = [edits EXCEPT ![j] = @ + 1]
    /\ fired' = [fired EXCEPT ![j] = 0]
    /\ wish' = IF kind = "enable" THEN [wish EXCEPT ![j] = "none"] ELSE wish
    /\ unsaved' = unsaved \cup {j}
    /\ UNCHANGED <<disk, faults, sched, run, passed, created, lifted>>

Remove(j, ok) ==
    /\ Serves
    /\ j \in Removable
    /\ mem[j].present
    /\ Save([mem EXCEPT ![j] = Gone], ok)
    /\ ArmTimer(mem', ok)
    /\ wish' = IF ok THEN [wish EXCEPT ![j] = "gone"] ELSE wish
    /\ unsaved' = IF ok THEN unsaved ELSE unsaved \cup {j}
    /\ UNCHANGED <<tick, attached, phase, interrupted, run, passed, edits, created,
                   lifted, fired>>

\* add: ids are never used again.
Add(j, ok) ==
    /\ Serves
    /\ j \notin created
    /\ Save(Recomputed([mem EXCEPT ![j] = NewJob(j)]), ok)
    /\ Lift({}, Unmarked(mem))
    /\ ArmTimer(mem', ok)
    /\ created' = created \cup {j}
    /\ unsaved' = IF ok THEN unsaved ELSE unsaved \cup {j}
    /\ UNCHANGED <<tick, attached, phase, interrupted, run, passed, edits, wish, fired>>

\* list, listPage and status: only a change is saved.
Read(ok) ==
    /\ Serves
    /\ Maintained(mem) # mem
    /\ Save(Maintained(mem), ok)
    /\ Lift({}, Unmarked(mem))
    /\ UNCHANGED <<sched, run, passed, edits, wish, unsaved, created, fired>>

-----------------------------------------------------------------------------
(* The clock and crashes.                                                  *)

SlotPasses(j) ==
    /\ passed[j] < MaxSlots
    /\ passed' = [passed EXCEPT ![j] = @ + 1]
    /\ UNCHANGED <<stores, sched, run, history>>

Older(e) == IF e.marker = "fresh" THEN [e EXCEPT !.marker = "stuck"] ELSE e

\* Two hours pass after job j was marked.
Ages(j) ==
    /\ j \in Slow
    /\ "fresh" \in {disk[j].marker, mem[j].marker}
    /\ disk' = [disk EXCEPT ![j] = Older(@)]
    /\ mem' = [mem EXCEPT ![j] = Older(@)]
    /\ UNCHANGED <<sched, run, passed, faults, history>>

\* The process dies, and with it the runs of all jobs; the next one starts.
Crash ==
    /\ phase # "new"
    /\ faults < MaxFaults
    /\ faults' = faults + 1
    /\ mem' = [j \in Jobs |-> Gone]
    /\ timer' = FALSE
    /\ tick' = "idle"
    /\ attached' = FALSE
    /\ phase' = "new"
    /\ interrupted' = {}
    /\ run' = Idle
    /\ lifted' = {}
    /\ UNCHANGED <<disk, passed, edits, wish, unsaved, created, fired>>

EditKinds == {"enable", "disable", "reschedule", "other"}

Starting == \E ok \in BOOLEAN :
                StartClears(ok) \/ StartTakesMissed(ok) \/ CatchupApplies(ok) \/ StartFinishes(ok)

Ticking == \/ \E ok \in BOOLEAN : TickTakes(ok) \/ TickApplies(ok)
           \/ TickEnds

Executing(cause) ==
    \E j \in Jobs : \/ RunEnds(cause, j)
                    \/ cause = "catchup" /\ CatchupStarts(j)
                    \/ cause = "tick" /\ TickStarts(j)

Requests(j) ==
    \E ok \in BOOLEAN :
        \/ \E forced \in BOOLEAN : ManualTakes(j, forced, ok)
        \/ ManualApplies(j, ok)
        \/ \E kind \in EditKinds : Update(j, kind, ok) \/ UpdateRejected(j, kind)
        \/ Remove(j, ok) \/ Add(j, ok)

Next ==
    \/ Starting \/ TimerFires \/ Ticking
    \/ \E cause \in Causes : Executing(cause)
    \/ \E j \in Jobs : Requests(j) \/ SlotPasses(j) \/ Ages(j)
    \/ \E ok \in BOOLEAN : Read(ok)
    \/ Crash

\* Locked parts get their turn, timers fire, and every execution ends: without
\* a timeout of its own a job is cut off after ten minutes or an hour.
Fairness ==
    /\ WF_vars(Starting) /\ WF_vars(TimerFires) /\ WF_vars(Ticking)
    /\ WF_vars(Executing("catchup")) /\ WF_vars(Executing("tick"))

Spec == Init /\ [][Next]_vars /\ Fairness

-----------------------------------------------------------------------------
(* Properties.                                                             *)

\* The types of the variables: slots stay within reach of the clock.
TypeOK ==
    /\ disk \in [Jobs -> Job]
    /\ mem \in [Jobs -> Job]
    /\ timer \in BOOLEAN
    /\ tick \in {"idle", "wants", "runs", "closing"}
    /\ attached \in BOOLEAN
    /\ phase \in {"new", "cleared", "catchup", "finish", "on", "failed"}
    /\ interrupted \subseteq Jobs
    /\ run \in [Causes -> [Jobs -> Stages]]
    /\ passed \in [Jobs -> 0 .. MaxSlots]
    /\ faults \in 0 .. MaxFaults
    /\ edits \in [Jobs -> 0 .. MaxEdits]
    /\ wish \in [Jobs -> {"none", "off", "gone"}]
    /\ unsaved \subseteq Jobs
    /\ created \subseteq Jobs
    /\ lifted \subseteq Causes \X Jobs
    /\ fired \in [Jobs -> Nat]

\* A tick, the catch-up and a manual run never have the same job at once, from
\* the decision to the result, unless a marker was taken away under a run: by
\* an edit that disables the job, after two hours, or by an earlier such run.
\* This is about the one service of a process: a second service over the same
\* file has a lock of its own.
OneRunPerJob ==
    \A j \in Jobs : Cardinality({x \in Unsettled \ lifted : x[2] = j}) <= 1

\* A job that a user disabled or removed is not enabled again or brought back
\* by the result of a run that was under way, whether it was read before or
\* after the edit.
EditsSurviveRuns ==
    \A j \in Jobs : /\ wish[j] = "off" => ~disk[j].enabled
                    /\ wish[j] = "gone" => ~disk[j].present

\* #11452, #13845: the result of a one-shot is saved once for its time, whatever
\* it is and whatever comes between, a restart too.  Saved results are counted: a
\* run that a crash cut off, whose marker was taken away or whose result could not
\* be saved is not, and its job may be executed again.
OneShotFiresOnce == \A j \in OneShot : fired[j] <= 1

Scheduled(j) == mem[j].present /\ mem[j].enabled /\ mem[j].next > 0

\* #12025: once started, the scheduler is never left without a timer, or a tick
\* that will set one, while it holds a recurring job to be run, whatever saves
\* fail; only a job whose own edit could not be saved may be left waiting.
SchedulerAlive ==
    phase = "on" /\ (\E j \in Jobs \ (OneShot \cup unsaved) : Scheduled(j))
        => timer \/ tick # "idle"

\* #13992, #16156, #17852: past the end of start, and add aside, no step moves a
\* saved past-due time that no run has answered: not a tick, a read, the result
\* of another job or an edit of another job.  (The comment at the end of the
\* catch-up, that times which became due meanwhile are kept for a later tick, holds
\* of that step alone: the end of start recomputes them at once, and so does add.)
Answered(j) == \E c \in Causes : run[c][j] \in Outcomes /\ run'[c][j] = "no"

NoSilentSkip ==
    [][created' = created /\ ~(phase = "finish" /\ phase' = "on")
         => \A j \in Jobs :
               (/\ Runnable(j, disk[j]) /\ mem[j] = disk[j]
                /\ edits'[j] = edits[j] /\ disk'[j].present)
                  => disk'[j].next = disk[j].next \/ Answered(j)]_vars

\* A job whose time has come is taken up by a run, moved on by start or add, or
\* edited, but not forgotten, whatever saves and runs fail: unless start itself
\* failed, or an edit of the job.  A marker in the file counts as taken up, one that
\* a failed save left there included: it keeps the job waiting for two hours more.
DueIsHandled ==
    \A j \in Jobs :
        Runnable(j, disk[j]) ~> ~Runnable(j, disk[j]) \/ phase = "failed" \/ j \in unsaved
=============================================================================
