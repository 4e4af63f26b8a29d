--------------------------- MODULE SubagentRegistry ---------------------------
(***************************************************************************)
(* The registry of subagent runs (src/agents/subagent-registry.ts with     *)
(* -cleanup, -completion, -queries, -state and .store): a run is            *)
(* registered when its child session starts, ended by whichever report     *)
(* comes first (lifecycle event, agent.wait, a kill), then announced to    *)
(* its requester by the announce flow, with retries, and cleaned up.  The  *)
(* table is saved to disk at almost every change and read back after a     *)
(* crash.                                                                  *)
(*                                                                         *)
(* The clock is abstract: a run is "cooling" until the backoff of its last *)
(* failed announce is over, and "expired" once it ended five minutes ago.  *)
(***************************************************************************)
EXTENDS Naturals, FiniteSets

CONSTANTS Runs,          \* run ids
          Sessions,      \* keys of child sessions
          Main,          \* the requester that is no child session
          SessionOf,     \* childSessionKey of a run
          RequesterOf,   \* requesterSessionKey of the runs of a session
          Expecting,     \* sessions with expectsCompletionMessage
          Deleting,      \* sessions spawned with cleanup "delete"
          Persistent,    \* sessions spawned with mode "session"
          MaxRetries,    \* MAX_ANNOUNCE_RETRY_COUNT
          Controlled,    \* bound: sessions whose runs may be killed and steered
          Archived,      \* bound: sessions that may be swept
          Flaky,         \* bound: sessions whose runs may report errors
          MaxCrashes     \* bound: crashes that are explored

ASSUME RunsAssumption ==
    /\ SessionOf \in [Runs -> Sessions]
    /\ RequesterOf \in [Sessions -> Sessions \cup {Main}]
    /\ Main \notin Sessions
    /\ Expecting \subseteq Sessions
    /\ Deleting \subseteq Sessions
    /\ Persistent \subseteq Sessions
    /\ Controlled \subseteq Sessions
    /\ Archived \subseteq Sessions
    /\ Flaky \subseteq Sessions
ASSUME RegistryBoundsAssumption == MaxRetries \in Nat \ {0} /\ MaxCrashes \in Nat

VARIABLES
    \* module state of subagent-registry.ts
    reg,        \* subagentRuns: an entry per run, listed or not
    proc,       \* per run: what timers, calls and flows of this process do
    dirty,      \* a sweep removed entries and did not save the table yet
    \* the file subagents/runs.json
    disk,       \* the table as it was last saved
    \* around the registry
    up,         \* the process runs
    child,      \* what the agent run behind a run id is doing
    sessions,   \* child sessions in the session store
    spawning,   \* runs the gateway accepted and that are not registered yet
    steering,   \* runs a steer is being carried out for
    cooling,    \* runs within the backoff of their last failed announce, if
                \* they expect a completion message (others have none)
    expired,    \* runs that ended longer ago than ANNOUNCE_EXPIRY_MS
    crashes,
    \* history
    announced,  \* times a run was announced
    attempts,   \* announces that failed and counted as a retry
    killed,     \* runs that were killed
    replaced    \* runs a steer replaced by another

registryVars == <<reg, proc, dirty, disk>>
worldVars == <<up, child, sessions, spawning, steering, cooling, expired, crashes>>
history == <<announced, attempts, killed, replaced>>
vars == <<registryVars, worldVars, history>>

-----------------------------------------------------------------------------
(* Entries and the process's own state of a run.                           *)

\* endedReason; endedAt is set with it.  The outcomes ok and timeout of a run
\* whose reason is "complete" are not told apart.
Reasons == {"none", "complete", "error", "killed"}

Entry == [listed : BOOLEAN,         \* subagentRuns.has(runId)
          reason : Reasons,
          handled : BOOLEAN,        \* cleanupHandled
          completed : BOOLEAN,      \* cleanupCompletedAt
          suppress : {"none", "steer", "killed"},
          retries : 0 .. MaxRetries,
          hooked : BOOLEAN]         \* endedHookEmittedAt

Absent == [listed |-> FALSE, reason |-> "none", handled |-> FALSE, completed |-> FALSE,
           suppress |-> "none", retries |-> 0, hooked |-> FALSE]

NewEntry == [Absent EXCEPT !.listed = TRUE]

\* Where runSubagentAnnounceFlow is, and after which step of the registry an
\* emission of the subagent_ended hook is awaited.
Flows == {"no", "running", "delivered"}
Emits == {"no", "end", "kill", "announced", "giveUp"}

Proc == [flow : Flows,
         emit : Emits,
         due : Nat,        \* resume timers that end with the backoff
         early : Nat,      \* resume timers that may end before it
         resumed : BOOLEAN,\* in resumedRuns
         grace : BOOLEAN,  \* in pendingLifecycleErrorByRunId
         waits : BOOLEAN,  \* an agent.wait call is not answered yet
         swept : BOOLEAN]  \* the sweeper waits for its sessions.delete

Idle == [flow |-> "no", emit |-> "no", due |-> 0, early |-> 0,
         resumed |-> FALSE, grace |-> FALSE, waits |-> FALSE, swept |-> FALSE]

\* What is left to do for a run that is no longer listed: its timers and
\* agent.wait calls find no entry and change nothing, so they are dropped here.
Left(p) == [p EXCEPT !.due = 0, !.early = 0, !.resumed = FALSE, !.grace = FALSE, !.waits = FALSE]

Ended(e) == e.reason # "none"
Expects(r) == SessionOf[r] \in Expecting

\* The table readers see: the file's entries under those in memory.
Snapshot == [r \in Runs |-> IF reg[r].listed THEN reg[r] ELSE disk[r]]

\* Sessions below root: those its runs, and theirs, were asked to work in.
Below(root) ==
    LET asked(S) == {SessionOf[r] : r \in {q \in Runs : /\ Snapshot[q].listed
                                                       /\ RequesterOf[SessionOf[q]] \in S}}
        level[n \in 0 .. Cardinality(Sessions)] ==
            IF n = 0 THEN {root} ELSE level[n - 1] \cup asked(level[n - 1])
    IN  level[Cardinality(Sessions)]

ActiveDescendants(root) ==
    {r \in Runs : /\ Snapshot[r].listed
                  /\ ~Ended(Snapshot[r])
                  /\ RequesterOf[SessionOf[r]] \in Below(root)}

RegistryInit ==
    /\ reg = [r \in Runs |-> Absent]
    /\ proc = [r \in Runs |-> Idle]
    /\ dirty = FALSE
    /\ disk = [r \in Runs |-> Absent]

Init ==
    /\ RegistryInit
    /\ up = TRUE
    /\ child = [r \in Runs |-> "none"]
    /\ sessions = {}
    /\ spawning = {}
    /\ steering = {}
    /\ cooling = {}
    /\ expired = {}
    /\ crashes = 0
    /\ announced = [r \in Runs |-> 0]
    /\ attempts = [r \in Runs |-> 0]
    /\ killed = {}
    /\ replaced = {}

-----------------------------------------------------------------------------
(* Steps shared by the handlers: what becomes of the entry e and the       *)
(* process state p of a run r.                                             *)

State(e, p) == [entry |-> e, proc |-> p]

\* No announce is tried any more.
SpentTooLate(r, e) == e.retries > MaxRetries \/ (Ended(e) /\ r \in expired)

Spent(r, e) == e.retries >= MaxRetries \/ (Ended(e) /\ r \in expired)

\* startSubagentAnnounceCleanupFlow with beginSubagentCleanup
StartFlowUnclaimed(e, p) ==
    IF ~e.listed \/ e.completed \/ e.handled
    THEN State(e, p)
    ELSE State(e, [p EXCEPT !.flow = "running"])

StartFlow(e, p) ==
    IF ~e.listed \/ e.completed \/ e.handled
    THEN State(e, p)
    ELSE State([e EXCEPT !.handled = TRUE], [p EXCEPT !.flow = "running"])

\* resumeSubagentRun of a listed run that is not in resumedRuns
Resume(r, e, p) ==
    LET marked == [p EXCEPT !.resumed = TRUE]
    IN  IF SessionOf[r] \notin sessions THEN State(Absent, Left(p))
        ELSE IF e.completed THEN State(e, p)
        ELSE IF Spent(r, e) THEN State([e EXCEPT !.completed = TRUE], p)
        ELSE IF Expects(r) /\ r \in cooling THEN State(e, [marked EXCEPT !.due = @ + 1])
        ELSE IF ~Ended(e) THEN State(e, [marked EXCEPT !.waits = TRUE])
        ELSE IF e.suppress = "steer" THEN State(e, marked)
        ELSE IF e.handled THEN State(e, p)
        ELSE StartFlow(e, marked)

\* One round of retryDeferredCompletedAnnounces
Awake(r, e, p) ==
    IF ~e.listed \/ ~Ended(e) \/ e.completed \/ e.handled \/ e.suppress = "steer"
    THEN State(e, p)
    ELSE IF r \in expired THEN State([e EXCEPT !.completed = TRUE], p)
    ELSE Resume(r, e, [p EXCEPT !.resumed = FALSE])

\* The state of r becomes s; the table is saved when it changed.
Becomes(r, s) ==
    /\ reg' = [reg EXCEPT ![r] = s.entry]
    /\ proc' = [proc EXCEPT ![r] = s.proc]
    /\ disk' = IF s.entry = reg[r] THEN disk ELSE reg'

\* completeCleanupBookkeeping of r, whose state is e and p; every other run is
\* woken.
Bookkeep(r, e, p, drop) ==
    LET after(q) == IF q # r THEN Awake(q, reg[q], proc[q])
                    ELSE IF drop \/ ~e.listed THEN State(Absent, Left(p))
                    ELSE State([e EXCEPT !.completed = TRUE], p)
    IN  /\ reg' = [q \in Runs |-> after(q).entry]
        /\ proc' = [q \in Runs |-> after(q).proc]
        /\ disk' = reg'

\* An ended hook is emitted unless it was, or another emission is in flight.
MustEmit(r) == ~reg[r].hooked /\ proc[r].emit = "no"

\* shouldEmitEndedHookForRun, for the reasons other than a kill
EmitsHook(r) == SessionOf[r] \notin Persistent

-----------------------------------------------------------------------------
(* The child run and the ways its end is reported.                         *)

\* The "agent" call of a spawn is accepted: the child runs, not registered yet.
Spawn(r) ==
    /\ up
    /\ \A q \in Runs : SessionOf[q] = SessionOf[r] => child[q] = "none"
    /\ \/ RequesterOf[SessionOf[r]] = Main
       \/ \E q \in Runs : SessionOf[q] = RequesterOf[SessionOf[r]] /\ child[q] = "running"
    /\ child' = [child EXCEPT ![r] = "running"]
    /\ sessions' = sessions \cup {SessionOf[r]}
    /\ spawning' = spawning \cup {r}
    /\ UNCHANGED <<registryVars, up, steering, cooling, expired, crashes, history>>

\* registerSubagentRun
Register(r) ==
    /\ r \in spawning
    /\ spawning' = spawning \ {r}
    /\ Becomes(r, State(NewEntry, [proc[r] EXCEPT !.waits = TRUE]))
    /\ UNCHANGED <<dirty, up, child, sessions, steering, cooling, expired, crashes, history>>

\* completeSubagentRun of a listed run: unless the announce is suppressed for
\* a steer it is started, at once or when the ended hook was emitted.
CompleteRunReopens(r, reason) ==
    LET e == [reg[r] EXCEPT !.reason = reason, !.handled = FALSE, !.completed = FALSE]
        p == [proc[r] EXCEPT !.grace = FALSE]
    IN  IF e.suppress = "steer" THEN State(e, p)
        ELSE IF EmitsHook(r) /\ ~Expects(r) /\ MustEmit(r)
             THEN State(e, [p EXCEPT !.emit = "end"])
             ELSE StartFlow(e, p)

CompleteRunDespiteSteer(r, reason) ==
    LET e == [reg[r] EXCEPT !.reason = reason]
        p == [proc[r] EXCEPT !.grace = FALSE]
    IN  IF EmitsHook(r) /\ ~Expects(r) /\ MustEmit(r)
        THEN State(e, [p EXCEPT !.emit = "end"])
        ELSE StartFlow(e, p)

CompleteRun(r, reason) ==
    LET e == [reg[r] EXCEPT !.reason = reason]
        p == [proc[r] EXCEPT !.grace = FALSE]
    IN  IF e.suppress = "steer" THEN State(e, p)
        ELSE IF EmitsHook(r) /\ ~Expects(r) /\ MustEmit(r)
             THEN State(e, [p EXCEPT !.emit = "end"])
             ELSE StartFlow(e, p)

\* A lifecycle "start": the provider is retried.
LifecycleStart(r) ==
    /\ child[r] = "failed"
    /\ child' = [child EXCEPT ![r] = "running"]
    /\ proc' = [proc EXCEPT ![r].grace = FALSE]
    /\ UNCHANGED <<reg, dirty, disk, up, sessions, spawning, steering, cooling, expired,
                   crashes, history>>

\* A lifecycle "error" of a listed run arms the grace timer.
LifecycleError(r) ==
    /\ SessionOf[r] \in Flaky
    /\ child[r] = "running"
    /\ child' = [child EXCEPT ![r] = "failed"]
    /\ proc' = [proc EXCEPT ![r].grace = @ \/ reg[r].listed]
    /\ UNCHANGED <<reg, dirty, disk, up, sessions, spawning, steering, cooling, expired,
                   crashes, history>>

\* A lifecycle "end": the run is done, or was aborted.
LifecycleEnd(r) ==
    /\ child[r] = "running"
    /\ child' = [child EXCEPT ![r] = "over"]
    /\ IF reg[r].listed
       THEN /\ Becomes(r, CompleteRun(r, "complete"))
            /\ expired' = expired \ {r}
       ELSE UNCHANGED <<reg, proc, disk, expired>>
    /\ UNCHANGED <<dirty, up, sessions, spawning, steering, cooling, crashes, history>>

\* The grace period of a lifecycle error ends.
GraceEnds(r) ==
    /\ proc[r].grace
    /\ IF reg[r].reason = "complete"
       THEN /\ proc' = [proc EXCEPT ![r].grace = FALSE]
            /\ UNCHANGED <<reg, disk, expired>>
       ELSE /\ Becomes(r, CompleteRun(r, "error"))
            /\ expired' = expired \ {r}
    /\ UNCHANGED <<dirty, up, child, sessions, spawning, steering, cooling, crashes, history>>

\* What agent.wait can say of a run; its timeout, which counts as completion,
\* may end at any moment.
Answers(r) == IF child[r] = "failed" THEN {"error", "complete"} ELSE {"complete"}

\* waitForSubagentCompletion gets its answer.
WaitAnswered(r) ==
    /\ proc[r].waits
    /\ \E reason \in Answers(r) :
          LET s == CompleteRun(r, reason)
          IN  Becomes(r, State(s.entry, [s.proc EXCEPT !.waits = FALSE]))
    /\ UNCHANGED <<dirty, worldVars, history>>

\* The call fails, which is ignored: only lifecycle events can end the run.
WaitFails(r) ==
    /\ SessionOf[r] \in Flaky
    /\ proc[r].waits
    /\ proc' = [proc EXCEPT ![r].waits = FALSE]
    /\ UNCHANGED <<reg, dirty, disk, worldVars, history>>

-----------------------------------------------------------------------------
(* The announce flow and what finalizeSubagentCleanup does with its result. *)

\* The result reaches the requester; not while descendants are active.
FlowDelivers(r) ==
    /\ proc[r].flow = "running"
    /\ ActiveDescendants(SessionOf[r]) = {}
    /\ proc' = [proc EXCEPT ![r].flow = "delivered"]
    /\ announced' = [announced EXCEPT ![r] = @ + 1]
    /\ UNCHANGED <<reg, dirty, disk, worldVars, attempts, killed, replaced>>

\* The reply asks for no announcement (ANNOUNCE_SKIP, a silent reply).
FlowSkips(r) ==
    /\ proc[r].flow = "running"
    /\ proc' = [proc EXCEPT ![r].flow = "delivered"]
    /\ UNCHANGED <<reg, dirty, disk, worldVars, history>>

\* Completion, after the ended hook when the run's is still to be emitted.
Settle(r, e, emit, drop) ==
    IF Expects(r) /\ EmitsHook(r) /\ MustEmit(r)
    THEN /\ reg' = [reg EXCEPT ![r] = e]
         /\ proc' = [proc EXCEPT ![r].flow = "no", ![r].emit = emit]
         /\ UNCHANGED disk
    ELSE Bookkeep(r, e, [proc[r] EXCEPT !.flow = "no"], drop)

\* The flow's last calls are done: with cleanup "delete" it has deleted the
\* child session.  A run no longer listed is left alone.
SessionsAfter(r) ==
    IF SessionOf[r] \in Deleting THEN sessions \ {SessionOf[r]} ELSE sessions

FlowReturns(r) ==
    /\ proc[r].flow = "delivered"
    /\ sessions' = SessionsAfter(r)
    /\ IF reg[r].listed
       THEN Settle(r, reg[r], "announced", SessionOf[r] \in Deleting)
       ELSE proc' = [proc EXCEPT ![r].flow = "no"] /\ UNCHANGED <<reg, disk>>
    /\ UNCHANGED <<dirty, up, child, spawning, steering, cooling, expired, crashes, history>>

\* The announce may be tried again: cleanup is open once more, and a run that
\* expects a completion message gets a timer.  It ends with the backoff,
\* unless that is longer than the delay of a run deferred for descendants.
Retry(r, e, deferred) ==
    LET late == ~deferred \/ e.retries <= 1
        timers == proc[r].due + proc[r].early
        p == [proc[r] EXCEPT !.flow = "no", !.resumed = FALSE, !.early = timers, !.due = 0]
    IN  Becomes(r, State([e EXCEPT !.handled = FALSE],
                         IF ~Expects(r) THEN p
                         ELSE IF late THEN [p EXCEPT !.due = 1]
                         ELSE [p EXCEPT !.early = @ + 1]))

\* finalizeSubagentCleanup(runId, cleanup, false) of a listed run, with
\* resolveDeferredCleanupDecision.
DeferredUncounted(r) ==
    LET waiting == Expects(r) /\ ActiveDescendants(SessionOf[r]) # {}
        e == [reg[r] EXCEPT !.retries = @ + 1]
    IN  /\ CASE waiting /\ r \in expired -> Settle(r, reg[r], "giveUp", FALSE)
              [] waiting /\ r \notin expired -> Retry(r, reg[r], TRUE)
              [] ~waiting /\ Spent(r, e) -> Settle(r, e, "giveUp", FALSE)
              [] ~waiting /\ ~Spent(r, e) -> Retry(r, reg[r], FALSE)
        /\ cooling' = IF ~Expects(r) \/ (waiting /\ r \in expired) THEN cooling
                      ELSE cooling \cup {r}
        /\ attempts' = [attempts EXCEPT ![r] = @]

Deferred(r) ==
    LET waiting == Expects(r) /\ ActiveDescendants(SessionOf[r]) # {}
        e == [reg[r] EXCEPT !.retries = @ + 1]
    IN  /\ CASE waiting /\ r \in expired -> Settle(r, reg[r], "giveUp", FALSE)
              [] waiting /\ r \notin expired -> Retry(r, reg[r], TRUE)
              [] ~waiting /\ Spent(r, e) -> Settle(r, e, "giveUp", FALSE)
              [] ~waiting /\ ~Spent(r, e) -> Retry(r, e, FALSE)
        /\ cooling' = IF ~Expects(r) \/ (waiting /\ r \in expired) THEN cooling
                      ELSE cooling \cup {r}
        /\ attempts' = [attempts EXCEPT ![r] = IF waiting THEN @ ELSE @ + 1]

\* The flow ends without an announcement.  When it stops early (descendants or
\* the child itself still active, no requester left) it keeps the session.
FlowFails(r, kept) ==
    /\ proc[r].flow = "running"
    /\ sessions' = IF kept THEN sessions ELSE SessionsAfter(r)
    /\ IF reg[r].listed
       THEN Deferred(r)
       ELSE /\ proc' = [proc EXCEPT ![r].flow = "no"]
            /\ UNCHANGED <<reg, disk, cooling, attempts>>
    /\ UNCHANGED <<dirty, up, child, spawning, steering, expired, crashes,
                   announced, killed, replaced>>

\* emitSubagentEndedHookOnce is done, successfully or not, and what waited for
\* it goes on.
HookEmitted(r, ok) ==
    LET e == [reg[r] EXCEPT !.hooked = @ \/ (ok /\ reg[r].listed)]
        p == [proc[r] EXCEPT !.emit = "no"]
    IN  /\ \/ proc[r].emit = "end" /\ Becomes(r, StartFlow(e, p))
           \/ proc[r].emit = "kill" /\ Becomes(r, State(e, p))
           \/ proc[r].emit = "announced" /\ Bookkeep(r, e, p, SessionOf[r] \in Deleting)
           \/ proc[r].emit = "giveUp" /\ Bookkeep(r, e, p, FALSE)
        /\ UNCHANGED <<dirty, worldVars, history>>

\* A resume timer ends; only one armed before the backoff began ends within it.
ResumeTimer(r) ==
    /\ \E kind \in {"due", "early"} :
          /\ IF kind = "due" THEN proc[r].due > 0 /\ r \notin cooling ELSE proc[r].early > 0
          /\ LET p == IF kind = "due" THEN [proc[r] EXCEPT !.due = @ - 1]
                                     ELSE [proc[r] EXCEPT !.early = @ - 1]
             IN  Becomes(r, IF p.resumed THEN State(reg[r], p)
                            ELSE Resume(r, reg[r], p))
    /\ UNCHANGED <<dirty, worldVars, history>>

-----------------------------------------------------------------------------
(* Kill, steer, sweep.                                                      *)

\* markSubagentRunTerminated
KillLeavesCleanup(r) ==
    /\ SessionOf[r] \in Controlled
    /\ reg[r].listed
    /\ ~Ended(reg[r])
    /\ Becomes(r, State([reg[r] EXCEPT !.reason = "killed"],
                        [proc[r] EXCEPT !.grace = FALSE,
                                        !.emit = IF MustEmit(r) THEN "kill" ELSE @]))
    /\ killed' = killed \cup {r}
    /\ UNCHANGED <<dirty, worldVars, announced, attempts, replaced>>

Kill(r) ==
    /\ SessionOf[r] \in Controlled
    /\ reg[r].listed
    /\ ~Ended(reg[r])
    /\ Becomes(r, State([reg[r] EXCEPT !.reason = "killed", !.handled = TRUE,
                                       !.completed = TRUE, !.suppress = "killed"],
                        [proc[r] EXCEPT !.grace = FALSE,
                                        !.emit = IF MustEmit(r) THEN "kill" ELSE @]))
    /\ killed' = killed \cup {r}
    /\ UNCHANGED <<dirty, worldVars, announced, attempts, replaced>>

\* markSubagentRunForSteerRestart: only a run that has not ended is steered.
SteerMarks(r) ==
    /\ SessionOf[r] \in Controlled
    /\ reg[r].listed
    /\ ~Ended(reg[r])
    /\ Becomes(r, State([reg[r] EXCEPT !.suppress = "steer"], proc[r]))
    /\ steering' = steering \cup {r}
    /\ UNCHANGED <<dirty, up, child, sessions, spawning, cooling, expired, crashes, history>>

\* The replacement run could not be started: clearSubagentRunSteerRestart.
SteerFailsMuted(r) ==
    /\ r \in steering
    /\ steering' = steering \ {r}
    /\ UNCHANGED <<registryVars, up, child, sessions, spawning, cooling, expired, crashes,
                   history>>

SteerFails(r) ==
    /\ r \in steering
    /\ steering' = steering \ {r}
    /\ LET e == [reg[r] EXCEPT !.suppress = "none"]
           p == [proc[r] EXCEPT !.resumed = FALSE]
       IN  IF reg[r].suppress # "steer" THEN UNCHANGED <<reg, proc, disk>>
           ELSE Becomes(r, IF Ended(e) /\ ~e.completed THEN Resume(r, e, p) ELSE State(e, p))
    /\ UNCHANGED <<dirty, up, child, sessions, spawning, cooling, expired, crashes, history>>

\* The replacement run q was started: replaceSubagentRunAfterSteer.
SteerReplaces(r, q) ==
    /\ r \in steering
    /\ child[q] = "none"
    /\ SessionOf[q] = SessionOf[r]
    /\ steering' = steering \ {r}
    /\ child' = [child EXCEPT ![q] = "running"]
    /\ sessions' = sessions \cup {SessionOf[r]}
    /\ reg' = [reg EXCEPT ![r] = Absent, ![q] = NewEntry]
    /\ proc' = [proc EXCEPT ![r] = Left(@), ![q].waits = TRUE]
    /\ disk' = reg'
    /\ replaced' = replaced \cup {r}
    /\ UNCHANGED <<dirty, up, spawning, cooling, expired, crashes, announced, attempts, killed>>

\* sweepSubagentRuns reaches an entry past archiveAtMs, set when it was
\* registered: the entry goes first, its session next, and the table is saved
\* at the end of the sweep.
SweepTakes(r) ==
    /\ reg[r].listed
    /\ SessionOf[r] \in Archived \ Persistent
    /\ \A q \in Runs : ~proc[q].swept
    /\ reg' = [reg EXCEPT ![r] = Absent]
    /\ proc' = [proc EXCEPT ![r] = [Left(@) EXCEPT !.swept = TRUE]]
    /\ dirty' = TRUE
    /\ UNCHANGED <<disk, worldVars, history>>

SweepDeletes(r) ==
    /\ proc[r].swept
    /\ proc' = [proc EXCEPT ![r].swept = FALSE]
    /\ sessions' = sessions \ {SessionOf[r]}
    /\ UNCHANGED <<reg, dirty, disk, up, child, spawning, steering, cooling, expired,
                   crashes, history>>

SweepEnds ==
    /\ dirty
    /\ \A q \in Runs : ~proc[q].swept
    /\ dirty' = FALSE
    /\ disk' = reg
    /\ UNCHANGED <<reg, proc, worldVars, history>>

-----------------------------------------------------------------------------
(* The clock, a crash, and the start of the next process.                   *)

BackoffEnds(r) ==
    /\ r \in cooling
    /\ cooling' = cooling \ {r}
    /\ UNCHANGED <<registryVars, up, child, sessions, spawning, steering, expired, crashes,
                   history>>

Expires(r) ==
    /\ reg[r].listed
    /\ Ended(reg[r])
    /\ r \notin expired
    /\ expired' = expired \cup {r}
    /\ UNCHANGED <<registryVars, up, child, sessions, spawning, steering, cooling, crashes,
                   history>>

\* Agent runs live in the gateway's process and end with it.
Crash ==
    /\ up
    /\ crashes < MaxCrashes
    /\ crashes' = crashes + 1
    /\ up' = FALSE
    /\ reg' = [r \in Runs |-> Absent]
    /\ proc' = [r \in Runs |-> Idle]
    /\ dirty' = FALSE
    /\ child' = [r \in Runs |-> IF child[r] = "none" THEN "none" ELSE "gone"]
    /\ spawning' = {}
    /\ steering' = {}
    /\ UNCHANGED <<disk, sessions, cooling, expired, history>>

\* restoreSubagentRunsOnce: runs without a session are pruned, the others resumed.
Restart ==
    LET restored(r) == IF disk[r].listed THEN Resume(r, disk[r], Idle) ELSE State(Absent, Idle)
    IN  /\ ~up
        /\ up' = TRUE
        /\ reg' = [r \in Runs |-> restored(r).entry]
        /\ proc' = [r \in Runs |-> restored(r).proc]
        /\ disk' = reg'
        /\ UNCHANGED <<dirty, child, sessions, spawning, steering, cooling, expired, crashes,
                       history>>

Step(r) ==
    \/ Spawn(r) \/ Register(r)
    \/ LifecycleStart(r) \/ LifecycleError(r) \/ LifecycleEnd(r)
    \/ GraceEnds(r) \/ WaitAnswered(r) \/ WaitFails(r)
    \/ FlowDelivers(r) \/ FlowSkips(r) \/ FlowReturns(r)
    \/ \E kept \in BOOLEAN : FlowFails(r, kept)
    \/ \E ok \in BOOLEAN : HookEmitted(r, ok)
    \/ ResumeTimer(r)
    \/ Kill(r) \/ SteerMarks(r) \/ SteerFails(r)
    \/ \E q \in Runs : SteerReplaces(r, q)
    \/ SweepTakes(r) \/ SweepDeletes(r)
    \/ BackoffEnds(r) \/ Expires(r)

Next == (\E r \in Runs : Step(r)) \/ SweepEnds \/ Crash \/ Restart

\* Timers end, calls and hooks return and flows come to an end; nothing says
\* that a run ends, that anybody kills or steers one, that the gateway fails,
\* or that five minutes pass before a run is settled.
Fairness ==
    /\ \A r \in Runs :
          /\ WF_vars(GraceEnds(r)) /\ WF_vars(WaitAnswered(r))
          /\ WF_vars(FlowReturns(r))
          /\ WF_vars(FlowDelivers(r) \/ FlowSkips(r) \/ \E kept \in BOOLEAN : FlowFails(r, kept))
          /\ WF_vars(\E ok \in BOOLEAN : HookEmitted(r, ok))
          /\ WF_vars(ResumeTimer(r))
          /\ WF_vars(SteerFails(r) \/ \E q \in Runs : SteerReplaces(r, q))
          /\ WF_vars(BackoffEnds(r))
    /\ WF_vars(Restart)

Spec == Init /\ [][Next]_vars /\ Fairness

-----------------------------------------------------------------------------
(* Properties.                                                              *)

TypeOK ==
    /\ reg \in [Runs -> Entry]
    /\ disk \in [Runs -> Entry]
    /\ proc \in [Runs -> Proc]
    /\ dirty \in BOOLEAN
    /\ up \in BOOLEAN
    /\ child \in [Runs -> {"none", "running", "failed", "over", "gone"}]
    /\ sessions \subseteq Sessions
    /\ spawning \subseteq Runs
    /\ steering \subseteq Runs
    /\ cooling \subseteq Runs
    /\ expired \subseteq Runs
    /\ crashes \in 0 .. MaxCrashes
    /\ announced \in [Runs -> Nat]
    /\ attempts \in [Runs -> Nat]
    /\ killed \subseteq Runs
    /\ replaced \subseteq Runs

\* A run is announced at most once, whichever of its end reports, retries,
\* wakes and restored entries come together: cleanupHandled is saved before
\* the flow starts and reopened only by a flow that did not announce.
AnnouncedAtMostOnce == \A r \in Runs : announced[r] <= 1

\* The announces of a run that fail are bounded over all restarts: the retry
\* count is saved with the entry and no wake, timer or restore starts it again.
AttemptsBounded == \A r \in Runs : attempts[r] <= MaxRetries

\* A run that markSubagentRunTerminated marked as killed is never announced,
\* although its aborted child still reports an end that overwrites the killed
\* outcome, and although its entry may be restored.  (A run that ends between
\* abortEmbeddedPiRun and the mark is not marked any more: it is announced, though
\* the tool that aborted it answers that it was killed.)
KilledNeverAnnounced == \A r \in killed : announced[r] = 0

\* A run that a steer replaced is never announced: what it had found before
\* the new message must not reach the requester.
SteeredNeverAnnounced == \A r \in replaced : announced[r] = 0

\* A flow, and the hook emission that follows it, own the cleanup of their
\* run: as long as they are under way no report, timer or wake can start a
\* second flow.  (A timer may complete the entry of a run under its flow.)
FlowOwnsCleanup ==
    \A r \in Runs :
        (reg[r].listed /\ (proc[r].flow # "no" \/ proc[r].emit \in {"announced", "giveUp"}))
            => reg[r].handled

\* Within one process, announces are suppressed for a steer only while that
\* steer is being carried out (a crash may leave the mark behind).
MutedOnlyWhileSteering ==
    crashes = 0 => \A r \in Runs : reg[r].suppress = "steer" => r \in steering

\* A completed cleanup is never opened again, by a late report of the run's
\* end, by a restart from an older file or by a failed steer.
CleanupNeverReopened ==
    [][\A r \in Runs : disk[r].completed /\ disk'[r].listed => disk'[r].completed]_vars

\* No announce is retried forever: deferrals for descendants, retries, wakes
\* and restores of a run all come to an end.
AnnounceLoopEnds == \A r \in Runs : <>[](proc[r].flow = "no")

\* docs/tools/subagents.md: an announce of a run with completion message that
\* fails is retried with a short backoff before the final give-up; so every
\* such run that ends is announced or given up.
EndedIsSettled ==
    \A r \in Runs :
        (reg[r].listed /\ Ended(reg[r]) /\ Expects(r))
            ~> (~reg[r].listed \/ reg[r].completed)
=============================================================================
