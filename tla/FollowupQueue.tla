--------------------------- MODULE FollowupQueue ---------------------------
(***************************************************************************)
(* The followup queue of one session: src/auto-reply/reply/queue/          *)
(* {state,enqueue,drain,cleanup}.ts over src/utils/queue-helpers.ts, as    *)
(* the reply pipeline (agent-runner.ts) uses it.                           *)
(*                                                                         *)
(* A message that arrives while an agent run of the session is active is   *)
(* put into the session's queue; the end of a run starts a drain, an       *)
(* asynchronous loop that runs the queued messages, one by one or          *)
(* collected into one prompt, until the queue is empty.  A drain keeps the *)
(* queue OBJECT it was started for, while enqueues and the end of a drain  *)
(* look the queue up by its key: the map may hold another object by then.  *)
(* The debounce wait and the duration of runs are abstract: both may end   *)
(* at any moment.                                                          *)
(***************************************************************************)
EXTENDS Integers, FiniteSets, Sequences, SequencesExt

CONSTANTS Deliveries,    \* inbound messages, a redelivery counted apart
          MessageIdOf,   \* their message id, or NoId
          NoId,
          RouteOf,       \* where the reply to a delivery goes
          Unkeyed,       \* a route without any routing field
          Unroutable,    \* a route with fields that name no routable target
          Settings,      \* the queue settings that are in use
          Queues,        \* bound: queue objects alive at a time
          NoQueue,
          MayClear,      \* /stop, a reset or a kill may clear the queue
          MayBeLate,     \* a run may end between isActive and the enqueue
          MayThrow       \* a main run may throw before finalizeWithFollowup

ASSUME DeliveriesAssumption ==
    /\ MessageIdOf \in [Deliveries -> STRING \cup {NoId}]
    /\ RouteOf \in [Deliveries -> STRING \cup {Unkeyed, Unroutable}]
ASSUME SettingsAssumption ==
    Settings # {} /\ Settings \subseteq [mode : {"collect", "followup"}, cap : Nat \ {0},
                        drop : {"old", "new", "summarize"}]
ASSUME QueuesAssumption == NoQueue \notin Queues
ASSUME FlagsAssumption == {MayClear, MayBeLate, MayThrow} \subseteq BOOLEAN

VARIABLES
    current,   \* FOLLOWUP_QUEUES.get(key), or NoQueue
    queue,     \* FollowupQueueState of every object
    drain,     \* the drain of an object: where it is, and its local variables
    phase,     \* where a delivery is in the reply pipeline
    \* history
    accepted,  \* deliveries that enqueueFollowupRun took, in order
    ran,       \* ... that some followup prompt contained in full
    told,      \* ... that some followup prompt summarised
    given,     \* ... given up on purpose: cleared, or dropped by the policy
    orphaned   \* ... behind a run that was over already, or that threw
vars == <<current, queue, drain, phase, accepted, ran, told, given, orphaned>>

QueueState == [items : Seq(Deliveries), summaryLines : Seq(Deliveries),
               droppedCount : Nat, lastRun : BOOLEAN, settings : Settings]
DrainState == [at : {"none", "loop", "checked", "collect", "item", "summary"},
               force : BOOLEAN, batch : Seq(Deliveries), summary : Seq(Deliveries)]
Phases == {"new", "late", "starting", "main", "finishing", "over"}

NotDraining == [at |-> "none", force |-> FALSE, batch |-> <<>>, summary |-> <<>>]
NewDrain == [NotDraining EXCEPT !.at = "loop"]

Init ==
    /\ current = NoQueue
    /\ queue \in [Queues -> {[items |-> <<>>, summaryLines |-> <<>>, droppedCount |-> 0,
                              lastRun |-> FALSE, settings |-> CHOOSE s \in Settings : TRUE]}]
    /\ drain = [q \in Queues |-> NotDraining]
    /\ phase = [d \in Deliveries |-> "new"]
    /\ accepted = <<>>
    /\ ran = {}
    /\ told = {}
    /\ given = {}
    /\ orphaned = {}

-----------------------------------------------------------------------------
(* Starting and ending a drain. *)

Pending(q) == queue[q].items # <<>> \/ queue[q].droppedCount > 0

\* A run that the drain of q awaits.
Running(q) == drain[q].at \in {"collect", "item", "summary"}

\* scheduleFollowupDrain, on the queue objects c and the drains dr: nothing to
\* do without a queue, or when its drain is still going (queue.draining).
ScheduleFollowupDrain(c, dr) ==
    IF c # NoQueue /\ dr[c].at = "none" THEN [dr EXCEPT ![c] = NewDrain] ELSE dr

\* Bug: the key is deleted whether the queue is empty or not.
FinallyGivesUp(q) ==
    /\ drain' = [drain EXCEPT ![q] = NotDraining]
    /\ current' = NoQueue

\* Bug: the drain goes on after its key was deleted.
FinallyDeletesKey(q) ==
    /\ drain' = [drain EXCEPT ![q] = IF Pending(q) THEN NewDrain ELSE NotDraining]
    /\ current' = NoQueue

\* Bug: a drain that a failed run ended is not started again.
FinallyStops(q) ==
    /\ drain' = [drain EXCEPT ![q] = NotDraining]
    /\ current' = IF Pending(q) THEN current ELSE NoQueue

\* Bug: an empty queue is drained once more.
FinallyAgain(q) ==
    /\ drain' = ScheduleFollowupDrain(current, [drain EXCEPT ![q] = NotDraining])
    /\ UNCHANGED current

\* The finally block of the drain of q: the queue OF THE KEY is deleted when q
\* is empty, and drained once more when it is not.
Finally(q) ==
    LET stopped == [drain EXCEPT ![q] = NotDraining]
    IN  IF Pending(q)
        THEN drain' = ScheduleFollowupDrain(current, stopped) /\ UNCHANGED current
        ELSE drain' = stopped /\ current' = NoQueue

-----------------------------------------------------------------------------
(* enqueueFollowupRun. *)

\* isRunAlreadyQueued with dedupe mode "message-id".
IsRunAlreadyQueued(d, items) ==
    MessageIdOf[d] # NoId /\ \E e \in ToSet(items) :
        MessageIdOf[e] = MessageIdOf[d] /\ RouteOf[e] = RouteOf[d]

\* The number of items that have to go before one more fits.
Overflow(Q) == Len(Q.items) - Q.settings.cap + 1

\* Bug: free places are counted as dropped messages.
MakeRoomCountsGap(Q) == [Q EXCEPT !.droppedCount = @ + Overflow(Q)]

\* applyQueueDropPolicy with a policy that makes room: the oldest items leave
\* the queue, and "summarize" keeps a line of the last cap of them.
MakeRoom(Q) ==
    LET n == Overflow(Q)
        kept == [Q EXCEPT !.items = SubSeq(Q.items, n + 1, Len(Q.items))]
        all == Q.summaryLines \o SubSeq(Q.items, 1, n)
        surplus == IF Len(all) > Q.settings.cap THEN Len(all) - Q.settings.cap ELSE 0
    IN  IF n <= 0 THEN Q
        ELSE IF Q.settings.drop # "summarize" THEN kept
        ELSE [kept EXCEPT !.droppedCount = @ + n,
                          !.summaryLines = SubSeq(all, surplus + 1, Len(all))]

\* What a queue object knows: deliveries it holds or has a line for.
Known(Q) == ToSet(Q.items) \cup ToSet(Q.summaryLines)

\* getFollowupQueue: the queue of the key, with the new settings, or a new one.
\* (Objects that are neither in the map nor drained are garbage.)
Free == {q \in Queues : q # current /\ drain[q].at = "none"}
QueueFor(s) ==
    IF current # NoQueue
    THEN [id |-> current, state |-> [queue[current] EXCEPT !.settings = s]]
    ELSE [id |-> CHOOSE q \in Free : TRUE,
          state |-> [items |-> <<>>, summaryLines |-> <<>>, droppedCount |-> 0,
                     lastRun |-> FALSE, settings |-> s]]

MainIsActive == \E d \in Deliveries : phase[d] = "main"

\* A message that no active run precedes is orphaned: no run will look at the queue
\* when it ends, unless one that has not started yet does.
EnqueueFollowupRun(d, s) ==
    LET found == QueueFor(s)
        Q == [found.state EXCEPT !.lastRun = TRUE]
        room == MakeRoom(Q)
    IN  /\ current # NoQueue \/ Free # {}
        /\ current' = found.id
        /\ IF IsRunAlreadyQueued(d, Q.items)
           THEN queue' = [queue EXCEPT ![found.id] = found.state] /\ UNCHANGED <<accepted, given, orphaned>>
           ELSE IF Overflow(Q) > 0 /\ s.drop = "new"
           THEN queue' = [queue EXCEPT ![found.id] = Q] /\ UNCHANGED <<accepted, given, orphaned>>
           ELSE /\ queue' = [queue EXCEPT ![found.id] = [room EXCEPT !.items = Append(@, d)]]
                /\ accepted' = Append(accepted, d)
                /\ given' = given \cup (Known(Q) \ Known(room))
                /\ orphaned' = IF MainIsActive \/ Running(found.id) THEN orphaned
                               ELSE orphaned \cup {d}
    /\ phase' = [phase EXCEPT ![d] = "over"]

-----------------------------------------------------------------------------
(* The reply pipeline: runReplyAgent. *)

\* isEmbeddedPiRunActive(sessionId): a run that has left its lanes.  A followup
\* run may or may not have left them.
IsActive == MainIsActive \/ (\E q \in Queues : Running(q))

\* Nothing is active: the message gets a run of its own, which waits in the lane
\* of the session for the runs before it.
RunNow(d) ==
    /\ phase[d] = "new"
    /\ ~MainIsActive
    /\ phase' = [phase EXCEPT ![d] = "starting"]
    /\ UNCHANGED <<current, queue, drain, accepted, ran, told, given, orphaned>>

AgentStarts(d) ==
    /\ phase[d] = "starting"
    /\ ~IsActive
    /\ phase' = [phase EXCEPT ![d] = "main"]
    /\ UNCHANGED <<current, queue, drain, accepted, ran, told, given, orphaned>>

\* A run is active: the message is to be enqueued.  isActive was read some
\* awaits earlier (get-reply-run.ts), so the run may be over by then.
SeesActive(d) ==
    /\ MayBeLate
    /\ phase[d] = "new"
    /\ IsActive
    /\ phase' = [phase EXCEPT ![d] = "late"]
    /\ UNCHANGED <<current, queue, drain, accepted, ran, told, given, orphaned>>

Enqueue(d) ==
    /\ phase[d] = "late" \/ (phase[d] = "new" /\ IsActive)
    /\ \E s \in Settings : EnqueueFollowupRun(d, s)
    /\ UNCHANGED <<drain, ran, told>>

\* The agent is done; usage is persisted and the reply is built.
MainEnds(d) ==
    /\ phase[d] = "main"
    /\ phase' = [phase EXCEPT ![d] = "finishing"]
    /\ UNCHANGED <<current, queue, drain, accepted, ran, told, given, orphaned>>

FinalizeWithFollowup(d) ==
    /\ phase[d] = "finishing"
    /\ phase' = [phase EXCEPT ![d] = "over"]
    /\ drain' = ScheduleFollowupDrain(current, drain)
    /\ UNCHANGED <<current, queue, accepted, ran, told, given, orphaned>>

\* runReplyAgent has no catch: finalizeWithFollowup is not reached.
MainThrows(d) ==
    /\ MayThrow
    /\ phase[d] \in {"starting", "main", "finishing"}
    /\ phase' = [phase EXCEPT ![d] = "over"]
    /\ orphaned' = IF current = NoQueue THEN orphaned ELSE orphaned \cup Known(queue[current])
    /\ UNCHANGED <<current, queue, drain, accepted, ran, told, given>>

-----------------------------------------------------------------------------
(* The loop of a drain. *)

\* hasCrossChannelItems(items, resolveCrossChannelKey).
HasCrossChannelItems(items) ==
    LET routes == {RouteOf[d] : d \in ToSet(items)}
        keys == routes \ {Unkeyed, Unroutable}
    IN  \/ Unroutable \in routes
        \/ keys # {} /\ Unkeyed \in routes
        \/ Cardinality(keys) > 1

\* previewQueueSummaryPrompt returns a prompt.
HasSummary(q) == queue[q].settings.drop = "summarize" /\ queue[q].droppedCount > 0

\* A followup prompt that contains batch, and the summary lines if it has them.
StartRun(q, at, force, batch, summary) ==
    /\ drain' = [drain EXCEPT ![q] = [at |-> at, force |-> force, batch |-> batch,
                                      summary |-> summary]]
    /\ ran' = ran \cup ToSet(batch)
    /\ told' = told \cup ToSet(summary)
    /\ UNCHANGED current

\* Bug: last in, first out.
RunLastItem(q, force) ==
    IF queue[q].items = <<>>
    THEN Finally(q) /\ UNCHANGED <<ran, told>>
    ELSE StartRun(q, "item", force, <<Last(queue[q].items)>>, <<>>)

\* The run of the oldest item alone; without one the loop breaks.
RunNextItem(q, force) ==
    IF queue[q].items = <<>>
    THEN Finally(q) /\ UNCHANGED <<ran, told>>
    ELSE StartRun(q, "item", force, <<Head(queue[q].items)>>, <<>>)

\* An iteration in collect mode: items of several routes are run one by one, for
\* the rest of this drain.  Otherwise the snapshot of the items follows after an
\* await (drainCollectQueueStep is asynchronous).
IterateCollect(q) ==
    LET force == drain[q].force \/ HasCrossChannelItems(queue[q].items)
    IN  IF force
        THEN RunNextItem(q, TRUE)
        ELSE /\ drain' = [drain EXCEPT ![q].at = "checked"]
             /\ UNCHANGED <<current, ran, told>>

\* An iteration in the other modes.  The summary of dropped items, if there is
\* one, is run IN PLACE OF the oldest item, whose route it takes.
IterateFollowup(q) ==
    IF ~HasSummary(q)
    THEN RunNextItem(q, drain[q].force)
    ELSE IF queue[q].items = <<>>
    THEN Finally(q) /\ UNCHANGED <<ran, told>>
    ELSE StartRun(q, "summary", drain[q].force, <<>>, queue[q].summaryLines)

\* The head of the loop and, after the debounce, its body.
Iterate(q) ==
    /\ drain[q].at = "loop"
    /\ IF ~Pending(q)
       THEN Finally(q) /\ UNCHANGED <<ran, told>>
       ELSE IF queue[q].settings.mode = "collect" THEN IterateCollect(q) ELSE IterateFollowup(q)
    /\ UNCHANGED <<queue, phase, accepted, given, orphaned>>

\* Collect mode after the await: all items there are NOW make one prompt.
Snapshot(q) ==
    /\ drain[q].at = "checked"
    /\ IF queue[q].items = <<>> /\ ~queue[q].lastRun
       THEN Finally(q) /\ UNCHANGED <<ran, told>>
       ELSE StartRun(q, "collect", drain[q].force, queue[q].items,
                     IF HasSummary(q) THEN queue[q].summaryLines ELSE <<>>)
    /\ UNCHANGED <<queue, phase, accepted, given, orphaned>>

\* How many items the end of a run removes from the FRONT of the queue.
Served(q) == IF drain[q].at = "collect" THEN Len(drain[q].batch) ELSE 1

\* The run succeeds: splice(0, n) or shift(), whatever the front of the queue is
\* by now; a summary that was in the prompt is cleared, lines added since included.
RunEnds(q) ==
    /\ Running(q)
    /\ LET items == queue[q].items
           rest == SubSeq(items, Served(q) + 1, Len(items))
       IN  queue' = [queue EXCEPT ![q] =
               IF drain[q].at = "summary" \/ drain[q].summary # <<>>
               THEN [@ EXCEPT !.items = rest, !.droppedCount = 0, !.summaryLines = <<>>]
               ELSE [@ EXCEPT !.items = rest]]
    /\ drain' = [drain EXCEPT ![q] = [NewDrain EXCEPT !.force = drain[q].force]]
    /\ UNCHANGED <<current, phase, accepted, ran, told, given, orphaned>>

\* The run fails (the reply cannot be sent): the items stay.
RunThrows(q) ==
    /\ Running(q)
    /\ Finally(q)
    /\ UNCHANGED <<queue, phase, accepted, ran, told, given, orphaned>>

\* Bug: the key is deleted and the object kept as it is.
ForgetItems(Q) == Q

\* What clearFollowupQueue makes of a queue object.
EmptyItems(Q) == [Q EXCEPT !.items = <<>>, !.droppedCount = 0, !.summaryLines = <<>>,
                           !.lastRun = FALSE]

\* clearFollowupQueue: the object is emptied, for a drain that is still going,
\* and leaves the map.
ClearFollowupQueue ==
    /\ MayClear
    /\ current # NoQueue
    /\ given' = given \cup Known(queue[current])
    /\ queue' = [queue EXCEPT ![current] = EmptyItems(@)]
    /\ current' = NoQueue
    /\ UNCHANGED <<drain, phase, accepted, ran, told, orphaned>>

-----------------------------------------------------------------------------
Pipeline(d) == AgentStarts(d) \/ MainEnds(d) \/ FinalizeWithFollowup(d)

Next ==
    \/ \E d \in Deliveries : RunNow(d) \/ SeesActive(d) \/ Enqueue(d) \/ Pipeline(d) \/ MainThrows(d)
    \/ \E q \in Queues : Iterate(q) \/ Snapshot(q) \/ RunEnds(q) \/ RunThrows(q)
    \/ ClearFollowupQueue

\* Runs and waits end, and a run that is repeated does not fail for ever.
Fairness ==
    /\ \A d \in Deliveries : SF_vars(Pipeline(d))
    /\ \A q \in Queues : WF_vars(Iterate(q)) /\ WF_vars(Snapshot(q)) /\ SF_vars(RunEnds(q))

Spec == Init /\ [][Next]_vars /\ Fairness

-----------------------------------------------------------------------------
(* Properties. *)

TypeOK ==
    /\ current \in Queues \cup {NoQueue}
    /\ queue \in [Queues -> QueueState]
    /\ drain \in [Queues -> DrainState]
    /\ phase \in [Deliveries -> Phases]
    /\ accepted \in Seq(Deliveries)
    /\ ran \in SUBSET Deliveries /\ told \in SUBSET Deliveries
    /\ given \in SUBSET Deliveries /\ orphaned \in SUBSET Deliveries

\* Objects that a later step can still take items from.
Reachable == {q \in Queues : q = current \/ drain[q].at # "none"}

\* With a policy that refuses messages instead of dropping queued ones, and without
\* clears, no message is lost: what the queue accepted is in a queue that will be
\* looked at again, was part of a prompt, or was given up on purpose, runs that fail
\* and decisions that come late included.
NothingLost ==
    \A d \in ToSet(accepted) :
        d \in ran \cup told \cup given \/ \E q \in Reachable : d \in Known(queue[q])

\* Messages are answered in the order in which they were accepted, failed runs
\* and changes between collecting and single runs included.
RunsInOrder ==
    \A i, k \in 1..Len(accepted) :
        i < k /\ accepted[k] \in ran => accepted[i] \in ran \cup told \cup given

\* What was given up is not answered later: a message that /stop or a reset
\* discarded, or that the policy dropped for good, gets into no prompt, though the
\* drain that held it goes on.
GivenUpIsNotRun == [][given \cap ((ran' \cup told') \ (ran \cup told)) = {}]_vars

\* As long as nothing is cleared, the session's queue is drained by one loop at a
\* time, and every drain is of the queue that the map holds.
SingleDrain == \A q \in Queues : drain[q].at # "none" => q = current

\* Somebody will run what is in the session's queue: a drain, or a run whose end
\* starts one.
HasDriver ==
    \/ current # NoQueue /\ drain[current].at # "none"
    \/ \E d \in Deliveries : phase[d] \in {"starting", "main", "finishing"}

\* Whatever is queued has a driver, clears, dropped messages and failing drains
\* notwithstanding.  The exceptions are the messages that came too late for the run
\* they were to follow (isActive is read some awaits before the enqueue, and may have
\* been read of a queue that is cleared by then), and those behind a main run that
\* threw: when nothing else is queued they wait for the end of another run.
PendingHasDriver ==
    current # NoQueue => HasDriver \/ Known(queue[current]) \subseteq orphaned

\* Without clears and dropping policies, a message that was accepted is run, through
\* drains that fail and begin again, unless it comes to wait as one of these
\* exceptions with nobody to run it.
AcceptedIsServed ==
    \A d \in Deliveries :
        d \in ToSet(accepted) ~>
            d \in ran \cup told \cup given \/ (d \in orphaned /\ ~HasDriver)

\* A drain comes to an end: failed runs start it again only as long as something is
\* queued.  (A policy that summarises may leave a summary without an item; no drain
\* is stated to end then.)
DrainsEnd == \A q \in Queues : drain[q].at # "none" ~> drain[q].at = "none"

\* With a policy that refuses messages instead of dropping queued ones, and
\* without clears, the queue is an inbox.
Held == IF current = NoQueue THEN <<>> ELSE queue[current].items
Inbox == INSTANCE FollowupInbox WITH pending <- Held, answered <- ran
ImplementsInbox == Inbox!Spec
=============================================================================
