--------------------------- MODULE DeliveryQueue ---------------------------
(***************************************************************************)
(* The write-ahead queue of outbound messages:                             *)
(* src/infra/outbound/delivery-queue.ts and its use in deliver.ts.         *)
(*                                                                         *)
(* deliverOutboundPayloads writes a delivery to a file, sends its payloads *)
(* one after the other and removes the file, or counts a failure in it.    *)
(* When the gateway starts, a recovery reads the files that are left and   *)
(* sends them again, oldest first, beside whatever is being sent then.     *)
(* A restart inside the process starts a new recovery while the sends, and *)
(* even the recovery, of the earlier life go on; a crash ends them all and *)
(* leaves the files.  A file appears, changes or goes by one rename or     *)
(* unlink, so what a crash may leave half written is never looked at.      *)
(***************************************************************************)
EXTENDS Integers, Sequences

CONSTANTS Deliveries,
          EnqueuedAt,     \* when a delivery is handed over: the order of recovery
          Payloads,       \* how many sends a delivery takes
          BestEffort,     \* deliveries whose payloads may fail one by one
          Reporting,      \* deliveries whose caller passes onError
          Mirrored,       \* deliveries that are copied to a transcript when sent
          Abortable,      \* deliveries whose caller passes an abort signal
          Recoveries,     \* bound: recoveries at a time
          MaxRetries, Backoff, MaxRecovery, \* MAX_RETRIES, BACKOFF_MS, maxRecoveryMs
          MayRestart      \* the gateway may restart inside its process

Senders == Deliveries \cup Recoveries

ASSUME DeliveriesAssumption ==
    /\ Deliveries # {} /\ Deliveries \cap Recoveries = {}
    /\ EnqueuedAt \in [Deliveries -> Nat]
    /\ Payloads \in [Deliveries -> Nat \ {0}]
    /\ BestEffort \cup Reporting \cup Mirrored \cup Abortable \subseteq Deliveries
ASSUME ScheduleAssumption ==
    /\ MaxRetries \in Nat \ {0} /\ MaxRecovery \in Nat
    /\ Backoff \in Seq(Nat \ {0}) /\ Backoff # <<>>
ASSUME RestartAssumption == MayRestart \in BOOLEAN

VARIABLES
    up,        \* the gateway's process runs
    file,      \* retryCount in <id>.json, or NoFile
    failed,    \* ids with a file in failed/
    sender,    \* live deliveries and recoveries: where they are, their variables
    todo,      \* the entries a recovery has before it
    loaded,    \* the retry counts it has read
    spent,     \* how long it has waited at least
    \* history
    persisted, \* deliveries whose file was written
    reached,   \* <<delivery, payload>> that the channel took
    doubled,   \* it took one more than once, without trouble
    aborted,   \* deliveries whose caller gave them up
    timedOut,  \* deliveries to be sent whole whose channel ended the send with an AbortError
    trouble    \* a crash or failure under a delivery, or one in two hands
diskVars == <<file, failed>>
recoveryVars == <<todo, loaded, spent>>
historyVars == <<persisted, reached, doubled, aborted, timedOut, trouble>>
vars == <<up, file, failed, sender, todo, loaded, spent,
          persisted, reached, doubled, aborted, timedOut, trouble>>

NoFile == -1
NothingLoaded == [d \in Deliveries |-> NoFile]

\* at: where the sender is;  id: its delivery;  next: the payload to send;
\* queued: queueId is not null;  partial: hadPartialFailure;  read: the retry
\* count that failDelivery has read.
SenderState == [at : {"new", "enqueue", "send", "ack", "count", "write", "move", "load", "next", "over"},
                id : Deliveries, next : Nat, queued : BOOLEAN, partial : BOOLEAN,
                read : Nat \cup {NoFile}]
Fresh(d, at) == [at |-> at, id |-> d, next |-> 1, queued |-> FALSE, partial |-> FALSE, read |-> NoFile]

\* The id of a recovery that has no delivery in hand.
Nobody == CHOOSE d \in Deliveries : TRUE
Own(w) == IF w \in Deliveries THEN w ELSE Nobody

Init ==
    /\ up = FALSE
    /\ file = NothingLoaded
    /\ failed = {}
    /\ sender = [w \in Senders |-> Fresh(Own(w), IF w \in Deliveries THEN "new" ELSE "over")]
    /\ todo = [r \in Recoveries |-> {}]
    /\ loaded = [r \in Recoveries |-> NothingLoaded]
    /\ spent = [r \in Recoveries |-> 0]
    /\ persisted = {} /\ reached = {} /\ aborted = {} /\ timedOut = {}
    /\ doubled = FALSE /\ trouble = FALSE

-----------------------------------------------------------------------------
(* deliverOutboundPayloads, up to the sending. *)

Live(w) == w \in Deliveries

\* A call of deliverOutboundPayloads; enqueuedAt is the time of the call.
Deliver(d) ==
    /\ up
    /\ sender[d].at = "new"
    /\ \A e \in Deliveries : EnqueuedAt[e] < EnqueuedAt[d] => sender[e].at # "new"
    /\ sender' = [sender EXCEPT ![d].at = "enqueue"]
    /\ UNCHANGED <<up, diskVars, recoveryVars, historyVars>>

\* enqueueDelivery, or its failure: the delivery is sent all the same.
EnqueueDelivery(d) ==
    \/ /\ file' = [file EXCEPT ![d] = 0]
       /\ persisted' = persisted \cup {d}
       /\ sender' = [sender EXCEPT ![d].at = "send", ![d].queued = TRUE]
    \/ /\ sender' = [sender EXCEPT ![d].at = "send"]
       /\ UNCHANGED <<file, persisted>>

Enqueue(d) ==
    /\ sender[d].at = "enqueue"
    /\ EnqueueDelivery(d)
    /\ UNCHANGED <<up, failed, recoveryVars, reached, doubled, aborted, timedOut, trouble>>

-----------------------------------------------------------------------------
(* deliverOutboundPayloadsCore, for a live delivery or a recovery. *)

SetAt(w, at) == sender' = [sender EXCEPT ![w].at = at]
Leave(w, at) == sender' = [sender EXCEPT ![w] = Fresh(Own(w), at)]

\* What a sender does when it is done with its delivery.
IsDone(w) ==
    IF Live(w)
    THEN Leave(w, "over") /\ UNCHANGED todo
    ELSE Leave(w, "next") /\ todo' = [todo EXCEPT ![w] = @ \ {sender[w].id}]

\* Bug: the loop goes one payload too far.
OneTooMany(w) == sender[w].at = "send" /\ sender[w].next <= Payloads[sender[w].id] + 1

Sending(w) == sender[w].at = "send" /\ sender[w].next <= Payloads[sender[w].id]
Sent(w) == sender[w].at = "send" /\ sender[w].next > Payloads[sender[w].id]

\* The channel takes the payload (or a hook cancels it).
SendSucceeds(w) ==
    LET p == <<sender[w].id, sender[w].next>> IN
    /\ Sending(w)
    /\ w \notin aborted
    /\ sender' = [sender EXCEPT ![w].next = @ + 1]
    /\ reached' = reached \cup {p}
    /\ doubled' = (doubled \/ (p \in reached /\ ~trouble))
    /\ UNCHANGED <<up, diskVars, recoveryVars, persisted, aborted, timedOut, trouble>>

\* The core throws.  A live delivery is acknowledged when the error is an AbortError
\* by its name, whoever raised it, and counted otherwise; a recovery counts it, or
\* gives up at once on an error that no retry would mend.
Throws(w, isAbortError) ==
    \/ Live(w) /\ ~sender[w].queued /\ Leave(w, "over")
    \/ Live(w) /\ sender[w].queued /\ SetAt(w, IF isAbortError THEN "ack" ELSE "count")
    \/ ~Live(w) /\ (SetAt(w, "count") \/ SetAt(w, "move"))

\* A best-effort delivery goes on with the next payload; only callers that pass
\* onError have the failure noticed.  A recovery passes none.
GoesOn(w) ==
    sender' = [sender EXCEPT ![w].next = @ + 1,
                             ![w].partial = @ \/ (Live(w) /\ w \in Reporting)]

\* Bug: the loop goes on after a payload that must not fail.
GoesOnAnyway(w, isAbortError) == GoesOn(w)

\* The catch block of a payload.
PayloadFails(w, isAbortError) ==
    IF sender[w].id \in BestEffort THEN GoesOn(w) ELSE Throws(w, isAbortError)

\* The channel fails.  A request of its own that times out is an AbortError as well
\* (fetchWithTimeout, which Signal sends through).
SendFails(w, isAbortError) ==
    /\ Sending(w)
    /\ w \notin aborted
    /\ trouble' = TRUE
    /\ timedOut' = IF isAbortError THEN timedOut \cup ({w} \cap (Deliveries \ BestEffort)) ELSE timedOut
    /\ PayloadFails(w, isAbortError)
    /\ UNCHANGED <<up, diskVars, recoveryVars, persisted, reached, doubled, aborted>>

\* The caller's abort signal is seen before a payload.
Abort(w) ==
    /\ Sending(w)
    /\ w \in Abortable
    /\ aborted' = aborted \cup {w}
    /\ PayloadFails(w, TRUE)
    /\ UNCHANGED <<up, diskVars, recoveryVars, persisted, reached, doubled, timedOut, trouble>>

\* The channel cannot be set up, or the sent messages cannot be mirrored.
CoreThrows(w) ==
    /\ \/ Sending(w) /\ sender[w].next = 1
       \/ Sent(w) /\ sender[w].id \in Mirrored
    /\ trouble' = TRUE
    /\ Throws(w, FALSE)
    /\ UNCHANGED <<up, diskVars, recoveryVars, persisted, reached, doubled, aborted, timedOut>>

\* The core returns.
CoreReturns(w) ==
    /\ Sent(w)
    /\ IF Live(w) /\ ~sender[w].queued
       THEN Leave(w, "over")
       ELSE SetAt(w, IF sender[w].partial THEN "count" ELSE "ack")
    /\ UNCHANGED <<up, diskVars, recoveryVars, historyVars>>

-----------------------------------------------------------------------------
(* The ends of a delivery. *)

\* Bug: the file is left.
KeepsFile(w) == UNCHANGED file

\* ackDelivery: a file that is gone is fine.
RemovesFile(w) == file' = [file EXCEPT ![sender[w].id] = NoFile]

AckDelivery(w) ==
    /\ sender[w].at = "ack"
    /\ RemovesFile(w)
    /\ IsDone(w)
    /\ UNCHANGED <<up, failed, loaded, spent, historyVars>>

\* failDelivery reads the file; it gives up when there is none.
ReadCount(w) ==
    /\ sender[w].at = "count"
    /\ IF file[sender[w].id] = NoFile
       THEN IsDone(w)
       ELSE /\ sender' = [sender EXCEPT ![w].at = "write", ![w].read = file[sender[w].id]]
            /\ UNCHANGED todo
    /\ UNCHANGED <<up, diskVars, loaded, spent, historyVars>>

\* Bug: the failure is not counted.
CountAsRead(w) == sender[w].read

Counted(w) == sender[w].read + 1

\* ... and replaces it, also when somebody removed it meanwhile.
WriteCount(w) ==
    /\ sender[w].at = "write"
    /\ file' = [file EXCEPT ![sender[w].id] = Counted(w)]
    /\ IsDone(w)
    /\ UNCHANGED <<up, failed, loaded, spent, historyVars>>

MoveToFailed(w) ==
    /\ sender[w].at = "move"
    /\ IF file[sender[w].id] = NoFile
       THEN UNCHANGED diskVars
       ELSE /\ file' = [file EXCEPT ![sender[w].id] = NoFile]
            /\ failed' = failed \cup {sender[w].id}
    /\ IsDone(w)
    /\ UNCHANGED <<up, loaded, spent, historyVars>>

\* Any of them fails: nothing is tried again, but the acknowledgement of a
\* recovery, whose failure is taken for one of the delivery.
DiskError(w) ==
    /\ sender[w].at \in {"ack", "count", "write", "move"}
    /\ IF sender[w].at = "ack" /\ ~Live(w)
       THEN SetAt(w, "count") /\ UNCHANGED todo
       ELSE IsDone(w)
    /\ trouble' = TRUE
    /\ UNCHANGED <<up, diskVars, loaded, spent, persisted, reached, doubled, aborted, timedOut>>

-----------------------------------------------------------------------------
(* recoverPendingDeliveries. *)

Pending == {d \in Deliveries : file[d] # NoFile}

Busy(w) == sender[w].at \notin {"new", "over", "load", "next"}

\* The deliveries that a sender sends or means to send.
InHand(w) == IF Live(w) THEN IF Busy(w) THEN {w} ELSE {} ELSE todo[w]

\* The gateway starts.
Start(r) ==
    /\ ~up
    /\ up' = TRUE
    /\ SetAt(r, "load")
    /\ UNCHANGED <<diskVars, recoveryVars, historyVars>>

\* ... again, in the same process.
Restart(r) ==
    /\ MayRestart
    /\ up
    /\ sender[r].at = "over"
    /\ SetAt(r, "load")
    /\ UNCHANGED <<up, diskVars, recoveryVars, historyVars>>

\* loadPendingDeliveries, in one step: a file that appears or goes while the
\* directory is read is in the result or not.
LoadPending(r) ==
    /\ sender[r].at = "load"
    /\ SetAt(r, "next")
    /\ todo' = [todo EXCEPT ![r] = Pending]
    /\ loaded' = [loaded EXCEPT ![r] = file]
    /\ UNCHANGED spent
    /\ trouble' = (trouble \/ \E w \in Senders : InHand(w) \cap Pending # {})
    /\ UNCHANGED <<up, diskVars, persisted, reached, doubled, aborted, timedOut>>

\* The process ends, whatever it was doing.
Exit ==
    /\ up
    /\ up' = FALSE
    /\ sender' = [w \in Senders |-> IF sender[w].at = "new" THEN sender[w]
                                    ELSE Fresh(Own(w), "over")]
    /\ todo' = [r \in Recoveries |-> {}]
    /\ loaded' = [r \in Recoveries |-> NothingLoaded]
    /\ spent' = [r \in Recoveries |-> 0]
    /\ trouble' = (trouble \/ \E w \in Senders : Busy(w))
    /\ UNCHANGED <<diskVars, persisted, reached, doubled, aborted, timedOut>>

\* Oldest first.
Foremost(r, d) == d \in todo[r] /\ \A e \in todo[r] : EnqueuedAt[d] <= EnqueuedAt[e]

ComputeBackoffMs(n) ==
    IF n <= 0 THEN 0 ELSE Backoff[IF n < Len(Backoff) THEN n ELSE Len(Backoff)]
Wait(r, d) == ComputeBackoffMs(loaded[r][d] + 1)

HasRetriesLeft(r, d) == loaded[r][d] < MaxRetries

\* An entry that was tried often enough.
GiveUp(r, d) ==
    /\ sender[r].at = "next"
    /\ Foremost(r, d)
    /\ ~HasRetriesLeft(r, d)
    /\ sender' = [sender EXCEPT ![r] = Fresh(d, "move")]
    /\ UNCHANGED <<up, diskVars, recoveryVars, historyVars>>

\* The backoff, and the send that follows it.
Retry(r, d) ==
    /\ sender[r].at = "next"
    /\ Foremost(r, d)
    /\ HasRetriesLeft(r, d)
    /\ spent[r] + Wait(r, d) < MaxRecovery
    /\ spent' = [spent EXCEPT ![r] = @ + Wait(r, d)]
    /\ sender' = [sender EXCEPT ![r] = Fresh(d, "send")]
    /\ UNCHANGED <<up, diskVars, todo, loaded, historyVars>>

\* Nothing is left, or the time is up: it is for sure when the backoff of the
\* next entry would exceed it, and may be once something was sent.
RecoveryEnds(r) ==
    /\ sender[r].at = "next"
    /\ \/ todo[r] = {}
       \/ spent[r] > 0
       \/ \E d \in todo[r] : /\ Foremost(r, d)
                             /\ HasRetriesLeft(r, d)
                             /\ spent[r] + Wait(r, d) >= MaxRecovery
    /\ Leave(r, "over")
    /\ todo' = [todo EXCEPT ![r] = {}]
    /\ loaded' = [loaded EXCEPT ![r] = NothingLoaded]
    /\ spent' = [spent EXCEPT ![r] = 0]
    /\ UNCHANGED <<up, diskVars, historyVars>>

-----------------------------------------------------------------------------
SendStep(w) ==
    \/ SendSucceeds(w)
    \/ \E isAbortError \in BOOLEAN : SendFails(w, isAbortError)
    \/ Abort(w) \/ CoreThrows(w) \/ CoreReturns(w)
DiskStep(w) == AckDelivery(w) \/ ReadCount(w) \/ WriteCount(w) \/ MoveToFailed(w)
RecoveryStep(r) ==
    \/ LoadPending(r)
    \/ \E d \in Deliveries : GiveUp(r, d) \/ Retry(r, d)
    \/ RecoveryEnds(r)

Next ==
    \/ \E d \in Deliveries : Deliver(d) \/ Enqueue(d)
    \/ \E w \in Senders : SendStep(w) \/ DiskStep(w) \/ DiskError(w)
    \/ \E r \in Recoveries : Start(r) \/ Restart(r) \/ RecoveryStep(r)
    \/ Exit

\* Every send, every access to the disk and every recovery ends, and an access that
\* a recovery makes again and again succeeds in the end.  The gateway is started
\* after an exit, and now and then it is stopped when it sends nothing: the code
\* leaves entries to the next start.
Fairness ==
    /\ \A d \in Deliveries : WF_vars(Enqueue(d) \/ SendStep(d) \/ DiskStep(d))
    /\ \A r \in Recoveries :
        /\ WF_vars(SendStep(r) \/ RecoveryStep(r))
        /\ SF_vars(AckDelivery(r) \/ MoveToFailed(r))
        /\ SF_vars(ReadCount(r)) /\ SF_vars(WriteCount(r))
    /\ WF_vars(\E r \in Recoveries : Start(r))
    /\ SF_vars(Exit /\ \A w \in Senders : sender[w].at \in {"new", "over"})

\* The process does not break down for ever.
CalmsDown == <>[][Exit => \A w \in Senders : sender[w].at \in {"new", "over"}]_vars

Spec == Init /\ [][Next]_vars /\ Fairness /\ CalmsDown

-----------------------------------------------------------------------------
(* Properties. *)

TypeOK ==
    /\ up \in BOOLEAN
    /\ file \in [Deliveries -> Nat \cup {NoFile}]
    /\ failed \in SUBSET Deliveries
    /\ sender \in [Senders -> SenderState]
    /\ \A w \in Senders : /\ sender[w].next <= Payloads[sender[w].id] + 1
                          /\ Live(w) => sender[w].id = w
    /\ todo \in [Recoveries -> SUBSET Deliveries]
    /\ loaded \in [Recoveries -> [Deliveries -> Nat \cup {NoFile}]]
    /\ spent \in [Recoveries -> Nat]
    /\ persisted \in SUBSET Deliveries
    /\ aborted \in SUBSET Deliveries /\ timedOut \in SUBSET Deliveries
    /\ reached \in SUBSET (Deliveries \X Nat)
    /\ doubled \in BOOLEAN /\ trouble \in BOOLEAN

AllReached(d) == \A k \in 1..Payloads[d] : <<d, k>> \in reached

\* A delivery that was written to the queue, and whose payloads may not fail one
\* by one, is lost by an AbortError only, whatever else crashes, fails or is
\* restarted: every payload reached the channel, or a file is left in the queue or
\* in failed/, or a live send ended with such an error.  The error need not be the
\* caller's: the queue tells aborts by their name, so that a message whose request
\* timed out inside the channel is lost, though nobody gave it up.
OnlyAbortsLose ==
    \A d \in persisted \ BestEffort :
        AllReached(d) \/ file[d] # NoFile \/ d \in failed \/ d \in aborted \cup timedOut

\* Nothing is sent twice unless something went wrong before: a crash or a failure
\* under a delivery, or a recovery that read what somebody else was sending.
NoNeedlessResend == ~doubled

\* Crashes, recoveries beside live sends and files that were replaced meanwhile do
\* not show: the queue is an outbox, in which an entry stays until its delivery was
\* sent whole or cut off by an AbortError, of its caller or of its channel, and whose
\* deliveries are sent from their first payload on.
Box == INSTANCE Outbox WITH Parts <- Payloads, Whole <- Deliveries \ BestEffort,
           Absent <- NoFile, entry <- file, posted <- persisted, aside <- failed,
           taken <- reached, cut <- aborted \cup timedOut
ImplementsOutbox == Box!Spec

\* An entry that no recovery has the time to wait for, although it may be tried again.
Stranded(d) ==
    /\ file[d] # NoFile /\ file[d] < MaxRetries
    /\ ComputeBackoffMs(file[d] + 1) >= MaxRecovery

\* recoverPendingDeliveries delivers whatever is in the queue or moves it to failed/,
\* failures, lost counts and restarts notwithstanding, but for what is stranded or is
\* younger than something stranded: with the waits of the code an entry that failed
\* twice is neither tried again nor put aside, and holds up those behind it.
OnlyStrandedStay ==
    <>[](\A d \in Deliveries : file[d] # NoFile =>
            \E e \in Deliveries : Stranded(e) /\ EnqueuedAt[e] <= EnqueuedAt[d])
=============================================================================
