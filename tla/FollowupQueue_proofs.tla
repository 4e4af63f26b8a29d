------------------------ MODULE FollowupQueue_proofs ------------------------
(***************************************************************************)
(* Proofs about FollowupQueue.  For every instance: types, that what was   *)
(* given up gets into no later prompt, and that what is queued has somebody *)
(* who will run it.  For a queue that nobody clears: one drain at a time.  *)
(* For one that, besides, refuses messages instead of dropping queued      *)
(* ones: that it is the inbox of module FollowupInbox, loses nothing and   *)
(* answers in order.                                                       *)
(***************************************************************************)
EXTENDS FollowupQueue, SequenceTheorems, TLAPS

(* What is left of a sequence when its first m elements go.                *)
LEMMA SuffixFacts ==
    ASSUME NEW S, NEW s \in Seq(S), NEW m \in 0..Len(s)
    PROVE  /\ SubSeq(s, m + 1, Len(s)) \in Seq(S)
           /\ Len(SubSeq(s, m + 1, Len(s))) = Len(s) - m
           /\ \A i \in 1..(Len(s) - m) : SubSeq(s, m + 1, Len(s))[i] = s[m + i]
<1>1. \A i \in (m + 1)..Len(s) : s[i] \in S
  OBVIOUS
<1>2. /\ SubSeq(s, m + 1, Len(s)) \in Seq(S)
      /\ Len(SubSeq(s, m + 1, Len(s))) = IF m + 1 <= Len(s) THEN Len(s) - (m + 1) + 1 ELSE 0
      /\ \A i \in 1..(Len(s) - (m + 1) + 1) : SubSeq(s, m + 1, Len(s))[i] = s[(m + 1) + i - 1]
  BY <1>1, SubSeqProperties
<1>3. QED
  BY <1>2

(* The first n elements of a sequence.                                     *)
LEMMA PrefixFacts ==
    ASSUME NEW S, NEW s \in Seq(S), NEW n \in 0..Len(s)
    PROVE  SubSeq(s, 1, n) \in Seq(S)
<1>1. \A i \in 1..n : s[i] \in S
  OBVIOUS
<1>2. QED
  BY <1>1, SubSeqProperties

(* Making room keeps the state of a queue well formed.                     *)
LEMMA MakeRoomType == ASSUME NEW Q \in QueueState PROVE MakeRoom(Q) \in QueueState
<1> DEFINE n == Overflow(Q)
           kept == [Q EXCEPT !.items = SubSeq(Q.items, n + 1, Len(Q.items))]
           all == Q.summaryLines \o SubSeq(Q.items, 1, n)
           surplus == IF Len(all) > Q.settings.cap THEN Len(all) - Q.settings.cap ELSE 0
           told2 == SubSeq(all, surplus + 1, Len(all))
<1>1. /\ Q.items \in Seq(Deliveries) /\ Q.summaryLines \in Seq(Deliveries)
      /\ Q.droppedCount \in Nat /\ Q.settings.cap \in Nat \ {0}
  BY SettingsAssumption DEF QueueState
<1>2. n \in Int /\ (n > 0 => n \in 0..Len(Q.items))
  BY <1>1 DEF Overflow
<1>3. CASE n <= 0
  BY <1>2, <1>3 DEF MakeRoom
<1>4. CASE n > 0
  <2>1. SubSeq(Q.items, n + 1, Len(Q.items)) \in Seq(Deliveries)
    BY <1>1, <1>2, <1>4, SuffixFacts
  <2>2. kept \in QueueState
    BY <2>1 DEF QueueState
  <2>3. SubSeq(Q.items, 1, n) \in Seq(Deliveries)
    BY <1>1, <1>2, <1>4, PrefixFacts
  <2>4. all \in Seq(Deliveries)
    BY <1>1, <2>3, ConcatProperties
  <2>5. surplus \in 0..Len(all)
    BY <1>1, <2>4
  <2>6. told2 \in Seq(Deliveries)
    BY <2>4, <2>5, SuffixFacts
  <2>7. [kept EXCEPT !.droppedCount = @ + n, !.summaryLines = told2] \in QueueState
    <3> HIDE DEF told2, n
    <3>1. kept.droppedCount + n \in Nat
      BY <1>1, <1>2, <1>4
    <3>2. QED
      BY <2>2, <2>6, <3>1 DEF QueueState
  <2>8. MakeRoom(Q) = IF Q.settings.drop # "summarize" THEN kept
                      ELSE [kept EXCEPT !.droppedCount = @ + n, !.summaryLines = told2]
    BY <1>2, <1>4 DEF MakeRoom
  <2>9. QED
    BY <2>2, <2>7, <2>8
<1>5. QED
  BY <1>2, <1>3, <1>4

-----------------------------------------------------------------------------
(* Type correctness. *)

DrainTyped == /\ current \in Queues \cup {NoQueue}
              /\ drain \in [Queues -> DrainState]

LEMMA DrainStates == NotDraining \in DrainState /\ NewDrain \in DrainState
<1>1. NotDraining \in DrainState
  BY EmptySeq DEF NotDraining, DrainState
<1>2. QED
  BY <1>1 DEF NewDrain, DrainState

LEMMA ScheduleType ==
    ASSUME NEW c \in Queues \cup {NoQueue}, NEW dr \in [Queues -> DrainState]
    PROVE  ScheduleFollowupDrain(c, dr) \in [Queues -> DrainState]
  BY DrainStates DEF ScheduleFollowupDrain

LEMMA FinallyType ==
    ASSUME DrainTyped, NEW q \in Queues, Finally(q)
    PROVE  DrainTyped'
  BY DrainStates, ScheduleType DEF Finally, DrainTyped

LEMMA StartRunType ==
    ASSUME TypeOK, NEW q \in Queues, NEW at \in {"collect", "item", "summary"},
           NEW force \in BOOLEAN, NEW batch \in Seq(Deliveries), NEW summary \in Seq(Deliveries),
           StartRun(q, at, force, batch, summary)
    PROVE  DrainTyped' /\ ran' \in SUBSET Deliveries /\ told' \in SUBSET Deliveries
<1>1. [at |-> at, force |-> force, batch |-> batch, summary |-> summary] \in DrainState
  BY DEF DrainState
<1>2. ToSet(batch) \subseteq Deliveries /\ ToSet(summary) \subseteq Deliveries
  BY DEF ToSet
<1>3. DrainTyped'
  BY <1>1 DEF StartRun, TypeOK, DrainTyped
<1>4. ran' \in SUBSET Deliveries /\ told' \in SUBSET Deliveries
  BY <1>2 DEF StartRun, TypeOK
<1>5. QED
  BY <1>3, <1>4

LEMMA RunNextItemType ==
    ASSUME TypeOK, NEW q \in Queues, NEW force \in BOOLEAN, RunNextItem(q, force)
    PROVE  DrainTyped' /\ ran' \in SUBSET Deliveries /\ told' \in SUBSET Deliveries
<1>1. CASE queue[q].items = <<>>
  BY <1>1, FinallyType DEF RunNextItem, TypeOK, DrainTyped
<1>2. CASE queue[q].items # <<>>
  <2>1. queue[q].items \in Seq(Deliveries)
    BY DEF TypeOK, QueueState
  <2>2. <<Head(queue[q].items)>> \in Seq(Deliveries) /\ <<>> \in Seq(Deliveries)
    BY <1>2, <2>1
  <2>3. StartRun(q, "item", force, <<Head(queue[q].items)>>, <<>>)
    BY <1>2 DEF RunNextItem
  <2>4. QED
    BY <2>2, <2>3, StartRunType
<1>3. QED
  BY <1>1, <1>2

(* The step of a drain that starts no run, or one run.                      *)
LEMMA IterateType ==
    ASSUME TypeOK, NEW q \in Queues, Iterate(q)
    PROVE  DrainTyped' /\ ran' \in SUBSET Deliveries /\ told' \in SUBSET Deliveries
<1>1. /\ drain[q] \in DrainState /\ drain[q].force \in BOOLEAN
      /\ queue[q].summaryLines \in Seq(Deliveries)
  BY DEF TypeOK, DrainState, QueueState
<1>2. ASSUME Finally(q), UNCHANGED <<ran, told>>
      PROVE  DrainTyped' /\ ran' \in SUBSET Deliveries /\ told' \in SUBSET Deliveries
  BY <1>2, FinallyType DEF TypeOK, DrainTyped
<1>3. CASE ~Pending(q)
  BY <1>2, <1>3 DEF Iterate
<1>4. CASE Pending(q) /\ IterateCollect(q)
  <2>1. (drain[q].force \/ HasCrossChannelItems(queue[q].items)) \in BOOLEAN
    OBVIOUS
  <2>2. CASE drain[q].force \/ HasCrossChannelItems(queue[q].items)
    BY <1>4, <2>2, RunNextItemType DEF IterateCollect
  <2>3. CASE ~(drain[q].force \/ HasCrossChannelItems(queue[q].items))
    <3>1. /\ drain' = [drain EXCEPT ![q].at = "checked"]
          /\ UNCHANGED <<current, ran, told>>
      BY <1>4, <2>3 DEF IterateCollect
    <3>2. [drain[q] EXCEPT !.at = "checked"] \in DrainState
      BY <1>1 DEF DrainState
    <3>3. drain' = [drain EXCEPT ![q] = [drain[q] EXCEPT !.at = "checked"]]
      BY <3>1
    <3>4. QED
      BY <3>1, <3>2, <3>3 DEF TypeOK, DrainTyped
  <2>4. QED
    BY <2>2, <2>3
<1>5. CASE Pending(q) /\ IterateFollowup(q)
  <2>1. CASE ~HasSummary(q)
    BY <1>1, <1>5, <2>1, RunNextItemType DEF IterateFollowup
  <2>2. CASE HasSummary(q) /\ queue[q].items = <<>>
    BY <1>2, <1>5, <2>2 DEF IterateFollowup
  <2>3. CASE HasSummary(q) /\ queue[q].items # <<>>
    <3>1. StartRun(q, "summary", drain[q].force, <<>>, queue[q].summaryLines)
      BY <1>5, <2>3 DEF IterateFollowup
    <3>2. <<>> \in Seq(Deliveries)
      OBVIOUS
    <3>3. QED
      BY <1>1, <3>1, <3>2, StartRunType
  <2>4. QED
    BY <2>1, <2>2, <2>3
<1>6. QED
  BY <1>3, <1>4, <1>5 DEF Iterate

LEMMA SnapshotType ==
    ASSUME TypeOK, NEW q \in Queues, Snapshot(q)
    PROVE  DrainTyped' /\ ran' \in SUBSET Deliveries /\ told' \in SUBSET Deliveries
<1> DEFINE lines == IF HasSummary(q) THEN queue[q].summaryLines ELSE <<>>
<1>1. /\ drain[q].force \in BOOLEAN
      /\ queue[q].items \in Seq(Deliveries) /\ lines \in Seq(Deliveries)
  BY DEF TypeOK, DrainState, QueueState
<1>2. CASE queue[q].items = <<>> /\ ~queue[q].lastRun
  BY <1>2, FinallyType DEF Snapshot, TypeOK, DrainTyped
<1>3. CASE ~(queue[q].items = <<>> /\ ~queue[q].lastRun)
  <2>1. StartRun(q, "collect", drain[q].force, queue[q].items, lines)
    BY <1>3 DEF Snapshot
  <2>2. QED
    BY <1>1, <2>1, StartRunType
<1>4. QED
  BY <1>2, <1>3

(* What enqueueing does to the queue objects.                               *)
LEMMA QueueForType ==
    ASSUME TypeOK, NEW s \in Settings, current # NoQueue \/ Free # {}
    PROVE  QueueFor(s).id \in Queues /\ QueueFor(s).state \in QueueState
<1>1. CASE current # NoQueue
  <2>1. current \in Queues /\ queue[current] \in QueueState
    BY <1>1 DEF TypeOK
  <2>2. [queue[current] EXCEPT !.settings = s] \in QueueState
    BY <2>1 DEF QueueState
  <2>3. QED
    BY <1>1, <2>1, <2>2 DEF QueueFor
<1>2. CASE current = NoQueue
  <2>1. (CHOOSE q \in Free : TRUE) \in Queues
    BY <1>2 DEF Free
  <2>2. [items |-> <<>>, summaryLines |-> <<>>, droppedCount |-> 0,
         lastRun |-> FALSE, settings |-> s] \in QueueState
    BY DEF QueueState
  <2>3. QED
    BY <1>2, <2>1, <2>2 DEF QueueFor
<1>3. QED
  BY <1>1, <1>2

LEMMA EnqueueType ==
    ASSUME TypeOK, NEW d \in Deliveries, NEW s \in Settings, EnqueueFollowupRun(d, s)
    PROVE  /\ current' \in Queues
           /\ queue' \in [Queues -> QueueState]
           /\ phase' \in [Deliveries -> Phases]
           /\ accepted' \in Seq(Deliveries)
           /\ given' \in SUBSET Deliveries /\ orphaned' \in SUBSET Deliveries
<1> DEFINE found == QueueFor(s)
           Q == [found.state EXCEPT !.lastRun = TRUE]
           room == MakeRoom(Q)
           more == [room EXCEPT !.items = Append(@, d)]
<1>1. found.id \in Queues /\ found.state \in QueueState
  BY QueueForType DEF EnqueueFollowupRun
<1>2. Q \in QueueState
  BY <1>1 DEF QueueState
<1>3. room \in QueueState
  BY <1>2, MakeRoomType
<1>4. more \in QueueState
  <2> HIDE DEF room
  <2>1. room.items \in Seq(Deliveries)
    BY <1>3 DEF QueueState
  <2>2. Append(room.items, d) \in Seq(Deliveries)
    BY <2>1
  <2>3. QED
    BY <1>3, <2>2 DEF QueueState
<1>5. Known(Q) \subseteq Deliveries
  <2>1. Q.items \in Seq(Deliveries) /\ Q.summaryLines \in Seq(Deliveries)
    BY <1>2 DEF QueueState
  <2>2. QED
    BY <2>1 DEF Known, ToSet
<1>6. current' = found.id /\ phase' = [phase EXCEPT ![d] = "over"]
  BY DEF EnqueueFollowupRun
<1>7. phase' \in [Deliveries -> Phases]
  BY <1>6 DEF TypeOK, Phases
<1>8. \/ queue' = [queue EXCEPT ![found.id] = found.state] /\ UNCHANGED <<accepted, given>>
      \/ queue' = [queue EXCEPT ![found.id] = Q] /\ UNCHANGED <<accepted, given>>
      \/ /\ queue' = [queue EXCEPT ![found.id] = more]
         /\ accepted' = Append(accepted, d)
         /\ given' = given \cup (Known(Q) \ Known(room))
  BY DEF EnqueueFollowupRun
<1> HIDE DEF found, Q, room, more
<1>9. queue' \in [Queues -> QueueState]
  BY <1>1, <1>2, <1>4, <1>8 DEF TypeOK
<1>10. accepted' \in Seq(Deliveries) /\ given' \in SUBSET Deliveries
  BY <1>5, <1>8 DEF TypeOK
<1>11. orphaned' \subseteq orphaned \cup {d}
  BY DEF EnqueueFollowupRun
<1>12. QED
  BY <1>1, <1>6, <1>7, <1>9, <1>10, <1>11 DEF TypeOK

(* What the end of a run leaves of the items: a suffix, maybe none.         *)
LEMMA RestFacts ==
    ASSUME NEW S, NEW s \in Seq(S), NEW n \in Nat
    PROVE  SubSeq(s, n + 1, Len(s)) \in Seq(S)
<1>1. CASE n <= Len(s)
  BY <1>1, SuffixFacts
<1>2. CASE n > Len(s)
  <2>1. SubSeq(s, n + 1, Len(s)) = <<>>
    BY <1>2, SubSeqEmpty
  <2>2. QED
    BY <2>1
<1>3. QED
  BY <1>1, <1>2

LEMMA RunEndsType ==
    ASSUME TypeOK, NEW q \in Queues, RunEnds(q)
    PROVE  TypeOK'
<1> DEFINE rest == SubSeq(queue[q].items, Served(q) + 1, Len(queue[q].items))
<1>1. queue[q] \in QueueState /\ queue[q].items \in Seq(Deliveries) /\ drain[q] \in DrainState
  BY DEF TypeOK, QueueState
<1>2. Served(q) \in Nat
  BY <1>1 DEF Served, DrainState
<1>3. rest \in Seq(Deliveries)
  BY <1>1, <1>2, RestFacts
<1>4. /\ [queue[q] EXCEPT !.items = rest] \in QueueState
      /\ [queue[q] EXCEPT !.items = rest, !.droppedCount = 0, !.summaryLines = <<>>] \in QueueState
  <2> HIDE DEF rest
  <2>1. [queue[q] EXCEPT !.items = rest] \in QueueState
    BY <1>1, <1>3 DEF QueueState
  <2>2. <<>> \in Seq(Deliveries) /\ 0 \in Nat
    BY EmptySeq
  <2>3. [queue[q] EXCEPT !.items = rest, !.droppedCount = 0, !.summaryLines = <<>>] \in QueueState
    BY <1>1, <1>3, <2>2 DEF QueueState
  <2>4. QED
    BY <2>1, <2>3
<1>5. \/ queue' = [queue EXCEPT ![q] = [queue[q] EXCEPT !.items = rest]]
      \/ queue' = [queue EXCEPT ![q] = [queue[q] EXCEPT !.items = rest, !.droppedCount = 0,
                                                        !.summaryLines = <<>>]]
  BY DEF RunEnds
<1>6. queue' \in [Queues -> QueueState]
  <2> HIDE DEF rest
  <2>1. QED
    BY <1>4, <1>5 DEF TypeOK
<1>7. [NewDrain EXCEPT !.force = drain[q].force] \in DrainState
  BY <1>1, DrainStates DEF DrainState
<1>8. drain' = [drain EXCEPT ![q] = [NewDrain EXCEPT !.force = drain[q].force]]
  BY DEF RunEnds
<1>9. drain' \in [Queues -> DrainState]
  BY <1>7, <1>8 DEF TypeOK
<1>10. UNCHANGED <<current, phase, accepted, ran, told, given, orphaned>>
  BY DEF RunEnds
<1>11. QED
  BY <1>6, <1>9, <1>10 DEF TypeOK

LEMMA ClearType == ASSUME TypeOK, ClearFollowupQueue PROVE TypeOK'
<1>1. current \in Queues /\ queue[current] \in QueueState
  BY DEF ClearFollowupQueue, TypeOK
<1>2. EmptyItems(queue[current]) \in QueueState
  BY <1>1, EmptySeq DEF EmptyItems, QueueState
<1>3. queue' = [queue EXCEPT ![current] = EmptyItems(queue[current])]
  BY DEF ClearFollowupQueue
<1>4. queue' \in [Queues -> QueueState]
  BY <1>2, <1>3 DEF TypeOK
<1>5. Known(queue[current]) \subseteq Deliveries
  BY <1>1 DEF Known, ToSet, QueueState
<1>6. /\ given' = given \cup Known(queue[current]) /\ current' = NoQueue
      /\ UNCHANGED <<drain, phase, accepted, ran, told, orphaned>>
  BY DEF ClearFollowupQueue
<1>7. given' \in SUBSET Deliveries
  BY <1>5, <1>6 DEF TypeOK
<1>8. QED
  BY <1>4, <1>6, <1>7 DEF TypeOK

LEMMA KnownType ==
    ASSUME TypeOK PROVE \A q \in Queues : Known(queue[q]) \subseteq Deliveries
  BY DEF TypeOK, QueueState, Known, ToSet

(* The steps of the reply pipeline outside of the queue.                    *)
LEMMA PipelineFacts ==
    ASSUME NEW d \in Deliveries,
           RunNow(d) \/ SeesActive(d) \/ AgentStarts(d) \/ MainEnds(d) \/ MainThrows(d)
             \/ FinalizeWithFollowup(d)
    PROVE  /\ \E p \in Phases : phase' = [phase EXCEPT ![d] = p]
           /\ phase[d] # "over"
           /\ UNCHANGED <<current, queue, accepted, ran, told, given>>
           /\ drain' = drain \/ drain' = ScheduleFollowupDrain(current, drain)
           /\ \/ UNCHANGED orphaned
              \/ current # NoQueue /\ orphaned' = orphaned \cup Known(queue[current])
<1> DEFINE Goal == /\ \E p \in Phases : phase' = [phase EXCEPT ![d] = p]
                   /\ phase[d] # "over"
                   /\ UNCHANGED <<current, queue, accepted, ran, told, given>>
                   /\ drain' = drain \/ drain' = ScheduleFollowupDrain(current, drain)
                   /\ \/ UNCHANGED orphaned
                      \/ current # NoQueue /\ orphaned' = orphaned \cup Known(queue[current])
<1>1. CASE RunNow(d)
  BY <1>1 DEF RunNow, Phases
<1>2. CASE SeesActive(d)
  BY <1>2 DEF SeesActive, Phases
<1>3. CASE AgentStarts(d)
  BY <1>3 DEF AgentStarts, Phases
<1>4. CASE MainEnds(d)
  BY <1>4 DEF MainEnds, Phases
<1>5. CASE MainThrows(d)
  BY <1>5 DEF MainThrows, Phases
<1>6. CASE FinalizeWithFollowup(d)
  BY <1>6 DEF FinalizeWithFollowup, Phases
<1>7. QED
  BY <1>1, <1>2, <1>3, <1>4, <1>5, <1>6

LEMMA TypeStep == TypeOK /\ [Next]_vars => TypeOK'
<1> SUFFICES ASSUME TypeOK, [Next]_vars PROVE TypeOK'
  OBVIOUS
<1>1. ASSUME NEW d \in Deliveries,
             RunNow(d) \/ SeesActive(d) \/ Pipeline(d) \/ MainThrows(d)
      PROVE  TypeOK'
  <2>1. /\ \E p \in Phases : phase' = [phase EXCEPT ![d] = p]
        /\ UNCHANGED <<current, queue, accepted, ran, told, given>>
        /\ drain' = drain \/ drain' = ScheduleFollowupDrain(current, drain)
        /\ \/ UNCHANGED orphaned
           \/ current # NoQueue /\ orphaned' = orphaned \cup Known(queue[current])
    BY <1>1, PipelineFacts DEF Pipeline
  <2>2. drain' \in [Queues -> DrainState]
    BY <2>1, ScheduleType DEF TypeOK
  <2>3. phase' \in [Deliveries -> Phases]
    BY <2>1 DEF TypeOK
  <2>4. orphaned' \in SUBSET Deliveries
    BY <2>1, KnownType DEF TypeOK
  <2>5. QED
    BY <2>1, <2>2, <2>3, <2>4 DEF TypeOK
<1>2. ASSUME NEW d \in Deliveries, Enqueue(d) PROVE TypeOK'
  <2>1. PICK s \in Settings : EnqueueFollowupRun(d, s)
    BY <1>2 DEF Enqueue
  <2>2. UNCHANGED <<drain, ran, told>>
    BY <1>2 DEF Enqueue
  <2>3. QED
    BY <2>1, <2>2, EnqueueType DEF TypeOK
<1>3. ASSUME NEW q \in Queues, Iterate(q) \/ Snapshot(q) PROVE TypeOK'
  <2>1. UNCHANGED <<queue, phase, accepted, given, orphaned>>
    BY <1>3 DEF Iterate, Snapshot
  <2>2. DrainTyped' /\ ran' \in SUBSET Deliveries /\ told' \in SUBSET Deliveries
    BY <1>3, IterateType, SnapshotType
  <2>3. QED
    BY <2>1, <2>2 DEF TypeOK, DrainTyped
<1>4. ASSUME NEW q \in Queues, RunEnds(q) PROVE TypeOK'
  BY <1>4, RunEndsType
<1>5. ASSUME NEW q \in Queues, RunThrows(q) PROVE TypeOK'
  <2>1. DrainTyped'
    BY <1>5, FinallyType DEF RunThrows, TypeOK, DrainTyped
  <2>2. QED
    BY <1>5, <2>1 DEF RunThrows, TypeOK, DrainTyped
<1>6. CASE ClearFollowupQueue
  BY <1>6, ClearType
<1>7. CASE UNCHANGED vars
  BY <1>7 DEF vars, TypeOK
<1>8. QED
  BY <1>1, <1>2, <1>3, <1>4, <1>5, <1>6, <1>7 DEF Next

LEMMA TypeInit == Init => TypeOK
<1> SUFFICES ASSUME Init PROVE TypeOK
  OBVIOUS
<1> DEFINE fresh == [items |-> <<>>, summaryLines |-> <<>>, droppedCount |-> 0,
                     lastRun |-> FALSE, settings |-> CHOOSE s \in Settings : TRUE]
<1>1. (CHOOSE s \in Settings : TRUE) \in Settings
  BY SettingsAssumption
<1>2. fresh \in QueueState
  BY <1>1 DEF QueueState
<1>3. queue \in [Queues -> QueueState]
  BY <1>2 DEF Init
<1>4. drain \in [Queues -> DrainState] /\ phase \in [Deliveries -> Phases]
  BY DrainStates DEF Init, Phases
<1>5. /\ current = NoQueue /\ accepted = <<>> /\ ran = {} /\ told = {} /\ given = {}
      /\ orphaned = {}
  BY DEF Init
<1>6. QED
  BY <1>3, <1>4, <1>5 DEF TypeOK

(* Types, for every set of deliveries, routes, settings and queue objects.  *)
THEOREM TypeCorrect == Spec => []TypeOK
  BY TypeInit, TypeStep, PTL DEF Spec

-----------------------------------------------------------------------------
(* One drain at a time, for a queue that nobody clears. *)

(* The finally block of the one drain ends it, and starts it again or takes *)
(* the queue out of the map.                                                *)
LEMMA FinallySingle ==
    ASSUME TypeOK, SingleDrain, NEW q \in Queues, drain[q].at # "none", Finally(q)
    PROVE  SingleDrain'
<1>1. current = q /\ drain \in [Queues -> DrainState]
  BY DEF SingleDrain, TypeOK
<1>2. NotDraining.at = "none"
  BY DEF NotDraining
<1>3. \A p \in Queues : p # q => drain[p].at = "none"
  BY <1>1 DEF SingleDrain
<1>4. CASE Pending(q)
  <2>1. drain' = ScheduleFollowupDrain(q, [drain EXCEPT ![q] = NotDraining]) /\ current' = q
    BY <1>1, <1>4 DEF Finally
  <2>2. \A p \in Queues : p # q => drain'[p] = drain[p]
    BY <1>1, <2>1 DEF ScheduleFollowupDrain
  <2>3. QED
    BY <1>3, <2>1, <2>2 DEF SingleDrain
<1>5. CASE ~Pending(q)
  BY <1>1, <1>2, <1>3, <1>5 DEF Finally, SingleDrain
<1>6. QED
  BY <1>4, <1>5

LEMMA StartRunSingle ==
    ASSUME TypeOK, SingleDrain, NEW q \in Queues, drain[q].at # "none",
           NEW at, NEW force, NEW batch, NEW summary, StartRun(q, at, force, batch, summary)
    PROVE  SingleDrain'
  BY DEF StartRun, SingleDrain, TypeOK

LEMMA DrainSingle ==
    ASSUME TypeOK, SingleDrain, NEW q \in Queues,
           Iterate(q) \/ Snapshot(q) \/ RunEnds(q) \/ RunThrows(q)
    PROVE  SingleDrain'
<1>1. drain[q].at # "none" /\ current = q
  BY DEF Iterate, Snapshot, RunEnds, RunThrows, Running, SingleDrain
<1>2. ASSUME NEW force, RunNextItem(q, force) PROVE SingleDrain'
  BY <1>1, <1>2, FinallySingle, StartRunSingle DEF RunNextItem
<1>3. CASE Iterate(q)
  <2>1. ASSUME drain' = [drain EXCEPT ![q].at = "checked"], UNCHANGED current PROVE SingleDrain'
    BY <1>1, <2>1 DEF SingleDrain, TypeOK
  <2>2. IterateCollect(q) => SingleDrain'
    BY <1>2, <2>1 DEF IterateCollect
  <2>3. IterateFollowup(q) => SingleDrain'
    BY <1>1, <1>2, FinallySingle, StartRunSingle DEF IterateFollowup
  <2>4. QED
    BY <1>1, <1>3, <2>2, <2>3, FinallySingle DEF Iterate
<1>4. CASE Snapshot(q)
  BY <1>1, <1>4, FinallySingle, StartRunSingle DEF Snapshot
<1>5. CASE RunEnds(q)
  BY <1>1, <1>5 DEF RunEnds, SingleDrain, TypeOK
<1>6. CASE RunThrows(q)
  BY <1>1, <1>6, FinallySingle DEF RunThrows
<1>7. QED
  BY <1>3, <1>4, <1>5, <1>6

LEMMA SingleDrainStep ==
    ASSUME MayClear = FALSE, TypeOK, SingleDrain, [Next]_vars
    PROVE  SingleDrain'
<1>1. ASSUME NEW d \in Deliveries, FinalizeWithFollowup(d) PROVE SingleDrain'
  <2>1. drain' = ScheduleFollowupDrain(current, drain) /\ UNCHANGED current
    BY <1>1 DEF FinalizeWithFollowup
  <2>2. QED
    BY <2>1 DEF ScheduleFollowupDrain, SingleDrain, TypeOK
<1>2. ASSUME NEW d \in Deliveries, Enqueue(d) PROVE SingleDrain'
  <2>1. UNCHANGED drain /\ (current # NoQueue => current' = current)
    BY <1>2 DEF Enqueue, EnqueueFollowupRun, QueueFor
  <2>2. QED
    BY <2>1, QueuesAssumption DEF SingleDrain
<1>3. ASSUME NEW d \in Deliveries,
             RunNow(d) \/ SeesActive(d) \/ AgentStarts(d) \/ MainEnds(d) \/ MainThrows(d)
      PROVE  SingleDrain'
  BY <1>3 DEF RunNow, SeesActive, AgentStarts, MainEnds, MainThrows, SingleDrain
<1>4. CASE UNCHANGED vars
  BY <1>4 DEF vars, SingleDrain
<1>5. ~ClearFollowupQueue
  BY DEF ClearFollowupQueue
<1>6. QED
  BY <1>1, <1>2, <1>3, <1>4, <1>5, DrainSingle DEF Next, Pipeline

(* One drain at a time, and it is a drain of the queue in the map, whatever *)
(* is dropped, fails or comes late.  (A clear takes the queue out of the    *)
(* map and leaves its drain going.)                                         *)
THEOREM OneDrain == ASSUME MayClear = FALSE PROVE Spec => []SingleDrain
<1>1. Init => SingleDrain
  BY DEF Init, SingleDrain, NotDraining
<1>2. TypeOK /\ SingleDrain /\ [Next]_vars => SingleDrain'
  BY SingleDrainStep
<1>3. QED
  BY <1>1, <1>2, TypeCorrect, PTL DEF Spec

-----------------------------------------------------------------------------
(* A queue that refuses new messages when it is full, and is not cleared.   *)

NothingIsDropped == MayClear = FALSE /\ \A s \in Settings : s.drop = "new"

(* What the drains know: the run that is awaited answers the front of the   *)
(* queue, and there is no summary to answer.                                *)
TurnsAreFront ==
    \A q \in Queues :
        /\ drain[q].at # "summary" /\ drain[q].summary = <<>>
        /\ Running(q) => /\ Served(q) <= Len(queue[q].items)
                         /\ \A i \in 1..Served(q) : queue[q].items[i] \in ran

NoneDropped == \A q \in Queues : queue[q].droppedCount = 0

ControlInv == SingleDrain /\ NoneDropped /\ TurnsAreFront

(* What a step can do to the messages: begin a turn for the first n, remove *)
(* the first n, take a new one.                                             *)
Turn(n) ==
    /\ ran' = ran \cup {Held[i] : i \in 1..n}
    /\ Held' = Held /\ accepted' = accepted
Leave(n) ==
    /\ \A i \in 1..n : Held[i] \in ran
    /\ Held' = SubSeq(Held, n + 1, Len(Held)) /\ accepted' = accepted /\ ran' = ran
Take(d) ==
    /\ phase[d] # "over" /\ phase'[d] = "over"
    /\ Held' = Append(Held, d) /\ accepted' = Append(accepted, d) /\ ran' = ran
Idle == Held' = Held /\ accepted' = accepted /\ ran' = ran

MessageStep ==
    \/ Idle
    \/ \E n \in 1..Len(Held) : Turn(n) \/ Leave(n)
    \/ \E d \in Deliveries : Take(d)

LEMMA HeldType == TypeOK => Held \in Seq(Deliveries)
  BY EmptySeq DEF TypeOK, QueueState, Held

(* The finally block of the one drain.                                      *)
LEMMA FinallyStep ==
    ASSUME TypeOK, ControlInv, NEW q \in Queues, drain[q].at # "none",
           Finally(q), UNCHANGED <<queue, ran>>
    PROVE  ControlInv' /\ Held' = Held
<1>1. current = q
  BY DEF ControlInv, SingleDrain
<1>2. drain \in [Queues -> DrainState] /\ queue \in [Queues -> QueueState]
  BY DEF TypeOK
<1>3. NewDrain.at = "loop" /\ NewDrain.summary = <<>> /\ NotDraining.at = "none"
      /\ NotDraining.summary = <<>>
  BY DEF NewDrain, NotDraining
<1>4. CASE Pending(q)
  <2>1. drain' = ScheduleFollowupDrain(q, [drain EXCEPT ![q] = NotDraining]) /\ current' = q
    BY <1>1, <1>4 DEF Finally
  <2>2. drain' = [drain EXCEPT ![q] = NewDrain]
    BY <1>2, <1>3, <2>1, QueuesAssumption DEF ScheduleFollowupDrain
  <2>3. QED
    BY <1>1, <1>2, <1>3, <2>1, <2>2
       DEF ControlInv, SingleDrain, NoneDropped, TurnsAreFront, Running, Served, Held
<1>5. CASE ~Pending(q)
  <2>1. drain' = [drain EXCEPT ![q] = NotDraining] /\ current' = NoQueue
    BY <1>5 DEF Finally
  <2>2. Held = <<>> /\ Held' = <<>>
    BY <1>1, <1>5, <2>1, QueuesAssumption DEF Pending, Held
  <2>3. SingleDrain'
    BY <1>1, <1>2, <1>3, <2>1 DEF ControlInv, SingleDrain
  <2>4. NoneDropped'
    BY DEF ControlInv, NoneDropped
  <2>5. TurnsAreFront'
    BY <1>2, <1>3, <2>1 DEF ControlInv, TurnsAreFront, Running, Served
  <2>6. QED
    BY <2>2, <2>3, <2>4, <2>5 DEF ControlInv
<1>6. QED
  BY <1>4, <1>5

(* The begin of a run for a front of the queue of the one drain.            *)
LEMMA StartRunStep ==
    ASSUME TypeOK, ControlInv, NEW q \in Queues, drain[q].at # "none",
           NEW at \in {"collect", "item"}, NEW force \in BOOLEAN, NEW n \in 0..Len(queue[q].items),
           StartRun(q, at, force, SubSeq(queue[q].items, 1, n), <<>>),
           at = "item" => n = 1,
           UNCHANGED <<queue, accepted>>
    PROVE  ControlInv' /\ (Idle \/ \E k \in 1..Len(Held) : Turn(k))
<1> DEFINE items == queue[q].items
           batch == SubSeq(items, 1, n)
<1>1. current = q /\ current' = q /\ Held = items /\ Held' = items
  BY QueuesAssumption DEF ControlInv, SingleDrain, StartRun, Held
<1>2. /\ drain \in [Queues -> DrainState] /\ queue \in [Queues -> QueueState]
      /\ items \in Seq(Deliveries)
  BY DEF TypeOK, QueueState
<1>3. Len(batch) = n /\ \A i \in 1..n : batch[i] = items[i]
  BY <1>2
<1>4. ToSet(batch) = {items[i] : i \in 1..n}
  BY <1>3 DEF ToSet
<1>5. /\ drain' = [drain EXCEPT ![q] = [at |-> at, force |-> force, batch |-> batch,
                                        summary |-> <<>>]]
      /\ ran' = ran \cup ToSet(batch)
  BY DEF StartRun
<1>6. SingleDrain' /\ NoneDropped'
  BY <1>1, <1>2, <1>5 DEF ControlInv, SingleDrain, NoneDropped
<1>7. TurnsAreFront'
  <2> HIDE DEF batch
  <2>1. ASSUME NEW p \in Queues, p # q
        PROVE  /\ drain'[p] = drain[p] /\ queue'[p] = queue[p]
    BY <1>2, <1>5, <2>1
  <2>2. drain'[q].at = at /\ drain'[q].summary = <<>> /\ drain'[q].batch = batch
    BY <1>2, <1>5
  <2>3. Served(q)' = n
    BY <1>3, <2>2 DEF Served
  <2>4. \A i \in 1..n : items[i] \in ran'
    BY <1>4, <1>5
  <2>5. ASSUME NEW p \in Queues, p # q PROVE Served(p)' = Served(p) /\ (Running(p)' <=> Running(p))
    BY <2>1, <2>5 DEF Served, Running
  <2>6. ASSUME NEW p \in Queues
        PROVE  /\ drain'[p].at # "summary" /\ drain'[p].summary = <<>>
               /\ Running(p)' => /\ Served(p)' <= Len(queue'[p].items)
                                 /\ \A i \in 1..Served(p)' : queue'[p].items[i] \in ran'
    <3>1. CASE p = q
      BY <2>2, <2>3, <2>4, <3>1
    <3>2. CASE p # q
      BY <1>5, <2>1, <2>5, <3>2 DEF ControlInv, TurnsAreFront
    <3>3. QED
      BY <3>1, <3>2
  <2>7. QED
    BY <2>6 DEF TurnsAreFront
<1>8. n = 0 => Idle
  BY <1>1, <1>4, <1>5 DEF Idle
<1>9. n > 0 => n \in 1..Len(Held) /\ Turn(n)
  BY <1>1, <1>4, <1>5 DEF Turn
<1>10. QED
  BY <1>6, <1>7, <1>8, <1>9 DEF ControlInv

LEMMA RunNextItemStep ==
    ASSUME TypeOK, ControlInv, NEW q \in Queues, drain[q].at # "none",
           NEW force \in BOOLEAN, RunNextItem(q, force), UNCHANGED <<queue, accepted>>
    PROVE  ControlInv' /\ (Idle \/ \E n \in 1..Len(Held) : Turn(n))
<1>1. queue[q].items \in Seq(Deliveries)
  BY DEF TypeOK, QueueState
<1>2. CASE queue[q].items = <<>>
  BY <1>2, FinallyStep DEF RunNextItem, Idle
<1>3. CASE queue[q].items # <<>>
  <2>1. 1 \in 0..Len(queue[q].items) /\ <<Head(queue[q].items)>> = SubSeq(queue[q].items, 1, 1)
    BY <1>1, <1>3
  <2>2. StartRun(q, "item", force, SubSeq(queue[q].items, 1, 1), <<>>)
    BY <1>3, <2>1 DEF RunNextItem
  <2>3. QED
    BY <2>1, <2>2, StartRunStep
<1>4. QED
  BY <1>2, <1>3

LEMMA IterateStep ==
    ASSUME NothingIsDropped, TypeOK, ControlInv, NEW q \in Queues, Iterate(q)
    PROVE  ControlInv' /\ (Idle \/ \E n \in 1..Len(Held) : Turn(n))
<1>1. /\ drain[q].at = "loop" /\ drain[q].force \in BOOLEAN /\ drain[q].summary = <<>>
      /\ UNCHANGED <<queue, accepted>>
  BY DEF Iterate, TypeOK, DrainState, ControlInv, TurnsAreFront
<1>2. ~HasSummary(q)
  BY DEF HasSummary, ControlInv, NoneDropped
<1>3. CASE Finally(q) /\ UNCHANGED <<ran, told>>
  BY <1>1, <1>3, FinallyStep DEF Idle
<1>4. ASSUME NEW force \in BOOLEAN, RunNextItem(q, force)
      PROVE  ControlInv' /\ (Idle \/ \E n \in 1..Len(Held) : Turn(n))
  BY <1>1, <1>4, RunNextItemStep
<1>5. CASE /\ drain' = [drain EXCEPT ![q].at = "checked"]
           /\ UNCHANGED <<current, ran, told>>
  <2>1. drain \in [Queues -> DrainState]
    BY DEF TypeOK
  <2>2. \A p \in Queues : p # q => drain'[p] = drain[p]
    BY <1>5, <2>1
  <2>3. drain'[q].at = "checked" /\ drain'[q].summary = <<>>
    <3>1. drain'[q] = [drain[q] EXCEPT !.at = "checked"]
      BY <1>5, <2>1
    <3>2. QED
      BY <1>1, <2>1, <3>1 DEF DrainState
  <2>4. SingleDrain' /\ NoneDropped'
    BY <1>1, <1>5, <2>2, <2>3 DEF ControlInv, SingleDrain, NoneDropped
  <2>5. TurnsAreFront'
    BY <1>1, <1>5, <2>2, <2>3 DEF ControlInv, TurnsAreFront, Running, Served
  <2>6. Idle
    BY <1>1, <1>5 DEF Idle, Held
  <2>7. QED
    BY <2>4, <2>5, <2>6 DEF ControlInv
<1>6. \/ Finally(q) /\ UNCHANGED <<ran, told>>
      \/ RunNextItem(q, TRUE) \/ RunNextItem(q, drain[q].force)
      \/ drain' = [drain EXCEPT ![q].at = "checked"] /\ UNCHANGED <<current, ran, told>>
  BY <1>2 DEF Iterate, IterateCollect, IterateFollowup
<1>7. QED
  BY <1>1, <1>3, <1>4, <1>5, <1>6

LEMMA SnapshotStep ==
    ASSUME TypeOK, ControlInv, NEW q \in Queues, Snapshot(q)
    PROVE  ControlInv' /\ (Idle \/ \E n \in 1..Len(Held) : Turn(n))
<1>1. /\ drain[q].at = "checked" /\ drain[q].force \in BOOLEAN
      /\ UNCHANGED <<queue, accepted>> /\ queue[q].items \in Seq(Deliveries)
  BY DEF Snapshot, TypeOK, DrainState, QueueState
<1>2. ~HasSummary(q)
  BY DEF HasSummary, ControlInv, NoneDropped
<1>3. CASE Finally(q) /\ UNCHANGED <<ran, told>>
  BY <1>1, <1>3, FinallyStep DEF Idle
<1>4. CASE StartRun(q, "collect", drain[q].force, queue[q].items, <<>>)
  <2>1. SubSeq(queue[q].items, 1, Len(queue[q].items)) = queue[q].items
    BY <1>1, SubSeqFull
  <2>2. Len(queue[q].items) \in 0..Len(queue[q].items)
    BY <1>1
  <2>3. QED
    BY <1>1, <1>4, <2>1, <2>2, StartRunStep
<1>5. QED
  BY <1>2, <1>3, <1>4 DEF Snapshot

LEMMA RunEndsStep ==
    ASSUME TypeOK, ControlInv, NEW q \in Queues, RunEnds(q)
    PROVE  ControlInv' /\ (Idle \/ \E n \in 1..Len(Held) : Leave(n))
<1> DEFINE items == queue[q].items
           n == Served(q)
           rest == SubSeq(items, n + 1, Len(items))
<1>1. Running(q) /\ drain[q].at \notin {"none", "summary"} /\ drain[q].summary = <<>>
  BY DEF RunEnds, Running, ControlInv, TurnsAreFront
<1>2. /\ drain \in [Queues -> DrainState] /\ queue \in [Queues -> QueueState]
      /\ items \in Seq(Deliveries) /\ drain[q] \in DrainState
  BY DEF TypeOK, QueueState
<1>3. n \in 0..Len(items) /\ \A i \in 1..n : items[i] \in ran
  <2>1. n \in Nat
    BY <1>2 DEF Served, DrainState
  <2>2. QED
    BY <1>1, <2>1 DEF ControlInv, TurnsAreFront
<1>4. /\ queue' = [queue EXCEPT ![q] = [queue[q] EXCEPT !.items = rest]]
      /\ drain' = [drain EXCEPT ![q] = [NewDrain EXCEPT !.force = drain[q].force]]
      /\ UNCHANGED <<current, accepted, ran>>
  BY <1>1 DEF RunEnds
<1>5. current = q /\ Held = items
  BY <1>1, QueuesAssumption DEF ControlInv, SingleDrain, Held
<1>6. queue'[q].items = rest /\ queue'[q].droppedCount = queue[q].droppedCount
  BY <1>2, <1>4 DEF QueueState
<1>7. Held' = rest
  BY <1>4, <1>5, <1>6, QueuesAssumption DEF Held
<1>8. drain'[q].at = "loop" /\ drain'[q].summary = <<>>
  BY <1>2, <1>4 DEF NewDrain, NotDraining
<1>9. \A p \in Queues : p # q => drain'[p] = drain[p] /\ queue'[p] = queue[p]
  BY <1>2, <1>4
<1>10. SingleDrain' /\ NoneDropped'
  BY <1>4, <1>5, <1>6, <1>8, <1>9 DEF ControlInv, SingleDrain, NoneDropped
<1>11. TurnsAreFront'
  <2>1. \A p \in Queues : p # q => Served(p)' = Served(p) /\ (Running(p)' <=> Running(p))
    BY <1>9 DEF Served, Running
  <2>2. ~Running(q)'
    BY <1>8 DEF Running
  <2>3. QED
    BY <1>4, <1>8, <1>9, <2>1, <2>2 DEF ControlInv, TurnsAreFront
<1>12. n = 0 => Idle
  <2>1. n = 0 => rest = items
    BY <1>2, SubSeqFull
  <2>2. QED
    BY <1>4, <1>5, <1>7, <2>1 DEF Idle
<1>13. n > 0 => n \in 1..Len(Held) /\ Leave(n)
  BY <1>3, <1>4, <1>5, <1>7 DEF Leave
<1>14. QED
  BY <1>3, <1>10, <1>11, <1>12, <1>13 DEF ControlInv

LEMMA EnqueueStep ==
    ASSUME NothingIsDropped, TypeOK, ControlInv, NEW d \in Deliveries, Enqueue(d)
    PROVE  ControlInv' /\ (Idle \/ Take(d))
<1>1. PICK s \in Settings : EnqueueFollowupRun(d, s)
  BY DEF Enqueue
<1> DEFINE found == QueueFor(s)
           Q == [found.state EXCEPT !.lastRun = TRUE]
           more == [Q EXCEPT !.items = Append(@, d)]
<1>2. UNCHANGED <<drain, ran>> /\ phase[d] # "over"
  BY DEF Enqueue
<1>3. found.id \in Queues /\ found.state \in QueueState /\ Q \in QueueState
  <2>1. current # NoQueue \/ Free # {}
    BY <1>1 DEF EnqueueFollowupRun
  <2>2. found.id \in Queues /\ found.state \in QueueState
    BY <2>1, QueueForType
  <2>3. QED
    BY <2>2 DEF QueueState
<1>4. found.state.items = Held /\ found.state.droppedCount = 0
  <2>1. CASE current = NoQueue
    BY <2>1 DEF QueueFor, Held
  <2>2. CASE current # NoQueue
    <3>1. current \in Queues /\ queue[current] \in QueueState
      BY <2>2 DEF TypeOK
    <3>2. found.state = [queue[current] EXCEPT !.settings = s]
      BY <2>2 DEF QueueFor
    <3>3. QED
      BY <2>2, <3>1, <3>2 DEF QueueState, Held, ControlInv, NoneDropped
  <2>3. QED
    BY <2>1, <2>2
<1>5. current # NoQueue => found.id = current
  BY DEF QueueFor
<1>6. Q.items = Held /\ Q.droppedCount = 0 /\ more.items = Append(Held, d) /\ more.droppedCount = 0
  BY <1>3, <1>4 DEF QueueState
<1>7. Q.settings.drop = "new" /\ s.drop = "new"
  BY <1>3 DEF NothingIsDropped, QueueState
<1>8. Overflow(Q) \in Int
  BY <1>3, SettingsAssumption DEF Overflow, QueueState
<1>9. /\ current' = found.id /\ phase' = [phase EXCEPT ![d] = "over"]
      /\ \/ /\ queue' = [queue EXCEPT ![found.id] = found.state] \/ queue' = [queue EXCEPT ![found.id] = Q]
            /\ UNCHANGED accepted
         \/ /\ queue' = [queue EXCEPT ![found.id] = more]
            /\ accepted' = Append(accepted, d)
  <2>1. ~(Overflow(Q) > 0) => MakeRoom(Q) = Q
    BY <1>8 DEF MakeRoom
  <2>2. QED
    BY <1>1, <1>7, <2>1 DEF EnqueueFollowupRun
<1> HIDE DEF found, Q, more
<1>10. queue \in [Queues -> QueueState] /\ phase'[d] = "over"
  BY <1>9 DEF TypeOK
<1>11. PICK new : /\ queue' = [queue EXCEPT ![found.id] = new] /\ new.droppedCount = 0
                  /\ \/ new.items = Held /\ UNCHANGED accepted
                     \/ new.items = Append(Held, d) /\ accepted' = Append(accepted, d)
  BY <1>4, <1>6, <1>9
<1>12. Held' = new.items
  BY <1>3, <1>9, <1>10, <1>11, QueuesAssumption DEF Held
<1>13. SingleDrain' /\ NoneDropped'
  BY <1>2, <1>3, <1>5, <1>9, <1>10, <1>11, QueuesAssumption DEF ControlInv, SingleDrain, NoneDropped
<1>14. TurnsAreFront'
  <2>1. ASSUME NEW p \in Queues, Running(p)
        PROVE  /\ Served(p) <= Len(queue'[p].items)
               /\ \A i \in 1..Served(p) : queue'[p].items[i] \in ran
    <3>1. p = current /\ p = found.id /\ Held = queue[p].items
      BY <1>5, <2>1, QueuesAssumption DEF Running, ControlInv, SingleDrain, Held
    <3>2. queue'[p].items = new.items
      BY <1>10, <1>11, <3>1
    <3>3. Served(p) <= Len(Held) /\ \A i \in 1..Served(p) : Held[i] \in ran
      BY <2>1, <3>1 DEF ControlInv, TurnsAreFront
    <3>4. Held \in Seq(Deliveries) /\ Served(p) \in Nat
      BY HeldType DEF Served, TypeOK, DrainState
    <3>5. QED
      BY <1>11, <3>2, <3>3, <3>4
  <2>2. \A p \in Queues : Served(p)' = Served(p) /\ (Running(p)' <=> Running(p))
    BY <1>2 DEF Served, Running
  <2>3. QED
    BY <1>2, <2>1, <2>2 DEF ControlInv, TurnsAreFront
<1>15. Idle \/ Take(d)
  BY <1>2, <1>10, <1>11, <1>12 DEF Idle, Take
<1>16. QED
  BY <1>13, <1>14, <1>15 DEF ControlInv

LEMMA RunThrowsStep ==
    ASSUME TypeOK, ControlInv, NEW q \in Queues, RunThrows(q)
    PROVE  ControlInv' /\ Idle
<1>1. drain[q].at # "none" /\ Finally(q) /\ UNCHANGED <<queue, accepted, ran>>
  BY DEF RunThrows, Running
<1>2. QED
  BY <1>1, FinallyStep DEF Idle

(* A drain that is scheduled begins with a look at the queue.               *)
LEMMA PipelineStep ==
    ASSUME TypeOK, ControlInv, UNCHANGED <<current, queue, accepted, ran>>,
           drain' = drain \/ drain' = ScheduleFollowupDrain(current, drain)
    PROVE  ControlInv' /\ Idle
<1>1. Idle
  BY DEF Idle, Held
<1>2. drain \in [Queues -> DrainState] /\ current \in Queues \cup {NoQueue}
  BY DEF TypeOK
<1>3. NewDrain.at = "loop" /\ NewDrain.summary = <<>>
  BY DEF NewDrain, NotDraining
<1>4. CASE drain' = drain
  BY <1>1, <1>4 DEF ControlInv, SingleDrain, NoneDropped, TurnsAreFront, Running, Served
<1>5. CASE current # NoQueue /\ drain' = [drain EXCEPT ![current] = NewDrain]
  <2>1. drain'[current] = NewDrain /\ \A q \in Queues : q # current => drain'[q] = drain[q]
    BY <1>2, <1>5
  <2>2. SingleDrain' /\ NoneDropped'
    BY <2>1 DEF ControlInv, SingleDrain, NoneDropped
  <2>3. ~Running(current)'
    BY <1>3, <2>1 DEF Running
  <2>4. \A q \in Queues : q # current => Served(q)' = Served(q) /\ (Running(q)' <=> Running(q))
    BY <2>1 DEF Served, Running
  <2>5. TurnsAreFront'
    BY <1>3, <2>1, <2>3, <2>4 DEF ControlInv, TurnsAreFront
  <2>6. QED
    BY <1>1, <2>2, <2>5 DEF ControlInv
<1>6. QED
  BY <1>1, <1>4, <1>5 DEF ScheduleFollowupDrain

(* A message that is through the pipeline does not enter it again.          *)
OverStaysOver == \A d \in Deliveries : phase[d] = "over" => phase'[d] = "over"

LEMMA Step ==
    NothingIsDropped /\ TypeOK /\ ControlInv /\ [Next]_vars
        => ControlInv' /\ MessageStep /\ OverStaysOver
<1> SUFFICES ASSUME NothingIsDropped, TypeOK, ControlInv, [Next]_vars
             PROVE  ControlInv' /\ MessageStep /\ OverStaysOver
  OBVIOUS
<1>1. phase \in [Deliveries -> Phases]
  BY DEF TypeOK
<1>2. ASSUME NEW d \in Deliveries,
             RunNow(d) \/ SeesActive(d) \/ Pipeline(d) \/ MainThrows(d)
      PROVE  ControlInv' /\ MessageStep /\ OverStaysOver
  <2>1. /\ \E p \in Phases : phase' = [phase EXCEPT ![d] = p]
        /\ phase[d] # "over"
        /\ UNCHANGED <<current, queue, accepted, ran>>
        /\ drain' = drain \/ drain' = ScheduleFollowupDrain(current, drain)
    BY <1>2, PipelineFacts DEF Pipeline
  <2>2. ControlInv' /\ Idle
    BY <2>1, PipelineStep
  <2>3. OverStaysOver
    BY <1>1, <2>1 DEF OverStaysOver
  <2>4. QED
    BY <2>2, <2>3 DEF MessageStep
<1>3. ASSUME NEW d \in Deliveries, Enqueue(d)
      PROVE  ControlInv' /\ MessageStep /\ OverStaysOver
  <2>1. phase' = [phase EXCEPT ![d] = "over"]
    BY <1>3 DEF Enqueue, EnqueueFollowupRun
  <2>2. ControlInv' /\ (Idle \/ Take(d))
    BY <1>3, EnqueueStep
  <2>3. QED
    BY <1>1, <2>1, <2>2 DEF MessageStep, OverStaysOver
<1>4. ASSUME NEW q \in Queues, Iterate(q) \/ Snapshot(q) \/ RunEnds(q) \/ RunThrows(q)
      PROVE  ControlInv' /\ MessageStep /\ OverStaysOver
  <2>1. ControlInv' /\ MessageStep
    BY <1>4, IterateStep, SnapshotStep, RunEndsStep, RunThrowsStep DEF MessageStep
  <2>2. phase' = phase
    BY <1>4 DEF Iterate, Snapshot, RunEnds, RunThrows
  <2>3. QED
    BY <2>1, <2>2 DEF OverStaysOver
<1>5. ~ClearFollowupQueue
  BY DEF ClearFollowupQueue, NothingIsDropped
<1>6. CASE UNCHANGED vars
  <2>1. UNCHANGED <<current, queue, accepted, ran>> /\ drain' = drain /\ phase' = phase
    BY <1>6 DEF vars
  <2>2. QED
    BY <2>1, PipelineStep DEF MessageStep, OverStaysOver
<1>7. QED
  BY <1>2, <1>3, <1>4, <1>5, <1>6 DEF Next

-----------------------------------------------------------------------------
(* What became of the messages. *)

(* No delivery is accepted twice.                                           *)
AcceptedOnce ==
    /\ \A i \in 1..Len(accepted) : phase[accepted[i]] = "over"
    /\ \A i, k \in 1..Len(accepted) : accepted[i] = accepted[k] => i = k

(* The items of the queue are the last of the accepted messages; the others *)
(* were answered.                                                           *)
Gone == Len(accepted) - Len(Held)
HeldIsSuffix ==
    /\ Gone \in Nat
    /\ \A i \in 1..Len(Held) : Held[i] = accepted[Gone + i]
    /\ \A i \in 1..Gone : accepted[i] \in ran

(* Answers are given to accepted messages, to the oldest ones first.        *)
AnsweredIsPrefix ==
    /\ \A d \in ran : \E i \in 1..Len(accepted) : accepted[i] = d
    /\ \A i, k \in 1..Len(accepted) : i < k /\ accepted[k] \in ran => accepted[i] \in ran

HistoryInv == AcceptedOnce /\ HeldIsSuffix /\ AnsweredIsPrefix

LEMMA TurnHistory ==
    ASSUME TypeOK, HistoryInv, NEW n \in 1..Len(Held), Turn(n), OverStaysOver
    PROVE  HistoryInv'
<1>1. Held \in Seq(Deliveries) /\ accepted \in Seq(Deliveries)
  BY HeldType DEF TypeOK
<1>2. /\ ran' = ran \cup {Held[i] : i \in 1..n}
      /\ Held' = Held /\ accepted' = accepted /\ Gone' = Gone
  BY DEF Turn, Gone
<1>3. AcceptedOnce'
  BY <1>1, <1>2 DEF HistoryInv, AcceptedOnce, OverStaysOver
<1>4. HeldIsSuffix'
  BY <1>1, <1>2 DEF HistoryInv, HeldIsSuffix
<1>5. Gone \in Nat /\ Len(accepted) = Gone + Len(Held)
  BY <1>1 DEF HistoryInv, HeldIsSuffix, Gone
<1>6. \A i \in 1..n : Held[i] = accepted[Gone + i] /\ Gone + i \in 1..Len(accepted)
  BY <1>1, <1>5 DEF HistoryInv, HeldIsSuffix
<1>7. \A d \in ran' : \E i \in 1..Len(accepted) : accepted[i] = d
  BY <1>2, <1>6 DEF HistoryInv, AnsweredIsPrefix
<1>8. ASSUME NEW i \in 1..Len(accepted), NEW k \in 1..Len(accepted), i < k, accepted[k] \in ran'
      PROVE  accepted[i] \in ran'
  <2>1. CASE accepted[k] \in ran
    BY <1>2, <1>8, <2>1 DEF HistoryInv, AnsweredIsPrefix
  <2>2. CASE accepted[k] \notin ran
    <3>1. PICK j \in 1..n : accepted[k] = Held[j]
      BY <1>2, <1>8, <2>2
    <3>2. k = Gone + j
      BY <1>6, <3>1 DEF HistoryInv, AcceptedOnce
    <3>3. CASE i <= Gone
      BY <1>2, <1>5, <3>3 DEF HistoryInv, HeldIsSuffix
    <3>4. CASE i > Gone
      <4>1. i - Gone \in 1..n /\ Gone + (i - Gone) = i
        BY <1>5, <1>8, <3>2, <3>4
      <4>2. accepted[i] = Held[i - Gone]
        BY <1>6, <4>1
      <4>3. QED
        BY <1>2, <4>1, <4>2
    <3>5. QED
      BY <1>5, <3>3, <3>4
  <2>3. QED
    BY <2>1, <2>2
<1>9. AnsweredIsPrefix'
  BY <1>2, <1>7, <1>8 DEF AnsweredIsPrefix
<1>10. QED
  BY <1>3, <1>4, <1>9 DEF HistoryInv

LEMMA LeaveHistory ==
    ASSUME TypeOK, HistoryInv, NEW n \in 1..Len(Held), Leave(n), OverStaysOver
    PROVE  HistoryInv'
<1>1. Held \in Seq(Deliveries) /\ accepted \in Seq(Deliveries)
  BY HeldType DEF TypeOK
<1>2. /\ Held' = SubSeq(Held, n + 1, Len(Held)) /\ accepted' = accepted /\ ran' = ran
      /\ \A i \in 1..n : Held[i] \in ran
  BY DEF Leave
<1>3. AcceptedOnce' /\ AnsweredIsPrefix'
  BY <1>1, <1>2 DEF HistoryInv, AcceptedOnce, AnsweredIsPrefix, OverStaysOver
<1>4. /\ Len(Held') = Len(Held) - n
      /\ \A i \in 1..(Len(Held) - n) : Held'[i] = Held[n + i]
  BY <1>1, <1>2, SuffixFacts
<1>5. Gone' = Gone + n
  <2>1. Len(accepted') = Len(accepted) /\ Len(accepted) \in Nat /\ Len(Held) \in Nat /\ n \in Nat
    BY <1>1, <1>2
  <2>2. Gone' = Len(accepted') - Len(Held')
    BY DEF Gone
  <2>3. QED
    BY <1>4, <2>1, <2>2 DEF Gone
<1>6. Gone \in Nat
  BY DEF HistoryInv, HeldIsSuffix
<1>7. ASSUME NEW i \in 1..Len(Held') PROVE Held'[i] = accepted'[Gone' + i]
  <2>1. Held'[i] = Held[n + i] /\ n + i \in 1..Len(Held)
    BY <1>1, <1>4, <1>7
  <2>2. Held[n + i] = accepted[Gone + (n + i)]
    BY <2>1 DEF HistoryInv, HeldIsSuffix
  <2>3. Gone + (n + i) = Gone' + i
    BY <1>1, <1>4, <1>5, <1>6
  <2>4. QED
    BY <1>2, <2>1, <2>2, <2>3
<1>8. ASSUME NEW i \in 1..Gone' PROVE accepted'[i] \in ran'
  <2>1. CASE i <= Gone
    BY <1>2, <1>6, <2>1 DEF HistoryInv, HeldIsSuffix
  <2>2. CASE i > Gone
    <3>1. i - Gone \in 1..n /\ i - Gone \in 1..Len(Held) /\ Gone + (i - Gone) = i
      BY <1>1, <1>5, <1>6, <2>2
    <3>2. accepted[i] = Held[i - Gone]
      BY <3>1 DEF HistoryInv, HeldIsSuffix
    <3>3. QED
      BY <1>2, <3>1, <3>2
  <2>3. QED
    BY <1>6, <2>1, <2>2
<1>9. HeldIsSuffix'
  BY <1>5, <1>6, <1>7, <1>8 DEF HeldIsSuffix
<1>10. QED
  BY <1>3, <1>9 DEF HistoryInv

LEMMA TakeHistory ==
    ASSUME TypeOK, HistoryInv, NEW d \in Deliveries, Take(d), OverStaysOver
    PROVE  HistoryInv'
<1>1. Held \in Seq(Deliveries) /\ accepted \in Seq(Deliveries)
  BY HeldType DEF TypeOK
<1>2. /\ phase[d] # "over" /\ phase'[d] = "over" /\ ran' = ran
      /\ Held' = Append(Held, d) /\ accepted' = Append(accepted, d)
  BY DEF Take
<1>3. /\ Len(accepted') = Len(accepted) + 1 /\ Len(Held') = Len(Held) + 1
      /\ \A i \in 1..Len(accepted) : accepted'[i] = accepted[i]
      /\ \A i \in 1..Len(Held) : Held'[i] = Held[i]
      /\ accepted'[Len(accepted) + 1] = d /\ Held'[Len(Held) + 1] = d
  BY <1>1, <1>2
<1>4. \A i \in 1..Len(accepted) : accepted[i] # d
  BY <1>2 DEF HistoryInv, AcceptedOnce
<1>5. d \notin ran
  BY <1>4 DEF HistoryInv, AnsweredIsPrefix
<1>6. Gone' = Gone /\ Gone \in Nat /\ Len(accepted) = Gone + Len(Held)
  BY <1>1, <1>3 DEF Gone, HistoryInv, HeldIsSuffix
<1>7. \A i \in 1..Len(accepted') : i \in 1..Len(accepted) \/ i = Len(accepted) + 1
  BY <1>1, <1>3
<1>8. AcceptedOnce'
  <2>1. \A i \in 1..Len(accepted') : phase'[accepted'[i]] = "over"
    BY <1>1, <1>2, <1>3, <1>7 DEF HistoryInv, AcceptedOnce, OverStaysOver
  <2>2. \A i, k \in 1..Len(accepted') : accepted'[i] = accepted'[k] => i = k
    BY <1>3, <1>4, <1>7 DEF HistoryInv, AcceptedOnce
  <2>3. QED
    BY <2>1, <2>2 DEF AcceptedOnce
<1>9. HeldIsSuffix'
  <2>1. ASSUME NEW i \in 1..Len(Held') PROVE Held'[i] = accepted'[Gone' + i]
    <3>1. CASE i \in 1..Len(Held)
      <4>1. Gone + i \in 1..Len(accepted)
        BY <1>1, <1>6, <3>1
      <4>2. QED
        BY <1>3, <1>6, <3>1, <4>1 DEF HistoryInv, HeldIsSuffix
    <3>2. CASE i = Len(Held) + 1
      <4>1. Gone' + i = Len(accepted) + 1
        BY <1>1, <1>6, <3>2
      <4>2. QED
        BY <1>3, <3>2, <4>1
    <3>3. QED
      BY <1>1, <1>3, <3>1, <3>2
  <2>2. \A i \in 1..Gone' : accepted'[i] \in ran'
    <3>1. \A i \in 1..Gone' : i \in 1..Len(accepted)
      BY <1>1, <1>6
    <3>2. QED
      BY <1>2, <1>3, <1>6, <3>1 DEF HistoryInv, HeldIsSuffix
  <2>3. QED
    BY <1>6, <2>1, <2>2 DEF HeldIsSuffix
<1>10. AnsweredIsPrefix'
  <2>1. \A e \in ran' : \E i \in 1..Len(accepted') : accepted'[i] = e
    <3>1. \A i \in 1..Len(accepted) : i \in 1..Len(accepted')
      BY <1>1, <1>3
    <3>2. QED
      BY <1>2, <1>3, <3>1 DEF HistoryInv, AnsweredIsPrefix
  <2>2. ASSUME NEW i \in 1..Len(accepted'), NEW k \in 1..Len(accepted'), i < k, accepted'[k] \in ran'
        PROVE  accepted'[i] \in ran'
    <3>1. k \in 1..Len(accepted)
      BY <1>2, <1>3, <1>5, <1>7, <2>2
    <3>2. i \in 1..Len(accepted)
      BY <1>1, <2>2, <3>1
    <3>3. QED
      BY <1>2, <1>3, <2>2, <3>1, <3>2 DEF HistoryInv, AnsweredIsPrefix
  <2>3. QED
    BY <2>1, <2>2 DEF AnsweredIsPrefix
<1>11. QED
  BY <1>8, <1>9, <1>10 DEF HistoryInv

LEMMA HistoryStep == TypeOK /\ HistoryInv /\ MessageStep /\ OverStaysOver => HistoryInv'
<1> SUFFICES ASSUME TypeOK, HistoryInv, MessageStep, OverStaysOver PROVE HistoryInv'
  OBVIOUS
<1>1. CASE Idle
  <2>1. Held' = Held /\ accepted' = accepted /\ ran' = ran /\ Gone' = Gone
    BY <1>1 DEF Idle, Gone
  <2>2. accepted \in Seq(Deliveries)
    BY DEF TypeOK
  <2>3. AcceptedOnce'
    BY <2>1, <2>2 DEF HistoryInv, AcceptedOnce, OverStaysOver
  <2>4. HeldIsSuffix' /\ AnsweredIsPrefix'
    BY <2>1 DEF HistoryInv, HeldIsSuffix, AnsweredIsPrefix
  <2>5. QED
    BY <2>3, <2>4 DEF HistoryInv
<1>2. QED
  BY <1>1, TurnHistory, LeaveHistory, TakeHistory DEF MessageStep

-----------------------------------------------------------------------------
(* The theorems about a queue without drops and clears. *)

InboxInv == TypeOK /\ ControlInv /\ HistoryInv

LEMMA InboxInvInit == Init => InboxInv
<1> SUFFICES ASSUME Init PROVE InboxInv
  OBVIOUS
<1>1. /\ current = NoQueue /\ accepted = <<>> /\ ran = {} /\ Held = <<>>
      /\ drain = [q \in Queues |-> NotDraining] /\ \A q \in Queues : queue[q].droppedCount = 0
  BY DEF Init, Held
<1>2. ControlInv
  BY <1>1 DEF ControlInv, SingleDrain, NoneDropped, TurnsAreFront, Running, NotDraining
<1>3. HistoryInv
  BY <1>1 DEF HistoryInv, AcceptedOnce, HeldIsSuffix, AnsweredIsPrefix, Gone
<1>4. QED
  BY <1>2, <1>3, TypeInit DEF InboxInv

LEMMA InboxInvStep == NothingIsDropped /\ InboxInv /\ [Next]_vars => InboxInv'
  BY Step, TypeStep, HistoryStep DEF InboxInv

LEMMA InboxInvHolds == ASSUME NothingIsDropped PROVE Spec => []InboxInv
<1>1. InboxInv /\ [Next]_vars => InboxInv'
  BY InboxInvStep
<1>2. QED
  BY <1>1, InboxInvInit, PTL DEF Spec

LEMMA HistoryMeansNothingLost == InboxInv => NothingLost /\ RunsInOrder
<1> SUFFICES ASSUME InboxInv PROVE NothingLost /\ RunsInOrder
  OBVIOUS
<1>1. Held \in Seq(Deliveries) /\ accepted \in Seq(Deliveries)
  BY HeldType DEF InboxInv, TypeOK
<1>2. Gone \in Nat /\ Len(accepted) = Gone + Len(Held)
  BY <1>1 DEF InboxInv, HistoryInv, HeldIsSuffix, Gone
<1>3. ASSUME NEW d \in ToSet(accepted)
      PROVE  d \in ran \cup told \cup given \/ \E q \in Reachable : d \in Known(queue[q])
  <2>1. PICK i \in 1..Len(accepted) : d = accepted[i]
    BY <1>3 DEF ToSet
  <2>2. CASE i <= Gone
    BY <1>2, <2>1, <2>2 DEF InboxInv, HistoryInv, HeldIsSuffix
  <2>3. CASE i > Gone
    <3>1. i - Gone \in 1..Len(Held) /\ Gone + (i - Gone) = i
      BY <1>1, <1>2, <2>3
    <3>2. d = Held[i - Gone]
      BY <2>1, <3>1 DEF InboxInv, HistoryInv, HeldIsSuffix
    <3>3. current # NoQueue
      BY <3>1 DEF Held
    <3>4. current \in Reachable /\ Held = queue[current].items
      BY <3>3 DEF Reachable, Held, InboxInv, TypeOK
    <3>5. d \in Known(queue[current])
      BY <3>1, <3>2, <3>4 DEF Known, ToSet
    <3>6. QED
      BY <3>4, <3>5
  <2>4. QED
    BY <1>2, <2>2, <2>3
<1>4. RunsInOrder
  BY DEF RunsInOrder, InboxInv, HistoryInv, AnsweredIsPrefix
<1>5. QED
  BY <1>3, <1>4 DEF NothingLost

(* An accepted message is never lost silently, and none overtakes another,  *)
(* whatever fails and however the settings change.                          *)
THEOREM AcceptedIsKept == ASSUME NothingIsDropped PROVE Spec => []NothingLost
  BY HistoryMeansNothingLost, InboxInvHolds, PTL

THEOREM AnswersInOrder == ASSUME NothingIsDropped PROVE Spec => []RunsInOrder
  BY HistoryMeansNothingLost, InboxInvHolds, PTL

(* The queue of a session is an inbox.                                      *)
THEOREM QueueIsInbox == ASSUME NothingIsDropped PROVE Spec => ImplementsInbox
<1>1. Init => Inbox!Init
  BY DEF Init, Inbox!Init, Held
<1>2. InboxInv /\ [Next]_vars => [Inbox!Next]_(Inbox!inboxVars)
  <2> SUFFICES ASSUME InboxInv, [Next]_vars PROVE [Inbox!Next]_(Inbox!inboxVars)
    OBVIOUS
  <2>1. MessageStep
    BY Step DEF InboxInv
  <2>2. CASE Idle
    BY <2>2 DEF Idle, Inbox!inboxVars
  <2>3. ASSUME NEW n \in 1..Len(Held), Turn(n) PROVE Inbox!Next
    BY <2>3 DEF Turn, Inbox!Next, Inbox!BeginTurn, Inbox!First
  <2>4. ASSUME NEW n \in 1..Len(Held), Leave(n) PROVE Inbox!Next
    BY <2>4 DEF Leave, Inbox!Next, Inbox!EndTurn, Inbox!First
  <2>5. ASSUME NEW d \in Deliveries, Take(d) PROVE Inbox!Next
    BY <2>5 DEF Take, Inbox!Next, Inbox!Accept
  <2>6. QED
    BY <2>1, <2>2, <2>3, <2>4, <2>5 DEF MessageStep
<1>3. QED
  BY <1>1, <1>2, InboxInvHolds, PTL DEF Spec, ImplementsInbox, Inbox!Spec

-----------------------------------------------------------------------------
(* What was given up stays unanswered: every instance, with clears, late    *)
(* decisions and dropping policies.  A message is known to one queue object *)
(* at most, and to none once it was given up; so an object that a drain     *)
(* still holds after a clear has nothing to run but what came later.        *)

GivenIsOver == \A d \in given : phase[d] = "over"

KnownIsHeld ==
    \A q \in Queues : \A d \in Known(queue[q]) : phase[d] = "over" /\ d \notin given

KnownOnce == \A p, q \in Queues : p # q => Known(queue[p]) \cap Known(queue[q]) = {}

GivenUpInv == GivenIsOver /\ KnownIsHeld /\ KnownOnce

LEMMA SubsetOfRange ==
    ASSUME NEW S, NEW s \in Seq(S), NEW m \in Int, NEW n \in Int, 1 <= m, n <= Len(s)
    PROVE  ToSet(SubSeq(s, m, n)) \subseteq ToSet(s)
<1>1. \A i \in m..n : s[i] \in S
  OBVIOUS
<1>2. /\ SubSeq(s, m, n) \in Seq(S)
      /\ Len(SubSeq(s, m, n)) = IF m <= n THEN n - m + 1 ELSE 0
      /\ \A i \in 1..(n - m + 1) : SubSeq(s, m, n)[i] = s[m + i - 1]
  BY <1>1, SubSeqProperties
<1>3. ASSUME NEW x \in ToSet(SubSeq(s, m, n)) PROVE x \in ToSet(s)
  <2>1. PICK i \in 1..Len(SubSeq(s, m, n)) : x = SubSeq(s, m, n)[i]
    BY <1>2 DEF ToSet
  <2>2. m <= n /\ i \in 1..(n - m + 1) /\ m + i - 1 \in 1..Len(s)
    BY <1>2, <2>1
  <2>3. QED
    BY <1>2, <2>1, <2>2 DEF ToSet
<1>4. QED
  BY <1>3

LEMMA RangeOfConcat ==
    ASSUME NEW S, NEW s \in Seq(S), NEW t \in Seq(S)
    PROVE  ToSet(s \o t) \subseteq ToSet(s) \cup ToSet(t)
<1>1. ASSUME NEW x \in ToSet(s \o t) PROVE x \in ToSet(s) \cup ToSet(t)
  <2>1. PICK i \in 1..Len(s \o t) : x = (s \o t)[i]
    BY <1>1, ConcatProperties DEF ToSet
  <2>2. /\ Len(s \o t) = Len(s) + Len(t)
        /\ (s \o t)[i] = IF i <= Len(s) THEN s[i] ELSE t[i - Len(s)]
    BY <2>1, ConcatProperties
  <2>3. i <= Len(s) => i \in 1..Len(s)
    BY <2>1
  <2>4. i > Len(s) => i - Len(s) \in 1..Len(t)
    BY <2>1, <2>2
  <2>5. QED
    BY <2>1, <2>2, <2>3, <2>4 DEF ToSet
<1>2. QED
  BY <1>1

LEMMA RangeOfAppend ==
    ASSUME NEW S, NEW s \in Seq(S), NEW x \in S
    PROVE  ToSet(Append(s, x)) \subseteq ToSet(s) \cup {x}
<1>1. \A i \in 1..Len(Append(s, x)) : Append(s, x)[i] \in ToSet(s) \cup {x}
  BY AppendProperties DEF ToSet
<1>2. QED
  BY <1>1, AppendProperties DEF ToSet

(* Making room forgets deliveries and comes to know none.                   *)
LEMMA RoomKnowsLess == ASSUME NEW Q \in QueueState PROVE Known(MakeRoom(Q)) \subseteq Known(Q)
<1> DEFINE n == Overflow(Q)
           kept == [Q EXCEPT !.items = SubSeq(Q.items, n + 1, Len(Q.items))]
           head == SubSeq(Q.items, 1, n)
           all == Q.summaryLines \o head
           surplus == IF Len(all) > Q.settings.cap THEN Len(all) - Q.settings.cap ELSE 0
           lines == SubSeq(all, surplus + 1, Len(all))
           told2 == [kept EXCEPT !.droppedCount = @ + n, !.summaryLines = lines]
<1>1. /\ Q.items \in Seq(Deliveries) /\ Q.summaryLines \in Seq(Deliveries)
      /\ Q.settings.cap \in Nat \ {0}
  BY SettingsAssumption DEF QueueState
<1>2. n \in Int /\ n <= Len(Q.items)
  BY <1>1 DEF Overflow
<1>3. CASE n <= 0
  BY <1>2, <1>3 DEF MakeRoom
<1>4. CASE n > 0
  <2>1. ToSet(SubSeq(Q.items, n + 1, Len(Q.items))) \subseteq ToSet(Q.items)
    BY <1>1, <1>2, <1>4, SubsetOfRange
  <2>2. head \in Seq(Deliveries)
    BY <1>1, <1>2, <1>4, PrefixFacts
  <2>3. ToSet(head) \subseteq ToSet(Q.items)
    BY <1>1, <1>2, <1>4, SubsetOfRange
  <2>4. all \in Seq(Deliveries) /\ ToSet(all) \subseteq ToSet(Q.summaryLines) \cup ToSet(head)
    BY <1>1, <2>2, ConcatProperties, RangeOfConcat
  <2>5. surplus + 1 \in Int /\ Len(all) \in Int /\ 1 <= surplus + 1
    BY <1>1, <2>4
  <2>6. ToSet(lines) \subseteq ToSet(all)
    <3> HIDE DEF all, surplus
    <3>1. QED
      BY <2>4, <2>5, SubsetOfRange
  <2>7. MakeRoom(Q) = IF Q.settings.drop # "summarize" THEN kept ELSE told2
    BY <1>2, <1>4 DEF MakeRoom
  <2>8. /\ kept.items = SubSeq(Q.items, n + 1, Len(Q.items))
        /\ kept.summaryLines = Q.summaryLines
        /\ told2.items = SubSeq(Q.items, n + 1, Len(Q.items))
        /\ told2.summaryLines = lines
    <3> HIDE DEF lines, n
    <3>1. QED
      BY DEF QueueState
  <2> HIDE DEF kept, told2, lines, all, head, n
  <2>9. QED
    BY <2>1, <2>3, <2>4, <2>6, <2>7, <2>8 DEF Known
<1>5. QED
  BY <1>2, <1>3, <1>4

(* A step that leaves every queue object with no more than it knew, and     *)
(* gives up only what it takes out of all objects, keeps the invariant.     *)
LEMMA LessKnownKeeps ==
    ASSUME GivenUpInv,
           \A q \in Queues : Known(queue'[q]) \subseteq Known(queue[q]),
           \A d \in given' \ given : \E q \in Queues : d \in Known(queue[q]) \ Known(queue'[q]),
           \A d \in Deliveries : phase[d] = "over" => phase'[d] = "over",
           \A q \in Queues : Known(queue[q]) \subseteq Deliveries, given \subseteq Deliveries
    PROVE  GivenUpInv'
<1>1. GivenIsOver'
  BY DEF GivenUpInv, GivenIsOver, KnownIsHeld
<1>2. KnownOnce'
  BY DEF GivenUpInv, KnownOnce
<1>3. KnownIsHeld'
  <2> SUFFICES ASSUME NEW q \in Queues, NEW d \in Known(queue'[q])
               PROVE  phase'[d] = "over" /\ d \notin given'
    BY DEF KnownIsHeld
  <2>1. d \in Known(queue[q]) /\ phase[d] = "over" /\ d \notin given /\ d \in Deliveries
    BY DEF GivenUpInv, KnownIsHeld
  <2>2. \A p \in Queues : d \in Known(queue[p]) => p = q
    BY <2>1 DEF GivenUpInv, KnownOnce
  <2>3. QED
    BY <2>1, <2>2
<1>4. QED
  BY <1>1, <1>2, <1>3 DEF GivenUpInv

LEMMA NoQueueForgets ==
    ASSUME TypeOK, GivenUpInv, UNCHANGED <<queue, given>>,
           \A d \in Deliveries : phase[d] = "over" => phase'[d] = "over"
    PROVE  GivenUpInv'
<1>1. given \subseteq Deliveries
  BY DEF TypeOK
<1>2. QED
  BY <1>1, KnownType, LessKnownKeeps

(* What the queue object of an enqueue knows before, with the new settings,   *)
(* with room made, and with the message in it.                                *)
Asked(s) == [QueueFor(s).state EXCEPT !.lastRun = TRUE]
Roomy(s) == MakeRoom(Asked(s))
Taken(d, s) == [Roomy(s) EXCEPT !.items = Append(@, d)]

LEMMA EnqueueKnows ==
    ASSUME TypeOK, NEW d \in Deliveries, NEW s \in Settings, current # NoQueue \/ Free # {}
    PROVE  /\ Known(QueueFor(s).state) =
                 IF current # NoQueue THEN Known(queue[QueueFor(s).id]) ELSE {}
           /\ Known(Asked(s)) = Known(QueueFor(s).state)
           /\ Known(Roomy(s)) \subseteq Known(Asked(s))
           /\ Known(Taken(d, s)) \subseteq Known(Roomy(s)) \cup {d}
<1>1. QueueFor(s).id \in Queues /\ QueueFor(s).state \in QueueState
  BY QueueForType
<1>2. Asked(s) \in QueueState /\ Known(Asked(s)) = Known(QueueFor(s).state)
  BY <1>1 DEF Asked, QueueState, Known
<1>3. Roomy(s) \in QueueState /\ Known(Roomy(s)) \subseteq Known(Asked(s))
  BY <1>2, MakeRoomType, RoomKnowsLess DEF Roomy
<1>4. Known(Taken(d, s)) \subseteq Known(Roomy(s)) \cup {d}
  <2>1. Roomy(s).items \in Seq(Deliveries)
    BY <1>3 DEF QueueState
  <2>2. /\ Taken(d, s).items = Append(Roomy(s).items, d)
        /\ Taken(d, s).summaryLines = Roomy(s).summaryLines
    BY <1>3 DEF QueueState, Taken
  <2>3. ToSet(Append(Roomy(s).items, d)) \subseteq ToSet(Roomy(s).items) \cup {d}
    BY <2>1, RangeOfAppend
  <2>4. QED
    BY <2>2, <2>3 DEF Known
<1>5. Known(QueueFor(s).state) = IF current # NoQueue THEN Known(queue[QueueFor(s).id]) ELSE {}
  <2>1. CASE current # NoQueue
    <3>1. queue[current] \in QueueState
      BY <2>1 DEF TypeOK
    <3>2. /\ QueueFor(s).id = current
          /\ QueueFor(s).state = [queue[current] EXCEPT !.settings = s]
      BY <2>1 DEF QueueFor
    <3>3. QED
      BY <2>1, <3>1, <3>2 DEF QueueState, Known
  <2>2. CASE current = NoQueue
    <3>1. QueueFor(s).state.items = <<>> /\ QueueFor(s).state.summaryLines = <<>>
      BY <2>2 DEF QueueFor
    <3>2. QED
      BY <2>2, <3>1 DEF Known, ToSet
  <2>3. QED
    BY <2>1, <2>2
<1>6. QED
  BY <1>2, <1>3, <1>4, <1>5

LEMMA EnqueueGives ==
    ASSUME TypeOK, GivenUpInv, NEW d \in Deliveries, Enqueue(d)
    PROVE  GivenUpInv'
<1>1. PICK s \in Settings : EnqueueFollowupRun(d, s)
  BY DEF Enqueue
<1> DEFINE q == QueueFor(s).id
<1>2. q \in Queues
  BY <1>1, QueueForType DEF EnqueueFollowupRun
<1>3. /\ Known(QueueFor(s).state) \subseteq Known(queue[q])
      /\ Known(Asked(s)) = Known(QueueFor(s).state)
      /\ Known(Roomy(s)) \subseteq Known(Asked(s))
      /\ Known(Taken(d, s)) \subseteq Known(Roomy(s)) \cup {d}
  BY <1>1, EnqueueKnows DEF EnqueueFollowupRun
<1>7. phase[d] # "over" /\ phase' = [phase EXCEPT ![d] = "over"] /\ phase \in [Deliveries -> Phases]
  BY <1>1 DEF Enqueue, EnqueueFollowupRun, TypeOK
<1>8. \/ queue' = [queue EXCEPT ![q] = QueueFor(s).state] /\ UNCHANGED given
      \/ queue' = [queue EXCEPT ![q] = Asked(s)] /\ UNCHANGED given
      \/ /\ queue' = [queue EXCEPT ![q] = Taken(d, s)]
         /\ given' = given \cup (Known(Asked(s)) \ Known(Roomy(s)))
  BY <1>1 DEF EnqueueFollowupRun, Asked, Roomy, Taken
<1> HIDE DEF q
<1>9. \A p \in Queues : d \notin Known(queue[p])
  BY <1>7 DEF GivenUpInv, KnownIsHeld
<1>10. d \notin given
  BY <1>7 DEF GivenUpInv, GivenIsOver
<1>11. q \in Queues /\ \A p \in Queues : p # q => queue'[p] = queue[p]
  BY <1>2, <1>8 DEF TypeOK
<1>12. /\ Known(queue'[q]) \subseteq Known(queue[q]) \cup {d}
       /\ \A e \in given' \ given : e \in Known(queue[q]) /\ e \notin Known(queue'[q])
  <2>1. queue'[q] \in {QueueFor(s).state, Asked(s), Taken(d, s)}
    BY <1>2, <1>8 DEF TypeOK
  <2>2. CASE UNCHANGED given
    BY <1>3, <2>1, <2>2
  <2>3. CASE queue'[q] = Taken(d, s) /\ given' = given \cup (Known(Asked(s)) \ Known(Roomy(s)))
    BY <1>3, <1>9, <1>11, <2>3
  <2>4. QED
    BY <1>2, <1>8, <2>2, <2>3 DEF TypeOK
<1>13. GivenIsOver'
  BY <1>7, <1>11, <1>12, KnownType DEF GivenUpInv, GivenIsOver, KnownIsHeld, TypeOK
<1>14. KnownIsHeld'
  <2> SUFFICES ASSUME NEW p \in Queues, NEW e \in Known(queue'[p])
               PROVE  phase'[e] = "over" /\ e \notin given'
    BY DEF KnownIsHeld
  <2>1. CASE e = d
    <3>1. e \notin Known(queue[q])
      BY <2>1, <1>9, <1>11
    <3>2. QED
      BY <2>1, <3>1, <1>7, <1>10, <1>12
  <2>2. CASE e # d
    <3>1. e \in Known(queue[p])
      BY <2>2, <1>11, <1>12
    <3>2. phase[e] = "over" /\ e \notin given /\ e \in Deliveries
      BY <3>1, KnownType DEF GivenUpInv, KnownIsHeld
    <3>3. e \notin given'
      <4>1. CASE p = q
        BY <4>1, <3>2, <1>12
      <4>2. CASE p # q
        BY <4>2, <3>1, <3>2, <1>11, <1>12 DEF GivenUpInv, KnownOnce
      <4>3. QED
        BY <4>1, <4>2
    <3>4. QED
      BY <3>2, <3>3, <1>7
  <2>3. QED
    BY <2>1, <2>2
<1>15. KnownOnce'
  BY <1>9, <1>11, <1>12 DEF GivenUpInv, KnownOnce
<1>16. QED
  BY <1>13, <1>14, <1>15 DEF GivenUpInv

(* The end of a run removes items, never adds one.                            *)
LEMMA RunEndsKnowsLess ==
    ASSUME TypeOK, NEW q \in Queues, RunEnds(q)
    PROVE  \A p \in Queues : Known(queue'[p]) \subseteq Known(queue[p])
<1> DEFINE items == queue[q].items
           rest == SubSeq(items, Served(q) + 1, Len(items))
<1>1. queue[q] \in QueueState /\ items \in Seq(Deliveries) /\ Served(q) \in Nat
  BY DEF TypeOK, QueueState, DrainState, Served
<1>2. ToSet(rest) \subseteq ToSet(items)
  BY <1>1, SubsetOfRange
<1>3. \/ queue' = [queue EXCEPT ![q] = [queue[q] EXCEPT !.items = rest]]
      \/ queue' = [queue EXCEPT ![q] = [queue[q] EXCEPT !.items = rest, !.droppedCount = 0,
                                                        !.summaryLines = <<>>]]
  BY DEF RunEnds
<1>4. Known(queue'[q]) \subseteq Known(queue[q])
  <2> HIDE DEF rest, items
  <2>1. queue'[q].items = rest /\ queue'[q].summaryLines \in {queue[q].summaryLines, <<>>}
    BY <1>1, <1>3 DEF TypeOK, QueueState
  <2>2. ToSet(<<>>) = {}
    BY DEF ToSet
  <2>3. QED
    BY <1>2, <2>1, <2>2 DEF Known, items
<1>5. \A p \in Queues : p # q => queue'[p] = queue[p]
  BY <1>3 DEF TypeOK
<1>6. QED
  BY <1>4, <1>5

LEMMA RunEndsGives ==
    ASSUME TypeOK, GivenUpInv, NEW q \in Queues, RunEnds(q)
    PROVE  GivenUpInv'
<1>1. UNCHANGED <<phase, given>> /\ given \subseteq Deliveries
  BY DEF RunEnds, TypeOK
<1>2. QED
  BY <1>1, RunEndsKnowsLess, KnownType, LessKnownKeeps

LEMMA ClearGives == ASSUME TypeOK, GivenUpInv, ClearFollowupQueue PROVE GivenUpInv'
<1>1. /\ current \in Queues /\ queue[current] \in QueueState /\ given \subseteq Deliveries
      /\ queue' = [queue EXCEPT ![current] = EmptyItems(queue[current])]
      /\ given' = given \cup Known(queue[current]) /\ UNCHANGED phase
  BY DEF ClearFollowupQueue, TypeOK
<1>2. Known(EmptyItems(queue[current])) = {}
  BY <1>1 DEF EmptyItems, Known, ToSet, QueueState
<1>3. Known(queue'[current]) = {} /\ \A p \in Queues : p # current => queue'[p] = queue[p]
  BY <1>1, <1>2 DEF TypeOK
<1>4. QED
  BY <1>1, <1>3, KnownType, LessKnownKeeps

LEMMA GivenUpStep == TypeOK /\ GivenUpInv /\ [Next]_vars => GivenUpInv'
<1> SUFFICES ASSUME TypeOK, GivenUpInv, [Next]_vars PROVE GivenUpInv'
  OBVIOUS
<1>1. ASSUME NEW d \in Deliveries, RunNow(d) \/ SeesActive(d) \/ Pipeline(d) \/ MainThrows(d)
      PROVE  GivenUpInv'
  <2>1. /\ \E p \in Phases : phase' = [phase EXCEPT ![d] = p]
        /\ phase[d] # "over" /\ UNCHANGED <<queue, given>>
    BY <1>1, PipelineFacts DEF Pipeline
  <2>2. \A e \in Deliveries : phase[e] = "over" => phase'[e] = "over"
    BY <2>1 DEF TypeOK
  <2>3. QED
    BY <2>1, <2>2, NoQueueForgets
<1>2. ASSUME NEW d \in Deliveries, Enqueue(d) PROVE GivenUpInv'
  BY <1>2, EnqueueGives
<1>3. ASSUME NEW q \in Queues, Iterate(q) \/ Snapshot(q) \/ RunThrows(q) PROVE GivenUpInv'
  <2>1. UNCHANGED <<queue, given, phase>>
    BY <1>3 DEF Iterate, Snapshot, RunThrows
  <2>2. QED
    BY <2>1, NoQueueForgets
<1>4. ASSUME NEW q \in Queues, RunEnds(q) PROVE GivenUpInv'
  BY <1>4, RunEndsGives
<1>5. CASE ClearFollowupQueue
  BY <1>5, ClearGives
<1>6. CASE UNCHANGED vars
  BY <1>6, NoQueueForgets DEF vars
<1>7. QED
  BY <1>1, <1>2, <1>3, <1>4, <1>5, <1>6 DEF Next

LEMMA GivenUpInit == Init => GivenUpInv
<1> SUFFICES ASSUME Init PROVE GivenUpInv
  OBVIOUS
<1>1. given = {} /\ \A q \in Queues : queue[q].items = <<>> /\ queue[q].summaryLines = <<>>
  BY DEF Init
<1>2. \A q \in Queues : Known(queue[q]) = {}
  BY <1>1 DEF Known, ToSet
<1>3. QED
  BY <1>1, <1>2 DEF GivenUpInv, GivenIsOver, KnownIsHeld, KnownOnce

(* What a prompt newly contains was in the queue object it is made from.    *)
LEMMA PromptIsKnown ==
    ASSUME TypeOK, [Next]_vars
    PROVE  \A d \in (ran' \cup told') \ (ran \cup told) : \E q \in Queues : d \in Known(queue[q])
<1> DEFINE new == (ran' \cup told') \ (ran \cup told)
<1>1. ASSUME NEW q \in Queues, Iterate(q) \/ Snapshot(q) PROVE new \subseteq Known(queue[q])
  <2>1. queue[q].items \in Seq(Deliveries)
    BY DEF TypeOK, QueueState
  <2>2. ASSUME NEW at, NEW force, NEW batch, NEW lines, StartRun(q, at, force, batch, lines),
               ToSet(batch) \subseteq ToSet(queue[q].items),
               ToSet(lines) \subseteq ToSet(queue[q].summaryLines)
        PROVE  new \subseteq Known(queue[q])
    BY <2>2 DEF StartRun, Known
  <2>3. ToSet(<<>>) = {}
    BY DEF ToSet
  <2>4. ASSUME NEW force, RunNextItem(q, force) PROVE new \subseteq Known(queue[q])
    <3>1. CASE queue[q].items = <<>>
      BY <2>4, <3>1 DEF RunNextItem
    <3>2. CASE queue[q].items # <<>>
      <4>1. StartRun(q, "item", force, <<Head(queue[q].items)>>, <<>>)
        BY <2>4, <3>2 DEF RunNextItem
      <4>2. ToSet(<<Head(queue[q].items)>>) \subseteq ToSet(queue[q].items)
        BY <2>1, <3>2 DEF ToSet
      <4>3. QED
        BY <2>2, <2>3, <4>1, <4>2
    <3>3. QED
      BY <3>1, <3>2
  <2>5. CASE Iterate(q)
    BY <2>2, <2>3, <2>4, <2>5 DEF Iterate, IterateCollect, IterateFollowup
  <2>6. CASE Snapshot(q)
    <3>1. CASE queue[q].items = <<>> /\ ~queue[q].lastRun
      BY <2>6, <3>1 DEF Snapshot
    <3>2. CASE ~(queue[q].items = <<>> /\ ~queue[q].lastRun)
      BY <2>2, <2>3, <2>6, <3>2 DEF Snapshot
    <3>3. QED
      BY <3>1, <3>2
  <2>7. QED
    BY <1>1, <2>5, <2>6
<1>2. ASSUME ~(\E q \in Queues : Iterate(q) \/ Snapshot(q)) PROVE new = {}
  <2>1. UNCHANGED <<ran, told>>
    BY <1>2 DEF Next, RunNow, SeesActive, Enqueue, Pipeline, AgentStarts, MainEnds,
                FinalizeWithFollowup, MainThrows, RunEnds, RunThrows, ClearFollowupQueue, vars
  <2>2. QED
    BY <2>1
<1>3. QED
  BY <1>1, <1>2

(* A message that was cleared, or dropped by the policy, gets into no later *)
(* prompt, whatever is cleared under whichever drain.                       *)
THEOREM GivenUpStaysUnanswered == Spec => GivenUpIsNotRun
<1>1. TypeOK /\ GivenUpInv /\ [Next]_vars
          => [given \cap ((ran' \cup told') \ (ran \cup told)) = {}]_vars
  BY PromptIsKnown DEF GivenUpInv, KnownIsHeld
<1>2. QED
  BY <1>1, TypeInit, TypeStep, GivenUpInit, GivenUpStep, PTL DEF Spec, GivenUpIsNotRun

-----------------------------------------------------------------------------
(* Who runs what is queued: every instance.  A driver may only be missing     *)
(* for messages that no run was there for when they were enqueued, or whose   *)
(* main run threw.                                                            *)

(* A driver is a drain of the session's queue, or a main run that will start  *)
(* one; it stays one as long as neither of the two ends.                      *)
LEMMA DriverStays ==
    ASSUME TypeOK, PendingHasDriver, UNCHANGED <<current, phase, orphaned>>,
           \A q \in Queues : drain[q].at # "none" => drain'[q].at # "none",
           \A q \in Queues : Known(queue'[q]) \subseteq Known(queue[q])
    PROVE  PendingHasDriver'
  BY DEF PendingHasDriver, HasDriver, TypeOK

(* The end of a drain starts a drain of the session's queue, or leaves the    *)
(* session without a queue; the queue may be another one than the drain's.    *)
LEMMA FinallyDrives ==
    ASSUME TypeOK, NEW q \in Queues, Finally(q)
    PROVE  PendingHasDriver'
<1> DEFINE stopped == [drain EXCEPT ![q] = NotDraining]
<1>1. CASE Pending(q) /\ current # NoQueue
  <2>1. current \in Queues /\ current' = current /\ drain' = ScheduleFollowupDrain(current, stopped)
    BY <1>1 DEF Finally, TypeOK
  <2>2. drain'[current].at # "none"
    BY <1>1, <2>1 DEF ScheduleFollowupDrain, NewDrain, NotDraining, TypeOK
  <2>3. QED
    BY <1>1, <2>1, <2>2 DEF PendingHasDriver, HasDriver
<1>2. CASE ~Pending(q) \/ current = NoQueue
  BY <1>2 DEF Finally, PendingHasDriver
<1>3. QED
  BY <1>1, <1>2

(* A step of a drain that does not end it.                                    *)
LEMMA GoingOnDrives ==
    ASSUME TypeOK, PendingHasDriver, NEW q \in Queues, drain[q].at # "none", UNCHANGED
           <<current, queue, phase, orphaned>>, NEW st, drain' = [drain EXCEPT ![q] = st],
           st.at # "none"
    PROVE  PendingHasDriver'
<1>1. \A p \in Queues : drain[p].at # "none" => drain'[p].at # "none"
  BY DEF TypeOK
<1>2. QED
  BY <1>1, DriverStays

LEMMA StartRunDrives ==
    ASSUME TypeOK, PendingHasDriver, NEW q \in Queues, drain[q].at # "none",
           UNCHANGED <<queue, phase, orphaned>>,
           NEW at \in {"collect", "item", "summary"}, NEW force, NEW batch, NEW summary,
           StartRun(q, at, force, batch, summary)
    PROVE  PendingHasDriver'
  BY GoingOnDrives DEF StartRun

LEMMA DrainDrives ==
    ASSUME TypeOK, PendingHasDriver, NEW q \in Queues,
           Iterate(q) \/ Snapshot(q) \/ RunEnds(q) \/ RunThrows(q)
    PROVE  PendingHasDriver'
<1>1. drain[q].at # "none" /\ UNCHANGED <<phase, orphaned>>
  BY DEF Iterate, Snapshot, RunEnds, RunThrows, Running
<1>2. ASSUME NEW force, RunNextItem(q, force), UNCHANGED queue PROVE PendingHasDriver'
  BY <1>1, <1>2, FinallyDrives, StartRunDrives DEF RunNextItem
<1>3. CASE Iterate(q)
  <2>1. UNCHANGED queue
    BY <1>3 DEF Iterate
  <2>2. ASSUME drain' = [drain EXCEPT ![q].at = "checked"], UNCHANGED current
        PROVE  PendingHasDriver'
    <3>1. drain' = [drain EXCEPT ![q] = [drain[q] EXCEPT !.at = "checked"]]
      BY <2>2
    <3>2. [drain[q] EXCEPT !.at = "checked"].at # "none"
      BY DEF TypeOK, DrainState
    <3>3. QED
      BY <1>1, <2>1, <2>2, <3>1, <3>2, GoingOnDrives
  <2>3. IterateCollect(q) => PendingHasDriver'
    BY <1>2, <2>1, <2>2 DEF IterateCollect
  <2>4. IterateFollowup(q) => PendingHasDriver'
    BY <1>1, <1>2, <2>1, FinallyDrives, StartRunDrives DEF IterateFollowup
  <2>5. QED
    BY <1>3, <2>3, <2>4, FinallyDrives DEF Iterate
<1>4. CASE Snapshot(q)
  BY <1>1, <1>4, FinallyDrives, StartRunDrives DEF Snapshot
<1>5. CASE RunEnds(q)
  <2>1. /\ UNCHANGED <<current, phase, orphaned>>
        /\ drain' = [drain EXCEPT ![q] = [NewDrain EXCEPT !.force = drain[q].force]]
    BY <1>5 DEF RunEnds
  <2>2. \A p \in Queues : drain[p].at # "none" => drain'[p].at # "none"
    BY <2>1 DEF TypeOK, NewDrain, NotDraining
  <2>3. QED
    BY <1>5, <2>1, <2>2, DriverStays, RunEndsKnowsLess
<1>6. CASE RunThrows(q)
  BY <1>6, FinallyDrives DEF RunThrows
<1>7. QED
  BY <1>3, <1>4, <1>5, <1>6

(* A message is queued behind an active run, a main run or one of the drain   *)
(* of its queue, or it is orphaned; it takes nobody's driver away.            *)
LEMMA EnqueueDrives ==
    ASSUME TypeOK, PendingHasDriver, NEW d \in Deliveries, Enqueue(d)
    PROVE  PendingHasDriver'
<1>1. PICK s \in Settings : EnqueueFollowupRun(d, s)
  BY DEF Enqueue
<1> DEFINE q == QueueFor(s).id
<1>2. q \in Queues /\ current' = q /\ UNCHANGED drain
  BY <1>1, QueueForType DEF Enqueue, EnqueueFollowupRun
<1>3. \A e \in Deliveries : phase[e] \in {"starting", "main", "finishing"} => phase'[e] = phase[e]
  BY <1>1 DEF Enqueue, EnqueueFollowupRun, TypeOK
<1>4. current # NoQueue => q = current
  BY DEF QueueFor
<1>5. HasDriver => HasDriver'
  BY <1>2, <1>3, <1>4 DEF HasDriver
<1> DEFINE old == IF current # NoQueue THEN Known(queue[q]) ELSE {}
<1>6. \/ Known(queue'[q]) \subseteq old /\ UNCHANGED orphaned
      \/ /\ Known(queue'[q]) \subseteq old \cup {d}
         /\ MainIsActive \/ Running(q) \/ orphaned' = orphaned \cup {d}
  <2>1. \/ queue' = [queue EXCEPT ![q] = QueueFor(s).state] /\ UNCHANGED orphaned
        \/ queue' = [queue EXCEPT ![q] = Asked(s)] /\ UNCHANGED orphaned
        \/ /\ queue' = [queue EXCEPT ![q] = Taken(d, s)]
           /\ MainIsActive \/ Running(q) \/ orphaned' = orphaned \cup {d}
    BY <1>1 DEF EnqueueFollowupRun, Asked, Roomy, Taken
  <2>2. /\ Known(QueueFor(s).state) = old
        /\ Known(Asked(s)) = Known(QueueFor(s).state)
        /\ Known(Roomy(s)) \subseteq Known(Asked(s))
        /\ Known(Taken(d, s)) \subseteq Known(Roomy(s)) \cup {d}
    BY <1>1, EnqueueKnows DEF EnqueueFollowupRun
  <2> HIDE DEF q, old
  <2>3. QED
    BY <1>2, <2>1, <2>2 DEF TypeOK
<1>7. orphaned \subseteq orphaned'
  BY <1>1 DEF EnqueueFollowupRun
<1>8. CASE MainIsActive \/ Running(q)
  <2>1. Running(q) => drain'[q].at # "none"
    BY <1>2 DEF Running
  <2>2. MainIsActive => HasDriver'
    BY <1>3 DEF MainIsActive, HasDriver
  <2>3. QED
    BY <1>2, <1>8, <2>1, <2>2 DEF PendingHasDriver, HasDriver
<1>9. CASE ~(MainIsActive \/ Running(q))
  <2>1. CASE current = NoQueue
    BY <1>2, <1>6, <1>9, <2>1 DEF PendingHasDriver
  <2>2. CASE current # NoQueue
    BY <1>2, <1>4, <1>5, <1>6, <1>7, <1>9, <2>2 DEF PendingHasDriver
  <2>3. QED
    BY <2>1, <2>2
<1>10. QED
  BY <1>8, <1>9

(* A main run hands its role on, to its own next part and then to a drain;    *)
(* one that throws orphans what is queued.                                    *)
LEMMA PipelineDrives ==
    ASSUME TypeOK, PendingHasDriver, NEW d \in Deliveries,
           RunNow(d) \/ SeesActive(d) \/ Pipeline(d) \/ MainThrows(d)
    PROVE  PendingHasDriver'
<1>1. CASE FinalizeWithFollowup(d)
  <2>1. drain' = ScheduleFollowupDrain(current, drain) /\ UNCHANGED current
    BY <1>1 DEF FinalizeWithFollowup
  <2>2. current # NoQueue => drain'[current].at # "none"
    BY <2>1 DEF ScheduleFollowupDrain, NewDrain, NotDraining, TypeOK
  <2>3. QED
    BY <2>1, <2>2 DEF PendingHasDriver, HasDriver
<1>2. CASE RunNow(d) \/ AgentStarts(d) \/ MainEnds(d)
  <2>1. phase'[d] \in {"starting", "main", "finishing"}
    BY <1>2 DEF RunNow, AgentStarts, MainEnds, TypeOK
  <2>2. QED
    BY <2>1 DEF PendingHasDriver, HasDriver
<1>3. CASE SeesActive(d)
  <2>1. UNCHANGED <<current, queue, drain, orphaned>>
    BY <1>3 DEF SeesActive
  <2>2. \A e \in Deliveries : phase[e] \in {"starting", "main", "finishing"} => phase'[e] = phase[e]
    BY <1>3 DEF SeesActive, TypeOK
  <2>3. QED
    BY <2>1, <2>2 DEF PendingHasDriver, HasDriver
<1>4. CASE MainThrows(d)
  BY <1>4 DEF MainThrows, PendingHasDriver
<1>5. QED
  BY <1>1, <1>2, <1>3, <1>4 DEF Pipeline

(* Whatever is queued has a drain that will run it or a main run whose end    *)
(* starts one, through clears, drains of replaced queues, failed followup     *)
(* runs, dropped messages, late decisions and main runs that throw; only      *)
(* where the queue holds nothing but messages that came too late for the run  *)
(* they were to follow, or that stood behind a main run that threw, nobody    *)
(* may be there.                                                              *)
THEOREM QueuedIsDriven == Spec => []PendingHasDriver
<1>1. Init => PendingHasDriver
  BY DEF Init, PendingHasDriver
<1>2. TypeOK /\ PendingHasDriver /\ [Next]_vars => PendingHasDriver'
  <2> SUFFICES ASSUME TypeOK, PendingHasDriver, [Next]_vars PROVE PendingHasDriver'
    OBVIOUS
  <2>1. CASE ClearFollowupQueue
    BY <2>1 DEF ClearFollowupQueue, PendingHasDriver
  <2>2. CASE UNCHANGED vars
    BY <2>2 DEF vars, PendingHasDriver, HasDriver
  <2>3. QED
    BY <2>1, <2>2, DrainDrives, EnqueueDrives, PipelineDrives DEF Next
<1>3. QED
  BY <1>1, <1>2, TypeCorrect, PTL DEF Spec

=============================================================================
