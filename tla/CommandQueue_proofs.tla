------------------------- MODULE CommandQueue_proofs -------------------------
(***************************************************************************)
(* Proofs about CommandQueue, for every set of lanes and jobs.             *)
(*                                                                         *)
(* The safety properties follow from one inductive invariant, IndInv.  Its *)
(* heart is the pair DrainingHasOwner / NoLostWakeup: whoever makes a lane *)
(* startable leaves a pump loop of it on the call stack, and a pump loop   *)
(* leaves the stack only when its lane is no longer startable.             *)
(***************************************************************************)
EXTENDS CommandQueue, FiniteSetTheorems, SequenceTheorems, WellFoundedInduction, TLAPS

(* What a call stack says about the jobs in its frames. *)
FramesMatch(s) ==
    \A i \in 1..Len(s) :
        /\ s[i].kind = "task" => i = Len(s) /\ s[i].job \in Jobs /\ job[s[i].job] = "running"
        /\ s[i].kind = "pump" /\ s[i].job # NoJob => job[s[i].job] = "settling"
        /\ \A k \in 1..Len(s) : s[i].job = s[k].job /\ s[i].job # NoJob => i = k

FramesMatchJobs == FramesMatch(stack)

(* An inner entry is enqueued by the synchronous prefix of its task, not before. *)
InnerIsNew ==
    \A j \in Jobs : Inner[j] # NoJob /\ (job[j] \in {"new", "queued"} \/ InTask(j)) =>
                        job[Inner[j]] = "new"

(* Tasks carry a generation their lane has had. *)
GenerationsGrow == \A j \in Jobs : taskGeneration[j] <= generation[LaneOf[j]]

(* A lane nobody tunes has at most one task in its slots. *)
OneSlotPerSession ==
    \A l \in Lanes :
        /\ IsFiniteSet(activeTaskIds[l])
        /\ l \notin TunedLanes => maxConcurrent[l] = 1
        /\ l \notin TunedLanes => \A j, k \in activeTaskIds[l] : j = k

IndInv == /\ TypeOK
          /\ FramesMatchJobs
          /\ InnerIsNew
          /\ QueueMatchesJobs
          /\ SlotsMatchTasks
          /\ DrainingHasOwner
          /\ NoLostWakeup
          /\ GenerationsGrow
          /\ OneSlotPerSession

-----------------------------------------------------------------------------
(* The call stack. *)

(* Pushing a frame. *)
LEMMA PushFacts ==
    ASSUME NEW s \in Seq(Frame), NEW f \in Frame
    PROVE  /\ Append(s, f) \in Seq(Frame)
           /\ Append(s, f) # <<>>
           /\ Len(Append(s, f)) = Len(s) + 1
           /\ Last(Append(s, f)) = f
           /\ \A i \in 1..Len(s) : Append(s, f)[i] = s[i]
           /\ Append(s, f)[Len(s) + 1] = f
  BY DEF Last

(* Popping a frame. *)
LEMMA PopFacts ==
    ASSUME NEW s \in Seq(Frame), s # <<>>
    PROVE  /\ Front(s) \in Seq(Frame)
           /\ Len(s) \in Nat \ {0}
           /\ Len(Front(s)) = Len(s) - 1
           /\ \A i \in 1..(Len(s) - 1) : Front(s)[i] = s[i]
           /\ Last(s) = s[Len(s)]
           /\ Last(s) \in Frame
<1>1. Len(s) \in Nat \ {0} /\ s \in [1..Len(s) -> Frame]
  BY EmptySeq, LenProperties
<1>2. /\ Front(s) \in Seq(Frame)
      /\ Len(Front(s)) = Len(s) - 1
      /\ \A i \in 1..(Len(s) - 1) : Front(s)[i] = s[i]
  <2>1. Len(s) - 1 \in Int /\ \A i \in 1..(Len(s) - 1) : s[i] \in Frame
    BY <1>1
  <2>2. /\ SubSeq(s, 1, Len(s) - 1) \in Seq(Frame)
        /\ Len(SubSeq(s, 1, Len(s) - 1)) =
               IF 1 <= Len(s) - 1 THEN Len(s) - 1 - 1 + 1 ELSE 0
        /\ \A i \in 1..(Len(s) - 1 - 1 + 1) : SubSeq(s, 1, Len(s) - 1)[i] = s[1 + i - 1]
    BY <2>1, SubSeqProperties, 1 \in Int
  <2>3. QED
    BY <1>1, <2>2 DEF Front
<1>3. QED
  BY <1>1, <1>2 DEF Last

(* A pushed frame adds the pump loop it is, and hides none. *)
LEMMA HasPumpPush ==
    ASSUME NEW s \in Seq(Frame), NEW f \in Frame, NEW l
    PROVE  HasPump(Append(s, f), l) <=> HasPump(s, l) \/ (f.kind = "pump" /\ f.lane = l)
  BY PushFacts DEF HasPump

(* Popping takes away the pump loop that the innermost frame is. *)
LEMMA HasPumpPop ==
    ASSUME NEW s \in Seq(Frame), s # <<>>, NEW l
    PROVE  HasPump(s, l) <=>
               HasPump(Front(s), l) \/ (Last(s).kind = "pump" /\ Last(s).lane = l)
<1>1. ASSUME HasPump(s, l)
      PROVE  HasPump(Front(s), l) \/ (Last(s).kind = "pump" /\ Last(s).lane = l)
  <2>1. PICK i \in 1..Len(s) : s[i].kind = "pump" /\ s[i].lane = l
    BY <1>1 DEF HasPump
  <2>2. CASE i = Len(s)
    BY <2>1, <2>2, PopFacts
  <2>3. CASE i # Len(s)
    <3>1. i \in 1..Len(Front(s)) /\ Front(s)[i] = s[i]
      BY <2>3, PopFacts
    <3>2. QED
      BY <2>1, <3>1 DEF HasPump
  <2>4. QED
    BY <2>2, <2>3
<1>2. ASSUME HasPump(Front(s), l)
      PROVE  HasPump(s, l)
  <2>1. PICK i \in 1..Len(Front(s)) : Front(s)[i].kind = "pump" /\ Front(s)[i].lane = l
    BY <1>2 DEF HasPump
  <2>2. i \in 1..Len(s) /\ Front(s)[i] = s[i]
    BY PopFacts
  <2>3. QED
    BY <2>1, <2>2 DEF HasPump
<1>3. ASSUME Last(s).kind = "pump", Last(s).lane = l
      PROVE  HasPump(s, l)
  BY <1>3, PopFacts DEF HasPump
<1>4. QED
  BY <1>1, <1>2, <1>3

-----------------------------------------------------------------------------
(* Callbacks and task prefixes call into the queue with a stack of pump     *)
(* loops only: the empty one, or what is below the frame of the task.       *)

Context(s) ==
    /\ s \in Seq(Frame)
    /\ \A i \in 1..Len(s) : s[i].kind = "pump"
    /\ FramesMatch(s)
    /\ \A l \in Lanes : draining[l] => HasPump(s, l)
    /\ \A l \in Lanes : CanStart(l) => HasPump(s, l) \/ l \in lanesToDrain

LEMMA EventLoopContext ==
    ASSUME IndInv, stack = <<>>
    PROVE  Context(stack)
  BY DEF IndInv, TypeOK, Context, FramesMatch, DrainingHasOwner, NoLostWakeup, Pumping, HasPump

LEMMA TaskContext ==
    ASSUME IndInv, NEW j, InTask(j)
    PROVE  /\ Context(Front(stack))
           /\ j \in Jobs
           /\ job[j] = "running"
           /\ \A i \in 1..Len(Front(stack)) : Front(stack)[i].job # j
<1> DEFINE s == Front(stack)
<1>1. /\ stack \in Seq(Frame)
      /\ stack # <<>>
      /\ FramesMatch(stack)
      /\ NoJob \notin Jobs
  BY NoJobAssumption DEF IndInv, TypeOK, InTask, FramesMatchJobs
<1>2. /\ s \in Seq(Frame)
      /\ Len(stack) \in Nat \ {0}
      /\ Len(s) = Len(stack) - 1
      /\ \A i \in 1..Len(s) : s[i] = stack[i]
      /\ stack[Len(stack)].kind = "task" /\ stack[Len(stack)].job = j
  BY <1>1, PopFacts DEF InTask
<1>3. j \in Jobs /\ job[j] = "running"
  BY <1>1, <1>2 DEF FramesMatch
<1>4. \A i \in 1..Len(s) : s[i] = stack[i] /\ i \in 1..Len(stack) /\ i # Len(stack)
  BY <1>2
<1>5. \A i \in 1..Len(s) : s[i].kind = "pump" /\ s[i].job # j
  <2>1. \A i \in 1..Len(s) : stack[i] \in Frame
    BY <1>1, <1>4
  <2>2. QED
    BY <1>1, <1>2, <1>3, <1>4, <2>1 DEF FramesMatch, Frame
<1>6. FramesMatch(s)
  BY <1>1, <1>4, <1>5 DEF FramesMatch
<1>7. \A l : HasPump(stack, l) => HasPump(s, l)
  BY <1>1, HasPumpPop DEF InTask
<1>8. QED
  BY <1>2, <1>3, <1>5, <1>6, <1>7
     DEF IndInv, Context, DrainingHasOwner, NoLostWakeup, Pumping

LEMMA PumpFrameType ==
    ASSUME NEW l \in Lanes, NEW j \in Jobs \cup {NoJob}
    PROVE  /\ PumpFrame(l, j) \in Frame
           /\ PumpFrame(l, j).kind = "pump"
           /\ PumpFrame(l, j).lane = l
           /\ PumpFrame(l, j).job = j
  BY DEF PumpFrame, Frame

(* drainLane keeps the pump loops there are, and leaves one for its lane. *)
LEMMA DrainLaneFacts ==
    ASSUME NEW l \in Lanes, NEW s, Context(s), draining \in [Lanes -> BOOLEAN], DrainLane(l, s)
    PROVE  /\ stack' \in Seq(Frame)
           /\ draining' \in [Lanes -> BOOLEAN]
           /\ \A m : HasPump(s, m) => HasPump(stack', m)
           /\ HasPump(stack', l)
           /\ \A m \in Lanes : draining'[m] => HasPump(stack', m)
           /\ \A i \in 1..Len(stack') : stack'[i].kind = "pump"
           /\ FramesMatch(stack')
<1>1. CASE draining[l]
  BY <1>1 DEF DrainLane, Context
<1>2. CASE ~draining[l]
  <2>1. /\ s \in Seq(Frame)
        /\ PumpFrame(l, NoJob) \in Frame
        /\ stack' = Append(s, PumpFrame(l, NoJob))
        /\ draining' = [draining EXCEPT ![l] = TRUE]
    BY <1>2, PumpFrameType DEF DrainLane, Context
  <2>2. \A m : HasPump(stack', m) <=> HasPump(s, m) \/ m = l
    BY <2>1, HasPumpPush, PumpFrameType
  <2>3. \A m \in Lanes : draining'[m] => HasPump(stack', m)
    BY <2>1, <2>2 DEF Context
  <2>4. /\ Len(stack') = Len(s) + 1
        /\ Len(s) \in Nat
        /\ \A i \in 1..Len(s) : stack'[i] = s[i]
        /\ stack'[Len(s) + 1].kind = "pump"
        /\ stack'[Len(s) + 1].job = NoJob
    BY <2>1, PushFacts, PumpFrameType
  <2>5. \A i \in 1..Len(stack') : stack'[i].kind = "pump"
    BY <2>4 DEF Context
  <2>6. FramesMatch(stack')
    <3>1. \A i \in 1..Len(stack') : i \in 1..Len(s) \/ i = Len(s) + 1
      BY <2>4
    <3>2. FramesMatch(s)
      BY DEF Context
    <3>3. \A i \in 1..Len(stack') : stack'[i].job # NoJob => i \in 1..Len(s)
      BY <2>4, <3>1
    <3>4. QED
      BY <2>4, <2>5, <3>2, <3>3 DEF FramesMatch
  <2>7. QED
    BY <2>1, <2>2, <2>3, <2>5, <2>6, PushFacts
<1>3. QED
  BY <1>1, <1>2

-----------------------------------------------------------------------------
(* enqueueCommandInLane, whoever calls it.  The job must be one that nobody *)
(* else will enqueue: no task that is still to run has it as inner entry.   *)

LEMMA EnqueueInd ==
    ASSUME IndInv, NEW j \in Jobs, NEW s, Context(s),
           job[j] = "new",
           \A k \in Jobs : Inner[k] = j => job[k] \notin {"new", "queued"},
           EnqueueCommandInLane(j, s),
           UNCHANGED <<activeTaskIds, maxConcurrent, generation, gatewayDraining,
                       taskGeneration, lanesToDrain>>
    PROVE  IndInv'
<1> DEFINE l == LaneOf[j]
<1>1. TypeOK /\ l \in Lanes /\ NoJob \notin Jobs
  BY LaneOfAssumption, NoJobAssumption DEF IndInv
<1>2. /\ \A i \in 1..Len(stack') : stack'[i].kind = "pump"
      /\ FramesMatch(stack')
      /\ stack' \in Seq(Frame)
      /\ draining' \in [Lanes -> BOOLEAN]
      /\ \A m : HasPump(s, m) => HasPump(stack', m)
      /\ \A m \in Lanes : draining'[m] => HasPump(stack', m)
      /\ ~gatewayDraining => HasPump(stack', l)
  BY <1>1, DrainLaneFacts DEF EnqueueCommandInLane, Context, TypeOK
<1>3. /\ queue' = IF gatewayDraining THEN queue ELSE [queue EXCEPT ![l] = Append(@, j)]
      /\ job' = [job EXCEPT ![j] = IF gatewayDraining THEN "refused" ELSE "queued"]
  BY DEF EnqueueCommandInLane
<1>4. TypeOK'
  <2>1. /\ queue \in [Lanes -> Seq(Jobs)]
        /\ job \in [Jobs -> JobState]
        /\ {"refused", "queued"} \subseteq JobState
    BY <1>1 DEF TypeOK, JobState
  <2>2. queue' \in [Lanes -> Seq(Jobs)]
    BY <1>1, <1>3, <2>1
  <2>3. job' \in [Jobs -> JobState]
    BY <1>3, <2>1
  <2>4. QED
    BY <1>1, <1>2, <2>2, <2>3 DEF TypeOK
<1>5. FramesMatchJobs'
  <2>1. \A i \in 1..Len(stack') : stack'[i].job # NoJob => stack'[i].job # j
    BY <1>2 DEF FramesMatch
  <2>2. \A i \in 1..Len(stack') : stack'[i].job # NoJob => job'[stack'[i].job] = job[stack'[i].job]
    <3>1. \A i \in 1..Len(stack') : stack'[i] \in Frame
      BY <1>2
    <3>2. \A i \in 1..Len(stack') : stack'[i].job # NoJob => stack'[i].job \in Jobs
      BY <3>1 DEF Frame
    <3>3. job \in [Jobs -> JobState]
      BY <1>1 DEF TypeOK
    <3>4. QED
      BY <1>3, <2>1, <3>2, <3>3
  <2>3. QED
    BY <1>2, <2>2 DEF FramesMatch, FramesMatchJobs
<1>6. InnerIsNew'
  <2>1. \A k : ~InTask(k)'
    <3>1. stack' # <<>> => Last(stack').kind = "pump"
      BY <1>2, PopFacts
    <3>2. QED
      BY <3>1 DEF InTask
  <2>2. \A k \in Jobs : job'[k] \in {"new", "queued"} => job[k] \in {"new", "queued"}
    BY <1>1, <1>3 DEF TypeOK
  <2>3. SUFFICES ASSUME NEW k \in Jobs, Inner[k] # NoJob, job'[k] \in {"new", "queued"}
                 PROVE  job'[Inner[k]] = "new"
    BY <2>1 DEF InnerIsNew
  <2>4. job[Inner[k]] = "new" /\ Inner[k] # j
    BY <2>2, <2>3 DEF IndInv, InnerIsNew
  <2>5. QED
    BY <1>1, <1>3, <2>3, <2>4, InnerAssumption DEF TypeOK
<1>7. QueueMatchesJobs'
  <2>1. QueueMatchesJobs /\ queue \in [Lanes -> Seq(Jobs)] /\ job \in [Jobs -> JobState]
    BY <1>1 DEF IndInv, TypeOK
  <2>2. CASE gatewayDraining
    <3>1. queue' = queue /\ \A k \in Jobs : job'[k] = "queued" <=> job[k] = "queued"
      BY <1>3, <2>1, <2>2
    <3>2. SUFFICES ASSUME NEW m \in Lanes
                   PROVE  /\ \A i \in 1..Len(queue'[m]) :
                                 LaneOf[queue'[m][i]] = m /\ job'[queue'[m][i]] = "queued"
                          /\ \A i, k \in 1..Len(queue'[m]) : queue'[m][i] = queue'[m][k] => i = k
                          /\ \A k \in Jobs : LaneOf[k] = m /\ job'[k] = "queued" =>
                                 \E i \in 1..Len(queue'[m]) : queue'[m][i] = k
      BY DEF QueueMatchesJobs
    <3>3. queue'[m] = queue[m] /\ \A i \in 1..Len(queue[m]) : queue[m][i] \in Jobs
      BY <2>1, <3>1
    <3>4. QED
      BY <2>1, <3>1, <3>3 DEF QueueMatchesJobs
  <2>3. CASE ~gatewayDraining
    <3>1. SUFFICES ASSUME NEW m \in Lanes
                   PROVE  /\ \A i \in 1..Len(queue'[m]) :
                                 LaneOf[queue'[m][i]] = m /\ job'[queue'[m][i]] = "queued"
                          /\ \A i, k \in 1..Len(queue'[m]) : queue'[m][i] = queue'[m][k] => i = k
                          /\ \A k \in Jobs : LaneOf[k] = m /\ job'[k] = "queued" =>
                                 \E i \in 1..Len(queue'[m]) : queue'[m][i] = k
      BY DEF QueueMatchesJobs
    <3>2. /\ \A i \in 1..Len(queue[m]) : queue[m][i] \in Jobs /\ queue[m][i] # j
          /\ Len(queue[m]) \in Nat
      BY <2>1 DEF QueueMatchesJobs
    <3>3. job' = [job EXCEPT ![j] = "queued"]
      BY <1>3, <2>3
    <3>4. CASE m # l
      <4>1. queue'[m] = queue[m]
        BY <1>3, <2>1, <2>3, <3>4
      <4>2. QED
        BY <2>1, <3>2, <3>3, <3>4, <4>1 DEF QueueMatchesJobs
    <3>5. CASE m = l
      <4>1. /\ Len(queue'[m]) = Len(queue[m]) + 1
            /\ \A i \in 1..Len(queue[m]) : queue'[m][i] = queue[m][i]
            /\ queue'[m][Len(queue[m]) + 1] = j
        BY <1>1, <1>3, <2>1, <2>3, <3>5, AppendProperties
      <4>2. \A i \in 1..Len(queue'[m]) : i \in 1..Len(queue[m]) \/ i = Len(queue[m]) + 1
        BY <3>2, <4>1
      <4>3. \A i \in 1..Len(queue'[m]) : LaneOf[queue'[m][i]] = m /\ job'[queue'[m][i]] = "queued"
        BY <2>1, <3>2, <3>3, <3>5, <4>1, <4>2 DEF QueueMatchesJobs
      <4>4. \A i, k \in 1..Len(queue'[m]) : queue'[m][i] = queue'[m][k] => i = k
        BY <2>1, <3>2, <4>1, <4>2 DEF QueueMatchesJobs
      <4>5. \A k \in Jobs : LaneOf[k] = m /\ job'[k] = "queued" =>
                 \E i \in 1..Len(queue'[m]) : queue'[m][i] = k
        <5>1. SUFFICES ASSUME NEW k \in Jobs, LaneOf[k] = m, job'[k] = "queued"
                       PROVE  \E i \in 1..Len(queue'[m]) : queue'[m][i] = k
          OBVIOUS
        <5>2. CASE k = j
          BY <3>2, <4>1, <5>2
        <5>3. CASE k # j
          <6>1. job[k] = "queued"
            BY <2>1, <3>3, <5>1, <5>3
          <6>2. PICK i \in 1..Len(queue[m]) : queue[m][i] = k
            BY <2>1, <5>1, <6>1 DEF QueueMatchesJobs
          <6>3. i \in 1..Len(queue'[m]) /\ queue'[m][i] = k
            BY <3>2, <4>1, <6>2
          <6>4. QED
            BY <6>3
        <5>4. QED
          BY <5>2, <5>3
      <4>6. QED
        BY <4>3, <4>4, <4>5
    <3>6. QED
      BY <3>4, <3>5
  <2>4. QED
    BY <2>2, <2>3
<1>8. SlotsMatchTasks'
  BY <1>1, <1>3 DEF IndInv, SlotsMatchTasks, TypeOK
<1>9. DrainingHasOwner'
  BY <1>2 DEF DrainingHasOwner, Pumping
<1>10. NoLostWakeup'
  <2>1. \A m \in Lanes : CanStart(m)' => (m = l /\ ~gatewayDraining) \/ CanStart(m)
    BY <1>1, <1>3 DEF CanStart, TypeOK
  <2>2. QED
    BY <1>2, <2>1 DEF NoLostWakeup, Pumping, Context
<1>11. GenerationsGrow' /\ OneSlotPerSession'
  BY DEF IndInv, GenerationsGrow, OneSlotPerSession
<1>12. QED
  BY <1>4, <1>5, <1>6, <1>7, <1>8, <1>9, <1>10, <1>11 DEF IndInv

-----------------------------------------------------------------------------
(* completeTask and the pump() after it, from a callback or a task prefix.  *)

LEMMA CompleteInd ==
    ASSUME IndInv, NEW j \in Jobs, NEW s, Context(s),
           job[j] = "running",
           \A i \in 1..Len(s) : s[i].job # j,
           CompleteTask(j, s),
           UNCHANGED <<queue, maxConcurrent, draining, generation, gatewayDraining,
                       taskGeneration, lanesToDrain>>
    PROVE  IndInv'
<1> DEFINE l == LaneOf[j]
           current == taskGeneration[j] = generation[l]
<1>1. TypeOK /\ l \in Lanes /\ NoJob \notin Jobs /\ s \in Seq(Frame) /\ Len(s) \in Nat
  BY LaneOfAssumption, NoJobAssumption DEF IndInv, Context
<1>2. /\ activeTaskIds' = IF current THEN [activeTaskIds EXCEPT ![l] = @ \ {j}] ELSE activeTaskIds
      /\ job' = [job EXCEPT ![j] = IF current THEN "settling" ELSE "settled"]
      /\ stack' = IF current THEN Append(s, PumpFrame(l, j)) ELSE s
  BY <1>1 DEF CompleteTask, TypeOK
<1>3. /\ PumpFrame(l, j) \in Frame
      /\ PumpFrame(l, j).kind = "pump"
      /\ PumpFrame(l, j).lane = l
      /\ PumpFrame(l, j).job = j
  BY <1>1, PumpFrameType
<1>4. /\ stack' \in Seq(Frame)
      /\ \A m : HasPump(s, m) => HasPump(stack', m)
      /\ current => HasPump(stack', l)
  BY <1>1, <1>2, <1>3, PushFacts, HasPumpPush
<1>5. /\ \A i \in 1..Len(s) : stack'[i] = s[i]
      /\ \A i \in 1..Len(stack') : i \in 1..Len(s) \/ i = Len(s) + 1
      /\ \A i \in 1..Len(stack') : i = Len(s) + 1 => current /\ stack'[i] = PumpFrame(l, j)
  <2>1. CASE current
    BY <1>1, <1>2, <1>3, <2>1, PushFacts
  <2>2. CASE ~current
    BY <1>1, <1>2, <2>2
  <2>3. QED
    BY <2>1, <2>2
<1>6. \A i \in 1..Len(stack') : stack'[i].kind = "pump"
  BY <1>3, <1>5 DEF Context
<1>7. TypeOK'
  <2>1. job' \in [Jobs -> JobState]
    BY <1>1, <1>2 DEF TypeOK, JobState
  <2>2. activeTaskIds' \in [Lanes -> SUBSET Jobs]
    BY <1>1, <1>2 DEF TypeOK
  <2>3. QED
    BY <1>1, <1>4, <2>1, <2>2 DEF TypeOK
<1>8. FramesMatchJobs'
  <2>1. SUFFICES ASSUME NEW i \in 1..Len(stack')
                 PROVE  /\ stack'[i].job # NoJob => job'[stack'[i].job] = "settling"
                        /\ \A k \in 1..Len(stack') :
                               stack'[i].job = stack'[k].job /\ stack'[i].job # NoJob => i = k
    BY <1>6 DEF FramesMatchJobs, FramesMatch
  <2>2. \A k \in 1..Len(s) : /\ s[k].job \in Jobs \cup {NoJob}
                             /\ s[k].job # j
                             /\ s[k].job # NoJob => job[s[k].job] = "settling"
    <3>1. \A k \in 1..Len(s) : s[k] \in Frame
      BY <1>1
    <3>2. QED
      BY <3>1 DEF Context, FramesMatch, Frame
  <2>3. stack'[i].job # NoJob => job'[stack'[i].job] = "settling"
    <3>1. CASE i \in 1..Len(s)
      BY <1>1, <1>2, <1>5, <2>2, <3>1 DEF TypeOK
    <3>2. CASE i = Len(s) + 1
      BY <1>1, <1>2, <1>3, <1>5, <3>2 DEF TypeOK
    <3>3. QED
      BY <1>5, <3>1, <3>2
  <2>4. ASSUME NEW k \in 1..Len(stack'), stack'[i].job = stack'[k].job, stack'[i].job # NoJob
        PROVE  i = k
    <3>1. CASE i \in 1..Len(s) /\ k \in 1..Len(s)
      BY <1>5, <2>4, <3>1 DEF Context, FramesMatch
    <3>2. CASE ~(i \in 1..Len(s) /\ k \in 1..Len(s))
      BY <1>3, <1>5, <2>2, <2>4, <3>2
    <3>3. QED
      BY <3>1, <3>2
  <2>5. QED
    BY <2>3, <2>4
<1>9. InnerIsNew'
  <2>1. \A k : ~InTask(k)'
    <3>1. stack' # <<>> => Last(stack').kind = "pump"
      BY <1>4, <1>6, PopFacts
    <3>2. QED
      BY <3>1 DEF InTask
  <2>2. SUFFICES ASSUME NEW k \in Jobs, Inner[k] # NoJob, job'[k] \in {"new", "queued"}
                 PROVE  job'[Inner[k]] = "new"
    BY <2>1 DEF InnerIsNew
  <2>3. job[k] \in {"new", "queued"}
    BY <1>1, <1>2, <2>2 DEF TypeOK
  <2>4. job[Inner[k]] = "new" /\ Inner[k] # j
    BY <2>2, <2>3 DEF IndInv, InnerIsNew
  <2>5. QED
    BY <1>1, <1>2, <2>2, <2>4, InnerAssumption DEF TypeOK
<1>10. QueueMatchesJobs'
  <2>1. QueueMatchesJobs /\ queue \in [Lanes -> Seq(Jobs)] /\ job \in [Jobs -> JobState]
    BY <1>1 DEF IndInv, TypeOK
  <2>2. \A k \in Jobs : job'[k] = "queued" <=> job[k] = "queued"
    BY <1>2, <2>1
  <2>3. \A m \in Lanes : \A i \in 1..Len(queue[m]) : queue[m][i] \in Jobs
    BY <2>1
  <2>4. QED
    BY <2>1, <2>2, <2>3, SMTT(30) DEF QueueMatchesJobs
<1>11. SlotsMatchTasks'
  BY <1>1, <1>2 DEF IndInv, SlotsMatchTasks, TypeOK
<1>12. DrainingHasOwner'
  BY <1>4 DEF DrainingHasOwner, Pumping, Context
<1>13. NoLostWakeup'
  <2>1. \A m \in Lanes : CanStart(m)' => (m = l /\ current) \/ CanStart(m)
    BY <1>1, <1>2 DEF CanStart, TypeOK
  <2>2. QED
    BY <1>4, <2>1 DEF NoLostWakeup, Pumping, Context
<1>14. GenerationsGrow'
  BY DEF IndInv, GenerationsGrow
<1>15. OneSlotPerSession'
  <2>1. \A m \in Lanes : /\ activeTaskIds'[m] \subseteq activeTaskIds[m]
                         /\ IsFiniteSet(activeTaskIds'[m])
    <3>1. \A m \in Lanes : activeTaskIds'[m] \subseteq activeTaskIds[m]
      BY <1>1, <1>2 DEF TypeOK
    <3>2. QED
      BY <3>1, FS_Subset DEF IndInv, OneSlotPerSession
  <2>2. QED
    BY <2>1 DEF IndInv, OneSlotPerSession
<1>16. QED
  BY <1>7, <1>8, <1>9, <1>10, <1>11, <1>12, <1>13, <1>14, <1>15 DEF IndInv

-----------------------------------------------------------------------------
(* The actions, one lemma each. *)

LEMMA InitInd == Init => IndInv
<1> SUFFICES ASSUME Init PROVE IndInv
  OBVIOUS
<1> USE DEF Init
<1>1. TypeOK
  <2>1. <<>> \in Seq(Jobs) /\ <<>> \in Seq(Frame)
    BY EmptySeq
  <2>2. "new" \in JobState
    BY DEF JobState
  <2>3. queue \in [Lanes -> Seq(Jobs)] /\ stack \in Seq(Frame)
    BY <2>1
  <2>4. activeTaskIds \in [Lanes -> SUBSET Jobs] /\ draining \in [Lanes -> BOOLEAN]
    OBVIOUS
  <2>5. maxConcurrent \in [Lanes -> Nat \ {0}] /\ generation \in [Lanes -> Nat]
    OBVIOUS
  <2>6. job \in [Jobs -> JobState] /\ taskGeneration \in [Jobs -> Nat]
    BY <2>2
  <2>7. QED
    BY <2>3, <2>4, <2>5, <2>6 DEF TypeOK
<1>2. FramesMatchJobs /\ InnerIsNew /\ QueueMatchesJobs
  BY InnerAssumption DEF FramesMatchJobs, FramesMatch, InnerIsNew, QueueMatchesJobs
<1>3. SlotsMatchTasks /\ DrainingHasOwner /\ NoLostWakeup
  BY DEF SlotsMatchTasks, DrainingHasOwner, NoLostWakeup, CanStart
<1>4. GenerationsGrow
  BY LaneOfAssumption DEF GenerationsGrow
<1>5. OneSlotPerSession
  BY FS_EmptySet DEF OneSlotPerSession
<1>6. QED
  BY <1>1, <1>2, <1>3, <1>4, <1>5 DEF IndInv

LEMMA CallerInd ==
    ASSUME IndInv, NEW j \in Jobs, Enqueue(j) \/ TaskEnds(j)
    PROVE  IndInv'
<1>1. CASE Enqueue(j)
  <2>1. \A k \in Jobs : Inner[k] = j => job[k] \notin {"new", "queued"}
    BY <1>1 DEF Enqueue
  <2>2. QED
    BY <1>1, <2>1, EventLoopContext, EnqueueInd DEF Enqueue, EventLoop
<1>2. CASE TaskEnds(j)
  <2>1. \A i \in 1..Len(stack) : stack[i].job # j
    BY <1>2 DEF TaskEnds, EventLoop
  <2>2. QED
    BY <1>2, <2>1, EventLoopContext, CompleteInd DEF TaskEnds, EventLoop
<1>3. QED
  BY <1>1, <1>2

LEMMA TaskInd ==
    ASSUME IndInv, NEW j \in Jobs, TaskAwaits(j) \/ TaskThrows(j) \/ TaskEnqueuesInner(j)
    PROVE  IndInv'
<1> DEFINE s == Front(stack)
<1>1. /\ InTask(j)
      /\ Context(s)
      /\ job[j] = "running"
      /\ \A i \in 1..Len(s) : s[i].job # j
  BY TaskContext DEF TaskAwaits, TaskThrows, TaskEnqueuesInner
<1>2. CASE TaskAwaits(j)
  <2>1. stack' = s /\ UNCHANGED <<laneVars, gatewayDraining, job, taskGeneration, lanesToDrain>>
    BY <1>2 DEF TaskAwaits
  <2>2. TypeOK'
    BY <1>1, <2>1 DEF IndInv, TypeOK, Context, laneVars
  <2>3. FramesMatchJobs'
    BY <1>1, <2>1 DEF FramesMatchJobs, FramesMatch, Context
  <2>4. InnerIsNew'
    <3>1. s # <<>> => Last(s).kind = "pump"
      BY <1>1, PopFacts DEF Context
    <3>2. \A k : ~InTask(k)'
      BY <2>1, <3>1 DEF InTask
    <3>3. QED
      BY <2>1, <3>2 DEF IndInv, InnerIsNew
  <2>5. DrainingHasOwner' /\ NoLostWakeup'
    BY <1>1, <2>1 DEF Context, DrainingHasOwner, NoLostWakeup, Pumping, CanStart, laneVars
  <2>6. QueueMatchesJobs' /\ SlotsMatchTasks' /\ GenerationsGrow' /\ OneSlotPerSession'
    BY <2>1 DEF IndInv, QueueMatchesJobs, SlotsMatchTasks, GenerationsGrow, OneSlotPerSession, laneVars
  <2>7. QED
    BY <2>2, <2>3, <2>4, <2>5, <2>6 DEF IndInv
<1>3. CASE TaskThrows(j)
  BY <1>1, <1>3, CompleteInd DEF TaskThrows
<1>4. CASE TaskEnqueuesInner(j)
  <2>1. Inner[j] \in Jobs /\ job[Inner[j]] = "new"
    BY <1>1, <1>4, InnerAssumption DEF TaskEnqueuesInner, IndInv, InnerIsNew
  <2>2. \A k \in Jobs : Inner[k] = Inner[j] => job[k] \notin {"new", "queued"}
    BY <1>1, <1>4, InnerAssumption DEF TaskEnqueuesInner
  <2>3. QED
    BY <1>1, <1>4, <2>1, <2>2, EnqueueInd DEF TaskEnqueuesInner
<1>5. QED
  BY <1>2, <1>3, <1>4

(* The head of a lane's queue, as PumpStart finds it. *)
LEMMA HeadFacts ==
    ASSUME IndInv, NEW l \in Lanes, queue[l] # <<>>
    PROVE  /\ Head(queue[l]) \in Jobs
           /\ LaneOf[Head(queue[l])] = l
           /\ job[Head(queue[l])] = "queued"
           /\ Tail(queue[l]) \in Seq(Jobs)
           /\ Len(queue[l]) \in Nat \ {0}
           /\ Len(Tail(queue[l])) = Len(queue[l]) - 1
           /\ \A i \in 1..Len(Tail(queue[l])) : Tail(queue[l])[i] = queue[l][i + 1]
           /\ Head(queue[l]) = queue[l][1]
<1>1. queue[l] \in Seq(Jobs)
  BY DEF IndInv, TypeOK
<1>2. /\ Head(queue[l]) \in Jobs
      /\ Tail(queue[l]) \in Seq(Jobs)
      /\ Len(queue[l]) \in Nat \ {0}
      /\ Len(Tail(queue[l])) = Len(queue[l]) - 1
      /\ \A i \in 1..Len(Tail(queue[l])) : Tail(queue[l])[i] = queue[l][i + 1]
      /\ Head(queue[l]) = queue[l][1]
  BY <1>1, HeadTailProperties, EmptySeq
<1>3. LaneOf[queue[l][1]] = l /\ job[queue[l][1]] = "queued"
  BY <1>2 DEF IndInv, QueueMatchesJobs
<1>4. QED
  BY <1>2, <1>3

LEMMA PumpStartInd ==
    ASSUME IndInv, NEW l \in Lanes, PumpStart(l)
    PROVE  IndInv'
<1> DEFINE j == Head(queue[l])
<1>1. /\ TypeOK
      /\ InPump(l)
      /\ CanStart(l)
      /\ queue' = [queue EXCEPT ![l] = Tail(@)]
      /\ activeTaskIds' = [activeTaskIds EXCEPT ![l] = @ \cup {j}]
      /\ taskGeneration' = [taskGeneration EXCEPT ![j] = generation[l]]
      /\ job' = [job EXCEPT ![j] = "running"]
      /\ stack' = Append(stack, TaskFrame(j))
      /\ UNCHANGED <<maxConcurrent, draining, generation, gatewayDraining, lanesToDrain>>
  BY DEF PumpStart, IndInv
<1>2. /\ j \in Jobs
      /\ LaneOf[j] = l
      /\ job[j] = "queued"
      /\ Tail(queue[l]) \in Seq(Jobs)
      /\ Len(queue[l]) \in Nat \ {0}
      /\ Len(Tail(queue[l])) = Len(queue[l]) - 1
      /\ \A i \in 1..Len(Tail(queue[l])) : Tail(queue[l])[i] = queue[l][i + 1]
      /\ j = queue[l][1]
  BY <1>1, HeadFacts DEF CanStart
<1>3. /\ TaskFrame(j) \in Frame
      /\ TaskFrame(j).kind = "task"
      /\ TaskFrame(j).job = j
  BY <1>2 DEF TaskFrame, Frame
<1>4. /\ stack \in Seq(Frame)
      /\ stack # <<>>
      /\ Len(stack) \in Nat
      /\ stack' \in Seq(Frame)
      /\ stack' # <<>>
      /\ Last(stack') = TaskFrame(j)
      /\ Len(stack') = Len(stack) + 1
      /\ \A i \in 1..Len(stack) : stack'[i] = stack[i]
      /\ stack'[Len(stack) + 1] = TaskFrame(j)
      /\ \A m : HasPump(stack', m) <=> HasPump(stack, m)
  BY <1>1, <1>3, PushFacts, HasPumpPush DEF TypeOK, InPump
<1>5. \A i \in 1..Len(stack) : /\ stack[i].kind = "pump"
                               /\ stack[i].job # j
                               /\ stack[i].job \in Jobs \cup {NoJob}
  <2>1. stack[Len(stack)].kind = "pump"
    BY <1>1, <1>4, PopFacts DEF InPump
  <2>2. \A i \in 1..Len(stack) : stack[i] \in Frame
    BY <1>4
  <2>3. NoJob # j
    BY <1>2, NoJobAssumption
  <2>4. QED
    BY <1>2, <2>1, <2>2, <2>3 DEF IndInv, FramesMatchJobs, FramesMatch, Frame
<1>6. TypeOK'
  <2>1. /\ queue' \in [Lanes -> Seq(Jobs)]
        /\ activeTaskIds' \in [Lanes -> SUBSET Jobs]
        /\ taskGeneration' \in [Jobs -> Nat]
    BY <1>1, <1>2 DEF TypeOK
  <2>2. job' \in [Jobs -> JobState]
    BY <1>1, <1>2 DEF TypeOK, JobState
  <2>3. QED
    BY <1>1, <1>4, <2>1, <2>2 DEF TypeOK
<1>7. FramesMatchJobs'
  <2>1. \A i \in 1..Len(stack') : i \in 1..Len(stack) \/ i = Len(stack')
    BY <1>4
  <2>2. job'[j] = "running" /\ \A k \in Jobs : k # j => job'[k] = job[k]
    BY <1>1, <1>2 DEF TypeOK
  <2>3. \A i \in 1..Len(stack) : stack[i].job # NoJob => job'[stack[i].job] = "settling"
    BY <1>5, <2>2 DEF IndInv, FramesMatchJobs, FramesMatch
  <2>4. \A i, k \in 1..Len(stack) : stack[i].job = stack[k].job /\ stack[i].job # NoJob => i = k
    BY DEF IndInv, FramesMatchJobs, FramesMatch
  <2>5. QED
    BY <1>2, <1>3, <1>4, <1>5, <2>1, <2>2, <2>3, <2>4 DEF FramesMatchJobs, FramesMatch
<1>8. InnerIsNew'
  <2>1. SUFFICES ASSUME NEW k \in Jobs, Inner[k] # NoJob,
                        job'[k] \in {"new", "queued"} \/ InTask(k)'
                 PROVE  job'[Inner[k]] = "new"
    BY DEF InnerIsNew
  <2>2. job[k] \in {"new", "queued"}
    BY <1>1, <1>2, <1>3, <1>4, <2>1 DEF InTask, TypeOK
  <2>3. job[Inner[k]] = "new" /\ Inner[k] # j
    BY <1>2, <2>1, <2>2 DEF IndInv, InnerIsNew
  <2>4. QED
    BY <1>1, <2>1, <2>3, InnerAssumption DEF TypeOK
<1>9. QueueMatchesJobs'
  <2>1. QueueMatchesJobs /\ queue \in [Lanes -> Seq(Jobs)] /\ job \in [Jobs -> JobState]
    BY <1>1 DEF IndInv, TypeOK
  <2>2. SUFFICES ASSUME NEW m \in Lanes
                 PROVE  /\ \A i \in 1..Len(queue'[m]) :
                               LaneOf[queue'[m][i]] = m /\ job'[queue'[m][i]] = "queued"
                        /\ \A i, k \in 1..Len(queue'[m]) : queue'[m][i] = queue'[m][k] => i = k
                        /\ \A k \in Jobs : LaneOf[k] = m /\ job'[k] = "queued" =>
                               \E i \in 1..Len(queue'[m]) : queue'[m][i] = k
    BY DEF QueueMatchesJobs
  <2>3. CASE m # l
    <3>1. queue'[m] = queue[m] /\ \A i \in 1..Len(queue[m]) : queue[m][i] \in Jobs
      BY <1>1, <2>1, <2>3
    <3>2. QED
      BY <1>1, <1>2, <2>1, <2>3, <3>1 DEF QueueMatchesJobs
  <2>4. CASE m = l
    <3>1. /\ Len(queue'[l]) = Len(queue[l]) - 1
          /\ \A i \in 1..Len(queue'[l]) :
                 queue'[l][i] = queue[l][i + 1] /\ i + 1 \in 1..Len(queue[l])
      BY <1>1, <1>2, <2>1
    <3>2. \A i \in 1..Len(queue[l]) :
              queue[l][i] \in Jobs /\ LaneOf[queue[l][i]] = l /\ job[queue[l][i]] = "queued"
      BY <2>1 DEF QueueMatchesJobs
    <3>3. \A i, k \in 1..Len(queue[l]) : queue[l][i] = queue[l][k] => i = k
      BY <2>1 DEF QueueMatchesJobs
    <3>4. \A i, k \in 1..Len(queue'[l]) : queue'[l][i] = queue'[l][k] => i = k
      <4>1. SUFFICES ASSUME NEW i \in 1..Len(queue'[l]), NEW k \in 1..Len(queue'[l]),
                            queue'[l][i] = queue'[l][k]
                     PROVE  i = k
        OBVIOUS
      <4>2. i + 1 = k + 1
        BY <3>1, <3>3, <4>1
      <4>3. QED
        BY <4>2
    <3>5. \A i \in 1..Len(queue'[l]) : LaneOf[queue'[l][i]] = l /\ job'[queue'[l][i]] = "queued"
      <4>1. \A i \in 1..Len(queue'[l]) : queue[l][i + 1] # j
        BY <1>2, <3>1, <3>3
      <4>2. QED
        BY <1>1, <2>1, <3>1, <3>2, <4>1
    <3>6. \A k \in Jobs : LaneOf[k] = l /\ job'[k] = "queued" =>
              \E i \in 1..Len(queue'[l]) : queue'[l][i] = k
      <4>1. SUFFICES ASSUME NEW k \in Jobs, LaneOf[k] = l, job'[k] = "queued"
                     PROVE  \E i \in 1..Len(queue'[l]) : queue'[l][i] = k
        OBVIOUS
      <4>2. k # j /\ job[k] = "queued"
        BY <1>1, <1>2, <2>1, <4>1
      <4>3. PICK i \in 1..Len(queue[l]) : queue[l][i] = k
        BY <2>1, <4>1, <4>2 DEF QueueMatchesJobs
      <4>4. i - 1 \in 1..Len(queue'[l]) /\ (i - 1) + 1 = i
        BY <1>2, <3>1, <4>2, <4>3
      <4>5. QED
        BY <3>1, <4>3, <4>4
    <3>7. QED
      BY <2>4, <3>4, <3>5, <3>6
  <2>5. QED
    BY <2>3, <2>4
<1>10. SlotsMatchTasks'
  <2>1. SUFFICES ASSUME NEW m \in Lanes
                 PROVE  activeTaskIds'[m] =
                            {k \in Jobs : /\ LaneOf[k] = m
                                          /\ job'[k] = "running"
                                          /\ taskGeneration'[k] = generation'[m]}
    BY DEF SlotsMatchTasks
  <2>2. activeTaskIds[m] = {k \in Jobs : /\ LaneOf[k] = m
                                         /\ job[k] = "running"
                                         /\ taskGeneration[k] = generation[m]}
    BY DEF IndInv, SlotsMatchTasks
  <2>3. QED
    BY <1>1, <1>2, <2>2 DEF TypeOK
<1>11. DrainingHasOwner'
  BY <1>1, <1>4 DEF IndInv, DrainingHasOwner, Pumping
<1>12. NoLostWakeup'
  <2>1. HasPump(stack', l)
    BY <1>1, <1>4, HasPumpPop DEF InPump
  <2>2. \A m \in Lanes : m # l => (CanStart(m)' <=> CanStart(m))
    BY <1>1 DEF CanStart, TypeOK
  <2>3. QED
    BY <1>1, <1>4, <2>1, <2>2 DEF IndInv, NoLostWakeup, Pumping
<1>13. GenerationsGrow'
  <2>1. SUFFICES ASSUME NEW k \in Jobs
                 PROVE  taskGeneration'[k] <= generation[LaneOf[k]]
    BY <1>1 DEF GenerationsGrow
  <2>2. taskGeneration \in [Jobs -> Nat] /\ generation[l] \in Nat
    BY <1>1 DEF TypeOK
  <2>3. CASE k = j
    BY <1>1, <1>2, <2>2, <2>3
  <2>4. CASE k # j
    BY <1>1, <2>2, <2>4 DEF IndInv, GenerationsGrow
  <2>5. QED
    BY <2>3, <2>4
<1>14. OneSlotPerSession'
  <2>1. \A m \in Lanes : IsFiniteSet(activeTaskIds'[m])
    <3>1. \A m \in Lanes : IsFiniteSet(activeTaskIds[m])
      BY DEF IndInv, OneSlotPerSession
    <3>2. IsFiniteSet(activeTaskIds[l] \cup {j})
      BY <3>1, FS_AddElement
    <3>3. QED
      BY <1>1, <3>1, <3>2 DEF TypeOK
  <2>2. l \notin TunedLanes => activeTaskIds[l] = {}
    <3>1. ASSUME l \notin TunedLanes PROVE Cardinality(activeTaskIds[l]) = 0
      <4>1. IsFiniteSet(activeTaskIds[l]) /\ maxConcurrent[l] = 1
        BY <3>1 DEF IndInv, OneSlotPerSession
      <4>2. Cardinality(activeTaskIds[l]) \in Nat
        BY <4>1, FS_CardinalityType
      <4>3. QED
        BY <1>1, <4>1, <4>2 DEF CanStart
    <3>2. QED
      BY <3>1, FS_EmptySet DEF IndInv, OneSlotPerSession
  <2>3. QED
    BY <1>1, <2>1, <2>2 DEF IndInv, OneSlotPerSession, TypeOK
<1>15. QED
  BY <1>6, <1>7, <1>8, <1>9, <1>10, <1>11, <1>12, <1>13, <1>14 DEF IndInv

LEMMA PumpExitInd ==
    ASSUME IndInv, NEW l \in Lanes, PumpExit(l)
    PROVE  IndInv'
<1> DEFINE s == Front(stack)
           j == Last(stack).job
<1>1. /\ TypeOK
      /\ stack \in Seq(Frame)
      /\ stack # <<>>
      /\ Last(stack).kind = "pump"
      /\ Last(stack).lane = l
      /\ ~CanStart(l)
      /\ draining' = [draining EXCEPT ![l] = FALSE]
      /\ job' = [k \in Jobs |-> IF k = j THEN "settled" ELSE job[k]]
      /\ stack' = s
      /\ UNCHANGED <<queue, activeTaskIds, maxConcurrent, generation, gatewayDraining,
                     taskGeneration, lanesToDrain>>
  BY DEF PumpExit, InPump, IndInv, TypeOK
<1>2. /\ s \in Seq(Frame)
      /\ Len(stack) \in Nat \ {0}
      /\ Len(s) = Len(stack) - 1
      /\ \A i \in 1..Len(s) : s[i] = stack[i]
      /\ Last(stack) = stack[Len(stack)]
      /\ j \in Jobs \cup {NoJob}
  BY <1>1, PopFacts DEF Frame
<1>3. j \in Jobs => job[j] = "settling"
  <2>1. j \in Jobs => j # NoJob
    BY NoJobAssumption
  <2>2. QED
    BY <1>1, <1>2, <2>1 DEF IndInv, FramesMatchJobs, FramesMatch
<1>4. \A k \in Jobs : job'[k] = job[k] \/ (job[k] = "settling" /\ job'[k] = "settled")
  BY <1>1, <1>3
<1>5. \A m : m # l => (HasPump(s, m) <=> HasPump(stack, m))
  BY <1>1, HasPumpPop
<1>6. \A i \in 1..Len(s) : i \in 1..Len(stack) /\ i # Len(stack)
  BY <1>2
<1>7. TypeOK'
  <2>1. job' \in [Jobs -> JobState]
    BY <1>1 DEF TypeOK, JobState
  <2>2. QED
    BY <1>1, <1>2, <2>1 DEF TypeOK
<1>8. FramesMatchJobs'
  <2>1. \A i \in 1..Len(s) : /\ s[i].kind = "pump"
                             /\ s[i].job \in Jobs \cup {NoJob}
                             /\ s[i].job # NoJob => s[i].job # j /\ job[s[i].job] = "settling"
    <3>1. FramesMatch(stack)
      BY DEF IndInv, FramesMatchJobs
    <3>2. \A i \in 1..Len(stack) : stack[i] \in Frame
      BY <1>1
    <3>3. \A i \in 1..Len(s) : stack[i].job # NoJob => stack[i].job # stack[Len(stack)].job
      BY <1>2, <1>6, <3>1 DEF FramesMatch
    <3>4. \A i \in 1..Len(s) : stack[i].kind = "pump" /\ stack[i].job \in Jobs \cup {NoJob}
      BY <1>6, <3>1, <3>2 DEF FramesMatch, Frame
    <3>5. \A i \in 1..Len(s) : stack[i].job # NoJob => job[stack[i].job] = "settling"
      BY <1>6, <3>1, <3>4 DEF FramesMatch
    <3>6. QED
      BY <1>2, <3>3, <3>4, <3>5
  <2>2. \A i \in 1..Len(s) : s[i].job # NoJob => job'[s[i].job] = "settling"
    BY <1>1, <2>1
  <2>3. \A i, k \in 1..Len(s) : s[i].job = s[k].job /\ s[i].job # NoJob => i = k
    BY <1>2, <1>6 DEF IndInv, FramesMatchJobs, FramesMatch
  <2>4. QED
    BY <1>1, <2>1, <2>2, <2>3 DEF FramesMatchJobs, FramesMatch
<1>9. InnerIsNew'
  <2>1. \A k : ~InTask(k)'
    <3>1. s # <<>> => Last(s).kind = "pump"
      <4>1. \A i \in 1..Len(s) : stack[i] \in Frame /\ stack[i].kind # "task"
        BY <1>1, <1>6 DEF IndInv, FramesMatchJobs, FramesMatch
      <4>2. QED
        <5>1. \A i \in 1..Len(s) : s[i].kind = "pump"
          BY <1>2, <4>1 DEF Frame
        <5>2. QED
          BY <1>2, <5>1, PopFacts
    <3>2. QED
      BY <1>1, <3>1 DEF InTask
  <2>2. \A k \in Jobs : job'[k] \in {"new", "queued"} => job[k] \in {"new", "queued"}
    BY <1>4
  <2>3. \A k \in Jobs : job[k] = "new" => job'[k] = "new"
    BY <1>4
  <2>4. QED
    BY <2>1, <2>2, <2>3, InnerAssumption DEF IndInv, InnerIsNew
<1>10. QueueMatchesJobs'
  <2>1. \A k \in Jobs : job'[k] = "queued" <=> job[k] = "queued"
    BY <1>4
  <2>2. \A m \in Lanes : \A i \in 1..Len(queue[m]) : queue[m][i] \in Jobs
    BY <1>1 DEF TypeOK
  <2>3. QED
    BY <1>1, <2>1, <2>2 DEF IndInv, QueueMatchesJobs
<1>11. SlotsMatchTasks'
  <2>1. \A k \in Jobs : job'[k] = "running" <=> job[k] = "running"
    BY <1>4
  <2>2. QED
    BY <1>1, <2>1 DEF IndInv, SlotsMatchTasks
<1>12. DrainingHasOwner'
  BY <1>1, <1>5 DEF IndInv, DrainingHasOwner, Pumping, TypeOK
<1>13. NoLostWakeup'
  BY <1>1, <1>5 DEF IndInv, NoLostWakeup, Pumping, CanStart
<1>14. GenerationsGrow' /\ OneSlotPerSession'
  BY <1>1 DEF IndInv, GenerationsGrow, OneSlotPerSession
<1>15. QED
  BY <1>7, <1>8, <1>9, <1>10, <1>11, <1>12, <1>13, <1>14 DEF IndInv

LEMMA SetConcurrencyInd ==
    ASSUME IndInv, NEW l \in TunedLanes, NEW n \in ConcInputs, SetCommandLaneConcurrency(l, n)
    PROVE  IndInv'
<1>1. /\ TypeOK
      /\ l \in Lanes
      /\ n \in Int
      /\ stack = <<>>
      /\ DrainLane(l, stack)
      /\ maxConcurrent' = [maxConcurrent EXCEPT ![l] = IF n > 1 THEN n ELSE 1]
      /\ UNCHANGED <<queue, activeTaskIds, generation, gatewayDraining, job,
                     taskGeneration, lanesToDrain>>
  BY ConcAssumption DEF SetCommandLaneConcurrency, CleanConcurrency, EventLoop, IndInv
<1>2. Context(stack)
  BY <1>1, EventLoopContext
<1>3. /\ stack' \in Seq(Frame)
      /\ draining' \in [Lanes -> BOOLEAN]
      /\ \A m : HasPump(stack, m) => HasPump(stack', m)
      /\ HasPump(stack', l)
      /\ \A m \in Lanes : draining'[m] => HasPump(stack', m)
      /\ \A i \in 1..Len(stack') : stack'[i].kind = "pump"
      /\ FramesMatch(stack')
  BY <1>1, <1>2, DrainLaneFacts DEF TypeOK
<1>4. TypeOK'
  <2>1. maxConcurrent' \in [Lanes -> Nat \ {0}]
    BY <1>1 DEF TypeOK
  <2>2. QED
    BY <1>1, <1>3, <2>1 DEF TypeOK
<1>5. FramesMatchJobs'
  BY <1>1, <1>3 DEF FramesMatchJobs, FramesMatch
<1>6. InnerIsNew'
  <2>1. stack' # <<>> => Last(stack').kind = "pump"
    BY <1>3, PopFacts
  <2>2. \A k : ~InTask(k)'
    BY <2>1 DEF InTask
  <2>3. QED
    BY <1>1, <2>2 DEF IndInv, InnerIsNew
<1>7. QueueMatchesJobs' /\ SlotsMatchTasks' /\ GenerationsGrow'
  BY <1>1 DEF IndInv, QueueMatchesJobs, SlotsMatchTasks, GenerationsGrow
<1>8. DrainingHasOwner'
  BY <1>3 DEF DrainingHasOwner, Pumping
<1>9. NoLostWakeup'
  <2>1. \A m \in Lanes : m # l => (CanStart(m)' <=> CanStart(m))
    BY <1>1 DEF CanStart, TypeOK
  <2>2. QED
    BY <1>1, <1>2, <1>3, <2>1 DEF NoLostWakeup, Pumping, Context
<1>10. OneSlotPerSession'
  BY <1>1 DEF IndInv, OneSlotPerSession, TypeOK
<1>11. QED
  BY <1>4, <1>5, <1>6, <1>7, <1>8, <1>9, <1>10 DEF IndInv

LEMMA ClearCommandLaneInd ==
    ASSUME IndInv, NEW l \in Lanes, ClearCommandLane(l)
    PROVE  IndInv'
<1> DEFINE InQueue(j) == \E i \in 1..Len(queue[l]) : queue[l][i] = j
<1>1. /\ TypeOK
      /\ stack = <<>>
      /\ queue' = [queue EXCEPT ![l] = <<>>]
      /\ job' = [j \in Jobs |-> IF InQueue(j) THEN "cleared" ELSE job[j]]
      /\ UNCHANGED <<activeTaskIds, maxConcurrent, draining, generation, gatewayDraining,
                     taskGeneration, stack, lanesToDrain>>
  BY DEF ClearCommandLane, EventLoop, IndInv
<1>2. QueueMatchesJobs
  BY DEF IndInv
<1>3. \A j \in Jobs : InQueue(j) <=> LaneOf[j] = l /\ job[j] = "queued"
  <2>1. \A j \in Jobs : InQueue(j) => LaneOf[j] = l /\ job[j] = "queued"
    BY <1>2 DEF QueueMatchesJobs
  <2>2. \A j \in Jobs : LaneOf[j] = l /\ job[j] = "queued" => InQueue(j)
    BY <1>2 DEF QueueMatchesJobs
  <2>3. QED
    BY <2>1, <2>2
<1> HIDE DEF InQueue
<1>4. \A j \in Jobs : job'[j] = IF LaneOf[j] = l /\ job[j] = "queued" THEN "cleared" ELSE job[j]
  BY <1>1, <1>3
<1>5. TypeOK'
  <2>1. queue' \in [Lanes -> Seq(Jobs)]
    BY <1>1, EmptySeq DEF TypeOK
  <2>2. job' \in [Jobs -> JobState]
    BY <1>1 DEF TypeOK, JobState
  <2>3. QED
    BY <1>1, <2>1, <2>2 DEF TypeOK
<1>6. FramesMatchJobs'
  BY <1>1 DEF FramesMatchJobs, FramesMatch
<1>7. InnerIsNew'
  BY <1>1, <1>4, InnerAssumption DEF IndInv, InnerIsNew, InTask
<1>8. QueueMatchesJobs'
  <2>1. \A m \in Lanes : queue'[m] = IF m = l THEN <<>> ELSE queue[m]
    BY <1>1 DEF TypeOK
  <2>2. \A m \in Lanes : \A i \in 1..Len(queue[m]) : queue[m][i] \in Jobs
    BY <1>1 DEF TypeOK
  <2>3. QED
    BY <1>2, <1>4, <2>1, <2>2 DEF QueueMatchesJobs
<1>9. SlotsMatchTasks'
  BY <1>1, <1>4 DEF IndInv, SlotsMatchTasks
<1>10. DrainingHasOwner'
  BY <1>1 DEF IndInv, DrainingHasOwner, Pumping, HasPump
<1>11. NoLostWakeup'
  <2>1. \A m \in Lanes : CanStart(m)' => CanStart(m)
    BY <1>1 DEF CanStart, TypeOK
  <2>2. QED
    BY <1>1, <2>1 DEF IndInv, NoLostWakeup, Pumping
<1>12. GenerationsGrow' /\ OneSlotPerSession'
  BY <1>1 DEF IndInv, GenerationsGrow, OneSlotPerSession
<1>13. QED
  BY <1>5, <1>6, <1>7, <1>8, <1>9, <1>10, <1>11, <1>12 DEF IndInv

LEMMA LifecycleInd ==
    ASSUME IndInv, MarkGatewayDraining \/ ResetAllLanes
    PROVE  IndInv'
<1>1. CASE MarkGatewayDraining
  <2>1. UNCHANGED <<laneVars, job, taskGeneration, stack, lanesToDrain>> /\ gatewayDraining' = TRUE
    BY <1>1 DEF MarkGatewayDraining
  <2> USE <2>1 DEF laneVars
  <2>2. TypeOK'
    BY DEF IndInv, TypeOK
  <2>3. FramesMatchJobs' /\ InnerIsNew' /\ QueueMatchesJobs'
    BY DEF IndInv, FramesMatchJobs, FramesMatch, InnerIsNew, InTask, QueueMatchesJobs
  <2>4. SlotsMatchTasks' /\ DrainingHasOwner' /\ NoLostWakeup'
    BY DEF IndInv, SlotsMatchTasks, DrainingHasOwner, NoLostWakeup, CanStart, Pumping
  <2>5. GenerationsGrow' /\ OneSlotPerSession'
    BY DEF IndInv, GenerationsGrow, OneSlotPerSession
  <2>6. QED
    BY <2>2, <2>3, <2>4, <2>5 DEF IndInv
<1>2. CASE ResetAllLanes
  <2>1. /\ TypeOK
        /\ generation' = [l \in Lanes |-> generation[l] + 1]
        /\ activeTaskIds' = [l \in Lanes |-> {}]
        /\ draining' = [l \in Lanes |-> FALSE]
        /\ lanesToDrain' = {l \in Lanes : queue[l] # <<>>}
        /\ gatewayDraining' = FALSE
        /\ stack = <<>>
        /\ UNCHANGED <<queue, maxConcurrent, job, taskGeneration, stack>>
    BY <1>2 DEF ResetAllLanes, EventLoop, IndInv
  <2>2. TypeOK'
    <3>1. generation' \in [Lanes -> Nat]
      BY <2>1 DEF TypeOK
    <3>2. QED
      BY <2>1, <3>1 DEF TypeOK
  <2>3. FramesMatchJobs' /\ InnerIsNew' /\ QueueMatchesJobs'
    BY <2>1 DEF IndInv, FramesMatchJobs, FramesMatch, InnerIsNew, InTask, QueueMatchesJobs
  <2>4. GenerationsGrow'
    <3>1. \A j \in Jobs : LaneOf[j] \in Lanes
      BY LaneOfAssumption
    <3>2. \A j \in Jobs : taskGeneration[j] \in Nat /\ generation[LaneOf[j]] \in Nat
      BY <2>1, <3>1 DEF TypeOK
    <3>3. QED
      BY <2>1, <3>1, <3>2 DEF IndInv, GenerationsGrow
  <2>5. SlotsMatchTasks'
    \* every task in the lanes is now of an older generation
    <3>1. \A j \in Jobs : /\ LaneOf[j] \in Lanes
                          /\ taskGeneration[j] \in Nat
                          /\ generation[LaneOf[j]] \in Nat
                          /\ taskGeneration[j] <= generation[LaneOf[j]]
      BY <2>1, LaneOfAssumption DEF IndInv, TypeOK, GenerationsGrow
    <3>2. \A j \in Jobs : taskGeneration'[j] # generation'[LaneOf[j]]
      BY <2>1, <3>1
    <3>3. QED
      BY <2>1, <3>2 DEF SlotsMatchTasks
  <2>6. DrainingHasOwner' /\ NoLostWakeup'
    BY <2>1 DEF DrainingHasOwner, NoLostWakeup, CanStart
  <2>7. OneSlotPerSession'
    BY <2>1, FS_EmptySet DEF IndInv, OneSlotPerSession
  <2>8. QED
    BY <2>2, <2>3, <2>4, <2>5, <2>6, <2>7 DEF IndInv
<1>3. QED
  BY <1>1, <1>2

LEMMA ResetStepInd ==
    ASSUME IndInv, NEW l \in Lanes, ResetStep(l)
    PROVE  IndInv'
<1>1. /\ TypeOK
      /\ stack = <<>>
      /\ lanesToDrain' = lanesToDrain \ {l}
      /\ DrainLane(l, stack)
      /\ UNCHANGED <<queue, activeTaskIds, maxConcurrent, generation, gatewayDraining,
                     job, taskGeneration>>
  BY DEF ResetStep, IndInv
<1>2. Context(stack)
  BY <1>1, EventLoopContext
<1>3. /\ stack' \in Seq(Frame)
      /\ draining' \in [Lanes -> BOOLEAN]
      /\ \A m : HasPump(stack, m) => HasPump(stack', m)
      /\ HasPump(stack', l)
      /\ \A m \in Lanes : draining'[m] => HasPump(stack', m)
      /\ \A i \in 1..Len(stack') : stack'[i].kind = "pump"
      /\ FramesMatch(stack')
  BY <1>1, <1>2, DrainLaneFacts DEF TypeOK
<1>4. TypeOK'
  BY <1>1, <1>3 DEF TypeOK
<1>5. FramesMatchJobs'
  BY <1>1, <1>3 DEF FramesMatchJobs, FramesMatch
<1>6. InnerIsNew'
  <2>1. stack' # <<>> => Last(stack').kind = "pump"
    BY <1>3, PopFacts
  <2>2. \A k : ~InTask(k)'
    BY <2>1 DEF InTask
  <2>3. QED
    BY <1>1, <2>2 DEF IndInv, InnerIsNew
<1>7. QueueMatchesJobs' /\ SlotsMatchTasks' /\ GenerationsGrow' /\ OneSlotPerSession'
  BY <1>1 DEF IndInv, QueueMatchesJobs, SlotsMatchTasks, GenerationsGrow, OneSlotPerSession
<1>8. DrainingHasOwner'
  BY <1>3 DEF DrainingHasOwner, Pumping
<1>9. NoLostWakeup'
  BY <1>1, <1>2, <1>3 DEF NoLostWakeup, Pumping, Context, CanStart
<1>10. QED
  BY <1>4, <1>5, <1>6, <1>7, <1>8, <1>9 DEF IndInv

LEMMA StutterInd == IndInv /\ UNCHANGED vars => IndInv'
<1> SUFFICES ASSUME IndInv, UNCHANGED vars PROVE IndInv'
  OBVIOUS
<1> USE DEF vars
<1>1. TypeOK'
  BY DEF IndInv, TypeOK
<1>2. FramesMatchJobs' /\ InnerIsNew' /\ QueueMatchesJobs'
  BY DEF IndInv, FramesMatchJobs, FramesMatch, InnerIsNew, InTask, QueueMatchesJobs
<1>3. SlotsMatchTasks' /\ DrainingHasOwner' /\ NoLostWakeup'
  BY DEF IndInv, SlotsMatchTasks, DrainingHasOwner, NoLostWakeup, CanStart, Pumping
<1>4. GenerationsGrow' /\ OneSlotPerSession'
  BY DEF IndInv, GenerationsGrow, OneSlotPerSession
<1>5. QED
  BY <1>1, <1>2, <1>3, <1>4 DEF IndInv

LEMMA NextInd == IndInv /\ [QueueNext]_vars => IndInv'
<1> SUFFICES ASSUME IndInv, [QueueNext]_vars PROVE IndInv'
  OBVIOUS
<1>1. CASE Synchronous
  BY <1>1, PumpStartInd, PumpExitInd, ResetStepInd, TaskInd DEF Synchronous
<1>2. CASE Callback
  BY <1>2, CallerInd, SetConcurrencyInd, ClearCommandLaneInd DEF Callback
<1>3. CASE MarkGatewayDraining \/ ResetAllLanes
  BY <1>3, LifecycleInd
<1>4. CASE UNCHANGED vars
  BY <1>4, StutterInd
<1>5. QED
  BY <1>1, <1>2, <1>3, <1>4 DEF QueueNext

-----------------------------------------------------------------------------
(* What the command queue guarantees. *)

(* The inductive invariant, from which the properties below are read off.      *)
THEOREM IndInvHolds == Spec => []IndInv
<1>1. [Next]_vars => [QueueNext]_vars
  BY DEF Next, QueueNext
<1>2. QED
  BY <1>1, InitInd, NextInd, PTL DEF Spec

(* The variables keep their types in every run of src/process/command-queue.ts. *)
THEOREM TypeCorrect == Spec => []TypeOK
<1>1. IndInv => TypeOK
  BY DEF IndInv
<1>2. QED
  BY <1>1, IndInvHolds, PTL

(* No lane is left with entries, a free slot and nobody to pump it, and no     *)
(* draining flag outlives its pump loop: whatever tasks enqueue in their       *)
(* synchronous prefix, throw, or are interrupted by resetAllLanes.             *)
THEOREM NoStrandedLane == Spec => [](NoLostWakeup /\ DrainingHasOwner)
<1>1. IndInv => NoLostWakeup /\ DrainingHasOwner
  BY DEF IndInv
<1>2. QED
  BY <1>1, IndInvHolds, PTL

(* Slots are held by exactly the running tasks of the current generation, and  *)
(* every entry that was accepted is in the queue of its lane exactly once until *)
(* it is started or cleared.                                                    *)
THEOREM SlotAndQueueAccounting == Spec => [](SlotsMatchTasks /\ QueueMatchesJobs)
<1>1. IndInv => SlotsMatchTasks /\ QueueMatchesJobs
  BY DEF IndInv
<1>2. QED
  BY <1>1, IndInvHolds, PTL

(* While the lanes have not been reset, a session lane runs one agent at a time. *)
THEOREM SessionExclusion == Spec => []OneRunPerSession
<1>1. IndInv => OneRunPerSession
  <2>1. SUFFICES ASSUME IndInv, NEW l \in Lanes \ TunedLanes, generation[l] = 0,
                        NEW j \in Jobs, NEW k \in Jobs, LaneOf[j] = l, LaneOf[k] = l,
                        job[j] = "running", job[k] = "running"
                 PROVE  j = k
    BY DEF OneRunPerSession
  <2>2. taskGeneration[j] = 0 /\ taskGeneration[k] = 0
    <3>1. \A i \in Jobs : taskGeneration[i] \in Nat /\ taskGeneration[i] <= generation[LaneOf[i]]
      BY <2>1 DEF IndInv, TypeOK, GenerationsGrow
    <3>2. QED
      BY <2>1, <3>1
  <2>3. j \in activeTaskIds[l] /\ k \in activeTaskIds[l]
    BY <2>1, <2>2 DEF IndInv, SlotsMatchTasks
  <2>4. QED
    BY <2>1, <2>3 DEF IndInv, OneSlotPerSession
<1>2. QED
  BY <1>1, IndInvHolds, PTL

(* A step that gives a task a slot leaves the lane within its cap. *)
THEOREM CapRespected == Spec => StartsWithinCap
<1> DEFINE Within == \A l \in Lanes : activeTaskIds'[l] \subseteq activeTaskIds[l]
                         \/ Cardinality(activeTaskIds'[l]) <= maxConcurrent'[l]
<1>1. IndInv /\ [Next]_vars => [Within]_vars
  <2> SUFFICES ASSUME IndInv, QueueNext PROVE Within
    BY DEF vars, Next, QueueNext
  <2>1. ASSUME NEW l \in Lanes, PumpStart(l)
        PROVE  Within
    <3> DEFINE j == Head(queue[l])
    <3>1. /\ activeTaskIds \in [Lanes -> SUBSET Jobs]
          /\ maxConcurrent \in [Lanes -> Nat \ {0}]
          /\ IsFiniteSet(activeTaskIds[l])
      BY DEF IndInv, TypeOK, OneSlotPerSession
    <3>2. /\ Cardinality(activeTaskIds[l]) < maxConcurrent[l]
          /\ activeTaskIds' = [activeTaskIds EXCEPT ![l] = @ \cup {j}]
          /\ maxConcurrent' = maxConcurrent
      BY <2>1 DEF PumpStart, CanStart
    <3>3. /\ Cardinality(activeTaskIds[l]) \in Nat
          /\ \/ Cardinality(activeTaskIds[l] \cup {j}) = Cardinality(activeTaskIds[l])
             \/ Cardinality(activeTaskIds[l] \cup {j}) = Cardinality(activeTaskIds[l]) + 1
      BY <3>1, FS_CardinalityType, FS_AddElement
    <3>4. Cardinality(activeTaskIds[l] \cup {j}) <= maxConcurrent[l]
      BY <3>1, <3>2, <3>3
    <3>5. QED
      BY <3>1, <3>2, <3>4
  <2>2. ASSUME UNCHANGED activeTaskIds \/ \E j \in Jobs : \E s : CompleteTask(j, s)
        PROVE  Within
    <3>1. activeTaskIds \in [Lanes -> SUBSET Jobs]
      BY DEF IndInv, TypeOK
    <3>2. ASSUME NEW j \in Jobs, NEW s, CompleteTask(j, s)
          PROVE  \A l \in Lanes : activeTaskIds'[l] \subseteq activeTaskIds[l]
      <4>1. \/ activeTaskIds' = activeTaskIds
            \/ activeTaskIds' = [activeTaskIds EXCEPT ![LaneOf[j]] = @ \ {j}]
        BY <3>2 DEF CompleteTask
      <4>2. QED
        BY <3>1, <4>1
    <3>3. QED
      BY <2>2, <3>2
  <2>3. CASE Synchronous
    BY <2>1, <2>2, <2>3
       DEF Synchronous, PumpExit, ResetStep, TaskAwaits, TaskThrows, TaskEnqueuesInner, laneVars
  <2>4. CASE Callback
    BY <2>2, <2>4 DEF Callback, Enqueue, TaskEnds, SetCommandLaneConcurrency, ClearCommandLane
  <2>5. CASE MarkGatewayDraining \/ ResetAllLanes
    BY <2>5 DEF MarkGatewayDraining, ResetAllLanes, laneVars
  <2>6. QED
    BY <2>3, <2>4, <2>5 DEF QueueNext
<1>2. QED
  BY <1>1, IndInvHolds, PTL DEF Spec, StartsWithinCap

-----------------------------------------------------------------------------
(* The lanes as their users see them. *)

LEMMA FateChanges ==
    ASSUME TypeOK, NEW j \in Jobs, NEW v \in JobState, job' = [job EXCEPT ![j] = v]
    PROVE  Fate' = [Fate EXCEPT ![j] = IF v \in {"settling", "settled"} THEN "ended" ELSE v]
<1> DEFINE w == IF v \in {"settling", "settled"} THEN "ended" ELSE v
           G == [Fate EXCEPT ![j] = w]
<1>1. /\ Fate' = [i \in Jobs |-> IF job'[i] \in {"settling", "settled"} THEN "ended" ELSE job'[i]]
      /\ G = [i \in Jobs |-> IF i = j THEN w ELSE Fate[i]]
  BY DEF Fate
<1>2. \A i \in Jobs : job'[i] = IF i = j THEN v ELSE job[i]
  BY DEF TypeOK
<1>3. \A i \in Jobs : Fate[i] = IF job[i] \in {"settling", "settled"} THEN "ended" ELSE job[i]
  BY DEF Fate
<1>4. \A i \in Jobs : Fate'[i] = G[i]
  BY <1>1, <1>2, <1>3
<1>5. QED
  BY <1>1, <1>4

LEMMA FateKept == ASSUME UNCHANGED job PROVE UNCHANGED Fate
  BY DEF Fate

LEMMA EnqueueServes ==
    ASSUME TypeOK, NEW j \in Jobs, job[j] = "new", NEW s, EnqueueCommandInLane(j, s),
           UNCHANGED <<activeTaskIds, maxConcurrent, gatewayDraining>>
    PROVE  Service!Accept(j) \/ Service!Refuse(j)
<1>1. Fate[j] = "new"
  BY DEF Fate
<1>2. CASE gatewayDraining
  <2>1. job' = [job EXCEPT ![j] = "refused"] /\ UNCHANGED queue
    BY <1>2 DEF EnqueueCommandInLane
  <2>2. Fate' = [Fate EXCEPT ![j] = "refused"]
    BY <2>1, FateChanges DEF JobState
  <2>3. QED
    BY <1>1, <1>2, <2>1, <2>2 DEF Service!Refuse
<1>3. CASE ~gatewayDraining
  <2>1. /\ job' = [job EXCEPT ![j] = "queued"]
        /\ queue' = [queue EXCEPT ![LaneOf[j]] = Append(@, j)]
    BY <1>3 DEF EnqueueCommandInLane
  <2>2. Fate' = [Fate EXCEPT ![j] = "queued"]
    BY <2>1, FateChanges DEF JobState
  <2>3. QED
    BY <1>1, <1>3, <2>1, <2>2 DEF Service!Accept
<1>4. QED
  BY <1>2, <1>3

LEMMA CompleteServes ==
    ASSUME IndInv, NEW j \in Jobs, job[j] = "running", NEW s, CompleteTask(j, s),
           UNCHANGED <<queue, maxConcurrent, gatewayDraining, generation>>
    PROVE  Service!End(j)
<1> DEFINE l == LaneOf[j]
<1>1. TypeOK /\ Fate[j] = "running" /\ l \in Lanes
  BY LaneOfAssumption DEF IndInv, Fate
<1>2. \E v \in {"settled", "settling"} : job' = [job EXCEPT ![j] = v]
  BY DEF CompleteTask
<1>3. Fate' = [Fate EXCEPT ![j] = "ended"]
  BY <1>1, <1>2, FateChanges DEF JobState
<1>4. activeTaskIds' = [activeTaskIds EXCEPT ![l] = @ \ {j}]
  <2>1. CASE taskGeneration[j] = generation[l]
    BY <2>1 DEF CompleteTask
  <2>2. CASE taskGeneration[j] # generation[l]
    <3>1. UNCHANGED activeTaskIds
      BY <2>2 DEF CompleteTask
    <3>2. j \notin activeTaskIds[l]
      BY <1>1, <2>2 DEF IndInv, SlotsMatchTasks
    <3>3. activeTaskIds[l] \ {j} = activeTaskIds[l]
      BY <3>2
    <3>4. activeTaskIds \in [Lanes -> SUBSET Jobs]
      BY <1>1 DEF TypeOK
    <3>5. QED
      BY <1>1, <3>1, <3>3, <3>4
  <2>3. QED
    BY <2>1, <2>2
<1>5. QED
  BY <1>1, <1>3, <1>4 DEF Service!End

LEMMA ServiceStep == IndInv /\ [QueueNext]_vars => [Service!Next]_(Service!laneVars)
<1> SUFFICES ASSUME IndInv, [QueueNext]_vars
             PROVE  Service!Next \/ UNCHANGED Service!laneVars
  OBVIOUS
<1>0. TypeOK
  BY DEF IndInv
<1> DEFINE Hidden == UNCHANGED <<queue, activeTaskIds, maxConcurrent, gatewayDraining, job>>
<1>1. CASE Hidden
  BY <1>1, FateKept DEF Service!laneVars
<1>2. ASSUME NEW j \in Jobs, Enqueue(j) PROVE Service!Next
  BY <1>0, <1>2, EnqueueServes DEF Enqueue, Service!Next
<1>3. ASSUME NEW j \in Jobs, TaskEnqueuesInner(j) PROVE Service!Next
  <2>1. Inner[j] \in Jobs /\ InTask(j)
    BY <1>3, InnerAssumption DEF TaskEnqueuesInner
  <2>2. job[Inner[j]] = "new"
    BY <1>3, <2>1 DEF IndInv, InnerIsNew, TaskEnqueuesInner
  <2>3. QED
    BY <1>0, <1>3, <2>1, <2>2, EnqueueServes DEF TaskEnqueuesInner, Service!Next
<1>4. ASSUME NEW j \in Jobs, TaskThrows(j) \/ TaskEnds(j) PROVE Service!Next
  <2>1. job[j] = "running"
    BY <1>4, TaskContext DEF TaskThrows, TaskEnds
  <2>2. QED
    BY <1>4, <2>1, CompleteServes DEF TaskThrows, TaskEnds, Service!Next
<1>5. ASSUME NEW j \in Jobs, TaskAwaits(j) PROVE Hidden
  BY <1>5 DEF TaskAwaits, laneVars
<1>6. ASSUME NEW l \in Lanes, PumpStart(l) PROVE Service!Next
  <2> DEFINE j == Head(queue[l])
  <2>1. /\ Cardinality(activeTaskIds[l]) < maxConcurrent[l] /\ queue[l] # <<>>
        /\ queue' = [queue EXCEPT ![l] = Tail(@)]
        /\ activeTaskIds' = [activeTaskIds EXCEPT ![l] = @ \cup {j}]
        /\ job' = [job EXCEPT ![j] = "running"]
        /\ UNCHANGED <<maxConcurrent, gatewayDraining>>
    BY <1>6 DEF PumpStart, CanStart
  <2>2. j \in Jobs /\ job[j] = "queued"
    <3>1. queue[l] \in Seq(Jobs) /\ queue[l] # <<>>
      BY <1>0, <2>1 DEF TypeOK
    <3>2. 1 \in 1..Len(queue[l]) /\ j = queue[l][1] /\ j \in Jobs
      BY <3>1
    <3>3. QED
      BY <3>2 DEF IndInv, QueueMatchesJobs
  <2>3. Fate[j] = "queued" /\ Fate' = [Fate EXCEPT ![j] = "running"]
    <3> HIDE DEF j
    <3>1. Fate[j] = "queued"
      BY <2>2 DEF Fate
    <3>2. QED
      BY <1>0, <2>1, <2>2, <3>1, FateChanges DEF JobState
  <2>4. Service!Start(l)
    <3>1. UNCHANGED <<maxConcurrent, ~gatewayDraining>>
      BY <2>1
    <3> HIDE DEF Fate
    <3>2. QED
      <4>1. queue[l] # <<>> /\ Cardinality(activeTaskIds[l]) < maxConcurrent[l]
        BY <2>1
      <4>2. Fate[Head(queue[l])] = "queued"
        BY <2>3
      <4>3. Fate' = [Fate EXCEPT ![Head(queue[l])] = "running"]
        BY <2>3
      <4>4. activeTaskIds' = [activeTaskIds EXCEPT ![l] = @ \cup {Head(queue[l])}]
        BY <2>1
      <4>5. queue' = [queue EXCEPT ![l] = Tail(@)]
        BY <2>1
      <4>6. Service!Cardinality(activeTaskIds[l]) = Cardinality(activeTaskIds[l])
        BY DEF Service!Cardinality, Cardinality
      <4>7. QED
        BY <4>1, <4>2, <4>3, <4>4, <4>5, <4>6, <3>1 DEF Service!Start
  <2>5. QED
    BY <2>4 DEF Service!Next
<1>7. ASSUME NEW l \in Lanes, PumpExit(l) PROVE UNCHANGED Service!laneVars
  <2>1. /\ stack # <<>> /\ Last(stack).kind = "pump"
        /\ job' = [i \in Jobs |-> IF i = Last(stack).job THEN "settled" ELSE job[i]]
        /\ UNCHANGED <<queue, activeTaskIds, maxConcurrent, gatewayDraining>>
    BY <1>7 DEF PumpExit, InPump
  <2>2. ASSUME NEW i \in Jobs, i = Last(stack).job PROVE job[i] = "settling"
    <3>1. stack \in Seq(Frame) /\ Len(stack) \in 1..Len(stack) /\ Last(stack) = stack[Len(stack)]
      BY <1>0, <2>1, PopFacts DEF TypeOK
    <3>2. i # NoJob
      BY NoJobAssumption
    <3>3. QED
      BY <2>1, <2>2, <3>1, <3>2 DEF IndInv, FramesMatchJobs, FramesMatch
  <2>3. \A i \in Jobs : \/ job'[i] = job[i]
                        \/ job[i] = "settling" /\ job'[i] = "settled"
    BY <2>1, <2>2
  <2>4. UNCHANGED Fate
    BY <2>3 DEF Fate
  <2>5. QED
    BY <2>1, <2>4 DEF Service!laneVars
<1>8. ASSUME NEW l \in Lanes, NEW n \in Int, SetCommandLaneConcurrency(l, n) PROVE Service!Next
  <2>1. /\ maxConcurrent' = [maxConcurrent EXCEPT ![l] = CleanConcurrency(n)]
        /\ UNCHANGED <<queue, activeTaskIds, gatewayDraining, job>>
        /\ CleanConcurrency(n) \in Nat \ {0}
    BY <1>8 DEF SetCommandLaneConcurrency, CleanConcurrency
  <2>2. maxConcurrent'[l] = CleanConcurrency(n)
    BY <1>0, <2>1 DEF TypeOK
  <2>3. Service!Retune(l)
    BY <2>1, <2>2, FateKept DEF Service!Retune
  <2>4. QED
    BY <2>3 DEF Service!Next
<1>9. ASSUME NEW l \in Lanes, ClearCommandLane(l) PROVE Service!Next
  <2> DEFINE Cleared(i) == i \in ToSet(queue[l])
  <2>1. /\ queue' = [queue EXCEPT ![l] = <<>>]
        /\ job' = [i \in Jobs |-> IF Cleared(i) THEN "cleared" ELSE job[i]]
        /\ UNCHANGED <<activeTaskIds, maxConcurrent, gatewayDraining>>
    <3>1. \A i : Cleared(i) <=> \E k \in 1..Len(queue[l]) : queue[l][k] = i
      BY DEF ToSet
    <3>2. QED
      BY <1>9, <3>1 DEF ClearCommandLane
  <2>2. Fate' = [i \in Jobs |-> IF Cleared(i) THEN "cleared" ELSE Fate[i]]
    <3> HIDE DEF Cleared
    <3>1. QED
      BY <2>1 DEF Fate
  <2>3. Service!Clear(l)
    <3>1. UNCHANGED <<activeTaskIds, maxConcurrent, ~gatewayDraining>>
      BY <2>1
    <3>2. QED
      <4>1. Fate' = [i \in Jobs |-> IF i \in ToSet(queue[l]) THEN "cleared" ELSE Fate[i]]
        BY <2>2
      <4>2. queue' = [queue EXCEPT ![l] = <<>>]
        BY <2>1
      <4>3. QED
        BY <4>1, <4>2, <3>1 DEF Service!Clear, Service!ToSet, ToSet
  <2>4. QED
    BY <2>3 DEF Service!Next
<1>10. CASE MarkGatewayDraining
  BY <1>10, FateKept DEF MarkGatewayDraining, laneVars, Service!Next, Service!Close
<1>11. CASE ResetAllLanes
  BY <1>11, FateKept DEF ResetAllLanes, Service!Next, Service!Reset
<1>12. ASSUME NEW l \in Lanes, ResetStep(l) PROVE Hidden
  BY <1>12 DEF ResetStep
<1>13. CASE UNCHANGED vars
  BY <1>1, <1>13 DEF vars
<1>14. CASE Synchronous
  BY <1>1, <1>3, <1>4, <1>5, <1>6, <1>7, <1>12, <1>14 DEF Synchronous
<1>15. CASE Callback
  BY <1>2, <1>4, <1>8, <1>9, <1>15, ConcAssumption DEF Callback
<1>16. QED
  BY <1>10, <1>11, <1>13, <1>14, <1>15 DEF QueueNext

LEMMA ServiceInit == Init => Service!Init
  BY DEF Init, Service!Init, Fate

(* Whatever tasks do to the queue while it pumps, its users see first-in      *)
(* first-out lanes with slots: an entry is started once, as the oldest of its *)
(* lane, into a free slot, and nothing but its own end or a reset frees it.   *)
THEOREM QueueServesLanes == Spec => ImplementsLanes
<1>1. [Next]_vars => [QueueNext]_vars
  BY DEF Next, QueueNext
<1>2. QED
  BY <1>1, InitInd, NextInd, ServiceInit, ServiceStep, PTL DEF Spec, ImplementsLanes, Service!Spec

-----------------------------------------------------------------------------
(* No circular wait. *)

(* Every nonempty set of naturals has a least element, from the library's  *)
(* fact that < is well founded on them.                                    *)
LEMMA LeastByRelation ==
    ASSUME NEW S, S \subseteq Nat, S # {}, NEW R, IsWellFoundedOn(R, Nat),
           \A x, y \in Nat : <<y, x>> \in R <=> y < x
    PROVE  \E m \in S : \A n \in S : m <= n
<1>1. \E x \in S : \A y \in S : ~(<<y, x>> \in R)
  BY WFMin
<1>2. PICK x \in S : \A y \in S : ~(<<y, x>> \in R)
  BY <1>1
<1>3. ASSUME NEW y \in S PROVE x <= y
  <2>1. x \in Nat /\ y \in Nat
    OBVIOUS
  <2>2. ~(<<y, x>> \in R)
    BY <1>2
  <2>3. ~(y < x)
    BY <2>1, <2>2
  <2>4. QED
    BY <2>1, <2>3
<1>4. QED
  BY <1>3

LEMMA LeastOf ==
    ASSUME NEW S, S \subseteq Nat, S # {}
    PROVE  \E m \in S : \A n \in S : m <= n
<1>1. IsWellFoundedOn(OpToRel(<, Nat), Nat)
  BY NatLessThanWellFounded
<1>2. \A x, y \in Nat : <<y, x>> \in OpToRel(<, Nat) <=> y < x
  BY DEF OpToRel
<1>3. QED
  BY <1>1, <1>2, LeastByRelation

(* The call stack s has a pump loop that will settle j. *)
WillSettle(s, j) == \E i \in 1..Len(s) : s[i].kind = "pump" /\ s[i].job = j

(* A task whose inner entry nobody has enqueued is in its prefix, and a       *)
(* completion that has not settled its promise is on the call stack: between  *)
(* callbacks there is neither.                                                *)
AwaitsInner == \A j \in Jobs :
    job[j] = "running" /\ Inner[j] # NoJob /\ job[Inner[j]] = "new" => InTask(j)
SettlingIsOnStack == \A j \in Jobs : job[j] = "settling" => WillSettle(stack, j)
AwaitInv == AwaitsInner /\ SettlingIsOnStack

LEMMA WillSettlePush ==
    ASSUME NEW s \in Seq(Frame), NEW f \in Frame, NEW j
    PROVE  /\ WillSettle(s, j) => WillSettle(Append(s, f), j)
           /\ f.kind = "pump" /\ f.job = j => WillSettle(Append(s, f), j)
  BY PushFacts DEF WillSettle

LEMMA WillSettlePop ==
    ASSUME NEW s \in Seq(Frame), s # <<>>, NEW j, WillSettle(s, j),
           Last(s).kind = "pump" => Last(s).job # j
    PROVE  WillSettle(Front(s), j)
<1>1. /\ Len(s) \in Nat \ {0} /\ Len(Front(s)) = Len(s) - 1
      /\ \A i \in 1..Len(Front(s)) : Front(s)[i] = s[i]
      /\ Last(s) = s[Len(s)]
  BY PopFacts DEF Last
<1>2. PICK i \in 1..Len(s) : s[i].kind = "pump" /\ s[i].job = j
  BY DEF WillSettle
<1>3. i # Len(s)
  BY <1>1, <1>2
<1>4. i \in 1..Len(Front(s))
  BY <1>1, <1>3
<1>5. QED
  BY <1>1, <1>2, <1>4 DEF WillSettle

(* drainLane takes no frame away. *)
LEMMA DrainLaneSettles ==
    ASSUME NEW l \in Lanes, NEW s \in Seq(Frame), DrainLane(l, s), NEW j, WillSettle(s, j)
    PROVE  WillSettle(stack', j)
<1>1. PumpFrame(l, NoJob) \in Frame
  BY PumpFrameType
<1>2. CASE draining[l]
  BY <1>2 DEF DrainLane
<1>3. CASE ~draining[l]
  <2>1. stack' = Append(s, PumpFrame(l, NoJob))
    BY <1>3 DEF DrainLane
  <2>2. WillSettle(Append(s, PumpFrame(l, NoJob)), j)
    BY <1>1, WillSettlePush
  <2>3. QED
    BY <2>1, <2>2
<1>4. QED
  BY <1>2, <1>3

(* A step that starts and enqueues nothing, outside of any task prefix.       *)
LEMMA AwaitKept ==
    ASSUME TypeOK, AwaitInv, \A j \in Jobs : ~InTask(j),
           \A j \in Jobs : /\ job'[j] \in {"new", "running"} => job'[j] = job[j]
                           /\ job'[j] = "settling" => WillSettle(stack', j)
    PROVE  AwaitInv'
<1>1. \A j \in Jobs : Inner[j] # NoJob => Inner[j] \in Jobs
  BY InnerAssumption
<1>2. AwaitsInner'
  BY <1>1 DEF AwaitInv, AwaitsInner
<1>3. SettlingIsOnStack'
  BY DEF SettlingIsOnStack
<1>4. QED
  BY <1>2, <1>3 DEF AwaitInv

LEMMA EnqueueAwait ==
    ASSUME TypeOK, NEW j \in Jobs, job[j] = "new", NEW s \in Seq(Frame), EnqueueCommandInLane(j, s),
           \A i \in Jobs : job[i] = "settling" => WillSettle(s, i),
           \A i \in Jobs : job[i] = "running" /\ Inner[i] # NoJob /\ Inner[i] # j => job[Inner[i]] # "new"
    PROVE  AwaitInv'
<1>1. /\ \/ job' = [job EXCEPT ![j] = "refused"] /\ stack' = s
         \/ job' = [job EXCEPT ![j] = "queued"] /\ DrainLane(LaneOf[j], s)
      /\ LaneOf[j] \in Lanes
  BY LaneOfAssumption DEF EnqueueCommandInLane
<1>2. \A i \in Jobs : i # j => job'[i] = job[i]
  BY <1>1 DEF TypeOK
<1>3. job'[j] \in {"refused", "queued"}
  BY <1>1 DEF TypeOK
<1>4. AwaitsInner'
  <2> SUFFICES ASSUME NEW i \in Jobs, job'[i] = "running", Inner[i] # NoJob, job'[Inner[i]] = "new"
               PROVE  FALSE
    BY DEF AwaitsInner
  <2>1. Inner[i] \in Jobs
    BY InnerAssumption
  <2>2. QED
    BY <1>2, <1>3, <2>1
<1>5. SettlingIsOnStack'
  <2> SUFFICES ASSUME NEW i \in Jobs, job'[i] = "settling" PROVE WillSettle(stack', i)
    BY DEF SettlingIsOnStack
  <2>1. WillSettle(s, i)
    BY <1>2, <1>3
  <2>2. QED
    BY <1>1, <2>1, DrainLaneSettles
<1>6. QED
  BY <1>4, <1>5 DEF AwaitInv

LEMMA CompleteAwait ==
    ASSUME TypeOK, NEW j \in Jobs, NEW s \in Seq(Frame), CompleteTask(j, s),
           \A i \in Jobs : job[i] = "settling" => WillSettle(s, i)
    PROVE  /\ \A i \in Jobs : job'[i] \in {"new", "running"} => job'[i] = job[i]
           /\ \A i \in Jobs : job'[i] = "settling" => WillSettle(stack', i)
<1>1. LaneOf[j] \in Lanes
  BY LaneOfAssumption
<1>2. \/ job' = [job EXCEPT ![j] = "settled"] /\ stack' = s
      \/ job' = [job EXCEPT ![j] = "settling"] /\ stack' = Append(s, PumpFrame(LaneOf[j], j))
  BY DEF CompleteTask
<1>3. \A i \in Jobs : i # j => job'[i] = job[i]
  BY <1>2 DEF TypeOK
<1>4. job'[j] \in {"settled", "settling"}
  BY <1>2 DEF TypeOK
<1>5. ASSUME NEW i \in Jobs, job'[i] = "settling" PROVE WillSettle(stack', i)
  <2> DEFINE f == PumpFrame(LaneOf[j], j)
  <2>1. f \in Frame /\ f.kind = "pump" /\ f.job = j
    BY <1>1, PumpFrameType
  <2>2. i = j => stack' = Append(s, f)
    BY <1>2, <1>5 DEF TypeOK
  <2>3. i # j => WillSettle(s, i)
    BY <1>3, <1>5
  <2> HIDE DEF f
  <2>4. WillSettle(s, i) \/ i = j => WillSettle(Append(s, f), i)
    BY <2>1, WillSettlePush
  <2>5. stack' = s \/ stack' = Append(s, f)
    BY <1>2 DEF f
  <2>6. QED
    BY <2>2, <2>3, <2>4, <2>5
<1>6. QED
  BY <1>3, <1>4, <1>5

(* The innermost frame is not a pump loop that settles anything when a task is there. *)
LEMMA PrefixSettles ==
    ASSUME IndInv, SettlingIsOnStack, NEW j \in Jobs, InTask(j)
    PROVE  /\ Front(stack) \in Seq(Frame)
           /\ \A i \in Jobs : job[i] = "settling" => WillSettle(Front(stack), i)
<1>1. stack \in Seq(Frame) /\ stack # <<>> /\ Last(stack).kind = "task"
  BY DEF IndInv, TypeOK, InTask
<1>2. QED
  BY <1>1, PopFacts, WillSettlePop DEF SettlingIsOnStack

LEMMA AwaitStep == IndInv /\ AwaitInv /\ [QueueNext]_vars => AwaitInv'
<1> SUFFICES ASSUME IndInv, AwaitInv, [QueueNext]_vars PROVE AwaitInv'
  OBVIOUS
<1>0. TypeOK /\ AwaitsInner /\ SettlingIsOnStack /\ stack \in Seq(Frame) /\ NoJob \notin Jobs
  BY NoJobAssumption DEF IndInv, AwaitInv, TypeOK
<1>1. EventLoop => \A j \in Jobs : ~InTask(j)
  BY DEF EventLoop, InTask
<1>2. ASSUME NEW j \in Jobs, Enqueue(j) PROVE AwaitInv'
  <2>1. \A i \in Jobs : job[i] = "running" /\ Inner[i] # NoJob => job[Inner[i]] # "new"
    BY <1>0, <1>1, <1>2 DEF Enqueue, AwaitsInner
  <2>2. QED
    BY <1>0, <1>2, <2>1, EnqueueAwait DEF Enqueue, SettlingIsOnStack
<1>3. ASSUME NEW j \in Jobs, TaskEnqueuesInner(j) PROVE AwaitInv'
  <2>1. InTask(j) /\ Inner[j] \in Jobs /\ EnqueueCommandInLane(Inner[j], Front(stack))
    BY <1>3, InnerAssumption DEF TaskEnqueuesInner
  <2>2. job[Inner[j]] = "new"
    BY <1>0, <2>1 DEF IndInv, InnerIsNew
  <2>3. ASSUME NEW i \in Jobs, job[i] = "running", Inner[i] # NoJob, Inner[i] # Inner[j]
        PROVE  job[Inner[i]] # "new"
    <3>1. ~InTask(i)
      BY <2>1, <2>3 DEF InTask
    <3>2. QED
      BY <1>0, <2>3, <3>1 DEF AwaitsInner
  <2>4. QED
    BY <1>0, <2>1, <2>2, <2>3, PrefixSettles, EnqueueAwait
<1>4. ASSUME NEW j \in Jobs, TaskAwaits(j) \/ TaskThrows(j) PROVE AwaitInv'
  <2>1. InTask(j) /\ Inner[j] = NoJob
    BY <1>4 DEF TaskAwaits, TaskThrows
  <2>2. /\ \A i \in Jobs : job'[i] \in {"new", "running"} => job'[i] = job[i]
        /\ \A i \in Jobs : job'[i] = "settling" => WillSettle(stack', i)
    <3>1. CASE TaskAwaits(j)
      BY <1>0, <2>1, <3>1, PrefixSettles DEF TaskAwaits
    <3>2. CASE TaskThrows(j)
      BY <1>0, <2>1, <3>2, PrefixSettles, CompleteAwait DEF TaskThrows
    <3>3. QED
      BY <1>4, <3>1, <3>2
  <2>3. \A i \in Jobs : InTask(i) => i = j
    BY <2>1 DEF InTask
  <2>4. AwaitsInner'
    <3> SUFFICES ASSUME NEW i \in Jobs, job'[i] = "running", Inner[i] # NoJob,
                        job'[Inner[i]] = "new"
                 PROVE  FALSE
      BY DEF AwaitsInner
    <3>1. Inner[i] \in Jobs /\ i # j
      BY <2>1, InnerAssumption
    <3>2. job[i] = "running" /\ job[Inner[i]] = "new"
      BY <2>2, <3>1
    <3>3. QED
      BY <1>0, <2>3, <3>1, <3>2 DEF AwaitsInner
  <2>5. QED
    BY <2>2, <2>4 DEF AwaitInv, SettlingIsOnStack
<1>5. ASSUME NEW l \in Lanes, PumpStart(l) PROVE AwaitInv'
  <2> DEFINE j == Head(queue[l])
  <2>1. /\ InPump(l) /\ queue[l] \in Seq(Jobs) /\ queue[l] # <<>>
        /\ job' = [job EXCEPT ![j] = "running"] /\ stack' = Append(stack, TaskFrame(j))
    BY <1>0, <1>5 DEF PumpStart, CanStart, TypeOK
  <2>2. j \in Jobs /\ TaskFrame(j) \in Frame /\ TaskFrame(j).kind = "task" /\ TaskFrame(j).job = j
    <3>1. j \in Jobs
      BY <2>1
    <3>2. QED
      BY <3>1, LaneOfAssumption DEF TaskFrame, Frame
  <2> HIDE DEF j
  <2>3. ASSUME NEW i \in Jobs, i = j PROVE InTask(i)'
    <3>1. stack' # <<>> /\ Last(stack') = TaskFrame(j)
      BY <1>0, <2>1, <2>2, PushFacts
    <3>2. QED
      BY <2>2, <2>3, <3>1 DEF InTask
  <2>4. \A i \in Jobs : i # j => job'[i] = job[i] /\ job'[j] = "running"
    BY <1>0, <2>1, <2>2 DEF TypeOK
  <2>5. AwaitsInner'
    <3> SUFFICES ASSUME NEW i \in Jobs, i # j, job'[i] = "running", Inner[i] # NoJob,
                        job'[Inner[i]] = "new"
                 PROVE  FALSE
      BY <2>3 DEF AwaitsInner
    <3>1. Inner[i] \in Jobs
      BY InnerAssumption
    <3>2. job[i] = "running" /\ job[Inner[i]] = "new"
      BY <2>4, <3>1
    <3>3. ~InTask(i)
      BY <2>1 DEF InTask, InPump
    <3>4. QED
      BY <1>0, <3>2, <3>3 DEF AwaitsInner
  <2>6. SettlingIsOnStack'
    <3> SUFFICES ASSUME NEW i \in Jobs, job'[i] = "settling" PROVE WillSettle(stack', i)
      BY DEF SettlingIsOnStack
    <3>1. job[i] = "settling"
      BY <2>4, <1>0, <2>1, <2>2 DEF TypeOK
    <3>2. QED
      BY <1>0, <2>1, <2>2, <3>1, WillSettlePush DEF SettlingIsOnStack
  <2>7. QED
    BY <2>5, <2>6 DEF AwaitInv
<1>6. ASSUME NEW l \in Lanes, PumpExit(l) PROVE AwaitInv'
  <2>1. /\ stack # <<>> /\ Last(stack).kind = "pump" /\ stack' = Front(stack)
        /\ job' = [i \in Jobs |-> IF i = Last(stack).job THEN "settled" ELSE job[i]]
    BY <1>6 DEF PumpExit, InPump
  <2>2. \A i \in Jobs : ~InTask(i)
    BY <2>1 DEF InTask
  <2>3. \A i \in Jobs : job'[i] \in {"new", "running"} => job'[i] = job[i]
    BY <2>1
  <2>4. ASSUME NEW i \in Jobs, job'[i] = "settling" PROVE WillSettle(stack', i)
    <3>1. job[i] = "settling" /\ i # Last(stack).job
      BY <2>1, <2>4
    <3>2. WillSettle(stack, i)
      BY <1>0, <3>1 DEF SettlingIsOnStack
    <3>3. QED
      BY <1>0, <2>1, <3>1, <3>2, WillSettlePop
  <2>5. QED
    BY <1>0, <2>2, <2>3, <2>4, AwaitKept
<1>7. ASSUME NEW j \in Jobs, TaskEnds(j) PROVE AwaitInv'
  BY <1>0, <1>1, <1>7, CompleteAwait, AwaitKept DEF TaskEnds, SettlingIsOnStack
<1>8. ASSUME NEW l \in Lanes, NEW n, SetCommandLaneConcurrency(l, n) PROVE AwaitInv'
  BY <1>0, <1>1, <1>8, DrainLaneSettles, AwaitKept DEF SetCommandLaneConcurrency, SettlingIsOnStack
<1>9. ASSUME NEW l \in Lanes, ClearCommandLane(l) PROVE AwaitInv'
  <2>1. \A i \in Jobs : job'[i] \in {job[i], "cleared"}
    BY <1>9 DEF ClearCommandLane
  <2>2. EventLoop /\ stack' = stack
    BY <1>9 DEF ClearCommandLane
  <2>3. \A i \in Jobs : /\ job'[i] \in {"new", "running"} => job'[i] = job[i]
                        /\ job'[i] = "settling" => WillSettle(stack', i)
    BY <1>0, <2>1, <2>2 DEF SettlingIsOnStack
  <2>4. QED
    BY <1>0, <1>1, <2>2, <2>3, AwaitKept
<1>10. CASE MarkGatewayDraining \/ ResetAllLanes
  BY <1>0, <1>1, <1>10, AwaitKept DEF MarkGatewayDraining, ResetAllLanes, SettlingIsOnStack
<1>11. ASSUME NEW l \in Lanes, ResetStep(l) PROVE AwaitInv'
  <2>1. stack = <<>> /\ DrainLane(l, stack) /\ UNCHANGED job
    BY <1>11 DEF ResetStep
  <2>2. \A j \in Jobs : ~InTask(j)
    BY <2>1 DEF InTask
  <2>3. QED
    BY <1>0, <2>1, <2>2, DrainLaneSettles, AwaitKept DEF SettlingIsOnStack
<1>12. CASE UNCHANGED vars
  <2>1. job' = job /\ stack' = stack
    BY <1>12 DEF vars
  <2>2. AwaitsInner'
    BY <1>0, <2>1 DEF AwaitsInner, InTask
  <2>3. SettlingIsOnStack'
    BY <1>0, <2>1 DEF SettlingIsOnStack, WillSettle
  <2>4. QED
    BY <2>2, <2>3 DEF AwaitInv
<1>13. CASE Synchronous
  BY <1>3, <1>4, <1>5, <1>6, <1>11, <1>13 DEF Synchronous
<1>14. CASE Callback
  BY <1>2, <1>7, <1>8, <1>9, <1>14, ConcAssumption DEF Callback
<1>15. QED
  BY <1>10, <1>12, <1>13, <1>14 DEF QueueNext

LEMMA AwaitInit == Init => AwaitInv
  BY InnerAssumption DEF Init, AwaitInv, AwaitsInner, SettlingIsOnStack

(* Tasks wait for entries of lanes that are ranked below their own.           *)
Ranked(Rank) ==
    /\ Rank \in [Lanes -> Nat]
    /\ \A j \in Jobs : Inner[j] # NoJob => Rank[LaneOf[Inner[j]]] < Rank[LaneOf[j]]

(* Between callbacks a running task of a deadlocked set waits for a job of    *)
(* the set, on a lane of lower rank.                                          *)
LEMMA RunningWaitsBelow ==
    ASSUME IndInv, AwaitInv, EventLoop, NEW Rank, Ranked(Rank), NEW S \in SUBSET Jobs,
           Deadlocked(S), NEW j \in S, job[j] = "running"
    PROVE  \E k \in S : Rank[LaneOf[k]] < Rank[LaneOf[j]]
<1>1. Inner[j] # NoJob /\ Inner[j] \in Jobs /\ job[Inner[j]] \notin Done
  BY InnerAssumption DEF Deadlocked
<1>2. job[Inner[j]] # "new"
  BY <1>1 DEF AwaitInv, AwaitsInner, EventLoop, InTask
<1>3. job[Inner[j]] # "settling"
  BY <1>1 DEF AwaitInv, SettlingIsOnStack, EventLoop, WillSettle
<1>4. Inner[j] \in S
  BY <1>1, <1>2, <1>3 DEF Deadlocked, Unfinished, Done, IndInv, TypeOK, JobState
<1>5. QED
  BY <1>1, <1>4 DEF Ranked

(* A queued entry waits for a task that holds a slot of its lane.             *)
LEMMA QueuedWaitsBeside ==
    ASSUME IndInv, EventLoop, NEW S \in SUBSET Jobs, Deadlocked(S), NEW j \in S, job[j] = "queued"
    PROVE  \E h \in S : job[h] = "running" /\ LaneOf[h] = LaneOf[j]
<1> DEFINE l == LaneOf[j]
<1>1. l \in Lanes
  BY LaneOfAssumption
<1>2. queue[l] # <<>>
  BY <1>1 DEF IndInv, QueueMatchesJobs
<1>3. ~(Cardinality(activeTaskIds[l]) < maxConcurrent[l])
  BY <1>1, <1>2 DEF IndInv, NoLostWakeup, CanStart, EventLoop, Pumping, HasPump
<1>4. activeTaskIds[l] # {}
  <2>1. maxConcurrent[l] \in Nat \ {0}
    BY <1>1 DEF IndInv, TypeOK
  <2>2. QED
    BY <1>3, <2>1, FS_EmptySet
<1>5. PICK h \in activeTaskIds[l] : TRUE
  BY <1>4
<1>6. h \in Jobs /\ job[h] = "running" /\ LaneOf[h] = l
  BY <1>1, <1>5 DEF IndInv, SlotsMatchTasks
<1>7. h \in S
  BY <1>5, <1>6 DEF Deadlocked, Unfinished
<1>8. QED
  BY <1>6, <1>7

LEMMA NobodyIsStuck ==
    ASSUME IndInv, AwaitInv, NEW Rank, Ranked(Rank)
    PROVE  NoDeadlock
<1> SUFFICES ASSUME EventLoop, NEW S \in SUBSET Jobs, Deadlocked(S), S # {}
             PROVE  FALSE
  BY DEF NoDeadlock
<1> DEFINE ranks == {Rank[LaneOf[j]] : j \in S}
<1>1. ranks \subseteq Nat /\ ranks # {}
  BY LaneOfAssumption DEF Ranked
<1>2. PICK m \in ranks : \A n \in ranks : m <= n
  <2> HIDE DEF ranks
  <2>1. QED
    BY <1>1, LeastOf
<1>3. PICK j \in S : Rank[LaneOf[j]] = m
  OBVIOUS
<1>4. job[j] \in {"queued", "running"}
  BY DEF Deadlocked
<1>5. PICK h \in S : job[h] = "running" /\ Rank[LaneOf[h]] = m
  BY <1>3, <1>4, QueuedWaitsBeside
<1>6. PICK k \in S : Rank[LaneOf[k]] < m
  BY <1>5, RunningWaitsBelow
<1>7. Rank[LaneOf[k]] \in ranks /\ Rank[LaneOf[k]] \in Nat /\ m \in Nat
  BY <1>1
<1>8. QED
  BY <1>2, <1>6, <1>7

(* As long as tasks wait only for lanes ranked below their own (agent runs hold *)
(* a session lane and wait for a global lane, never the other way round), no    *)
(* jobs are ever stuck among themselves, whatever the caps of the lanes, the    *)
(* number of sessions and the resets.                                           *)
THEOREM NoCircularWait ==
    ASSUME NEW Rank, Ranked(Rank)
    PROVE  Spec => []NoDeadlock
<1>1. [Next]_vars => [QueueNext]_vars
  BY DEF Next, QueueNext
<1>2. IndInv /\ AwaitInv => NoDeadlock
  BY NobodyIsStuck
<1>3. QED
  BY <1>1, <1>2, InitInd, NextInd, AwaitInit, AwaitStep, PTL DEF Spec
=============================================================================
