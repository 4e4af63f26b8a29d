------------------------ MODULE DeliveryQueue_proofs ------------------------
(***************************************************************************)
(* Proofs about DeliveryQueue, for any number of deliveries and recoveries *)
(* and any schedule: the types, that only an AbortError loses what was     *)
(* written to the queue,                                                   *)
(* that nothing is sent again without a cause, and that the queue          *)
(* implements Outbox.                                                      *)
(***************************************************************************)
EXTENDS DeliveryQueue, TLAPS

(* A sender that is past a payload of a delivery that must be sent whole   *)
(* has sent it.                                                            *)
SentSoFar ==
    \A w \in Senders :
        sender[w].id \notin BestEffort
            => \A k \in 1..(sender[w].next - 1) : <<sender[w].id, k>> \in reached

(* What is acknowledged was sent whole, or cut off by an AbortError.        *)
AckIsDue ==
    \A w \in Senders :
        sender[w].at = "ack" /\ sender[w].id \notin BestEffort
            => AllReached(sender[w].id) \/ sender[w].id \in aborted \cup timedOut

IndInv == TypeOK /\ SentSoFar /\ AckIsDue /\ OnlyAbortsLose

(* What TypeOK says of one sender, of all of them, and of the rest.        *)
GoodState(w, s) ==
    /\ s \in SenderState
    /\ s.next <= Payloads[s.id] + 1
    /\ Live(w) => s.id = w
SendersTyped ==
    /\ sender \in [Senders -> SenderState]
    /\ \A w \in Senders : GoodState(w, sender[w])
DiskTyped == file \in [Deliveries -> Nat \cup {NoFile}] /\ failed \in SUBSET Deliveries
RecoveryTyped ==
    /\ todo \in [Recoveries -> SUBSET Deliveries]
    /\ loaded \in [Recoveries -> [Deliveries -> Nat \cup {NoFile}]]
    /\ spent \in [Recoveries -> Nat]
HistoryTyped ==
    /\ persisted \in SUBSET Deliveries
    /\ aborted \in SUBSET Deliveries /\ timedOut \in SUBSET Deliveries
    /\ reached \in SUBSET (Deliveries \X Nat)
    /\ doubled \in BOOLEAN /\ trouble \in BOOLEAN

LEMMA TypeParts ==
    TypeOK <=> up \in BOOLEAN /\ SendersTyped /\ DiskTyped /\ RecoveryTyped /\ HistoryTyped
  BY Zenon DEF TypeOK, SendersTyped, GoodState, DiskTyped, RecoveryTyped, HistoryTyped

LEMMA TypePartsNext ==
    up' \in BOOLEAN /\ SendersTyped' /\ DiskTyped' /\ RecoveryTyped' /\ HistoryTyped'
        => TypeOK'
  BY Zenon DEF TypeOK, SendersTyped, GoodState, DiskTyped, RecoveryTyped, HistoryTyped

Places == {"new", "enqueue", "send", "ack", "count", "write", "move", "load", "next", "over"}

(* What the actions put into sender is well typed.                         *)
LEMMA FreshType ==
    ASSUME NEW d \in Deliveries, NEW at \in Places
    PROVE  /\ Fresh(d, at) \in SenderState
           /\ Fresh(d, at).at = at /\ Fresh(d, at).id = d /\ Fresh(d, at).next = 1
           /\ Fresh(d, at).next <= Payloads[d] + 1
  BY DeliveriesAssumption DEF Fresh, SenderState, NoFile, Places

Advanced(x, n, b) == [x EXCEPT !.next = n, !.partial = b]
LEMMA AdvancedType ==
    ASSUME NEW x \in SenderState, NEW n \in Nat, NEW b \in BOOLEAN
    PROVE  /\ Advanced(x, n, b) \in SenderState
           /\ Advanced(x, n, b).at = x.at /\ Advanced(x, n, b).id = x.id
           /\ Advanced(x, n, b).next = n
  BY DEF SenderState, Advanced

LEMMA OwnType ==
    ASSUME NEW w \in Senders
    PROVE  Own(w) \in Deliveries /\ (Live(w) => Own(w) = w)
  BY DeliveriesAssumption DEF Own, Nobody, Live

LEMMA LeftType ==
    ASSUME NEW w \in Senders, NEW at \in Places
    PROVE  /\ GoodState(w, Fresh(Own(w), at))
           /\ Fresh(Own(w), at).at = at /\ Fresh(Own(w), at).next = 1
  BY OwnType, FreshType DEF GoodState

LEMMA InitInv == Init => IndInv
<1> SUFFICES ASSUME Init PROVE IndInv
  OBVIOUS
<1>1. \A w \in Senders : /\ GoodState(w, sender[w]) /\ sender[w].at \in {"new", "over"}
                         /\ sender[w].next = 1
  <2> TAKE w \in Senders
  <2> DEFINE at == IF w \in Deliveries THEN "new" ELSE "over"
  <2>1. sender[w] = Fresh(Own(w), at)
    BY DEF Init
  <2>2. at \in Places /\ at \in {"new", "over"}
    BY DEF Places
  <2>3. QED
    BY <2>1, <2>2, LeftType
<1>2. SendersTyped
  BY <1>1 DEF Init, SendersTyped, GoodState
<1>3. TypeOK
  BY <1>2, TypeParts DEF Init, DiskTyped, RecoveryTyped, HistoryTyped, NothingLoaded
<1>4. SentSoFar /\ AckIsDue /\ OnlyAbortsLose
  BY <1>1 DEF Init, SentSoFar, AckIsDue, OnlyAbortsLose
<1>5. QED
  BY <1>3, <1>4 DEF IndInv

(* One sender moves: the others keep what was known of them.               *)
LEMMA SenderMoves ==
    ASSUME IndInv, NEW w \in Senders, NEW s, GoodState(w, s),
           sender' = [sender EXCEPT ![w] = s],
           reached \subseteq reached', aborted \subseteq aborted', timedOut \subseteq timedOut',
           s.id \notin BestEffort
               => \A k \in 1..(s.next - 1) : <<s.id, k>> \in reached',
           s.at = "ack" /\ s.id \notin BestEffort
               => (\A k \in 1..Payloads[s.id] : <<s.id, k>> \in reached') \/ s.id \in aborted' \cup timedOut'
    PROVE  SendersTyped' /\ SentSoFar' /\ AckIsDue'
<1>0. SendersTyped
  BY TypeParts DEF IndInv
<1>1. sender'[w] = s /\ \A v \in Senders : v # w => sender'[v] = sender[v]
  BY <1>0 DEF SendersTyped
<1>2. SendersTyped'
  BY <1>0, <1>1 DEF SendersTyped, GoodState, Live
<1>3. SentSoFar'
  BY <1>1, <1>0 DEF SentSoFar, IndInv
<1>4. AckIsDue'
  BY <1>1, <1>0 DEF AckIsDue, AllReached, IndInv
<1>5. QED
  BY <1>2, <1>3, <1>4

LEMMA Leaves ==
    ASSUME IndInv, NEW w \in Senders, NEW at \in Places \ {"send", "ack"}, Leave(w, at),
           reached \subseteq reached', aborted \subseteq aborted', timedOut \subseteq timedOut'
    PROVE  SendersTyped' /\ SentSoFar' /\ AckIsDue'
<1> DEFINE s == Fresh(Own(w), at)
<1>1. GoodState(w, s) /\ s.at = at /\ s.next = 1
  BY LeftType, OwnType, FreshType DEF Places
<1>2. sender' = [sender EXCEPT ![w] = s]
  BY DEF Leave
<1>3. \A k \in 1..(s.next - 1) : FALSE
  BY <1>1
<1>4. s.at # "ack"
  BY <1>1
<1> HIDE DEF s
<1>5. QED
  BY <1>1, <1>2, <1>3, <1>4, SenderMoves

LEMMA Sets ==
    ASSUME IndInv, NEW w \in Senders, NEW at \in Places \ {"send", "ack"}, SetAt(w, at),
           reached \subseteq reached', aborted \subseteq aborted', timedOut \subseteq timedOut'
    PROVE  SendersTyped' /\ SentSoFar' /\ AckIsDue'
<1> DEFINE s == [sender[w] EXCEPT !.at = at]
<1>1. GoodState(w, sender[w])
  BY TypeParts DEF IndInv, SendersTyped
<1>2. GoodState(w, s) /\ s.at = at /\ s.id = sender[w].id /\ s.next = sender[w].next
  BY <1>1 DEF GoodState, SenderState, Places
<1>3. sender' = [sender EXCEPT ![w] = s]
  BY DEF SetAt
<1>4. s.id \notin BestEffort => \A k \in 1..(s.next - 1) : <<s.id, k>> \in reached'
  BY <1>2 DEF IndInv, SentSoFar
<1> HIDE DEF s
<1>5. QED
  BY <1>2, <1>3, <1>4, SenderMoves

(* The end of a delivery.                                                  *)
LEMMA Done ==
    ASSUME IndInv, NEW w \in Senders, IsDone(w),
           reached \subseteq reached', aborted \subseteq aborted', timedOut \subseteq timedOut'
    PROVE  /\ SendersTyped' /\ SentSoFar' /\ AckIsDue'
           /\ todo' \in [Recoveries -> SUBSET Deliveries]
<1>1. todo \in [Recoveries -> SUBSET Deliveries]
  BY TypeParts DEF IndInv, RecoveryTyped
<1>2. todo' \in [Recoveries -> SUBSET Deliveries]
  BY <1>1 DEF IsDone
<1>3. \E at \in {"over", "next"} : Leave(w, at)
  BY DEF IsDone
<1>4. QED
  BY <1>2, <1>3, Leaves DEF Places

(* Nothing is lost by a step that takes no file away.                      *)
LEMMA FilesStay ==
    ASSUME IndInv, reached \subseteq reached', aborted \subseteq aborted', timedOut \subseteq timedOut',
           UNCHANGED <<file, failed, persisted>>
    PROVE  OnlyAbortsLose'
  BY DEF IndInv, OnlyAbortsLose, AllReached

(* The core throws, or a delivery is aborted.                              *)
LEMMA Thrown ==
    ASSUME IndInv, NEW w \in Senders, NEW isAbortError \in BOOLEAN, Throws(w, isAbortError),
           reached \subseteq reached', aborted \subseteq aborted', timedOut \subseteq timedOut',
           isAbortError /\ w \in Deliveries \ BestEffort => w \in aborted' \cup timedOut'
    PROVE  SendersTyped' /\ SentSoFar' /\ AckIsDue'
<1>1. CASE Live(w) /\ Leave(w, "over")
  BY <1>1, Leaves DEF Places
<1>2. CASE SetAt(w, "count") \/ SetAt(w, "move")
  BY <1>2, Sets DEF Places
<1>3. CASE Live(w) /\ isAbortError /\ SetAt(w, "ack")
  <2> DEFINE s == [sender[w] EXCEPT !.at = "ack"]
  <2>1. GoodState(w, sender[w])
    BY TypeParts DEF IndInv, SendersTyped
  <2>2. GoodState(w, s) /\ s.at = "ack" /\ s.id = w /\ s.next = sender[w].next
    BY <1>3, <2>1 DEF GoodState, SenderState
  <2>3. sender' = [sender EXCEPT ![w] = s]
    BY <1>3 DEF SetAt
  <2>4. s.id \notin BestEffort => \A k \in 1..(s.next - 1) : <<s.id, k>> \in reached'
    BY <1>3, <2>1, <2>2 DEF IndInv, SentSoFar, GoodState
  <2>5. s.id \notin BestEffort => s.id \in aborted' \cup timedOut'
    BY <1>3, <2>2 DEF Live
  <2> HIDE DEF s
  <2>6. QED
    BY <2>2, <2>3, <2>4, <2>5, SenderMoves
<1>4. QED
  <2>1. CASE isAbortError
    BY <1>1, <1>2, <1>3, <2>1 DEF Throws
  <2>2. CASE ~isAbortError
    BY <1>1, <1>2, <2>2 DEF Throws
  <2>3. QED
    BY <2>1, <2>2

(* A payload fails.                                                        *)
LEMMA Failed ==
    ASSUME IndInv, NEW w \in Senders, NEW isAbortError \in BOOLEAN,
           Sending(w), PayloadFails(w, isAbortError),
           reached \subseteq reached', aborted \subseteq aborted', timedOut \subseteq timedOut',
           isAbortError /\ w \in Deliveries \ BestEffort => w \in aborted' \cup timedOut'
    PROVE  SendersTyped' /\ SentSoFar' /\ AckIsDue'
<1>1. CASE sender[w].id \in BestEffort
  <2>0. PICK b \in BOOLEAN :
          sender' = [sender EXCEPT ![w] = Advanced(sender[w], sender[w].next + 1, b)]
    BY <1>1 DEF PayloadFails, GoesOn, Advanced
  <2> DEFINE s == Advanced(sender[w], sender[w].next + 1, b)
  <2>1. GoodState(w, sender[w])
    BY TypeParts DEF IndInv, SendersTyped
  <2>2. /\ s \in SenderState /\ s.at = "send" /\ s.id = sender[w].id
        /\ s.next = sender[w].next + 1
    <3>1. sender[w] \in SenderState /\ sender[w].next + 1 \in Nat /\ sender[w].at = "send"
      BY <2>1 DEF GoodState, SenderState, Sending
    <3>2. QED
      BY <3>1, AdvancedType
  <2>3. GoodState(w, s)
    BY <2>1, <2>2, DeliveriesAssumption DEF GoodState, Sending, SenderState
  <2>4. sender' = [sender EXCEPT ![w] = s]
    BY <2>0
  <2>5. QED
    BY <1>1, <2>2, <2>3, <2>4, SenderMoves
<1>2. CASE sender[w].id \notin BestEffort
  BY <1>2, Thrown DEF PayloadFails
<1>3. QED
  BY <1>1, <1>2

(* A step of one sender that leaves all but its place and the history.     *)
LEMMA Same ==
    ASSUME IndInv, SendersTyped', SentSoFar', AckIsDue', up' \in BOOLEAN,
           UNCHANGED <<file, failed, persisted>>, RecoveryTyped',
           reached \subseteq reached', reached' \in SUBSET (Deliveries \X Nat),
           aborted \subseteq aborted', aborted' \in SUBSET Deliveries,
           timedOut \subseteq timedOut', timedOut' \in SUBSET Deliveries,
           doubled' \in BOOLEAN, trouble' \in BOOLEAN
    PROVE  IndInv'
<1>1. DiskTyped' /\ HistoryTyped'
  BY TypeParts DEF IndInv, DiskTyped, HistoryTyped
<1>2. TypeOK'
  BY <1>1, TypePartsNext
<1>3. QED
  BY <1>2, FilesStay DEF IndInv

(* The history and the recoveries' variables that a step leaves alone.     *)
LEMMA Unchanged ==
    ASSUME IndInv
    PROVE  /\ up \in BOOLEAN
           /\ UNCHANGED recoveryVars => RecoveryTyped'
           /\ reached \in SUBSET (Deliveries \X Nat)
           /\ aborted \in SUBSET Deliveries /\ timedOut \in SUBSET Deliveries
           /\ doubled \in BOOLEAN /\ trouble \in BOOLEAN
  BY TypeParts DEF IndInv, RecoveryTyped, HistoryTyped, recoveryVars

-----------------------------------------------------------------------------
(* One lemma per step of a sender. *)

LEMMA DeliverStep == ASSUME IndInv, NEW d \in Deliveries, Deliver(d) PROVE IndInv'
<1>1. SendersTyped' /\ SentSoFar' /\ AckIsDue'
  <2>1. SetAt(d, "enqueue") /\ d \in Senders
    BY DEF Deliver, SetAt, Senders
  <2>2. QED
    BY <2>1, Sets DEF Deliver, historyVars, Places
<1>2. QED
  BY <1>1, Same, Unchanged DEF Deliver, diskVars, recoveryVars, historyVars

LEMMA EnqueueStep == ASSUME IndInv, NEW d \in Deliveries, Enqueue(d) PROVE IndInv'
<1> DEFINE s(q) == [sender[d] EXCEPT !.at = "send", !.queued = q]
<1>0. /\ SendersTyped /\ DiskTyped /\ RecoveryTyped /\ HistoryTyped /\ d \in Senders
      /\ GoodState(d, sender[d])
  BY TypeParts DEF IndInv, Senders, SendersTyped
<1>1. PICK q \in BOOLEAN : /\ sender' = [sender EXCEPT ![d] = s(q)]
                           /\ GoodState(d, s(q)) /\ s(q).next = sender[d].next
                           /\ s(q).id = d /\ s(q).at = "send"
  <2>1. CASE sender' = [sender EXCEPT ![d].at = "send", ![d].queued = TRUE]
    BY <1>0, <2>1 DEF GoodState, SenderState, Live
  <2>2. CASE sender' = [sender EXCEPT ![d].at = "send"]
    BY <1>0, <2>2 DEF GoodState, SenderState, Live
  <2>3. QED
    BY <2>1, <2>2 DEF Enqueue, EnqueueDelivery
<1>2. SendersTyped' /\ SentSoFar' /\ AckIsDue'
  <2>1. \A k \in 1..(s(q).next - 1) : s(q).id \notin BestEffort => <<s(q).id, k>> \in reached'
    BY <1>0, <1>1 DEF IndInv, SentSoFar, GoodState, Enqueue, Live
  <2> HIDE DEF s
  <2>2. QED
    BY <1>0, <1>1, <2>1, SenderMoves DEF Enqueue
<1>3. \/ file' = [file EXCEPT ![d] = 0] /\ persisted' = persisted \cup {d}
      \/ UNCHANGED <<file, persisted>>
  BY DEF Enqueue, EnqueueDelivery
<1>4. /\ UNCHANGED <<up, failed, reached, doubled, aborted, timedOut, trouble>>
      /\ up' \in BOOLEAN /\ RecoveryTyped'
  BY Unchanged DEF Enqueue
<1>5. DiskTyped' /\ HistoryTyped'
  BY <1>0, <1>3, <1>4 DEF DiskTyped, HistoryTyped
<1>6. OnlyAbortsLose'
  BY <1>0, <1>3, <1>4 DEF IndInv, OnlyAbortsLose, AllReached, DiskTyped, HistoryTyped, NoFile
<1>7. QED
  BY <1>2, <1>4, <1>5, <1>6, TypePartsNext DEF IndInv

LEMMA SendSucceedsStep == ASSUME IndInv, NEW w \in Senders, SendSucceeds(w) PROVE IndInv'
<1> DEFINE p == <<sender[w].id, sender[w].next>>
           s == [sender[w] EXCEPT !.next = @ + 1]
<1>1. GoodState(w, sender[w]) /\ Sending(w) /\ reached' = reached \cup {p}
  BY TypeParts DEF IndInv, SendersTyped, SendSucceeds
<1>2. /\ s \in SenderState /\ s.at = "send" /\ s.id = sender[w].id
      /\ s.next = sender[w].next + 1 /\ sender[w].next \in Nat /\ s.id \in Deliveries
  BY <1>1 DEF GoodState, SenderState, Sending
<1>3. GoodState(w, s)
  BY <1>1, <1>2, DeliveriesAssumption DEF GoodState, Sending
<1>4. sender' = [sender EXCEPT ![w] = s]
  BY DEF SendSucceeds
<1>5. s.id \notin BestEffort => \A k \in 1..(s.next - 1) : <<s.id, k>> \in reached'
  BY <1>1, <1>2 DEF IndInv, SentSoFar
<1>6. p \in Deliveries \X Nat
  BY <1>2
<1> HIDE DEF s, p
<1>7. SendersTyped' /\ SentSoFar' /\ AckIsDue'
  BY <1>1, <1>2, <1>3, <1>4, <1>5, SenderMoves DEF SendSucceeds
<1>8. doubled' \in BOOLEAN
  BY Zenon DEF SendSucceeds
<1>9. QED
  BY <1>1, <1>6, <1>7, <1>8, Same, Unchanged DEF SendSucceeds, diskVars

LEMMA SendFailsStep ==
    ASSUME IndInv, NEW w \in Senders, NEW isAbortError \in BOOLEAN, SendFails(w, isAbortError)
    PROVE  IndInv'
<1>1. /\ timedOut \subseteq timedOut'
      /\ isAbortError /\ w \in Deliveries \ BestEffort => w \in timedOut'
  BY DEF SendFails
<1>2. SendersTyped' /\ SentSoFar' /\ AckIsDue'
  BY <1>1, Failed DEF SendFails
<1>3. timedOut' \in SUBSET Deliveries
  BY Unchanged DEF SendFails
<1>4. QED
  BY <1>1, <1>2, <1>3, Same, Unchanged DEF SendFails, diskVars

LEMMA AbortStep == ASSUME IndInv, NEW w \in Senders, Abort(w) PROVE IndInv'
<1>1. SendersTyped' /\ SentSoFar' /\ AckIsDue'
  BY Failed DEF Abort
<1>2. aborted' \in SUBSET Deliveries
  BY Unchanged, DeliveriesAssumption DEF Abort
<1>3. QED
  BY <1>1, <1>2, Same, Unchanged DEF Abort, diskVars

LEMMA CoreThrowsStep == ASSUME IndInv, NEW w \in Senders, CoreThrows(w) PROVE IndInv'
<1>1. SendersTyped' /\ SentSoFar' /\ AckIsDue'
  BY Thrown DEF CoreThrows
<1>2. QED
  BY <1>1, Same, Unchanged DEF CoreThrows, diskVars

LEMMA CoreReturnsStep == ASSUME IndInv, NEW w \in Senders, CoreReturns(w) PROVE IndInv'
<1>1. SendersTyped' /\ SentSoFar' /\ AckIsDue'
  <2>1. CASE Leave(w, "over") \/ SetAt(w, "count")
    BY <2>1, Leaves, Sets DEF CoreReturns, historyVars, Places
  <2>2. CASE SetAt(w, "ack")
    <3> DEFINE s == [sender[w] EXCEPT !.at = "ack"]
    <3>1. GoodState(w, sender[w])
      BY TypeParts DEF IndInv, SendersTyped
    <3>2. GoodState(w, s) /\ s.id = sender[w].id /\ s.next = sender[w].next
      BY <3>1 DEF GoodState, SenderState
    <3>3. sender' = [sender EXCEPT ![w] = s]
      BY <2>2 DEF SetAt
    <3>4. /\ s.id \notin BestEffort => \A k \in 1..(s.next - 1) : <<s.id, k>> \in reached
          /\ s.next > Payloads[s.id] /\ s.next \in Nat /\ Payloads[s.id] \in Nat
      BY <3>1, <3>2, DeliveriesAssumption
         DEF CoreReturns, Sent, IndInv, SentSoFar, GoodState, SenderState
    <3> HIDE DEF s
    <3>5. s.id \notin BestEffort => \A k \in 1..Payloads[s.id] : <<s.id, k>> \in reached
      BY <3>4
    <3>6. UNCHANGED <<reached, aborted, timedOut>>
      BY DEF CoreReturns, historyVars
    <3>7. QED
      BY <3>2, <3>3, <3>4, <3>5, <3>6, SenderMoves
  <2>3. QED
    BY <2>1, <2>2 DEF CoreReturns
<1>2. QED
  BY <1>1, Same, Unchanged DEF CoreReturns, diskVars, historyVars

LEMMA AckDeliveryStep == ASSUME IndInv, NEW w \in Senders, AckDelivery(w) PROVE IndInv'
<1>0. SendersTyped /\ DiskTyped /\ RecoveryTyped /\ HistoryTyped
  BY TypeParts DEF IndInv
<1>1. SendersTyped' /\ SentSoFar' /\ AckIsDue' /\ RecoveryTyped'
  BY <1>0, Done DEF AckDelivery, historyVars, RecoveryTyped
<1>2. DiskTyped' /\ HistoryTyped'
  BY <1>0 DEF AckDelivery, RemovesFile, DiskTyped, HistoryTyped, historyVars
<1>3. sender[w].id \notin BestEffort => AllReached(sender[w].id) \/ sender[w].id \in aborted \cup timedOut
  BY DEF IndInv, AckIsDue, AckDelivery
<1>4. OnlyAbortsLose'
  BY <1>0, <1>3
     DEF AckDelivery, RemovesFile, IndInv, OnlyAbortsLose, AllReached, historyVars, DiskTyped, HistoryTyped
<1>5. QED
  BY <1>1, <1>2, <1>4, Unchanged, TypePartsNext DEF IndInv, AckDelivery

LEMMA ReadCountStep == ASSUME IndInv, NEW w \in Senders, ReadCount(w) PROVE IndInv'
<1>0. SendersTyped /\ DiskTyped /\ RecoveryTyped /\ HistoryTyped
  BY TypeParts DEF IndInv
<1>1. SendersTyped' /\ SentSoFar' /\ AckIsDue' /\ RecoveryTyped'
  <2>1. CASE IsDone(w)
    BY <1>0, <2>1, Done DEF ReadCount, historyVars, RecoveryTyped
  <2>2. CASE /\ UNCHANGED todo
             /\ sender' = [sender EXCEPT ![w].at = "write", ![w].read = file[sender[w].id]]
    <3> DEFINE s == [sender[w] EXCEPT !.at = "write", !.read = file[sender[w].id]]
    <3>1. GoodState(w, sender[w]) /\ file[sender[w].id] \in Nat \cup {NoFile}
      BY <1>0 DEF SendersTyped, DiskTyped, GoodState, SenderState
    <3>2. GoodState(w, s) /\ s.at = "write" /\ s.id = sender[w].id /\ s.next = sender[w].next
      BY <3>1 DEF GoodState, SenderState
    <3>3. sender' = [sender EXCEPT ![w] = s]
      BY <2>2
    <3>4. s.id \notin BestEffort => \A k \in 1..(s.next - 1) : <<s.id, k>> \in reached
      BY <3>2 DEF IndInv, SentSoFar
    <3> HIDE DEF s
    <3>5. SendersTyped' /\ SentSoFar' /\ AckIsDue'
      BY <3>2, <3>3, <3>4, SenderMoves DEF ReadCount, historyVars
    <3>6. QED
      BY <1>0, <2>2, <3>5 DEF ReadCount, RecoveryTyped
  <2>3. QED
    BY <2>1, <2>2 DEF ReadCount
<1>2. QED
  BY <1>1, Same, Unchanged DEF ReadCount, diskVars, historyVars

LEMMA WriteCountStep == ASSUME IndInv, NEW w \in Senders, WriteCount(w) PROVE IndInv'
<1>0. SendersTyped /\ DiskTyped /\ RecoveryTyped /\ HistoryTyped
  BY TypeParts DEF IndInv
<1>1. SendersTyped' /\ SentSoFar' /\ AckIsDue' /\ RecoveryTyped'
  BY <1>0, Done DEF WriteCount, historyVars, RecoveryTyped
<1>2. Counted(w) \in Nat /\ sender[w].id \in Deliveries
  BY <1>0 DEF SendersTyped, GoodState, SenderState, Counted, NoFile
<1> HIDE DEF Counted
<1>3. DiskTyped' /\ HistoryTyped'
  BY <1>0, <1>2 DEF WriteCount, DiskTyped, HistoryTyped, historyVars
<1>4. \A d \in Deliveries : file[d] # NoFile => file'[d] # NoFile
  BY <1>0, <1>2 DEF WriteCount, DiskTyped, NoFile
<1>5. OnlyAbortsLose'
  BY <1>0, <1>4 DEF WriteCount, IndInv, OnlyAbortsLose, AllReached, historyVars, HistoryTyped
<1>6. QED
  BY <1>1, <1>3, <1>5, Unchanged, TypePartsNext DEF IndInv, WriteCount

LEMMA MoveToFailedStep == ASSUME IndInv, NEW w \in Senders, MoveToFailed(w) PROVE IndInv'
<1>0. SendersTyped /\ DiskTyped /\ RecoveryTyped /\ HistoryTyped
  BY TypeParts DEF IndInv
<1>1. SendersTyped' /\ SentSoFar' /\ AckIsDue' /\ RecoveryTyped'
  BY <1>0, Done DEF MoveToFailed, historyVars, RecoveryTyped
<1>2. sender[w].id \in Deliveries
  BY <1>0 DEF SendersTyped, GoodState, SenderState
<1>3. \/ UNCHANGED <<file, failed>>
      \/ /\ file' = [file EXCEPT ![sender[w].id] = NoFile]
         /\ failed' = failed \cup {sender[w].id}
  BY DEF MoveToFailed, diskVars
<1>4. DiskTyped' /\ HistoryTyped'
  BY <1>0, <1>2, <1>3 DEF MoveToFailed, DiskTyped, HistoryTyped, historyVars
<1>5. OnlyAbortsLose'
  BY <1>0, <1>2, <1>3
     DEF MoveToFailed, IndInv, OnlyAbortsLose, AllReached, historyVars, HistoryTyped, DiskTyped
<1>6. QED
  BY <1>1, <1>4, <1>5, Unchanged, TypePartsNext DEF IndInv, MoveToFailed

LEMMA DiskErrorStep == ASSUME IndInv, NEW w \in Senders, DiskError(w) PROVE IndInv'
<1>0. RecoveryTyped
  BY TypeParts DEF IndInv
<1>1. SendersTyped' /\ SentSoFar' /\ AckIsDue' /\ RecoveryTyped'
  <2>1. CASE IsDone(w)
    BY <1>0, <2>1, Done DEF DiskError, RecoveryTyped
  <2>2. CASE SetAt(w, "count") /\ UNCHANGED todo
    BY <1>0, <2>2, Sets DEF DiskError, RecoveryTyped, Places
  <2>3. QED
    BY <2>1, <2>2 DEF DiskError
<1>2. QED
  BY <1>1, Same, Unchanged DEF DiskError, diskVars

-----------------------------------------------------------------------------
(* ... and of a recovery or the process. *)

LEMMA StartStep == ASSUME IndInv, NEW r \in Recoveries, Start(r) \/ Restart(r) PROVE IndInv'
<1>1. SendersTyped' /\ SentSoFar' /\ AckIsDue'
  BY Sets DEF Start, Restart, Senders, Places, historyVars
<1>2. QED
  BY <1>1, Same, Unchanged DEF Start, Restart, diskVars, historyVars

LEMMA LoadPendingStep == ASSUME IndInv, NEW r \in Recoveries, LoadPending(r) PROVE IndInv'
<1>1. SendersTyped' /\ SentSoFar' /\ AckIsDue'
  BY Sets DEF LoadPending, Senders, Places
<1>2. RecoveryTyped'
  BY TypeParts DEF IndInv, LoadPending, RecoveryTyped, DiskTyped, Pending
<1>3. trouble' \in BOOLEAN
  BY Zenon DEF LoadPending
<1>4. QED
  BY <1>1, <1>2, <1>3, Same, Unchanged DEF LoadPending, diskVars

LEMMA ExitStep == ASSUME IndInv, Exit PROVE IndInv'
<1>0. SendersTyped /\ RecoveryTyped /\ HistoryTyped
  BY TypeParts DEF IndInv
<1>1. \A w \in Senders : \/ sender'[w] = sender[w]
                         \/ sender'[w] = Fresh(Own(w), "over")
  BY <1>0 DEF Exit, SendersTyped
<1>2. \A w \in Senders : /\ GoodState(w, Fresh(Own(w), "over"))
                         /\ Fresh(Own(w), "over").at = "over" /\ Fresh(Own(w), "over").next = 1
  BY LeftType DEF Places
<1>3. SendersTyped'
  BY <1>0, <1>1, <1>2 DEF Exit, SendersTyped, GoodState, Live
<1>4. SentSoFar' /\ AckIsDue'
  BY <1>1, <1>2 DEF Exit, IndInv, SentSoFar, AckIsDue, AllReached
<1>5. RecoveryTyped' /\ trouble' \in BOOLEAN
  <2>1. RecoveryTyped'
    BY DEF Exit, RecoveryTyped, NothingLoaded
  <2>2. trouble' \in BOOLEAN
    BY Zenon DEF Exit
  <2>3. QED
    BY <2>1, <2>2
<1>6. QED
  BY <1>3, <1>4, <1>5, Same, Unchanged DEF Exit, diskVars

(* The wait before an entry is sent again.                                 *)
LEMMA WaitType ==
    ASSUME RecoveryTyped, NEW r \in Recoveries, NEW d \in Deliveries
    PROVE  Wait(r, d) \in Nat
<1>1. loaded[r][d] + 1 \in Nat
  BY DEF RecoveryTyped, NoFile
<1> DEFINE n == loaded[r][d] + 1
           k == IF n < Len(Backoff) THEN n ELSE Len(Backoff)
<1>2. CASE n = 0
  BY <1>2 DEF Wait, ComputeBackoffMs
<1>3. CASE n > 0
  <2>1. Len(Backoff) \in Nat /\ Len(Backoff) > 0
    BY ScheduleAssumption
  <2>2. k \in 1..Len(Backoff)
    BY <1>1, <1>3, <2>1
  <2>3. Backoff[k] \in Nat
    BY <2>2, ScheduleAssumption
  <2>4. QED
    BY <1>1, <1>3, <2>3 DEF Wait, ComputeBackoffMs
<1>4. QED
  BY <1>1, <1>2, <1>3

LEMMA GiveUpStep ==
    ASSUME IndInv, NEW r \in Recoveries, NEW d \in Deliveries, GiveUp(r, d)
    PROVE  IndInv'
<1> DEFINE s == Fresh(d, "move")
<1>1. s \in SenderState /\ s.id = d /\ s.at = "move" /\ s.next = 1 /\ s.next <= Payloads[d] + 1
  BY FreshType DEF Places
<1>2. GoodState(r, s) /\ r \in Senders
  BY <1>1, DeliveriesAssumption DEF GoodState, Senders, Live
<1>3. sender' = [sender EXCEPT ![r] = s] /\ UNCHANGED <<reached, aborted, timedOut>>
  BY DEF GiveUp, historyVars
<1>4. \A k \in 1..(s.next - 1) : FALSE
  BY <1>1
<1> HIDE DEF s
<1>5. SendersTyped' /\ SentSoFar' /\ AckIsDue'
  BY <1>1, <1>2, <1>3, <1>4, SenderMoves
<1>6. QED
  BY <1>5, Same, Unchanged DEF GiveUp, diskVars, historyVars

LEMMA RetryStep ==
    ASSUME IndInv, NEW r \in Recoveries, NEW d \in Deliveries, Retry(r, d)
    PROVE  IndInv'
<1> DEFINE s == Fresh(d, "send")
<1>1. s \in SenderState /\ s.id = d /\ s.at = "send" /\ s.next = 1 /\ s.next <= Payloads[d] + 1
  BY FreshType DEF Places
<1>2. GoodState(r, s) /\ r \in Senders
  BY <1>1, DeliveriesAssumption DEF GoodState, Senders, Live
<1>3. sender' = [sender EXCEPT ![r] = s] /\ UNCHANGED <<reached, aborted, timedOut>>
  BY DEF Retry, historyVars
<1>4. \A k \in 1..(s.next - 1) : FALSE
  BY <1>1
<1> HIDE DEF s
<1>5. SendersTyped' /\ SentSoFar' /\ AckIsDue'
  BY <1>1, <1>2, <1>3, <1>4, SenderMoves
<1>6. RecoveryTyped'
  <2>1. RecoveryTyped
    BY TypeParts DEF IndInv
  <2>2. spent' \in [Recoveries -> Nat]
    BY <2>1, WaitType DEF Retry, RecoveryTyped
  <2>3. QED
    BY <2>1, <2>2 DEF Retry, RecoveryTyped
<1>7. QED
  BY <1>5, <1>6, Same, Unchanged DEF Retry, diskVars, historyVars

LEMMA RecoveryEndsStep == ASSUME IndInv, NEW r \in Recoveries, RecoveryEnds(r) PROVE IndInv'
<1>1. SendersTyped' /\ SentSoFar' /\ AckIsDue'
  BY Leaves DEF RecoveryEnds, Senders, Places, historyVars
<1>2. RecoveryTyped'
  BY TypeParts DEF IndInv, RecoveryEnds, RecoveryTyped, NothingLoaded
<1>3. QED
  BY <1>1, <1>2, Same, Unchanged DEF RecoveryEnds, diskVars, historyVars

-----------------------------------------------------------------------------
LEMMA IndInvHolds == Spec => []IndInv
<1>1. IndInv /\ [Next]_vars => IndInv'
  <2> SUFFICES ASSUME IndInv, [Next]_vars PROVE IndInv'
    OBVIOUS
  <2>1. CASE \E d \in Deliveries : Deliver(d) \/ Enqueue(d)
    BY <2>1, DeliverStep, EnqueueStep
  <2>2. CASE \E w \in Senders : SendStep(w)
    BY <2>2, SendSucceedsStep, SendFailsStep, AbortStep, CoreThrowsStep, CoreReturnsStep
       DEF SendStep
  <2>3. CASE \E w \in Senders : DiskStep(w) \/ DiskError(w)
    BY <2>3, AckDeliveryStep, ReadCountStep, WriteCountStep, MoveToFailedStep, DiskErrorStep
       DEF DiskStep
  <2>4. CASE \E r \in Recoveries : Start(r) \/ Restart(r) \/ RecoveryStep(r)
    BY <2>4, StartStep, LoadPendingStep, GiveUpStep, RetryStep, RecoveryEndsStep
       DEF RecoveryStep
  <2>5. CASE Exit
    BY <2>5, ExitStep
  <2>6. CASE UNCHANGED vars
    BY <2>6, TypePartsNext
       DEF vars, IndInv, TypeOK, SentSoFar, AckIsDue, OnlyAbortsLose, AllReached
  <2>7. QED
    BY <2>1, <2>2, <2>3, <2>4, <2>5, <2>6 DEF Next
<1>2. QED
  BY <1>1, InitInv, PTL DEF Spec

(* The variables of the queue, of its senders and of the recoveries keep   *)
(* their types, and no sender leaves the list of its payloads.             *)
THEOREM TypeCorrect == Spec => []TypeOK
<1>1. IndInv => TypeOK
  BY DEF IndInv
<1>2. QED
  BY <1>1, IndInvHolds, PTL

(* enqueueDelivery, ackDelivery, failDelivery, moveToFailed and the        *)
(* recovery, whatever crashes, fails or overlaps: a delivery that was      *)
(* written to the queue and must be sent whole is sent whole, still in a   *)
(* file, or was cut off by an AbortError of its caller or its channel.     *)
THEOREM OnlyAbortedIsLost == Spec => []OnlyAbortsLose
<1>1. IndInv => OnlyAbortsLose
  BY DEF IndInv
<1>2. QED
  BY <1>1, IndInvHolds, PTL

-----------------------------------------------------------------------------
(* Nothing is sent twice without a cause. *)

Untouched(d) == \A k \in Nat : <<d, k>> \notin reached

(* Nobody has failed a payload, and only live deliveries are written.       *)
NothingToCount ==
    /\ \A w \in Senders : sender[w].at \notin {"count", "write"} /\ ~sender[w].partial
    /\ \A r \in Recoveries : sender[r].at \notin {"new", "enqueue"}

(* A delivery that was not sent yet has no file that a recovery could find. *)
NewIsUnknown ==
    \A d \in Deliveries :
        /\ sender[d].at \in {"new", "enqueue"} =>
               Untouched(d) /\ file[d] = NoFile /\ sender[d].next = 1
        /\ sender[d].at = "new" => \A r \in Recoveries : d \notin todo[r]
        /\ sender[d].at = "send" /\ ~sender[d].queued => file[d] = NoFile

(* A delivery is in one sender's hands, and a recovery sends what it listed. *)
OneHolder ==
    /\ \A v, w \in Senders : v # w => InHand(v) \cap InHand(w) = {}
    /\ \A r \in Recoveries : Busy(r) => sender[r].id \in todo[r]

(* What a recovery has before it was not sent, and a sender has sent no     *)
(* payload that it has before it.                                           *)
AheadIsUntouched ==
    /\ \A r \in Recoveries : \A d \in todo[r] : Untouched(d) \/ (Busy(r) /\ sender[r].id = d)
    /\ \A w \in Senders : sender[w].at = "send" =>
           \A k \in Nat : <<sender[w].id, k>> \in reached => k < sender[w].next

(* A file whose delivery was begun is in somebody's hands.                  *)
BegunIsHeld ==
    \A d \in Deliveries : file[d] # NoFile =>
        Untouched(d) \/ \E w \in Senders : Busy(w) /\ sender[w].id = d

Calm == NothingToCount /\ NewIsUnknown /\ OneHolder /\ AheadIsUntouched /\ BegunIsHeld

ResendInv == ~doubled /\ (~trouble => Calm)

LEMMA CalmInit == Init => ResendInv
<1> SUFFICES ASSUME Init PROVE ResendInv
  OBVIOUS
<1>1. ASSUME NEW w \in Senders
      PROVE  /\ sender[w].at = IF w \in Deliveries THEN "new" ELSE "over"
             /\ sender[w].next = 1 /\ ~sender[w].partial
  BY <1>1 DEF Init, Fresh
<1>2. \A w \in Senders : ~Busy(w)
  BY <1>1 DEF Busy
<1>3. NothingToCount
  BY <1>1, DeliveriesAssumption DEF NothingToCount, Senders
<1>4. NewIsUnknown /\ BegunIsHeld
  BY <1>1 DEF NewIsUnknown, BegunIsHeld, Untouched, Init, NothingLoaded, Senders
<1>5. OneHolder /\ AheadIsUntouched
  BY <1>1, <1>2 DEF OneHolder, AheadIsUntouched, InHand, Untouched, Init, Live, Senders
<1>6. QED
  BY <1>3, <1>4, <1>5 DEF ResendInv, Calm, Init

(* One sender moves, and perhaps what it has before it.                     *)
LEMMA Moved ==
    ASSUME TypeOK, NEW w \in Senders, NEW s, sender' = [sender EXCEPT ![w] = s],
           \A r \in Recoveries : r # w => todo'[r] = todo[r]
    PROVE  /\ sender'[w] = s
           /\ Busy(w)' <=> s.at \notin {"new", "over", "load", "next"}
           /\ \A v \in Senders : v # w => /\ sender'[v] = sender[v]
                                          /\ Busy(v)' <=> Busy(v)
                                          /\ InHand(v)' = InHand(v)
           /\ Live(w) => InHand(w)' = IF Busy(w)' THEN {w} ELSE {}
           /\ ~Live(w) => InHand(w)' = todo'[w]
<1>1. sender'[w] = s /\ \A v \in Senders : v # w => sender'[v] = sender[v]
  BY DEF TypeOK
<1>2. \A v \in Senders : ~Live(v) => v \in Recoveries
  BY DEF Live, Senders
<1>3. Busy(w)' <=> s.at \notin {"new", "over", "load", "next"}
  BY <1>1 DEF Busy
<1>4. \A v \in Senders : v # w => (Busy(v)' <=> Busy(v))
  BY <1>1 DEF Busy
<1>5. \A v \in Senders : v # w => InHand(v)' = InHand(v)
  BY <1>2, <1>4 DEF InHand, Live
<1>6. /\ Live(w) => InHand(w)' = IF Busy(w)' THEN {w} ELSE {}
      /\ ~Live(w) => InHand(w)' = todo'[w]
  BY DEF InHand, Live
<1>7. QED
  BY <1>1, <1>3, <1>4, <1>5, <1>6

(* What is known of senders' ids.                                           *)
LEMMA Ids ==
    ASSUME TypeOK
    PROVE  /\ \A w \in Senders : sender[w].id \in Deliveries /\ sender[w].next \in Nat
           /\ \A d \in Deliveries : d \in Senders /\ Live(d) /\ sender[d].id = d
           /\ \A r \in Recoveries : r \in Senders /\ ~Live(r)
           /\ \A w \in Senders : Live(w) => w \in Deliveries
           /\ \A w \in Senders : ~Live(w) => w \in Recoveries
           /\ file \in [Deliveries -> Nat \cup {NoFile}]
           /\ todo \in [Recoveries -> SUBSET Deliveries]
  BY DeliveriesAssumption DEF TypeOK, Live, Senders, SenderState

(* The busy sender of a delivery has it in its hands, alone.                *)
LEMMA Holds ==
    ASSUME TypeOK, Calm, NEW w \in Senders, Busy(w)
    PROVE  /\ sender[w].id \in InHand(w)
           /\ \A v \in Senders : v # w => sender[w].id \notin InHand(v)
           /\ \A v \in Senders : v # w /\ Busy(v) => sender[v].id # sender[w].id
           /\ \A r \in Recoveries : r # w => sender[w].id \notin todo[r]
<1>1. \A v \in Senders : Busy(v) => sender[v].id \in InHand(v)
  BY Ids DEF Calm, OneHolder, InHand
<1>2. \A v \in Senders : v # w => sender[w].id \notin InHand(v)
  BY <1>1 DEF Calm, OneHolder
<1>3. QED
  BY <1>1, <1>2, Ids DEF InHand

(* A sender that goes on with its delivery, without a send.                 *)
LEMMA GoesAhead ==
    ASSUME TypeOK, Calm, NEW w \in Senders, NEW s, sender' = [sender EXCEPT ![w] = s],
           sender[w].at = "send", s.id = sender[w].id, s.at \in {"send", "ack"},
           s.next \in Nat, s.next >= sender[w].next, ~s.partial,
           s.queued = sender[w].queued,
           UNCHANGED <<todo, reached, file>>
    PROVE  Calm'
<1>1. /\ sender'[w] = s
      /\ \A v \in Senders : v # w => sender'[v] = sender[v]
      /\ \A v \in Senders : Busy(v)' <=> Busy(v)
      /\ \A v \in Senders : sender'[v].id = sender[v].id
      /\ \A v \in Senders : InHand(v)' = InHand(v)
  <2>1. /\ sender'[w] = s
        /\ \A v \in Senders : v # w => sender'[v] = sender[v]
    BY Moved
  <2>2. \A v \in Senders : (Busy(v)' <=> Busy(v)) /\ sender'[v].id = sender[v].id
    BY <2>1 DEF Busy
  <2>3. \A v \in Senders : InHand(v)' = InHand(v)
    BY <2>2 DEF InHand, Live
  <2>4. QED
    BY <2>1, <2>2, <2>3
<1>2. \A d : Untouched(d)' <=> Untouched(d)
  BY DEF Untouched
<1>3. NothingToCount'
  BY <1>1, Ids DEF Calm, NothingToCount
<1>4. NewIsUnknown'
  BY <1>1, <1>2, Ids DEF Calm, NewIsUnknown
<1>5. OneHolder'
  BY <1>1, Ids DEF Calm, OneHolder
<1>6. AheadIsUntouched'
  <2>1. \A r \in Recoveries : \A d \in todo[r] : Untouched(d)' \/ (Busy(r)' /\ sender'[r].id = d)
    BY <1>1, <1>2, Ids DEF Calm, AheadIsUntouched
  <2>2. \A v \in Senders : sender'[v].at = "send" =>
           \A k \in Nat : <<sender'[v].id, k>> \in reached => k < sender'[v].next
    BY <1>1, Ids DEF Calm, AheadIsUntouched
  <2>3. QED
    BY <2>1, <2>2 DEF AheadIsUntouched
<1>7. BegunIsHeld'
  BY <1>1, <1>2 DEF Calm, BegunIsHeld
<1>8. QED
  BY <1>3, <1>4, <1>5, <1>6, <1>7 DEF Calm

(* A sender is done with its delivery, whose file is gone.                  *)
LEMMA IsOver ==
    ASSUME TypeOK, Calm, NEW w \in Senders, IsDone(w), Busy(w),
           UNCHANGED reached, file' = [file EXCEPT ![sender[w].id] = NoFile]
    PROVE  Calm'
<1> DEFINE s == Fresh(Own(w), IF Live(w) THEN "over" ELSE "next")
<1>0. s.at = (IF Live(w) THEN "over" ELSE "next") /\ ~s.partial /\ s.next = 1
  BY DEF Fresh
<1>1. /\ sender' = [sender EXCEPT ![w] = s]
      /\ todo' = IF Live(w) THEN todo ELSE [todo EXCEPT ![w] = @ \ {sender[w].id}]
  BY DEF IsDone, Leave
<1> HIDE DEF s
<1>2. /\ sender'[w] = s /\ ~Busy(w)'
      /\ \A v \in Senders : v # w => /\ sender'[v] = sender[v]
                                     /\ Busy(v)' <=> Busy(v)
                                     /\ InHand(v)' = InHand(v)
      /\ InHand(w)' = InHand(w) \ {sender[w].id}
  BY <1>0, <1>1, Moved, Ids DEF InHand
<1>3. \A d : Untouched(d)' <=> Untouched(d)
  BY DEF Untouched
<1>4. NothingToCount'
  BY <1>0, <1>2, Ids DEF Calm, NothingToCount
<1>5. \A r \in Recoveries : /\ todo'[r] \subseteq todo[r]
                            /\ r = w => todo'[r] = todo[r] \ {sender[w].id}
                            /\ r # w => todo'[r] = todo[r]
  BY <1>1, Ids
<1>6. NewIsUnknown'
  BY <1>0, <1>2, <1>3, <1>5, Ids DEF Calm, NewIsUnknown
<1>7. OneHolder'
  BY <1>2, <1>5, Ids DEF Calm, OneHolder
<1>8. AheadIsUntouched'
  <2>1. ASSUME NEW r \in Recoveries, NEW d \in todo'[r]
        PROVE  Untouched(d)' \/ (Busy(r)' /\ sender'[r].id = d)
    BY <1>2, <1>3, <1>5, Ids DEF Calm, AheadIsUntouched
  <2>2. ASSUME NEW v \in Senders, sender'[v].at = "send"
        PROVE  \A k \in Nat : <<sender'[v].id, k>> \in reached => k < sender'[v].next
    BY <1>0, <1>2, <2>2 DEF Calm, AheadIsUntouched
  <2>3. QED
    BY <2>1, <2>2 DEF AheadIsUntouched
<1>9. BegunIsHeld'
  BY <1>2, <1>3, Ids DEF Calm, BegunIsHeld
<1>10. QED
  BY <1>4, <1>6, <1>7, <1>8, <1>9 DEF Calm

(* The channel takes a payload: it is not one that it took before.          *)
LEMMA SendCalm ==
    ASSUME TypeOK, Calm, ~doubled, ~trouble, NEW w \in Senders, SendSucceeds(w)
    PROVE  Calm' /\ ~doubled'
<1> DEFINE p == <<sender[w].id, sender[w].next>>
           s == [sender[w] EXCEPT !.next = @ + 1]
<1>0. /\ sender[w].at = "send" /\ Busy(w)
      /\ reached' = reached \cup {p}
      /\ sender' = [sender EXCEPT ![w] = s]
      /\ UNCHANGED <<file, todo>>
  BY DEF SendSucceeds, Sending, Busy, diskVars, recoveryVars
<1>1. /\ s.at = "send" /\ s.id = sender[w].id /\ s.next = sender[w].next + 1
      /\ s.partial = sender[w].partial /\ s.queued = sender[w].queued
  <2>1. sender[w] \in SenderState
    BY DEF TypeOK
  <2>2. QED
    BY <1>0, <2>1 DEF SenderState
<1>2. /\ sender'[w] = s
      /\ \A v \in Senders : v # w => sender'[v] = sender[v]
      /\ \A v \in Senders : (Busy(v)' <=> Busy(v)) /\ InHand(v)' = InHand(v)
      /\ \A v \in Senders : sender'[v].id = sender[v].id
  <2>1. /\ sender'[w] = s
        /\ \A v \in Senders : v # w => sender'[v] = sender[v]
    BY <1>0, Moved
  <2>2. \A v \in Senders : (Busy(v)' <=> Busy(v)) /\ sender'[v].id = sender[v].id
    BY <1>0, <1>1, <2>1 DEF Busy
  <2>3. \A v \in Senders : InHand(v)' = InHand(v)
    BY <1>0, <2>2 DEF InHand, Live
  <2>4. QED
    BY <2>1, <2>2, <2>3
<1>3. p \notin reached
  BY <1>0, Ids DEF Calm, AheadIsUntouched
<1>4. ~doubled'
  BY <1>3 DEF SendSucceeds
<1> HIDE DEF s
<1>5. \A d : d # sender[w].id => (Untouched(d)' <=> Untouched(d))
  BY <1>0 DEF Untouched
<1>6. NothingToCount'
  BY <1>1, <1>2, Ids DEF Calm, NothingToCount
<1>7. NewIsUnknown'
  <2>1. ASSUME NEW d \in Deliveries, sender'[d].at \in {"new", "enqueue"}
        PROVE  d # sender[w].id /\ sender'[d] = sender[d]
    <3>1. d # w /\ sender'[d] = sender[d]
      BY <1>1, <1>2, <2>1, Ids
    <3>2. CASE sender[d].at = "enqueue"
      BY <1>0, <3>1, <3>2, Holds, Ids DEF Busy
    <3>3. CASE sender[d].at = "new"
      BY <1>0, <3>1, <3>3, Ids DEF Calm, NewIsUnknown, OneHolder
    <3>4. QED
      BY <2>1, <3>1, <3>2, <3>3
  <2>2. ASSUME NEW d \in Deliveries, sender'[d].at = "send", ~sender'[d].queued
        PROVE  file[d] = NoFile
    BY <1>0, <1>1, <1>2, <2>2, Ids DEF Calm, NewIsUnknown
  <2>3. QED
    BY <1>0, <1>5, <2>1, <2>2 DEF Calm, NewIsUnknown
<1>8. OneHolder'
  BY <1>0, <1>2, Ids DEF Calm, OneHolder
<1>9. AheadIsUntouched'
  <2>1. ASSUME NEW r \in Recoveries, NEW d \in todo[r]
        PROVE  Untouched(d)' \/ (Busy(r)' /\ sender'[r].id = d)
    <3>1. CASE d = sender[w].id
      BY <1>0, <1>2, <2>1, <3>1, Holds, Ids
    <3>2. CASE d # sender[w].id
      BY <1>2, <1>5, <2>1, <3>2, Ids DEF Calm, AheadIsUntouched
    <3>3. QED
      BY <3>1, <3>2
  <2>2. ASSUME NEW v \in Senders, sender'[v].at = "send", NEW k \in Nat,
               <<sender'[v].id, k>> \in reached'
        PROVE  k < sender'[v].next
    <3>1. CASE v = w
      <4>1. <<sender[w].id, k>> \in reached \/ k = sender[w].next
        BY <1>0, <1>1, <1>2, <2>2, <3>1
      <4>2. QED
        BY <1>0, <1>1, <1>2, <3>1, <4>1, Ids DEF Calm, AheadIsUntouched
    <3>2. CASE v # w
      <4>1. sender'[v] = sender[v] /\ sender[v].id # sender[w].id
        BY <1>0, <1>2, <2>2, <3>2, Holds DEF Busy
      <4>2. <<sender[v].id, k>> \in reached
        BY <1>0, <2>2, <4>1
      <4>3. QED
        BY <2>2, <4>1, <4>2 DEF Calm, AheadIsUntouched
    <3>3. QED
      BY <3>1, <3>2
  <2>3. QED
    BY <1>0, <2>1, <2>2 DEF AheadIsUntouched
<1>10. BegunIsHeld'
  <2>1. ASSUME NEW d \in Deliveries, file[d] # NoFile
        PROVE  Untouched(d)' \/ \E v \in Senders : Busy(v)' /\ sender'[v].id = d
    <3>1. CASE d = sender[w].id
      BY <1>0, <1>2, <3>1
    <3>2. CASE d # sender[w].id
      BY <1>2, <1>5, <2>1, <3>2 DEF Calm, BegunIsHeld
    <3>3. QED
      BY <3>1, <3>2
  <2>2. QED
    BY <1>0, <2>1 DEF BegunIsHeld
<1>11. QED
  BY <1>4, <1>6, <1>7, <1>8, <1>9, <1>10 DEF Calm

(* A caller that has its failures noticed passes no abort signal, so an     *)
(* abort is acknowledged.                                                   *)
LEMMA AbortCalm ==
    ASSUME TypeOK, Calm, BestEffort \cap Reporting \cap Abortable = {},
           NEW w \in Senders, Abort(w)
    PROVE  Calm'
<1>0. /\ sender[w].at = "send" /\ Busy(w) /\ w \in Abortable
      /\ UNCHANGED <<file, todo, reached>>
      /\ sender[w] \in SenderState /\ ~sender[w].partial
      /\ w \in Deliveries /\ sender[w].id = w /\ Live(w)
  BY Ids, DeliveriesAssumption
     DEF Abort, Sending, Busy, diskVars, recoveryVars, TypeOK, Calm, NothingToCount, Live
<1>1. CASE w \in BestEffort
  <2> DEFINE s == Advanced(sender[w], sender[w].next + 1, FALSE)
  <2>1. w \notin Reporting
    BY <1>0, <1>1
  <2>2. sender' = [sender EXCEPT ![w] = s]
    BY <1>0, <1>1, <2>1 DEF Abort, PayloadFails, GoesOn, Advanced
  <2>3. /\ s.at = "send" /\ s.id = sender[w].id /\ s.next = sender[w].next + 1
        /\ ~s.partial /\ s.queued = sender[w].queued
        /\ s.next \in Nat /\ s.next >= sender[w].next
    BY <1>0 DEF Advanced, SenderState
  <2> HIDE DEF s
  <2>4. QED
    BY <1>0, <2>2, <2>3, GoesAhead
<1>2. CASE w \notin BestEffort
  <2>1. \/ sender[w].queued /\ SetAt(w, "ack")
        \/ ~sender[w].queued /\ Leave(w, "over")
    BY <1>0, <1>2 DEF Abort, PayloadFails, Throws
  <2>2. CASE SetAt(w, "ack")
    <3> DEFINE s == [sender[w] EXCEPT !.at = "ack"]
    <3>1. sender' = [sender EXCEPT ![w] = s]
      BY <2>2 DEF SetAt
    <3>2. /\ s.at = "ack" /\ s.id = sender[w].id /\ s.next = sender[w].next
          /\ ~s.partial /\ s.queued = sender[w].queued
        /\ s.next \in Nat /\ s.next >= sender[w].next
      BY <1>0 DEF SenderState
    <3> HIDE DEF s
    <3>3. QED
      BY <1>0, <3>1, <3>2, GoesAhead
  <2>3. CASE ~sender[w].queued /\ Leave(w, "over")
    <3>1. file[w] = NoFile
      BY <1>0, <2>3 DEF Calm, NewIsUnknown
    <3>2. IsDone(w) /\ file' = [file EXCEPT ![sender[w].id] = NoFile]
      BY <1>0, <2>3, <3>1, Ids DEF IsDone
    <3>3. QED
      BY <1>0, <3>2, IsOver
  <2>4. QED
    BY <2>1, <2>2, <2>3
<1>3. QED
  BY <1>1, <1>2

LEMMA ReturnCalm ==
    ASSUME TypeOK, Calm, NEW w \in Senders, CoreReturns(w)
    PROVE  Calm'
<1>0. /\ sender[w].at = "send" /\ Busy(w)
      /\ UNCHANGED <<file, todo, reached>>
      /\ sender[w] \in SenderState /\ ~sender[w].partial
  BY DEF CoreReturns, Sent, Busy, diskVars, recoveryVars, historyVars, TypeOK, Calm, NothingToCount
<1>1. CASE Live(w) /\ ~sender[w].queued
  <2>1. IsDone(w) /\ w \in Deliveries /\ sender[w].id = w /\ file[w] = NoFile
    BY <1>0, <1>1, Ids DEF CoreReturns, IsDone, Calm, NewIsUnknown
  <2>2. file' = [file EXCEPT ![sender[w].id] = NoFile]
    BY <1>0, <2>1, Ids
  <2>3. QED
    BY <1>0, <2>1, <2>2, IsOver
<1>2. CASE ~(Live(w) /\ ~sender[w].queued)
  <2> DEFINE s == [sender[w] EXCEPT !.at = "ack"]
  <2>1. sender' = [sender EXCEPT ![w] = s]
    BY <1>0, <1>2 DEF CoreReturns, SetAt
  <2>2. /\ s.at = "ack" /\ s.id = sender[w].id /\ s.next = sender[w].next
        /\ ~s.partial /\ s.queued = sender[w].queued
        /\ s.next \in Nat /\ s.next >= sender[w].next
    BY <1>0 DEF SenderState
  <2> HIDE DEF s
  <2>3. QED
    BY <1>0, <2>1, <2>2, GoesAhead
<1>3. QED
  BY <1>1, <1>2

(* An acknowledgement, and what is moved to failed/, take the file away.    *)
LEMMA EndCalm ==
    ASSUME TypeOK, Calm, NEW w \in Senders, DiskStep(w)
    PROVE  Calm'
<1>1. AckDelivery(w) \/ MoveToFailed(w)
  BY DEF DiskStep, ReadCount, WriteCount, Calm, NothingToCount
<1>2. IsDone(w) /\ Busy(w) /\ UNCHANGED reached
  BY <1>1 DEF AckDelivery, MoveToFailed, Busy, historyVars
<1>3. file' = [file EXCEPT ![sender[w].id] = NoFile]
  BY <1>1, Ids DEF AckDelivery, RemovesFile, MoveToFailed, diskVars
<1>4. QED
  BY <1>2, <1>3, IsOver

(* A recovery that had nothing in hand turns to an entry before it, or ends. *)
LEMMA RecoveryMoves ==
    ASSUME TypeOK, Calm, NEW r \in Recoveries, NEW s, sender' = [sender EXCEPT ![r] = s],
           ~Busy(r), ~s.partial, s.at \in {"send", "move", "load", "over"},
           s.at \in {"send", "move"} => s.id \in todo[r] /\ UNCHANGED todo,
           todo' = todo \/ todo' = [todo EXCEPT ![r] = {}],
           UNCHANGED <<file, reached>>
    PROVE  Calm'
<1>1. /\ sender'[r] = s
      /\ \A v \in Senders : v # r => /\ sender'[v] = sender[v]
                                     /\ Busy(v)' <=> Busy(v)
                                     /\ InHand(v)' = InHand(v)
      /\ Busy(r)' <=> s.at \in {"send", "move"}
      /\ InHand(r) = todo[r] /\ InHand(r)' = todo'[r]
  <2>1. r \in Senders /\ ~Live(r) /\ \A q \in Recoveries : q # r => todo'[q] = todo[q]
    BY Ids
  <2>2. s.at \notin {"new", "over", "load", "next"} <=> s.at \in {"send", "move"}
    OBVIOUS
  <2>3. QED
    BY <2>1, <2>2, Moved DEF InHand
<1>2. \A d : Untouched(d)' <=> Untouched(d)
  BY DEF Untouched
<1>3. /\ \A q \in Recoveries : todo'[q] \subseteq todo[q]
      /\ Busy(r)' => todo' = todo
  BY <1>1, Ids
<1>4. NothingToCount'
  BY <1>1, Ids DEF Calm, NothingToCount
<1>5. NewIsUnknown'
  BY <1>1, <1>2, <1>3, Ids DEF Calm, NewIsUnknown
<1>6. OneHolder'
  <2>1. ASSUME NEW v \in Senders, NEW w \in Senders, v # w
        PROVE  InHand(v)' \cap InHand(w)' = {}
    <3>1. /\ InHand(v)' \subseteq InHand(v) /\ InHand(w)' \subseteq InHand(w)
      BY <1>1, <1>3
    <3>2. QED
      BY <2>1, <3>1 DEF Calm, OneHolder
  <2>2. ASSUME NEW q \in Recoveries, Busy(q)'
        PROVE  sender'[q].id \in todo'[q]
    <3>1. CASE q = r
      BY <1>1, <1>3, <2>2, <3>1
    <3>2. CASE q # r
      <4>1. todo'[q] = todo[q] /\ Busy(q) /\ sender'[q] = sender[q]
        BY <1>1, <2>2, <3>2, Ids
      <4>2. QED
        BY <4>1 DEF Calm, OneHolder
    <3>3. QED
      BY <3>1, <3>2
  <2>3. QED
    BY <2>1, <2>2 DEF OneHolder
<1>7. AheadIsUntouched'
  <2>1. ASSUME NEW q \in Recoveries, NEW d \in todo'[q]
        PROVE  Untouched(d)' \/ (Busy(q)' /\ sender'[q].id = d)
    BY <1>1, <1>2, <1>3, <2>1, Ids DEF Calm, AheadIsUntouched
  <2>2. ASSUME NEW v \in Senders, sender'[v].at = "send", NEW k \in Nat,
               <<sender'[v].id, k>> \in reached
        PROVE  k < sender'[v].next
    <3>1. CASE v = r
      BY <1>1, <2>2, <3>1 DEF Calm, AheadIsUntouched, Untouched
    <3>2. CASE v # r
      BY <1>1, <2>2, <3>2 DEF Calm, AheadIsUntouched
    <3>3. QED
      BY <3>1, <3>2
  <2>3. QED
    BY <2>1, <2>2 DEF AheadIsUntouched
<1>8. BegunIsHeld'
  <2>1. \A v \in Senders : Busy(v) => v # r
    OBVIOUS
  <2>2. QED
    BY <1>1, <1>2, <2>1 DEF Calm, BegunIsHeld
<1>9. QED
  BY <1>4, <1>5, <1>6, <1>7, <1>8 DEF Calm

LEMMA RecoveryCalm ==
    ASSUME TypeOK, Calm, NEW r \in Recoveries,
           \/ (Start(r) /\ sender[r].at = "over") \/ Restart(r) \/ RecoveryEnds(r)
           \/ \E d \in Deliveries : GiveUp(r, d) \/ Retry(r, d)
    PROVE  Calm'
<1>0. sender[r].at \in {"over", "next"} /\ ~Busy(r) /\ UNCHANGED <<file, reached>>
  BY DEF Start, Restart, RecoveryEnds, GiveUp, Retry, Busy, diskVars, historyVars
<1>1. CASE Start(r) \/ Restart(r)
  <2> DEFINE s == [sender[r] EXCEPT !.at = "load"]
  <2>1. sender[r] \in SenderState /\ ~sender[r].partial
    BY Ids DEF TypeOK, Calm, NothingToCount
  <2>2. s.at = "load" /\ ~s.partial
    BY <2>1 DEF SenderState
  <2>3. sender' = [sender EXCEPT ![r] = s] /\ UNCHANGED todo
    BY <1>1 DEF Start, Restart, SetAt, recoveryVars
  <2> HIDE DEF s
  <2>4. QED
    BY <1>0, <2>2, <2>3, RecoveryMoves
<1>2. CASE RecoveryEnds(r)
  <2> DEFINE s == Fresh(Own(r), "over")
  <2>1. s.at = "over" /\ ~s.partial
    BY DEF Fresh
  <2>2. sender' = [sender EXCEPT ![r] = s] /\ todo' = [todo EXCEPT ![r] = {}]
    BY <1>2 DEF RecoveryEnds, Leave
  <2> HIDE DEF s
  <2>3. QED
    BY <1>0, <2>1, <2>2, RecoveryMoves
<1>3. ASSUME NEW d \in Deliveries, NEW at \in {"send", "move"},
             sender' = [sender EXCEPT ![r] = Fresh(d, at)], d \in todo[r], UNCHANGED todo
      PROVE  Calm'
  <2> DEFINE s == Fresh(d, at)
  <2>1. s.at = at /\ s.id = d /\ ~s.partial
    BY DEF Fresh
  <2>2. sender' = [sender EXCEPT ![r] = s]
    BY <1>3
  <2> HIDE DEF s
  <2>3. QED
    BY <1>0, <1>3, <2>1, <2>2, RecoveryMoves
<1>4. QED
  BY <1>1, <1>2, <1>3 DEF GiveUp, Retry, Foremost, recoveryVars

(* What nobody sends or means to send was not begun, so a recovery may list it. *)
LEMMA LoadCalm ==
    ASSUME TypeOK, Calm, ~trouble', NEW r \in Recoveries, LoadPending(r)
    PROVE  Calm'
<1> DEFINE s == [sender[r] EXCEPT !.at = "next"]
<1>0. /\ sender[r] \in SenderState /\ ~sender[r].partial /\ ~Busy(r)
      /\ sender' = [sender EXCEPT ![r] = s]
      /\ todo' = [todo EXCEPT ![r] = Pending]
      /\ UNCHANGED <<file, reached>>
      /\ \A w \in Senders : InHand(w) \cap Pending = {}
  BY Ids DEF LoadPending, SetAt, TypeOK, Calm, NothingToCount, Busy, diskVars
<1>1. s.at = "next" /\ ~s.partial
  BY <1>0 DEF SenderState
<1> HIDE DEF s
<1>2. /\ sender'[r] = s /\ ~Busy(r)'
      /\ \A v \in Senders : v # r => /\ sender'[v] = sender[v]
                                     /\ Busy(v)' <=> Busy(v)
                                     /\ InHand(v)' = InHand(v)
      /\ InHand(r)' = Pending
      /\ \A q \in Recoveries : todo'[q] = IF q = r THEN Pending ELSE todo[q]
  <2>1. /\ r \in Senders /\ ~Live(r)
        /\ \A q \in Recoveries : todo'[q] = IF q = r THEN Pending ELSE todo[q]
    BY <1>0, Ids
  <2>2. \A q \in Recoveries : q # r => todo'[q] = todo[q]
    BY <2>1
  <2>3. s.at \in {"new", "over", "load", "next"}
    BY <1>1
  <2>4. /\ sender'[r] = s
        /\ Busy(r)' <=> s.at \notin {"new", "over", "load", "next"}
        /\ \A v \in Senders : v # r => /\ sender'[v] = sender[v]
                                       /\ Busy(v)' <=> Busy(v)
                                       /\ InHand(v)' = InHand(v)
        /\ InHand(r)' = todo'[r]
    BY <1>0, <2>1, <2>2, Moved
  <2>5. QED
    BY <2>1, <2>3, <2>4
<1>3. \A d : Untouched(d)' <=> Untouched(d)
  BY <1>0 DEF Untouched
<1>4. \A d \in Pending : d \in Deliveries /\ file[d] # NoFile /\ Untouched(d)
  BY <1>0, Holds DEF Pending, Calm, BegunIsHeld
<1>5. NothingToCount'
  BY <1>1, <1>2, Ids DEF Calm, NothingToCount
<1>6. NewIsUnknown'
  BY <1>0, <1>1, <1>2, <1>3, <1>4, Ids DEF Calm, NewIsUnknown
<1>7. OneHolder'
  <2>1. ASSUME NEW v \in Senders, NEW w \in Senders, v # w
        PROVE  InHand(v)' \cap InHand(w)' = {}
    BY <1>0, <1>2, <2>1 DEF Calm, OneHolder
  <2>2. \A q \in Recoveries : Busy(q)' => sender'[q].id \in todo'[q]
    BY <1>2, Ids DEF Calm, OneHolder
  <2>3. QED
    BY <2>1, <2>2 DEF OneHolder
<1>8. AheadIsUntouched'
  <2>1. \A q \in Recoveries : \A d \in todo'[q] : Untouched(d)' \/ (Busy(q)' /\ sender'[q].id = d)
    BY <1>2, <1>3, <1>4, Ids DEF Calm, AheadIsUntouched
  <2>2. \A v \in Senders : sender'[v].at = "send" =>
            \A k \in Nat : <<sender'[v].id, k>> \in reached => k < sender'[v].next
    BY <1>1, <1>2 DEF Calm, AheadIsUntouched
  <2>3. QED
    BY <1>0, <2>1, <2>2 DEF AheadIsUntouched
<1>9. BegunIsHeld'
  BY <1>0, <1>2, <1>3 DEF Calm, BegunIsHeld
<1>10. QED
  BY <1>5, <1>6, <1>7, <1>8, <1>9 DEF Calm

(* A delivery is begun, and written: nobody else knows of it.               *)
LEMMA DeliverCalm ==
    ASSUME TypeOK, Calm, NEW d \in Deliveries, Deliver(d) \/ Enqueue(d)
    PROVE  Calm'
<1>1. PICK s :
         /\ sender' = [sender EXCEPT ![d] = s] /\ ~s.partial /\ s.id = d /\ s.next = 1
         /\ \/ sender[d].at = "new" /\ s.at = "enqueue" /\ file' = file
            \/ /\ sender[d].at = "enqueue" /\ s.at = "send"
               /\ \/ s.queued /\ file' = [file EXCEPT ![d] = 0]
                  \/ file' = file
  <2>1. sender[d] \in SenderState /\ ~sender[d].partial /\ sender[d].id = d
    BY Ids DEF TypeOK, Calm, NothingToCount
  <2>2. sender[d].at \in {"new", "enqueue"} => sender[d].next = 1
    BY DEF Calm, NewIsUnknown
  <2>3. CASE Deliver(d)
    <3> DEFINE s == [sender[d] EXCEPT !.at = "enqueue"]
    <3>1. s.at = "enqueue" /\ ~s.partial /\ s.id = d /\ s.next = 1
      BY <2>1, <2>2, <2>3 DEF Deliver, SenderState
    <3>2. sender' = [sender EXCEPT ![d] = s]
      BY <2>3 DEF Deliver
    <3>3. QED
      BY <2>3, <3>1, <3>2 DEF Deliver, diskVars
  <2>4. CASE Enqueue(d)
    <3> DEFINE s(q) == [sender[d] EXCEPT !.at = "send", !.queued = q]
    <3>1. \A q : /\ s(q).at = "send" /\ ~s(q).partial /\ s(q).id = d /\ s(q).next = 1
                 /\ s(q).queued = q
      BY <2>1, <2>2, <2>4 DEF Enqueue, SenderState
    <3>2. \/ sender' = [sender EXCEPT ![d] = s(TRUE)] /\ file' = [file EXCEPT ![d] = 0]
          \/ sender' = [sender EXCEPT ![d] = s(sender[d].queued)] /\ file' = file
      BY <2>1, <2>4 DEF Enqueue, EnqueueDelivery, SenderState
    <3> HIDE DEF s
    <3>3. sender[d].at = "enqueue"
      BY <2>4 DEF Enqueue
    <3>4. CASE sender' = [sender EXCEPT ![d] = s(TRUE)] /\ file' = [file EXCEPT ![d] = 0]
      BY <3>1, <3>3, <3>4
    <3>5. CASE sender' = [sender EXCEPT ![d] = s(sender[d].queued)] /\ file' = file
      BY <3>1, <3>3, <3>5
    <3>6. QED
      BY <3>2, <3>4, <3>5
  <2>5. QED
    BY <2>3, <2>4
<1>2. /\ UNCHANGED <<todo, reached>> /\ d \in Senders /\ Live(d)
      /\ Untouched(d) /\ file[d] = NoFile /\ \A r \in Recoveries : d \notin todo[r]
  <2>1. UNCHANGED <<todo, reached>>
    BY DEF Deliver, Enqueue, recoveryVars, historyVars
  <2>2. \A r \in Recoveries : d \notin todo[r]
    BY <1>1, Holds, Ids DEF Calm, NewIsUnknown, Busy
  <2>3. QED
    BY <1>1, <2>1, <2>2, Ids DEF Calm, NewIsUnknown
<1>3. /\ sender'[d] = s /\ Busy(d)' /\ InHand(d)' = {d}
      /\ \A v \in Senders : v # d => /\ sender'[v] = sender[v]
                                     /\ Busy(v)' <=> Busy(v)
                                     /\ InHand(v)' = InHand(v)
  BY <1>1, <1>2, Moved
<1>4. /\ \A e \in Deliveries : e # d => file'[e] = file[e]
      /\ s.at = "enqueue" \/ ~s.queued => file'[d] = NoFile
  BY <1>1, <1>2, Ids
<1>5. \A e : Untouched(e)' <=> Untouched(e)
  BY <1>2 DEF Untouched
<1>6. \A r \in Recoveries : r # d
  BY DeliveriesAssumption
<1>7. NothingToCount'
  BY <1>1, <1>3, <1>6, Ids DEF Calm, NothingToCount
<1>8. NewIsUnknown'
  BY <1>1, <1>2, <1>3, <1>4, <1>5, Ids DEF Calm, NewIsUnknown
<1>9. OneHolder'
  <2>1. \A v \in Senders : v # d => d \notin InHand(v)
    BY <1>2, Ids DEF InHand
  <2>2. \A v, w \in Senders : v # w => InHand(v)' \cap InHand(w)' = {}
    BY <1>3, <2>1 DEF Calm, OneHolder
  <2>3. \A r \in Recoveries : Busy(r)' => sender'[r].id \in todo[r]
    BY <1>3, <1>6, Ids DEF Calm, OneHolder
  <2>4. QED
    BY <1>2, <2>2, <2>3 DEF OneHolder
<1>10. AheadIsUntouched'
  <2>1. \A r \in Recoveries : \A e \in todo[r] : Untouched(e)' \/ (Busy(r)' /\ sender'[r].id = e)
    BY <1>3, <1>5, <1>6, Ids DEF Calm, AheadIsUntouched
  <2>2. ASSUME NEW v \in Senders, sender'[v].at = "send", NEW k \in Nat,
               <<sender'[v].id, k>> \in reached
        PROVE  k < sender'[v].next
    <3>1. v # d
      BY <1>1, <1>2, <1>3, <2>2 DEF Untouched
    <3>2. QED
      BY <1>3, <2>2, <3>1 DEF Calm, AheadIsUntouched
  <2>3. QED
    BY <1>2, <2>1, <2>2 DEF AheadIsUntouched
<1>11. BegunIsHeld'
  <2>1. ASSUME NEW e \in Deliveries, file'[e] # NoFile
        PROVE  Untouched(e)' \/ \E v \in Senders : Busy(v)' /\ sender'[v].id = e
    <3>1. CASE e = d
      BY <1>1, <1>2, <1>3, <3>1
    <3>2. CASE e # d
      <4>1. Untouched(e) \/ \E v \in Senders : Busy(v) /\ sender[v].id = e
        BY <1>4, <2>1, <3>2 DEF Calm, BegunIsHeld
      <4>2. \A v \in Senders : Busy(v) /\ sender[v].id = e => v # d
        BY <3>2, Ids
      <4>3. QED
        BY <1>3, <1>5, <4>1, <4>2
    <3>3. QED
      BY <3>1, <3>2
  <2>2. QED
    BY <2>1 DEF BegunIsHeld
<1>12. QED
  BY <1>7, <1>8, <1>9, <1>10, <1>11 DEF Calm

(* The process ends while nobody sends.                                     *)
LEMMA ExitCalm ==
    ASSUME TypeOK, Calm, ~trouble', Exit
    PROVE  Calm'
<1>1. /\ \A w \in Senders : ~Busy(w)
      /\ UNCHANGED <<file, reached>>
      /\ todo' = [r \in Recoveries |-> {}]
  BY DEF Exit, diskVars
<1>2. ASSUME NEW w \in Senders
      PROVE  /\ sender'[w].at \in {"new", "over"}
             /\ sender'[w].at = "new" => sender'[w] = sender[w]
             /\ sender[w].at # "new" => sender'[w].at = "over"
             /\ ~sender'[w].partial
  BY DEF Exit, Fresh, Calm, NothingToCount
<1>3. \A w \in Senders : ~Busy(w)'
  BY <1>2 DEF Busy
<1>4. \A w \in Senders : InHand(w)' = {}
  BY <1>1, <1>3, Ids DEF InHand, Live
<1>5. \A d : Untouched(d)' <=> Untouched(d)
  BY <1>1 DEF Untouched
<1>6. NothingToCount'
  BY <1>2, Ids DEF Calm, NothingToCount
<1>7. NewIsUnknown'
  BY <1>1, <1>2, <1>5, Ids DEF Calm, NewIsUnknown
<1>8. OneHolder' /\ AheadIsUntouched'
  BY <1>1, <1>2, <1>3, <1>4, Ids DEF OneHolder, AheadIsUntouched
<1>9. BegunIsHeld'
  BY <1>1, <1>5 DEF Calm, BegunIsHeld
<1>10. QED
  BY <1>6, <1>7, <1>8, <1>9 DEF Calm

(* A process that is down has no sender at work.                            *)
DownIsIdle == ~up => \A w \in Senders : sender[w].at \in {"new", "over"}

LEMMA DownStep == TypeOK /\ DownIsIdle /\ [Next]_vars => DownIsIdle'
<1> SUFFICES ASSUME TypeOK, DownIsIdle, [Next]_vars, ~up', NEW w \in Senders
             PROVE  sender'[w].at \in {"new", "over"}
  BY DEF DownIsIdle
<1>1. CASE Exit
  BY <1>1 DEF Exit, Fresh
<1>2. CASE UNCHANGED vars
  BY <1>2 DEF vars, DownIsIdle
<1>3. CASE ~Exit /\ Next
  <2>1. up' = up \/ \E r \in Recoveries : Start(r)
    BY <1>3 DEF Next, Deliver, Enqueue, SendStep, SendSucceeds, SendFails, Abort, CoreThrows,
           CoreReturns, DiskStep, AckDelivery, ReadCount, WriteCount, MoveToFailed, DiskError,
           Restart, RecoveryStep, LoadPending, GiveUp, Retry, RecoveryEnds
  <2>2. ~up /\ \A v \in Senders : sender[v].at \in {"new", "over"}
    BY <2>1 DEF Start, DownIsIdle
  <2>3. FALSE
    BY <1>3, <2>1, <2>2, Ids DEF Next, Deliver, Enqueue, SendStep, SendSucceeds, SendFails,
           Abort, CoreThrows, Sending, Sent, CoreReturns, DiskStep, AckDelivery, ReadCount,
           WriteCount, MoveToFailed, DiskError, Start, Restart, RecoveryStep, LoadPending,
           GiveUp, Retry, RecoveryEnds
  <2>4. QED
    BY <2>3
<1>4. QED
  BY <1>1, <1>2, <1>3

LEMMA ResendStep ==
    ASSUME BestEffort \cap Reporting \cap Abortable = {}
    PROVE  TypeOK /\ DownIsIdle /\ ResendInv /\ [Next]_vars => ResendInv'
<1> SUFFICES ASSUME TypeOK, DownIsIdle, ResendInv, [Next]_vars PROVE ResendInv'
  OBVIOUS
<1> USE DEF ResendInv
<1>1. CASE \E w \in Senders : SendSucceeds(w)
  <2>1. PICK w \in Senders : SendSucceeds(w)
    BY <1>1
  <2>2. UNCHANGED trouble /\ (trouble => UNCHANGED doubled)
    BY <2>1 DEF SendSucceeds, TypeOK
  <2>3. CASE trouble
    BY <2>2, <2>3
  <2>4. CASE ~trouble
    BY <2>1, <2>2, <2>4, SendCalm
  <2>5. QED
    BY <2>3, <2>4
<1>2. CASE \E w \in Senders : \/ \E isAbortError \in BOOLEAN : SendFails(w, isAbortError)
                               \/ CoreThrows(w) \/ DiskError(w)
  <2>1. trouble' = TRUE /\ doubled' = doubled
    BY <1>2 DEF SendFails, CoreThrows, DiskError
  <2>2. QED
    BY <2>1
<1>3. CASE \E w \in Senders : Abort(w)
  <2>1. UNCHANGED <<doubled, trouble>>
    BY <1>3 DEF Abort
  <2>2. Calm => Calm'
    BY <1>3, AbortCalm
  <2>3. QED
    BY <2>1, <2>2
<1>4. CASE \E w \in Senders : CoreReturns(w)
  BY <1>4, ReturnCalm DEF CoreReturns, historyVars
<1>5. CASE \E w \in Senders : DiskStep(w)
  BY <1>5, EndCalm DEF DiskStep, AckDelivery, ReadCount, WriteCount, MoveToFailed, historyVars
<1>6. CASE \E d \in Deliveries : Deliver(d) \/ Enqueue(d)
  BY <1>6, DeliverCalm DEF Deliver, Enqueue, historyVars
<1>7. CASE \E r \in Recoveries : Start(r) \/ Restart(r)
  <2>1. PICK r \in Recoveries : Start(r) \/ Restart(r)
    BY <1>7
  <2>2. UNCHANGED <<doubled, trouble>>
    BY <2>1 DEF Start, Restart, historyVars
  <2>3. Calm /\ Start(r) => sender[r].at = "over"
    BY Ids DEF Start, DownIsIdle, Calm, NothingToCount
  <2>4. QED
    BY <2>1, <2>2, <2>3, RecoveryCalm
<1>8. CASE \E r \in Recoveries : LoadPending(r)
  <2>1. PICK r \in Recoveries : LoadPending(r)
    BY <1>8
  <2>2. UNCHANGED doubled /\ (~trouble' => ~trouble)
    BY <2>1 DEF LoadPending
  <2>3. QED
    BY <2>1, <2>2, LoadCalm
<1>9. CASE \E r \in Recoveries : RecoveryEnds(r) \/ \E d \in Deliveries : GiveUp(r, d) \/ Retry(r, d)
  <2>1. PICK r \in Recoveries : RecoveryEnds(r) \/ \E d \in Deliveries : GiveUp(r, d) \/ Retry(r, d)
    BY <1>9
  <2>2. UNCHANGED <<doubled, trouble>>
    BY <2>1 DEF RecoveryEnds, GiveUp, Retry, historyVars
  <2>3. QED
    BY <2>1, <2>2, RecoveryCalm
<1>10. CASE Exit
  <2>1. UNCHANGED doubled /\ (~trouble' => ~trouble)
    BY <1>10 DEF Exit
  <2>2. QED
    BY <1>10, <2>1, ExitCalm
<1>11. CASE UNCHANGED vars
  BY <1>11 DEF vars, Calm, NothingToCount, NewIsUnknown, OneHolder, AheadIsUntouched,
               BegunIsHeld, Untouched, InHand, Live, Busy
<1>12. QED
  BY <1>1, <1>2, <1>3, <1>4, <1>5, <1>6, <1>7, <1>8, <1>9, <1>10, <1>11
     DEF Next, SendStep, RecoveryStep

(* deliverOutboundPayloads and recoverPendingDeliveries send a payload twice *)
(* only after a crash, a failure or an overlap, for any number of deliveries *)
(* and recoveries.  No caller in the code asks for best effort, a report of  *)
(* failed payloads and an abort signal at a time: a delivery with all three  *)
(* would count an abort as a failure, and be sent again from its start.      *)
THEOREM NothingIsSentAgain ==
    ASSUME BestEffort \cap Reporting \cap Abortable = {}
    PROVE  Spec => []NoNeedlessResend
<1>1. Init => DownIsIdle /\ ResendInv
  <2>1. Init => DownIsIdle
    BY DEF Init, DownIsIdle, Fresh
  <2>2. QED
    BY <2>1, CalmInit
<1>2. ResendInv => NoNeedlessResend
  BY DEF ResendInv, NoNeedlessResend
<1>3. TypeOK /\ DownIsIdle /\ ResendInv /\ [Next]_vars => DownIsIdle' /\ ResendInv'
  BY DownStep, ResendStep
<1>4. QED
  BY <1>1, <1>2, <1>3, TypeCorrect, PTL DEF Spec

-----------------------------------------------------------------------------
(* The queue implements Outbox. *)

(* A delivery is written before it is sent, once; only what was written has *)
(* a file; and whoever is about to write a count has read one.              *)
WrittenOnce == \A d \in Deliveries : sender[d].at \in {"new", "enqueue"} => d \notin persisted
FilesWereWritten == \A d \in Deliveries : file[d] # NoFile => d \in persisted
CountWasRead ==
    \A w \in Senders : sender[w].at = "write" =>
        sender[w].read \in Nat /\ sender[w].id \in persisted
FirstIsOne == \A w \in Senders : sender[w].next # 0

OutboxInv == WrittenOnce /\ FilesWereWritten /\ CountWasRead /\ FirstIsOne

LEMMA OutboxInit == Init => OutboxInv
<1> SUFFICES ASSUME Init PROVE OutboxInv
  OBVIOUS
<1>1. \A w \in Senders : sender[w].at \in {"new", "over"} /\ sender[w].next = 1
  BY DEF Init, Fresh
<1>2. QED
  BY <1>1 DEF Init, OutboxInv, WrittenOnce, FilesWereWritten, CountWasRead, FirstIsOne, NothingLoaded

(* One sender moves, and nothing is written for the first time.             *)
LEMMA MoveKeepsOutbox ==
    ASSUME SendersTyped, OutboxInv, NEW w \in Senders, NEW s, sender' = [sender EXCEPT ![w] = s],
           s.next # 0, s.at # "new",
           s.at = "enqueue" => sender[w].at = "new",
           s.at = "write" => s.read \in Nat /\ s.id \in persisted,
           UNCHANGED persisted,
           \A d \in Deliveries : file'[d] # NoFile => d \in persisted
    PROVE  OutboxInv'
<1>1. sender'[w] = s /\ \A v \in Senders : v # w => sender'[v] = sender[v]
  BY DEF SendersTyped
<1>2. WrittenOnce'
  BY <1>1 DEF OutboxInv, WrittenOnce, Senders
<1>3. CountWasRead' /\ FirstIsOne'
  BY <1>1 DEF OutboxInv, CountWasRead, FirstIsOne
<1>4. QED
  BY <1>2, <1>3 DEF OutboxInv, FilesWereWritten

LEMMA LeaveKeepsOutbox ==
    ASSUME SendersTyped, OutboxInv, NEW w \in Senders, Leave(w, "over") \/ Leave(w, "next"),
           UNCHANGED persisted,
           \A d \in Deliveries : file'[d] # NoFile => d \in persisted
    PROVE  OutboxInv'
<1>1. PICK at \in {"over", "next"} : sender' = [sender EXCEPT ![w] = Fresh(Own(w), at)]
  BY DEF Leave
<1>2. Fresh(Own(w), at).next # 0 /\ Fresh(Own(w), at).at = at
  BY DEF Fresh
<1>3. QED
  BY <1>1, <1>2, MoveKeepsOutbox

LEMMA SetKeepsOutbox ==
    ASSUME SendersTyped, OutboxInv, NEW w \in Senders,
           NEW at \in Places \ {"new", "enqueue", "write"}, SetAt(w, at),
           UNCHANGED persisted,
           \A d \in Deliveries : file'[d] # NoFile => d \in persisted
    PROVE  OutboxInv'
<1> DEFINE s == [sender[w] EXCEPT !.at = at]
<1>1. sender[w] \in SenderState /\ sender' = [sender EXCEPT ![w] = s]
  BY DEF SetAt, SendersTyped
<1>2. s.at = at /\ s.next # 0
  BY <1>1 DEF SenderState, OutboxInv, FirstIsOne
<1> HIDE DEF s
<1>3. QED
  BY <1>1, <1>2, MoveKeepsOutbox

(* The core throws, or goes on to the next payload.                         *)
LEMMA ThrowKeepsOutbox ==
    ASSUME SendersTyped, OutboxInv, NEW w \in Senders, NEW isAbortError \in BOOLEAN,
           Throws(w, isAbortError), UNCHANGED <<file, persisted>>
    PROVE  OutboxInv'
<1>1. \/ Leave(w, "over")
      \/ \E at \in {"ack", "count", "move"} : SetAt(w, at)
  BY DEF Throws
<1>2. \A d \in Deliveries : file'[d] # NoFile => d \in persisted
  BY DEF OutboxInv, FilesWereWritten
<1>3. QED
  BY <1>1, <1>2, LeaveKeepsOutbox, SetKeepsOutbox DEF Places

LEMMA NextKeepsOutbox ==
    ASSUME SendersTyped, OutboxInv, NEW w \in Senders, Sending(w), UNCHANGED <<file, persisted>>,
           sender' = [sender EXCEPT ![w].next = @ + 1] \/ GoesOn(w)
    PROVE  OutboxInv'
<1>1. sender[w] \in SenderState /\ sender[w].at = "send"
  BY DEF SendersTyped, Sending
<1>2. PICK b : sender' = [sender EXCEPT ![w] = Advanced(sender[w], sender[w].next + 1, b)]
  <2>1. CASE sender' = [sender EXCEPT ![w].next = @ + 1]
    <3>1. [sender[w] EXCEPT !.next = @ + 1]
             = Advanced(sender[w], sender[w].next + 1, sender[w].partial)
      BY <1>1 DEF Advanced, SenderState
    <3>2. QED
      BY <2>1, <3>1
  <2>2. CASE GoesOn(w)
    BY <2>2 DEF GoesOn, Advanced
  <2>3. QED
    BY <2>1, <2>2
<1> DEFINE s == Advanced(sender[w], sender[w].next + 1, b)
<1>3. s.next # 0 /\ s.at = "send"
  BY <1>1 DEF SenderState, Advanced
<1>4. sender' = [sender EXCEPT ![w] = s]
  BY <1>2
<1> HIDE DEF s
<1>5. QED
  BY <1>3, <1>4, MoveKeepsOutbox DEF OutboxInv, FilesWereWritten

LEMMA DoneKeepsOutbox ==
    ASSUME SendersTyped, OutboxInv, NEW w \in Senders, IsDone(w), UNCHANGED persisted,
           \A d \in Deliveries : file'[d] # NoFile => d \in persisted
    PROVE  OutboxInv'
  BY LeaveKeepsOutbox DEF IsDone

LEMMA SendStepOutbox ==
    ASSUME SendersTyped, OutboxInv, NEW w \in Senders, SendStep(w)
    PROVE  OutboxInv'
<1>0. \A d \in Deliveries : file[d] # NoFile => d \in persisted
  BY DEF OutboxInv, FilesWereWritten
<1>1. CASE SendSucceeds(w)
  BY <1>1, NextKeepsOutbox DEF SendSucceeds, diskVars
<1>2. CASE Abort(w) \/ \E isAbortError \in BOOLEAN : SendFails(w, isAbortError)
  BY <1>2, NextKeepsOutbox, ThrowKeepsOutbox DEF SendFails, Abort, PayloadFails, diskVars
<1>3. CASE CoreThrows(w)
  BY <1>3, ThrowKeepsOutbox DEF CoreThrows, diskVars
<1>4. CASE CoreReturns(w)
  <2>1. Leave(w, "over") \/ SetAt(w, "count") \/ SetAt(w, "ack")
    BY <1>4 DEF CoreReturns
  <2>2. UNCHANGED <<file, persisted>>
    BY <1>4 DEF CoreReturns, diskVars, historyVars
  <2>3. QED
    BY <1>0, <2>1, <2>2, LeaveKeepsOutbox, SetKeepsOutbox DEF Places
<1>5. QED
  BY <1>1, <1>2, <1>3, <1>4 DEF SendStep

LEMMA DiskStepOutbox ==
    ASSUME SendersTyped, DiskTyped, OutboxInv, NEW w \in Senders, DiskStep(w) \/ DiskError(w)
    PROVE  OutboxInv'
<1>0. /\ \A d \in Deliveries : file[d] # NoFile => d \in persisted
      /\ sender[w].id \in Deliveries
  BY DEF OutboxInv, FilesWereWritten, SendersTyped, SenderState
<1>1. CASE AckDelivery(w)
  BY <1>0, <1>1, DoneKeepsOutbox DEF AckDelivery, RemovesFile, DiskTyped, historyVars
<1>2. CASE ReadCount(w)
  <2>1. CASE file[sender[w].id] = NoFile
    BY <1>0, <1>2, <2>1, DoneKeepsOutbox DEF ReadCount, diskVars, historyVars
  <2>2. CASE file[sender[w].id] # NoFile
    <3> DEFINE s == [sender[w] EXCEPT !.at = "write", !.read = file[sender[w].id]]
    <3>1. sender' = [sender EXCEPT ![w] = s]
      BY <1>2, <2>2 DEF ReadCount
    <3>2. s.at = "write" /\ s.next # 0 /\ s.read \in Nat /\ s.id \in persisted
      BY <1>0, <2>2 DEF SendersTyped, SenderState, DiskTyped, OutboxInv, FirstIsOne
    <3> HIDE DEF s
    <3>3. QED
      BY <1>0, <1>2, <3>1, <3>2, MoveKeepsOutbox DEF ReadCount, diskVars, historyVars
  <2>3. QED
    BY <2>1, <2>2
<1>3. CASE WriteCount(w)
  <2>1. sender[w].id \in persisted
    BY <1>3 DEF WriteCount, OutboxInv, CountWasRead
  <2>2. QED
    BY <1>0, <1>3, <2>1, DoneKeepsOutbox DEF WriteCount, DiskTyped, historyVars
<1>4. CASE MoveToFailed(w)
  BY <1>0, <1>4, DoneKeepsOutbox DEF MoveToFailed, DiskTyped, diskVars, historyVars
<1>5. CASE DiskError(w)
  BY <1>0, <1>5, DoneKeepsOutbox, SetKeepsOutbox DEF DiskError, Places, diskVars
<1>6. QED
  BY <1>1, <1>2, <1>3, <1>4, <1>5 DEF DiskStep

LEMMA RecoveryKeepsOutbox ==
    ASSUME SendersTyped, OutboxInv, NEW r \in Recoveries, Start(r) \/ Restart(r) \/ RecoveryStep(r)
    PROVE  OutboxInv'
<1>0. /\ \A d \in Deliveries : file[d] # NoFile => d \in persisted
      /\ r \in Senders
  BY DEF OutboxInv, FilesWereWritten, Senders
<1>1. UNCHANGED <<file, persisted>>
  BY DEF Start, Restart, RecoveryStep, LoadPending, GiveUp, Retry, RecoveryEnds, diskVars, historyVars
<1>2. CASE Start(r) \/ Restart(r) \/ LoadPending(r)
  BY <1>0, <1>1, <1>2, SetKeepsOutbox DEF Start, Restart, LoadPending, Places
<1>3. CASE RecoveryEnds(r)
  BY <1>0, <1>1, <1>3, LeaveKeepsOutbox DEF RecoveryEnds
<1>4. CASE \E d \in Deliveries : GiveUp(r, d) \/ Retry(r, d)
  <2>1. PICK d \in Deliveries, at \in {"move", "send"} : sender' = [sender EXCEPT ![r] = Fresh(d, at)]
    BY <1>4 DEF GiveUp, Retry
  <2>2. Fresh(d, at).at = at /\ Fresh(d, at).next # 0
    BY DEF Fresh
  <2>3. QED
    BY <1>0, <1>1, <2>1, <2>2, MoveKeepsOutbox
<1>5. QED
  BY <1>2, <1>3, <1>4 DEF RecoveryStep

LEMMA DeliverKeepsOutbox ==
    ASSUME SendersTyped, DiskTyped, OutboxInv, NEW d \in Deliveries, Deliver(d) \/ Enqueue(d)
    PROVE  OutboxInv'
<1>0. sender[d] \in SenderState /\ d \in Senders /\ sender[d].next # 0
  BY DEF SendersTyped, Senders, OutboxInv, FirstIsOne
<1>1. CASE Deliver(d)
  <2> DEFINE s == [sender[d] EXCEPT !.at = "enqueue"]
  <2>1. /\ sender' = [sender EXCEPT ![d] = s] /\ s.at = "enqueue" /\ s.next # 0
        /\ sender[d].at = "new" /\ UNCHANGED <<file, persisted>>
    BY <1>0, <1>1 DEF Deliver, SenderState, diskVars, historyVars
  <2> HIDE DEF s
  <2>2. QED
    BY <1>0, <2>1, MoveKeepsOutbox DEF OutboxInv, FilesWereWritten
<1>2. CASE Enqueue(d)
  <2>1. /\ sender'[d].at = "send" /\ sender'[d].next # 0
        /\ \A v \in Senders : v # d => sender'[v] = sender[v]
    BY <1>0, <1>2 DEF Enqueue, EnqueueDelivery, SendersTyped, SenderState
  <2>2. \/ file' = [file EXCEPT ![d] = 0] /\ persisted' = persisted \cup {d}
        \/ UNCHANGED <<file, persisted>>
    BY <1>2 DEF Enqueue, EnqueueDelivery
  <2>3. WrittenOnce' /\ CountWasRead' /\ FirstIsOne'
    BY <2>1, <2>2 DEF OutboxInv, WrittenOnce, CountWasRead, FirstIsOne, Senders
  <2>4. FilesWereWritten'
    BY <2>2 DEF OutboxInv, FilesWereWritten, DiskTyped
  <2>5. QED
    BY <2>3, <2>4 DEF OutboxInv
<1>3. QED
  BY <1>1, <1>2

LEMMA ExitKeepsOutbox == ASSUME OutboxInv, Exit PROVE OutboxInv'
<1>1. \A w \in Senders : sender'[w] = sender[w] \/ sender'[w] = Fresh(Own(w), "over")
  BY DEF Exit
<1>2. \A w \in Senders : Fresh(Own(w), "over").at = "over" /\ Fresh(Own(w), "over").next = 1
  BY DEF Fresh
<1>3. QED
  BY <1>1, <1>2
     DEF Exit, OutboxInv, WrittenOnce, FilesWereWritten, CountWasRead, FirstIsOne, diskVars, Senders

LEMMA OutboxStep == TypeOK /\ OutboxInv /\ [Next]_vars => OutboxInv'
<1> SUFFICES ASSUME TypeOK, OutboxInv, [Next]_vars PROVE OutboxInv'
  OBVIOUS
<1>1. SendersTyped /\ DiskTyped
  BY TypeParts
<1>2. CASE UNCHANGED vars
  BY <1>2 DEF vars, OutboxInv, WrittenOnce, FilesWereWritten, CountWasRead, FirstIsOne
<1>3. CASE Next
  BY <1>1, <1>3, DeliverKeepsOutbox, SendStepOutbox, DiskStepOutbox, RecoveryKeepsOutbox,
     ExitKeepsOutbox DEF Next
<1>4. QED
  BY <1>2, <1>3

-----------------------------------------------------------------------------
(* Steps that leave the outbox alone.                                       *)
LEMMA QuietSteps ==
    ASSUME \/ \E d \in Deliveries : Deliver(d)
           \/ \E w \in Senders : CoreThrows(w) \/ CoreReturns(w)
                                 \/ ReadCount(w) \/ DiskError(w)
           \/ \E r \in Recoveries : Start(r) \/ Restart(r) \/ RecoveryStep(r)
           \/ Exit
           \/ UNCHANGED vars
    PROVE  UNCHANGED Box!outboxVars
  BY DEF Deliver, CoreThrows, CoreReturns, ReadCount, DiskError, Start, Restart,
         RecoveryStep, LoadPending, GiveUp, Retry, RecoveryEnds, Exit, vars,
         diskVars, historyVars, Box!outboxVars

LEMMA SendTakes ==
    ASSUME IndInv, OutboxInv, NEW w \in Senders, SendSucceeds(w)
    PROVE  Box!Next
<1> DEFINE d == sender[w].id
           k == sender[w].next
<1>1. SendersTyped
  BY TypeParts DEF IndInv
<1>2. d \in Deliveries /\ k \in 1..Payloads[d]
  BY <1>1, DeliveriesAssumption
     DEF SendersTyped, SenderState, SendSucceeds, Sending, OutboxInv, FirstIsOne
<1>3. d \in Deliveries \ BestEffort => \A i \in 1..(k - 1) : <<d, i>> \in reached
  BY DEF IndInv, SentSoFar
<1>4. reached' = reached \cup {<<d, k>>} /\ UNCHANGED <<file, persisted, failed, aborted, timedOut>>
  BY DEF SendSucceeds, diskVars
<1> HIDE DEF d, k
<1>5. Box!Take(d, k)
  BY <1>3, <1>4 DEF Box!Take
<1>6. QED
  BY <1>2, <1>5 DEF Box!Next

(* An abort of the caller, and a failure of the channel, that may be one.   *)
LEMMA AbortCutsOff == ASSUME NEW w \in Senders, Abort(w) PROVE Box!Next
<1>1. w \in Deliveries /\ Box!CutOff(w)
  BY DeliveriesAssumption DEF Abort, Box!CutOff, diskVars
<1>2. QED
  BY <1>1 DEF Box!Next

LEMMA FailCutsOff ==
    ASSUME NEW w \in Senders, NEW isAbortError \in BOOLEAN, SendFails(w, isAbortError)
    PROVE  [Box!Next]_(Box!outboxVars)
<1>1. UNCHANGED <<file, persisted, failed, reached, aborted>>
  BY DEF SendFails, diskVars
<1>2. CASE UNCHANGED timedOut
  BY <1>1, <1>2 DEF Box!outboxVars
<1>3. CASE w \in Deliveries /\ timedOut' = timedOut \cup {w}
  <2>1. aborted' \cup timedOut' = (aborted \cup timedOut) \cup {w}
    BY <1>1, <1>3
  <2>2. Box!CutOff(w)
    BY <1>1, <2>1 DEF Box!CutOff
  <2>3. QED
    BY <1>3, <2>2 DEF Box!Next
<1>4. QED
  <2>1. timedOut' = timedOut \/ timedOut' = timedOut \cup ({w} \cap (Deliveries \ BestEffort))
    BY DEF SendFails
  <2>2. QED
    BY <1>2, <1>3, <2>1

LEMMA EndsServe ==
    ASSUME IndInv, OutboxInv, NEW w \in Senders,
           AckDelivery(w) \/ WriteCount(w) \/ MoveToFailed(w)
    PROVE  [Box!Next]_(Box!outboxVars)
<1> DEFINE d == sender[w].id
<1>1. d \in Deliveries /\ SendersTyped /\ DiskTyped
  BY TypeParts DEF IndInv, SendersTyped, SenderState
<1>2. UNCHANGED historyVars
  BY DEF AckDelivery, WriteCount, MoveToFailed
<1>3. CASE AckDelivery(w)
  <2>1. d \in Deliveries \ BestEffort => AllReached(d) \/ d \in aborted \cup timedOut
    BY <1>3 DEF AckDelivery, IndInv, AckIsDue
  <2>2. Box!Release(d)
    BY <1>2, <1>3, <2>1 DEF AckDelivery, RemovesFile, Box!Release, AllReached, historyVars
  <2>3. QED
    BY <1>1, <2>2 DEF Box!Next
<1>4. CASE WriteCount(w)
  <2>1. d \in persisted /\ Counted(w) \in Nat \ {0}
    BY <1>4 DEF WriteCount, OutboxInv, CountWasRead, Counted
  <2>2. file' = [file EXCEPT ![d] = Counted(w)] /\ file'[d] = Counted(w)
    BY <1>1, <1>4 DEF WriteCount, DiskTyped
  <2> HIDE DEF d, Counted
  <2>3. Box!CountFailure(d)
    BY <1>2, <1>4, <2>1, <2>2 DEF WriteCount, Box!CountFailure, historyVars
  <2>4. QED
    BY <1>1, <2>3 DEF Box!Next
<1>5. CASE MoveToFailed(w)
  <2>1. CASE file[d] = NoFile
    BY <1>2, <1>5, <2>1 DEF MoveToFailed, diskVars, historyVars, Box!outboxVars
  <2>2. CASE file[d] # NoFile
    <3>1. Box!PutAside(d)
      BY <1>2, <1>5, <2>2 DEF MoveToFailed, historyVars, Box!PutAside
    <3>2. QED
      BY <1>1, <3>1 DEF Box!Next
  <2>3. QED
    BY <2>1, <2>2
<1>6. QED
  BY <1>3, <1>4, <1>5

LEMMA EnqueuePosts ==
    ASSUME OutboxInv, NEW d \in Deliveries, Enqueue(d)
    PROVE  [Box!Next]_(Box!outboxVars)
<1>1. d \notin persisted /\ UNCHANGED <<failed, reached, aborted, timedOut>>
  BY DEF Enqueue, OutboxInv, WrittenOnce
<1>2. CASE file' = [file EXCEPT ![d] = 0] /\ persisted' = persisted \cup {d}
  BY <1>1, <1>2 DEF Box!Post, Box!Next
<1>3. CASE UNCHANGED <<file, persisted>>
  BY <1>1, <1>3 DEF Box!outboxVars
<1>4. QED
  BY <1>2, <1>3 DEF Enqueue, EnqueueDelivery

LEMMA BoxStep ==
    IndInv /\ OutboxInv /\ [Next]_vars => [Box!Next]_(Box!outboxVars)
<1> SUFFICES ASSUME IndInv, OutboxInv, [Next]_vars PROVE [Box!Next]_(Box!outboxVars)
  OBVIOUS
<1>1. CASE \E d \in Deliveries : Enqueue(d)
  BY <1>1, EnqueuePosts
<1>2. CASE \E w \in Senders : SendSucceeds(w) \/ Abort(w)
  BY <1>2, SendTakes, AbortCutsOff
<1>3. CASE \E w \in Senders : AckDelivery(w) \/ WriteCount(w) \/ MoveToFailed(w)
  BY <1>3, EndsServe
<1>4. CASE \E w \in Senders, isAbortError \in BOOLEAN : SendFails(w, isAbortError)
  BY <1>4, FailCutsOff
<1>5. QED
  BY <1>1, <1>2, <1>3, <1>4, QuietSteps DEF Next, SendStep, DiskStep

(* enqueueDelivery, ackDelivery, failDelivery, moveToFailed, the payload     *)
(* loop and the recovery together are an outbox, whatever crashes, fails,    *)
(* overlaps or is overwritten, for any deliveries and recoveries.            *)
THEOREM QueueIsOutbox == Spec => ImplementsOutbox
<1>1. Init => Box!Init
  BY DEF Init, Box!Init, NothingLoaded
<1>2. QED
  BY <1>1, BoxStep, OutboxInit, OutboxStep, IndInvHolds, TypeCorrect, PTL
     DEF Spec, ImplementsOutbox, Box!Spec
=============================================================================
