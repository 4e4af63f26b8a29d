---------------------------- MODULE FollowupInbox ----------------------------
(***************************************************************************)
(* What a followup queue promises as long as it neither drops nor clears:  *)
(* an inbox.  Messages are answered in the order in which they came in,    *)
(* several may be answered together, and a message leaves the inbox only   *)
(* after a turn that answered it was begun.                                *)
(***************************************************************************)
EXTENDS Integers, Sequences, SequencesExt

CONSTANT Deliveries

VARIABLES pending,   \* the messages in the inbox, oldest first
          answered   \* the messages a turn was begun for

inboxVars == <<pending, answered>>

First(n) == {pending[i] : i \in 1..n}

Init == pending = <<>> /\ answered = {}

Accept(d) ==
    /\ pending' = Append(pending, d)
    /\ UNCHANGED answered

\* A turn for the n oldest messages; it may fail and be begun again.
BeginTurn(n) ==
    /\ answered' = answered \cup First(n)
    /\ UNCHANGED pending

EndTurn(n) ==
    /\ First(n) \subseteq answered
    /\ pending' = SubSeq(pending, n + 1, Len(pending))
    /\ UNCHANGED answered

Next ==
    \/ \E d \in Deliveries : Accept(d)
    \/ \E n \in 1..Len(pending) : BeginTurn(n) \/ EndTurn(n)

Spec == Init /\ [][Next]_inboxVars
=============================================================================
