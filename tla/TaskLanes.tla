------------------------------ MODULE TaskLanes ------------------------------
(***************************************************************************)
(* What the command queue promises to those who use it, whatever its pump  *)
(* loops do inside one another: every lane is a first-in first-out queue   *)
(* in front of a number of slots.  An entry that is accepted waits until   *)
(* it is the oldest of its lane and a slot is free, is started once, and   *)
(* keeps its slot until it ends or all lanes are reset.                    *)
(***************************************************************************)
EXTENDS Integers, FiniteSets, Sequences, SequencesExt

CONSTANTS Lanes, Jobs, LaneOf

VARIABLES waiting,   \* per lane, the entries that wait, oldest first
          holders,   \* per lane, the entries that hold a slot
          cap,       \* per lane, the number of slots
          open,      \* entries are accepted
          fate       \* per job: new, queued, running, ended, cleared, refused

laneVars == <<waiting, holders, cap, open, fate>>

Init ==
    /\ waiting = [l \in Lanes |-> <<>>]
    /\ holders = [l \in Lanes |-> {}]
    /\ cap = [l \in Lanes |-> 1]
    /\ open = TRUE
    /\ fate = [j \in Jobs |-> "new"]

Accept(j) ==
    /\ open
    /\ fate[j] = "new"
    /\ fate' = [fate EXCEPT ![j] = "queued"]
    /\ waiting' = [waiting EXCEPT ![LaneOf[j]] = Append(@, j)]
    /\ UNCHANGED <<holders, cap, open>>

Refuse(j) ==
    /\ ~open
    /\ fate[j] = "new"
    /\ fate' = [fate EXCEPT ![j] = "refused"]
    /\ UNCHANGED <<waiting, holders, cap, open>>

\* The oldest entry of the lane takes a slot that is free.
Start(l) ==
    /\ waiting[l] # <<>>
    /\ Cardinality(holders[l]) < cap[l]
    /\ fate[Head(waiting[l])] = "queued"
    /\ fate' = [fate EXCEPT ![Head(waiting[l])] = "running"]
    /\ holders' = [holders EXCEPT ![l] = @ \cup {Head(waiting[l])}]
    /\ waiting' = [waiting EXCEPT ![l] = Tail(@)]
    /\ UNCHANGED <<cap, open>>

\* A task that lost its slot in a reset frees none when it ends.
End(j) ==
    /\ fate[j] = "running"
    /\ fate' = [fate EXCEPT ![j] = "ended"]
    /\ holders' = [holders EXCEPT ![LaneOf[j]] = @ \ {j}]
    /\ UNCHANGED <<waiting, cap, open>>

\* The entries that wait in a lane are rejected, all of them.
Clear(l) ==
    /\ fate' = [j \in Jobs |-> IF j \in ToSet(waiting[l]) THEN "cleared" ELSE fate[j]]
    /\ waiting' = [waiting EXCEPT ![l] = <<>>]
    /\ UNCHANGED <<holders, cap, open>>

\* A lane always has a slot at least.  Those that run keep their slots.
Retune(l) ==
    /\ cap'[l] \in Nat \ {0}
    /\ cap' = [cap EXCEPT ![l] = cap'[l]]
    /\ UNCHANGED <<waiting, holders, open, fate>>

Close ==
    /\ open' = FALSE
    /\ UNCHANGED <<waiting, holders, cap, fate>>

\* All slots are free again, whoever still runs; what waits goes on waiting.
Reset ==
    /\ open' = TRUE
    /\ holders' = [l \in Lanes |-> {}]
    /\ UNCHANGED <<waiting, cap, fate>>

Next ==
    \/ \E j \in Jobs : Accept(j) \/ Refuse(j) \/ End(j)
    \/ \E l \in Lanes : Start(l) \/ Clear(l) \/ Retune(l)
    \/ Close \/ Reset

Spec == Init /\ [][Next]_laneVars
=============================================================================
