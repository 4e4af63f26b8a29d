------------------------------- MODULE Outbox -------------------------------
(***************************************************************************)
(* What the write-ahead queue promises to those who send through it,       *)
(* whatever crashes, fails or overlaps: an entry is written once and       *)
(* stays, with the number of its failed attempts, until its delivery was   *)
(* taken whole, was cut off by an abort (of its caller, or of a request    *)
(* that its channel let time out), or is put aside for somebody to look    *)
(* at.  The parts of a delivery that must arrive whole are taken in their  *)
(* order, from the first, though some more than once.                      *)
(***************************************************************************)
EXTENDS Integers

CONSTANTS Deliveries,
          Parts,       \* how many parts a delivery has
          Whole,       \* deliveries of which no part may fail
          Absent       \* no entry

VARIABLES entry,   \* per delivery: failed attempts counted in its entry, or Absent
          posted,  \* deliveries whose entry was written
          aside,   \* deliveries that were put aside
          taken,   \* <<delivery, part>> that the channel took
          cut      \* deliveries of which a send was aborted

outboxVars == <<entry, posted, aside, taken, cut>>

Init ==
    /\ entry = [d \in Deliveries |-> Absent]
    /\ posted = {} /\ aside = {} /\ taken = {} /\ cut = {}

Post(d) ==
    /\ d \notin posted
    /\ entry' = [entry EXCEPT ![d] = 0]
    /\ posted' = posted \cup {d}
    /\ UNCHANGED <<aside, taken, cut>>

\* An entry need not be there: a delivery that could not be written is sent too.
Take(d, k) ==
    /\ d \in Whole => \A i \in 1..(k - 1) : <<d, i>> \in taken
    /\ taken' = taken \cup {<<d, k>>}
    /\ UNCHANGED <<entry, posted, aside, cut>>

CutOff(d) ==
    /\ cut' = cut \cup {d}
    /\ UNCHANGED <<entry, posted, aside, taken>>

Release(d) ==
    /\ d \in Whole => (\A k \in 1..Parts[d] : <<d, k>> \in taken) \/ d \in cut
    /\ entry' = [entry EXCEPT ![d] = Absent]
    /\ UNCHANGED <<posted, aside, taken, cut>>

\* A failed attempt is counted; the entry comes back if it went meanwhile.
CountFailure(d) ==
    /\ d \in posted
    /\ entry'[d] \in Nat \ {0}
    /\ entry' = [entry EXCEPT ![d] = entry'[d]]
    /\ UNCHANGED <<posted, aside, taken, cut>>

PutAside(d) ==
    /\ entry[d] # Absent
    /\ entry' = [entry EXCEPT ![d] = Absent]
    /\ aside' = aside \cup {d}
    /\ UNCHANGED <<posted, taken, cut>>

Next ==
    \E d \in Deliveries :
        \/ Post(d) \/ CutOff(d) \/ Release(d) \/ CountFailure(d) \/ PutAside(d)
        \/ \E k \in 1..Parts[d] : Take(d, k)

Spec == Init /\ [][Next]_outboxVars
=============================================================================
