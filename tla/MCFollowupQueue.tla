--------------------------- MODULE MCFollowupQueue ---------------------------
(***************************************************************************)
(* Instances of FollowupQueue for TLC.                                     *)
(***************************************************************************)
EXTENDS FollowupQueue

CONSTANTS m1, m2, m3, m4, q1, q2, q3

ThreeQueues == {q1, q2, q3}
TwoQueues == {q1, q2}

FourMessages == {m1, m2, m3, m4}
TwoRoutes == [d \in Deliveries |-> IF d = m3 THEN "b" ELSE "a"]
OneRoute == [d \in Deliveries |-> "a"]

\* m4 is a redelivery of m2.
Ids == [d \in Deliveries |-> IF d = m1 THEN "1" ELSE IF d = m3 THEN "3" ELSE "2"]

Setting(mode, cap, drop) == [mode |-> mode, cap |-> cap, drop |-> drop]
RefuseNew == {Setting("collect", 2, "new"), Setting("followup", 2, "new")}
SummarizeSingly == {Setting("followup", 2, "summarize")}
DropOld == {Setting("collect", 2, "summarize"), Setting("followup", 1, "old")}
Collect == {Setting("collect", 3, "summarize")}
=============================================================================
