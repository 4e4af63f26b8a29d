-------------------------- MODULE MCGatewayRestart --------------------------
(***************************************************************************)
(* Instances of GatewayRestart for TLC: two agent runs of one session,     *)
(* and their inner entries on lane main.                                   *)
(***************************************************************************)
EXTENDS GatewayRestart

CONSTANTS s1, main, a, b, ia, ib

RunLanes == {s1, main}
RunJobs == {a, b, ia, ib}
RunLaneOf == [j \in {a, b} |-> s1] @@ [j \in {ia, ib} |-> main]
RunInner == (a :> ia) @@ (b :> ib) @@ [j \in {ia, ib} |-> NoJob]

GlobalLanes == {main}
Conc == {2}
AnyRespawn == {"disabled", "spawned"}
InProcess == {"disabled"}
=============================================================================
