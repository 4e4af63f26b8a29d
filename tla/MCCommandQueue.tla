--------------------------- MODULE MCCommandQueue ---------------------------
(***************************************************************************)
(* Instances of CommandQueue for TLC: session lanes with the default       *)
(* concurrency, and the global lane "main".                                *)
(***************************************************************************)
EXTENDS CommandQueue

CONSTANTS s1, s2, main,          \* lanes
          a, b, c, ia, ib, ic    \* a, b, c: agent runs; ia, ib, ic: their inner entries

\* Two runs of session s1 and one of s2, whose inner entries share lane main.
SessionLanes == {s1, s2, main}
SessionJobs == {a, b, c, ia, ib, ic}
SessionLaneOf == (a :> s1) @@ (b :> s1) @@ (c :> s2) @@ [j \in {ia, ib, ic} |-> main]
SessionInner == (a :> ia) @@ (b :> ib) @@ (c :> ic) @@ [j \in {ia, ib, ic} |-> NoJob]

Conc == {0, 2}
GlobalLanes == {main}
=============================================================================
