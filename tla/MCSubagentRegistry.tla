-------------------------- MODULE MCSubagentRegistry --------------------------
(***************************************************************************)
(* Instances of SubagentRegistry for TLC.                                  *)
(***************************************************************************)
EXTENDS SubagentRegistry, TLC

CONSTANTS r1, r2, r3, s1, s2

TwoRuns == {r1, r2}
SteeredRuns == {r1, r3}
OneSession == {s1}
Alone == (r1 :> s1)
Replaced == (r1 :> s1) @@ (r3 :> s1)
Top == (s1 :> Main)
TwoSessions == {s1, s2}

OwnSessions == (r1 :> s1) @@ (r2 :> s2)

\* The second session is spawned by a run of the first, or by the main one.
Nested == (s1 :> Main) @@ (s2 :> s1)
Siblings == (s1 :> Main) @@ (s2 :> Main)

First == {s1}
Second == {s2}
Both == {s1, s2}
None == {}
=============================================================================
