--------------------------- MODULE MCCronService ---------------------------
(***************************************************************************)
(* Instances of CronService for TLC: a recurring job r1 and a one-shot o1. *)
(***************************************************************************)
EXTENDS CronService

CONSTANTS r1, o1

NoJobs == {}
TwoJobs == {r1, o1}
Recurring == {r1}
OneShots == {o1}

=============================================================================
