--------------------------- MODULE MCDeliveryQueue ---------------------------
(***************************************************************************)
(* Instances of DeliveryQueue for TLC.                                     *)
(***************************************************************************)
EXTENDS DeliveryQueue, TLC

CONSTANTS d1, d2, r1

TwoDeliveries == {d1, d2}
OneRecovery == {r1}
Order == (d1 :> 1) @@ (d2 :> 2)
TwoAndOne == (d1 :> 2) @@ (d2 :> 1)
First == {d1}
Second == {d2}

\* BACKOFF_MS in units of 5 s (the longest wait, 600 s, is only reached behind the
\* 120 s); maxRecoveryMs, 60 s, is 12 of them in the cfg.
CodeBackoff == <<1, 5, 24, 120>>
=============================================================================
