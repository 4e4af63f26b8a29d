----------------------------- MODULE GatewayLife -----------------------------
(***************************************************************************)
(* The life of a gateway as seen from outside.  It boots and serves under  *)
(* its lock on a port of its own, refuses work from a restart request on,  *)
(* closes its server before it gives the lock up, and either ends or       *)
(* begins another life, with the lock taken again and every lane reset     *)
(* once, before it starts a server.                                        *)
(*                                                                         *)
(* A request may come while it boots.  Then there is no server to close    *)
(* yet, and a restart that is over before the gateway serves is missed:    *)
(* no life begins, and what was refused stays refused until the next one.  *)
(***************************************************************************)
EXTENDS Integers

CONSTANT Lanes

VARIABLES stage,    \* rebooting, booting, serving, gone
          shutdown, \* idle, draining, closing or closed, respawning
          lock,     \* held
          port,     \* bound
          open,     \* the lanes accept work
          missed,   \* a restart of this life was missed
          life      \* per lane, how often it was reset

lifeVars == <<stage, shutdown, lock, port, open, missed, life>>

Init ==
    /\ stage = "booting" /\ shutdown = "idle"
    /\ lock = TRUE /\ port = FALSE /\ open = TRUE /\ missed = FALSE
    /\ life = [l \in Lanes |-> 0]

\* The end of a shutdown may find the gateway booting, without its lock; but for
\* one that is under way and one that was missed, what serves accepts work.
Boot ==
    /\ stage = "booting" /\ stage' = "serving"
    /\ lock \/ shutdown = "respawning"
    /\ open \/ shutdown # "idle" \/ missed
    /\ ~port /\ port'
    /\ UNCHANGED <<shutdown, lock, open, missed, life>>

\* A server that there is has to be closed.
CloseOrGoOn == shutdown' = IF port THEN "closing" ELSE "closed"

\* Without a task to wait for the server is closed at once.
AskForRestart ==
    /\ stage \in {"booting", "serving"} /\ shutdown = "idle"
    /\ shutdown' = "draining" \/ CloseOrGoOn
    /\ ~open'
    /\ UNCHANGED <<stage, lock, port, missed, life>>

\* The wait is over, or there is none because the gateway is to stop.
BeginClose ==
    /\ stage \in {"booting", "serving"} /\ shutdown \in {"idle", "draining"}
    /\ CloseOrGoOn
    /\ UNCHANGED <<stage, lock, port, open, missed, life>>

Close ==
    /\ shutdown = "closing" /\ shutdown' = "respawning"
    /\ ~port' /\ ~lock'
    /\ UNCHANGED <<stage, open, missed, life>>

GoOn ==
    /\ shutdown = "closed" /\ shutdown' = "respawning"
    /\ ~lock'
    /\ UNCHANGED <<stage, port, open, missed, life>>

\* No fresh process takes over.
Stay ==
    /\ shutdown = "respawning" /\ shutdown' = "idle"
    /\ ~open
    /\ lock'
    /\ \/ stage = "serving" /\ stage' = "rebooting" /\ UNCHANGED missed
       \/ stage = "booting" /\ missed' /\ UNCHANGED stage
    /\ UNCHANGED <<port, open, life>>

Reset ==
    /\ stage = "rebooting" /\ stage' = "booting"
    /\ open' /\ ~missed'
    /\ life' = [l \in Lanes |-> life[l] + 1]
    /\ UNCHANGED <<shutdown, lock, port>>

End ==
    /\ stage = "booting" \/ shutdown \in {"closing", "respawning"}
    /\ stage' = "gone"
    /\ ~lock' /\ ~port'
    /\ UNCHANGED <<shutdown, open, missed, life>>

Next == Boot \/ AskForRestart \/ BeginClose \/ Close \/ GoOn \/ Stay \/ Reset \/ End

Spec == Init /\ [][Next]_lifeVars
=============================================================================
