------------------------------ MODULE Context ------------------------------
(***************************************************************************)
(* The context of one collect or report process: the run's timeout ends    *)
(* it, and SIGTERM ends it together with the context it was derived from.  *)
(***************************************************************************)

VARIABLE ctx

ContextStates == {"live", "expired", "stopped"}

Expire == ctx = "live" /\ ctx' = "expired"

Stop == ctx # "stopped" /\ ctx' = "stopped"

=============================================================================
