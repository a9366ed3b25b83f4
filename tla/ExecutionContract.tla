------------------------- MODULE ExecutionContract -------------------------
(***************************************************************************)
(* What the trigger boundary promises about one execution request: its     *)
(* authorization is spent once, then the consumption is recorded, then the *)
(* target is dispatched, once, and then the result is recorded, once.  A   *)
(* failure or a crash may end the sequence at any point; nothing is done   *)
(* out of order, repeated or taken back by whoever executes the request    *)
(* again.                                                                  *)
(***************************************************************************)
EXTENDS Naturals

VARIABLES
  spent,      \* the execution permit was consumed
  outcome,    \* status of the outcome record
  delivered   \* dispatches of the target

contractVars == <<spent, outcome, delivered>>

Init == spent = FALSE /\ outcome = "none" /\ delivered = 0

Spend ==
  /\ ~spent /\ spent'
  /\ outcome = "none"
  /\ UNCHANGED <<outcome, delivered>>

Record ==
  /\ spent /\ outcome = "none" /\ outcome' = "permit-consumed"
  /\ UNCHANGED <<spent, delivered>>

Deliver ==
  /\ outcome = "permit-consumed"
  /\ delivered = 0 /\ delivered' = 1
  /\ UNCHANGED <<spent, outcome>>

Settle ==
  /\ outcome = "permit-consumed" /\ delivered = 1
  /\ outcome' \in {"succeeded", "failed"}
  /\ UNCHANGED <<spent, delivered>>

Next == Spend \/ Record \/ Deliver \/ Settle

Spec == Init /\ [][Next]_contractVars
=============================================================================
