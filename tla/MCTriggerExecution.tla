------------------------- MODULE MCTriggerExecution -------------------------
(* Bounded instances of TriggerExecution for TLC.                          *)
EXTENDS TriggerExecution

CONSTANTS a1, r1

MCRequestOf == [a \in Authorization |-> r1]
=============================================================================
