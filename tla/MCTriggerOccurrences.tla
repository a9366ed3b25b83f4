------------------------ MODULE MCTriggerOccurrences ------------------------
(* Bounded instances of TriggerOccurrences for TLC.                        *)
EXTENDS TriggerOccurrences, TLC

CONSTANTS w1, w2, k1, k2, k3

MCWorker == {w1, w2}
MCKeys2 == {k1, k2}
MCKeys3 == {k1, k2, k3}

(* Workers and keys are interchangeable; occurrence ids are ordered.       *)
WorkerKeySymmetry == Permutations(MCWorker) \cup Permutations(MCKeys2)
=============================================================================
