------------------------------ MODULE MCDrives ------------------------------
(* Bounded instances of Drives for TLC.                                    *)
EXTENDS Drives, TLC

CONSTANTS w1, w2, a1

MCWorker == {w1, w2}

(* One priority: the drives are served by creation time, then id.          *)
MCPriority == [d \in Drive |-> 1]

(* Workers are interchangeable.                                            *)
WorkerSymmetry == Permutations(MCWorker)
=============================================================================
