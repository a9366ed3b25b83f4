--------------------------- MODULE MCResourceStore ---------------------------
(* Bounded instances of ResourceStore for TLC.                             *)
EXTENDS ResourceStore, FiniteSets, TLC

CONSTANTS r1, r2, k1, k2, k3, s1, c1, c2

MCRes == {r1, r2}
MCKey == {k1, k2, k3}
MCClient == {c1, c2}

(* The model values of each kind are interchangeable.                      *)
Symmetry ==
  Permutations(MCRes) \cup Permutations(MCKey) \cup Permutations(MCClient)

Late(ps) == {i \in DOMAIN ps : ps[i].at > 0}

(* A longer batch writes different resources, and at most one of its       *)
(* commands carries a late timestamp.                                      *)
MCRequests ==
  {ps \in Proposals :
     /\ \A i, j \in DOMAIN ps : i # j => ps[i].res # ps[j].res
     /\ Cardinality(Late(ps)) <= 1}

(* At most one of the two callers submits more than one command at a time, *)
(* and at most one of all the keys, recorded or under way, is used for a   *)
(* late command.                                                           *)
SmallBatches ==
  /\ Cardinality({c \in Client : Len(batch[c]) > 1}) <= 1
  /\ Cardinality({k \in Key :
       \/ mutations[k] # None /\ mutations[k].command.at > 0
       \/ \E c \in Client : \E i \in Late(batch[c]) : batch[c][i].key = k}) <= 1
=============================================================================
