------------------------------ MODULE MCRestores ------------------------------
(* Bounded instances of Restores for TLC.                                  *)
EXTENDS Restores, TLC

CONSTANTS t, r, s, p, q, v, u

MCName == {t, r, s, p, q, v, u}

(* The copy with inode i is made under its own name.                       *)
MCPartial == [i \in 0..MaxInode |-> CASE i = 0 -> u [] i = 1 -> p [] i = 2 -> q [] OTHER -> v]

(* The names for the replaced store are alike.                             *)
MCSymmetry == Permutations({r, s})
=============================================================================
