---------------------------- MODULE MCApprovals ----------------------------
(* Bounded instance of Approvals for TLC.                                  *)
EXTENDS Approvals, TLC

CONSTANTS a1, a2, g1, k1, k2, r1, r2

MCAuthorization == {a1, a2}
MCWaiting == {a2}

KeySymmetry == Permutations({k1, k2})

(* The second request is there to be confused with the first: it always    *)
(* requires approval, is never granted, and only a1 asks for it.           *)
SecondRequestBound ==
  /\ policy[r2] = "require-approval"
  /\ grants[g1].request # r2
  /\ audits[a2].request # r2

(* No other call reads the record of a refused attempt: one is enough.     *)
AttemptBound == \A p, q \in attempts : p = q

(* A grant presented where none is needed is ignored: it makes one more    *)
(* command of many, and an equal replay.                                   *)
CommandBound ==
  \A a \in Authorization : audits[a].grant = None => audits[a].command.grant = None

(* The grant is given before the clock runs; what is authorized before it  *)
(* still may be.                                                           *)
GrantBound == grants[g1].issuedAt = 0

(* The waiting caller prepares at most two effects at once.                *)
HeldBound == held[a2][k1] + held[a2][k2] <= 2
=============================================================================
