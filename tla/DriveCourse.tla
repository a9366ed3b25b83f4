---------------------------- MODULE DriveCourse ----------------------------
(***************************************************************************)
(* What the drive store and its delivery scheduler promise about a drive:  *)
(* its status follows the table of transitions; an attempt to deliver it   *)
(* begins only while it is active and its delivery is open; the delivery   *)
(* is acknowledged only when the latest attempt succeeded and given up     *)
(* only when the latest attempt did not and enough attempts were made,     *)
(* both only while the drive is active; and a settled delivery is reopened *)
(* only while the drive is neither completed nor cancelled.  Drives are    *)
(* independent: in one step any number of them may move.                   *)
(***************************************************************************)
EXTENDS Naturals

CONSTANTS Drive, MaxAttempts, Successors

VARIABLES
  status,    \* drive -> its status, or "absent"
  phase,     \* drive -> "none", "open", "acknowledged" or "dead"
  tries,     \* drive -> attempts begun so far
  succeeded  \* drive -> the attempts whose delivery succeeded

courseVars == <<status, phase, tries, succeeded>>

Init ==
  /\ status = [d \in Drive |-> "absent"]
  /\ phase = [d \in Drive |-> "none"]
  /\ tries = [d \in Drive |-> 0]
  /\ succeeded = [d \in Drive |-> {}]

SameDelivery(d) == phase'[d] = phase[d] /\ tries'[d] = tries[d]
SameStatus(d) == status'[d] = status[d]
SameResults(d) == succeeded'[d] = succeeded[d]

Rest(d) == SameStatus(d) /\ SameDelivery(d) /\ SameResults(d)

Move(d) ==
  /\ status'[d] \in Successors[status[d]]
  /\ SameDelivery(d) /\ SameResults(d)

Attempt(d) ==
  /\ status[d] = "active"
  /\ phase[d] \in {"none", "open"} /\ phase'[d] = "open"
  /\ tries'[d] = tries[d] + 1
  /\ SameStatus(d) /\ SameResults(d)

(* A delivery that was begun may succeed whatever has become of its drive. *)
Succeed(d) ==
  /\ \E a \in 1..tries[d] : succeeded'[d] = succeeded[d] \cup {a}
  /\ SameStatus(d) /\ SameDelivery(d)

Acknowledge(d) ==
  /\ status[d] = "active"
  /\ phase[d] = "open" /\ phase'[d] = "acknowledged"
  /\ tries[d] \in succeeded[d]
  /\ tries'[d] = tries[d] /\ SameStatus(d) /\ SameResults(d)

Abandon(d) ==
  /\ status[d] = "active"
  /\ phase[d] = "open" /\ phase'[d] = "dead"
  /\ tries[d] >= MaxAttempts /\ tries[d] \notin succeeded[d]
  /\ tries'[d] = tries[d] /\ SameStatus(d) /\ SameResults(d)

Reopen(d) ==
  /\ status[d] \notin {"absent", "completed", "cancelled"}
  /\ phase[d] # "none" /\ phase'[d] = "open"
  /\ tries'[d] = tries[d] /\ SameStatus(d) /\ SameResults(d)

Next ==
  \A d \in Drive :
    \/ Rest(d) \/ Move(d) \/ Attempt(d) \/ Succeed(d)
    \/ Acknowledge(d) \/ Abandon(d) \/ Reopen(d)

Spec == Init /\ [][Next]_courseVars
=============================================================================
