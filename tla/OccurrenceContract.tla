------------------------- MODULE OccurrenceContract -------------------------
(***************************************************************************)
(* What the occurrence queue promises about each trigger occurrence: it is *)
(* admitted once, it is granted at most MaxAttempts attempts, the target   *)
(* is dispatched at most once per attempt, and it ends either fulfilled -  *)
(* its last attempt was dispatched - or abandoned, which may only happen   *)
(* when every attempt has been granted.  Occurrences are independent: in   *)
(* one step any number of them may move.                                   *)
(***************************************************************************)
EXTENDS Naturals

CONSTANTS Occurrence, MaxAttempts

VARIABLES
  phase,     \* id -> "absent", "open", "fulfilled" or "abandoned"
  tries,     \* id -> attempts granted so far
  delivered  \* id -> attempt -> how often the target was dispatched for it

contractVars == <<phase, tries, delivered>>

Init ==
  /\ phase = [o \in Occurrence |-> "absent"]
  /\ tries = [o \in Occurrence |-> 0]
  /\ delivered = [o \in Occurrence |-> [a \in 1..MaxAttempts |-> 0]]

Rest(o) == phase'[o] = phase[o] /\ tries'[o] = tries[o] /\ delivered'[o] = delivered[o]

Admit(o) ==
  /\ phase[o] = "absent" /\ phase'[o] = "open"
  /\ tries'[o] = tries[o] /\ delivered'[o] = delivered[o]

Grant(o) ==
  /\ phase[o] = "open" /\ phase'[o] = "open"
  /\ tries[o] < MaxAttempts /\ tries'[o] = tries[o] + 1
  /\ delivered'[o] = delivered[o]

(* A worker whose lease has run out does not notice before its dispatch,   *)
(* so an attempt may still be delivered after the occurrence has settled.  *)
Deliver(o) ==
  /\ phase[o] # "absent" /\ phase'[o] = phase[o]
  /\ tries'[o] = tries[o]
  /\ \E a \in 1..tries[o] :
       /\ delivered[o][a] = 0
       /\ delivered'[o] = [delivered[o] EXCEPT ![a] = 1]

Fulfil(o) ==
  /\ phase[o] = "open" /\ phase'[o] = "fulfilled"
  /\ tries[o] > 0 /\ delivered[o][tries[o]] = 1
  /\ tries'[o] = tries[o] /\ delivered'[o] = delivered[o]

Abandon(o) ==
  /\ phase[o] = "open" /\ phase'[o] = "abandoned"
  /\ tries[o] = MaxAttempts
  /\ tries'[o] = tries[o] /\ delivered'[o] = delivered[o]

Next ==
  \A o \in Occurrence :
    Rest(o) \/ Admit(o) \/ Grant(o) \/ Deliver(o) \/ Fulfil(o) \/ Abandon(o)

Spec == Init /\ [][Next]_contractVars
=============================================================================
