---------------------------- MODULE ChannelRelay ----------------------------
(***************************************************************************)
(* What the runtime channels and their wires promise about a message: it   *)
(* is published once and acknowledged for good; a copy on another channel  *)
(* exists only if the message it was made of does; and a copy is reported  *)
(* as forwarded only when it exists.                                       *)
(***************************************************************************)
CONSTANTS Message, Copy, Source

VARIABLES
  state,     \* message -> "absent", "pending" or "acknowledged"
  forwarded  \* the copies whose forwarding is reported as succeeded

relayVars == <<state, forwarded>>

Init ==
  /\ state = [m \in Message |-> "absent"]
  /\ forwarded = {}

Publish(m) ==
  /\ state[m] = "absent"
  /\ m \in Copy => state[Source[m]] # "absent"
  /\ state' = [state EXCEPT ![m] = "pending"]
  /\ UNCHANGED forwarded

Acknowledge(m) ==
  /\ state[m] = "pending"
  /\ state' = [state EXCEPT ![m] = "acknowledged"]
  /\ UNCHANGED forwarded

Report(x) ==
  /\ state[x] # "absent"
  /\ forwarded' = forwarded \cup {x}
  /\ UNCHANGED state

Next ==
  \/ \E m \in Message : Publish(m) \/ Acknowledge(m)
  \/ \E x \in Copy : Report(x)

Spec == Init /\ [][Next]_relayVars
=============================================================================
