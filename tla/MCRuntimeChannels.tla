-------------------------- MODULE MCRuntimeChannels --------------------------
(* Bounded instances of RuntimeChannels for TLC.                           *)
EXTENDS RuntimeChannels, TLC

CONSTANTS p, a, b, m1, m2

As(i, r) == [id |-> i, role |-> r]

(* A broadcast channel wired to a point-to-point one, which may be wired   *)
(* to a queue; a wire back to the first would close a cycle.               *)
MCChannel == 1..3
MCMode == <<"broadcast", "point-to-point", "queue">>
MCCapacity == <<2, 1, 1>>
Roomy == <<2, 2, 2>>
MCFounders ==
  <<{As(p, "producer"), As(a, "consumer"), As(b, "consumer")},
    {As(p, "producer")},
    {As(p, "producer"), As(a, "consumer"), As(b, "consumer")}>>
MCApplicants == {1, 2} \X {As(i, "member") : i \in {a, b}}
MCWire == 1..3
MCFrom == <<1, 2, 2>>
MCTo == <<2, 3, 1>>
MCPublisher == <<p, p, p>>
MCMaxHops == <<2, 2, 1>>
One == [o \in Origin |-> 1]
Zero == [o \in Origin |-> 0]
Two == [o \in Origin |-> 2]

Consumers == Permutations({a, b}) \cup Permutations(Origin)
=============================================================================
