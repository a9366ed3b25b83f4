---------------------------- MODULE DrivesProofs ----------------------------
(***************************************************************************)
(* Theorems about Drives, for every set of drives, agents and workers and  *)
(* every lease, delay, priority and attempt limit.                         *)
(***************************************************************************)
EXTENDS Drives, LeastElements, TLAPS

(* What a write does to a drive's delivery record.                         *)
SameDelivery(r, q) ==
  /\ q.attempts = r.attempts /\ q.token = r.token
  /\ q.acknowledged = r.acknowledged /\ q.deadLettered = r.deadLettered

Moved(r, q) == q.status \in Successors[r.status] /\ SameDelivery(r, q)

Edited(r, q) == q.status = r.status /\ SameDelivery(r, q)

Reopened(r, q) ==
  /\ ~Closed(r) /\ q.status = r.status
  /\ r.attempts > 0 /\ q.attempts = r.attempts
  /\ q.token = 0 /\ ~q.acknowledged /\ ~q.deadLettered

(* What a command may write over r.                                        *)
CommandWrite(r, q) ==
  /\ q \in DriveState /\ WellFormed(q)
  /\ q.status # "absent"
  /\ Moved(r, q) \/ Edited(r, q) \/ Reopened(r, q)

AnyCommand(d) ==
  \E at \in Timestamps :
    \/ \E s \in Statuses, a \in Agent \cup {None}, x \in Detail : Create(d, s, a, x, at)
    \/ \E s \in Statuses : Transition(d, s, at)
    \/ \E a \in Agent \cup {None}, x \in Detail : Transfer(d, a, x, at)
    \/ \E x \in Detail : SetLinks(d, x, at)
    \/ ReportProgress(d, at)
    \/ RetryDelivery(d, at)

LEMMA SuccessorsLemma ==
  ASSUME NEW s \in Statuses \cup {"absent"}, NEW t \in Successors[s]
  PROVE  t \in Statuses
BY DEF Successors, Statuses

(* A drive that is created has no delivery record.                         *)
LEMMA CreatedFields ==
  ASSUME NEW s \in Statuses, NEW a \in Agent \cup {None}, NEW x \in Detail, NEW at \in Nat,
         NEW r \in DriveState, r = Absent, s \in Successors["absent"]
  PROVE  CommandWrite(r, [Absent EXCEPT !.status = s, !.assignee = a, !.detail = x,
                            !.createdAt = at, !.updatedAt = at])
<1> DEFINE q == [r EXCEPT !.status = s, !.assignee = a, !.detail = x,
                   !.createdAt = at, !.updatedAt = at]
<1>1. /\ r.status = "absent" /\ r.attempts = 0 /\ r.token = 0
      /\ r.acknowledged = FALSE /\ r.deadLettered = FALSE
  BY DEF Absent
<1>2. q \in DriveState /\ q.status = s /\ SameDelivery(r, q)
  BY DEF DriveState, SameDelivery
<1>3. WellFormed(q)
  BY <1>1, <1>2 DEF WellFormed, SameDelivery
<1>4. s # "absent"
  BY DEF Statuses
<1>5. Moved(r, q)
  BY <1>1, <1>2 DEF Moved
<1>6. CommandWrite(r, q)
  BY <1>2, <1>3, <1>4, <1>5 DEF CommandWrite
<1> QED BY <1>6

LEMMA CommandLemma ==
  ASSUME TypeOK, \A d \in Drive : drives[d].status = "absent" => drives[d] = Absent,
         NEW d \in Drive, AnyCommand(d)
  PROVE  /\ \E q \in DriveState : /\ CommandWrite(drives[d], q)
                                  /\ drives' = [drives EXCEPT ![d] = q]
         /\ commands' = commands + 1
         /\ UNCHANGED <<now, active, flight, lastToken, runs, interrupts>>
<1> DEFINE r == drives[d]
<1>0. r \in DriveState /\ WellFormed(r)
  BY DEF TypeOK
<1>a. PICK at \in Timestamps :
        \/ \E s \in Statuses, a \in Agent \cup {None}, x \in Detail : Create(d, s, a, x, at)
        \/ \E s \in Statuses : Transition(d, s, at)
        \/ \E a \in Agent \cup {None}, x \in Detail : Transfer(d, a, x, at)
        \/ \E x \in Detail : SetLinks(d, x, at)
        \/ ReportProgress(d, at)
        \/ RetryDelivery(d, at)
  BY DEF AnyCommand
<1>b. at \in Nat
  BY DEF Timestamps
<1>1. ASSUME NEW q, CommandWrite(r, q), Command(d, q, at)
      PROVE  /\ \E p \in DriveState : CommandWrite(r, p) /\ drives' = [drives EXCEPT ![d] = p]
             /\ commands' = commands + 1
             /\ UNCHANGED <<now, active, flight, lastToken, runs, interrupts>>
  BY <1>1 DEF Command, CommandWrite
<1>2. ASSUME NEW s \in Statuses, NEW a \in Agent \cup {None}, NEW x \in Detail,
             Create(d, s, a, x, at)
      PROVE  \E q : CommandWrite(r, q) /\ Command(d, q, at)
  BY <1>0, <1>2, <1>b, CreatedFields DEF Create
<1>3. ASSUME NEW s \in Statuses, Transition(d, s, at)
      PROVE  \E q : CommandWrite(r, q) /\ Command(d, q, at)
  <2> DEFINE q == [r EXCEPT !.status = s, !.updatedAt = at]
  <2>1. q \in DriveState /\ q.status = s /\ SameDelivery(r, q)
    BY <1>0, <1>b DEF DriveState, SameDelivery
  <2>2. WellFormed(q)
    BY <1>0, <2>1 DEF WellFormed, SameDelivery
  <2> QED BY <1>3, <2>1, <2>2 DEF Transition, CommandWrite, Moved, Statuses
<1>4. ASSUME NEW a \in Agent \cup {None}, NEW x \in Detail, Transfer(d, a, x, at)
      PROVE  \E q : CommandWrite(r, q) /\ Command(d, q, at)
  <2> DEFINE q == [r EXCEPT !.assignee = a, !.detail = x, !.updatedAt = at]
  <2>1. q \in DriveState /\ q.status = r.status /\ SameDelivery(r, q)
    BY <1>0, <1>b DEF DriveState, SameDelivery
  <2>2. WellFormed(q)
    BY <1>0, <2>1 DEF WellFormed, SameDelivery
  <2> QED BY <1>4, <2>1, <2>2 DEF Transfer, Closed, CommandWrite, Edited
<1>5. ASSUME NEW x \in Detail, SetLinks(d, x, at)
      PROVE  \E q : CommandWrite(r, q) /\ Command(d, q, at)
  <2> DEFINE q == [r EXCEPT !.detail = x, !.updatedAt = at]
  <2>1. q \in DriveState /\ q.status = r.status /\ SameDelivery(r, q)
    BY <1>0, <1>b DEF DriveState, SameDelivery
  <2>2. WellFormed(q)
    BY <1>0, <2>1 DEF WellFormed, SameDelivery
  <2> QED BY <1>5, <2>1, <2>2 DEF SetLinks, Closed, CommandWrite, Edited
<1>6. ASSUME ReportProgress(d, at)
      PROVE  \E q : CommandWrite(r, q) /\ Command(d, q, at)
  <2> DEFINE q == [r EXCEPT !.updatedAt = at]
  <2>1. q \in DriveState /\ q.status = r.status /\ SameDelivery(r, q)
    BY <1>0, <1>b DEF DriveState, SameDelivery
  <2>2. WellFormed(q)
    BY <1>0, <2>1 DEF WellFormed, SameDelivery
  <2> QED BY <1>6, <2>1, <2>2 DEF ReportProgress, Closed, CommandWrite, Edited
<1>7. ASSUME RetryDelivery(d, at)
      PROVE  \E q : CommandWrite(r, q) /\ Command(d, q, at)
  <2> DEFINE q == Retried(r, at)
  <2>1. /\ q \in DriveState /\ q.status = r.status /\ q.attempts = r.attempts
        /\ q.token = 0 /\ ~q.acknowledged /\ ~q.deadLettered
    BY <1>0, <1>b DEF DriveState, Retried
  <2>2. WellFormed(q) /\ r.attempts > 0
    BY <1>0, <1>7, <2>1 DEF WellFormed, RetryDelivery, DriveState
  <2> HIDE DEF q
  <2>3. Command(d, q, at) /\ ~Closed(r)
    BY <1>7 DEF RetryDelivery, q
  <2> QED BY <2>1, <2>2, <2>3 DEF Closed, CommandWrite, Reopened
<1> QED BY <1>1, <1>2, <1>3, <1>4, <1>5, <1>6, <1>7, <1>a

(* What a claim writes: the next attempt under a new token, over a drive   *)
(* that is active and whose delivery is not settled.                       *)
LEMMA ClaimLemma ==
  ASSUME TypeOK, NEW w \in Worker, Claim(w)
  PROVE  \E d \in Drive, q \in DriveState, f \in Flight :
           /\ drives' = [drives EXCEPT ![d] = q] /\ flight' = [flight EXCEPT ![w] = f]
           /\ WellFormed(q) /\ drives[d].status = "active" /\ q.status = "active"
           /\ ~drives[d].acknowledged /\ ~drives[d].deadLettered
           /\ ~q.acknowledged /\ ~q.deadLettered
           /\ q.attempts = drives[d].attempts + 1 /\ q.token = lastToken + 1
           /\ f.drive = d /\ f.token = lastToken + 1
           /\ f.attempt = drives[d].attempts + 1 /\ ~f.succeeded
<1>1. PICK d \in FirstClaimable :
        /\ drives' = [drives EXCEPT ![d] = Claimed(drives[d])]
        /\ flight' = [flight EXCEPT ![w] =
             [drive |-> d, token |-> lastToken + 1, attempt |-> drives[d].attempts + 1,
              assignee |-> drives[d].assignee, detail |-> drives[d].detail,
              succeeded |-> FALSE]]
  BY DEF Claim
<1> DEFINE r == drives[d]
           q == Claimed(r)
           f == [drive |-> d, token |-> lastToken + 1, attempt |-> r.attempts + 1,
                 assignee |-> r.assignee, detail |-> r.detail, succeeded |-> FALSE]
<1>2. /\ d \in Drive /\ r.status = "active" /\ r.assignee # None
      /\ ~r.acknowledged /\ ~r.deadLettered
  BY DEF FirstClaimable, Claimable, Wanted
<1>3. /\ r \in DriveState /\ lastToken \in Nat /\ now \in Nat /\ now + Lease \in Nat
  BY <1>2, BoundsAssumption DEF TypeOK
<1>4. /\ q \in DriveState /\ q.status = r.status
      /\ q.acknowledged = r.acknowledged /\ q.deadLettered = r.deadLettered
      /\ q.attempts = r.attempts + 1 /\ q.token = lastToken + 1
  <2> DEFINE n == IF r.attempts = 0 THEN now ELSE r.nextAttemptAt
  <2>1. n \in Nat
    BY <1>3 DEF DriveState
  <2>2. q = [r EXCEPT !.attempts = r.attempts + 1, !.nextAttemptAt = n,
               !.token = lastToken + 1, !.expiresAt = now + Lease, !.updatedAt = now]
    BY DEF Claimed
  <2>3. r.attempts + 1 \in Nat /\ lastToken + 1 \in Nat
    BY <1>3 DEF DriveState
  <2> HIDE DEF n, q, r
  <2> QED BY <1>3, <2>1, <2>2, <2>3 DEF DriveState
<1>5. WellFormed(q)
  BY <1>2, <1>3, <1>4 DEF WellFormed, DriveState
<1>6. f \in Flight
  <2>1. lastToken + 1 \in Nat \ {0} /\ r.attempts + 1 \in Nat \ {0}
    BY <1>3 DEF DriveState
  <2> QED BY <1>2, <1>3, <2>1 DEF Flight, DriveState
<1> HIDE DEF q
<1>7. drives' = [drives EXCEPT ![d] = q] /\ flight' = [flight EXCEPT ![w] = f]
  BY <1>1 DEF q
<1> QED BY <1>2, <1>3, <1>4, <1>5, <1>6, <1>7

(* What a settlement writes: over the state it was claimed in, under the   *)
(* lease of its own claim, an acknowledgement or a failure.                *)
LEMMA SettleLemma ==
  ASSUME TypeOK, NEW w \in Worker, Acknowledge(w) \/ Fail(w)
  PROVE  LET f == flight[w]
             r == drives[f.drive]
         IN  /\ f \in Flight /\ r.token = f.token /\ r.status = "active"
             /\ r.assignee = f.assignee /\ r.detail = f.detail
             /\ flight' = [flight EXCEPT ![w] = None]
             /\ UNCHANGED <<now, active, lastToken, runs, commands, interrupts>>
             /\ \E q \in DriveState :
                  /\ drives' = [drives EXCEPT ![f.drive] = q]
                  /\ WellFormed(q) /\ q.status = "active"
                  /\ q.attempts = r.attempts /\ q.token = 0
                  /\ q.assignee = r.assignee /\ q.detail = r.detail
                  /\ \/ f.succeeded /\ q.acknowledged /\ ~q.deadLettered
                     \/ /\ ~f.succeeded /\ ~q.acknowledged
                        /\ q.deadLettered => r.attempts >= MaxAttempts
<1> DEFINE f == flight[w]
           r == drives[f.drive]
<1>1. /\ f # None /\ Settles(f) /\ Land(w)
      /\ \/ f.succeeded /\ drives' = [drives EXCEPT ![f.drive] = Acknowledged(r)]
         \/ ~f.succeeded /\ drives' = [drives EXCEPT ![f.drive] = Failed(r)]
  BY DEF Acknowledge, Fail
<1>2. /\ f \in Flight /\ f.drive \in Drive /\ r \in DriveState /\ WellFormed(r)
      /\ now \in Nat /\ now + RetryDelay \in Nat
  BY <1>1, BoundsAssumption DEF TypeOK, Flight
<1>3. /\ r.token = f.token /\ r.status = "active"
      /\ r.assignee = f.assignee /\ r.detail = f.detail
  BY <1>1 DEF Settles
<1>4. /\ flight' = [flight EXCEPT ![w] = None]
      /\ UNCHANGED <<now, active, lastToken, runs, commands, interrupts>>
  BY <1>1 DEF Land
<1>5. CASE f.succeeded /\ drives' = [drives EXCEPT ![f.drive] = Acknowledged(r)]
  <2> DEFINE q == Acknowledged(r)
  <2>1. /\ q \in DriveState /\ q.status = r.status /\ q.attempts = r.attempts
        /\ q.token = 0 /\ q.acknowledged = TRUE /\ q.deadLettered = r.deadLettered
        /\ q.assignee = r.assignee /\ q.detail = r.detail
    BY <1>2 DEF Acknowledged, DriveState
  <2>2. r.token # 0 /\ ~r.deadLettered /\ r.attempts # 0
    BY <1>2, <1>3 DEF WellFormed, Flight
  <2>3. WellFormed(q)
    BY <2>1, <2>2 DEF WellFormed
  <2> HIDE DEF q
  <2>4. drives' = [drives EXCEPT ![f.drive] = q]
    BY <1>5 DEF q
  <2> QED BY <1>2, <1>3, <1>4, <1>5, <2>1, <2>2, <2>3, <2>4
<1>6. CASE ~f.succeeded /\ drives' = [drives EXCEPT ![f.drive] = Failed(r)]
  <2> DEFINE q == Failed(r)
  <2>1. /\ q \in DriveState /\ q.status = r.status /\ q.attempts = r.attempts
        /\ q.token = 0 /\ q.acknowledged = r.acknowledged
        /\ q.deadLettered = (r.attempts >= MaxAttempts)
        /\ q.assignee = r.assignee /\ q.detail = r.detail
    <3> DEFINE b == r.attempts >= MaxAttempts
    <3>1. b \in BOOLEAN
      OBVIOUS
    <3>2. q = [r EXCEPT !.token = 0, !.expiresAt = 0, !.nextAttemptAt = now + RetryDelay,
                 !.deadLettered = b, !.updatedAt = now]
      BY DEF Failed
    <3> HIDE DEF b, q
    <3>3. /\ q \in DriveState /\ q.status = r.status /\ q.attempts = r.attempts
          /\ q.token = 0 /\ q.acknowledged = r.acknowledged /\ q.deadLettered = b
          /\ q.assignee = r.assignee /\ q.detail = r.detail
      BY <1>2, <3>1, <3>2 DEF DriveState
    <3> QED BY <3>3 DEF b
  <2>2. ~r.acknowledged /\ r.attempts # 0
    BY <1>2, <1>3 DEF WellFormed, Flight
  <2>3. WellFormed(q)
    BY <2>1, <2>2 DEF WellFormed
  <2> HIDE DEF q
  <2>4. drives' = [drives EXCEPT ![f.drive] = q]
    BY <1>6 DEF q
  <2> QED BY <1>2, <1>3, <1>4, <1>6, <2>1, <2>2, <2>3, <2>4
<1> QED BY <1>1, <1>5, <1>6

-----------------------------------------------------------------------------
(* The inductive invariant.  A claim token identifies one attempt of one   *)
(* drive, at most one delivery under way was made under it, and whether    *)
(* that delivery has succeeded is what runs says of the attempt.           *)
AbsentInv == \A d \in Drive : drives[d].status = "absent" => drives[d] = Absent

TokenInv == \A d \in Drive : drives[d].token <= lastToken

FlightInv ==
  \A w \in Worker : flight[w] # None =>
    LET f == flight[w]
        r == drives[f.drive]
    IN  /\ f.token <= lastToken
        /\ f.attempt <= r.attempts
        /\ r.token = f.token => r.attempts = f.attempt
        /\ f.succeeded => RunOf(f) \in runs[f.drive]
        /\ ~f.succeeded => \A x \in runs[f.drive] : x.attempt # f.attempt

DistinctFlights ==
  \A v, w \in Worker :
    v # w /\ flight[v] # None /\ flight[w] # None =>
      /\ flight[v].token # flight[w].token
      /\ flight[v].drive = flight[w].drive => flight[v].attempt # flight[w].attempt

RunsInv ==
  \A d \in Drive : \A x \in runs[d] : x.attempt \in 1..drives[d].attempts

IndInv == TypeOK /\ AbsentInv /\ TokenInv /\ FlightInv /\ DistinctFlights /\ RunsInv

LEMMA InvInitially == Init => IndInv
<1> SUFFICES ASSUME Init PROVE IndInv
  OBVIOUS
<1>1. Absent \in DriveState /\ WellFormed(Absent)
  BY DEF Absent, DriveState, WellFormed
<1>2. TypeOK
  BY <1>1 DEF Init, TypeOK
<1>3. AbsentInv /\ TokenInv
  BY DEF Init, AbsentInv, TokenInv, Absent
<1>4. FlightInv /\ DistinctFlights /\ RunsInv
  BY DEF Init, FlightInv, DistinctFlights, RunsInv
<1> QED BY <1>2, <1>3, <1>4 DEF IndInv

(* A step that begins no attempt: records keep their attempts, leases are  *)
(* only removed, deliveries only end.                                      *)
QuietStep ==
  /\ \A d \in Drive :
       /\ drives'[d].attempts = drives[d].attempts
       /\ drives'[d].token \in {0, drives[d].token}
       /\ drives'[d].status = "absent" => drives'[d] = drives[d]
  /\ \A v \in Worker : flight'[v] \in {flight[v], None}
  /\ UNCHANGED <<lastToken, runs>>

LEMMA QuietKeepsInv ==
  ASSUME IndInv, TypeOK', QuietStep
  PROVE  IndInv'
<1>0. /\ \A v \in Worker : flight[v] # None => flight[v] \in Flight
      /\ lastToken \in Nat /\ lastToken' = lastToken /\ runs' = runs
      /\ \A d \in Drive : drives[d].token \in Nat
  BY DEF IndInv, TypeOK, QuietStep, DriveState
<1>1. AbsentInv'
  BY DEF IndInv, AbsentInv, QuietStep
<1>2. TokenInv'
  BY <1>0 DEF IndInv, TokenInv, QuietStep
<1>3. FlightInv'
  <2> SUFFICES ASSUME NEW w \in Worker, flight'[w] # None
               PROVE  LET f == flight'[w]
                          r == drives'[f.drive]
                      IN  /\ f.token <= lastToken
                          /\ f.attempt <= r.attempts
                          /\ r.token = f.token => r.attempts = f.attempt
                          /\ f.succeeded => RunOf(f) \in runs[f.drive]
                          /\ ~f.succeeded => \A x \in runs[f.drive] : x.attempt # f.attempt
    BY <1>0 DEF FlightInv, RunOf
  <2>1. /\ flight'[w] = flight[w] /\ flight[w] \in Flight
        /\ flight[w].drive \in Drive /\ flight[w].token # 0
    BY <1>0 DEF QuietStep, Flight
  <2>2. /\ drives'[flight[w].drive].attempts = drives[flight[w].drive].attempts
        /\ drives'[flight[w].drive].token \in {0, drives[flight[w].drive].token}
    BY <2>1 DEF QuietStep
  <2> QED BY <2>1, <2>2 DEF IndInv, FlightInv
<1>4. DistinctFlights'
  BY DEF IndInv, DistinctFlights, QuietStep
<1>5. RunsInv'
  BY <1>0 DEF IndInv, RunsInv, QuietStep
<1> QED BY <1>1, <1>2, <1>3, <1>4, <1>5 DEF IndInv

(* A command is a quiet step.                                              *)
LEMMA CommandKeepsInv ==
  ASSUME IndInv, NEW d \in Drive, AnyCommand(d)
  PROVE  IndInv'
<1>1. /\ commands' = commands + 1
      /\ UNCHANGED <<now, active, flight, lastToken, runs, interrupts>>
      /\ \E q \in DriveState : CommandWrite(drives[d], q) /\ drives' = [drives EXCEPT ![d] = q]
  BY CommandLemma DEF IndInv, AbsentInv
<1>2. PICK q \in DriveState : CommandWrite(drives[d], q) /\ drives' = [drives EXCEPT ![d] = q]
  BY <1>1
<1>3. /\ WellFormed(q) /\ q.status # "absent"
      /\ q.attempts = drives[d].attempts
      /\ q.token \in {0, drives[d].token}
  BY <1>2 DEF CommandWrite, Moved, Edited, Reopened, SameDelivery
<1>4. TypeOK'
  BY <1>1, <1>2, <1>3 DEF IndInv, TypeOK
<1>5. QuietStep
  BY <1>1, <1>2, <1>3 DEF QuietStep, IndInv, TypeOK
<1> QED BY <1>4, <1>5, QuietKeepsInv

LEMMA SettleKeepsInv ==
  ASSUME IndInv, NEW w \in Worker, Acknowledge(w) \/ Fail(w)
  PROVE  IndInv'
<1> DEFINE d == flight[w].drive
<1>1. /\ flight[w] \in Flight /\ drives[d].status = "active"
      /\ flight' = [flight EXCEPT ![w] = None]
      /\ UNCHANGED <<now, active, lastToken, runs, commands, interrupts>>
      /\ \E q \in DriveState :
           /\ drives' = [drives EXCEPT ![d] = q]
           /\ WellFormed(q) /\ q.status = "active"
           /\ q.attempts = drives[d].attempts /\ q.token = 0
  BY SettleLemma DEF IndInv
<1>2. PICK q \in DriveState :
           /\ drives' = [drives EXCEPT ![d] = q]
           /\ WellFormed(q) /\ q.status = "active"
           /\ q.attempts = drives[d].attempts /\ q.token = 0
  BY <1>1
<1>3. d \in Drive
  BY <1>1 DEF Flight
<1>4. TypeOK'
  BY <1>1, <1>2, <1>3 DEF IndInv, TypeOK
<1>5. QuietStep
  BY <1>1, <1>2, <1>3 DEF QuietStep, IndInv, TypeOK
<1> QED BY <1>4, <1>5, QuietKeepsInv

(* A claim begins an attempt no delivery was made in, under a new token.   *)
LEMMA ClaimKeepsInv ==
  ASSUME IndInv, NEW w \in Worker, Claim(w)
  PROVE  IndInv'
<1>1. PICK d \in Drive, q \in DriveState, f \in Flight :
        /\ drives' = [drives EXCEPT ![d] = q] /\ flight' = [flight EXCEPT ![w] = f]
        /\ WellFormed(q) /\ q.status = "active"
        /\ q.attempts = drives[d].attempts + 1 /\ q.token = lastToken + 1
        /\ f.drive = d /\ f.token = lastToken + 1
        /\ f.attempt = drives[d].attempts + 1 /\ ~f.succeeded
  BY ClaimLemma DEF IndInv
<1>2. /\ drives \in [Drive -> DriveState] /\ flight \in [Worker -> Flight \cup {None}]
      /\ lastToken \in Nat /\ lastToken' = lastToken + 1
      /\ UNCHANGED <<now, active, runs, commands, interrupts>>
      /\ \A c \in Drive : drives[c].attempts \in Nat /\ drives[c].token \in Nat
  BY DEF Claim, IndInv, TypeOK, DriveState
<1>3. TypeOK'
  BY <1>1, <1>2 DEF IndInv, TypeOK
<1>4. /\ drives'[d] = q /\ \A c \in Drive : c # d => drives'[c] = drives[c]
      /\ flight'[w] = f /\ \A v \in Worker : v # w => flight'[v] = flight[v]
  BY <1>1, <1>2
<1>5. AbsentInv' /\ TokenInv'
  BY <1>1, <1>2, <1>4 DEF IndInv, AbsentInv, TokenInv
<1>6. \A x \in runs[d] : x.attempt # f.attempt /\ x.attempt \in Nat
  BY <1>1, <1>2 DEF IndInv, RunsInv
<1>7. \A v \in Worker : v # w /\ flight[v] # None =>
        /\ flight[v] \in Flight /\ flight[v].drive \in Drive
        /\ flight[v].token \in Nat /\ flight[v].attempt \in Nat
        /\ flight[v].token <= lastToken
        /\ flight[v].drive = d => flight[v].attempt <= drives[d].attempts
  BY <1>2 DEF IndInv, FlightInv, Flight
<1>8. FlightInv'
  <2> SUFFICES ASSUME NEW v \in Worker, flight'[v] # None
               PROVE  LET g == flight'[v]
                          r == drives'[g.drive]
                      IN  /\ g.token <= lastToken + 1
                          /\ g.attempt <= r.attempts
                          /\ r.token = g.token => r.attempts = g.attempt
                          /\ g.succeeded => RunOf(g) \in runs[g.drive]
                          /\ ~g.succeeded => \A x \in runs[g.drive] : x.attempt # g.attempt
    BY <1>2 DEF FlightInv, RunOf
  <2>1. CASE v = w
    BY <1>1, <1>2, <1>4, <1>6, <2>1
  <2>2. CASE v # w
    <3>1. flight'[v] = flight[v] /\ flight[v] # None
      BY <1>4, <2>2
    <3>2. CASE flight[v].drive = d
      BY <1>1, <1>2, <1>4, <1>7, <2>2, <3>1, <3>2 DEF IndInv, FlightInv
    <3>3. CASE flight[v].drive # d
      BY <1>2, <1>4, <1>7, <2>2, <3>1, <3>3 DEF IndInv, FlightInv
    <3> QED BY <3>2, <3>3
  <2> QED BY <2>1, <2>2
<1>9. DistinctFlights'
  BY <1>1, <1>2, <1>4, <1>7 DEF IndInv, DistinctFlights
<1>10. RunsInv'
  <2> SUFFICES ASSUME NEW c \in Drive, NEW x \in runs[c]
               PROVE  x.attempt \in 1..drives'[c].attempts
    BY <1>2 DEF RunsInv
  <2>1. x.attempt \in 1..drives[c].attempts /\ drives[c].attempts \in Nat
    BY <1>2 DEF IndInv, RunsInv
  <2>2. drives'[c].attempts \in Nat /\ drives'[c].attempts >= drives[c].attempts
    BY <1>1, <1>2, <1>4, <2>1
  <2> QED BY <2>1, <2>2
<1> QED BY <1>3, <1>5, <1>8, <1>9, <1>10 DEF IndInv

(* A success is recorded for the delivery's own attempt and for no other   *)
(* delivery's: deliveries of one drive differ in their attempts.           *)
LEMMA DeliverKeepsInv ==
  ASSUME IndInv, NEW w \in Worker, Deliver(w)
  PROVE  IndInv'
<1> DEFINE f == flight[w]
           d == f.drive
<1>1. /\ f # None /\ f \in Flight /\ ~f.succeeded /\ d \in Drive
      /\ flight \in [Worker -> Flight \cup {None}] /\ runs \in [Drive -> SUBSET Run]
      /\ drives \in [Drive -> DriveState]
  BY DEF Deliver, IndInv, TypeOK, Flight
<1>2. /\ flight' = [flight EXCEPT ![w].succeeded = TRUE]
      /\ runs' = [runs EXCEPT ![d] = runs[d] \cup {RunOf(f)}]
      /\ UNCHANGED <<drives, now, active, lastToken, commands, interrupts>>
  BY DEF Deliver
<1>3. RunOf(f) \in Run /\ RunOf(f).attempt = f.attempt
  BY <1>1 DEF RunOf, Run, Flight
<1> DEFINE g == [f EXCEPT !.succeeded = TRUE]
<1>4. /\ g \in Flight /\ g.drive = d /\ g.token = f.token /\ g.attempt = f.attempt
      /\ g.assignee = f.assignee /\ g.detail = f.detail /\ g.succeeded
  BY <1>1 DEF Flight
<1>5. flight' = [flight EXCEPT ![w] = g]
  BY <1>1, <1>2
<1>6. RunOf(g) = RunOf(f)
  BY <1>4 DEF RunOf
<1> HIDE DEF g
<1>7. TypeOK'
  BY <1>1, <1>2, <1>3, <1>4, <1>5 DEF IndInv, TypeOK
<1>8. AbsentInv' /\ TokenInv'
  BY <1>2 DEF IndInv, AbsentInv, TokenInv
<1>9. /\ flight'[w] = g /\ \A v \in Worker : v # w => flight'[v] = flight[v]
      /\ runs'[d] = runs[d] \cup {RunOf(f)} /\ \A c \in Drive : c # d => runs'[c] = runs[c]
  BY <1>1, <1>2, <1>5
<1>10. /\ f.token <= lastToken /\ f.attempt <= drives[d].attempts
       /\ drives[d].token = f.token => drives[d].attempts = f.attempt
  BY <1>1 DEF IndInv, FlightInv
<1>11. g # None
  BY <1>4, NoneAssumption
<1>12. FlightInv'
  <2> SUFFICES ASSUME NEW v \in Worker, flight'[v] # None
               PROVE  LET h == flight'[v]
                          r == drives[h.drive]
                      IN  /\ h.token <= lastToken
                          /\ h.attempt <= r.attempts
                          /\ r.token = h.token => r.attempts = h.attempt
                          /\ h.succeeded => RunOf(h) \in runs'[h.drive]
                          /\ ~h.succeeded => \A x \in runs'[h.drive] : x.attempt # h.attempt
    BY <1>2 DEF FlightInv, RunOf
  <2>1. CASE v = w
    BY <1>4, <1>6, <1>9, <1>10, <2>1
  <2>2. CASE v # w
    <3>1. /\ flight'[v] = flight[v] /\ flight[v] # None /\ flight[v].drive \in Drive
          /\ flight[v].drive = d => flight[v].attempt # f.attempt
      BY <1>1, <1>9, <2>2 DEF IndInv, DistinctFlights, Flight
    <3>2. CASE flight[v].drive = d
      BY <1>3, <1>9, <3>1, <3>2 DEF IndInv, FlightInv
    <3>3. CASE flight[v].drive # d
      BY <1>9, <3>1, <3>3 DEF IndInv, FlightInv
    <3> QED BY <3>2, <3>3
  <2> QED BY <2>1, <2>2
<1>13. DistinctFlights'
  BY <1>1, <1>4, <1>9 DEF IndInv, DistinctFlights
<1>14. RunsInv'
  <2>1. f.attempt \in 1..drives[d].attempts
    BY <1>1, <1>10 DEF Flight, DriveState
  <2> SUFFICES ASSUME NEW c \in Drive, NEW x \in runs'[c]
               PROVE  x.attempt \in 1..drives[c].attempts
    BY <1>2 DEF RunsInv
  <2>2. CASE x \in runs[c]
    BY <2>2 DEF IndInv, RunsInv
  <2>3. CASE c = d /\ x = RunOf(f)
    BY <1>3, <2>1, <2>3
  <2> QED BY <1>9, <2>2, <2>3
<1> QED BY <1>7, <1>8, <1>12, <1>13, <1>14 DEF IndInv

LEMMA InvInductive ==
  ASSUME IndInv, [Next]_vars
  PROVE  IndInv'
<1>1. ASSUME NEW d \in Drive, AnyCommand(d) PROVE IndInv'
  BY <1>1, CommandKeepsInv
<1>2. ASSUME NEW w \in Worker, Claim(w) PROVE IndInv'
  BY <1>2, ClaimKeepsInv
<1>3. ASSUME NEW w \in Worker, Deliver(w) PROVE IndInv'
  BY <1>3, DeliverKeepsInv
<1>4. ASSUME NEW w \in Worker, Acknowledge(w) \/ Fail(w) PROVE IndInv'
  BY <1>4, SettleKeepsInv
<1>5. ASSUME \/ \E w \in Worker : Unsettled(w) \/ Start(w)
             \/ Stop \/ Crash \/ Tick \/ UNCHANGED vars
      PROVE  IndInv'
  <2>1. TypeOK'
    BY <1>5 DEF IndInv, TypeOK, Unsettled, Land, Start, Stop, Crash, Tick, vars
  <2>2. QuietStep
    <3>1. drives' = drives /\ UNCHANGED <<lastToken, runs>>
      BY <1>5 DEF Unsettled, Land, Start, Stop, Crash, Tick, vars
    <3>2. \A v \in Worker : flight'[v] \in {flight[v], None}
      BY <1>5 DEF IndInv, TypeOK, Unsettled, Land, Start, Stop, Crash, Tick, vars
    <3> QED BY <3>1, <3>2 DEF QuietStep
  <2> QED BY <2>1, <2>2, QuietKeepsInv
<1>6. ASSUME Next
      PROVE  \/ \E d \in Drive : AnyCommand(d)
             \/ \E w \in Worker : Claim(w)
             \/ \E w \in Worker : Deliver(w)
             \/ \E w \in Worker : Acknowledge(w) \/ Fail(w)
             \/ \E w \in Worker : Unsettled(w) \/ Start(w)
             \/ Stop \/ Crash \/ Tick
  BY <1>6 DEF Next, AnyCommand
<1> QED BY <1>1, <1>2, <1>3, <1>4, <1>5, <1>6

LEMMA Invariant == Spec => []IndInv
<1>1. IndInv /\ [Next]_vars => IndInv'
  BY InvInductive
<1> QED BY <1>1, InvInitially, PTL DEF Spec

(* Every variable keeps its type and every delivery record stays one the   *)
(* store's code can tell apart.                                            *)
THEOREM TypeCorrect == Spec => []TypeOK
<1>1. IndInv => TypeOK
  BY DEF IndInv
<1> QED BY <1>1, Invariant, PTL

(* Of the deliveries of one drive at most one can settle it, however many  *)
(* runtimes overlap: a settlement needs the lease of its own token, and no *)
(* two deliveries share one.                                               *)
THEOREM SettlersExclude == Spec => []OneSettler
<1>1. IndInv => OneSettler
  BY DEF IndInv, DistinctFlights, OneSettler, Settles
<1> QED BY <1>1, Invariant, PTL

-----------------------------------------------------------------------------
(* What one step may do to a drive: nothing; a command; the claim of a     *)
(* further attempt; an acknowledgement of what succeeded; a failure of     *)
(* what did not; or, its record untouched, the success of an attempt.      *)
Acknowledging(r, q, x) ==
  /\ q.acknowledged /\ ~q.deadLettered
  /\ q.assignee = r.assignee /\ q.detail = r.detail
  /\ [attempt |-> r.attempts, assignee |-> r.assignee, detail |-> r.detail] \in x

GivingUp(r, q, x) ==
  /\ ~q.acknowledged
  /\ \A y \in x : y.attempt # r.attempts
  /\ q.deadLettered => r.attempts >= MaxAttempts

Settling(r, q, x) ==
  /\ r.status = "active" /\ q.status = "active"
  /\ r.attempts > 0 /\ q.attempts = r.attempts
  /\ ~r.acknowledged /\ ~r.deadLettered
  /\ Acknowledging(r, q, x) \/ GivingUp(r, q, x)

Claiming(r, q) ==
  /\ r.status = "active" /\ q.status = "active"
  /\ q.attempts = r.attempts + 1
  /\ ~r.acknowledged /\ ~r.deadLettered
  /\ ~q.acknowledged /\ ~q.deadLettered

DriveStep(d) ==
  LET r == drives[d]
      q == drives'[d]
      x == runs[d]
  IN  \/ /\ runs'[d] = x
         /\ q = r \/ Moved(r, q) \/ Edited(r, q) \/ Reopened(r, q)
              \/ Claiming(r, q) \/ Settling(r, q, x)
      \/ /\ q = r
         /\ \E y \in Run : runs'[d] = x \cup {y} /\ y.attempt \in 1..r.attempts

LEMMA DriveSteps ==
  ASSUME IndInv, [Next]_vars, NEW d \in Drive
  PROVE  DriveStep(d)
<1>0. /\ drives \in [Drive -> DriveState] /\ runs \in [Drive -> SUBSET Run]
      /\ flight \in [Worker -> Flight \cup {None}]
  BY DEF IndInv, TypeOK
<1>1. ASSUME NEW c \in Drive, AnyCommand(c) PROVE DriveStep(d)
  <2>1. /\ runs' = runs
        /\ \E q \in DriveState : CommandWrite(drives[c], q) /\ drives' = [drives EXCEPT ![c] = q]
    BY <1>1, CommandLemma DEF IndInv, AbsentInv
  <2> QED BY <1>0, <2>1 DEF CommandWrite, DriveStep
<1>2. ASSUME NEW w \in Worker, Claim(w) PROVE DriveStep(d)
  <2>1. PICK c \in Drive, q \in DriveState :
          /\ drives' = [drives EXCEPT ![c] = q]
          /\ Claiming(drives[c], q)
    BY <1>2, ClaimLemma DEF IndInv, Claiming
  <2>2. runs' = runs
    BY <1>2 DEF Claim
  <2> QED BY <1>0, <2>1, <2>2 DEF DriveStep
<1>3. ASSUME NEW w \in Worker, Acknowledge(w) \/ Fail(w) PROVE DriveStep(d)
  <2> DEFINE f == flight[w]
             r == drives[f.drive]
  <2>1. /\ f \in Flight /\ r.token = f.token /\ r.status = "active"
        /\ r.assignee = f.assignee /\ r.detail = f.detail /\ runs' = runs
    BY <1>3, SettleLemma DEF IndInv
  <2>2. PICK q \in DriveState :
          /\ drives' = [drives EXCEPT ![f.drive] = q]
          /\ q.status = "active" /\ q.attempts = r.attempts
          /\ q.assignee = r.assignee /\ q.detail = r.detail
          /\ \/ f.succeeded /\ q.acknowledged /\ ~q.deadLettered
             \/ /\ ~f.succeeded /\ ~q.acknowledged
                /\ q.deadLettered => r.attempts >= MaxAttempts
    BY <1>3, SettleLemma DEF IndInv
  <2>3. /\ f # None /\ f.drive \in Drive /\ f.attempt # 0 /\ f.attempt \in Nat
    BY <1>3, <2>1 DEF Acknowledge, Fail, Flight
  <2>4. /\ r.attempts = f.attempt
        /\ f.succeeded => RunOf(f) \in runs[f.drive]
        /\ ~f.succeeded => \A x \in runs[f.drive] : x.attempt # f.attempt
    BY <2>1, <2>3 DEF IndInv, FlightInv
  <2>5. ~r.acknowledged /\ ~r.deadLettered
    BY <2>1, <2>3 DEF IndInv, TypeOK, WellFormed, Flight
  <2>6. RunOf(f) = [attempt |-> r.attempts, assignee |-> r.assignee, detail |-> r.detail]
    BY <2>1, <2>4 DEF RunOf
  <2>7. Acknowledging(r, q, runs[f.drive]) \/ GivingUp(r, q, runs[f.drive])
    BY <2>2, <2>4, <2>6 DEF Acknowledging, GivingUp
  <2>8. Settling(r, q, runs[f.drive])
    BY <2>1, <2>2, <2>3, <2>4, <2>5, <2>7 DEF Settling
  <2> QED BY <1>0, <2>1, <2>2, <2>3, <2>8 DEF DriveStep
<1>4. ASSUME NEW w \in Worker, Deliver(w) PROVE DriveStep(d)
  <2> DEFINE f == flight[w]
  <2>1. f \in Flight /\ f # None /\ f.drive \in Drive
    BY <1>0, <1>4 DEF Deliver, Flight
  <2>2. RunOf(f) \in Run /\ RunOf(f).attempt = f.attempt
    BY <2>1 DEF RunOf, Run, Flight
  <2>3. drives' = drives /\ runs' = [runs EXCEPT ![f.drive] = runs[f.drive] \cup {RunOf(f)}]
    BY <1>4 DEF Deliver
  <2>4. f.attempt \in 1..drives[f.drive].attempts
    BY <1>0, <2>1 DEF IndInv, FlightInv, Flight, DriveState
  <2> QED BY <1>0, <2>1, <2>2, <2>3, <2>4 DEF DriveStep
<1>5. ASSUME \/ \E w \in Worker : Unsettled(w) \/ Start(w)
             \/ Stop \/ Crash \/ Tick \/ UNCHANGED vars
      PROVE  DriveStep(d)
  BY <1>5 DEF DriveStep, Unsettled, Land, Start, Stop, Crash, Tick, vars
<1>6. ASSUME Next
      PROVE  \/ \E c \in Drive : AnyCommand(c)
             \/ \E w \in Worker : Claim(w)
             \/ \E w \in Worker : Deliver(w)
             \/ \E w \in Worker : Acknowledge(w) \/ Fail(w)
             \/ \E w \in Worker : Unsettled(w) \/ Start(w)
             \/ Stop \/ Crash \/ Tick
  BY <1>6 DEF Next, AnyCommand
<1> QED BY <1>1, <1>2, <1>3, <1>4, <1>5, <1>6

(* A delivery is acknowledged for the assignee, owner and links that the   *)
(* drive has, and that its latest attempt was run for.                     *)
THEOREM AcknowledgementsAreEarned == Spec => AcknowledgesWhatWasDelivered
<1>1. IndInv /\ [Next]_vars =>
        [\A d \in Drive :
           ~drives[d].acknowledged /\ drives'[d].acknowledged =>
             [attempt |-> drives[d].attempts, assignee |-> drives[d].assignee,
              detail |-> drives[d].detail] \in runs[d]]_vars
  BY DriveSteps DEF DriveStep, Moved, Edited, Reopened, SameDelivery, Claiming, Settling,
     Acknowledging, GivingUp
<1> QED BY <1>1, Invariant, PTL DEF Spec, AcknowledgesWhatWasDelivered

(* The store and the scheduler implement the course of a drive: every step *)
(* of theirs is, for every drive, one of the course's steps.               *)
THEOREM ImplementsCourse == Spec => KeepsCourse
<1>1. Init => Course!Init
  BY DEF Init, Absent, PhaseOf, Course!Init
<1>2. IndInv /\ [Next]_vars => [Course!Next]_(Course!courseVars)
  <2> SUFFICES ASSUME IndInv, [Next]_vars, NEW d \in Drive
               PROVE  \/ Course!Rest(d) \/ Course!Move(d) \/ Course!Attempt(d)
                      \/ Course!Succeed(d) \/ Course!Acknowledge(d)
                      \/ Course!Abandon(d) \/ Course!Reopen(d)
    BY DEF Course!Next
  <2> DEFINE r == drives[d]
             q == drives'[d]
             x == runs[d]
  <2>0. r.attempts \in Nat /\ WellFormed(r)
    BY DEF IndInv, TypeOK, DriveState
  <2>1. DriveStep(d)
    BY DriveSteps
  <2>2. CASE q = r /\ \E y \in Run : runs'[d] = x \cup {y} /\ y.attempt \in 1..r.attempts
    <3>1. PICK y \in Run : runs'[d] = x \cup {y} /\ y.attempt \in 1..r.attempts
      BY <2>2
    <3>2. {z.attempt : z \in runs'[d]} = {z.attempt : z \in x} \cup {y.attempt}
      BY <3>1
    <3> QED BY <2>2, <3>1, <3>2
            DEF Course!Succeed, Course!SameStatus, Course!SameDelivery
  <2>3. CASE runs'[d] = x
    <3>1. CASE q = r \/ Edited(r, q)
      <4>1. PhaseOf(q) = PhaseOf(r)
        BY <3>1 DEF Edited, SameDelivery, PhaseOf
      <4> QED BY <2>3, <3>1, <4>1
          DEF Edited, SameDelivery, Course!Rest, Course!SameStatus,
              Course!SameDelivery, Course!SameResults
    <3>2. CASE Moved(r, q)
      <4>1. PhaseOf(q) = PhaseOf(r)
        BY <3>2 DEF Moved, SameDelivery, PhaseOf
      <4> QED BY <2>3, <3>2, <4>1
          DEF Moved, SameDelivery, Course!Move, Course!SameDelivery, Course!SameResults
    <3>3. CASE Reopened(r, q)
      <4>1. PhaseOf(r) # "none" /\ PhaseOf(q) = "open"
        BY <2>0, <3>3 DEF Reopened, PhaseOf
      <4> QED BY <2>3, <3>3, <4>1
          DEF Reopened, Closed, Course!Reopen, Course!SameStatus, Course!SameResults
    <3>4. CASE Claiming(r, q)
      <4>1. PhaseOf(r) \in {"none", "open"} /\ PhaseOf(q) = "open"
        BY <2>0, <3>4 DEF Claiming, PhaseOf
      <4> QED BY <2>3, <3>4, <4>1
          DEF Claiming, Course!Attempt, Course!SameStatus, Course!SameResults
    <3>5. CASE Settling(r, q, x) /\ Acknowledging(r, q, x)
      <4>1. PhaseOf(r) = "open" /\ PhaseOf(q) = "acknowledged"
        BY <2>0, <3>5 DEF Settling, Acknowledging, PhaseOf
      <4>2. r.attempts \in {z.attempt : z \in x}
        BY <3>5 DEF Acknowledging
      <4> QED BY <2>3, <3>5, <4>1, <4>2
          DEF Settling, Course!Acknowledge, Course!SameStatus, Course!SameResults
    <3>6. CASE Settling(r, q, x) /\ GivingUp(r, q, x)
      <4>1. r.attempts \notin {z.attempt : z \in x}
        BY <3>6 DEF GivingUp
      <4>2. CASE q.deadLettered
        <5>1. PhaseOf(r) = "open" /\ PhaseOf(q) = "dead"
          BY <2>0, <3>6, <4>2 DEF Settling, GivingUp, PhaseOf
        <5> QED BY <2>3, <3>6, <4>1, <4>2, <5>1
            DEF Settling, GivingUp, Course!Abandon, Course!SameStatus, Course!SameResults
      <4>3. CASE ~q.deadLettered
        <5>1. PhaseOf(q) = PhaseOf(r)
          BY <2>0, <3>6, <4>3 DEF Settling, GivingUp, PhaseOf
        <5> QED BY <2>3, <3>6, <5>1
            DEF Settling, Course!Rest, Course!SameStatus, Course!SameDelivery,
                Course!SameResults
      <4> QED BY <4>2, <4>3
    <3> QED BY <2>1, <2>3, <3>1, <3>2, <3>3, <3>4, <3>5, <3>6, <2>2 DEF DriveStep, Settling
  <2> QED BY <2>1, <2>2, <2>3 DEF DriveStep
<1> QED BY <1>1, <1>2, Invariant, PTL DEF Spec, KeepsCourse, Course!Spec
-----------------------------------------------------------------------------
(* Polls.  However many drives there may be, only finitely many exist at a *)
(* time, since a step creates one at most; and of finitely many candidates *)
(* the order of claimDelivery puts one first.                              *)
Existing == {d \in Drive : drives[d].status # "absent"}

FinitelyMany == IsFiniteSet(Existing)

LEMMA OneDriveWritten ==
  ASSUME IndInv, [Next]_vars
  PROVE  drives' = drives \/ \E c \in Drive, q \in DriveState : drives' = [drives EXCEPT ![c] = q]
<1>1. ASSUME NEW c \in Drive, AnyCommand(c)
      PROVE  \E q \in DriveState : drives' = [drives EXCEPT ![c] = q]
  BY <1>1, CommandLemma DEF IndInv, AbsentInv
<1>2. ASSUME NEW w \in Worker, Claim(w)
      PROVE  \E c \in Drive, q \in DriveState : drives' = [drives EXCEPT ![c] = q]
  BY <1>2, ClaimLemma DEF IndInv
<1>3. ASSUME NEW w \in Worker, Acknowledge(w) \/ Fail(w)
      PROVE  \E c \in Drive, q \in DriveState : drives' = [drives EXCEPT ![c] = q]
  <2>1. /\ flight[w] \in Flight
        /\ \E q \in DriveState : drives' = [drives EXCEPT ![flight[w].drive] = q]
    BY <1>3, SettleLemma DEF IndInv
  <2> QED BY <2>1 DEF Flight
<1>4. ASSUME \/ \E w \in Worker : Deliver(w) \/ Unsettled(w) \/ Start(w)
             \/ Stop \/ Crash \/ Tick \/ UNCHANGED vars
      PROVE  drives' = drives
  BY <1>4 DEF Deliver, Unsettled, Land, Start, Stop, Crash, Tick, vars
<1>5. ASSUME Next
      PROVE  \/ \E c \in Drive : AnyCommand(c)
             \/ \E w \in Worker : Claim(w)
             \/ \E w \in Worker : Acknowledge(w) \/ Fail(w)
             \/ \E w \in Worker : Deliver(w) \/ Unsettled(w) \/ Start(w)
             \/ Stop \/ Crash \/ Tick
  BY <1>5 DEF Next, AnyCommand
<1> QED BY <1>1, <1>2, <1>3, <1>4, <1>5

LEMMA StaysFinite ==
  ASSUME IndInv, FinitelyMany, [Next]_vars
  PROVE  FinitelyMany'
<1>1. CASE drives' = drives
  BY <1>1 DEF FinitelyMany, Existing
<1>2. ASSUME NEW c \in Drive, NEW q \in DriveState, drives' = [drives EXCEPT ![c] = q]
      PROVE  FinitelyMany'
  <2>1. Existing' \subseteq Existing \cup {c}
    BY <1>2 DEF Existing, IndInv, TypeOK
  <2>2. IsFiniteSet(Existing \cup {c})
    BY FS_AddElement DEF FinitelyMany
  <2> QED BY <2>1, <2>2, FS_Subset DEF FinitelyMany
<1> QED BY <1>1, <1>2, OneDriveWritten

LEMMA AlwaysFinite == Spec => []FinitelyMany
<1>1. Init => FinitelyMany
  <2>1. Init => Existing = {}
    BY DEF Init, Existing, Absent
  <2> QED BY <2>1, FS_EmptySet DEF FinitelyMany
<1>2. IndInv /\ FinitelyMany /\ [Next]_vars => FinitelyMany'
  BY StaysFinite
<1> QED BY <1>1, <1>2, Invariant, PTL DEF Spec

(* The order of service: higher priority, then older, then smaller id.     *)
LEMMA ServiceOrder ==
  ASSUME TypeOK
  PROVE  /\ \A b, c, d \in Drive : ServedBefore(b, c) /\ ServedBefore(c, d) => ServedBefore(b, d)
         /\ \A d \in Drive : ~ServedBefore(d, d)
         /\ \A c, d \in Drive : c # d => ServedBefore(c, d) \/ ServedBefore(d, c)
<1>1. \A d \in Drive : d \in Nat /\ Priority[d] \in Nat /\ drives[d].createdAt \in Nat
  BY DriveAssumption, PriorityAssumption DEF TypeOK, DriveState
<1> QED BY <1>1 DEF ServedBefore

(* A poll that finds a candidate finds exactly one to claim: whatever the  *)
(* number of drives, and however their priorities, ages and leases came    *)
(* about, claimDelivery never has a choice and never overlooks the last    *)
(* candidate.                                                              *)
PollIsDecided == (\E d \in Drive : Claimable(d)) => \E d \in Drive : FirstClaimable = {d}

THEOREM PollsAreDecided == Spec => []PollIsDecided
<1>1. ASSUME IndInv, FinitelyMany PROVE PollIsDecided
  <2> DEFINE S == {d \in Drive : Claimable(d)}
             R == {p \in Drive \X Drive : ServedBefore(p[1], p[2])}
  <2> SUFFICES ASSUME S # {} PROVE \E d \in Drive : FirstClaimable = {d}
    BY DEF PollIsDecided
  <2>1. IsFiniteSet(S)
    <3>1. S \subseteq Existing
      BY DEF Claimable, Wanted, Existing
    <3> QED BY <1>1, <3>1, FS_Subset DEF FinitelyMany
  <2>2. /\ \A x, y, z \in Drive : ServedBefore(x, y) /\ ServedBefore(y, z) => ServedBefore(x, z)
        /\ \A x \in Drive : ~ServedBefore(x, x)
        /\ \A x, y \in Drive : x # y => ServedBefore(x, y) \/ ServedBefore(y, x)
    BY <1>1, ServiceOrder DEF IndInv
  <2>3. \A x, y \in Drive : <<x, y>> \in R <=> ServedBefore(x, y)
    OBVIOUS
  <2>4. S \subseteq Drive /\ \A d \in Drive : d \in S <=> Claimable(d)
    OBVIOUS
  <2> HIDE DEF S, R
  <2>5. /\ \A x, y, z \in S : <<x, y>> \in R /\ <<y, z>> \in R => <<x, z>> \in R
        /\ \A x \in S : <<x, x>> \notin R
    BY <2>2, <2>3, <2>4
  <2>6. PICK d \in S : \A c \in S : <<c, d>> \notin R
    BY <2>1, <2>5, FirstElement
  <2>7. \A c \in S \ {d} : ServedBefore(d, c) /\ ~ServedBefore(c, d)
    BY <2>2, <2>3, <2>4, <2>6
  <2>8. FirstClaimable = {d}
    BY <2>4, <2>7 DEF FirstClaimable
  <2> QED BY <2>4, <2>8
<1> QED BY <1>1, Invariant, AlwaysFinite, PTL
=============================================================================
