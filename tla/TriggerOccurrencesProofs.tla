---------------------- MODULE TriggerOccurrencesProofs ----------------------
(***************************************************************************)
(* Theorems about TriggerOccurrences, for every set of occurrences,        *)
(* triggers, keys and workers and every lease, delay and attempt limit.    *)
(***************************************************************************)
EXTENDS TriggerOccurrences, LeastElements, TLAPS

(* The fields that a write of the store sets and those it keeps.           *)
LEMMA DeadLetterFields ==
  ASSUME NEW r \in OccurrenceState, now \in Nat
  PROVE  /\ DeadLetter(r) \in OccurrenceState
         /\ DeadLetter(r).status = "dead-letter"
         /\ DeadLetter(r).attempt = r.attempt
         /\ DeadLetter(r).owner = 0
BY DEF DeadLetter, WithoutExecutionState, OccurrenceState, Statuses

LEMMA ClaimedFields ==
  ASSUME NEW r \in OccurrenceState, TypeOK
  PROVE  /\ ClaimedAnew(r).status = "claimed"
         /\ ClaimedAnew(r).attempt = r.attempt + 1
         /\ ClaimedAnew(r).owner = lastClaim + 1
BY DEF ClaimedAnew, WithoutExecutionState, OccurrenceState

(* The sweep leaves every record as it is, or dead-letters one whose last  *)
(* lease has run out; either way the result is a store of typed records.   *)
LEMMA SweepLemma ==
  ASSUME TypeOK, NEW s \in AfterSweep
  PROVE  /\ s \in [Occurrence -> OccurrenceState]
         /\ \A o \in Occurrence :
              \/ s[o] = occurrences[o]
              \/ /\ occurrences[o].status = "claimed"
                 /\ occurrences[o].attempt = MaxAttempts
                 /\ s[o] = DeadLetter(occurrences[o])
<1>1. CASE ExpiredMax(occurrences) = {}
  BY <1>1 DEF AfterSweep, TypeOK
<1>2. CASE ExpiredMax(occurrences) # {}
  <2>1. PICK o \in ExpiredMax(occurrences) :
          s = [occurrences EXCEPT ![o] = DeadLetter(occurrences[o])]
    BY <1>2 DEF AfterSweep
  <2>2. /\ o \in Occurrence
        /\ occurrences[o].status = "claimed"
        /\ occurrences[o].attempt >= MaxAttempts
    BY DEF ExpiredMax, List, Stored, Expired
  <2>3. occurrences[o] \in OccurrenceState
    BY <2>2 DEF TypeOK
  <2>4. occurrences[o].attempt = MaxAttempts
    BY <2>2, <2>3, BoundsAssumption DEF OccurrenceState
  <2>5. DeadLetter(occurrences[o]) \in OccurrenceState
    BY <2>3 DEF DeadLetter, WithoutExecutionState, OccurrenceState, Statuses, TypeOK
  <2> QED BY <2>1, <2>2, <2>4, <2>5 DEF TypeOK
<1> QED BY <1>1, <1>2

(* What a claim writes: the chosen record, still below its attempt limit.  *)
LEMMA ClaimLemma ==
  ASSUME TypeOK, NEW w \in Worker, PollClaim(w)
  PROVE  \E s \in AfterSweep : \E o \in Occurrence :
           /\ s[o].status \in {"pending", "failed", "claimed"}
           /\ s[o].attempt < MaxAttempts
           /\ ClaimedAnew(s[o]) \in OccurrenceState
           /\ occurrences' = [s EXCEPT ![o] = ClaimedAnew(s[o])]
           /\ flight' = [flight EXCEPT ![w] =
                [occurrence |-> o, claim |-> lastClaim + 1,
                 attempt |-> s[o].attempt + 1, dispatched |-> FALSE]]
<1>1. PICK s \in AfterSweep :
        \E o \in FirstCandidate(s) :
          /\ occurrences' = [s EXCEPT ![o] = ClaimedAnew(s[o])]
          /\ flight' = [flight EXCEPT ![w] =
               [occurrence |-> o, claim |-> lastClaim + 1,
                attempt |-> s[o].attempt + 1, dispatched |-> FALSE]]
  BY DEF PollClaim
<1>2. PICK o \in FirstCandidate(s) :
        /\ occurrences' = [s EXCEPT ![o] = ClaimedAnew(s[o])]
        /\ flight' = [flight EXCEPT ![w] =
             [occurrence |-> o, claim |-> lastClaim + 1,
              attempt |-> s[o].attempt + 1, dispatched |-> FALSE]]
  BY <1>1
<1>3. /\ o \in Occurrence
      /\ s[o].status \in {"pending", "failed", "claimed"}
      /\ s[o].attempt < MaxAttempts
  BY DEF FirstCandidate, Candidates, List, Stored, Eligible, Due, Expired
<1>4. s[o] \in OccurrenceState
  BY <1>3, SweepLemma
<1>5. ClaimedAnew(s[o]) \in OccurrenceState
  <2>1. now + Lease \in Nat /\ lastClaim + 1 \in Nat
    BY BoundsAssumption DEF TypeOK
  <2>2. s[o].attempt + 1 \in 0..MaxAttempts
    BY <1>3, <1>4, BoundsAssumption DEF OccurrenceState
  <2>3. now \in Nat
    BY DEF TypeOK
  <2> QED
    BY <1>4, <2>1, <2>2, <2>3
    DEF ClaimedAnew, WithoutExecutionState, OccurrenceState, Statuses
<1> QED BY <1>2, <1>3, <1>5

(* Every action keeps the type of every variable.                          *)
LEMMA TypeInductive ==
  ASSUME TypeOK, [Next]_vars
  PROVE  TypeOK'
<1>1. ASSUME NEW o \in Occurrence, NEW t \in Trigger, NEW k \in Key,
             NEW s \in Timestamps, NEW r \in Timestamps, Enqueue(o, t, k, s, r)
      PROVE  TypeOK'
  <2>1. s \in Nat /\ r \in Nat
    BY DEF Timestamps
  <2>2. 0 \in 0..MaxAttempts
    BY BoundsAssumption
  <2>3. [Absent EXCEPT !.status = "pending", !.trigger = t, !.key = k,
           !.scheduledAt = s, !.requestedAt = r, !.updatedAt = r] \in OccurrenceState
    BY <2>1, <2>2 DEF Absent, OccurrenceState, Statuses
  <2> QED BY <1>1, <2>3 DEF Enqueue, TypeOK
<1>2. ASSUME NEW t \in Trigger, SetEnabled(t) PROVE TypeOK'
  BY <1>2 DEF SetEnabled, TypeOK
<1>3. ASSUME NEW w \in Worker, PollIdle(w) PROVE TypeOK'
  BY <1>3, SweepLemma DEF PollIdle, TypeOK
<1>4. ASSUME NEW w \in Worker, PollRejected(w) PROVE TypeOK'
  BY <1>4, SweepLemma DEF PollRejected, TypeOK
<1>5. ASSUME NEW w \in Worker, PollClaim(w) PROVE TypeOK'
  <2>1. PICK s \in AfterSweep : \E o \in Occurrence :
          /\ s[o].attempt < MaxAttempts
          /\ ClaimedAnew(s[o]) \in OccurrenceState
          /\ occurrences' = [s EXCEPT ![o] = ClaimedAnew(s[o])]
          /\ flight' = [flight EXCEPT ![w] =
               [occurrence |-> o, claim |-> lastClaim + 1,
                attempt |-> s[o].attempt + 1, dispatched |-> FALSE]]
    BY <1>5, ClaimLemma
  <2>2. PICK o \in Occurrence :
          /\ s[o].attempt < MaxAttempts
          /\ ClaimedAnew(s[o]) \in OccurrenceState
          /\ occurrences' = [s EXCEPT ![o] = ClaimedAnew(s[o])]
          /\ flight' = [flight EXCEPT ![w] =
               [occurrence |-> o, claim |-> lastClaim + 1,
                attempt |-> s[o].attempt + 1, dispatched |-> FALSE]]
    BY <2>1
  <2>3. s \in [Occurrence -> OccurrenceState]
    BY SweepLemma
  <2>4. s[o].attempt + 1 \in 1..MaxAttempts
    BY <2>2, <2>3, BoundsAssumption DEF OccurrenceState
  <2>5. occurrences' \in [Occurrence -> OccurrenceState]
    BY <2>2, <2>3
  <2>6. flight' \in [Worker -> Flight \cup {None}]
    BY <2>2, <2>4 DEF Flight, TypeOK
  <2> QED BY <1>5, <2>5, <2>6 DEF PollClaim, TypeOK
<1>6. ASSUME NEW w \in Worker, Dispatch(w) PROVE TypeOK'
  <2>1. flight[w] \in Flight
    BY <1>6 DEF Dispatch, TypeOK
  <2>2. [flight[w] EXCEPT !.dispatched = TRUE] \in Flight
    BY <2>1 DEF Flight
  <2>3. flight' \in [Worker -> Flight \cup {None}]
    BY <1>6, <2>2 DEF Dispatch, TypeOK
  <2>4. dispatches' \in [Occurrence -> [1..MaxAttempts -> Nat]]
    <3>1. flight[w].occurrence \in Occurrence /\ flight[w].attempt \in 1..MaxAttempts
      BY <2>1 DEF Flight
    <3>2. dispatches \in [Occurrence -> [1..MaxAttempts -> Nat]]
      BY DEF TypeOK
    <3>3. dispatches[flight[w].occurrence] \in [1..MaxAttempts -> Nat]
      BY <3>1, <3>2
    <3>4. dispatches[flight[w].occurrence][flight[w].attempt] \in Nat
      BY <3>1, <3>3
    <3>5. dispatches[flight[w].occurrence][flight[w].attempt] + 1 \in Nat
      BY <3>4
    <3> QED BY <1>6, <3>1, <3>2, <3>5 DEF Dispatch
  <2> QED BY <1>6, <2>3, <2>4 DEF Dispatch, TypeOK
<1>7. ASSUME NEW w \in Worker, Complete(w) PROVE TypeOK'
  <2>1. flight[w].occurrence \in Occurrence
    BY <1>7 DEF Complete, Flight, TypeOK
  <2>2. occurrences[flight[w].occurrence] \in OccurrenceState /\ now \in Nat
    BY <2>1 DEF TypeOK
  <2>3. [WithoutExecutionState(occurrences[flight[w].occurrence])
           EXCEPT !.status = "completed", !.updatedAt = now] \in OccurrenceState
    BY <2>2 DEF WithoutExecutionState, OccurrenceState, Statuses
  <2> QED BY <1>7, <2>1, <2>3 DEF Complete, Settle, TypeOK
<1>8. ASSUME NEW w \in Worker, Fail(w) PROVE TypeOK'
  <2> DEFINE r == occurrences[flight[w].occurrence]
             failed == [WithoutExecutionState(r) EXCEPT !.status = "failed",
                          !.nextRetryAt = now + RetryDelay, !.updatedAt = now]
  <2>1. flight[w].occurrence \in Occurrence
    BY <1>8 DEF Fail, Flight, TypeOK
  <2>2. DeadLetter(r) \in OccurrenceState /\ failed \in OccurrenceState
    <3>1. r \in OccurrenceState /\ now \in Nat /\ now + RetryDelay \in Nat
      BY <2>1, BoundsAssumption DEF TypeOK
    <3> HIDE DEF r
    <3> QED
      BY <3>1 DEF DeadLetter, WithoutExecutionState, OccurrenceState, Statuses
  <2>3. occurrences' = [occurrences EXCEPT ![flight[w].occurrence] =
                          IF r.attempt >= MaxAttempts THEN DeadLetter(r) ELSE failed]
    BY <1>8 DEF Fail, Settle
  <2>4. occurrences' \in [Occurrence -> OccurrenceState]
    BY <2>1, <2>2, <2>3 DEF TypeOK
  <2> QED BY <1>8, <2>4 DEF Fail, Settle, TypeOK
<1>9. ASSUME NEW w \in Worker, Fenced(w) PROVE TypeOK'
  BY <1>9 DEF Fenced, TypeOK
<1>10. ASSUME NEW w \in Worker, Start(w) PROVE TypeOK'
  BY <1>10 DEF Start, TypeOK
<1>11. CASE Stop
  BY <1>11 DEF Stop, TypeOK
<1>12. CASE Crash
  BY <1>12 DEF Crash, TypeOK
<1>13. CASE Tick
  BY <1>13 DEF Tick, TypeOK
<1>14. CASE UNCHANGED vars
  BY <1>14 DEF vars, TypeOK
<1> QED
  BY <1>1, <1>2, <1>3, <1>4, <1>5, <1>6, <1>7, <1>8, <1>9, <1>10, <1>11,
     <1>12, <1>13, <1>14 DEF Next

LEMMA TypeInitially == Init => TypeOK
BY BoundsAssumption DEF Init, TypeOK, Absent, OccurrenceState, Statuses

(* Every record, flight and counter keeps its type: each write of the      *)
(* store yields a well-formed record, within its attempt limit.            *)
THEOREM TypeCorrect == Spec => []TypeOK
<1>1. TypeOK /\ [Next]_vars => TypeOK'
  BY TypeInductive
<1> QED BY <1>1, TypeInitially, PTL DEF Spec

-----------------------------------------------------------------------------
(* The inductive invariant.  A flight was granted an attempt that its      *)
(* record still counts, under a claim that was handed out; whether it has  *)
(* dispatched is what the record of dispatches says of that attempt, and a *)
(* claim that still stands is the one of the record's last attempt.        *)
FlightInv ==
  \A w \in Worker : flight[w] # None =>
    LET f == flight[w]
        r == occurrences[f.occurrence]
    IN  /\ r.status # "absent"
        /\ f.claim \in 1..lastClaim
        /\ f.attempt <= r.attempt
        /\ dispatches[f.occurrence][f.attempt] = (IF f.dispatched THEN 1 ELSE 0)
        /\ r.status = "claimed" /\ r.owner = f.claim => r.attempt = f.attempt

DistinctAttempts ==
  \A v, w \in Worker :
    /\ v # w
    /\ flight[v] # None /\ flight[w] # None
    /\ flight[v].occurrence = flight[w].occurrence
    => flight[v].attempt # flight[w].attempt

RecordInv ==
  \A o \in Occurrence :
    /\ occurrences[o].owner <= lastClaim
    /\ occurrences[o].status = "absent" => occurrences[o].attempt = 0
    /\ \A a \in 1..MaxAttempts :
         a > occurrences[o].attempt => dispatches[o][a] = 0

IndInv ==
  /\ TypeOK
  /\ FlightInv
  /\ DistinctAttempts
  /\ RecordInv
  /\ AtMostOneDispatchPerAttempt
  /\ CompletedByItsLastAttempt
  /\ DeadLetterUsedEveryAttempt

(* What the invariant needs to know of a swept store.                      *)
LEMMA SweptRecord ==
  ASSUME IndInv, NEW s \in AfterSweep, NEW o \in Occurrence
  PROVE  /\ s[o] \in OccurrenceState
         /\ s[o].attempt = occurrences[o].attempt
         /\ s[o].owner <= lastClaim
         /\ (s[o].status = "absent") <=> (occurrences[o].status = "absent")
         /\ s[o].status \in {"claimed", "completed"} => s[o] = occurrences[o]
         /\ s[o].status = "dead-letter" => s[o].attempt = MaxAttempts
<1>1. CASE s[o] = occurrences[o]
  BY <1>1 DEF IndInv, TypeOK, RecordInv, DeadLetterUsedEveryAttempt
<1>2. CASE /\ occurrences[o].status = "claimed"
           /\ occurrences[o].attempt = MaxAttempts
           /\ s[o] = DeadLetter(occurrences[o])
  <2>1. occurrences[o] \in OccurrenceState /\ now \in Nat /\ lastClaim \in Nat
    BY DEF IndInv, TypeOK
  <2> QED BY <1>2, <2>1, DeadLetterFields
<1> QED BY <1>1, <1>2, SweepLemma DEF IndInv

(* A step that leaves flights, claims and dispatches alone and writes the  *)
(* store as a sweep does keeps the invariant.                              *)
LEMMA SweepKeepsInv ==
  ASSUME IndInv, TypeOK', NEW s \in AfterSweep, occurrences' = s,
         UNCHANGED <<flight, lastClaim, dispatches>>
  PROVE  IndInv'
<1>1. FlightInv'
  <2> SUFFICES ASSUME NEW w \in Worker, flight[w] # None
               PROVE  LET f == flight[w] r == s[f.occurrence]
                      IN  /\ r.status # "absent"
                          /\ f.claim \in 1..lastClaim
                          /\ f.attempt <= r.attempt
                          /\ dispatches[f.occurrence][f.attempt] = (IF f.dispatched THEN 1 ELSE 0)
                          /\ r.status = "claimed" /\ r.owner = f.claim => r.attempt = f.attempt
    BY DEF FlightInv
  <2>1. flight[w].occurrence \in Occurrence
    BY DEF IndInv, TypeOK, Flight
  <2> QED BY <2>1, SweptRecord DEF IndInv, FlightInv
<1>2. DistinctAttempts'
  BY DEF IndInv, DistinctAttempts
<1>3. RecordInv'
  BY SweptRecord DEF IndInv, RecordInv
<1>4. AtMostOneDispatchPerAttempt'
  BY DEF IndInv, AtMostOneDispatchPerAttempt
<1>5. CompletedByItsLastAttempt'
  BY SweptRecord DEF IndInv, CompletedByItsLastAttempt
<1>6. DeadLetterUsedEveryAttempt'
  BY SweptRecord DEF IndInv, DeadLetterUsedEveryAttempt
<1> QED BY <1>1, <1>2, <1>3, <1>4, <1>5, <1>6 DEF IndInv

(* A result that passes the fence.  The record it writes keeps its attempt *)
(* and gives up its claim; only a dispatched attempt may complete.         *)
LEMMA SettleKeepsInv ==
  ASSUME IndInv, TypeOK', NEW w \in Worker, flight[w] # None, NEW r, Settle(w, r),
         HoldsClaim(flight[w]),
         r.attempt = occurrences[flight[w].occurrence].attempt,
         r.owner = 0,
         r.status \in {"completed", "failed", "dead-letter"},
         r.status = "completed" => flight[w].dispatched,
         r.status = "dead-letter" => r.attempt = MaxAttempts
  PROVE  IndInv'
<1> DEFINE x == flight[w].occurrence
<1>1. /\ flight[w] \in Flight
      /\ x \in Occurrence
      /\ occurrences \in [Occurrence -> OccurrenceState]
      /\ flight \in [Worker -> Flight \cup {None}]
  BY DEF IndInv, TypeOK, Flight
<1>2. /\ occurrences' = [occurrences EXCEPT ![x] = r]
      /\ flight' = [flight EXCEPT ![w] = None]
      /\ UNCHANGED <<lastClaim, dispatches>>
  BY DEF Settle
<1>3. \A v \in Worker : flight'[v] # None => v # w /\ flight'[v] = flight[v] /\ flight[v] \in Flight
  BY <1>1, <1>2
<1>4. FlightInv'
  <2> SUFFICES ASSUME NEW v \in Worker, flight'[v] # None
               PROVE  LET f == flight[v] q == occurrences'[f.occurrence]
                      IN  /\ q.status # "absent"
                          /\ f.claim \in 1..lastClaim
                          /\ f.attempt <= q.attempt
                          /\ dispatches[f.occurrence][f.attempt] = (IF f.dispatched THEN 1 ELSE 0)
                          /\ q.status = "claimed" /\ q.owner = f.claim => q.attempt = f.attempt
    BY <1>2, <1>3 DEF FlightInv
  <2>1. flight[v] # None /\ flight[v].occurrence \in Occurrence
    BY <1>3, NoneAssumption DEF Flight
  <2>2. CASE flight[v].occurrence = x
    BY <1>1, <1>2, <2>1, <2>2 DEF IndInv, FlightInv
  <2>3. CASE flight[v].occurrence # x
    BY <1>1, <1>2, <2>1, <2>3 DEF IndInv, FlightInv
  <2> QED BY <2>2, <2>3
<1>5. DistinctAttempts'
  BY <1>3 DEF IndInv, DistinctAttempts
<1>6. RecordInv'
  <2> SUFFICES ASSUME NEW o \in Occurrence
               PROVE  /\ occurrences'[o].owner <= lastClaim
                      /\ occurrences'[o].status = "absent" => occurrences'[o].attempt = 0
                      /\ \A a \in 1..MaxAttempts :
                           a > occurrences'[o].attempt => dispatches[o][a] = 0
    BY <1>2 DEF RecordInv
  <2>1. lastClaim >= 0
    BY DEF IndInv, TypeOK
  <2>2. CASE o = x
    BY <1>1, <1>2, <2>1, <2>2 DEF IndInv, RecordInv
  <2>3. CASE o # x
    BY <1>1, <1>2, <2>3 DEF IndInv, RecordInv
  <2> QED BY <2>2, <2>3
<1>7. AtMostOneDispatchPerAttempt'
  BY <1>2 DEF IndInv, AtMostOneDispatchPerAttempt
<1>8. CompletedByItsLastAttempt'
  <2> SUFFICES ASSUME NEW o \in Occurrence, occurrences'[o].status = "completed"
               PROVE  /\ occurrences'[o].attempt > 0
                      /\ dispatches[o][occurrences'[o].attempt] = 1
    BY <1>2 DEF CompletedByItsLastAttempt
  <2>1. CASE o = x
    <3>1. flight[w].dispatched /\ r.attempt = flight[w].attempt
      BY <1>1, <1>2, <2>1 DEF IndInv, FlightInv, HoldsClaim
    <3>2. flight[w].attempt > 0 /\ dispatches[x][flight[w].attempt] = 1
      BY <1>1, <3>1, BoundsAssumption DEF IndInv, FlightInv, Flight
    <3> QED BY <1>1, <1>2, <2>1, <3>1, <3>2
  <2>2. CASE o # x
    BY <1>1, <1>2, <2>2 DEF IndInv, CompletedByItsLastAttempt
  <2> QED BY <2>1, <2>2
<1>9. DeadLetterUsedEveryAttempt'
  BY <1>1, <1>2 DEF IndInv, DeadLetterUsedEveryAttempt
<1> QED BY <1>4, <1>5, <1>6, <1>7, <1>8, <1>9 DEF IndInv

(* A claim raises the attempt of one record above that of every flight on  *)
(* it, so the new flight's attempt is new and not yet dispatched.          *)
LEMMA ClaimKeepsInv ==
  ASSUME IndInv, TypeOK', NEW w \in Worker, PollClaim(w)
  PROVE  IndInv'
<1>0. TypeOK
  BY DEF IndInv
<1>1. PICK s \in AfterSweep : \E o \in Occurrence :
        /\ s[o].status # "absent"
        /\ s[o].attempt < MaxAttempts
        /\ occurrences' = [s EXCEPT ![o] = ClaimedAnew(s[o])]
        /\ flight' = [flight EXCEPT ![w] =
             [occurrence |-> o, claim |-> lastClaim + 1,
              attempt |-> s[o].attempt + 1, dispatched |-> FALSE]]
  BY <1>0, ClaimLemma
<1>2. PICK x \in Occurrence :
        /\ s[x].status # "absent"
        /\ s[x].attempt < MaxAttempts
        /\ occurrences' = [s EXCEPT ![x] = ClaimedAnew(s[x])]
        /\ flight' = [flight EXCEPT ![w] =
             [occurrence |-> x, claim |-> lastClaim + 1,
              attempt |-> s[x].attempt + 1, dispatched |-> FALSE]]
  BY <1>1
<1> DEFINE g == [occurrence |-> x, claim |-> lastClaim + 1,
                 attempt |-> s[x].attempt + 1, dispatched |-> FALSE]
<1>3. /\ s \in [Occurrence -> OccurrenceState]
      /\ flight \in [Worker -> Flight \cup {None}]
      /\ lastClaim \in Nat /\ lastClaim' = lastClaim + 1
      /\ dispatches' = dispatches
  BY <1>0, SweepLemma DEF TypeOK, PollClaim
<1>4. /\ s[x] \in OccurrenceState
      /\ s[x].attempt \in Nat
      /\ s[x].attempt + 1 \in 1..MaxAttempts
      /\ s[x].attempt = occurrences[x].attempt
  BY <1>2, <1>3, BoundsAssumption, SweptRecord DEF OccurrenceState
<1>5. /\ occurrences'[x].status = "claimed"
      /\ occurrences'[x].attempt = s[x].attempt + 1
      /\ occurrences'[x].owner = lastClaim + 1
  BY <1>0, <1>2, <1>3, <1>4, ClaimedFields
<1>6. \A o \in Occurrence : o # x => occurrences'[o] = s[o]
  BY <1>2, <1>3
<1>7. flight'[w] = g /\ \A v \in Worker : v # w => flight'[v] = flight[v]
  BY <1>2, <1>3
<1>8. dispatches[x][s[x].attempt + 1] = 0
  BY <1>4 DEF IndInv, RecordInv
<1>9. \A v \in Worker : v # w /\ flight[v] # None =>
        /\ flight[v] \in Flight
        /\ flight[v].claim \in 1..lastClaim
        /\ flight[v].occurrence \in Occurrence
        /\ flight[v].attempt \in Nat
        /\ flight[v].occurrence = x => flight[v].attempt <= s[x].attempt
  BY <1>3, <1>4, BoundsAssumption DEF IndInv, FlightInv, Flight
<1>10. FlightInv'
  <2> SUFFICES ASSUME NEW v \in Worker, flight'[v] # None
               PROVE  LET f == flight'[v] q == occurrences'[f.occurrence]
                      IN  /\ q.status # "absent"
                          /\ f.claim \in 1..lastClaim'
                          /\ f.attempt <= q.attempt
                          /\ dispatches[f.occurrence][f.attempt] = (IF f.dispatched THEN 1 ELSE 0)
                          /\ q.status = "claimed" /\ q.owner = f.claim => q.attempt = f.attempt
    BY <1>3 DEF FlightInv
  <2>1. CASE v = w
    BY <1>3, <1>4, <1>5, <1>7, <1>8, <2>1
  <2>2. CASE v # w
    <3>1. flight'[v] = flight[v] /\ flight[v] # None
      BY <1>7, <2>2
    <3>2. CASE flight[v].occurrence = x
      BY <1>3, <1>4, <1>5, <1>9, <2>2, <3>1, <3>2 DEF IndInv, FlightInv
    <3>3. CASE flight[v].occurrence # x
      <4> DEFINE y == flight[v].occurrence
      <4>1. /\ y \in Occurrence
            /\ occurrences'[y] = s[y]
            /\ s[y].attempt = occurrences[y].attempt
            /\ (s[y].status = "absent") <=> (occurrences[y].status = "absent")
            /\ s[y].status \in {"claimed", "completed"} => s[y] = occurrences[y]
        BY <1>6, <1>9, <2>2, <3>1, <3>3, SweptRecord
      <4> QED BY <1>3, <1>9, <2>2, <3>1, <4>1 DEF IndInv, FlightInv
    <3> QED BY <3>2, <3>3
  <2> QED BY <2>1, <2>2
<1>11. DistinctAttempts'
  BY <1>4, <1>7, <1>9 DEF IndInv, DistinctAttempts
<1>12. RecordInv'
  <2> SUFFICES ASSUME NEW o \in Occurrence
               PROVE  /\ occurrences'[o].owner <= lastClaim + 1
                      /\ occurrences'[o].status = "absent" => occurrences'[o].attempt = 0
                      /\ \A a \in 1..MaxAttempts :
                           a > occurrences'[o].attempt => dispatches[o][a] = 0
    BY <1>3 DEF RecordInv
  <2>1. CASE o = x
    BY <1>3, <1>4, <1>5, <2>1 DEF IndInv, RecordInv
  <2>2. CASE o # x
    <3>1. /\ occurrences'[o] = s[o] /\ s[o].owner \in Nat
          /\ s[o].attempt = occurrences[o].attempt
          /\ s[o].owner <= lastClaim
          /\ (s[o].status = "absent") <=> (occurrences[o].status = "absent")
      BY <1>3, <1>6, <2>2, SweptRecord DEF OccurrenceState
    <3> QED BY <1>3, <3>1 DEF IndInv, RecordInv
  <2> QED BY <2>1, <2>2
<1>13. AtMostOneDispatchPerAttempt'
  BY <1>3 DEF IndInv, AtMostOneDispatchPerAttempt
<1>14. CompletedByItsLastAttempt'
  BY <1>3, <1>5, <1>6, SweptRecord DEF IndInv, CompletedByItsLastAttempt
<1>15. DeadLetterUsedEveryAttempt'
  BY <1>3, <1>5, <1>6, SweptRecord DEF IndInv, DeadLetterUsedEveryAttempt
<1> QED BY <1>10, <1>11, <1>12, <1>13, <1>14, <1>15 DEF IndInv

(* A dispatch is counted for the flight's own attempt and for no other     *)
(* flight's, since flights on one occurrence differ in their attempts.     *)
LEMMA DispatchKeepsInv ==
  ASSUME IndInv, TypeOK', NEW w \in Worker, Dispatch(w)
  PROVE  IndInv'
<1> DEFINE x == flight[w].occurrence
           b == flight[w].attempt
<1>1. /\ flight[w] \in Flight /\ x \in Occurrence /\ b \in 1..MaxAttempts
      /\ flight \in [Worker -> Flight \cup {None}]
      /\ dispatches \in [Occurrence -> [1..MaxAttempts -> Nat]]
      /\ occurrences \in [Occurrence -> OccurrenceState]
  BY DEF Dispatch, IndInv, TypeOK, Flight
<1>2. /\ flight' = [flight EXCEPT ![w].dispatched = TRUE]
      /\ dispatches' = [dispatches EXCEPT ![x][b] = dispatches[x][b] + 1]
      /\ UNCHANGED <<occurrences, lastClaim>>
  BY DEF Dispatch
<1>3. dispatches[x][b] = 0 /\ b <= occurrences[x].attempt /\ occurrences[x].status # "absent"
  BY <1>1 DEF Dispatch, IndInv, FlightInv
<1>4. dispatches' = [dispatches EXCEPT ![x] = [dispatches[x] EXCEPT ![b] = 1]]
  BY <1>1, <1>2, <1>3
<1>5. \A o \in Occurrence : \A a \in 1..MaxAttempts :
        dispatches'[o][a] = IF o = x /\ a = b THEN 1 ELSE dispatches[o][a]
  <2> SUFFICES ASSUME NEW o \in Occurrence, NEW a \in 1..MaxAttempts
               PROVE  dispatches'[o][a] = IF o = x /\ a = b THEN 1 ELSE dispatches[o][a]
    OBVIOUS
  <2>1. dispatches[x] \in [1..MaxAttempts -> Nat]
    BY <1>1
  <2>2. CASE o = x
    BY <1>1, <1>4, <2>1, <2>2
  <2>3. CASE o # x
    BY <1>1, <1>4, <2>3
  <2> QED BY <2>2, <2>3
<1>6. \A v \in Worker : flight'[v] # None =>
        /\ flight[v] # None /\ flight[v] \in Flight /\ flight'[v] \in Flight
        /\ flight'[v].occurrence = flight[v].occurrence
        /\ flight'[v].attempt = flight[v].attempt
        /\ flight'[v].claim = flight[v].claim
        /\ v # w => flight'[v].dispatched = flight[v].dispatched
        /\ v = w => flight'[v].dispatched
  <2> SUFFICES ASSUME NEW v \in Worker, flight'[v] # None
               PROVE  /\ flight[v] # None /\ flight[v] \in Flight /\ flight'[v] \in Flight
                      /\ flight'[v].occurrence = flight[v].occurrence
                      /\ flight'[v].attempt = flight[v].attempt
                      /\ flight'[v].claim = flight[v].claim
                      /\ v # w => flight'[v].dispatched = flight[v].dispatched
                      /\ v = w => flight'[v].dispatched
    OBVIOUS
  <2>1. CASE v = w
    <3>1. flight'[w] = [flight[w] EXCEPT !.dispatched = TRUE]
      BY <1>1, <1>2
    <3>2. [flight[w] EXCEPT !.dispatched = TRUE] \in Flight
      BY <1>1 DEF Flight
    <3>3. flight[w] # None
      BY DEF Dispatch
    <3> QED BY <1>1, <2>1, <3>1, <3>2, <3>3 DEF Flight
  <2>2. CASE v # w
    BY <1>1, <1>2, <2>2
  <2> QED BY <2>1, <2>2
<1>7. \A v \in Worker : /\ v # w /\ flight[v] # None /\ flight[v].occurrence = x
                        => flight[v].attempt # b
  BY <1>1 DEF IndInv, DistinctAttempts, Dispatch
<1>8. FlightInv'
  <2> SUFFICES ASSUME NEW v \in Worker, flight'[v] # None
               PROVE  LET f == flight'[v] r == occurrences[f.occurrence]
                      IN  /\ r.status # "absent"
                          /\ f.claim \in 1..lastClaim
                          /\ f.attempt <= r.attempt
                          /\ dispatches'[f.occurrence][f.attempt] = (IF f.dispatched THEN 1 ELSE 0)
                          /\ r.status = "claimed" /\ r.owner = f.claim => r.attempt = f.attempt
    BY <1>2 DEF FlightInv
  <2>1. /\ flight'[v].occurrence \in Occurrence
        /\ flight'[v].attempt \in 1..MaxAttempts
    BY <1>6 DEF Flight
  <2>2. dispatches'[flight'[v].occurrence][flight'[v].attempt] =
          (IF flight'[v].dispatched THEN 1 ELSE 0)
    <3>1. CASE v = w
      BY <1>1, <1>5, <1>6, <3>1
    <3>2. CASE v # w
      BY <1>5, <1>6, <1>7, <2>1, <3>2 DEF IndInv, FlightInv
    <3> QED BY <3>1, <3>2
  <2> QED BY <1>6, <2>2 DEF IndInv, FlightInv
<1>9. DistinctAttempts'
  BY <1>6 DEF IndInv, DistinctAttempts
<1>10. RecordInv'
  <2> SUFFICES ASSUME NEW o \in Occurrence, NEW a \in 1..MaxAttempts,
                      a > occurrences[o].attempt
               PROVE  dispatches'[o][a] = 0
    BY <1>2 DEF IndInv, RecordInv
  <2>1. ~(o = x /\ a = b)
    <3>1. occurrences[x] \in OccurrenceState /\ b \in Nat
      BY <1>1, BoundsAssumption
    <3>2. occurrences[x].attempt \in Nat
      BY <3>1, BoundsAssumption DEF OccurrenceState
    <3> QED BY <1>3, <3>1, <3>2
  <2> QED BY <1>5, <2>1 DEF IndInv, RecordInv
<1>11. AtMostOneDispatchPerAttempt'
  BY <1>5 DEF IndInv, AtMostOneDispatchPerAttempt
<1>12. CompletedByItsLastAttempt'
  <2> SUFFICES ASSUME NEW o \in Occurrence, occurrences[o].status = "completed"
               PROVE  /\ occurrences[o].attempt > 0
                      /\ dispatches'[o][occurrences[o].attempt] = 1
    BY <1>2 DEF CompletedByItsLastAttempt
  <2>1. /\ occurrences[o].attempt > 0
        /\ dispatches[o][occurrences[o].attempt] = 1
    BY DEF IndInv, CompletedByItsLastAttempt
  <2>2. occurrences[o].attempt \in 1..MaxAttempts
    BY <1>1, <2>1, BoundsAssumption DEF OccurrenceState
  <2> QED BY <1>5, <2>1, <2>2
<1>13. DeadLetterUsedEveryAttempt'
  BY <1>2 DEF IndInv, DeadLetterUsedEveryAttempt
<1> QED BY <1>8, <1>9, <1>10, <1>11, <1>12, <1>13 DEF IndInv

(* A new record starts without attempts, and no flight is on it.           *)
LEMMA EnqueueKeepsInv ==
  ASSUME IndInv, TypeOK', NEW x \in Occurrence, NEW t \in Trigger, NEW k \in Key,
         NEW sa \in Timestamps, NEW ra \in Timestamps, Enqueue(x, t, k, sa, ra)
  PROVE  IndInv'
<1>1. /\ occurrences[x].status = "absent"
      /\ occurrences'[x].status = "pending"
      /\ occurrences'[x].attempt = 0
      /\ occurrences'[x].owner = 0
      /\ \A o \in Occurrence : o # x => occurrences'[o] = occurrences[o]
      /\ UNCHANGED <<flight, lastClaim, dispatches>>
  BY DEF Enqueue, Absent, IndInv, TypeOK
<1>2. /\ lastClaim >= 0
      /\ \A v \in Worker : flight[v] # None =>
           flight[v].occurrence \in Occurrence \ {x}
  BY <1>1 DEF IndInv, FlightInv, TypeOK, Flight
<1>3. FlightInv'
  BY <1>1, <1>2 DEF IndInv, FlightInv
<1>4. DistinctAttempts'
  BY <1>1 DEF IndInv, DistinctAttempts
<1>5. RecordInv'
  BY <1>1, <1>2 DEF IndInv, RecordInv
<1>6. AtMostOneDispatchPerAttempt'
  BY <1>1 DEF IndInv, AtMostOneDispatchPerAttempt
<1>7. CompletedByItsLastAttempt'
  BY <1>1 DEF IndInv, CompletedByItsLastAttempt
<1>8. DeadLetterUsedEveryAttempt'
  BY <1>1 DEF IndInv, DeadLetterUsedEveryAttempt
<1> QED BY <1>3, <1>4, <1>5, <1>6, <1>7, <1>8 DEF IndInv

(* Losing flights, to a crash or to the fence, only weakens the invariant. *)
LEMMA FlightsLostKeepsInv ==
  ASSUME IndInv, TypeOK', UNCHANGED <<occurrences, lastClaim, dispatches>>,
         \A v \in Worker : flight'[v] \in {flight[v], None}
  PROVE  IndInv'
<1>1. FlightInv'
  BY DEF IndInv, FlightInv
<1>2. DistinctAttempts'
  BY DEF IndInv, DistinctAttempts
<1> QED
  BY <1>1, <1>2 DEF IndInv, RecordInv, AtMostOneDispatchPerAttempt,
     CompletedByItsLastAttempt, DeadLetterUsedEveryAttempt

LEMMA InvInductive ==
  ASSUME IndInv, [Next]_vars
  PROVE  IndInv'
<1> TypeOK'
  BY TypeInductive DEF IndInv
<1>1. ASSUME NEW o \in Occurrence, NEW t \in Trigger, NEW k \in Key,
             NEW s \in Timestamps, NEW r \in Timestamps, Enqueue(o, t, k, s, r)
      PROVE  IndInv'
  BY <1>1, EnqueueKeepsInv
<1>2. ASSUME NEW w \in Worker, PollIdle(w) \/ PollRejected(w) PROVE IndInv'
  <2>1. PICK s \in AfterSweep : occurrences' = s
    BY <1>2 DEF PollIdle, PollRejected
  <2> QED BY <1>2, <2>1, SweepKeepsInv DEF PollIdle, PollRejected
<1>3. ASSUME NEW w \in Worker, PollClaim(w) PROVE IndInv'
  BY <1>3, ClaimKeepsInv
<1>4. ASSUME NEW w \in Worker, Dispatch(w) PROVE IndInv'
  BY <1>4, DispatchKeepsInv
<1>5. ASSUME NEW w \in Worker, Complete(w) PROVE IndInv'
  <2> DEFINE q == occurrences[flight[w].occurrence]
             r == [WithoutExecutionState(q) EXCEPT !.status = "completed", !.updatedAt = now]
  <2>1. q \in OccurrenceState
    BY <1>5 DEF Complete, IndInv, TypeOK, Flight
  <2>2. /\ r.status = "completed"
        /\ r.attempt = q.attempt
        /\ r.owner = 0
    BY <2>1 DEF WithoutExecutionState, OccurrenceState
  <2>3. flight[w] # None /\ flight[w].dispatched /\ HoldsClaim(flight[w]) /\ Settle(w, r)
    BY <1>5 DEF Complete
  <2> HIDE DEF r
  <2> QED BY <2>2, <2>3, SettleKeepsInv
<1>6. ASSUME NEW w \in Worker, Fail(w) PROVE IndInv'
  <2> DEFINE q == occurrences[flight[w].occurrence]
             failed == [WithoutExecutionState(q) EXCEPT !.status = "failed",
                          !.nextRetryAt = now + RetryDelay, !.updatedAt = now]
             r == IF q.attempt >= MaxAttempts THEN DeadLetter(q) ELSE failed
  <2>1. q \in OccurrenceState /\ now \in Nat
    BY <1>6 DEF Fail, IndInv, TypeOK, Flight
  <2>2. /\ failed.status = "failed"
        /\ failed.attempt = q.attempt
        /\ failed.owner = 0
    BY <2>1 DEF WithoutExecutionState, OccurrenceState
  <2>3. q.attempt \in 0..MaxAttempts
    BY <2>1 DEF OccurrenceState
  <2>4. flight[w] # None /\ HoldsClaim(flight[w]) /\ Settle(w, r)
    BY <1>6 DEF Fail
  <2> HIDE DEF q, failed
  <2>5. /\ r.status \in {"failed", "dead-letter"}
        /\ r.attempt = q.attempt
        /\ r.owner = 0
        /\ r.status = "dead-letter" => r.attempt = MaxAttempts
    BY <2>1, <2>2, <2>3, BoundsAssumption, DeadLetterFields
  <2> HIDE DEF r
  <2> QED BY <2>4, <2>5, SettleKeepsInv DEF q
<1>7. ASSUME NEW w \in Worker, Fenced(w) PROVE IndInv'
  BY <1>7, FlightsLostKeepsInv DEF Fenced, IndInv, TypeOK
<1>8. CASE Crash
  BY <1>8, FlightsLostKeepsInv DEF Crash
<1>9. CASE UNCHANGED <<occurrences, flight, lastClaim, dispatches>>
  BY <1>9, FlightsLostKeepsInv
<1>10. ASSUME \/ \E t \in Trigger : SetEnabled(t)
              \/ \E w \in Worker : Start(w)
              \/ Stop \/ Tick \/ UNCHANGED vars
       PROVE  UNCHANGED <<occurrences, flight, lastClaim, dispatches>>
  BY <1>10 DEF SetEnabled, Start, Stop, Tick, vars
<1> QED
  BY <1>1, <1>2, <1>3, <1>4, <1>5, <1>6, <1>7, <1>8, <1>9, <1>10 DEF Next

LEMMA InvInitially == Init => IndInv
<1> SUFFICES ASSUME Init PROVE IndInv
  OBVIOUS
<1>1. TypeOK
  BY TypeInitially
<1>2. FlightInv /\ DistinctAttempts
  BY DEF Init, FlightInv, DistinctAttempts
<1>3. RecordInv
  BY DEF Init, Absent, RecordInv
<1>4. AtMostOneDispatchPerAttempt
  BY DEF Init, AtMostOneDispatchPerAttempt
<1>5. CompletedByItsLastAttempt /\ DeadLetterUsedEveryAttempt
  BY DEF Init, Absent, CompletedByItsLastAttempt, DeadLetterUsedEveryAttempt
<1> QED BY <1>1, <1>2, <1>3, <1>4, <1>5 DEF IndInv

LEMMA Invariant == Spec => []IndInv
<1>1. IndInv /\ [Next]_vars => IndInv'
  BY InvInductive
<1> QED BY <1>1, InvInitially, PTL DEF Spec

(* No attempt is dispatched twice, whatever runtimes overlap, crash or     *)
(* lose their leases, for any number of occurrences, workers and attempts. *)
THEOREM NoDoubleDispatch == Spec => []AtMostOneDispatchPerAttempt
<1>1. IndInv => AtMostOneDispatchPerAttempt
  BY DEF IndInv
<1> QED BY <1>1, Invariant, PTL

(* A completed occurrence was dispatched in its last attempt: a result of  *)
(* an earlier one never gets past the fence.                               *)
THEOREM CompletedRightly == Spec => []CompletedByItsLastAttempt
<1>1. IndInv => CompletedByItsLastAttempt
  BY DEF IndInv
<1> QED BY <1>1, Invariant, PTL

(* A dead letter has used every attempt it was entitled to, on expiry and  *)
(* on failure alike.                                                       *)
THEOREM DeadLettersRightly == Spec => []DeadLetterUsedEveryAttempt
<1>1. IndInv => DeadLetterUsedEveryAttempt
  BY DEF IndInv
<1> QED BY <1>1, Invariant, PTL

(* Two flights on one occurrence never both pass the fence: each would     *)
(* hold the record's last attempt, and no two flights share an attempt.    *)
THEOREM ClaimsExclude == Spec => []OneClaimant
<1>1. IndInv => OneClaimant
  <2> SUFFICES ASSUME IndInv, NEW v \in Worker, NEW w \in Worker, v # w,
                      flight[v] # None, flight[w] # None,
                      flight[v].occurrence = flight[w].occurrence,
                      HoldsClaim(flight[v]), HoldsClaim(flight[w])
               PROVE  FALSE
    BY DEF OneClaimant
  <2>1. flight[v].attempt = occurrences[flight[v].occurrence].attempt
    BY DEF IndInv, FlightInv, HoldsClaim
  <2>2. flight[w].attempt = occurrences[flight[w].occurrence].attempt
    BY DEF IndInv, FlightInv, HoldsClaim
  <2> QED BY <2>1, <2>2 DEF IndInv, DistinctAttempts
<1> QED BY <1>1, Invariant, PTL

-----------------------------------------------------------------------------
(* What one step may write to a record: nothing, or a fresh record over an *)
(* absent one, or a dead letter over a claim of the last attempt, or the   *)
(* next attempt's claim, or a result that passes the fence.                *)
RecordStep(o) ==
  LET r == occurrences[o]
      q == occurrences'[o]
  IN  \/ q = r
      \/ r.status = "absent" /\ q.status = "pending" /\ q.attempt = 0
      \/ /\ r.status = "claimed" /\ r.attempt = MaxAttempts
         /\ q.status = "dead-letter" /\ q.attempt = r.attempt
      \/ /\ r.status \in {"pending", "failed", "claimed"} /\ r.attempt < MaxAttempts
         /\ q.status = "claimed" /\ q.attempt = r.attempt + 1
      \/ /\ r.status = "claimed" /\ q.status = "failed" /\ q.attempt = r.attempt
      \/ /\ r.status = "claimed" /\ q.status = "completed" /\ q.attempt = r.attempt

LEMMA RecordSteps ==
  ASSUME TypeOK, [Next]_vars, NEW o \in Occurrence
  PROVE  RecordStep(o)
<1>1. ASSUME NEW x \in Occurrence, NEW t \in Trigger, NEW k \in Key,
             NEW s \in Timestamps, NEW r \in Timestamps, Enqueue(x, t, k, s, r)
      PROVE  RecordStep(o)
  BY <1>1 DEF Enqueue, Absent, TypeOK, RecordStep
<1>2. ASSUME NEW s \in AfterSweep
      PROVE  \/ s[o] = occurrences[o]
             \/ /\ occurrences[o].status = "claimed"
                /\ occurrences[o].attempt = MaxAttempts
                /\ s[o].status = "dead-letter" /\ s[o].attempt = occurrences[o].attempt
  BY SweepLemma, DeadLetterFields DEF TypeOK
<1>3. ASSUME NEW w \in Worker, PollIdle(w) \/ PollRejected(w) PROVE RecordStep(o)
  <2>1. PICK s \in AfterSweep : occurrences' = s
    BY <1>3 DEF PollIdle, PollRejected
  <2> QED BY <1>2, <2>1 DEF RecordStep
<1>4. ASSUME NEW w \in Worker, PollClaim(w) PROVE RecordStep(o)
  <2>1. PICK s \in AfterSweep : \E x \in Occurrence :
          /\ s[x].status \in {"pending", "failed", "claimed"}
          /\ s[x].attempt < MaxAttempts
          /\ occurrences' = [s EXCEPT ![x] = ClaimedAnew(s[x])]
    BY <1>4, ClaimLemma
  <2>2. PICK x \in Occurrence :
          /\ s[x].status \in {"pending", "failed", "claimed"}
          /\ s[x].attempt < MaxAttempts
          /\ occurrences' = [s EXCEPT ![x] = ClaimedAnew(s[x])]
    BY <2>1
  <2>3. s \in [Occurrence -> OccurrenceState]
    BY SweepLemma
  <2>4. CASE o = x
    <3>1. occurrences'[x].status = "claimed" /\ occurrences'[x].attempt = s[x].attempt + 1
      BY <2>2, <2>3, ClaimedFields
    <3>2. s[x] = occurrences[x]
      BY <1>2, <2>2, <2>3, <2>4, BoundsAssumption
    <3> QED BY <2>2, <2>4, <3>1, <3>2 DEF RecordStep
  <2>5. CASE o # x
    BY <1>2, <2>2, <2>3, <2>5 DEF RecordStep
  <2> QED BY <2>4, <2>5
<1>5. ASSUME NEW w \in Worker, Complete(w) PROVE RecordStep(o)
  <2> DEFINE x == flight[w].occurrence
             q == [WithoutExecutionState(occurrences[x]) EXCEPT
                     !.status = "completed", !.updatedAt = now]
  <2>1. occurrences[x] \in OccurrenceState /\ occurrences[x].status = "claimed"
    BY <1>5 DEF Complete, HoldsClaim, TypeOK, Flight
  <2>2. q.status = "completed" /\ q.attempt = occurrences[x].attempt
    BY <2>1 DEF WithoutExecutionState, OccurrenceState
  <2>3. occurrences' = [occurrences EXCEPT ![x] = q]
    BY <1>5 DEF Complete, Settle
  <2> HIDE DEF q
  <2> QED BY <2>1, <2>2, <2>3 DEF RecordStep, TypeOK
<1>6. ASSUME NEW w \in Worker, Fail(w) PROVE RecordStep(o)
  <2> DEFINE x == flight[w].occurrence
             r == occurrences[x]
             failed == [WithoutExecutionState(r) EXCEPT !.status = "failed",
                          !.nextRetryAt = now + RetryDelay, !.updatedAt = now]
             q == IF r.attempt >= MaxAttempts THEN DeadLetter(r) ELSE failed
  <2>1. r \in OccurrenceState /\ r.status = "claimed" /\ now \in Nat
    BY <1>6 DEF Fail, HoldsClaim, TypeOK, Flight
  <2>2. failed.status = "failed" /\ failed.attempt = r.attempt
    BY <2>1 DEF WithoutExecutionState, OccurrenceState
  <2>3. r.attempt \in 0..MaxAttempts
    BY <2>1 DEF OccurrenceState
  <2>4. occurrences' = [occurrences EXCEPT ![x] = q]
    BY <1>6 DEF Fail, Settle
  <2> HIDE DEF failed
  <2>5. /\ q.attempt = r.attempt
        /\ q.status = "failed" \/ (q.status = "dead-letter" /\ r.attempt = MaxAttempts)
    BY <2>1, <2>2, <2>3, BoundsAssumption, DeadLetterFields
  <2> HIDE DEF q
  <2> QED BY <2>1, <2>4, <2>5 DEF RecordStep, TypeOK
<1>7. ASSUME \/ \E t \in Trigger : SetEnabled(t)
             \/ \E w \in Worker : Dispatch(w) \/ Fenced(w) \/ Start(w)
             \/ Stop \/ Crash \/ Tick \/ UNCHANGED vars
      PROVE  RecordStep(o)
  BY <1>7 DEF SetEnabled, Dispatch, Fenced, Start, Stop, Crash, Tick, vars, RecordStep
<1> QED BY <1>1, <1>3, <1>4, <1>5, <1>6, <1>7 DEF Next

(* A settled occurrence is never written again: no late result, sweep,     *)
(* claim or second enqueue reaches it.                                     *)
THEOREM SettledStays == Spec => SettledIsFinal
<1>1. TypeOK /\ [Next]_vars =>
        [\A o \in Occurrence : Settled(o) => occurrences'[o] = occurrences[o]]_vars
  BY RecordSteps DEF RecordStep, Settled
<1> QED BY <1>1, TypeCorrect, PTL DEF Spec, SettledIsFinal

(* A step that counts a dispatch writes no record, and counts it for an    *)
(* attempt the record has granted and that was not dispatched before.      *)
LEMMA DispatchSteps ==
  ASSUME IndInv, [Next]_vars, NEW o \in Occurrence
  PROVE  \/ dispatches'[o] = dispatches[o]
         \/ /\ occurrences' = occurrences
            /\ occurrences[o].status # "absent"
            /\ \E a \in 1..occurrences[o].attempt :
                 /\ dispatches[o][a] = 0
                 /\ dispatches'[o] = [dispatches[o] EXCEPT ![a] = 1]
<1>1. ASSUME NEW w \in Worker, Dispatch(w)
      PROVE  \/ dispatches'[o] = dispatches[o]
             \/ /\ occurrences' = occurrences
                /\ occurrences[o].status # "absent"
                /\ \E a \in 1..occurrences[o].attempt :
                     /\ dispatches[o][a] = 0
                     /\ dispatches'[o] = [dispatches[o] EXCEPT ![a] = 1]
  <2> DEFINE x == flight[w].occurrence
             b == flight[w].attempt
  <2>1. /\ x \in Occurrence /\ b \in 1..MaxAttempts
        /\ dispatches \in [Occurrence -> [1..MaxAttempts -> Nat]]
        /\ occurrences[x] \in OccurrenceState
    BY <1>1 DEF Dispatch, IndInv, TypeOK, Flight
  <2>2. dispatches[x][b] = 0 /\ b <= occurrences[x].attempt /\ occurrences[x].status # "absent"
    BY <1>1 DEF Dispatch, IndInv, FlightInv
  <2>3. dispatches' = [dispatches EXCEPT ![x] = [dispatches[x] EXCEPT ![b] = 1]]
    BY <1>1, <2>1, <2>2 DEF Dispatch
  <2>4. CASE o = x
    <3>1. occurrences[x].attempt \in Nat
      BY <2>1, BoundsAssumption DEF OccurrenceState
    <3>2. b \in 1..occurrences[o].attempt
      BY <2>1, <2>2, <2>4, <3>1, BoundsAssumption
    <3> QED BY <1>1, <2>1, <2>2, <2>3, <2>4, <3>2 DEF Dispatch
  <2>5. CASE o # x
    BY <2>1, <2>3, <2>5
  <2> QED BY <2>4, <2>5
<1>2. CASE UNCHANGED dispatches
  BY <1>2
<1>3. ASSUME ~ \E w \in Worker : Dispatch(w) PROVE UNCHANGED dispatches
  BY <1>3
  DEF Next, vars, Enqueue, SetEnabled, PollIdle, PollRejected, PollClaim, Complete, Fail,
      Settle, Fenced, Start, Stop, Crash, Tick
<1> QED BY <1>1, <1>2, <1>3

(* The queue implements the contract: every step of it, for every          *)
(* occurrence, is a rest, an admission, a grant of the next attempt, the   *)
(* first delivery of a granted attempt, a fulfilment or an abandonment.    *)
THEOREM ImplementsContract == Spec => KeepsContract
<1>1. Init => Contract!Init
  BY DEF Init, Absent, PhaseOf, Contract!Init
<1>2. IndInv /\ IndInv' /\ [Next]_vars => [Contract!Next]_(Contract!contractVars)
  <2> SUFFICES ASSUME IndInv, IndInv', [Next]_vars, NEW o \in Occurrence
               PROVE  \/ Contract!Rest(o) \/ Contract!Admit(o) \/ Contract!Grant(o)
                      \/ Contract!Deliver(o) \/ Contract!Fulfil(o) \/ Contract!Abandon(o)
    BY DEF Contract!Next
  <2>1. RecordStep(o)
    BY RecordSteps DEF IndInv
  <2>2. CASE occurrences'[o] = occurrences[o] /\ dispatches'[o] # dispatches[o]
    <3>1. PhaseOf(occurrences[o]) # "absent"
      BY <2>2, DispatchSteps DEF PhaseOf
    <3> QED BY <2>2, <3>1, DispatchSteps DEF Contract!Deliver
  <2>3. CASE dispatches'[o] = dispatches[o]
    <3>1. CASE occurrences'[o] = occurrences[o]
      BY <2>3, <3>1 DEF Contract!Rest
    <3>2. CASE occurrences[o].status = "absent" /\ occurrences'[o].status = "pending"
                 /\ occurrences'[o].attempt = 0
      BY <2>3, <3>2 DEF Contract!Admit, PhaseOf, IndInv, RecordInv
    <3>3. CASE /\ occurrences[o].status = "claimed" /\ occurrences[o].attempt = MaxAttempts
               /\ occurrences'[o].status = "dead-letter"
               /\ occurrences'[o].attempt = occurrences[o].attempt
      BY <2>3, <3>3 DEF Contract!Abandon, PhaseOf
    <3>4. CASE /\ occurrences[o].status \in {"pending", "failed", "claimed"}
               /\ occurrences[o].attempt < MaxAttempts
               /\ occurrences'[o].status = "claimed"
               /\ occurrences'[o].attempt = occurrences[o].attempt + 1
      BY <2>3, <3>4 DEF Contract!Grant, PhaseOf
    <3>5. CASE /\ occurrences[o].status = "claimed" /\ occurrences'[o].status = "failed"
               /\ occurrences'[o].attempt = occurrences[o].attempt
      BY <2>3, <3>5 DEF Contract!Rest, PhaseOf
    <3>6. CASE /\ occurrences[o].status = "claimed" /\ occurrences'[o].status = "completed"
               /\ occurrences'[o].attempt = occurrences[o].attempt
      <4>1. occurrences[o].attempt > 0 /\ dispatches[o][occurrences[o].attempt] = 1
        BY <2>3, <3>6 DEF IndInv, CompletedByItsLastAttempt
      <4> QED BY <2>3, <3>6, <4>1 DEF Contract!Fulfil, PhaseOf
    <3> QED BY <2>1, <3>1, <3>2, <3>3, <3>4, <3>5, <3>6 DEF RecordStep
  <2>4. dispatches'[o] = dispatches[o] \/ occurrences'[o] = occurrences[o]
    BY DispatchSteps
  <2> QED BY <2>2, <2>3, <2>4
<1> QED BY <1>1, <1>2, Invariant, PTL DEF Spec, KeepsContract, Contract!Spec
-----------------------------------------------------------------------------
(* How many records the store holds.  A step adds one record at most, so   *)
(* there are only ever finitely many of them.                              *)
LEMMA StoredGrowsByOne ==
  ASSUME TypeOK, [Next]_vars
  PROVE  \E x \in Occurrence \cup {None} :
           Stored(occurrences') \subseteq Stored(occurrences) \cup {x}
<1>1. ASSUME NEW x \in Occurrence, NEW t \in Trigger, NEW k \in Key,
             NEW s \in Timestamps, NEW r \in Timestamps, Enqueue(x, t, k, s, r)
      PROVE  Stored(occurrences') \subseteq Stored(occurrences) \cup {x}
  BY <1>1 DEF Enqueue, Stored, TypeOK
<1>2. ASSUME ~ \E x \in Occurrence, t \in Trigger, k \in Key, s, r \in Timestamps :
                 Enqueue(x, t, k, s, r)
      PROVE  Stored(occurrences') \subseteq Stored(occurrences)
  <2> SUFFICES ASSUME NEW o \in Occurrence, occurrences[o].status = "absent"
               PROVE  occurrences'[o].status = "absent"
    BY DEF Stored
  <2>1. ASSUME NEW w \in Worker, PollIdle(w) \/ PollRejected(w)
        PROVE  occurrences'[o] = occurrences[o]
    <3>1. PICK s \in AfterSweep : occurrences' = s
      BY <2>1 DEF PollIdle, PollRejected
    <3> QED BY <3>1, SweepLemma
  <2>2. ASSUME NEW w \in Worker, PollClaim(w)
        PROVE  occurrences'[o] = occurrences[o]
    <3>1. PICK s \in AfterSweep : \E x \in Occurrence :
            /\ s[x].status \in {"pending", "failed", "claimed"}
            /\ occurrences' = [s EXCEPT ![x] = ClaimedAnew(s[x])]
      BY <2>2, ClaimLemma
    <3>2. s \in [Occurrence -> OccurrenceState] /\ s[o] = occurrences[o]
      BY SweepLemma
    <3> QED BY <3>1, <3>2
  <2>3. ASSUME NEW w \in Worker, Complete(w) \/ Fail(w)
        PROVE  occurrences'[o] = occurrences[o]
    BY <2>3 DEF Complete, Fail, Settle, HoldsClaim, TypeOK
  <2> QED
    BY <1>2, <2>1, <2>2, <2>3
    DEF Next, vars, SetEnabled, Dispatch, Fenced, Start, Stop, Crash, Tick
<1> QED BY <1>1, <1>2

LEMMA StoredIsFinite == Spec => []IsFiniteSet(Stored(occurrences))
<1>1. Init => IsFiniteSet(Stored(occurrences))
  <2> SUFFICES ASSUME Init PROVE IsFiniteSet(Stored(occurrences))
    OBVIOUS
  <2>1. Stored(occurrences) = {}
    BY DEF Init, Stored, Absent
  <2> QED BY <2>1, FS_EmptySet
<1>2. IsFiniteSet(Stored(occurrences)) /\ TypeOK /\ [Next]_vars
        => IsFiniteSet(Stored(occurrences))'
  <2> SUFFICES ASSUME IsFiniteSet(Stored(occurrences)), TypeOK, [Next]_vars
               PROVE  IsFiniteSet(Stored(occurrences'))
    BY DEF Stored
  <2>1. PICK S : S = Stored(occurrences)
    OBVIOUS
  <2>2. PICK T : T = Stored(occurrences')
    OBVIOUS
  <2>3. PICK x : T \subseteq S \cup {x}
    BY <2>1, <2>2, StoredGrowsByOne
  <2>4. IsFiniteSet(S \cup {x})
    BY <2>1, FS_AddElement
  <2>5. IsFiniteSet(T)
    BY <2>3, <2>4, FS_Subset
  <2> QED BY <2>2, <2>5
<1> QED BY <1>1, <1>2, TypeCorrect, PTL DEF Spec

(* While all records fit in one page, list() returns them all.             *)
LEMMA OnePageIsAll ==
  ASSUME NEW s \in [Occurrence -> OccurrenceState],
         IsFiniteSet(Stored(s)), Cardinality(Stored(s)) <= ListLimit
  PROVE  List(s) = Stored(s)
<1> SUFFICES ASSUME NEW o \in Stored(s)
             PROVE  Cardinality({p \in Stored(s) : ListedBefore(s, p, o)}) < ListLimit
  BY DEF List
<1> DEFINE earlier == {p \in Stored(s) : ListedBefore(s, p, o)}
<1>1. o \notin earlier
  BY OccurrenceAssumption DEF ListedBefore, Stored, OccurrenceState
<1>2. earlier \subseteq Stored(s) \ {o}
  BY <1>1
<1>3. /\ IsFiniteSet(Stored(s) \ {o})
      /\ Cardinality(Stored(s) \ {o}) = Cardinality(Stored(s)) - 1
  BY FS_RemoveElement
<1>4. Cardinality(earlier) <= Cardinality(Stored(s) \ {o})
  BY <1>2, <1>3, FS_Subset
<1>5. /\ Cardinality(Stored(s)) \in Nat
      /\ Cardinality(earlier) \in Nat
  BY <1>2, <1>3, FS_Subset, FS_CardinalityType
<1> QED BY <1>3, <1>4, <1>5, BoundsAssumption

(* Attempts are counted by a claim and by nothing else.                    *)
LEMMA OnlyClaimsCount ==
  ASSUME TypeOK, [Next]_vars, NEW o \in Occurrence,
         occurrences'[o].attempt > occurrences[o].attempt
  PROVE  \E w \in Worker : PollClaim(w)
<1>0. /\ occurrences \in [Occurrence -> OccurrenceState]
      /\ occurrences[o].attempt \in 0..MaxAttempts
      /\ occurrences[o].attempt \in Nat
  BY BoundsAssumption DEF TypeOK, OccurrenceState
<1>1. ASSUME NEW x \in Occurrence, NEW t \in Trigger, NEW k \in Key,
             NEW s \in Timestamps, NEW r \in Timestamps, Enqueue(x, t, k, s, r)
      PROVE  FALSE
  BY <1>0, <1>1 DEF Enqueue, Absent
<1>2. ASSUME NEW w \in Worker, PollIdle(w) \/ PollRejected(w) PROVE FALSE
  <2>1. PICK s \in AfterSweep : occurrences' = s
    BY <1>2 DEF PollIdle, PollRejected
  <2>2. s[o].attempt = occurrences[o].attempt
    BY SweepLemma, DeadLetterFields DEF TypeOK
  <2> QED BY <1>0, <2>1, <2>2
<1>3. ASSUME NEW w \in Worker, NEW r, Settle(w, r), flight[w] # None,
             r.attempt = occurrences[flight[w].occurrence].attempt
      PROVE  FALSE
  BY <1>0, <1>3 DEF Settle
<1>4. ASSUME NEW w \in Worker, Complete(w) PROVE FALSE
  <2> DEFINE x == flight[w].occurrence
             q == [WithoutExecutionState(occurrences[x]) EXCEPT
                     !.status = "completed", !.updatedAt = now]
  <2>1. occurrences[x] \in OccurrenceState /\ flight[w] # None /\ Settle(w, q)
    BY <1>4 DEF Complete, TypeOK, Flight
  <2>2. q.attempt = occurrences[x].attempt
    BY <2>1 DEF WithoutExecutionState, OccurrenceState
  <2> HIDE DEF q
  <2> QED BY <1>3, <2>1, <2>2
<1>5. ASSUME NEW w \in Worker, Fail(w) PROVE FALSE
  <2> DEFINE r == occurrences[flight[w].occurrence]
             failed == [WithoutExecutionState(r) EXCEPT !.status = "failed",
                          !.nextRetryAt = now + RetryDelay, !.updatedAt = now]
             q == IF r.attempt >= MaxAttempts THEN DeadLetter(r) ELSE failed
  <2>1. r \in OccurrenceState /\ flight[w] # None /\ Settle(w, q) /\ now \in Nat
    BY <1>5 DEF Fail, TypeOK, Flight
  <2>2. failed.attempt = r.attempt
    BY <2>1 DEF WithoutExecutionState, OccurrenceState
  <2> HIDE DEF failed
  <2>3. q.attempt = r.attempt
    BY <2>1, <2>2, DeadLetterFields
  <2> HIDE DEF q
  <2> QED BY <1>3, <2>1, <2>3
<1>6. ASSUME UNCHANGED occurrences PROVE FALSE
  BY <1>0, <1>6
<1> QED
  BY <1>1, <1>2, <1>4, <1>5, <1>6
  DEF Next, vars, SetEnabled, Dispatch, Fenced, Start, Stop, Crash, Tick

(* All records fit in one page of list().                                  *)
FitsOnePage == Cardinality(Stored(occurrences)) <= ListLimit

LEMMA ClaimStepInOrder ==
  ASSUME TypeOK, IsFiniteSet(Stored(occurrences)), FitsOnePage, [Next]_vars,
         NEW o \in Occurrence, NEW p \in Occurrence, p # o,
         occurrences'[o].attempt > occurrences[o].attempt,
         occurrences[p].status # "absent", Eligible(occurrences[p])
  PROVE  ServedBefore(occurrences, o, p)
<1>1. PICK w \in Worker : PollClaim(w)
  BY OnlyClaimsCount
<1>2. PICK s \in AfterSweep : \E x \in FirstCandidate(s) :
        occurrences' = [s EXCEPT ![x] = ClaimedAnew(s[x])]
  BY <1>1 DEF PollClaim
<1>3. PICK x \in FirstCandidate(s) :
        occurrences' = [s EXCEPT ![x] = ClaimedAnew(s[x])]
  BY <1>2
<1>4. /\ s \in [Occurrence -> OccurrenceState]
      /\ x \in Occurrence /\ x \in Candidates(s) /\ s[x].attempt < MaxAttempts
  BY <1>3, SweepLemma DEF FirstCandidate, Candidates, List, Stored, Eligible
<1>5. /\ occurrences \in [Occurrence -> OccurrenceState]
      /\ now \in Nat
      /\ \A q \in Occurrence : /\ occurrences[q].attempt \in Nat
                               /\ s[q].attempt = occurrences[q].attempt
                               /\ (s[q].status = "absent") <=> (occurrences[q].status = "absent")
                               /\ occurrences[q].attempt < MaxAttempts => s[q] = occurrences[q]
  <2>1. now \in Nat /\ occurrences \in [Occurrence -> OccurrenceState]
    BY DEF TypeOK
  <2> SUFFICES ASSUME NEW q \in Occurrence
               PROVE  /\ occurrences[q].attempt \in Nat
                      /\ s[q].attempt = occurrences[q].attempt
                      /\ (s[q].status = "absent") <=> (occurrences[q].status = "absent")
                      /\ occurrences[q].attempt < MaxAttempts => s[q] = occurrences[q]
    BY <2>1
  <2>2. occurrences[q].attempt \in Nat
    BY <2>1, BoundsAssumption DEF OccurrenceState
  <2>3. CASE s[q] = occurrences[q]
    BY <2>2, <2>3
  <2>4. CASE /\ occurrences[q].status = "claimed"
             /\ occurrences[q].attempt = MaxAttempts
             /\ s[q] = DeadLetter(occurrences[q])
    BY <2>1, <2>2, <2>4, DeadLetterFields, BoundsAssumption
  <2> QED BY <2>3, <2>4, SweepLemma
<1>6. x = o
  BY <1>3, <1>4, <1>5
<1>7. s[o] = occurrences[o] /\ s[p] = occurrences[p]
  BY <1>4, <1>5, <1>6 DEF Eligible
<1>8. Stored(s) = Stored(occurrences)
  BY <1>5 DEF Stored
<1>9. p \in Candidates(s)
  <2>1. List(s) = Stored(s)
    BY <1>4, <1>8, OnePageIsAll DEF FitsOnePage
  <2> QED BY <1>7, <2>1 DEF Candidates, Stored
<1>10. ServedBefore(s, o, p)
  BY <1>3, <1>6, <1>9 DEF FirstCandidate
<1> QED BY <1>7, <1>10 DEF ServedBefore

(* As long as the records fit in one page, claimNext serves the queue by   *)
(* schedule, then request order: the page is the only reason for which an  *)
(* occurrence is ever overtaken.                                           *)
THEOREM ClaimsInOrderOnOnePage == Spec /\ []FitsOnePage => ClaimsInOrder
<1>1. TypeOK /\ IsFiniteSet(Stored(occurrences)) /\ FitsOnePage /\ [Next]_vars =>
        [\A o, p \in Occurrence :
           /\ occurrences'[o].attempt > occurrences[o].attempt
           /\ p # o
           /\ occurrences[p].status # "absent"
           /\ Eligible(occurrences[p])
           => ServedBefore(occurrences, o, p)]_vars
  BY ClaimStepInOrder
<1> QED BY <1>1, TypeCorrect, StoredIsFinite, PTL DEF Spec, ClaimsInOrder

-----------------------------------------------------------------------------
(* The choices of claimNext.  find() and the first of the sorted list take *)
(* one record each, so a poll has one outcome in every state.              *)

(* Of any records, one is served and one is listed before all the others.  *)
LEMMA FirstServed ==
  ASSUME NEW s \in [Occurrence -> OccurrenceState], NEW C \in SUBSET Occurrence, C # {}
  PROVE  \E o \in C : \A p \in C \ {o} : ServedBefore(s, o, p)
<1>0. \A o \in Occurrence : /\ o \in Nat
                            /\ s[o].scheduledAt \in Nat
                            /\ s[o].requestedAt \in Nat
  BY OccurrenceAssumption DEF OccurrenceState
<1>1. PICK d \in {s[o].scheduledAt : o \in C} : \A e \in {s[o].scheduledAt : o \in C} : d <= e
  <2>1. {s[o].scheduledAt : o \in C} \in SUBSET Nat /\ {s[o].scheduledAt : o \in C} # {}
    BY <1>0
  <2> QED BY <2>1, LeastNumber
<1> DEFINE D == {o \in C : s[o].scheduledAt = d}
<1>2. PICK q \in {s[o].requestedAt : o \in D} : \A e \in {s[o].requestedAt : o \in D} : q <= e
  <2>1. {s[o].requestedAt : o \in D} \in SUBSET Nat /\ {s[o].requestedAt : o \in D} # {}
    BY <1>0, <1>1
  <2> QED BY <2>1, LeastNumber
<1> DEFINE E == {o \in D : s[o].requestedAt = q}
<1>3. PICK x \in E : \A y \in E : x <= y
  <2>1. E \in SUBSET Nat /\ E # {}
    BY <1>0, <1>2
  <2> QED BY <2>1, LeastNumber
<1>4. ASSUME NEW p \in C, p # x PROVE ServedBefore(s, x, p)
  <2>1. /\ x \in Nat /\ p \in Nat /\ d \in Nat /\ q \in Nat
        /\ s[p].scheduledAt \in Nat /\ s[p].requestedAt \in Nat
        /\ s[x].scheduledAt = d /\ s[x].requestedAt = q
    BY <1>0, <1>1, <1>2
  <2>2. d <= s[p].scheduledAt
    BY <1>1
  <2>3. s[p].scheduledAt = d => q <= s[p].requestedAt
    BY <1>2
  <2>4. s[p].scheduledAt = d /\ s[p].requestedAt = q => x <= p
    BY <1>3
  <2> QED BY <1>4, <2>1, <2>2, <2>3, <2>4 DEF ServedBefore
<1> QED BY <1>4

LEMMA FirstListed ==
  ASSUME NEW s \in [Occurrence -> OccurrenceState], NEW C \in SUBSET Occurrence, C # {}
  PROVE  \E o \in C : \A p \in C \ {o} : ListedBefore(s, o, p)
<1>0. \A o \in Occurrence : o \in Nat /\ s[o].updatedAt \in Nat
  BY OccurrenceAssumption DEF OccurrenceState
<1>1. PICK d \in {s[o].updatedAt : o \in C} : \A e \in {s[o].updatedAt : o \in C} : d <= e
  <2>1. {s[o].updatedAt : o \in C} \in SUBSET Nat /\ {s[o].updatedAt : o \in C} # {}
    BY <1>0
  <2> QED BY <2>1, LeastNumber
<1> DEFINE D == {o \in C : s[o].updatedAt = d}
<1>2. PICK x \in D : \A y \in D : x <= y
  <2>1. D \in SUBSET Nat /\ D # {}
    BY <1>0, <1>1
  <2> QED BY <2>1, LeastNumber
<1>3. ASSUME NEW p \in C, p # x PROVE ListedBefore(s, x, p)
  <2>1. /\ x \in Nat /\ p \in Nat /\ d \in Nat
        /\ s[p].updatedAt \in Nat /\ s[x].updatedAt = d
    BY <1>0, <1>1
  <2>2. d <= s[p].updatedAt
    BY <1>1
  <2>3. s[p].updatedAt = d => x <= p
    BY <1>2
  <2> QED BY <1>3, <2>1, <2>2, <2>3 DEF ListedBefore
<1> QED BY <1>3

(* The sweep has one outcome: it writes no record or one.                  *)
LEMMA OneSweep ==
  ASSUME TypeOK
  PROVE  \E s : AfterSweep = {s}
<1> DEFINE X == ExpiredMax(occurrences)
           first == {x \in X : \A p \in X \ {x} : ListedBefore(occurrences, x, p)}
<1>1. CASE X = {}
  BY <1>1 DEF AfterSweep
<1>2. CASE X # {}
  <2>1. X \in SUBSET Occurrence /\ occurrences \in [Occurrence -> OccurrenceState]
    BY DEF ExpiredMax, List, Stored, TypeOK
  <2>2. PICK o \in X : \A p \in X \ {o} : ListedBefore(occurrences, o, p)
    <3> HIDE DEF X
    <3> QED BY <1>2, <2>1, FirstListed
  <2>3. ASSUME NEW x \in first PROVE x = o
    <3>1. x # o => ListedBefore(occurrences, o, x) /\ ListedBefore(occurrences, x, o)
      BY <2>2, <2>3
    <3>2. /\ x \in Nat /\ o \in Nat
          /\ occurrences[x].updatedAt \in Nat /\ occurrences[o].updatedAt \in Nat
      BY <2>1, <2>3, OccurrenceAssumption DEF OccurrenceState
    <3> QED BY <3>1, <3>2 DEF ListedBefore
  <2>4. first = {o}
    BY <2>2, <2>3
  <2>5. AfterSweep = {[occurrences EXCEPT ![x] = DeadLetter(@)] : x \in first}
    BY <1>2 DEF AfterSweep
  <2> HIDE DEF first
  <2>6. AfterSweep = {[occurrences EXCEPT ![o] = DeadLetter(@)]}
    BY <2>4, <2>5
  <2> QED BY <2>6
<1> QED BY <1>1, <1>2

(* Of the eligible records of a store, claimNext takes one and only one.   *)
LEMMA OneChoice ==
  ASSUME NEW s \in [Occurrence -> OccurrenceState], Candidates(s) # {}
  PROVE  \E o \in Candidates(s) : FirstCandidate(s) = {o}
<1>1. Candidates(s) \in SUBSET Occurrence
  BY DEF Candidates, List, Stored
<1>2. PICK o \in Candidates(s) : \A p \in Candidates(s) \ {o} : ServedBefore(s, o, p)
  BY <1>1, FirstServed
<1>3. ASSUME NEW x \in FirstCandidate(s) PROVE x = o
  <2>1. x # o => ServedBefore(s, o, x) /\ ServedBefore(s, x, o)
    BY <1>2 DEF FirstCandidate
  <2>2. x \in Occurrence /\ o \in Occurrence
    BY <1>1 DEF FirstCandidate
  <2>3. /\ x \in Nat /\ o \in Nat
        /\ s[x].scheduledAt \in Nat /\ s[o].scheduledAt \in Nat
        /\ s[x].requestedAt \in Nat /\ s[o].requestedAt \in Nat
    BY <2>2, OccurrenceAssumption DEF OccurrenceState
  <2> QED BY <2>1, <2>3 DEF ServedBefore
<1> QED BY <1>2, <1>3 DEF FirstCandidate

(* What the next poll does is settled by the state: it claims nothing, or  *)
(* it has one record to claim.                                             *)
PollIsDecided ==
  \E s : /\ AfterSweep = {s}
         /\ Candidates(s) = {} \/ \E o \in Candidates(s) : FirstCandidate(s) = {o}

(* Every poll has exactly one outcome, however many records there are, and *)
(* whatever their times: a scheduler never stalls between its choices, and *)
(* two eligible records never tie.                                         *)
THEOREM PollsAreDecided == Spec => []PollIsDecided
<1>1. TypeOK => PollIsDecided
  <2> SUFFICES ASSUME TypeOK PROVE PollIsDecided
    OBVIOUS
  <2>1. PICK s : AfterSweep = {s}
    BY OneSweep
  <2>2. s \in [Occurrence -> OccurrenceState]
    BY <2>1, SweepLemma
  <2> QED BY <2>1, <2>2, OneChoice DEF PollIsDecided
<1> QED BY <1>1, TypeCorrect, PTL

-----------------------------------------------------------------------------
(* No record is left behind.  What waits has attempts left, and what was   *)
(* tried was due by then and was last written in the past.                 *)
OpenInv ==
  \A o \in Occurrence :
    LET r == occurrences[o]
    IN  /\ r.status \in {"pending", "failed"} => r.attempt < MaxAttempts
        /\ r.status \in {"failed", "claimed"} => r.scheduledAt <= now /\ r.updatedAt <= now

LEMMA SweepKeepsOpen ==
  ASSUME TypeOK, OpenInv, NEW s \in AfterSweep, NEW o \in Occurrence
  PROVE  /\ s[o].status \in {"pending", "failed"} => s[o].attempt < MaxAttempts
         /\ s[o].status \in {"failed", "claimed"} => s[o].scheduledAt <= now /\ s[o].updatedAt <= now
<1>1. CASE s[o] = occurrences[o]
  BY <1>1 DEF OpenInv
<1>2. CASE s[o] = DeadLetter(occurrences[o])
  BY <1>2, DeadLetterFields DEF TypeOK
<1> QED BY <1>1, <1>2, SweepLemma

LEMMA OpenInductive ==
  ASSUME TypeOK, OpenInv, [Next]_vars
  PROVE  OpenInv'
<1>0. /\ occurrences \in [Occurrence -> OccurrenceState] /\ now \in Nat
      /\ \A o \in Occurrence : /\ occurrences[o] \in OccurrenceState
                               /\ occurrences[o].scheduledAt \in Nat
                               /\ occurrences[o].updatedAt \in Nat
  BY DEF TypeOK, OccurrenceState
<1>1. ASSUME NEW x \in Occurrence, NEW t \in Trigger, NEW k \in Key,
             NEW s \in Timestamps, NEW r \in Timestamps, Enqueue(x, t, k, s, r)
      PROVE  OpenInv'
  BY <1>0, <1>1, BoundsAssumption DEF Enqueue, Absent, OpenInv
<1>2. ASSUME NEW w \in Worker, PollIdle(w) \/ PollRejected(w) PROVE OpenInv'
  <2>1. PICK s \in AfterSweep : occurrences' = s
    BY <1>2 DEF PollIdle, PollRejected
  <2>2. now' = now
    BY <1>2 DEF PollIdle, PollRejected
  <2> QED BY <2>1, <2>2, SweepKeepsOpen DEF OpenInv
<1>3. ASSUME NEW w \in Worker, PollClaim(w) PROVE OpenInv'
  <2>1. PICK s \in AfterSweep : \E x \in FirstCandidate(s) :
          occurrences' = [s EXCEPT ![x] = ClaimedAnew(s[x])]
    BY <1>3 DEF PollClaim
  <2>2. PICK x \in FirstCandidate(s) : occurrences' = [s EXCEPT ![x] = ClaimedAnew(s[x])]
    BY <2>1
  <2>3. x \in Occurrence /\ Due(s[x])
    BY DEF FirstCandidate, Candidates, List, Stored, Eligible
  <2>4. s[x].scheduledAt <= now
    BY <2>3, SweepKeepsOpen DEF Due, Expired
  <2>5. s \in [Occurrence -> OccurrenceState] /\ s[x] \in OccurrenceState
    BY <2>3, SweepLemma
  <2>6. /\ ClaimedAnew(s[x]).status = "claimed"
        /\ ClaimedAnew(s[x]).scheduledAt = s[x].scheduledAt
        /\ ClaimedAnew(s[x]).updatedAt = now
    BY <2>5 DEF ClaimedAnew, WithoutExecutionState, OccurrenceState
  <2>7. now' = now
    BY <1>3 DEF PollClaim
  <2>8. ASSUME NEW o \in Occurrence
        PROVE  LET r == occurrences'[o]
               IN  /\ r.status \in {"pending", "failed"} => r.attempt < MaxAttempts
                   /\ r.status \in {"failed", "claimed"} => r.scheduledAt <= now /\ r.updatedAt <= now
    <3>1. CASE o = x
      BY <1>0, <2>2, <2>3, <2>4, <2>5, <2>6, <3>1
    <3>2. CASE o # x
      BY <2>2, <2>5, <3>2, SweepKeepsOpen
    <3> QED BY <3>1, <3>2
  <2> QED BY <2>7, <2>8 DEF OpenInv
<1>4. ASSUME NEW w \in Worker, Complete(w) PROVE OpenInv'
  <2> DEFINE x == flight[w].occurrence
             q == [WithoutExecutionState(occurrences[x]) EXCEPT
                     !.status = "completed", !.updatedAt = now]
  <2>1. x \in Occurrence /\ now' = now
    BY <1>4 DEF Complete, Settle, TypeOK, Flight
  <2>2. q.status = "completed"
    BY <1>0, <2>1 DEF WithoutExecutionState, OccurrenceState
  <2>3. occurrences' = [occurrences EXCEPT ![x] = q]
    BY <1>4 DEF Complete, Settle
  <2> HIDE DEF q
  <2> QED BY <1>0, <2>1, <2>2, <2>3 DEF OpenInv
<1>5. ASSUME NEW w \in Worker, Fail(w) PROVE OpenInv'
  <2> DEFINE x == flight[w].occurrence
             r == occurrences[x]
             failed == [WithoutExecutionState(r) EXCEPT !.status = "failed",
                          !.nextRetryAt = now + RetryDelay, !.updatedAt = now]
             q == IF r.attempt >= MaxAttempts THEN DeadLetter(r) ELSE failed
  <2>1. x \in Occurrence /\ r \in OccurrenceState /\ now' = now
    BY <1>5 DEF Fail, Settle, TypeOK, Flight
  <2>2. r.scheduledAt <= now /\ r.attempt \in Nat
    BY <1>5, <2>1, BoundsAssumption DEF Fail, HoldsClaim, OpenInv, OccurrenceState
  <2>3. /\ failed.status = "failed" /\ failed.attempt = r.attempt
        /\ failed.scheduledAt = r.scheduledAt /\ failed.updatedAt = now
    BY <2>1 DEF WithoutExecutionState, OccurrenceState
  <2>4. occurrences' = [occurrences EXCEPT ![x] = q]
    BY <1>5 DEF Fail, Settle
  <2> HIDE DEF failed
  <2>5. /\ q.status \in {"failed", "dead-letter"}
        /\ q.status = "failed" => q.attempt < MaxAttempts
        /\ q.status = "failed" => q.scheduledAt <= now /\ q.updatedAt <= now
    BY <1>0, <2>1, <2>2, <2>3, DeadLetterFields, BoundsAssumption
  <2> HIDE DEF q
  <2> QED BY <1>0, <2>1, <2>4, <2>5 DEF OpenInv
<1>6. CASE Tick
  BY <1>0, <1>6 DEF Tick, OpenInv
<1>7. ASSUME UNCHANGED <<occurrences, now>> PROVE OpenInv'
  BY <1>7 DEF OpenInv
<1> QED
  BY <1>1, <1>2, <1>3, <1>4, <1>5, <1>6, <1>7
  DEF Next, vars, SetEnabled, Dispatch, Fenced, Start, Stop, Crash

(* An open record of an enabled trigger that waits for no time of its own. *)
Ready(r) ==
  r.status \in {"pending", "claimed", "failed"} /\ ~AheadOfClock(r) /\ enabled[r.trigger]

(* On the page that list() returns, such a record is among those a poll    *)
(* may claim - and write, the clock being past its last write - or among   *)
(* those the poll gives up first.                                          *)
NoRecordIsStranded ==
  \A o \in List(occurrences) :
    Ready(occurrences[o]) =>
      \/ o \in Candidates(occurrences) /\ occurrences[o].updatedAt <= now
      \/ o \in ExpiredMax(occurrences)

(* Once its times have passed, an open occurrence on the page is one that  *)
(* claimNext can claim or dead-letter: no path of failures, crashes and    *)
(* re-claims leaves a record in between, which list() returns but no poll  *)
(* would ever touch.  It says nothing of the records beyond the page:      *)
(* those no poll sees, in whatever state they are.                         *)
THEOREM NothingStranded == Spec => []NoRecordIsStranded
<1>1. Init => OpenInv
  BY BoundsAssumption DEF Init, Absent, OpenInv
<1>2. TypeOK /\ OpenInv /\ [Next]_vars => OpenInv'
  BY OpenInductive
<1>3. TypeOK /\ OpenInv => NoRecordIsStranded
  <2> SUFFICES ASSUME TypeOK, OpenInv, NEW o \in List(occurrences), Ready(occurrences[o])
               PROVE  \/ o \in Candidates(occurrences) /\ occurrences[o].updatedAt <= now
                      \/ o \in ExpiredMax(occurrences)
    BY DEF NoRecordIsStranded
  <2> DEFINE r == occurrences[o]
  <2>1. o \in Occurrence
    BY DEF List, Stored
  <2>2. r \in OccurrenceState /\ now \in Nat
    BY <2>1 DEF TypeOK
  <2>3. /\ r.attempt \in Nat /\ r.scheduledAt \in Nat /\ r.updatedAt \in Nat
        /\ r.expiresAt \in Nat /\ r.nextRetryAt \in Nat /\ MaxAttempts \in Nat
    BY <2>2, BoundsAssumption DEF OccurrenceState
  <2>4. \/ Eligible(r) /\ r.updatedAt <= now
        \/ Expired(r) /\ r.attempt >= MaxAttempts
    BY <2>1, <2>2, <2>3 DEF OpenInv, Ready, AheadOfClock, Eligible, Due, Expired
  <2> QED BY <2>4 DEF Candidates, ExpiredMax
<1> QED BY <1>1, <1>2, <1>3, TypeCorrect, PTL DEF Spec

=============================================================================
