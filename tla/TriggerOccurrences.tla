------------------------- MODULE TriggerOccurrences -------------------------
(***************************************************************************)
(* The durable queue of trigger occurrences (TriggerOccurrenceStore) and   *)
(* the polling loop that serves it (TriggerOccurrenceScheduler).           *)
(*                                                                         *)
(* An occurrence is enqueued by a command or a trigger source, claimed     *)
(* under a lease, executed, and then completed, failed for a later retry,  *)
(* or dead-lettered.  Records are durable and every write is one           *)
(* transaction of the event store; the scheduler and its single in-flight  *)
(* execution are lost in a crash.  Closing the trigger lifecycle drops the *)
(* active runtime before its execution has settled, so a new runtime can   *)
(* poll while the old one's execution is still under way: each `worker' is *)
(* one runtime's scheduler.                                                *)
(*                                                                         *)
(* Time is a counter.  It only advances while some stored timestamp is     *)
(* still ahead of it: nothing the code does depends on how long the queue  *)
(* has been idle.                                                          *)
(***************************************************************************)
EXTENDS Naturals, FiniteSets

CONSTANTS
  Occurrence,     \* occurrence ids; numbers, ordered as localeCompare orders ids
  Trigger,        \* trigger ids
  Key,            \* caller idempotency keys
  Worker,         \* scheduler instances the process may create
  MaxAttempts,    \* claimNext/fail maxAttempts (3 in the scheduler)
  Lease,          \* leaseMs
  RetryDelay,     \* retryDelayMs
  ListLimit,      \* page size of list() (1000 in the code)
  Skew,           \* bound: how far a caller's timestamps lie from the clock
  MaxInterrupts,  \* bound: stops and crashes of the runtime
  None

Statuses == {"absent", "pending", "claimed", "completed", "failed", "dead-letter"}

(* An occurrence resource.  owner is the claim id (0 when there is no      *)
(* claim); expiresAt and nextRetryAt are 0 when the field is absent.       *)
OccurrenceState ==
  [status : Statuses, trigger : Trigger \cup {None}, key : Key \cup {None},
   scheduledAt : Nat, requestedAt : Nat, attempt : 0..MaxAttempts,
   owner : Nat, expiresAt : Nat, nextRetryAt : Nat, updatedAt : Nat]

(* The execution a scheduler awaits in executeOne.                         *)
Flight == [occurrence : Occurrence, claim : Nat, attempt : 1..MaxAttempts,
           dispatched : BOOLEAN]

ASSUME OccurrenceAssumption == Occurrence \subseteq Nat
ASSUME BoundsAssumption ==
  /\ MaxAttempts \in Nat \ {0}
  /\ Lease \in Nat \ {0}
  /\ RetryDelay \in Nat \ {0}
  /\ ListLimit \in Nat \ {0}
  /\ Skew \in Nat
  /\ MaxInterrupts \in Nat
ASSUME NoneAssumption == None \notin Worker /\ None \notin Flight

VARIABLES
  occurrences,  \* id -> resource
  enabled,      \* trigger -> its enabled flag
  now,          \* the clock
  active,       \* the scheduler that is polling, or None
  flight,       \* worker -> the execution it awaits, or None
  lastClaim,    \* claim ids handed out so far (randomUUID)
  dispatches,   \* id -> attempt -> how often the target was dispatched
  interrupts    \* stops and crashes so far

vars == <<occurrences, enabled, now, active, flight, lastClaim, dispatches, interrupts>>

-----------------------------------------------------------------------------
(* The store's pure parts.                                                 *)

Absent ==
  [status |-> "absent", trigger |-> None, key |-> None, scheduledAt |-> 0,
   requestedAt |-> 0, attempt |-> 0, owner |-> 0, expiresAt |-> 0,
   nextRetryAt |-> 0, updatedAt |-> 0]

(* Mutant of WithoutExecutionState: the attempts are forgotten with it.    *)
WithoutAttempts(r) ==
  [r EXCEPT !.attempt = 0, !.owner = 0, !.expiresAt = 0, !.nextRetryAt = 0]

WithoutExecutionState(r) ==
  [r EXCEPT !.owner = 0, !.expiresAt = 0, !.nextRetryAt = 0]

DeadLetter(r) ==
  [WithoutExecutionState(r) EXCEPT !.status = "dead-letter", !.updatedAt = now]

Stored(os) == {o \in Occurrence : os[o].status # "absent"}

(* listResources orders by (updatedAt, id) and returns one page.           *)
ListedBefore(os, p, o) ==
  \/ os[p].updatedAt < os[o].updatedAt
  \/ os[p].updatedAt = os[o].updatedAt /\ p < o

List(os) ==
  {o \in Stored(os) :
     Cardinality({p \in Stored(os) : ListedBefore(os, p, o)}) < ListLimit}

Expired(r) == r.status = "claimed" /\ r.expiresAt <= now

(* Mutants of Due: an expired lease is never taken over; a settled record  *)
(* is due like a pending one.                                              *)
DueUnlessClaimed(r) ==
  \/ r.status = "pending" /\ r.scheduledAt <= now
  \/ r.status = "failed" /\ r.scheduledAt <= now /\ r.nextRetryAt <= now

DueThoughSettled(r) ==
  \/ r.status # "claimed" /\ r.scheduledAt <= now /\ r.nextRetryAt <= now
  \/ Expired(r)

Due(r) ==
  \/ r.status = "pending" /\ r.scheduledAt <= now
  \/ r.status = "failed" /\ r.scheduledAt <= now /\ r.nextRetryAt <= now
  \/ Expired(r)

(* Mutant of Eligible: the attempts are not limited.                       *)
EligibleAgain(r) == Due(r) /\ enabled[r.trigger]

Eligible(r) == Due(r) /\ r.attempt < MaxAttempts /\ enabled[r.trigger]

(* The order in which claimNext serves the eligible occurrences.           *)
ServedBefore(os, p, o) ==
  \/ os[p].scheduledAt < os[o].scheduledAt
  \/ /\ os[p].scheduledAt = os[o].scheduledAt
     /\ \/ os[p].requestedAt < os[o].requestedAt
        \/ os[p].requestedAt = os[o].requestedAt /\ p < o

Candidates(os) == {o \in List(os) : Eligible(os[o])}

(* Mutant of FirstCandidate: the candidates are taken as they are listed.  *)
FirstListedCandidate(os) ==
  {o \in Candidates(os) : \A p \in Candidates(os) \ {o} : ListedBefore(os, o, p)}

FirstCandidate(os) ==
  {o \in Candidates(os) : \A p \in Candidates(os) \ {o} : ServedBefore(os, o, p)}

(* Mutant of ExpiredMax: one attempt too early.                            *)
ExpiredEarly(os) == {o \in List(os) : Expired(os[o]) /\ os[o].attempt + 1 >= MaxAttempts}

ExpiredMax(os) == {o \in List(os) : Expired(os[o]) /\ os[o].attempt >= MaxAttempts}

(* claimNext first dead-letters the first listed occurrence whose last     *)
(* lease ran out, if there is one: the (single) state after that write.    *)
AfterSweep ==
  IF ExpiredMax(occurrences) = {}
  THEN {occurrences}
  ELSE {[occurrences EXCEPT ![o] = DeadLetter(@)] :
        o \in {x \in ExpiredMax(occurrences) :
                 \A p \in ExpiredMax(occurrences) \ {x} : ListedBefore(occurrences, x, p)}}

-----------------------------------------------------------------------------
Init ==
  /\ occurrences = [o \in Occurrence |-> Absent]
  /\ enabled \in [Trigger -> BOOLEAN]
  /\ now = 0
  /\ active = None
  /\ flight = [w \in Worker |-> None]
  /\ lastClaim = 0
  /\ dispatches = [o \in Occurrence |-> [a \in 1..MaxAttempts |-> 0]]
  /\ interrupts = 0

(* enqueue: a fresh id under a fresh key creates a pending record; the     *)
(* same id or the same key replays the stored record or throws a conflict  *)
(* and changes nothing.  A key outside the page list() returns is caught   *)
(* by the event store, whose idempotency keys are unique.  Both timestamps *)
(* are the caller's.  Only an enabled trigger enqueues.                    *)
Enqueue(o, t, k, scheduledAt, requestedAt) ==
  /\ enabled[t]
  /\ occurrences[o].status = "absent"
  /\ \A p \in Stored(occurrences) : occurrences[p].key # k
  /\ occurrences' = [occurrences EXCEPT ![o] =
       [Absent EXCEPT !.status = "pending", !.trigger = t, !.key = k,
          !.scheduledAt = scheduledAt, !.requestedAt = requestedAt,
          !.updatedAt = requestedAt]]
  /\ UNCHANGED <<enabled, now, active, flight, lastClaim, dispatches, interrupts>>

(* enable/disable of a trigger; an execution under way is not cancelled.   *)
SetEnabled(t) ==
  /\ enabled' = [enabled EXCEPT ![t] = ~@]
  /\ UNCHANGED <<occurrences, now, active, flight, lastClaim, dispatches, interrupts>>

Polling(w) == active = w /\ flight[w] = None

(* executeOne up to the await, when claimNext returns nothing.             *)
PollIdle(w) ==
  /\ Polling(w)
  /\ \E swept \in AfterSweep :
       /\ Candidates(swept) = {}
       /\ occurrences' = swept
  /\ UNCHANGED <<enabled, now, active, flight, lastClaim, dispatches, interrupts>>

(* A candidate whose updatedAt lies ahead of the clock (an occurrence      *)
(* enqueued with a future requestedAt) cannot be written: the event store  *)
(* rejects the claim and the poll ends, after the sweep was committed.     *)
PollRejected(w) ==
  /\ Polling(w)
  /\ \E swept \in AfterSweep :
       /\ \E o \in FirstCandidate(swept) : swept[o].updatedAt > now
       /\ occurrences' = swept
  /\ UNCHANGED <<enabled, now, active, flight, lastClaim, dispatches, interrupts>>

(* Mutant of ClaimedAnew: the attempt is not counted.                      *)
ClaimedUncounted(r) ==
  [WithoutExecutionState(r) EXCEPT !.status = "claimed", !.owner = lastClaim + 1,
     !.expiresAt = now + Lease, !.updatedAt = now]

ClaimedAnew(r) ==
  [WithoutExecutionState(r) EXCEPT !.status = "claimed", !.attempt = r.attempt + 1,
     !.owner = lastClaim + 1, !.expiresAt = now + Lease, !.updatedAt = now]

PollClaim(w) ==
  /\ Polling(w)
  /\ \E swept \in AfterSweep : \E o \in FirstCandidate(swept) :
       /\ swept[o].updatedAt <= now
       /\ occurrences' = [swept EXCEPT ![o] = ClaimedAnew(@)]
       /\ flight' = [flight EXCEPT ![w] =
            [occurrence |-> o, claim |-> lastClaim + 1,
             attempt |-> swept[o].attempt + 1, dispatched |-> FALSE]]
  /\ lastClaim' = lastClaim + 1
  /\ UNCHANGED <<enabled, now, active, dispatches, interrupts>>

(* The policy boundary has consumed the permit and calls the target; the   *)
(* claim is not looked at again before the call.                           *)
Dispatch(w) ==
  /\ flight[w] # None
  /\ ~flight[w].dispatched
  /\ flight' = [flight EXCEPT ![w].dispatched = TRUE]
  /\ dispatches' = [dispatches EXCEPT ![flight[w].occurrence][flight[w].attempt] = @ + 1]
  /\ UNCHANGED <<occurrences, enabled, now, active, lastClaim, interrupts>>

(* Mutant of HoldsClaim: any claim will do.                                *)
HoldsAnyClaim(f) ==
  LET r == occurrences[f.occurrence]
  IN  r.status = "claimed" /\ r.expiresAt > now

(* requireClaim: the fence a result has to pass.                           *)
HoldsClaim(f) ==
  LET r == occurrences[f.occurrence]
  IN  r.status = "claimed" /\ r.owner = f.claim /\ r.expiresAt > now

Settle(w, r) ==
  /\ occurrences' = [occurrences EXCEPT ![flight[w].occurrence] = r]
  /\ flight' = [flight EXCEPT ![w] = None]
  /\ UNCHANGED <<enabled, now, active, lastClaim, dispatches, interrupts>>

(* The execution returned and complete() passes the fence.                 *)
Complete(w) ==
  /\ flight[w] # None
  /\ flight[w].dispatched
  /\ HoldsClaim(flight[w])
  /\ Settle(w, [WithoutExecutionState(occurrences[flight[w].occurrence])
                  EXCEPT !.status = "completed", !.updatedAt = now])

(* The policy refused, or the dispatched target failed: fail().            *)
Fail(w) ==
  /\ flight[w] # None
  /\ HoldsClaim(flight[w])
  /\ LET r == occurrences[flight[w].occurrence]
     IN  Settle(w, IF r.attempt >= MaxAttempts
                   THEN DeadLetter(r)
                   ELSE [WithoutExecutionState(r) EXCEPT !.status = "failed",
                           !.nextRetryAt = now + RetryDelay, !.updatedAt = now])

(* A late result is fenced off: complete() throws, the catch block's       *)
(* fail() throws too, and the flight ends without a write.                 *)
Fenced(w) ==
  /\ flight[w] # None
  /\ ~HoldsClaim(flight[w])
  /\ flight' = [flight EXCEPT ![w] = None]
  /\ UNCHANGED <<occurrences, enabled, now, active, lastClaim, dispatches, interrupts>>

(* A new runtime starts polling once the previous one is no longer active. *)
Start(w) ==
  /\ active = None
  /\ flight[w] = None
  /\ active' = w
  /\ UNCHANGED <<occurrences, enabled, now, flight, lastClaim, dispatches, interrupts>>

(* close(): the runtime stops polling at once; its flight runs on.         *)
Stop ==
  /\ active # None
  /\ interrupts < MaxInterrupts
  /\ active' = None
  /\ interrupts' = interrupts + 1
  /\ UNCHANGED <<occurrences, enabled, now, flight, lastClaim, dispatches>>

(* The process dies: schedulers and executions are lost, records stay.     *)
Crash ==
  /\ active # None \/ \E w \in Worker : flight[w] # None
  /\ interrupts < MaxInterrupts
  /\ active' = None
  /\ flight' = [w \in Worker |-> None]
  /\ interrupts' = interrupts + 1
  /\ UNCHANGED <<occurrences, enabled, now, lastClaim, dispatches>>

AheadOfClock(r) ==
  \/ r.status = "claimed" /\ r.expiresAt > now
  \/ r.status = "failed" /\ r.nextRetryAt > now
  \/ r.status = "pending" /\ (r.scheduledAt > now \/ r.updatedAt > now)

Tick ==
  /\ \E o \in Occurrence : AheadOfClock(occurrences[o])
  /\ now' = now + 1
  /\ UNCHANGED <<occurrences, enabled, active, flight, lastClaim, dispatches, interrupts>>

Timestamps == {x \in 0..(now + Skew) : x + Skew >= now}

Poll(w) == PollIdle(w) \/ PollRejected(w) \/ PollClaim(w)
Execute(w) == Dispatch(w) \/ Complete(w) \/ Fail(w) \/ Fenced(w)

Next ==
  \/ \E o \in Occurrence, t \in Trigger, k \in Key, s, r \in Timestamps : Enqueue(o, t, k, s, r)
  \/ \E t \in Trigger : SetEnabled(t)
  \/ \E w \in Worker : PollIdle(w)
  \/ \E w \in Worker : PollRejected(w)
  \/ \E w \in Worker : PollClaim(w)
  \/ \E w \in Worker : Dispatch(w)
  \/ \E w \in Worker : Complete(w)
  \/ \E w \in Worker : Fail(w)
  \/ \E w \in Worker : Fenced(w)
  \/ \E w \in Worker : Start(w)
  \/ Stop
  \/ Crash
  \/ Tick

Spec == Init /\ [][Next]_vars

(* The poll timer is re-armed after every poll, an execution that was      *)
(* started ends, time passes, and the application is started again.        *)
Fairness ==
  /\ \A w \in Worker : WF_vars(Poll(w)) /\ WF_vars(Execute(w))
  /\ WF_vars(\E w \in Worker : Start(w))
  /\ WF_vars(Tick)

FairSpec == Spec /\ Fairness

-----------------------------------------------------------------------------
TypeOK ==
  /\ occurrences \in [Occurrence -> OccurrenceState]
  /\ enabled \in [Trigger -> BOOLEAN]
  /\ now \in Nat
  /\ active \in Worker \cup {None}
  /\ flight \in [Worker -> Flight \cup {None}]
  /\ lastClaim \in Nat
  /\ dispatches \in [Occurrence -> [1..MaxAttempts -> Nat]]
  /\ interrupts \in Nat

(* No attempt of an occurrence is ever dispatched twice, whatever the      *)
(* overlap of runtimes, crashes and re-claims: an attempt is one claim,    *)
(* whose id is part of the policy request the dispatch is made under.      *)
AtMostOneDispatchPerAttempt ==
  \A o \in Occurrence : \A a \in 1..MaxAttempts : dispatches[o][a] <= 1

(* A completed occurrence was dispatched in its last attempt: a result of  *)
(* an earlier, superseded claim never completes it.                        *)
CompletedByItsLastAttempt ==
  \A o \in Occurrence :
    occurrences[o].status = "completed" =>
      /\ occurrences[o].attempt > 0
      /\ dispatches[o][occurrences[o].attempt] = 1

(* Nothing is given up early: a dead letter has used all its attempts.     *)
DeadLetterUsedEveryAttempt ==
  \A o \in Occurrence :
    occurrences[o].status = "dead-letter" => occurrences[o].attempt = MaxAttempts

(* Two executions of one occurrence never both hold a claim that a result  *)
(* could still be written under.                                           *)
OneClaimant ==
  \A v, w \in Worker :
    /\ v # w
    /\ flight[v] # None /\ flight[w] # None
    /\ flight[v].occurrence = flight[w].occurrence
    => ~(HoldsClaim(flight[v]) /\ HoldsClaim(flight[w]))

Settled(o) == occurrences[o].status \in {"completed", "dead-letter"}

(* Once settled, an occurrence is never written again: no late result, no  *)
(* re-claim, no second enqueue under its id or its key changes it.         *)
SettledIsFinal ==
  [][\A o \in Occurrence : Settled(o) => occurrences'[o] = occurrences[o]]_vars

(* claimNext serves the whole queue by schedule, then request order: no    *)
(* eligible occurrence is overtaken by a later one.                        *)
ClaimsInOrder ==
  [][\A o, p \in Occurrence :
       /\ occurrences'[o].attempt > occurrences[o].attempt
       /\ p # o
       /\ occurrences[p].status # "absent"
       /\ Eligible(occurrences[p])
       => ServedBefore(occurrences, o, p)]_vars

Suspended(o) ==
  occurrences[o].status # "absent" /\ ~enabled[occurrences[o].trigger]

(* Every enqueued occurrence that list() shows settles, unless its trigger *)
(* is disabled, in spite of crashes, overlapping runtimes, failures and    *)
(* expired leases.  What is never shown again is never served: settled     *)
(* records stay, and a page full of them hides all that was written later. *)
EventuallySettles ==
  \A o \in Occurrence :
    occurrences[o].status # "absent" ~>
      Settled(o) \/ Suspended(o) \/ [](o \notin List(occurrences))

-----------------------------------------------------------------------------
PhaseOf(r) ==
  CASE r.status = "absent" -> "absent"
    [] r.status = "completed" -> "fulfilled"
    [] r.status = "dead-letter" -> "abandoned"
    [] OTHER -> "open"

Contract == INSTANCE OccurrenceContract WITH
  phase <- [o \in Occurrence |-> PhaseOf(occurrences[o])],
  tries <- [o \in Occurrence |-> occurrences[o].attempt],
  delivered <- dispatches

(* The queue implements OccurrenceContract: pending, claimed and failed    *)
(* records are open, and attempts and dispatches count as they are stored. *)
KeepsContract == Contract!Spec
=============================================================================
