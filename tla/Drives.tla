------------------------------- MODULE Drives -------------------------------
(***************************************************************************)
(* Drives (PersistentDriveStore) and the loop that delivers them to their  *)
(* agents (DriveDeliveryScheduler).                                        *)
(*                                                                         *)
(* A drive has a status that users and tools change, and a delivery that   *)
(* the scheduler claims under a lease, performs by running the target      *)
(* agent, and settles - if the drive is still what was claimed.  Every     *)
(* write is one mutation of the event store, made under the revision the   *)
(* caller read: a command appears here where it is accepted.  Schedulers   *)
(* and deliveries are lost in a crash.  The lifecycle forgets its runtime  *)
(* before it has waited for it, so a replacement can poll while the old    *)
(* one still delivers: each `worker' is one runtime's scheduler.           *)
(*                                                                         *)
(* Revisions, progress texts and metadata are left out: nothing below      *)
(* depends on them.  The clock advances only while a stored time is ahead. *)
(***************************************************************************)
EXTENDS Naturals, FiniteSets

CONSTANTS
  Drive,          \* drive ids; numbers, ordered as localeCompare orders ids
  Targeted,       \* the drives created with a deliveryTarget
  Priority,       \* drive -> priority
  Agent,          \* assignees
  Detail,         \* owner and links, of which only equality matters
  Worker,         \* scheduler instances the process may create
  MaxAttempts,    \* maxAttempts of failDelivery (3 in the scheduler)
  Lease,          \* leaseMs
  RetryDelay,     \* retryDelayMs
  Punctual,       \* assumption: a delivery ends before its lease runs out
  Skew,           \* bound: how far a caller's timestamps lie from the clock
  MaxCommands,    \* bound: accepted commands
  MaxClaims,      \* bound: claims
  MaxInterrupts,  \* bound: stops and crashes of the runtime
  None

Statuses == {"draft", "active", "waiting", "paused", "completed", "failed", "cancelled"}

(* A drive resource.  token is 0 when the delivery has no lease; attempts  *)
(* is 0 when there is no delivery record.                                  *)
DriveState ==
  [status : Statuses \cup {"absent"}, assignee : Agent \cup {None}, detail : Detail \cup {None},
   createdAt : Nat, updatedAt : Nat, attempts : Nat, nextAttemptAt : Nat,
   token : Nat, expiresAt : Nat, acknowledged : BOOLEAN, deadLettered : BOOLEAN]

(* What deliverOne keeps over its await: the claim, and the parts of the   *)
(* claimed state its settlement compares.  A drive is claimed while it is  *)
(* active, and its delivery record changes only together with the lease.   *)
Flight == [drive : Drive, token : Nat \ {0}, attempt : Nat \ {0}, assignee : Agent,
           detail : Detail \cup {None}, succeeded : BOOLEAN]

Run == [attempt : Nat, assignee : Agent, detail : Detail \cup {None}]

ASSUME DriveAssumption == Drive \subseteq Nat /\ Targeted \subseteq Drive
ASSUME PriorityAssumption == Priority \in [Drive -> Nat]
ASSUME BoundsAssumption ==
  /\ MaxAttempts \in Nat \ {0}
  /\ Lease \in Nat \ {0}
  /\ RetryDelay \in Nat \ {0}
  /\ Punctual \in BOOLEAN
  /\ Skew \in Nat
  /\ MaxCommands \in Nat
  /\ MaxClaims \in Nat
  /\ MaxInterrupts \in Nat
ASSUME NoneAssumption == None \notin Worker \cup Agent \cup Detail /\ None \notin Flight

VARIABLES
  drives,      \* id -> resource
  now,         \* the clock
  active,      \* the scheduler that is polling, or None
  flight,      \* worker -> the delivery it awaits, or None
  lastToken,   \* claim tokens handed out so far (randomUUID)
  runs,        \* id -> the deliveries that succeeded
  commands,    \* commands accepted so far
  interrupts   \* stops and crashes so far

vars == <<drives, now, active, flight, lastToken, runs, commands, interrupts>>

-----------------------------------------------------------------------------
(* The store's pure parts.                                                 *)

Absent ==
  [status |-> "absent", assignee |-> None, detail |-> None, createdAt |-> 0,
   updatedAt |-> 0, attempts |-> 0, nextAttemptAt |-> 0, token |-> 0,
   expiresAt |-> 0, acknowledged |-> FALSE, deadLettered |-> FALSE]

(* The `transitions' table; a drive is created as a draft or active.       *)
Successors ==
  [s \in Statuses \cup {"absent"} |->
     CASE s = "absent"  -> {"draft", "active"}
       [] s = "draft"   -> {"active", "cancelled"}
       [] s = "active"  -> {"waiting", "paused", "completed", "failed", "cancelled"}
       [] s = "waiting" -> {"active", "paused", "failed", "cancelled"}
       [] s = "paused"  -> {"active", "cancelled"}
       [] s = "failed"  -> {"active", "cancelled"}
       [] OTHER         -> {}]

Closed(r) == r.status \in {"absent", "completed", "cancelled"}

Wanted(d) == drives[d].status = "active" /\ drives[d].assignee # None /\ d \in Targeted

(* Mutant of Claimable: a lease is never taken over.                       *)
ClaimableOnce(d) ==
  /\ Wanted(d)
  /\ ~drives[d].acknowledged /\ ~drives[d].deadLettered
  /\ drives[d].nextAttemptAt <= now
  /\ drives[d].token = 0

Claimable(d) ==
  /\ Wanted(d)
  /\ ~drives[d].acknowledged /\ ~drives[d].deadLettered
  /\ drives[d].nextAttemptAt <= now
  /\ (drives[d].token = 0 \/ drives[d].expiresAt <= now)

(* The order in which claimDelivery serves the candidates.                 *)
ServedBefore(c, d) ==
  \/ Priority[c] > Priority[d]
  \/ /\ Priority[c] = Priority[d]
     /\ \/ drives[c].createdAt < drives[d].createdAt
        \/ drives[c].createdAt = drives[d].createdAt /\ c < d

FirstClaimable ==
  {d \in Drive : Claimable(d) /\ \A c \in Drive \ {d} : Claimable(c) => ServedBefore(d, c)}

Claimed(r) ==
  [r EXCEPT !.attempts = r.attempts + 1,
     !.nextAttemptAt = IF r.attempts = 0 THEN now ELSE r.nextAttemptAt,
     !.token = lastToken + 1, !.expiresAt = now + Lease, !.updatedAt = now]

(* Mutant of Acknowledged: the lease is left in place.                     *)
AcknowledgedUnderLease(r) ==
  [r EXCEPT !.acknowledged = TRUE, !.updatedAt = now]

Acknowledged(r) ==
  [r EXCEPT !.token = 0, !.expiresAt = 0, !.acknowledged = TRUE, !.updatedAt = now]

(* Mutant of Failed: one attempt too early.                                *)
FailedEarly(r) ==
  [r EXCEPT !.token = 0, !.expiresAt = 0, !.nextAttemptAt = now + RetryDelay,
     !.deadLettered = r.attempts + 1 >= MaxAttempts, !.updatedAt = now]

Failed(r) ==
  [r EXCEPT !.token = 0, !.expiresAt = 0, !.nextAttemptAt = now + RetryDelay,
     !.deadLettered = r.attempts >= MaxAttempts, !.updatedAt = now]

Retried(r, at) ==
  [r EXCEPT !.token = 0, !.expiresAt = 0, !.nextAttemptAt = at,
     !.deadLettered = FALSE, !.acknowledged = FALSE, !.updatedAt = at]

-----------------------------------------------------------------------------
Init ==
  /\ drives = [d \in Drive |-> Absent]
  /\ now = 0
  /\ active = None
  /\ flight = [w \in Worker |-> None]
  /\ lastToken = 0
  /\ runs = [d \in Drive |-> {}]
  /\ commands = 0
  /\ interrupts = 0

(* Every command is stored with the time its caller gave it; the event     *)
(* store refuses one that lies before the last write.                      *)
Command(d, r, at) ==
  /\ commands < MaxCommands
  /\ drives[d].updatedAt <= at
  /\ drives' = [drives EXCEPT ![d] = r]
  /\ commands' = commands + 1
  /\ UNCHANGED <<now, active, flight, lastToken, runs, interrupts>>

Create(d, s, a, x, at) ==
  /\ drives[d].status = "absent"
  /\ s \in Successors["absent"]
  /\ Command(d, [Absent EXCEPT !.status = s, !.assignee = a, !.detail = x,
                   !.createdAt = at, !.updatedAt = at], at)

Transition(d, s, at) ==
  /\ drives[d].status # "absent"
  /\ s \in Successors[drives[d].status]
  /\ Command(d, [drives[d] EXCEPT !.status = s, !.updatedAt = at], at)

(* A transfer names a new assignee, a new owner, or both.                  *)
Transfer(d, a, x, at) ==
  /\ ~Closed(drives[d])
  /\ a # drives[d].assignee => a \in Agent
  /\ Command(d, [drives[d] EXCEPT !.assignee = a, !.detail = x, !.updatedAt = at], at)

SetLinks(d, x, at) ==
  /\ ~Closed(drives[d])
  /\ Command(d, [drives[d] EXCEPT !.detail = x, !.updatedAt = at], at)

ReportProgress(d, at) ==
  /\ ~Closed(drives[d])
  /\ Command(d, [drives[d] EXCEPT !.updatedAt = at], at)

RetryDelivery(d, at) ==
  /\ ~Closed(drives[d])
  /\ drives[d].attempts > 0
  /\ Command(d, Retried(drives[d], at), at)

(* deliverOne up to its await.  A poll with no candidate, and one whose    *)
(* first candidate was last written at a time ahead of the clock - the     *)
(* store rejects the claim and the poll ends - change nothing.             *)
Claim(w) ==
  /\ active = w /\ flight[w] = None
  /\ lastToken < MaxClaims
  /\ \E d \in FirstClaimable :
       /\ drives[d].updatedAt <= now
       /\ drives' = [drives EXCEPT ![d] = Claimed(@)]
       /\ flight' = [flight EXCEPT ![w] =
            [drive |-> d, token |-> lastToken + 1, attempt |-> drives[d].attempts + 1,
             assignee |-> drives[d].assignee, detail |-> drives[d].detail,
             succeeded |-> FALSE]]
  /\ lastToken' = lastToken + 1
  /\ UNCHANGED <<now, active, runs, commands, interrupts>>

RunOf(f) == [attempt |-> f.attempt, assignee |-> f.assignee, detail |-> f.detail]

(* The agent has been run; deliver() resolves.                             *)
Deliver(w) ==
  /\ flight[w] # None
  /\ ~flight[w].succeeded
  /\ flight' = [flight EXCEPT ![w].succeeded = TRUE]
  /\ runs' = [runs EXCEPT ![flight[w].drive] = @ \cup {RunOf(flight[w])}]
  /\ UNCHANGED <<drives, now, active, lastToken, commands, interrupts>>

(* Mutants of Settles: only the lease is compared; only the state is.      *)
SettlesByLease(f) ==
  LET r == drives[f.drive]
  IN  r.token = f.token /\ now <= r.expiresAt /\ r.updatedAt <= now

SettlesByState(f) ==
  LET r == drives[f.drive]
  IN  /\ r.status = "active" /\ r.assignee = f.assignee /\ r.detail = f.detail
      /\ r.token # 0 /\ now <= r.expiresAt /\ r.updatedAt <= now

(* settlementRevision and the checks of finishDelivery and of the store:   *)
(* what the result of a delivery has to pass.                              *)
Settles(f) ==
  LET r == drives[f.drive]
  IN  /\ r.token = f.token /\ now <= r.expiresAt
      /\ r.status = "active" /\ r.assignee = f.assignee /\ r.detail = f.detail
      /\ r.updatedAt <= now

Land(w) ==
  /\ flight' = [flight EXCEPT ![w] = None]
  /\ UNCHANGED <<now, active, lastToken, runs, commands, interrupts>>

Acknowledge(w) ==
  /\ flight[w] # None
  /\ flight[w].succeeded
  /\ Settles(flight[w])
  /\ drives' = [drives EXCEPT ![flight[w].drive] = Acknowledged(@)]
  /\ Land(w)

(* deliver() rejected.                                                     *)
Fail(w) ==
  /\ flight[w] # None
  /\ ~flight[w].succeeded
  /\ Settles(flight[w])
  /\ drives' = [drives EXCEPT ![flight[w].drive] = Failed(@)]
  /\ Land(w)

(* The settlement throws: the flight ends and nothing is written.          *)
Unsettled(w) ==
  /\ flight[w] # None
  /\ ~Settles(flight[w])
  /\ UNCHANGED drives
  /\ Land(w)

Start(w) ==
  /\ active = None
  /\ flight[w] = None
  /\ active' = w
  /\ UNCHANGED <<drives, now, flight, lastToken, runs, commands, interrupts>>

(* stop(): no further poll; a delivery under way runs on.                  *)
Stop ==
  /\ active # None
  /\ interrupts < MaxInterrupts
  /\ active' = None
  /\ interrupts' = interrupts + 1
  /\ UNCHANGED <<drives, now, flight, lastToken, runs, commands>>

(* The process dies: schedulers and deliveries are lost, records stay.     *)
Crash ==
  /\ active # None \/ \E w \in Worker : flight[w] # None
  /\ interrupts < MaxInterrupts
  /\ active' = None
  /\ flight' = [w \in Worker |-> None]
  /\ interrupts' = interrupts + 1
  /\ UNCHANGED <<drives, now, lastToken, runs, commands>>

AheadOfClock(r) ==
  r.updatedAt > now \/ r.nextAttemptAt > now \/ (r.token # 0 /\ r.expiresAt >= now)

HoldsLease(f) == drives[f.drive].token = f.token

Tick ==
  /\ \E d \in Drive : AheadOfClock(drives[d])
  /\ Punctual => \A w \in Worker :
       flight[w] # None /\ HoldsLease(flight[w]) => now + 1 < drives[flight[w].drive].expiresAt
  /\ now' = now + 1
  /\ UNCHANGED <<drives, active, flight, lastToken, runs, commands, interrupts>>

Timestamps == {x \in 0..(now + Skew) : x + Skew >= now}

End(w) == Deliver(w) \/ Acknowledge(w) \/ Fail(w) \/ Unsettled(w)

Next ==
  \/ \E d \in Drive, s \in Statuses, a \in Agent \cup {None}, x \in Detail, at \in Timestamps :
       Create(d, s, a, x, at)
  \/ \E d \in Drive, s \in Statuses, at \in Timestamps : Transition(d, s, at)
  \/ \E d \in Drive, a \in Agent \cup {None}, x \in Detail, at \in Timestamps :
       Transfer(d, a, x, at)
  \/ \E d \in Drive, x \in Detail, at \in Timestamps : SetLinks(d, x, at)
  \/ \E d \in Drive, at \in Timestamps : ReportProgress(d, at)
  \/ \E d \in Drive, at \in Timestamps : RetryDelivery(d, at)
  \/ \E w \in Worker : Claim(w)
  \/ \E w \in Worker : Deliver(w)
  \/ \E w \in Worker : Acknowledge(w)
  \/ \E w \in Worker : Fail(w)
  \/ \E w \in Worker : Unsettled(w)
  \/ \E w \in Worker : Start(w)
  \/ Stop
  \/ Crash
  \/ Tick

Spec == Init /\ [][Next]_vars

(* The poll timer is re-armed after every poll, also one that threw; a     *)
(* delivery ends; time passes; the application is started again.           *)
Fairness ==
  /\ \A w \in Worker : WF_vars(Claim(w)) /\ WF_vars(End(w))
  /\ WF_vars(\E w \in Worker : Start(w))
  /\ WF_vars(Tick)

FairSpec == Spec /\ Fairness

-----------------------------------------------------------------------------
(* A delivery record is settled one way at most and then has no lease, and *)
(* has neither lease nor settlement without an attempt.                    *)
WellFormed(r) ==
  /\ ~(r.acknowledged /\ r.deadLettered)
  /\ (r.acknowledged \/ r.deadLettered) => r.token = 0
  /\ r.attempts = 0 => (r.token = 0 /\ ~r.acknowledged /\ ~r.deadLettered)

(* Every variable has its type, and every delivery record is well formed.  *)
TypeOK ==
  /\ drives \in [Drive -> DriveState]
  /\ \A d \in Drive : WellFormed(drives[d])
  /\ now \in Nat
  /\ active \in Worker \cup {None}
  /\ flight \in [Worker -> Flight \cup {None}]
  /\ lastToken \in Nat
  /\ runs \in [Drive -> SUBSET Run]
  /\ commands \in Nat
  /\ interrupts \in Nat

(* Of several deliveries of one drive under way at once - a replaced       *)
(* runtime, a lease that ran out, a retry ordered meanwhile - at most one  *)
(* can still settle it.                                                    *)
OneSettler ==
  \A v, w \in Worker :
    /\ v # w
    /\ flight[v] # None /\ flight[w] # None
    /\ flight[v].drive = flight[w].drive
    => ~(Settles(flight[v]) /\ Settles(flight[w]))

(* What is acknowledged was delivered as it stands: the latest attempt     *)
(* succeeded, for the assignee, owner and links the drive has when it is   *)
(* acknowledged.                                                           *)
AcknowledgesWhatWasDelivered ==
  [][\A d \in Drive :
       ~drives[d].acknowledged /\ drives'[d].acknowledged =>
         [attempt |-> drives[d].attempts, assignee |-> drives[d].assignee,
          detail |-> drives[d].detail] \in runs[d]]_vars

Settled(d) == drives[d].acknowledged \/ drives[d].deadLettered

(* Every drive that asks to be delivered is acknowledged or dead-lettered, *)
(* or stops asking, in spite of crashes, replaced runtimes and commands    *)
(* that make a settlement fail - when deliveries end within their leases.  *)
EventuallySettles ==
  \A d \in Drive : Wanted(d) ~> Settled(d) \/ ~Wanted(d)

-----------------------------------------------------------------------------
PhaseOf(r) ==
  CASE r.acknowledged -> "acknowledged"
    [] r.deadLettered -> "dead"
    [] r.attempts = 0 -> "none"
    [] OTHER -> "open"

Course == INSTANCE DriveCourse WITH
  status <- [d \in Drive |-> drives[d].status],
  phase <- [d \in Drive |-> PhaseOf(drives[d])],
  tries <- [d \in Drive |-> drives[d].attempts],
  succeeded <- [d \in Drive |-> {x.attempt : x \in runs[d]}]

(* The store and the scheduler keep every drive on the course DriveCourse  *)
(* allows it.                                                              *)
KeepsCourse == Course!Spec
=============================================================================
