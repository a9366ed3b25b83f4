-------------------------- MODULE TriggerExecution --------------------------
(***************************************************************************)
(* How a trigger's target is dispatched: TriggerPolicyExecutionBoundary    *)
(* obtains and consumes an authorization from the service of Approvals,    *)
(* TriggerExecutionOutcomeStore records the consumption and the result,    *)
(* and ProductionTriggerExecutor puts the two around the dispatch.         *)
(*                                                                         *)
(* The authorization id and all idempotency keys of an execution derive    *)
(* from the digest of its request, so executions of one request, repeated  *)
(* by a retry, after a crash or by a second runtime that overlaps with a   *)
(* closing one, meet in the same durable records.                          *)
(*                                                                         *)
(* From the authorization to the outcome record there is no await: while a *)
(* flight is "permitted" or "consumed" nothing else runs, but the process  *)
(* can die.                                                                *)
(***************************************************************************)
EXTENDS Approvals

CONSTANTS
  Worker,        \* concurrent execute() calls
  RequestOf,     \* authorization -> the request its id is the digest of
  FirstKey,      \* trigger-authorize:... and trigger-consume:...
  GrantKey       \* trigger-authorize:...:grant

Phases == {"asking", "permitted", "consumed", "recorded", "dispatched"}
Flight == [of : Authorization, phase : Phases]

ASSUME BoundaryAssumption ==
  /\ Waiting = {}
  /\ RequestOf \in [Authorization -> Request]
  /\ FirstKey \in Key /\ GrantKey \in Key \ {FirstKey}
  /\ None \notin Flight

Outcomes == {"none", "permit-consumed", "succeeded", "failed"}
Answers ==
  {"none", "executed", "failed", "denied", "awaiting-approval", "already-consumed", "error"}

VARIABLES
  flight,      \* worker -> the execution it is in, or None
  outcomes,    \* authorization -> status of its trigger-execution resource
  dispatches,  \* authorization -> dispatches of its target
  answer       \* authorization -> what the last execute() returned or threw

execVars == <<flight, outcomes, dispatches, answer>>
allVars == <<vars, execVars>>

-----------------------------------------------------------------------------
ExecInit ==
  /\ Init
  /\ flight = [w \in Worker |-> None]
  /\ outcomes = [a \in Authorization |-> "none"]
  /\ dispatches = [a \in Authorization |-> 0]
  /\ answer = [a \in Authorization |-> "none"]

InPhase(w, p) == flight[w] # None /\ flight[w].phase = p

(* No execution is between its authorization and its outcome record.       *)
Free == \A w \in Worker : ~InPhase(w, "permitted") /\ ~InPhase(w, "consumed")

First == [key |-> FirstKey, grant |-> None, use |-> 0]
With(g, n) == [key |-> GrantKey, grant |-> g, use |-> n]

Fly(w, a, p) ==
  /\ flight' = [flight EXCEPT ![w] = [of |-> a, phase |-> p]]
  /\ UNCHANGED <<outcomes, dispatches, answer>>

Reply(w, a, s) ==
  /\ flight' = [flight EXCEPT ![w] = None]
  /\ answer' = [answer EXCEPT ![a] = s]

Answer(w, a, s) == Reply(w, a, s) /\ UNCHANGED <<outcomes, dispatches>>

(* Mutant of Settled: the status on record is passed on as the reply.      *)
SettledVerbatim(a, cmd) ==
  IF SameCommand(a, cmd) THEN audits[a].status ELSE "error"

(* The replies of replayAuthorizationCommand that hand out no permit.      *)
Settled(a, cmd) ==
  CASE SameCommand(a, cmd) /\ audits[a].status = "consumed" -> "already-consumed"
    [] SameCommand(a, cmd) /\ audits[a].status = "denied" -> "denied"
    [] OTHER -> "error"

Begin(w, a) == Free /\ flight[w] = None

(* execute(): the first authorize() is answered with a permit.             *)
BeginPermitted(w, a) ==
  /\ Begin(w, a)
  /\ \/ AuthorizeDirectly(a, RequestOf[a], First, FirstKey)
     \/ AuthorizeAgain(a, RequestOf[a], First, FirstKey)
  /\ Fly(w, a, "permitted")

(* It awaits approval, anew or still: the grant provider is asked.         *)
BeginAsking(w, a) ==
  /\ Begin(w, a)
  /\ \/ AwaitApproval(a, RequestOf[a], First)
     \/ audits[a].status = "awaiting-approval" /\ UNCHANGED vars
  /\ Fly(w, a, "asking")

BeginDenied(w, a) ==
  /\ Begin(w, a)
  /\ AuthorizeDenied(a, RequestOf[a], First)
  /\ Answer(w, a, "denied")

(* The authorization is settled, or can no longer be replayed: it expired, *)
(* the policy changed, or a grant was consumed under the other key.        *)
BeginSettled(w, a) ==
  /\ Begin(w, a)
  /\ audits[a].status \in {"denied", "authorized", "consumed"}
  /\ ~(SameCommand(a, First) /\ Replayable(a, RequestOf[a]))
  /\ Answer(w, a, Settled(a, First))
  /\ UNCHANGED vars

Asking(w) == Free /\ InPhase(w, "asking")

NoGrantYet(w) ==
  /\ Asking(w)
  /\ Answer(w, flight[w].of, "awaiting-approval")
  /\ UNCHANGED vars

(* The provider returned a grant: the second authorize().                  *)
GrantPermitted(w, g, n) ==
  /\ Asking(w)
  /\ LET a == flight[w].of
     IN  /\ \/ AuthorizeWithGrant(a, RequestOf[a], With(g, n), FirstKey)
            \/ AuthorizeAgain(a, RequestOf[a], With(g, n), FirstKey)
         /\ Fly(w, a, "permitted")

(* The attempt is recorded under the one key for grants: a second attempt  *)
(* is the same record only if it was made at the same instant.             *)
GrantRefused(w, g, n) ==
  /\ Asking(w)
  /\ LET a == flight[w].of
     IN  /\ RefuseGrant(a, RequestOf[a], With(g, n))
         /\ \/ Answer(w, a, "denied")
            \/ <<a, GrantKey>> \in attempts /\ Answer(w, a, "error")

(* Another execution has used a grant for this authorization meanwhile, or *)
(* the request no longer requires approval.                                *)
GrantSettled(w, g, n) ==
  /\ Asking(w)
  /\ LET a == flight[w].of
     IN  /\ \/ audits[a].status \in {"authorized", "consumed"}
            \/ policy[RequestOf[a]] # "require-approval"
         /\ ~(SameCommand(a, With(g, n)) /\ Replayable(a, RequestOf[a]))
         /\ Answer(w, a, Settled(a, With(g, n)))
  /\ UNCHANGED vars

Consume(w) ==
  /\ InPhase(w, "permitted")
  /\ \/ ConsumePermit(flight[w].of, FirstKey)
     \/ ConsumeAgain(flight[w].of, FirstKey)
  /\ Fly(w, flight[w].of, "consumed")

ConsumeFails(w) ==
  /\ InPhase(w, "permitted")
  /\ Abandon(flight[w].of, FirstKey)
  /\ Answer(w, flight[w].of, "error")

(* onPermitConsumed: recordPermitConsumed() creates the outcome record, or *)
(* returns the one that is there.                                          *)
Record(w) ==
  /\ InPhase(w, "consumed")
  /\ LET a == flight[w].of
     IN  outcomes' = [outcomes EXCEPT ![a] = IF @ = "none" THEN "permit-consumed" ELSE @]
  /\ flight' = [flight EXCEPT ![w].phase = "recorded"]
  /\ UNCHANGED <<vars, dispatches, answer>>

(* TriggerPolicyPostConsumptionError: nothing is dispatched.               *)
RecordFails(w) ==
  /\ InPhase(w, "consumed")
  /\ Answer(w, flight[w].of, "error")
  /\ UNCHANGED vars

(* Mutant of Dispatch: the target is called before the outcome record.     *)
DispatchUnrecorded(w) ==
  /\ InPhase(w, "recorded") \/ InPhase(w, "consumed")
  /\ flight' = [flight EXCEPT ![w].phase = "dispatched"]
  /\ dispatches' = [dispatches EXCEPT ![flight[w].of] = @ + 1]
  /\ UNCHANGED <<vars, outcomes, answer>>

Dispatch(w) ==
  /\ Free
  /\ InPhase(w, "recorded")
  /\ flight' = [flight EXCEPT ![w].phase = "dispatched"]
  /\ dispatches' = [dispatches EXCEPT ![flight[w].of] = @ + 1]
  /\ UNCHANGED <<vars, outcomes, answer>>

(* Mutant of Complete: the record is settled before the target is called.  *)
CompleteEarly(w, status) ==
  /\ Free
  /\ InPhase(w, "recorded") \/ InPhase(w, "dispatched")
  /\ LET a == flight[w].of
     IN  /\ outcomes' = [outcomes EXCEPT ![a] = status]
         /\ Reply(w, a, IF status = "succeeded" THEN "executed" ELSE "failed")
  /\ UNCHANGED <<vars, dispatches>>

(* complete(): the target returned (succeeded) or threw (failed).          *)
Complete(w, status) ==
  /\ Free
  /\ InPhase(w, "dispatched")
  /\ LET a == flight[w].of
     IN  /\ outcomes[a] = "permit-consumed"
         /\ outcomes' = [outcomes EXCEPT ![a] = status]
         /\ Reply(w, a, IF status = "succeeded" THEN "executed" ELSE "failed")
  /\ UNCHANGED <<vars, dispatches>>

(* TriggerOutcomePersistenceError: the result could not be recorded.       *)
CompleteFails(w) ==
  /\ Free
  /\ InPhase(w, "dispatched")
  /\ Answer(w, flight[w].of, "error")
  /\ UNCHANGED vars

(* What goes on around the executions: approvals, time, and restarts.      *)
Approve(g, r, n, x) ==
  Free /\ CreateApprovalGrant(g, r, n, x) /\ UNCHANGED execVars

ExecTick == Tick /\ UNCHANGED execVars

ExecRestart(rules) ==
  /\ Restart(rules)
  /\ flight' = [w \in Worker |-> None]
  /\ UNCHANGED <<outcomes, dispatches, answer>>

ExecNext ==
  \/ \E w \in Worker, a \in Authorization : BeginPermitted(w, a)
  \/ \E w \in Worker, a \in Authorization : BeginAsking(w, a)
  \/ \E w \in Worker, a \in Authorization : BeginDenied(w, a)
  \/ \E w \in Worker, a \in Authorization : BeginSettled(w, a)
  \/ \E w \in Worker : NoGrantYet(w)
  \/ \E w \in Worker, g \in Grant, n \in 0..UseLimit : GrantPermitted(w, g, n)
  \/ \E w \in Worker, g \in Grant, n \in 0..UseLimit : GrantRefused(w, g, n)
  \/ \E w \in Worker, g \in Grant, n \in 0..UseLimit : GrantSettled(w, g, n)
  \/ \E w \in Worker : Consume(w)
  \/ \E w \in Worker : ConsumeFails(w)
  \/ \E w \in Worker : Record(w)
  \/ \E w \in Worker : RecordFails(w)
  \/ \E w \in Worker : Dispatch(w)
  \/ \E w \in Worker, s \in {"succeeded", "failed"} : Complete(w, s)
  \/ \E w \in Worker : CompleteFails(w)
  \/ \E g \in Grant, r \in Request, n \in 1..UseLimit, x \in 1..(now + GrantLifetime) :
       Approve(g, r, n, x)
  \/ ExecTick
  \/ \E rules \in [Request -> Effects] : ExecRestart(rules)

ExecSpec == ExecInit /\ [][ExecNext]_allVars

-----------------------------------------------------------------------------
ExecTypeOK ==
  /\ TypeOK
  /\ flight \in [Worker -> Flight \cup {None}]
  /\ outcomes \in [Authorization -> Outcomes]
  /\ dispatches \in [Authorization -> Nat]
  /\ answer \in [Authorization -> Answers]

(* One request dispatches its target at most once, whatever retries,       *)
(* crashes, policy changes and overlapping runtimes execute it again.      *)
DispatchedAtMostOnce == \A a \in Authorization : dispatches[a] <= 1

(* The outcome records tell the truth: what was dispatched has been        *)
(* authorized, consumed and recorded beforehand, so that a crash leaves an *)
(* uncertain outcome and never a silent one; what is recorded as settled,  *)
(* or answered as executed, was dispatched.                                *)
OutcomesTellTheTruth ==
  \A a \in Authorization :
    /\ dispatches[a] > 0 => outcomes[a] # "none" /\ audits[a].status = "consumed"
    /\ outcomes[a] # "none" => consumed[a] = 1
    /\ outcomes[a] \in {"succeeded", "failed"} => dispatches[a] = 1
    /\ answer[a] = "executed" => outcomes[a] = "succeeded"

(* For every request the boundary implements ExecutionContract.            *)
Contract(a) == INSTANCE ExecutionContract WITH
  spent <- audits[a].status = "consumed",
  outcome <- outcomes[a],
  delivered <- dispatches[a]

KeepsContract ==
  /\ \A a \in Authorization : Contract(a)!Init
  /\ [][\A a \in Authorization : [Contract(a)!Next]_(Contract(a)!contractVars)]_allVars

(* An execution that is told its permit was consumed before leaves a       *)
(* consumption record behind, whatever became of the first execution.      *)
ReplayRecoversRecord ==
  \A a \in Authorization : answer[a] = "already-consumed" => outcomes[a] # "none"
=============================================================================
