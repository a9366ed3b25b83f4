----------------------------- MODULE Approvals -----------------------------
(***************************************************************************)
(* The main-process authorization service                                  *)
(* (MagicAgentPolicyAuthorizationService): policy decisions, approval      *)
(* grants and their atomic consumption, the durable authorization audits,  *)
(* and the branded permits a caller has to consume before its effect.      *)
(*                                                                         *)
(* Grants and audits are durable; the rules and the brands (the private    *)
(* WeakSet of permits) belong to one process.  Most callers authorize and  *)
(* consume within one JavaScript turn, so nobody else runs between the two *)
(* calls, though the process may die there; the callers of the             *)
(* authorizations in Waiting (the file, Git and notebook hosts) prepare    *)
(* their effect in between, and other calls interleave.                    *)
(*                                                                         *)
(* A permit copies the decision, the times and the constraints of its      *)
(* audit, and an authorized audit changes only by being consumed: a permit *)
(* is modelled by the authorization and the consume key of its holder.     *)
(* One policy version and one approval requirement are in force.           *)
(***************************************************************************)
EXTENDS Naturals

CONSTANTS
  Authorization,   \* authorization ids (audit resources)
  Waiting,         \* those whose caller awaits between authorize and consume
  Request,         \* request digests
  Grant,           \* grant ids
  Key,             \* idempotency keys of the calls for one authorization
  PermitLifetime,  \* PERMIT_LIFETIME_MS
  GrantLifetime,   \* approvalRequirement.expiresInMs
  UseLimit,        \* approvalRequirement.maxUses
  MaxTime,         \* bound on the clock
  MaxHeld,         \* bound on the permits held at once for an authorization
  MaxRestarts,     \* bound on restarts
  None

ASSUME CallersAssumption == Waiting \subseteq Authorization
ASSUME LimitsAssumption ==
  /\ PermitLifetime \in Nat \ {0}
  /\ GrantLifetime \in Nat \ {0}
  /\ UseLimit \in Nat \ {0}
  /\ MaxTime \in Nat /\ MaxHeld \in Nat /\ MaxRestarts \in Nat
ASSUME AbsenceAssumption == None \notin Grant \cup Key \cup Request \cup Authorization

Effects == {"allow", "deny", "require-approval"}

(* An authorization command: the parts of authorizationCommandDigest that  *)
(* differ between the calls for one authorization and request.             *)
Command ==
  [key : Key, grant : {None}, use : {0}] \cup [key : Key, grant : Grant, use : 0..UseLimit]
NoCommand == [key |-> None, grant |-> None, use |-> 0]

GrantState ==
  [status : {"absent", "active", "exhausted"}, request : Request \cup {None},
   issuedAt : Nat, expiresAt : Nat, maxUses : 0..UseLimit, useCount : 0..UseLimit]

(* receipt: grantId and previousUseCount, None and 0 without a receipt.    *)
AuditState ==
  [status : {"absent", "awaiting-approval", "denied", "authorized", "consumed"},
   request : Request \cup {None}, effect : Effects \cup {None},
   issuedAt : Nat, expiresAt : Nat, consumedAt : Nat,
   grant : Grant \cup {None}, use : 0..UseLimit,
   command : Command \cup {NoCommand}, consumeKey : Key \cup {None}]

VARIABLES
  policy,     \* request -> the effect the rules of this process give it
  grants,     \* grant id -> approval resource
  audits,     \* authorization id -> policy-audit resource
  attempts,   \* <<authorization, key>> of the denied attempts on record
  held,       \* authorization -> consume key -> branded permits held
  turn,       \* the authorization whose caller's turn is under way, or None
  consumed,   \* authorization -> successful consumeExecutionPermit calls
  now,        \* the clock
  restarts    \* restarts so far

vars == <<policy, grants, audits, attempts, held, turn, consumed, now, restarts>>

-----------------------------------------------------------------------------
NoGrant ==
  [status |-> "absent", request |-> None, issuedAt |-> 0, expiresAt |-> 0,
   maxUses |-> 0, useCount |-> 0]

NoAudit ==
  [status |-> "absent", request |-> None, effect |-> None, issuedAt |-> 0,
   expiresAt |-> 0, consumedAt |-> 0, grant |-> None, use |-> 0,
   command |-> NoCommand, consumeKey |-> None]

NoPermits == [a \in Authorization |-> [k \in Key |-> 0]]

Earlier(x, y) == IF x <= y THEN x ELSE y

(* The audit authorize() writes for a request under the current policy.    *)
Audit(status, r, cmd, expiresAt) ==
  [NoAudit EXCEPT !.status = status, !.request = r, !.effect = policy[r],
     !.issuedAt = now, !.expiresAt = expiresAt, !.command = cmd]

(* The one consumeGrantForAuthorization writes, with its receipt.          *)
GrantedAudit(r, cmd, g, use, grantExpiresAt) ==
  [Audit("authorized", r, cmd, Earlier(grantExpiresAt, now + PermitLifetime))
     EXCEPT !.grant = g, !.use = use]

(* What consumeExecutionPermit makes of an audit.                          *)
Consumed(audit, k) ==
  [audit EXCEPT !.status = "consumed", !.consumedAt = now, !.consumeKey = k]

(* baseAuthorizationCommandDigest: the command without its grant.          *)
BaseCommand(cmd) == [NoCommand EXCEPT !.key = cmd.key]

NewGrant(r, maxUses, expiresAt) ==
  [NoGrant EXCEPT !.status = "active", !.request = r, !.issuedAt = now,
     !.expiresAt = expiresAt, !.maxUses = maxUses]

(* Mutant of Usable: a grant for another request will do.                  *)
UsableForAnyRequest(g, use, r) ==
  /\ grants[g].status = "active"
  /\ grants[g].useCount = use
  /\ grants[g].issuedAt <= now /\ now < grants[g].expiresAt
  /\ grants[g].useCount < grants[g].maxUses

(* What consumeGrantForAuthorization asks of the grant.                    *)
Usable(g, use, r) ==
  /\ grants[g].status = "active"
  /\ grants[g].useCount = use
  /\ grants[g].issuedAt <= now /\ now < grants[g].expiresAt
  /\ grants[g].useCount < grants[g].maxUses
  /\ grants[g].request = r

(* Mutant of Used: the last use is not counted.                            *)
UsedUpUncounted(g) ==
  IF g.useCount + 1 = g.maxUses
  THEN [g EXCEPT !.status = "exhausted"]
  ELSE [g EXCEPT !.useCount = @ + 1]

(* The grant after one more use.                                           *)
Used(g) ==
  [g EXCEPT !.useCount = @ + 1,
            !.status = IF g.useCount + 1 = g.maxUses THEN "exhausted" ELSE "active"]

(* authorizedResult: another branded permit for the caller with key k.     *)
HandOut(a, k) ==
  /\ held[a][k] < MaxHeld
  /\ held' = [held EXCEPT ![a][k] = @ + 1]
  /\ turn' = IF a \in Waiting THEN None ELSE a

-----------------------------------------------------------------------------
Init ==
  /\ policy \in [Request -> Effects]
  /\ grants = [g \in Grant |-> NoGrant]
  /\ audits = [a \in Authorization |-> NoAudit]
  /\ attempts = {}
  /\ held = NoPermits
  /\ turn = None
  /\ consumed = [a \in Authorization |-> 0]
  /\ now = 0
  /\ restarts = 0

(* A trusted approver's grant, within the approval requirement.            *)
CreateApprovalGrant(g, r, maxUses, expiresAt) ==
  /\ turn = None
  /\ grants[g].status = "absent"
  /\ policy[r] = "require-approval"
  /\ now < expiresAt /\ expiresAt <= now + GrantLifetime
  /\ grants' = [grants EXCEPT ![g] = NewGrant(r, maxUses, expiresAt)]
  /\ UNCHANGED <<policy, audits, attempts, held, turn, consumed, now, restarts>>

(* authorize() under an allow decision; a grant id is ignored.             *)
AuthorizeDirectly(a, r, cmd, k) ==
  /\ turn = None
  /\ audits[a].status = "absent"
  /\ policy[r] = "allow"
  /\ audits' = [audits EXCEPT ![a] = Audit("authorized", r, cmd, now + PermitLifetime)]
  /\ HandOut(a, k)
  /\ UNCHANGED <<policy, grants, attempts, consumed, now, restarts>>

AuthorizeDenied(a, r, cmd) ==
  /\ turn = None
  /\ audits[a].status = "absent"
  /\ policy[r] = "deny"
  /\ audits' = [audits EXCEPT ![a] = Audit("denied", r, cmd, now)]
  /\ UNCHANGED <<policy, grants, attempts, held, turn, consumed, now, restarts>>

AwaitApproval(a, r, cmd) ==
  /\ turn = None
  /\ audits[a].status = "absent"
  /\ policy[r] = "require-approval"
  /\ cmd.grant = None
  /\ audits' = [audits EXCEPT ![a] = Audit("awaiting-approval", r, cmd, now)]
  /\ UNCHANGED <<policy, grants, attempts, held, turn, consumed, now, restarts>>

(* Mutant of Presents: a settled authorization can be approved again.      *)
PresentsAgain(a, r, cmd) ==
  /\ turn = None
  /\ policy[r] = "require-approval"
  /\ cmd.grant # None
  /\ audits[a].status = "absent" \/ audits[a].request = r

(* A grant is presented for a new authorization, or for one that awaits    *)
(* approval of the same request.                                           *)
Presents(a, r, cmd) ==
  /\ turn = None
  /\ policy[r] = "require-approval"
  /\ cmd.grant # None
  /\ \/ audits[a].status = "absent"
     \/ audits[a].status = "awaiting-approval" /\ audits[a].request = r

(* consumeGrantForAuthorization: one batch counts the use of the grant and *)
(* writes the audit with its receipt.                                      *)
AuthorizeWithGrant(a, r, cmd, k) ==
  /\ Presents(a, r, cmd)
  /\ Usable(cmd.grant, cmd.use, r)
  /\ grants' = [grants EXCEPT ![cmd.grant] = Used(@)]
  /\ audits' = [audits EXCEPT ![a] =
       GrantedAudit(r, cmd, cmd.grant, grants[cmd.grant].useCount, grants[cmd.grant].expiresAt)]
  /\ HandOut(a, k)
  /\ UNCHANGED <<policy, attempts, consumed, now, restarts>>

(* An unusable grant: the attempt is recorded as denied, and a new         *)
(* authorization is left awaiting approval under its base command.         *)
RefuseGrant(a, r, cmd) ==
  /\ Presents(a, r, cmd)
  /\ ~Usable(cmd.grant, cmd.use, r)
  /\ attempts' = attempts \cup {<<a, cmd.key>>}
  /\ audits' = IF audits[a].status = "absent"
               THEN [audits EXCEPT ![a] =
                       Audit("awaiting-approval", r, BaseCommand(cmd), now)]
               ELSE audits
  /\ UNCHANGED <<policy, grants, held, turn, consumed, now, restarts>>

(* replayAuthorizationCommand: the command is the one on record, or        *)
(* presents the grant use by which it was authorized.                      *)
SameCommand(a, cmd) ==
  \/ audits[a].command = cmd
  \/ /\ audits[a].status = "authorized"
     /\ audits[a].grant # None /\ audits[a].grant = cmd.grant
     /\ audits[a].use = cmd.use

(* Mutants of Replayable: a consumed authorization is replayed, too; the   *)
(* current policy is not asked.                                            *)
ReplayableWhenConsumed(a, r) ==
  /\ audits[a].status \in {"authorized", "consumed"}
  /\ audits[a].request = r
  /\ audits[a].effect = policy[r]
  /\ now <= audits[a].expiresAt

ReplayableUnderOldPolicy(a, r) ==
  /\ audits[a].status = "authorized"
  /\ audits[a].request = r
  /\ now <= audits[a].expiresAt

(* replay: the authorization is still executable for this request and the  *)
(* current policy still decides as it did.                                 *)
Replayable(a, r) ==
  /\ audits[a].status = "authorized"
  /\ audits[a].request = r
  /\ audits[a].effect = policy[r]
  /\ now <= audits[a].expiresAt

AuthorizeAgain(a, r, cmd, k) ==
  /\ turn = None
  /\ SameCommand(a, cmd)
  /\ Replayable(a, r)
  /\ HandOut(a, k)
  /\ UNCHANGED <<policy, grants, audits, attempts, consumed, now, restarts>>

ResumeAuthorization(a, r, k) ==
  /\ turn = None
  /\ Replayable(a, r)
  /\ HandOut(a, k)
  /\ UNCHANGED <<policy, grants, audits, attempts, consumed, now, restarts>>

(* Mutant of Holds: the brand of the permit is not checked.                *)
HoldsAnything(a, k) == turn = IF a \in Waiting THEN None ELSE a

(* The caller with key k is about to use a permit it holds: within its own *)
(* turn, or in a turn of its own after the awaited preparation.            *)
Holds(a, k) ==
  /\ held[a][k] > 0
  /\ turn = IF a \in Waiting THEN None ELSE a

GiveUp(a, k) ==
  /\ held' = [held EXCEPT ![a][k] = @ - 1]
  /\ turn' = None

(* consumeExecutionPermit: one durable transition of the audit.            *)
ConsumePermit(a, k) ==
  /\ Holds(a, k)
  /\ audits[a].status = "authorized"
  /\ audits[a].issuedAt <= now /\ now <= audits[a].expiresAt
  /\ audits[a].effect = policy[audits[a].request]
  /\ audits' = [audits EXCEPT ![a] = Consumed(@, k)]
  /\ GiveUp(a, k)
  /\ consumed' = [consumed EXCEPT ![a] = @ + 1]
  /\ UNCHANGED <<policy, grants, attempts, now, restarts>>

(* The audit is consumed already, under the same key: the stored result is *)
(* returned and nothing is written.                                        *)
ConsumeAgain(a, k) ==
  /\ Holds(a, k)
  /\ audits[a].status = "consumed"
  /\ audits[a].consumeKey = k
  /\ GiveUp(a, k)
  /\ consumed' = [consumed EXCEPT ![a] = @ + 1]
  /\ UNCHANGED <<policy, grants, audits, attempts, now, restarts>>

(* The caller's own checks fail, or the consumption throws: the permit has *)
(* expired or its authorization was consumed under another key.            *)
Abandon(a, k) ==
  /\ Holds(a, k)
  /\ GiveUp(a, k)
  /\ UNCHANGED <<policy, grants, audits, attempts, consumed, now, restarts>>

Tick ==
  /\ now < MaxTime
  /\ now' = now + 1
  /\ UNCHANGED <<policy, grants, audits, attempts, held, turn, consumed, restarts>>

(* The process dies and a new one, perhaps with other rules, takes over    *)
(* the store; it trusts none of the old permits.                           *)
Restart(rules) ==
  /\ restarts < MaxRestarts
  /\ policy' = rules
  /\ held' = NoPermits
  /\ turn' = None
  /\ restarts' = restarts + 1
  /\ UNCHANGED <<grants, audits, attempts, consumed, now>>

Next ==
  \/ \E g \in Grant, r \in Request, n \in 1..UseLimit, x \in 1..(now + GrantLifetime) :
       CreateApprovalGrant(g, r, n, x)
  \/ \E a \in Authorization, r \in Request, cmd \in Command, k \in Key :
       AuthorizeDirectly(a, r, cmd, k)
  \/ \E a \in Authorization, r \in Request, cmd \in Command : AuthorizeDenied(a, r, cmd)
  \/ \E a \in Authorization, r \in Request, cmd \in Command : AwaitApproval(a, r, cmd)
  \/ \E a \in Authorization, r \in Request, cmd \in Command, k \in Key :
       AuthorizeWithGrant(a, r, cmd, k)
  \/ \E a \in Authorization, r \in Request, cmd \in Command : RefuseGrant(a, r, cmd)
  \/ \E a \in Authorization, r \in Request, cmd \in Command, k \in Key :
       AuthorizeAgain(a, r, cmd, k)
  \/ \E a \in Authorization, r \in Request, k \in Key : ResumeAuthorization(a, r, k)
  \/ \E a \in Authorization, k \in Key : ConsumePermit(a, k)
  \/ \E a \in Authorization, k \in Key : ConsumeAgain(a, k)
  \/ \E a \in Authorization, k \in Key : Abandon(a, k)
  \/ Tick
  \/ \E rules \in [Request -> Effects] : Restart(rules)

Spec == Init /\ [][Next]_vars

-----------------------------------------------------------------------------
TypeOK ==
  /\ policy \in [Request -> Effects]
  /\ grants \in [Grant -> GrantState]
  /\ audits \in [Authorization -> AuditState]
  /\ attempts \subseteq Authorization \X Key
  /\ held \in [Authorization -> [Key -> Nat]]
  /\ turn \in Authorization \cup {None}
  /\ consumed \in [Authorization -> Nat]
  /\ now \in Nat
  /\ restarts \in Nat

(* Every use of a grant is accounted for by exactly one authorization, and *)
(* no grant is used more often than its approver allowed: the receipts of  *)
(* a grant carry each use count below its useCount once.                   *)
GrantUsesAccounted ==
  \A g \in Grant :
    /\ grants[g].useCount <= grants[g].maxUses
    /\ \A a \in Authorization :
         audits[a].grant = g =>
           /\ audits[a].use < grants[g].useCount
           /\ audits[a].status \in {"authorized", "consumed"}
    /\ \A a, b \in Authorization :
         /\ audits[a].grant = g /\ audits[b].grant = g
         /\ audits[a].use = audits[b].use
         => a = b
    /\ \A n \in 0..UseLimit :
         n < grants[g].useCount =>
           \E a \in Authorization : audits[a].grant = g /\ audits[a].use = n

(* A caller that authorizes and consumes in one turn is told to go ahead   *)
(* at most once per authorization, however often it retries, with whatever *)
(* keys, across crashes between and after its two calls.                   *)
ConsumedAtMostOnce ==
  \A a \in Authorization \ Waiting : consumed[a] <= 1

(* Nothing goes ahead without authority: an effect was allowed outright,   *)
(* or a grant for the very same request was live when it was authorized    *)
(* and had not expired (but may have been expiring) when it was consumed.  *)
ConsumedUnderAuthority ==
  \A a \in Authorization :
    consumed[a] > 0 =>
      /\ audits[a].status = "consumed"
      /\ \/ audits[a].effect = "allow"
         \/ /\ audits[a].effect = "require-approval"
            /\ \E g \in Grant :
                 /\ audits[a].grant = g
                 /\ grants[g].request = audits[a].request
                 /\ grants[g].issuedAt <= audits[a].issuedAt
                 /\ audits[a].issuedAt < grants[g].expiresAt
                 /\ audits[a].consumedAt <= grants[g].expiresAt

(* No permit outlives the policy it was issued under: whoever holds one,   *)
(* the rules in force still decide its request as the audit says.          *)
PermitsFollowPolicy ==
  \A a \in Authorization : \A k \in Key :
    held[a][k] > 0 =>
      /\ audits[a].status \in {"authorized", "consumed"}
      /\ audits[a].effect = policy[audits[a].request]
      /\ audits[a].effect # "deny"

(* The course of an authorization: a denial and a consumption are final,   *)
(* an authorization can only be consumed, under the decision it was given, *)
(* and what awaits approval is never denied or consumed directly.          *)
AuthorizationCourse ==
  [][\A a \in Authorization :
       /\ audits[a].status \in {"denied", "consumed"} => audits'[a] = audits[a]
       /\ audits[a].status = "authorized" =>
            \/ audits'[a] = audits[a]
            \/ /\ audits'[a].status = "consumed"
               /\ audits'[a].expiresAt = audits[a].expiresAt
               /\ audits'[a].grant = audits[a].grant
       /\ audits[a].status = "awaiting-approval" =>
            /\ audits'[a].request = audits[a].request
            /\ audits'[a].status \in {"awaiting-approval", "authorized"}]_vars

-----------------------------------------------------------------------------
Allowance(g) ==
  [given |-> grants[g].status # "absent", request |-> grants[g].request,
   left |-> grants[g].maxUses - grants[g].useCount]

Decision(a) ==
  [status |-> audits[a].status, request |-> audits[a].request,
   rule |-> audits[a].effect, grant |-> audits[a].grant]

Ledger == INSTANCE GrantLedger WITH
  rules <- policy,
  allowance <- [g \in Grant |-> Allowance(g)],
  decision <- [a \in Authorization |-> Decision(a)],
  acted <- consumed

(* The service implements GrantLedger: every decision in favour is by the  *)
(* rules of the moment or costs a use of a grant for its request, none is  *)
(* ever reopened, and it is acted upon once (again only by callers that    *)
(* wait) and while the rules still decide so - whatever commands, replays, *)
(* expiries and restarts come in between.                                  *)
KeepsLedger == Ledger!Spec
=============================================================================
