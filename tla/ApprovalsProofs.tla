--------------------------- MODULE ApprovalsProofs ---------------------------
(***************************************************************************)
(* Theorems about Approvals, for every set of authorizations, requests,    *)
(* grants and keys, any limits, and any number of permits held at once.    *)
(***************************************************************************)
EXTENDS Approvals, TLAPS

(* The fields of an audit authorize() writes.                              *)
LEMMA AuditFields ==
  ASSUME TypeOK, NEW r \in Request, NEW cmd \in Command \cup {NoCommand},
         NEW st \in {"denied", "awaiting-approval", "authorized"}, NEW x \in Nat
  PROVE  LET u == Audit(st, r, cmd, x)
         IN  /\ u \in AuditState
             /\ u.status = st /\ u.request = r /\ u.effect = policy[r]
             /\ u.issuedAt = now /\ u.expiresAt = x
             /\ u.grant = None /\ u.use = 0
<1>1. policy[r] \in Effects /\ now \in Nat
  BY DEF TypeOK
<1>2. 0 \in 0..UseLimit
  BY LimitsAssumption
<1>3. Audit(st, r, cmd, x) \in AuditState
  BY <1>1, <1>2 DEF Audit, NoAudit, AuditState
<1>4. LET u == Audit(st, r, cmd, x)
      IN  /\ u.status = st /\ u.request = r /\ u.effect = policy[r]
          /\ u.issuedAt = now /\ u.expiresAt = x
          /\ u.grant = None /\ u.use = 0
  BY DEF Audit, NoAudit
<1> QED BY <1>3, <1>4

(* The audit written with the use of a grant.                              *)
LEMMA GrantedAuditFields ==
  ASSUME TypeOK, NEW r \in Request, NEW cmd \in Command,
         NEW g \in Grant, NEW n \in 0..UseLimit, NEW x \in Nat
  PROVE  LET u == GrantedAudit(r, cmd, g, n, x)
         IN  /\ u \in AuditState
             /\ u.status = "authorized" /\ u.request = r /\ u.effect = policy[r]
             /\ u.issuedAt = now
             /\ u.expiresAt \in Nat /\ u.expiresAt <= x
             /\ u.grant = g /\ u.use = n
<1> DEFINE y == Earlier(x, now + PermitLifetime)
           b == Audit("authorized", r, cmd, y)
<1>1. now \in Nat /\ y \in Nat /\ y <= x
  BY LimitsAssumption DEF TypeOK, Earlier
<1> HIDE DEF y
<1>2. /\ b \in AuditState /\ b.status = "authorized" /\ b.request = r
      /\ b.effect = policy[r] /\ b.issuedAt = now /\ b.expiresAt = y
  BY <1>1, AuditFields
<1> HIDE DEF b
<1>3. LET u == [b EXCEPT !.grant = g, !.use = n]
      IN  /\ u \in AuditState
          /\ u.status = "authorized" /\ u.request = r /\ u.effect = policy[r]
          /\ u.issuedAt = now /\ u.expiresAt = y
          /\ u.grant = g /\ u.use = n
  BY <1>2 DEF AuditState
<1>4. GrantedAudit(r, cmd, g, n, x) = [b EXCEPT !.grant = g, !.use = n]
  BY DEF GrantedAudit, b, y
<1> QED BY <1>1, <1>3, <1>4

(* An audit after its consumption.                                         *)
LEMMA ConsumedFields ==
  ASSUME TypeOK, NEW u \in AuditState, NEW k \in Key
  PROVE  LET c == Consumed(u, k)
         IN  /\ c \in AuditState
             /\ c.status = "consumed" /\ c.consumedAt = now
             /\ c.request = u.request /\ c.effect = u.effect
             /\ c.issuedAt = u.issuedAt /\ c.expiresAt = u.expiresAt
             /\ c.grant = u.grant /\ c.use = u.use
<1>1. now \in Nat
  BY DEF TypeOK
<1> QED BY <1>1 DEF Consumed, AuditState

(* A new grant.                                                            *)
LEMMA NewGrantFields ==
  ASSUME TypeOK, NEW r \in Request, NEW n \in 1..UseLimit, NEW x \in Nat
  PROVE  LET g == NewGrant(r, n, x)
         IN  /\ g \in GrantState
             /\ g.status = "active" /\ g.useCount = 0 /\ g.maxUses = n
<1>1. n \in 0..UseLimit /\ 0 \in 0..UseLimit /\ now \in Nat
  BY LimitsAssumption DEF TypeOK
<1> QED BY <1>1 DEF NewGrant, NoGrant, GrantState

(* A grant after one more use.                                             *)
LEMMA UsedFields ==
  ASSUME NEW g \in GrantState, g.useCount < g.maxUses
  PROVE  /\ Used(g) \in GrantState
         /\ Used(g).useCount = g.useCount + 1
         /\ Used(g).status # "absent"
         /\ Used(g).maxUses = g.maxUses /\ Used(g).request = g.request
         /\ Used(g).issuedAt = g.issuedAt /\ Used(g).expiresAt = g.expiresAt
<1>1. g.useCount + 1 \in 0..UseLimit
  BY LimitsAssumption DEF GrantState
<1>2. Used(g) = [g EXCEPT !.useCount = g.useCount + 1,
                          !.status = IF g.useCount + 1 = g.maxUses
                                     THEN "exhausted" ELSE "active"]
  BY DEF Used
<1>3. (IF g.useCount + 1 = g.maxUses THEN "exhausted" ELSE "active")
        \in {"active", "exhausted"}
  OBVIOUS
<1> HIDE DEF Used
<1> QED BY <1>1, <1>2, <1>3 DEF GrantState

(* A command that presents a grant carries a grant id and a use count.     *)
LEMMA GrantCommand ==
  ASSUME NEW cmd \in Command, cmd.grant # None
  PROVE  cmd.grant \in Grant /\ cmd.use \in 0..UseLimit /\ cmd.key \in Key
BY DEF Command

LEMMA CommandFields ==
  ASSUME NEW cmd \in Command
  PROVE  /\ cmd.key \in Key
         /\ BaseCommand(cmd) \in Command
<1>1. cmd.key \in Key
  BY DEF Command
<1>2. BaseCommand(cmd) = [key |-> cmd.key, grant |-> None, use |-> 0]
  BY DEF BaseCommand, NoCommand
<1> QED BY <1>1, <1>2 DEF Command

-----------------------------------------------------------------------------
(* Type correctness.                                                       *)
LEMMA HandOutType ==
  ASSUME TypeOK, NEW a \in Authorization, NEW k \in Key, HandOut(a, k)
  PROVE  /\ held' \in [Authorization -> [Key -> Nat]]
         /\ turn' \in Authorization \cup {None}
<1>1. held[a] \in [Key -> Nat] /\ held[a][k] + 1 \in Nat
  BY DEF TypeOK
<1> QED BY <1>1 DEF HandOut, TypeOK

LEMMA GiveUpType ==
  ASSUME TypeOK, NEW a \in Authorization, NEW k \in Key, Holds(a, k), GiveUp(a, k)
  PROVE  /\ held' \in [Authorization -> [Key -> Nat]]
         /\ turn' \in Authorization \cup {None}
<1>1. held[a] \in [Key -> Nat] /\ held[a][k] - 1 \in Nat
  BY DEF TypeOK, Holds
<1> QED BY <1>1 DEF GiveUp, TypeOK

LEMMA TypeStep ==
  ASSUME TypeOK, [Next]_vars
  PROVE  TypeOK'
<1>1. ASSUME NEW g \in Grant, NEW r \in Request, NEW n \in 1..UseLimit,
             NEW x \in 1..(now + GrantLifetime), CreateApprovalGrant(g, r, n, x)
      PROVE  TypeOK'
  <2>1. x \in Nat
    BY LimitsAssumption DEF TypeOK
  <2>2. NewGrant(r, n, x) \in GrantState
    BY <2>1, NewGrantFields
  <2> QED BY <1>1, <2>2 DEF CreateApprovalGrant, TypeOK
<1>2. ASSUME NEW a \in Authorization, NEW r \in Request, NEW cmd \in Command, NEW k \in Key,
             AuthorizeDirectly(a, r, cmd, k)
      PROVE  TypeOK'
  <2>1. now + PermitLifetime \in Nat
    BY LimitsAssumption DEF TypeOK
  <2>2. Audit("authorized", r, cmd, now + PermitLifetime) \in AuditState
    BY <2>1, AuditFields
  <2>3. held' \in [Authorization -> [Key -> Nat]] /\ turn' \in Authorization \cup {None}
    BY <1>2, HandOutType DEF AuthorizeDirectly
  <2> QED BY <1>2, <2>2, <2>3 DEF AuthorizeDirectly, TypeOK
<1>3. ASSUME NEW a \in Authorization, NEW r \in Request, NEW cmd \in Command,
             AuthorizeDenied(a, r, cmd)
      PROVE  TypeOK'
  <2>1. now \in Nat
    BY DEF TypeOK
  <2>2. Audit("denied", r, cmd, now) \in AuditState
    BY <2>1, AuditFields
  <2> QED BY <1>3, <2>2 DEF AuthorizeDenied, TypeOK
<1>4. ASSUME NEW a \in Authorization, NEW r \in Request, NEW cmd \in Command,
             AwaitApproval(a, r, cmd)
      PROVE  TypeOK'
  <2>1. now \in Nat
    BY DEF TypeOK
  <2>2. Audit("awaiting-approval", r, cmd, now) \in AuditState
    BY <2>1, AuditFields
  <2> QED BY <1>4, <2>2 DEF AwaitApproval, TypeOK
<1>5. ASSUME NEW a \in Authorization, NEW r \in Request, NEW cmd \in Command, NEW k \in Key,
             AuthorizeWithGrant(a, r, cmd, k)
      PROVE  TypeOK'
  <2>1. cmd.grant \in Grant
    BY <1>5, GrantCommand DEF AuthorizeWithGrant, Presents
  <2>2. grants[cmd.grant] \in GrantState /\ grants[cmd.grant].useCount < grants[cmd.grant].maxUses
    BY <1>5, <2>1 DEF AuthorizeWithGrant, Usable, TypeOK
  <2>3. Used(grants[cmd.grant]) \in GrantState
    BY <2>2, UsedFields
  <2>4. /\ grants[cmd.grant].expiresAt \in Nat
        /\ grants[cmd.grant].useCount \in 0..UseLimit
    BY <2>2 DEF GrantState
  <2>5. GrantedAudit(r, cmd, cmd.grant, grants[cmd.grant].useCount, grants[cmd.grant].expiresAt)
          \in AuditState
    BY <2>1, <2>4, GrantedAuditFields
  <2>6. held' \in [Authorization -> [Key -> Nat]] /\ turn' \in Authorization \cup {None}
    BY <1>5, HandOutType DEF AuthorizeWithGrant
  <2> QED BY <1>5, <2>1, <2>3, <2>5, <2>6 DEF AuthorizeWithGrant, TypeOK
<1>6. ASSUME NEW a \in Authorization, NEW r \in Request, NEW cmd \in Command,
             RefuseGrant(a, r, cmd)
      PROVE  TypeOK'
  <2>1. cmd.key \in Key /\ BaseCommand(cmd) \in Command /\ now \in Nat
    BY CommandFields DEF TypeOK
  <2>2. Audit("awaiting-approval", r, BaseCommand(cmd), now) \in AuditState
    BY <2>1, AuditFields
  <2> QED BY <1>6, <2>1, <2>2 DEF RefuseGrant, TypeOK
<1>7. ASSUME NEW a \in Authorization, NEW r \in Request, NEW cmd \in Command, NEW k \in Key,
             AuthorizeAgain(a, r, cmd, k)
      PROVE  TypeOK'
  BY <1>7, HandOutType DEF AuthorizeAgain, TypeOK
<1>8. ASSUME NEW a \in Authorization, NEW r \in Request, NEW k \in Key,
             ResumeAuthorization(a, r, k)
      PROVE  TypeOK'
  BY <1>8, HandOutType DEF ResumeAuthorization, TypeOK
<1>9. ASSUME NEW a \in Authorization, NEW k \in Key, ConsumePermit(a, k)
      PROVE  TypeOK'
  <2>1. Consumed(audits[a], k) \in AuditState
    BY ConsumedFields DEF TypeOK
  <2>2. held' \in [Authorization -> [Key -> Nat]] /\ turn' \in Authorization \cup {None}
    BY <1>9, GiveUpType DEF ConsumePermit
  <2>3. /\ audits' = [audits EXCEPT ![a] = Consumed(audits[a], k)]
        /\ consumed' = [consumed EXCEPT ![a] = @ + 1]
        /\ UNCHANGED <<policy, grants, attempts, now, restarts>>
    BY <1>9 DEF ConsumePermit
  <2> QED BY <2>1, <2>2, <2>3 DEF TypeOK
<1>10. ASSUME NEW a \in Authorization, NEW k \in Key, ConsumeAgain(a, k)
       PROVE  TypeOK'
  BY <1>10, GiveUpType DEF ConsumeAgain, TypeOK
<1>11. ASSUME NEW a \in Authorization, NEW k \in Key, Abandon(a, k)
       PROVE  TypeOK'
  BY <1>11, GiveUpType DEF Abandon, TypeOK
<1>12. CASE Tick
  BY <1>12 DEF Tick, TypeOK
<1>13. ASSUME NEW rules \in [Request -> Effects], Restart(rules)
       PROVE  TypeOK'
  BY <1>13 DEF Restart, NoPermits, TypeOK
<1>14. CASE UNCHANGED vars
  BY <1>14 DEF vars, TypeOK
<1> QED BY <1>1, <1>2, <1>3, <1>4, <1>5, <1>6, <1>7, <1>8, <1>9, <1>10, <1>11, <1>12,
           <1>13, <1>14 DEF Next

LEMMA InitType == Init => TypeOK
<1> SUFFICES ASSUME Init PROVE TypeOK
  OBVIOUS
<1>1. NoGrant \in GrantState /\ NoAudit \in AuditState
  BY LimitsAssumption DEF NoGrant, GrantState, NoAudit, AuditState
<1> QED BY <1>1 DEF Init, TypeOK, NoPermits

(* In every reachable state policy, grants, audits, permits and counters   *)
(* have their types; in particular no use count exceeds the limit of the   *)
(* policy.                                                                 *)
THEOREM TypeCorrect == Spec => []TypeOK
BY InitType, TypeStep, PTL DEF Spec

-----------------------------------------------------------------------------
(* The ledger of the grants.  GrantUsesAccounted is inductive once a grant *)
(* that does not exist is known to be unused.                              *)
AbsentUnused == \A g \in Grant : grants[g].status = "absent" => grants[g].useCount = 0

(* Writing audits without a receipt over audits without one, or consuming  *)
(* authorized ones, leaves the ledger alone.                               *)
LEMMA LedgerKept ==
  ASSUME TypeOK, GrantUsesAccounted, AbsentUnused, UNCHANGED grants,
         \A a \in Authorization :
           \/ audits'[a] = audits[a]
           \/ audits[a].status \notin {"authorized", "consumed"} /\ audits'[a].grant = None
           \/ /\ audits'[a].status = "consumed"
              /\ audits'[a].grant = audits[a].grant /\ audits'[a].use = audits[a].use
  PROVE  GrantUsesAccounted' /\ AbsentUnused'
<1>1. \A a \in Authorization, g \in Grant :
        /\ audits'[a].grant = g <=> audits[a].grant = g
        /\ audits'[a].grant = g =>
             /\ audits'[a].use = audits[a].use
             /\ audits'[a].status \in {"authorized", "consumed"}
  <2> SUFFICES ASSUME NEW a \in Authorization, NEW g \in Grant
               PROVE  /\ audits'[a].grant = g <=> audits[a].grant = g
                      /\ audits'[a].grant = g =>
                           /\ audits'[a].use = audits[a].use
                           /\ audits'[a].status \in {"authorized", "consumed"}
    OBVIOUS
  <2>1. g # None
    BY AbsenceAssumption
  <2>2. audits[a].grant = g => audits[a].status \in {"authorized", "consumed"}
    BY DEF GrantUsesAccounted
  <2> QED BY <2>1, <2>2
<1> QED BY <1>1 DEF GrantUsesAccounted, AbsentUnused

LEMMA LedgerStep ==
  ASSUME TypeOK, GrantUsesAccounted, AbsentUnused, [Next]_vars
  PROVE  GrantUsesAccounted' /\ AbsentUnused'
<1>1. ASSUME NEW g \in Grant, NEW r \in Request, NEW n \in 1..UseLimit,
             NEW x \in 1..(now + GrantLifetime), CreateApprovalGrant(g, r, n, x)
      PROVE  GrantUsesAccounted' /\ AbsentUnused'
  <2>1. x \in Nat
    BY LimitsAssumption DEF TypeOK
  <2>2. /\ NewGrant(r, n, x).status = "active" /\ NewGrant(r, n, x).useCount = 0
        /\ NewGrant(r, n, x).maxUses = n
    BY <2>1, NewGrantFields
  <2>3. /\ grants' = [grants EXCEPT ![g] = NewGrant(r, n, x)]
        /\ audits' = audits /\ grants[g].status = "absent"
    BY <1>1 DEF CreateApprovalGrant
  <2>4. /\ grants'[g].status = "active" /\ grants'[g].useCount = 0 /\ grants'[g].maxUses = n
        /\ \A h \in Grant : h # g => grants'[h] = grants[h]
    BY <2>2, <2>3 DEF TypeOK
  <2>5. grants[g].useCount = 0 /\ \A a \in Authorization : audits[a].grant # g
    <3>1. grants[g].useCount = 0
      BY <2>3 DEF AbsentUnused
    <3>2. \A a \in Authorization : audits[a].use \in Nat
      BY LimitsAssumption DEF TypeOK, AuditState
    <3> QED BY <3>1, <3>2 DEF GrantUsesAccounted
  <2>6. GrantUsesAccounted'
    <3> SUFFICES ASSUME NEW h \in Grant
                 PROVE  /\ grants'[h].useCount <= grants'[h].maxUses
                        /\ \A a \in Authorization :
                             audits[a].grant = h =>
                               /\ audits[a].use < grants'[h].useCount
                               /\ audits[a].status \in {"authorized", "consumed"}
                        /\ \A a, b \in Authorization :
                             /\ audits[a].grant = h /\ audits[b].grant = h
                             /\ audits[a].use = audits[b].use
                             => a = b
                        /\ \A m \in 0..UseLimit :
                             m < grants'[h].useCount =>
                               \E a \in Authorization :
                                 audits[a].grant = h /\ audits[a].use = m
      BY <2>3 DEF GrantUsesAccounted
    <3>1. CASE h = g
      BY <2>4, <2>5, <3>1
    <3>2. CASE h # g
      BY <2>4, <3>2 DEF GrantUsesAccounted
    <3> QED BY <3>1, <3>2
  <2>7. AbsentUnused'
    BY <2>4 DEF AbsentUnused
  <2> QED BY <2>6, <2>7
<1>2. ASSUME NEW a \in Authorization, NEW r \in Request, NEW cmd \in Command, NEW k \in Key,
             AuthorizeDirectly(a, r, cmd, k)
      PROVE  GrantUsesAccounted' /\ AbsentUnused'
  <2>1. now + PermitLifetime \in Nat
    BY LimitsAssumption DEF TypeOK
  <2>2. Audit("authorized", r, cmd, now + PermitLifetime).grant = None
    BY <2>1, AuditFields
  <2> QED BY <1>2, <2>2, LedgerKept DEF AuthorizeDirectly, TypeOK
<1>3. ASSUME NEW a \in Authorization, NEW r \in Request, NEW cmd \in Command,
             AuthorizeDenied(a, r, cmd)
      PROVE  GrantUsesAccounted' /\ AbsentUnused'
  <2>1. Audit("denied", r, cmd, now).grant = None
    BY AuditFields DEF TypeOK
  <2> QED BY <1>3, <2>1, LedgerKept DEF AuthorizeDenied, TypeOK
<1>4. ASSUME NEW a \in Authorization, NEW r \in Request, NEW cmd \in Command,
             AwaitApproval(a, r, cmd)
      PROVE  GrantUsesAccounted' /\ AbsentUnused'
  <2>1. Audit("awaiting-approval", r, cmd, now).grant = None
    BY AuditFields DEF TypeOK
  <2> QED BY <1>4, <2>1, LedgerKept DEF AwaitApproval, TypeOK
<1>5. ASSUME NEW a \in Authorization, NEW r \in Request, NEW cmd \in Command, NEW k \in Key,
             AuthorizeWithGrant(a, r, cmd, k)
      PROVE  GrantUsesAccounted' /\ AbsentUnused'
  <2> DEFINE g == cmd.grant
             n == grants[g].useCount
             u == GrantedAudit(r, cmd, g, n, grants[g].expiresAt)
  <2>1. g \in Grant /\ audits[a].status \in {"absent", "awaiting-approval"}
    BY <1>5, GrantCommand DEF AuthorizeWithGrant, Presents
  <2>2. grants[g] \in GrantState /\ n < grants[g].maxUses
        /\ n \in 0..UseLimit /\ grants[g].maxUses \in 0..UseLimit /\ grants[g].expiresAt \in Nat
    BY <1>5, <2>1 DEF AuthorizeWithGrant, Usable, TypeOK, GrantState
  <2>3. /\ Used(grants[g]).useCount = n + 1 /\ Used(grants[g]).status # "absent"
        /\ Used(grants[g]).maxUses = grants[g].maxUses
    BY <2>2, UsedFields
  <2>4. u.grant = g /\ u.use = n /\ u.status = "authorized"
    BY <2>1, <2>2, GrantedAuditFields
  <2>5. /\ grants' = [grants EXCEPT ![g] = Used(grants[g])]
        /\ audits' = [audits EXCEPT ![a] = u]
    BY <1>5 DEF AuthorizeWithGrant
  <2> HIDE DEF u, n, g
  <2>6. /\ grants'[g].useCount = n + 1 /\ grants'[g].status # "absent"
        /\ grants'[g].maxUses = grants[g].maxUses
        /\ \A h \in Grant : h # g => grants'[h] = grants[h]
        /\ audits'[a].grant = g /\ audits'[a].use = n /\ audits'[a].status = "authorized"
        /\ \A b \in Authorization : b # a => audits'[b] = audits[b]
    BY <2>1, <2>3, <2>4, <2>5 DEF TypeOK
  <2>7. \A h \in Grant : audits[a].grant # h
    BY <2>1 DEF GrantUsesAccounted
  <2>8. /\ n = grants[g].useCount
        /\ \A b \in Authorization : audits[b].use \in Nat
    BY LimitsAssumption DEF n, TypeOK, AuditState
  <2>9. GrantUsesAccounted'
    <3> SUFFICES ASSUME NEW h \in Grant
                 PROVE  /\ grants'[h].useCount <= grants'[h].maxUses
                        /\ \A b \in Authorization :
                             audits'[b].grant = h =>
                               /\ audits'[b].use < grants'[h].useCount
                               /\ audits'[b].status \in {"authorized", "consumed"}
                        /\ \A b, c \in Authorization :
                             /\ audits'[b].grant = h /\ audits'[c].grant = h
                             /\ audits'[b].use = audits'[c].use
                             => b = c
                        /\ \A m \in 0..UseLimit :
                             m < grants'[h].useCount =>
                               \E b \in Authorization :
                                 audits'[b].grant = h /\ audits'[b].use = m
      BY DEF GrantUsesAccounted
    <3>1. CASE h = g
      <4>1. \A b \in Authorization : audits[b].grant = g =>
              audits[b].use < n /\ audits[b].status \in {"authorized", "consumed"}
        BY <2>1, <2>8 DEF GrantUsesAccounted
      <4>2. n + 1 <= grants[g].maxUses
        BY <2>2, <2>8
      <4>3. \A m \in 0..UseLimit : m < n + 1 =>
              \E b \in Authorization : audits'[b].grant = g /\ audits'[b].use = m
        <5> SUFFICES ASSUME NEW m \in 0..UseLimit, m < n + 1
                     PROVE  \E b \in Authorization : audits'[b].grant = g /\ audits'[b].use = m
          OBVIOUS
        <5>1. CASE m = n
          BY <2>6, <5>1
        <5>2. CASE m # n
          <6>1. m < n
            BY <2>2, <5>2
          <6>2. PICK b \in Authorization : audits[b].grant = g /\ audits[b].use = m
            BY <2>1, <2>8, <6>1 DEF GrantUsesAccounted
          <6> QED BY <2>1, <2>6, <2>7, <6>2
        <5> QED BY <5>1, <5>2
      <4>4. \A b, c \in Authorization :
              /\ audits'[b].grant = g /\ audits'[c].grant = g
              /\ audits'[b].use = audits'[c].use
              => b = c
        BY <2>1, <2>2, <2>6, <2>8, <4>1 DEF GrantUsesAccounted
      <4>5. \A b \in Authorization : audits'[b].grant = g =>
              audits'[b].use < n + 1 /\ audits'[b].status \in {"authorized", "consumed"}
        BY <2>2, <2>6, <2>8, <4>1
      <4> QED BY <2>6, <3>1, <4>2, <4>3, <4>4, <4>5
    <3>2. CASE h # g
      <4>1. /\ grants'[h] = grants[h]
            /\ \A b \in Authorization :
                 /\ audits'[b].grant = h <=> audits[b].grant = h
                 /\ audits'[b].grant = h => audits'[b] = audits[b]
        BY <2>6, <2>7, <3>2
      <4> QED BY <4>1 DEF GrantUsesAccounted
    <3> QED BY <3>1, <3>2
  <2>10. AbsentUnused'
    BY <2>6 DEF AbsentUnused
  <2> QED BY <2>9, <2>10
<1>6. ASSUME NEW a \in Authorization, NEW r \in Request, NEW cmd \in Command,
             RefuseGrant(a, r, cmd)
      PROVE  GrantUsesAccounted' /\ AbsentUnused'
  <2>1. BaseCommand(cmd) \in Command /\ now \in Nat
    BY CommandFields DEF TypeOK
  <2>2. Audit("awaiting-approval", r, BaseCommand(cmd), now).grant = None
    BY <2>1, AuditFields
  <2> QED BY <1>6, <2>2, LedgerKept DEF RefuseGrant, TypeOK
<1>7. ASSUME NEW a \in Authorization, NEW k \in Key, ConsumePermit(a, k)
      PROVE  GrantUsesAccounted' /\ AbsentUnused'
  <2>1. /\ Consumed(audits[a], k).status = "consumed"
        /\ Consumed(audits[a], k).grant = audits[a].grant
        /\ Consumed(audits[a], k).use = audits[a].use
    BY ConsumedFields DEF TypeOK
  <2>2. /\ audits' = [audits EXCEPT ![a] = Consumed(audits[a], k)]
        /\ UNCHANGED grants
    BY <1>7 DEF ConsumePermit
  <2> QED BY <2>1, <2>2, LedgerKept DEF TypeOK
<1>8. CASE UNCHANGED <<grants, audits>>
  BY <1>8, LedgerKept
<1> QED BY <1>1, <1>2, <1>3, <1>4, <1>5, <1>6, <1>7, <1>8
        DEF Next, AuthorizeAgain, ResumeAuthorization, ConsumeAgain, Abandon, Tick, Restart, vars

(* Every use of a grant belongs to exactly one authorization, and a grant  *)
(* is never used more often than its approver allowed.                     *)
THEOREM GrantsAccounted == Spec => []GrantUsesAccounted
<1>1. Init => GrantUsesAccounted /\ AbsentUnused
  BY AbsenceAssumption, LimitsAssumption DEF Init, GrantUsesAccounted, AbsentUnused, NoGrant, NoAudit
<1> QED BY <1>1, TypeCorrect, LedgerStep, PTL DEF Spec

-----------------------------------------------------------------------------
(* The course of one authorization: what a step can do to its audit.       *)
LEMMA Course ==
  ASSUME TypeOK, [Next]_vars, NEW a \in Authorization
  PROVE  \/ audits'[a] = audits[a]
         \/ /\ audits[a].status = "absent"
            /\ audits'[a].status \in {"denied", "awaiting-approval", "authorized"}
         \/ /\ audits[a].status = "awaiting-approval"
            /\ audits'[a].status = "authorized"
            /\ audits'[a].request = audits[a].request
         \/ /\ audits[a].status = "authorized"
            /\ audits'[a].status = "consumed"
            /\ audits'[a].request = audits[a].request
            /\ audits'[a].effect = audits[a].effect
            /\ audits'[a].issuedAt = audits[a].issuedAt
            /\ audits'[a].expiresAt = audits[a].expiresAt
            /\ audits'[a].grant = audits[a].grant
<1> DEFINE Goal == \/ audits'[a] = audits[a]
                   \/ /\ audits[a].status = "absent"
                      /\ audits'[a].status \in {"denied", "awaiting-approval", "authorized"}
                   \/ /\ audits[a].status = "awaiting-approval"
                      /\ audits'[a].status = "authorized"
                      /\ audits'[a].request = audits[a].request
                   \/ /\ audits[a].status = "authorized"
                      /\ audits'[a].status = "consumed"
                      /\ audits'[a].request = audits[a].request
                      /\ audits'[a].effect = audits[a].effect
                      /\ audits'[a].issuedAt = audits[a].issuedAt
                      /\ audits'[a].expiresAt = audits[a].expiresAt
                      /\ audits'[a].grant = audits[a].grant
<1>1. ASSUME NEW b \in Authorization, NEW r \in Request, NEW cmd \in Command, NEW k \in Key,
             AuthorizeDirectly(b, r, cmd, k)
      PROVE  Goal
  <2>1. now + PermitLifetime \in Nat
    BY LimitsAssumption DEF TypeOK
  <2>2. Audit("authorized", r, cmd, now + PermitLifetime).status = "authorized"
    BY <2>1, AuditFields
  <2> QED BY <1>1, <2>2 DEF AuthorizeDirectly, TypeOK
<1>2. ASSUME NEW b \in Authorization, NEW r \in Request, NEW cmd \in Command,
             AuthorizeDenied(b, r, cmd)
      PROVE  Goal
  <2>1. Audit("denied", r, cmd, now).status = "denied"
    BY AuditFields DEF TypeOK
  <2> QED BY <1>2, <2>1 DEF AuthorizeDenied, TypeOK
<1>3. ASSUME NEW b \in Authorization, NEW r \in Request, NEW cmd \in Command,
             AwaitApproval(b, r, cmd)
      PROVE  Goal
  <2>1. Audit("awaiting-approval", r, cmd, now).status = "awaiting-approval"
    BY AuditFields DEF TypeOK
  <2> QED BY <1>3, <2>1 DEF AwaitApproval, TypeOK
<1>4. ASSUME NEW b \in Authorization, NEW r \in Request, NEW cmd \in Command, NEW k \in Key,
             AuthorizeWithGrant(b, r, cmd, k)
      PROVE  Goal
  <2> DEFINE u == GrantedAudit(r, cmd, cmd.grant, grants[cmd.grant].useCount,
                               grants[cmd.grant].expiresAt)
  <2>1. cmd.grant \in Grant
    BY <1>4, GrantCommand DEF AuthorizeWithGrant, Presents
  <2>2. grants[cmd.grant].useCount \in 0..UseLimit /\ grants[cmd.grant].expiresAt \in Nat
    BY <2>1 DEF TypeOK, GrantState
  <2>3. u.status = "authorized" /\ u.request = r
    BY <2>1, <2>2, GrantedAuditFields
  <2>4. /\ audits' = [audits EXCEPT ![b] = u]
        /\ \/ audits[b].status = "absent"
           \/ audits[b].status = "awaiting-approval" /\ audits[b].request = r
    BY <1>4 DEF AuthorizeWithGrant, Presents
  <2> HIDE DEF u
  <2> QED BY <2>3, <2>4 DEF TypeOK
<1>5. ASSUME NEW b \in Authorization, NEW r \in Request, NEW cmd \in Command,
             RefuseGrant(b, r, cmd)
      PROVE  Goal
  <2>1. BaseCommand(cmd) \in Command /\ now \in Nat
    BY CommandFields DEF TypeOK
  <2>2. Audit("awaiting-approval", r, BaseCommand(cmd), now).status = "awaiting-approval"
    BY <2>1, AuditFields
  <2> QED BY <1>5, <2>2 DEF RefuseGrant, TypeOK
<1>6. ASSUME NEW b \in Authorization, NEW k \in Key, ConsumePermit(b, k)
      PROVE  Goal
  <2> DEFINE c == Consumed(audits[b], k)
  <2>1. /\ c.status = "consumed" /\ c.request = audits[b].request
        /\ c.effect = audits[b].effect /\ c.issuedAt = audits[b].issuedAt
        /\ c.expiresAt = audits[b].expiresAt /\ c.grant = audits[b].grant
    BY ConsumedFields DEF TypeOK
  <2>2. audits' = [audits EXCEPT ![b] = c] /\ audits[b].status = "authorized"
    BY <1>6 DEF ConsumePermit
  <2> HIDE DEF c
  <2> QED BY <2>1, <2>2 DEF TypeOK
<1>7. CASE UNCHANGED audits
  BY <1>7
<1> QED BY <1>1, <1>2, <1>3, <1>4, <1>5, <1>6, <1>7
        DEF Next, CreateApprovalGrant, AuthorizeAgain, ResumeAuthorization, ConsumeAgain,
            Abandon, Tick, Restart, vars

(* A denial and a consumption are final, an authorization can only be      *)
(* consumed, and what awaits approval can only be authorized.              *)
THEOREM CourseKept == Spec => AuthorizationCourse
<1>1. ASSUME TypeOK, [Next]_vars
      PROVE  [\A a \in Authorization :
                /\ audits[a].status \in {"denied", "consumed"} => audits'[a] = audits[a]
                /\ audits[a].status = "authorized" =>
                     \/ audits'[a] = audits[a]
                     \/ /\ audits'[a].status = "consumed"
                        /\ audits'[a].expiresAt = audits[a].expiresAt
                        /\ audits'[a].grant = audits[a].grant
                /\ audits[a].status = "awaiting-approval" =>
                     /\ audits'[a].request = audits[a].request
                     /\ audits'[a].status \in {"awaiting-approval", "authorized"}]_vars
  BY <1>1, Course
<1> QED BY <1>1, TypeCorrect, PTL DEF Spec, AuthorizationCourse

-----------------------------------------------------------------------------
(* Consumption.  A caller that authorizes and consumes in one turn holds   *)
(* at most one permit, during that turn, while the authorization is still  *)
(* unspent; whatever was consumed is consumed in its audit.                *)
SpentOnRecord ==
  \A a \in Authorization : consumed[a] > 0 => audits[a].status = "consumed"

OneTurn ==
  \A a \in Authorization \ Waiting :
    /\ consumed[a] <= 1
    /\ \A k \in Key :
         held[a][k] > 0 =>
           /\ turn = a /\ audits[a].status = "authorized" /\ held[a][k] = 1
           /\ \A j \in Key : held[a][j] > 0 => j = k

(* A step that hands out a permit for an authorized audit.                 *)
LEMMA HandOutTurn ==
  ASSUME TypeOK, OneTurn, turn = None, NEW a \in Authorization, NEW k \in Key,
         HandOut(a, k), audits'[a].status = "authorized",
         \A b \in Authorization : b # a => audits'[b] = audits[b],
         UNCHANGED consumed
  PROVE  OneTurn'
<1>1. None \notin Authorization
  BY AbsenceAssumption
<1>2. \A b \in Authorization \ Waiting : \A j \in Key : held[b][j] = 0
  BY <1>1 DEF OneTurn, TypeOK
<1>3. /\ \A j \in Key : held'[a][j] = IF j = k THEN held[a][j] + 1 ELSE held[a][j]
      /\ \A b \in Authorization : b # a => held'[b] = held[b]
  BY DEF HandOut, TypeOK
<1>4. a \notin Waiting => turn' = a
  BY DEF HandOut
<1> SUFFICES ASSUME NEW b \in Authorization \ Waiting
             PROVE  /\ consumed'[b] <= 1
                    /\ \A j \in Key :
                         held'[b][j] > 0 =>
                           /\ turn' = b /\ audits'[b].status = "authorized" /\ held'[b][j] = 1
                           /\ \A i \in Key : held'[b][i] > 0 => i = j
  BY DEF OneTurn
<1>5. consumed'[b] <= 1
  BY DEF OneTurn
<1>6. CASE b = a
  BY <1>2, <1>3, <1>4, <1>5, <1>6
<1>7. CASE b # a
  BY <1>2, <1>3, <1>5, <1>7
<1> QED BY <1>6, <1>7

(* A step that uses up a permit, by its holder.                            *)
LEMMA GiveUpTurn ==
  ASSUME TypeOK, OneTurn, NEW a \in Authorization, NEW k \in Key,
         Holds(a, k), GiveUp(a, k),
         \A b \in Authorization : b # a => audits'[b] = audits[b],
         \A b \in Authorization : b # a => consumed'[b] = consumed[b],
         a \notin Waiting => consumed'[a] <= 1
  PROVE  OneTurn'
<1>1. None \notin Authorization
  BY AbsenceAssumption
<1>2. /\ \A j \in Key : held'[a][j] = IF j = k THEN held[a][j] - 1 ELSE held[a][j]
      /\ \A b \in Authorization : b # a => held'[b] = held[b]
      /\ held[a][k] > 0
      /\ turn' = None
  BY DEF GiveUp, Holds, TypeOK
<1>3. \A b \in Authorization \ Waiting : b # a => \A j \in Key : ~(held[b][j] > 0)
  BY <1>1 DEF OneTurn, Holds
<1> SUFFICES ASSUME NEW b \in Authorization \ Waiting
             PROVE  consumed'[b] <= 1 /\ \A j \in Key : ~(held'[b][j] > 0)
  BY DEF OneTurn
<1>4. CASE b = a
  <2>1. held[a][k] = 1 /\ \A j \in Key : held[a][j] > 0 => j = k
    BY <1>2, <1>4 DEF OneTurn
  <2>2. \A j \in Key : held[a][j] \in Nat
    BY DEF TypeOK
  <2> QED BY <1>2, <1>4, <2>1, <2>2
<1>5. CASE b # a
  BY <1>2, <1>3, <1>5 DEF OneTurn
<1> QED BY <1>4, <1>5

LEMMA ConsumptionStep ==
  ASSUME TypeOK, SpentOnRecord, OneTurn, [Next]_vars
  PROVE  SpentOnRecord' /\ OneTurn'
<1>1. ASSUME UNCHANGED consumed
      PROVE  SpentOnRecord'
  <2> SUFFICES ASSUME NEW a \in Authorization, consumed[a] > 0
               PROVE  audits'[a].status = "consumed"
    BY <1>1 DEF SpentOnRecord
  <2>1. audits[a].status = "consumed"
    BY DEF SpentOnRecord
  <2> QED BY <2>1, Course
<1>2. ASSUME NEW a \in Authorization, NEW r \in Request, NEW cmd \in Command, NEW k \in Key,
             AuthorizeDirectly(a, r, cmd, k)
      PROVE  OneTurn'
  <2>1. now + PermitLifetime \in Nat
    BY LimitsAssumption DEF TypeOK
  <2>2. Audit("authorized", r, cmd, now + PermitLifetime).status = "authorized"
    BY <2>1, AuditFields
  <2>3. /\ audits' = [audits EXCEPT ![a] = Audit("authorized", r, cmd, now + PermitLifetime)]
        /\ HandOut(a, k) /\ turn = None /\ UNCHANGED consumed
    BY <1>2 DEF AuthorizeDirectly
  <2>4. /\ audits'[a].status = "authorized"
        /\ \A b \in Authorization : b # a => audits'[b] = audits[b]
    BY <2>2, <2>3 DEF TypeOK
  <2> QED BY <2>3, <2>4, HandOutTurn
<1>3. ASSUME NEW a \in Authorization, NEW r \in Request, NEW cmd \in Command, NEW k \in Key,
             AuthorizeWithGrant(a, r, cmd, k)
      PROVE  OneTurn'
  <2> DEFINE u == GrantedAudit(r, cmd, cmd.grant, grants[cmd.grant].useCount,
                               grants[cmd.grant].expiresAt)
  <2>1. cmd.grant \in Grant
    BY <1>3, GrantCommand DEF AuthorizeWithGrant, Presents
  <2>2. grants[cmd.grant].useCount \in 0..UseLimit /\ grants[cmd.grant].expiresAt \in Nat
    BY <2>1 DEF TypeOK, GrantState
  <2>3. u.status = "authorized"
    BY <2>1, <2>2, GrantedAuditFields
  <2>4. /\ audits' = [audits EXCEPT ![a] = u]
        /\ HandOut(a, k) /\ turn = None /\ UNCHANGED consumed
    BY <1>3 DEF AuthorizeWithGrant, Presents
  <2> HIDE DEF u
  <2>5. /\ audits'[a].status = "authorized"
        /\ \A b \in Authorization : b # a => audits'[b] = audits[b]
    BY <2>3, <2>4 DEF TypeOK
  <2> QED BY <2>4, <2>5, HandOutTurn
<1>4. ASSUME NEW a \in Authorization, NEW r \in Request, NEW k \in Key,
             turn = None, Replayable(a, r), HandOut(a, k), UNCHANGED <<audits, consumed>>
      PROVE  OneTurn'
  BY <1>4, HandOutTurn DEF Replayable
<1>5. ASSUME NEW a \in Authorization, NEW k \in Key, ConsumePermit(a, k)
      PROVE  SpentOnRecord' /\ OneTurn'
  <2>1. Consumed(audits[a], k).status = "consumed"
    BY ConsumedFields DEF TypeOK
  <2>2. /\ audits' = [audits EXCEPT ![a] = Consumed(audits[a], k)]
        /\ consumed' = [consumed EXCEPT ![a] = @ + 1]
        /\ audits[a].status = "authorized" /\ Holds(a, k) /\ GiveUp(a, k)
    BY <1>5 DEF ConsumePermit
  <2>3. /\ audits'[a].status = "consumed" /\ consumed'[a] = consumed[a] + 1
        /\ \A b \in Authorization : b # a => audits'[b] = audits[b] /\ consumed'[b] = consumed[b]
    BY <2>1, <2>2 DEF TypeOK
  <2>4. consumed[a] = 0
    BY <2>2 DEF SpentOnRecord, TypeOK
  <2>5. SpentOnRecord'
    BY <2>3 DEF SpentOnRecord
  <2>6. OneTurn'
    BY <2>2, <2>3, <2>4, GiveUpTurn
  <2> QED BY <2>5, <2>6
<1>6. ASSUME NEW a \in Authorization, NEW k \in Key, ConsumeAgain(a, k)
      PROVE  SpentOnRecord' /\ OneTurn'
  <2>1. /\ UNCHANGED audits /\ consumed' = [consumed EXCEPT ![a] = @ + 1]
        /\ audits[a].status = "consumed" /\ Holds(a, k) /\ GiveUp(a, k)
    BY <1>6 DEF ConsumeAgain
  <2>2. \A b \in Authorization : b # a => consumed'[b] = consumed[b]
    BY <2>1 DEF TypeOK
  <2>3. a \in Waiting
    BY <2>1 DEF OneTurn, Holds
  <2>4. SpentOnRecord'
    BY <2>1, <2>2 DEF SpentOnRecord
  <2>5. OneTurn'
    BY <2>1, <2>2, <2>3, GiveUpTurn
  <2> QED BY <2>4, <2>5
<1>7. ASSUME NEW a \in Authorization, NEW k \in Key, Abandon(a, k)
      PROVE  OneTurn'
  <2>1. Holds(a, k) /\ GiveUp(a, k) /\ UNCHANGED <<audits, consumed>>
    BY <1>7 DEF Abandon
  <2> QED BY <2>1, GiveUpTurn DEF OneTurn
<1>8. ASSUME UNCHANGED <<held, turn, consumed>>
      PROVE  OneTurn'
  <2>1. ASSUME NEW a \in Authorization, audits[a].status = "authorized", turn = a
        PROVE  audits'[a].status = "authorized"
    <3>1. turn # None
      BY <2>1, AbsenceAssumption
    <3>2. ~\E b \in Authorization, k \in Key : ConsumePermit(b, k)
      <4> SUFFICES ASSUME NEW b \in Authorization, NEW k \in Key, ConsumePermit(b, k)
                   PROVE  FALSE
        OBVIOUS
      <4>1. turn' = None
        BY DEF ConsumePermit, GiveUp
      <4> QED BY <1>8, <3>1, <4>1
    <3>3. UNCHANGED audits
      BY <3>1, <3>2 DEF Next, CreateApprovalGrant, AuthorizeDirectly, AuthorizeDenied,
         AwaitApproval, AuthorizeWithGrant, Presents, RefuseGrant, AuthorizeAgain,
         ResumeAuthorization, ConsumeAgain, Abandon, Tick, Restart, vars
    <3> QED BY <2>1, <3>3
  <2> QED BY <1>8, <2>1 DEF OneTurn
<1>9. ASSUME NEW rules \in [Request -> Effects], Restart(rules)
      PROVE  OneTurn'
  BY <1>9 DEF Restart, NoPermits, OneTurn
<1>10. CASE \E a \in Authorization, k \in Key : ConsumePermit(a, k) \/ ConsumeAgain(a, k)
  BY <1>5, <1>6, <1>10
<1>11. CASE ~\E a \in Authorization, k \in Key : ConsumePermit(a, k) \/ ConsumeAgain(a, k)
  <2>1. UNCHANGED consumed
    BY <1>11 DEF Next, CreateApprovalGrant, AuthorizeDirectly, AuthorizeDenied, AwaitApproval,
       AuthorizeWithGrant, RefuseGrant, AuthorizeAgain, ResumeAuthorization, Abandon, Tick,
       Restart, vars
  <2>2. OneTurn'
    BY <1>2, <1>3, <1>4, <1>7, <1>8, <1>9, <1>11
       DEF Next, CreateApprovalGrant, AuthorizeDenied, AwaitApproval, RefuseGrant,
           AuthorizeAgain, ResumeAuthorization, Tick, vars
  <2> QED BY <1>1, <2>1, <2>2
<1> QED BY <1>10, <1>11

(* A caller that authorizes and consumes in one turn goes ahead at most    *)
(* once, for any number of retries, keys, crashes and other callers.       *)
THEOREM ConsumedOnce == Spec => []ConsumedAtMostOnce
<1>1. Init => SpentOnRecord /\ OneTurn
  BY DEF Init, SpentOnRecord, OneTurn, NoPermits
<1>2. OneTurn => ConsumedAtMostOnce
  BY DEF OneTurn, ConsumedAtMostOnce
<1> QED BY <1>1, <1>2, TypeCorrect, ConsumptionStep, PTL DEF Spec

-----------------------------------------------------------------------------
(* Authority.  What stands behind an audit: an outright decision, or a     *)
(* grant for the same request that was live when it was used and does not  *)
(* expire before the authorization.                                        *)
Granted(u) ==
  /\ u.effect = "require-approval"
  /\ u.grant \in Grant
  /\ grants[u.grant].status # "absent"
  /\ grants[u.grant].request = u.request
  /\ grants[u.grant].issuedAt <= u.issuedAt
  /\ u.issuedAt < grants[u.grant].expiresAt
  /\ u.expiresAt <= grants[u.grant].expiresAt

Authority ==
  \A a \in Authorization :
    audits[a].status \in {"authorized", "consumed"} =>
      /\ audits[a].effect = "allow" \/ Granted(audits[a])
      /\ audits[a].status = "consumed" => audits[a].consumedAt <= audits[a].expiresAt

(* No step takes back what a grant says about the uses it was put to.      *)
LEMMA GrantsStay ==
  ASSUME TypeOK, [Next]_vars, NEW g \in Grant, grants[g].status # "absent"
  PROVE  /\ grants'[g].status # "absent"
         /\ grants'[g].request = grants[g].request
         /\ grants'[g].issuedAt = grants[g].issuedAt
         /\ grants'[g].expiresAt = grants[g].expiresAt
<1>1. ASSUME NEW h \in Grant, NEW r \in Request, NEW n \in 1..UseLimit,
             NEW x \in 1..(now + GrantLifetime), CreateApprovalGrant(h, r, n, x)
      PROVE  grants'[g] = grants[g]
  BY <1>1 DEF CreateApprovalGrant, TypeOK
<1>2. ASSUME NEW a \in Authorization, NEW r \in Request, NEW cmd \in Command, NEW k \in Key,
             AuthorizeWithGrant(a, r, cmd, k)
      PROVE  \/ grants'[g] = grants[g]
             \/ grants[g].useCount < grants[g].maxUses /\ grants'[g] = Used(grants[g])
  BY <1>2, GrantCommand DEF AuthorizeWithGrant, Presents, Usable, TypeOK
<1>3. \/ grants'[g] = grants[g]
      \/ grants[g].useCount < grants[g].maxUses /\ grants'[g] = Used(grants[g])
  BY <1>1, <1>2 DEF Next, AuthorizeDirectly, AuthorizeDenied, AwaitApproval, RefuseGrant,
     AuthorizeAgain, ResumeAuthorization, ConsumePermit, ConsumeAgain, Abandon, Tick, Restart, vars
<1>4. grants[g] \in GrantState
  BY DEF TypeOK
<1> QED BY <1>3, <1>4, UsedFields

LEMMA AuthorityStep ==
  ASSUME TypeOK, Authority, [Next]_vars
  PROVE  Authority'
<1> SUFFICES ASSUME NEW a \in Authorization, audits'[a].status \in {"authorized", "consumed"}
             PROVE  /\ audits'[a].effect = "allow" \/ Granted(audits[a])'
                    /\ audits'[a].status = "consumed" =>
                         audits'[a].consumedAt <= audits'[a].expiresAt
  BY DEF Authority
<1>1. ASSUME NEW r \in Request, NEW cmd \in Command, NEW k \in Key,
             AuthorizeDirectly(a, r, cmd, k)
      PROVE  audits'[a].status = "authorized" /\ audits'[a].effect = "allow"
  <2>1. now + PermitLifetime \in Nat
    BY LimitsAssumption DEF TypeOK
  <2>2. /\ Audit("authorized", r, cmd, now + PermitLifetime).status = "authorized"
        /\ Audit("authorized", r, cmd, now + PermitLifetime).effect = policy[r]
    BY <2>1, AuditFields
  <2> QED BY <1>1, <2>2 DEF AuthorizeDirectly, TypeOK
<1>2. ASSUME NEW r \in Request, NEW cmd \in Command, NEW k \in Key,
             AuthorizeWithGrant(a, r, cmd, k)
      PROVE  audits'[a].status = "authorized" /\ Granted(audits[a])'
  <2> DEFINE g == cmd.grant
             u == GrantedAudit(r, cmd, g, grants[g].useCount, grants[g].expiresAt)
  <2>1. g \in Grant /\ policy[r] = "require-approval"
    BY <1>2, GrantCommand DEF AuthorizeWithGrant, Presents
  <2>2. /\ grants[g] \in GrantState
        /\ grants[g].useCount \in 0..UseLimit /\ grants[g].expiresAt \in Nat
    BY <2>1 DEF TypeOK, GrantState
  <2>3. /\ u.status = "authorized" /\ u.request = r /\ u.effect = policy[r]
        /\ u.issuedAt = now /\ u.expiresAt <= grants[g].expiresAt /\ u.grant = g
    BY <2>1, <2>2, GrantedAuditFields
  <2>4. /\ audits' = [audits EXCEPT ![a] = u]
        /\ grants[g].status = "active" /\ grants[g].request = r
        /\ grants[g].issuedAt <= now /\ now < grants[g].expiresAt
    BY <1>2 DEF AuthorizeWithGrant, Usable
  <2>5. /\ grants'[g].status # "absent" /\ grants'[g].request = r
        /\ grants'[g].issuedAt = grants[g].issuedAt /\ grants'[g].expiresAt = grants[g].expiresAt
    BY <2>1, <2>4, GrantsStay
  <2> HIDE DEF u, g
  <2>6. audits'[a] = u
    BY <2>4 DEF TypeOK
  <2> QED BY <2>1, <2>3, <2>4, <2>5, <2>6 DEF Granted
<1>3. ASSUME NEW k \in Key, ConsumePermit(a, k)
      PROVE  audits'[a].consumedAt <= audits'[a].expiresAt
  <2>1. /\ Consumed(audits[a], k).consumedAt = now
        /\ Consumed(audits[a], k).expiresAt = audits[a].expiresAt
    BY ConsumedFields DEF TypeOK
  <2>2. /\ audits' = [audits EXCEPT ![a] = Consumed(audits[a], k)]
        /\ now <= audits[a].expiresAt
    BY <1>3 DEF ConsumePermit
  <2> QED BY <2>1, <2>2 DEF TypeOK
<1>4. CASE audits'[a] = audits[a]
  BY <1>4, GrantsStay DEF Authority, Granted
<1>5. CASE audits[a].status \in {"absent", "awaiting-approval"} /\ audits'[a] # audits[a]
  <2>1. \/ \E r \in Request, cmd \in Command, k \in Key : AuthorizeDirectly(a, r, cmd, k)
        \/ \E r \in Request, cmd \in Command, k \in Key : AuthorizeWithGrant(a, r, cmd, k)
    <3>1. ASSUME NEW r \in Request, NEW cmd \in Command, AuthorizeDenied(a, r, cmd)
          PROVE  FALSE
      <4>1. Audit("denied", r, cmd, now).status = "denied"
        BY AuditFields DEF TypeOK
      <4> QED BY <3>1, <4>1 DEF AuthorizeDenied, TypeOK
    <3>2. ASSUME NEW r \in Request, NEW cmd \in Command, AwaitApproval(a, r, cmd)
          PROVE  FALSE
      <4>1. Audit("awaiting-approval", r, cmd, now).status = "awaiting-approval"
        BY AuditFields DEF TypeOK
      <4> QED BY <3>2, <4>1 DEF AwaitApproval, TypeOK
    <3>3. ASSUME NEW r \in Request, NEW cmd \in Command, RefuseGrant(a, r, cmd)
          PROVE  FALSE
      <4>1. BaseCommand(cmd) \in Command /\ now \in Nat
        BY CommandFields DEF TypeOK
      <4>2. Audit("awaiting-approval", r, BaseCommand(cmd), now).status = "awaiting-approval"
        BY <4>1, AuditFields
      <4> QED BY <1>5, <3>3, <4>2 DEF RefuseGrant, TypeOK
    <3>4. ASSUME NEW b \in Authorization, NEW r \in Request, NEW cmd \in Command,
                 AuthorizeDenied(b, r, cmd) \/ AwaitApproval(b, r, cmd) \/ RefuseGrant(b, r, cmd)
          PROVE  b = a
      BY <1>5, <3>4 DEF AuthorizeDenied, AwaitApproval, RefuseGrant, TypeOK
    <3>5. ASSUME NEW b \in Authorization, NEW r \in Request, NEW cmd \in Command, NEW k \in Key,
                 AuthorizeDirectly(b, r, cmd, k) \/ AuthorizeWithGrant(b, r, cmd, k)
          PROVE  b = a
      BY <1>5, <3>5 DEF AuthorizeDirectly, AuthorizeWithGrant, TypeOK
    <3>6. ASSUME NEW b \in Authorization, NEW k \in Key, ConsumePermit(b, k)
          PROVE  FALSE
      BY <1>5, <3>6 DEF ConsumePermit, TypeOK
    <3>7. ~UNCHANGED audits
      BY <1>5
    <3> QED BY <3>1, <3>2, <3>3, <3>4, <3>5, <3>6, <3>7
            DEF Next, CreateApprovalGrant, AuthorizeAgain, ResumeAuthorization, ConsumeAgain,
                Abandon, Tick, Restart, vars
  <2> QED BY <1>1, <1>2, <2>1
<1>6. CASE audits[a].status = "authorized" /\ audits'[a] # audits[a]
  <2>1. /\ audits'[a].request = audits[a].request /\ audits'[a].effect = audits[a].effect
        /\ audits'[a].issuedAt = audits[a].issuedAt /\ audits'[a].expiresAt = audits[a].expiresAt
        /\ audits'[a].grant = audits[a].grant
    BY <1>6, Course
  <2>2. audits[a].effect = "allow" \/ Granted(audits[a])
    BY <1>6 DEF Authority
  <2>3. audits'[a].effect = "allow" \/ Granted(audits[a])'
    BY <2>1, <2>2, GrantsStay DEF Granted
  <2>4. \E k \in Key : ConsumePermit(a, k)
    BY <1>6 DEF Next, CreateApprovalGrant, AuthorizeDirectly, AuthorizeDenied, AwaitApproval,
       AuthorizeWithGrant, Presents, RefuseGrant, AuthorizeAgain, ResumeAuthorization,
       ConsumePermit, ConsumeAgain, Abandon, Tick, Restart, vars, TypeOK
  <2> QED BY <1>3, <2>3, <2>4
<1> QED BY <1>4, <1>5, <1>6, Course

(* Nothing goes ahead that was not allowed outright or approved for the    *)
(* very same request by a grant that was live when it was used.            *)
THEOREM UnderAuthority == Spec => []ConsumedUnderAuthority
<1>1. Init => SpentOnRecord /\ OneTurn /\ Authority
  BY DEF Init, SpentOnRecord, OneTurn, Authority, NoPermits, NoAudit
<1>2. ASSUME TypeOK, SpentOnRecord, Authority
      PROVE  ConsumedUnderAuthority
  <2> SUFFICES ASSUME NEW a \in Authorization, consumed[a] > 0
               PROVE  /\ audits[a].status = "consumed"
                      /\ \/ audits[a].effect = "allow"
                         \/ /\ audits[a].effect = "require-approval"
                            /\ \E g \in Grant :
                                 /\ audits[a].grant = g
                                 /\ grants[g].request = audits[a].request
                                 /\ grants[g].issuedAt <= audits[a].issuedAt
                                 /\ audits[a].issuedAt < grants[g].expiresAt
                                 /\ audits[a].consumedAt <= grants[g].expiresAt
    BY DEF ConsumedUnderAuthority
  <2>1. /\ audits[a].status = "consumed"
        /\ audits[a].effect = "allow" \/ Granted(audits[a])
        /\ audits[a].consumedAt <= audits[a].expiresAt
    BY <1>2 DEF SpentOnRecord, Authority
  <2>2. audits[a].consumedAt \in Nat /\ audits[a].expiresAt \in Nat
    BY <1>2 DEF TypeOK, AuditState
  <2>3. \A g \in Grant : grants[g].expiresAt \in Nat
    BY <1>2 DEF TypeOK, GrantState
  <2> QED BY <2>1, <2>2, <2>3 DEF Granted
<1> QED BY <1>1, <1>2, TypeCorrect, ConsumptionStep, AuthorityStep, PTL DEF Spec

-----------------------------------------------------------------------------
(* Policy.  A permit is only handed out under the decision in force, and   *)
(* the rules change only with a restart, which forgets every permit.       *)
LEMMA HandOutPolicy ==
  ASSUME TypeOK, PermitsFollowPolicy, NEW a \in Authorization, NEW k \in Key,
         HandOut(a, k), UNCHANGED policy,
         audits'[a].status = "authorized",
         audits'[a].effect = policy[audits'[a].request], audits'[a].effect # "deny",
         \A b \in Authorization : b # a => audits'[b] = audits[b]
  PROVE  PermitsFollowPolicy'
<1>1. \A b \in Authorization : b # a => held'[b] = held[b]
  BY DEF HandOut, TypeOK
<1> QED BY <1>1 DEF PermitsFollowPolicy

LEMMA PolicyStep ==
  ASSUME TypeOK, PermitsFollowPolicy, Authority, [Next]_vars
  PROVE  PermitsFollowPolicy'
<1>1. ASSUME NEW a \in Authorization, NEW r \in Request, NEW cmd \in Command, NEW k \in Key,
             AuthorizeDirectly(a, r, cmd, k)
      PROVE  PermitsFollowPolicy'
  <2> DEFINE u == Audit("authorized", r, cmd, now + PermitLifetime)
  <2>1. now + PermitLifetime \in Nat
    BY LimitsAssumption DEF TypeOK
  <2>2. u.status = "authorized" /\ u.request = r /\ u.effect = policy[r]
    BY <2>1, AuditFields
  <2>3. /\ audits' = [audits EXCEPT ![a] = u] /\ policy[r] = "allow"
        /\ HandOut(a, k) /\ UNCHANGED policy
    BY <1>1 DEF AuthorizeDirectly
  <2> HIDE DEF u
  <2>4. audits'[a] = u /\ \A b \in Authorization : b # a => audits'[b] = audits[b]
    BY <2>3 DEF TypeOK
  <2> QED BY <2>2, <2>3, <2>4, HandOutPolicy
<1>2. ASSUME NEW a \in Authorization, NEW r \in Request, NEW cmd \in Command, NEW k \in Key,
             AuthorizeWithGrant(a, r, cmd, k)
      PROVE  PermitsFollowPolicy'
  <2> DEFINE u == GrantedAudit(r, cmd, cmd.grant, grants[cmd.grant].useCount,
                               grants[cmd.grant].expiresAt)
  <2>1. cmd.grant \in Grant
    BY <1>2, GrantCommand DEF AuthorizeWithGrant, Presents
  <2>2. grants[cmd.grant].useCount \in 0..UseLimit /\ grants[cmd.grant].expiresAt \in Nat
    BY <2>1 DEF TypeOK, GrantState
  <2>3. u.status = "authorized" /\ u.request = r /\ u.effect = policy[r]
    BY <2>1, <2>2, GrantedAuditFields
  <2>4. /\ audits' = [audits EXCEPT ![a] = u] /\ policy[r] = "require-approval"
        /\ HandOut(a, k) /\ UNCHANGED policy
    BY <1>2 DEF AuthorizeWithGrant, Presents
  <2> HIDE DEF u
  <2>5. audits'[a] = u /\ \A b \in Authorization : b # a => audits'[b] = audits[b]
    BY <2>4 DEF TypeOK
  <2> QED BY <2>3, <2>4, <2>5, HandOutPolicy
<1>3. ASSUME NEW a \in Authorization, NEW r \in Request, NEW k \in Key,
             Replayable(a, r), HandOut(a, k), UNCHANGED <<audits, policy>>
      PROVE  PermitsFollowPolicy'
  <2>1. audits[a].effect # "deny"
    BY <1>3 DEF Replayable, Authority, Granted
  <2> QED BY <1>3, <2>1, HandOutPolicy DEF Replayable
<1>4. ASSUME NEW a \in Authorization, NEW k \in Key, GiveUp(a, k), UNCHANGED policy,
             audits[a].status \in {"authorized", "consumed"}
                \/ UNCHANGED audits
      PROVE  PermitsFollowPolicy'
  <2>1. \A b \in Authorization, j \in Key : held'[b][j] > 0 => held[b][j] > 0
    BY <1>4 DEF GiveUp, TypeOK
  <2> SUFFICES ASSUME NEW b \in Authorization, NEW j \in Key, held'[b][j] > 0
               PROVE  /\ audits'[b].status \in {"authorized", "consumed"}
                      /\ audits'[b].effect = policy[audits'[b].request]
                      /\ audits'[b].effect # "deny"
    BY <1>4 DEF PermitsFollowPolicy
  <2>2. /\ audits[b].status \in {"authorized", "consumed"}
        /\ audits[b].effect = policy[audits[b].request]
        /\ audits[b].effect # "deny"
    BY <2>1 DEF PermitsFollowPolicy
  <2> QED BY <2>2, Course
<1>5. ASSUME UNCHANGED <<held, policy>>
      PROVE  PermitsFollowPolicy'
  BY <1>5, Course DEF PermitsFollowPolicy
<1>6. ASSUME NEW rules \in [Request -> Effects], Restart(rules)
      PROVE  PermitsFollowPolicy'
  BY <1>6 DEF Restart, NoPermits, PermitsFollowPolicy
<1> QED BY <1>1, <1>2, <1>3, <1>4, <1>5, <1>6
        DEF Next, CreateApprovalGrant, AuthorizeDenied, AwaitApproval, RefuseGrant, AuthorizeAgain,
            ResumeAuthorization, ConsumePermit, ConsumeAgain, Abandon, Tick, vars

(* Whoever holds a permit holds it under the rules in force.               *)
THEOREM PolicyFollowed == Spec => []PermitsFollowPolicy
<1>1. Init => PermitsFollowPolicy /\ Authority
  BY DEF Init, PermitsFollowPolicy, Authority, NoPermits, NoAudit
<1> QED BY <1>1, TypeCorrect, AuthorityStep, PolicyStep, PTL DEF Spec

-----------------------------------------------------------------------------
(* The refinement of GrantLedger, action by action.                        *)
Allowances == [g \in Grant |-> Allowance(g)]
Decisions == [a \in Authorization |-> Decision(a)]

(* A step that writes one audit makes one decision.                        *)
LEMMA OneDecision ==
  ASSUME TypeOK, NEW a \in Authorization, NEW u, audits' = [audits EXCEPT ![a] = u]
  PROVE  /\ Decisions' = [Decisions EXCEPT ![a] = Decisions'[a]]
         /\ Decisions'[a] = [status |-> u.status, request |-> u.request,
                             rule |-> u.effect, grant |-> u.grant]
         /\ Decisions[a] = Decision(a)
<1>1. audits'[a] = u /\ \A b \in Authorization : b # a => audits'[b] = audits[b]
  BY DEF TypeOK
<1>2. /\ Decisions'[a] = Decision(a)'
      /\ \A b \in Authorization : b # a => Decisions'[b] = Decisions[b]
  BY <1>1 DEF Decisions, Decision
<1>3. Decisions' = [Decisions EXCEPT ![a] = Decisions'[a]]
  BY <1>2 DEF Decisions
<1> QED BY <1>1, <1>2, <1>3 DEF Decision, Decisions

(* A new audit that costs no grant is a first decision.                    *)
LEMMA AuditDecides ==
  ASSUME TypeOK, NEW a \in Authorization, NEW r \in Request,
         NEW cmd \in Command \cup {NoCommand}, NEW x \in Nat, NEW st,
         audits[a].status = "absent",
         <<policy[r], st>> \in {<<"allow", "authorized">>, <<"deny", "denied">>,
                                <<"require-approval", "awaiting-approval">>},
         audits' = [audits EXCEPT ![a] = Audit(st, r, cmd, x)],
         UNCHANGED <<policy, grants, consumed>>
  PROVE  Ledger!Decide(a)
<1> DEFINE u == Audit(st, r, cmd, x)
<1>0. st \in {"denied", "awaiting-approval", "authorized"}
  OBVIOUS
<1>1. u.status = st /\ u.request = r /\ u.effect = policy[r] /\ u.grant = None
  BY <1>0, AuditFields
<1> HIDE DEF u
<1>2. /\ Decisions' = [Decisions EXCEPT ![a] = Decisions'[a]]
      /\ Decisions'[a] = [status |-> u.status, request |-> u.request,
                          rule |-> u.effect, grant |-> u.grant]
      /\ Decisions[a] = Decision(a)
  BY OneDecision DEF u
<1>3. /\ Decisions[a].status = "absent"
      /\ Decisions'[a].status = st /\ Decisions'[a].request = r
      /\ Decisions'[a].rule = policy[r] /\ Decisions'[a].grant = None
  BY <1>1, <1>2 DEF Decision
<1>4. Allowances' = Allowances
  BY DEF Allowances, Allowance
<1>5. None \notin Grant
  BY AbsenceAssumption
<1>6. Ledger!Decides(a)
  BY <1>0, <1>2, <1>3 DEF Ledger!Decides, Decisions
<1> QED BY <1>3, <1>4, <1>5, <1>6 DEF Ledger!Decide, Decisions, Allowances

LEMMA GrantApproves ==
  ASSUME TypeOK, NEW a \in Authorization, NEW r \in Request, NEW cmd \in Command, NEW k \in Key,
         AuthorizeWithGrant(a, r, cmd, k)
  PROVE  cmd.grant \in Grant /\ Ledger!Approve(a, cmd.grant)
<1> DEFINE g == cmd.grant
           u == GrantedAudit(r, cmd, g, grants[g].useCount, grants[g].expiresAt)
<1>1. g \in Grant
  BY GrantCommand DEF AuthorizeWithGrant, Presents
<1>2. /\ grants[g] \in GrantState
      /\ grants[g].useCount \in 0..UseLimit /\ grants[g].expiresAt \in Nat
      /\ grants[g].maxUses \in Nat /\ grants[g].useCount \in Nat
  BY <1>1 DEF TypeOK, GrantState
<1>3. u.status = "authorized" /\ u.request = r /\ u.effect = policy[r] /\ u.grant = g
  BY <1>1, <1>2, GrantedAuditFields
<1>4. /\ policy[r] = "require-approval"
      /\ \/ audits[a].status = "absent"
         \/ audits[a].status = "awaiting-approval" /\ audits[a].request = r
      /\ grants[g].status = "active" /\ grants[g].useCount < grants[g].maxUses
      /\ grants[g].request = r
      /\ grants' = [grants EXCEPT ![g] = Used(grants[g])]
      /\ audits' = [audits EXCEPT ![a] = u]
      /\ UNCHANGED <<policy, consumed>>
  BY DEF AuthorizeWithGrant, Presents, Usable
<1>5. /\ Used(grants[g]).useCount = grants[g].useCount + 1
      /\ Used(grants[g]).status # "absent"
      /\ Used(grants[g]).maxUses = grants[g].maxUses
      /\ Used(grants[g]).request = grants[g].request
  BY <1>2, <1>4, UsedFields
<1> HIDE DEF u, g
<1>6. /\ Decisions' = [Decisions EXCEPT ![a] = Decisions'[a]]
      /\ Decisions'[a] = [status |-> u.status, request |-> u.request,
                          rule |-> u.effect, grant |-> u.grant]
      /\ Decisions[a] = Decision(a)
  BY <1>4, OneDecision
<1>7. /\ Decisions[a].status = audits[a].status /\ Decisions[a].request = audits[a].request
      /\ Decisions'[a].status = "authorized" /\ Decisions'[a].request = r
      /\ Decisions'[a].rule = policy[r] /\ Decisions'[a].grant = g
  BY <1>3, <1>6 DEF Decision
<1>8. /\ Allowances[g] = Allowance(g)
      /\ Allowances[g].given /\ Allowances[g].request = r /\ Allowances[g].left > 0
  <2>1. Allowances[g] = Allowance(g)
    BY <1>1 DEF Allowances
  <2>2. /\ Allowance(g).given = (grants[g].status # "absent")
        /\ Allowance(g).request = grants[g].request
        /\ Allowance(g).left = grants[g].maxUses - grants[g].useCount
    BY DEF Allowance
  <2>3. grants[g].maxUses - grants[g].useCount > 0
    BY <1>2, <1>4
  <2>4. Allowance(g).given
    BY <1>4, <2>2
  <2> QED BY <1>4, <2>1, <2>2, <2>3, <2>4
<1>9. Allowances' = [Allowances EXCEPT ![g].left = Allowances[g].left - 1]
  <2>1. Allowance(g)' = [Allowance(g) EXCEPT !.left = Allowances[g].left - 1]
    <3>1. grants'[g] = Used(grants[g])
      BY <1>1, <1>4 DEF TypeOK
    <3>2. grants[g].maxUses - (grants[g].useCount + 1) = grants[g].maxUses - grants[g].useCount - 1
      BY <1>2
    <3> QED BY <1>4, <1>5, <1>8, <3>1, <3>2 DEF Allowance
  <2>2. \A h \in Grant : h # g => Allowance(h)' = Allowance(h)
    BY <1>1, <1>4 DEF Allowance, TypeOK
  <2> QED BY <1>1, <1>8, <2>1, <2>2 DEF Allowances
<1>10. Ledger!Decides(a)
  BY <1>4, <1>6, <1>7 DEF Ledger!Decides, Decisions
<1> QED BY <1>1, <1>4, <1>7, <1>8, <1>9, <1>10 DEF Ledger!Approve, Decisions, Allowances, g

LEMMA GrantGiven ==
  ASSUME TypeOK, NEW g \in Grant, NEW r \in Request, NEW n \in 1..UseLimit,
         NEW x \in 1..(now + GrantLifetime), CreateApprovalGrant(g, r, n, x)
  PROVE  Ledger!Give(g)
<1> DEFINE new == NewGrant(r, n, x)
<1>1. x \in Nat /\ n \in Nat /\ n > 0
  BY LimitsAssumption DEF TypeOK
<1>2. new.status = "active" /\ new.useCount = 0 /\ new.maxUses = n
  BY <1>1, NewGrantFields
<1>3. new.request = r
  BY DEF NewGrant, NoGrant
<1>4. /\ grants[g].status = "absent" /\ policy[r] = "require-approval"
      /\ grants' = [grants EXCEPT ![g] = new]
      /\ UNCHANGED <<policy, audits, consumed>>
  BY DEF CreateApprovalGrant
<1> HIDE DEF new
<1>5. grants'[g] = new /\ \A h \in Grant : h # g => grants'[h] = grants[h]
  BY <1>4 DEF TypeOK
<1>6. /\ Allowances[g].given = (grants[g].status # "absent")
      /\ Allowances'[g].given = (new.status # "absent")
      /\ Allowances'[g].request = new.request
      /\ Allowances'[g].left = new.maxUses - new.useCount
  BY <1>5 DEF Allowances, Allowance
<1>7. Allowances' = [Allowances EXCEPT ![g] = Allowances'[g]]
  BY <1>5 DEF Allowances, Allowance
<1>8. ~Allowances[g].given
  BY <1>4, <1>6
<1>9. Allowances'[g].given
  BY <1>2, <1>6
<1>10. Allowances'[g].left > 0 /\ policy[Allowances'[g].request] = "require-approval"
  BY <1>1, <1>2, <1>3, <1>4, <1>6
<1>11. Decisions' = Decisions
  BY <1>4 DEF Decisions, Decision
<1> QED BY <1>4, <1>7, <1>8, <1>9, <1>10, <1>11 DEF Ledger!Give, Allowances, Decisions

LEMMA ConsumptionActs ==
  ASSUME TypeOK, SpentOnRecord, NEW a \in Authorization, NEW k \in Key, ConsumePermit(a, k)
  PROVE  Ledger!Act(a)
<1> DEFINE u == Consumed(audits[a], k)
<1>1. /\ u.status = "consumed" /\ u.request = audits[a].request
      /\ u.effect = audits[a].effect /\ u.grant = audits[a].grant
  BY ConsumedFields DEF TypeOK
<1>2. /\ audits[a].status = "authorized" /\ audits[a].effect = policy[audits[a].request]
      /\ audits' = [audits EXCEPT ![a] = u]
      /\ consumed' = [consumed EXCEPT ![a] = consumed[a] + 1]
      /\ UNCHANGED <<policy, grants>>
  BY DEF ConsumePermit
<1> HIDE DEF u
<1>3. /\ Decisions' = [Decisions EXCEPT ![a] = Decisions'[a]]
      /\ Decisions'[a] = [status |-> u.status, request |-> u.request,
                          rule |-> u.effect, grant |-> u.grant]
      /\ Decisions[a] = Decision(a)
  BY <1>2, OneDecision
<1>4. Decisions' = [Decisions EXCEPT ![a].status = "consumed"]
  <2>1. Decisions'[a] = [Decisions[a] EXCEPT !.status = "consumed"]
    BY <1>1, <1>3 DEF Decision
  <2> QED BY <1>3, <2>1
<1>5. /\ Decisions[a].status = "authorized"
      /\ Decisions[a].rule = policy[Decisions[a].request]
  BY <1>2, <1>3 DEF Decision
<1>6. consumed[a] = 0
  BY <1>2 DEF SpentOnRecord, TypeOK
<1>7. consumed' = [consumed EXCEPT ![a] = 1]
  BY <1>2, <1>6
<1>8. Allowances' = Allowances
  BY <1>2 DEF Allowances, Allowance
<1> QED BY <1>2, <1>4, <1>5, <1>6, <1>7, <1>8 DEF Ledger!Act, Allowances, Decisions

(* The consumption that is a replay is one of a caller that waited.        *)
LEMMA ReplayActsAgain ==
  ASSUME TypeOK, OneTurn, PermitsFollowPolicy, NEW a \in Authorization, NEW k \in Key,
         ConsumeAgain(a, k)
  PROVE  Ledger!ActAgain(a)
<1>1. /\ held[a][k] > 0 /\ audits[a].status = "consumed"
      /\ consumed' = [consumed EXCEPT ![a] = consumed[a] + 1]
      /\ UNCHANGED <<policy, grants, audits>>
  BY DEF ConsumeAgain, Holds
<1>2. a \in Waiting
  BY <1>1 DEF OneTurn
<1>3. audits[a].effect = policy[audits[a].request]
  BY <1>1 DEF PermitsFollowPolicy
<1>4. /\ Decisions[a].status = "consumed"
      /\ Decisions[a].rule = policy[Decisions[a].request]
  BY <1>1, <1>3 DEF Decisions, Decision
<1>5. Allowances' = Allowances /\ Decisions' = Decisions
  BY <1>1 DEF Allowances, Allowance, Decisions, Decision
<1> QED BY <1>1, <1>2, <1>4, <1>5 DEF Ledger!ActAgain, Allowances, Decisions

LEMMA LedgerUnchanged ==
  ASSUME UNCHANGED <<policy, grants, audits, consumed>>
  PROVE  UNCHANGED Ledger!ledgerVars
BY DEF Ledger!ledgerVars, Allowance, Decision

LEMMA StepsLedger ==
  ASSUME TypeOK, SpentOnRecord, OneTurn, PermitsFollowPolicy, [Next]_vars
  PROVE  [Ledger!Next]_(Ledger!ledgerVars)
<1>1. ASSUME NEW g \in Grant, NEW r \in Request, NEW n \in 1..UseLimit,
             NEW x \in 1..(now + GrantLifetime), CreateApprovalGrant(g, r, n, x)
      PROVE  Ledger!Next
  BY <1>1, GrantGiven DEF Ledger!Next
<1>2. ASSUME NEW a \in Authorization, NEW r \in Request, NEW cmd \in Command, NEW k \in Key,
             AuthorizeDirectly(a, r, cmd, k)
      PROVE  Ledger!Next
  <2>1. now + PermitLifetime \in Nat
    BY LimitsAssumption DEF TypeOK
  <2>2. Ledger!Decide(a)
    BY <1>2, <2>1, AuditDecides DEF AuthorizeDirectly
  <2> QED BY <2>2 DEF Ledger!Next
<1>3. ASSUME NEW a \in Authorization, NEW r \in Request, NEW cmd \in Command,
             AuthorizeDenied(a, r, cmd) \/ AwaitApproval(a, r, cmd)
      PROVE  Ledger!Next
  <2>1. now \in Nat
    BY DEF TypeOK
  <2>2. Ledger!Decide(a)
    BY <1>3, <2>1, AuditDecides DEF AuthorizeDenied, AwaitApproval
  <2> QED BY <2>2 DEF Ledger!Next
<1>4. ASSUME NEW a \in Authorization, NEW r \in Request, NEW cmd \in Command, NEW k \in Key,
             AuthorizeWithGrant(a, r, cmd, k)
      PROVE  Ledger!Next
  BY <1>4, GrantApproves DEF Ledger!Next
<1>5. ASSUME NEW a \in Authorization, NEW r \in Request, NEW cmd \in Command,
             RefuseGrant(a, r, cmd)
      PROVE  Ledger!Next \/ UNCHANGED Ledger!ledgerVars
  <2>1. CASE audits[a].status = "absent"
    <3>1. BaseCommand(cmd) \in Command /\ now \in Nat
      BY CommandFields DEF TypeOK
    <3>2. /\ policy[r] = "require-approval"
          /\ audits' = [audits EXCEPT ![a] = Audit("awaiting-approval", r, BaseCommand(cmd), now)]
          /\ UNCHANGED <<policy, grants, consumed>>
      BY <1>5, <2>1 DEF RefuseGrant, Presents
    <3>3. Ledger!Decide(a)
      BY <2>1, <3>1, <3>2, AuditDecides
    <3> QED BY <3>3 DEF Ledger!Next
  <2>2. CASE audits[a].status # "absent"
    BY <1>5, <2>2, LedgerUnchanged DEF RefuseGrant
  <2> QED BY <2>1, <2>2
<1>6. ASSUME NEW a \in Authorization, NEW k \in Key, ConsumePermit(a, k)
      PROVE  Ledger!Next
  BY <1>6, ConsumptionActs DEF Ledger!Next
<1>7. ASSUME NEW a \in Authorization, NEW k \in Key, ConsumeAgain(a, k)
      PROVE  Ledger!Next
  BY <1>7, ReplayActsAgain DEF Ledger!Next
<1>8. ASSUME NEW rules \in [Request -> Effects], Restart(rules)
      PROVE  Ledger!Next
  <2>1. Ledger!ChangeRules
    BY <1>8 DEF Restart, Effects, Ledger!ChangeRules, Ledger!Rules, Allowance, Decision
  <2> QED BY <2>1 DEF Ledger!Next
<1>9. ASSUME UNCHANGED <<policy, grants, audits, consumed>>
      PROVE  UNCHANGED Ledger!ledgerVars
  BY <1>9, LedgerUnchanged
<1> QED BY <1>1, <1>2, <1>3, <1>4, <1>5, <1>6, <1>7, <1>8, <1>9
        DEF Next, AuthorizeAgain, ResumeAuthorization, Abandon, Tick, vars

(* authorize, resumeAuthorization and consumeExecutionPermit implement     *)
(* GrantLedger: decisions are by the rules of the moment or cost a use of  *)
(* a grant for the very request, none is reopened, and each is acted upon  *)
(* once - again only by callers that wait in between - and under rules     *)
(* that still decide so.                                                   *)
THEOREM ImplementsLedger == Spec => KeepsLedger
<1>1. Init => /\ Ledger!Init
              /\ SpentOnRecord /\ OneTurn /\ PermitsFollowPolicy /\ Authority
  <2> SUFFICES ASSUME Init
               PROVE  /\ Ledger!Init
                      /\ SpentOnRecord /\ OneTurn /\ PermitsFollowPolicy /\ Authority
    OBVIOUS
  <2>1. SpentOnRecord /\ OneTurn
    BY DEF Init, SpentOnRecord, OneTurn, NoPermits
  <2>2. PermitsFollowPolicy /\ Authority
    BY DEF Init, PermitsFollowPolicy, Authority, NoPermits, NoAudit
  <2>3. \A g \in Grant : ~Allowance(g).given
    BY DEF Init, Allowance, NoGrant
  <2>4. \A a \in Authorization : Decision(a).status = "absent"
    BY DEF Init, Decision, NoAudit
  <2>5. Ledger!Init
    BY <2>3, <2>4 DEF Init, Effects, Ledger!Init, Ledger!Rules
  <2> QED BY <2>1, <2>2, <2>5
<1> QED BY <1>1, TypeCorrect, ConsumptionStep, AuthorityStep, PolicyStep, StepsLedger, PTL
        DEF Spec, KeepsLedger, Ledger!Spec
=============================================================================
