---------------------------- MODULE GrantLedger ----------------------------
(***************************************************************************)
(* What the authorization service promises, without permits, commands,     *)
(* clocks and keys: a ledger of decisions and of the uses left of every    *)
(* grant.  A request is decided by the rules of the moment; where they     *)
(* ask for approval, a decision in favour costs one use of a grant for     *)
(* that very request, in the same step.  A decision in favour is turned    *)
(* into an effect while the rules still decide so, and only a caller that  *)
(* waited in between may be told to go ahead a second time.  Nothing else  *)
(* ever changes a decision, and no use is ever given back.                 *)
(***************************************************************************)
EXTENDS Naturals

CONSTANTS Authorization, Waiting, Request, Grant

VARIABLES
  rules,      \* request -> "allow", "deny" or "require-approval"
  allowance,  \* grant -> whether it was given, for what request, and the uses left
  decision,   \* authorization -> its status, request, rule and the grant it cost
  acted       \* authorization -> how often its caller was told to go ahead

ledgerVars == <<rules, allowance, decision, acted>>

Rules == [Request -> {"allow", "deny", "require-approval"}]

Init ==
  /\ rules \in Rules
  /\ \A g \in Grant : ~allowance[g].given
  /\ \A a \in Authorization : decision[a].status = "absent"
  /\ acted = [a \in Authorization |-> 0]

(* A trusted approver gives out a new grant.                               *)
Give(g) ==
  /\ ~allowance[g].given
  /\ allowance' = [allowance EXCEPT ![g] = allowance'[g]]
  /\ allowance'[g].given /\ allowance'[g].left > 0
  /\ rules[allowance'[g].request] = "require-approval"
  /\ UNCHANGED <<rules, decision, acted>>

(* Only the decision on a changes, and it is by the rules.                 *)
Decides(a) ==
  /\ decision' = [decision EXCEPT ![a] = decision'[a]]
  /\ decision'[a].status # "absent"
  /\ decision'[a].rule = rules[decision'[a].request]
  /\ UNCHANGED <<rules, acted>>

(* The first decision on a request, which costs no grant.                  *)
Decide(a) ==
  /\ decision[a].status = "absent"
  /\ Decides(a)
  /\ <<decision'[a].rule, decision'[a].status>> \in
       {<<"allow", "authorized">>, <<"deny", "denied">>,
        <<"require-approval", "awaiting-approval">>}
  /\ decision'[a].grant \notin Grant
  /\ UNCHANGED allowance

(* The request is approved by one use of grant g.                          *)
Approve(a, g) ==
  /\ \/ decision[a].status = "absent"
     \/ /\ decision[a].status = "awaiting-approval"
        /\ decision'[a].request = decision[a].request
  /\ Decides(a)
  /\ decision'[a].rule = "require-approval" /\ decision'[a].status = "authorized"
  /\ decision'[a].grant = g
  /\ allowance[g].given /\ allowance[g].left > 0
  /\ allowance[g].request = decision'[a].request
  /\ allowance' = [allowance EXCEPT ![g].left = @ - 1]

Act(a) ==
  /\ decision[a].status = "authorized" /\ acted[a] = 0
  /\ decision[a].rule = rules[decision[a].request]
  /\ decision' = [decision EXCEPT ![a].status = "consumed"]
  /\ acted' = [acted EXCEPT ![a] = 1]
  /\ UNCHANGED <<rules, allowance>>

ActAgain(a) ==
  /\ a \in Waiting /\ decision[a].status = "consumed"
  /\ decision[a].rule = rules[decision[a].request]
  /\ acted' = [acted EXCEPT ![a] = @ + 1]
  /\ UNCHANGED <<rules, allowance, decision>>

(* Another process takes over, with other rules.                           *)
ChangeRules ==
  /\ rules' \in Rules
  /\ UNCHANGED <<allowance, decision, acted>>

Next ==
  \/ \E g \in Grant : Give(g)
  \/ \E a \in Authorization : Decide(a) \/ Act(a) \/ ActAgain(a)
  \/ \E a \in Authorization, g \in Grant : Approve(a, g)
  \/ ChangeRules

Spec == Init /\ [][Next]_ledgerVars
=============================================================================
