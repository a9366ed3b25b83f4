----------------------- MODULE TriggerExecutionProofs -----------------------
(***************************************************************************)
(* Theorems about TriggerExecution, for every set of requests, grants and  *)
(* concurrent executions.  The boundary only takes steps of Approvals, so  *)
(* what is proved there about permits carries over to the executions.      *)
(***************************************************************************)
EXTENDS TriggerExecution, ApprovalsProofs

LEMMA Commands ==
  /\ First \in Command /\ FirstKey \in Key
  /\ \A g \in Grant, n \in 0..UseLimit : With(g, n) \in Command
  /\ \A a \in Authorization : RequestOf[a] \in Request
BY BoundaryAssumption DEF First, With, Command

(* Every step of the boundary is a step of the service, or leaves it.      *)
LEMMA ServiceStep ==
  ASSUME [ExecNext]_allVars, TypeOK,
         flight \in [Worker -> Flight \cup {None}]
  PROVE  [Next]_vars
<1> DEFINE Steps == Next \/ UNCHANGED vars
<1>1. \A w \in Worker : flight[w] # None => flight[w].of \in Authorization
  BY DEF Flight
<1>2. ASSUME NEW w \in Worker, NEW a \in Authorization, BeginPermitted(w, a)
      PROVE  Steps
  BY <1>2, Commands DEF BeginPermitted, Next
<1>3. ASSUME NEW w \in Worker, NEW a \in Authorization, BeginAsking(w, a)
      PROVE  Steps
  BY <1>3, Commands DEF BeginAsking, Next
<1>4. ASSUME NEW w \in Worker, NEW a \in Authorization, BeginDenied(w, a)
      PROVE  Steps
  BY <1>4, Commands DEF BeginDenied, Next
<1>5. ASSUME NEW w \in Worker, NEW a \in Authorization, BeginSettled(w, a)
      PROVE  Steps
  BY <1>5 DEF BeginSettled
<1>6. ASSUME NEW w \in Worker, NoGrantYet(w) PROVE Steps
  BY <1>6 DEF NoGrantYet
<1>7. ASSUME NEW w \in Worker, NEW g \in Grant, NEW n \in 0..UseLimit, GrantPermitted(w, g, n)
      PROVE  Steps
  <2>1. flight[w].of \in Authorization
    BY <1>1, <1>7 DEF GrantPermitted, Asking, InPhase
  <2> QED BY <1>7, <2>1, Commands DEF GrantPermitted, Next
<1>8. ASSUME NEW w \in Worker, NEW g \in Grant, NEW n \in 0..UseLimit, GrantRefused(w, g, n)
      PROVE  Steps
  <2>1. flight[w].of \in Authorization
    BY <1>1, <1>8 DEF GrantRefused, Asking, InPhase
  <2> QED BY <1>8, <2>1, Commands DEF GrantRefused, Next
<1>9. ASSUME NEW w \in Worker, NEW g \in Grant, NEW n \in 0..UseLimit, GrantSettled(w, g, n)
      PROVE  Steps
  BY <1>9 DEF GrantSettled
<1>10. ASSUME NEW w \in Worker, Consume(w) PROVE Steps
  <2>1. flight[w].of \in Authorization
    BY <1>1, <1>10 DEF Consume, InPhase
  <2> QED BY <1>10, <2>1, Commands DEF Consume, Next
<1>11. ASSUME NEW w \in Worker, ConsumeFails(w) PROVE Steps
  <2>1. flight[w].of \in Authorization
    BY <1>1, <1>11 DEF ConsumeFails, InPhase
  <2> QED BY <1>11, <2>1, Commands DEF ConsumeFails, Next
<1>12. ASSUME NEW w \in Worker,
              Record(w) \/ RecordFails(w) \/ Dispatch(w) \/ CompleteFails(w)
       PROVE  Steps
  BY <1>12 DEF Record, RecordFails, Dispatch, CompleteFails
<1>13. ASSUME NEW w \in Worker, NEW s \in {"succeeded", "failed"}, Complete(w, s)
       PROVE  Steps
  BY <1>13 DEF Complete
<1>14. ASSUME NEW g \in Grant, NEW r \in Request, NEW n \in 1..UseLimit,
              NEW x \in 1..(now + GrantLifetime), Approve(g, r, n, x)
       PROVE  Steps
  BY <1>14 DEF Approve, Next
<1>15. CASE ExecTick
  BY <1>15 DEF ExecTick, Next
<1>16. ASSUME NEW rules \in [Request -> Effects], ExecRestart(rules) PROVE Steps
  BY <1>16 DEF ExecRestart, Next
<1>17. CASE UNCHANGED allVars
  BY <1>17 DEF allVars, vars
<1> QED BY <1>2, <1>3, <1>4, <1>5, <1>6, <1>7, <1>8, <1>9, <1>10, <1>11, <1>12, <1>13,
           <1>14, <1>15, <1>16, <1>17 DEF ExecNext

-----------------------------------------------------------------------------
(* Type correctness of the executions.                                     *)
LEMMA ReplyType ==
  ASSUME ExecTypeOK, NEW w \in Worker, NEW a \in Authorization, NEW s \in Answers, Reply(w, a, s)
  PROVE  /\ flight' \in [Worker -> Flight \cup {None}]
         /\ answer' \in [Authorization -> Answers]
BY DEF Reply, ExecTypeOK

LEMMA PhaseType ==
  ASSUME ExecTypeOK, NEW w \in Worker, NEW p \in Phases, flight[w] # None,
         flight' = [flight EXCEPT ![w].phase = p]
  PROVE  /\ flight' \in [Worker -> Flight \cup {None}]
         /\ flight'[w] # None /\ flight'[w].of = flight[w].of /\ flight'[w].phase = p
         /\ \A v \in Worker : v # w => flight'[v] = flight[v]
<1>1. flight[w] \in Flight
  BY DEF ExecTypeOK
<1>2. [flight[w] EXCEPT !.phase = p] = [of |-> flight[w].of, phase |-> p]
  BY <1>1 DEF Flight
<1>3. flight' = [flight EXCEPT ![w] = [of |-> flight[w].of, phase |-> p]]
  BY <1>2
<1>4. [of |-> flight[w].of, phase |-> p] \in Flight
  BY <1>1 DEF Flight
<1>5. None \notin Flight
  BY BoundaryAssumption
<1> QED BY <1>3, <1>4, <1>5 DEF ExecTypeOK

-----------------------------------------------------------------------------
(* The executions.  Whoever is past the consumption of a permit is alone   *)
(* there, and the record and the count of dispatches are as far as it is.  *)
Past(w, a) ==
  /\ flight[w] # None /\ flight[w].of = a
  /\ flight[w].phase \in {"consumed", "recorded", "dispatched"}

OneExecution ==
  \A a \in Authorization :
    /\ \A v, w \in Worker : Past(v, a) /\ Past(w, a) => v = w
    /\ \A w \in Worker :
         Past(w, a) =>
           /\ consumed[a] > 0
           /\ flight[w].phase = "consumed" => outcomes[a] = "none" /\ dispatches[a] = 0
           /\ flight[w].phase = "recorded" =>
                outcomes[a] = "permit-consumed" /\ dispatches[a] = 0
           /\ flight[w].phase = "dispatched" =>
                outcomes[a] = "permit-consumed" /\ dispatches[a] = 1

TruthfulRecords ==
  \A a \in Authorization :
    /\ dispatches[a] <= 1
    /\ dispatches[a] > 0 => outcomes[a] # "none"
    /\ outcomes[a] # "none" => consumed[a] > 0
    /\ outcomes[a] \in {"succeeded", "failed"} => dispatches[a] = 1
    /\ answer[a] = "executed" => outcomes[a] = "succeeded"

ExecInv == ExecTypeOK /\ SpentOnRecord /\ OneTurn /\ OneExecution /\ TruthfulRecords

(* A step that consumes, records and dispatches nothing: an execution that *)
(* ends without success, or one that is still before its consumption.      *)
LEMMA WithoutEffect ==
  ASSUME ExecInv, UNCHANGED <<outcomes, dispatches, consumed>>,
         NEW w \in Worker, NEW a \in Authorization, NEW s \in Answers \ {"executed"},
         \/ flight' = [flight EXCEPT ![w] = None] /\ answer' = [answer EXCEPT ![a] = s]
         \/ /\ \E p \in {"asking", "permitted"} : flight' = [flight EXCEPT ![w] = [of |-> a, phase |-> p]]
            /\ UNCHANGED answer
  PROVE  /\ flight' \in [Worker -> Flight \cup {None}]
         /\ answer' \in [Authorization -> Answers]
         /\ OneExecution' /\ TruthfulRecords'
<1>1. /\ flight' \in [Worker -> Flight \cup {None}]
      /\ answer' \in [Authorization -> Answers]
  BY DEF ExecInv, ExecTypeOK, Flight, Phases
<1>2. \A b \in Authorization : answer'[b] = "executed" => answer[b] = "executed"
  BY DEF ExecInv, ExecTypeOK
<1>3. /\ \A v \in Worker : v # w => flight'[v] = flight[v]
      /\ \A b \in Authorization : ~Past(w, b)'
  BY DEF ExecInv, ExecTypeOK, Past
<1>4. \A v \in Worker, b \in Authorization : Past(v, b)' => Past(v, b) /\ flight'[v] = flight[v]
  BY <1>3 DEF Past
<1>5. OneExecution'
  BY <1>4 DEF ExecInv, OneExecution
<1>6. TruthfulRecords'
  BY <1>2 DEF ExecInv, TruthfulRecords
<1> QED BY <1>1, <1>5, <1>6

LEMMA ExecutionStep ==
  ASSUME ExecInv, [ExecNext]_allVars
  PROVE  ExecInv'
<1> DEFINE Goal == /\ flight' \in [Worker -> Flight \cup {None}]
                   /\ outcomes' \in [Authorization -> Outcomes]
                   /\ dispatches' \in [Authorization -> Nat]
                   /\ answer' \in [Authorization -> Answers]
                   /\ OneExecution' /\ TruthfulRecords'
<1>1. [Next]_vars
  BY ServiceStep DEF ExecInv, ExecTypeOK
<1>2. TypeOK' /\ SpentOnRecord' /\ OneTurn'
  BY <1>1, TypeStep, ConsumptionStep DEF ExecInv, ExecTypeOK
<1>3. \A w \in Worker : flight[w] # None => flight[w].of \in Authorization
  BY DEF ExecInv, ExecTypeOK, Flight
<1>4. ASSUME NEW w \in Worker, NEW a \in Authorization, NEW s \in Answers \ {"executed"},
             Answer(w, a, s), UNCHANGED consumed
      PROVE  Goal
  <2>1. /\ UNCHANGED <<outcomes, dispatches, consumed>>
        /\ flight' = [flight EXCEPT ![w] = None] /\ answer' = [answer EXCEPT ![a] = s]
    BY <1>4 DEF Answer, Reply
  <2> QED BY <2>1, WithoutEffect DEF ExecInv, ExecTypeOK
<1>5. ASSUME NEW w \in Worker, NEW a \in Authorization, NEW p \in {"asking", "permitted"},
             Fly(w, a, p), UNCHANGED consumed
      PROVE  Goal
  <2>1. /\ UNCHANGED <<outcomes, dispatches, consumed, answer>>
        /\ flight' = [flight EXCEPT ![w] = [of |-> a, phase |-> p]]
    BY <1>5 DEF Fly
  <2>2. "error" \in Answers \ {"executed"}
    BY DEF Answers
  <2> QED BY <2>1, <2>2, WithoutEffect DEF ExecInv, ExecTypeOK
<1>6. ASSUME NEW w \in Worker, NEW a \in Authorization, BeginPermitted(w, a)
      PROVE  Goal
  BY <1>5, <1>6 DEF BeginPermitted, AuthorizeDirectly, AuthorizeAgain
<1>7. ASSUME NEW w \in Worker, NEW a \in Authorization, BeginAsking(w, a)
      PROVE  Goal
  BY <1>5, <1>7 DEF BeginAsking, AwaitApproval, vars
<1>8. ASSUME NEW w \in Worker, NEW a \in Authorization, BeginDenied(w, a)
      PROVE  Goal
  BY <1>4, <1>8 DEF BeginDenied, AuthorizeDenied, Answers
<1>9. \A a, cmd : Settled(a, cmd) \in Answers \ {"executed"}
  BY DEF Settled, Answers
<1>10. ASSUME NEW w \in Worker, NEW a \in Authorization, BeginSettled(w, a)
       PROVE  Goal
  BY <1>4, <1>9, <1>10 DEF BeginSettled, vars
<1>11. ASSUME NEW w \in Worker, NoGrantYet(w) PROVE Goal
  BY <1>3, <1>4, <1>11 DEF NoGrantYet, Asking, InPhase, vars, Answers
<1>12. ASSUME NEW w \in Worker, NEW g \in Grant, NEW n \in 0..UseLimit, GrantPermitted(w, g, n)
       PROVE  Goal
  BY <1>3, <1>5, <1>12 DEF GrantPermitted, Asking, InPhase, AuthorizeWithGrant, AuthorizeAgain
<1>13. ASSUME NEW w \in Worker, NEW g \in Grant, NEW n \in 0..UseLimit, GrantRefused(w, g, n)
       PROVE  Goal
  BY <1>3, <1>4, <1>13 DEF GrantRefused, Asking, InPhase, RefuseGrant, Answers
<1>14. ASSUME NEW w \in Worker, NEW g \in Grant, NEW n \in 0..UseLimit, GrantSettled(w, g, n)
       PROVE  Goal
  BY <1>3, <1>4, <1>9, <1>14 DEF GrantSettled, Asking, InPhase, vars
<1>15. ASSUME NEW w \in Worker, Consume(w) PROVE Goal
  <2> DEFINE a == flight[w].of
  <2>1. /\ flight[w] # None /\ a \in Authorization /\ a \notin Waiting
        /\ flight' = [flight EXCEPT ![w] = [of |-> a, phase |-> "consumed"]]
        /\ UNCHANGED <<outcomes, dispatches, answer>>
    BY <1>3, <1>15, BoundaryAssumption DEF Consume, InPhase, Fly
  <2>2. /\ Holds(a, FirstKey) /\ audits[a].status = "authorized"
        /\ consumed' = [consumed EXCEPT ![a] = @ + 1]
    <3>1. ~ConsumeAgain(a, FirstKey)
      BY <2>1, Commands DEF ExecInv, OneTurn, ConsumeAgain, Holds
    <3> QED BY <1>15, <3>1 DEF Consume, ConsumePermit
  <2>3. consumed[a] = 0
    <3>1. consumed[a] \in Nat
      BY <2>1 DEF ExecInv, ExecTypeOK, TypeOK
    <3>2. ~(consumed[a] > 0)
      BY <2>1, <2>2 DEF ExecInv, SpentOnRecord
    <3> QED BY <3>1, <3>2
  <2>4. outcomes[a] = "none" /\ dispatches[a] = 0
    BY <2>1, <2>3 DEF ExecInv, ExecTypeOK, TruthfulRecords
  <2>5. \A v \in Worker : ~Past(v, a)
    BY <2>1, <2>3 DEF ExecInv, OneExecution
  <2>6. /\ consumed'[a] = 1 /\ \A b \in Authorization : b # a => consumed'[b] = consumed[b]
    BY <2>1, <2>2, <2>3 DEF ExecInv, ExecTypeOK, TypeOK
  <2> HIDE DEF a
  <2>7. /\ flight' \in [Worker -> Flight \cup {None}]
        /\ flight'[w] = [of |-> a, phase |-> "consumed"]
        /\ \A v \in Worker : v # w => flight'[v] = flight[v]
    BY <2>1 DEF ExecInv, ExecTypeOK, Flight, Phases
  <2>8. \A v \in Worker, b \in Authorization :
          Past(v, b)' => (v = w /\ b = a) \/ (v # w /\ b # a /\ Past(v, b) /\ flight'[v] = flight[v])
    BY <2>5, <2>7 DEF Past
  <2>9. OneExecution'
    BY <2>1, <2>4, <2>6, <2>7, <2>8 DEF ExecInv, OneExecution
  <2>10. TruthfulRecords'
    BY <2>1, <2>6 DEF ExecInv, TruthfulRecords
  <2> QED BY <2>1, <2>7, <2>9, <2>10 DEF ExecInv, ExecTypeOK
<1>16. ASSUME NEW w \in Worker, ConsumeFails(w) PROVE Goal
  BY <1>3, <1>4, <1>16 DEF ConsumeFails, InPhase, Abandon, Answers
<1>17. ASSUME NEW w \in Worker, Record(w) PROVE Goal
  <2> DEFINE a == flight[w].of
  <2>1. /\ flight[w] # None /\ a \in Authorization /\ Past(w, a) /\ flight[w].phase = "consumed"
        /\ UNCHANGED <<dispatches, answer, consumed>>
    BY <1>3, <1>17 DEF Record, InPhase, Past, vars
  <2>2. consumed[a] > 0 /\ outcomes[a] = "none" /\ dispatches[a] = 0
    BY <2>1 DEF ExecInv, OneExecution
  <2>3. outcomes' = [outcomes EXCEPT ![a] = "permit-consumed"]
    BY <1>17, <2>2 DEF Record
  <2>4. flight' = [flight EXCEPT ![w].phase = "recorded"] /\ "recorded" \in Phases
    BY <1>17 DEF Record, Phases
  <2>5. /\ flight' \in [Worker -> Flight \cup {None}]
        /\ flight'[w] # None /\ flight'[w].of = a /\ flight'[w].phase = "recorded"
        /\ \A v \in Worker : v # w => flight'[v] = flight[v]
    BY <2>1, <2>4, PhaseType DEF ExecInv
  <2> HIDE DEF a
  <2>6. /\ outcomes'[a] = "permit-consumed"
        /\ \A b \in Authorization : b # a => outcomes'[b] = outcomes[b]
        /\ outcomes' \in [Authorization -> Outcomes]
    BY <2>1, <2>3 DEF ExecInv, ExecTypeOK, Outcomes
  <2>7. \A v \in Worker, b \in Authorization :
          Past(v, b)' => (v = w /\ b = a) \/ (v # w /\ b # a /\ Past(v, b) /\ flight'[v] = flight[v])
    BY <2>1, <2>5 DEF ExecInv, OneExecution, Past
  <2>8. OneExecution'
    BY <2>1, <2>2, <2>5, <2>6, <2>7 DEF ExecInv, OneExecution
  <2>9. TruthfulRecords'
    BY <2>1, <2>2, <2>6 DEF ExecInv, TruthfulRecords
  <2> QED BY <2>1, <2>5, <2>6, <2>8, <2>9 DEF ExecInv, ExecTypeOK
<1>18. ASSUME NEW w \in Worker, RecordFails(w) PROVE Goal
  BY <1>3, <1>4, <1>18 DEF RecordFails, InPhase, vars, Answers
<1>19. ASSUME NEW w \in Worker, Dispatch(w) PROVE Goal
  <2> DEFINE a == flight[w].of
  <2>1. /\ flight[w] # None /\ a \in Authorization /\ Past(w, a) /\ flight[w].phase = "recorded"
        /\ UNCHANGED <<outcomes, answer, consumed>>
        /\ dispatches' = [dispatches EXCEPT ![a] = @ + 1]
    BY <1>3, <1>19 DEF Dispatch, InPhase, Past, vars
  <2>2. consumed[a] > 0 /\ outcomes[a] = "permit-consumed" /\ dispatches[a] = 0
    BY <2>1 DEF ExecInv, OneExecution
  <2>3. flight' = [flight EXCEPT ![w].phase = "dispatched"] /\ "dispatched" \in Phases
    BY <1>19 DEF Dispatch, Phases
  <2>4. /\ flight' \in [Worker -> Flight \cup {None}]
        /\ flight'[w] # None /\ flight'[w].of = a /\ flight'[w].phase = "dispatched"
        /\ \A v \in Worker : v # w => flight'[v] = flight[v]
    BY <2>1, <2>3, PhaseType DEF ExecInv
  <2> HIDE DEF a
  <2>5. /\ dispatches'[a] = 1
        /\ \A b \in Authorization : b # a => dispatches'[b] = dispatches[b]
        /\ dispatches' \in [Authorization -> Nat]
    BY <2>1, <2>2 DEF ExecInv, ExecTypeOK
  <2>6. \A v \in Worker, b \in Authorization :
          Past(v, b)' => (v = w /\ b = a) \/ (v # w /\ b # a /\ Past(v, b) /\ flight'[v] = flight[v])
    BY <2>1, <2>4 DEF ExecInv, OneExecution, Past
  <2>7. OneExecution'
    BY <2>1, <2>2, <2>4, <2>5, <2>6 DEF ExecInv, OneExecution
  <2>8. TruthfulRecords'
    BY <2>1, <2>2, <2>5 DEF ExecInv, TruthfulRecords
  <2> QED BY <2>1, <2>4, <2>5, <2>7, <2>8 DEF ExecInv, ExecTypeOK
<1>20. ASSUME NEW w \in Worker, NEW s \in {"succeeded", "failed"}, Complete(w, s) PROVE Goal
  <2> DEFINE a == flight[w].of
             r == IF s = "succeeded" THEN "executed" ELSE "failed"
  <2>1. /\ flight[w] # None /\ a \in Authorization /\ Past(w, a) /\ flight[w].phase = "dispatched"
        /\ UNCHANGED <<dispatches, consumed>>
        /\ outcomes' = [outcomes EXCEPT ![a] = s]
        /\ flight' = [flight EXCEPT ![w] = None] /\ answer' = [answer EXCEPT ![a] = r]
    BY <1>3, <1>20 DEF Complete, Reply, InPhase, Past, vars
  <2>2. consumed[a] > 0 /\ outcomes[a] = "permit-consumed" /\ dispatches[a] = 1
    BY <2>1 DEF ExecInv, OneExecution
  <2>3. r \in Answers /\ (r = "executed" => s = "succeeded")
    BY DEF Answers
  <2> HIDE DEF a, r
  <2>4. /\ flight' \in [Worker -> Flight \cup {None}] /\ flight'[w] = None
        /\ \A v \in Worker : v # w => flight'[v] = flight[v]
        /\ outcomes' \in [Authorization -> Outcomes] /\ outcomes'[a] = s
        /\ \A b \in Authorization : b # a => outcomes'[b] = outcomes[b]
        /\ answer' \in [Authorization -> Answers] /\ answer'[a] = r
        /\ \A b \in Authorization : b # a => answer'[b] = answer[b]
    BY <2>1, <2>3 DEF ExecInv, ExecTypeOK, Outcomes
  <2>5. \A v \in Worker, b \in Authorization :
          Past(v, b)' => v # w /\ b # a /\ Past(v, b) /\ flight'[v] = flight[v]
    BY <2>1, <2>4 DEF ExecInv, OneExecution, Past
  <2>6. OneExecution'
    BY <2>1, <2>4, <2>5 DEF ExecInv, OneExecution
  <2>7. TruthfulRecords'
    BY <2>1, <2>2, <2>3, <2>4 DEF ExecInv, TruthfulRecords
  <2> QED BY <2>1, <2>4, <2>6, <2>7 DEF ExecInv, ExecTypeOK
<1>21. ASSUME NEW w \in Worker, CompleteFails(w) PROVE Goal
  BY <1>3, <1>4, <1>21 DEF CompleteFails, InPhase, vars, Answers
<1>22. ASSUME UNCHANGED execVars, UNCHANGED consumed PROVE Goal
  BY <1>22 DEF execVars, ExecInv, ExecTypeOK, OneExecution, TruthfulRecords, Past
<1>23. ASSUME NEW rules \in [Request -> Effects], ExecRestart(rules) PROVE Goal
  BY <1>23 DEF ExecRestart, Restart, ExecInv, ExecTypeOK, OneExecution, TruthfulRecords, Past
<1>24. Goal
  BY <1>6, <1>7, <1>8, <1>10, <1>11, <1>12, <1>13, <1>14, <1>15, <1>16, <1>17, <1>18, <1>19,
     <1>20, <1>21, <1>22, <1>23
     DEF ExecNext, Approve, CreateApprovalGrant, ExecTick, Tick, allVars, vars
<1> QED BY <1>2, <1>24 DEF ExecInv, ExecTypeOK

LEMMA ExecutionInit == ExecInit => ExecInv
<1> SUFFICES ASSUME ExecInit PROVE ExecInv
  OBVIOUS
<1>1. TypeOK
  BY InitType DEF ExecInit
<1>2. SpentOnRecord /\ OneTurn
  BY DEF ExecInit, Init, SpentOnRecord, OneTurn, NoPermits
<1>3. /\ flight \in [Worker -> Flight \cup {None}] /\ \A w \in Worker : flight[w] = None
      /\ \A a \in Authorization : outcomes[a] = "none" /\ dispatches[a] = 0 /\ answer[a] = "none"
      /\ outcomes \in [Authorization -> Outcomes] /\ dispatches \in [Authorization -> Nat]
      /\ answer \in [Authorization -> Answers]
  BY DEF ExecInit, Outcomes, Answers
<1> QED BY <1>1, <1>2, <1>3 DEF ExecInv, ExecTypeOK, OneExecution, TruthfulRecords, Past

(* The executions, their records and answers have their types.             *)
THEOREM ExecTypeCorrect == ExecSpec => []ExecTypeOK
<1>1. ExecInv => ExecTypeOK
  BY DEF ExecInv
<1> QED BY <1>1, ExecutionInit, ExecutionStep, PTL DEF ExecSpec

(* One request dispatches its target at most once, however often and by    *)
(* however many overlapping runtimes it is executed.                       *)
THEOREM OneDispatch == ExecSpec => []DispatchedAtMostOnce
<1>1. ExecInv => DispatchedAtMostOnce
  BY DEF ExecInv, TruthfulRecords, DispatchedAtMostOnce
<1> QED BY <1>1, ExecutionInit, ExecutionStep, PTL DEF ExecSpec

(* What was dispatched was authorized, consumed and recorded before; what  *)
(* is recorded as settled or answered as executed was dispatched.          *)
THEOREM RecordsTellTheTruth == ExecSpec => []OutcomesTellTheTruth
<1>1. ASSUME ExecInv
      PROVE  OutcomesTellTheTruth
  <2> SUFFICES ASSUME NEW a \in Authorization
               PROVE  /\ dispatches[a] > 0 => outcomes[a] # "none" /\ audits[a].status = "consumed"
                      /\ outcomes[a] # "none" => consumed[a] = 1
                      /\ outcomes[a] \in {"succeeded", "failed"} => dispatches[a] = 1
                      /\ answer[a] = "executed" => outcomes[a] = "succeeded"
    BY DEF OutcomesTellTheTruth
  <2>1. consumed[a] \in Nat /\ consumed[a] <= 1 /\ (consumed[a] > 0 => audits[a].status = "consumed")
    BY <1>1, BoundaryAssumption DEF ExecInv, ExecTypeOK, TypeOK, SpentOnRecord, OneTurn
  <2> QED BY <1>1, <2>1 DEF ExecInv, TruthfulRecords
<1> QED BY <1>1, ExecutionInit, ExecutionStep, PTL DEF ExecSpec

-----------------------------------------------------------------------------
(* The contract.                                                           *)
LEMMA ContractInit ==
  ASSUME ExecInit, NEW a \in Authorization
  PROVE  Contract(a)!Init
BY DEF ExecInit, Init, NoAudit, Contract!Init

LEMMA ContractStep ==
  ASSUME ExecInv, [ExecNext]_allVars, NEW a \in Authorization
  PROVE  [Contract(a)!Next]_(Contract(a)!contractVars)
<1> DEFINE Keeps == /\ outcomes'[a] = outcomes[a] /\ dispatches'[a] = dispatches[a]
           Same == (audits'[a].status = "consumed") = (audits[a].status = "consumed")
<1> SUFFICES \/ Keeps /\ Same
             \/ /\ Keeps /\ outcomes[a] = "none"
                /\ audits[a].status # "consumed" /\ audits'[a].status = "consumed"
             \/ /\ Same /\ audits[a].status = "consumed"
                /\ outcomes[a] = "none" /\ outcomes'[a] = "permit-consumed"
                /\ dispatches'[a] = dispatches[a]
             \/ /\ Same /\ outcomes[a] = "permit-consumed" /\ outcomes'[a] = outcomes[a]
                /\ dispatches[a] = 0 /\ dispatches'[a] = 1
             \/ /\ Same /\ outcomes[a] = "permit-consumed" /\ dispatches[a] = 1
                /\ outcomes'[a] \in {"succeeded", "failed"} /\ dispatches'[a] = dispatches[a]
  BY DEF Contract!Next, Contract!contractVars, Contract!Spend, Contract!Record, Contract!Deliver,
         Contract!Settle
<1>1. [Next]_vars
  BY ServiceStep DEF ExecInv, ExecTypeOK
<1>2. CASE Keeps
  <2>1. audits[a].status = "consumed" => audits'[a].status = "consumed"
    BY <1>1, Course DEF ExecInv, ExecTypeOK
  <2>2. CASE audits[a].status # "consumed" /\ audits'[a].status = "consumed"
    <3>1. outcomes[a] = "none"
      BY <2>2 DEF ExecInv, SpentOnRecord, TruthfulRecords
    <3> QED BY <1>2, <2>2, <3>1
  <2> QED BY <1>2, <2>1, <2>2
<1>3. CASE ~Keeps
  <2>1. \/ \E w \in Worker : Record(w) \/ Dispatch(w)
        \/ \E w \in Worker, s \in {"succeeded", "failed"} : Complete(w, s)
    BY <1>3 DEF ExecNext, BeginPermitted, BeginAsking, BeginDenied, BeginSettled, NoGrantYet,
       GrantPermitted, GrantRefused, GrantSettled, Consume, ConsumeFails, RecordFails,
       CompleteFails, Approve, ExecTick, ExecRestart, Answer, Fly, execVars, allVars
  <2>2. ASSUME NEW w \in Worker, flight[w] # None, flight[w].of # a,
               \/ Record(w) \/ Dispatch(w)
               \/ \E s \in {"succeeded", "failed"} : Complete(w, s)
        PROVE  FALSE
    BY <1>3, <2>2 DEF Record, Dispatch, Complete, ExecInv, ExecTypeOK
  <2>3. PICK w \in Worker : /\ flight[w] # None /\ flight[w].of = a
                            /\ \/ Record(w) \/ Dispatch(w)
                               \/ \E s \in {"succeeded", "failed"} : Complete(w, s)
    BY <2>1, <2>2 DEF Record, Dispatch, Complete, InPhase
  <2>4. UNCHANGED audits
    BY <2>3 DEF Record, Dispatch, Complete, vars
  <2>5. CASE Record(w)
    <3>1. Past(w, a) /\ flight[w].phase = "consumed"
      BY <2>3, <2>5 DEF Record, InPhase, Past
    <3>2. outcomes[a] = "none" /\ audits[a].status = "consumed"
      BY <3>1 DEF ExecInv, OneExecution, SpentOnRecord
    <3>3. outcomes'[a] = "permit-consumed" /\ UNCHANGED dispatches
      BY <2>3, <2>5, <3>2 DEF Record, ExecInv, ExecTypeOK
    <3> QED BY <2>4, <3>2, <3>3
  <2>6. CASE Dispatch(w)
    <3>1. Past(w, a) /\ flight[w].phase = "recorded"
      BY <2>3, <2>6 DEF Dispatch, InPhase, Past
    <3>2. outcomes[a] = "permit-consumed" /\ dispatches[a] = 0
      BY <3>1 DEF ExecInv, OneExecution
    <3>3. dispatches'[a] = 1 /\ UNCHANGED outcomes
      BY <2>3, <2>6, <3>2 DEF Dispatch, ExecInv, ExecTypeOK
    <3> QED BY <2>4, <3>2, <3>3
  <2>7. ASSUME NEW s \in {"succeeded", "failed"}, Complete(w, s)
        PROVE  /\ outcomes[a] = "permit-consumed" /\ dispatches[a] = 1
               /\ outcomes'[a] = s /\ UNCHANGED dispatches
    <3>1. Past(w, a) /\ flight[w].phase = "dispatched"
      BY <2>3, <2>7 DEF Complete, InPhase, Past
    <3>2. outcomes[a] = "permit-consumed" /\ dispatches[a] = 1
      BY <3>1 DEF ExecInv, OneExecution
    <3> QED BY <2>3, <2>7, <3>2 DEF Complete, ExecInv, ExecTypeOK
  <2> QED BY <2>3, <2>4, <2>5, <2>6, <2>7
<1> QED BY <1>2, <1>3

(* Each request is authorized, recorded, dispatched and settled in this    *)
(* order and at most once.                                                 *)
THEOREM ImplementsContract == ExecSpec => KeepsContract
<1>1. ExecInit => \A a \in Authorization : Contract(a)!Init
  BY ContractInit
<1>2. ExecInv /\ [ExecNext]_allVars =>
        [\A a \in Authorization : [Contract(a)!Next]_(Contract(a)!contractVars)]_allVars
  BY ContractStep
<1> QED BY <1>1, <1>2, ExecutionInit, ExecutionStep, PTL DEF ExecSpec, KeepsContract
=============================================================================
