------------------------- MODULE ResourceStoreProofs -------------------------
(***************************************************************************)
(* Theorems about ResourceStore, for every set of resources, keys, states  *)
(* and clients, batches of any length and an unbounded clock.              *)
(***************************************************************************)
EXTENDS ResourceStore, SequenceTheorems, LeastElements, TLAPS

(* What one accepted command makes of a row.                               *)
LEMMA ResultType ==
  ASSUME NEW rows \in [Res -> Version \cup {None}], NEW c \in Command, Accepts(rows, c)
  PROVE  /\ c.res \in Res /\ c.key \in Key
         /\ Result(rows, c) \in Version
<1>1. c.res \in Res /\ c.key \in Key /\ c.at \in Nat /\ c.expected \in Nat
  BY DEF Command
<1>2. CASE c.op = "create"
  <2>1. c.state \in State
    BY <1>2 DEF Command
  <2> QED BY <1>1, <1>2, <2>1 DEF Result, Version
<1>3. CASE c.op # "create"
  <2>1. rows[c.res] \in Version
    BY <1>1, <1>3 DEF Accepts
  <2> DEFINE st == IF c.op = "delete" THEN rows[c.res].state ELSE c.state
  <2>2. st \in State
    BY <1>3, <2>1 DEF Command, Version
  <2>3. c.expected + 1 \in Nat
    BY <1>1
  <2>4. Result(rows, c) = [rows[c.res] EXCEPT !.revision = c.expected + 1, !.state = st,
                             !.deleted = (c.op = "delete"), !.updatedAt = c.at]
    BY <1>3 DEF Result
  <2> HIDE DEF st
  <2> QED BY <1>1, <2>1, <2>2, <2>3, <2>4 DEF Version
<1> QED BY <1>1, <1>2, <1>3

(* One accepted command under a new key extends the chain of its resource  *)
(* by one link and leaves every other chain alone.                         *)
LEMMA ChainExtends ==
  ASSUME NEW rows \in [Res -> Version \cup {None}],
         NEW log \in [Key -> Mutation \cup {None}],
         NEW c \in Command, Accepts(rows, c), log[c.key] = None,
         \A r \in Res : ValidChain(rows, log, r),
         BuiltOnPredecessor(log),
         c.op # "create" =>
           \E k \in MutationsOf(log, c.res) :
             log[k].result = c.base /\ c.base.revision = c.expected,
         NEW m, m = [command |-> c, result |-> Result(rows, c)]
  PROVE  /\ \A r \in Res : ValidChain([rows EXCEPT ![c.res] = m.result],
                                      [log EXCEPT ![c.key] = m], r)
         /\ BuiltOnPredecessor([log EXCEPT ![c.key] = m])
<1> DEFINE rows2 == [rows EXCEPT ![c.res] = m.result]
           log2 == [log EXCEPT ![c.key] = m]
<1>1. /\ c.res \in Res /\ c.key \in Key /\ c.at \in Nat /\ c.expected \in Nat
      /\ m.result \in Version /\ m.command = c /\ m \in Mutation /\ m # None
  BY ResultType, StoreAssumption DEF Command, Mutation
<1>2. /\ rows2[c.res] = m.result
      /\ \A r \in Res : r # c.res => rows2[r] = rows[r]
      /\ log2[c.key] = m
      /\ \A k \in Key : k # c.key => log2[k] = log[k]
  BY <1>1
<1>3. /\ MutationsOf(log2, c.res) = MutationsOf(log, c.res) \cup {c.key}
      /\ c.key \notin MutationsOf(log, c.res)
      /\ \A r \in Res : r # c.res => /\ MutationsOf(log2, r) = MutationsOf(log, r)
                                     /\ c.key \notin MutationsOf(log, r)
  BY <1>1, <1>2 DEF MutationsOf
<1>4. \A k \in Key : log[k] # None =>
        /\ log[k].result.revision \in Nat
        /\ log[k].command.at \in Nat
  BY DEF Mutation, Version, Command
<1>5. ASSUME c.op = "create"
      PROVE  /\ MutationsOf(log, c.res) = {}
             /\ First(m)
             /\ m.result.revision = 0
             /\ m.result.updatedAt = c.at
  BY <1>1, <1>5 DEF Accepts, ValidChain, First, Result
<1>6. ASSUME c.op # "create"
      PROVE  \E p \in MutationsOf(log, c.res) :
               /\ log[p].result = rows[c.res]
               /\ log[p].result = c.base
               /\ Follows(m, log[p])
               /\ m.result.revision = rows[c.res].revision + 1
               /\ m.result.updatedAt = c.at
  <2>1. rows[c.res] \in Version /\ ~rows[c.res].deleted
        /\ rows[c.res].revision = c.expected /\ rows[c.res].updatedAt <= c.at
    BY <1>1, <1>6 DEF Accepts
  <2>2. PICK p \in MutationsOf(log, c.res) :
          log[p].result = rows[c.res] /\ log[p].command.at = rows[c.res].updatedAt
    BY <1>1, <2>1, StoreAssumption DEF ValidChain
  <2>3. PICK k \in MutationsOf(log, c.res) :
          log[k].result = c.base /\ c.base.revision = c.expected
    BY <1>6
  <2>4. k = p
    BY <1>1, <2>1, <2>2, <2>3, StoreAssumption DEF ValidChain
  <2>5. m.result = [rows[c.res] EXCEPT
                      !.revision = c.expected + 1,
                      !.state = IF c.op = "delete" THEN rows[c.res].state ELSE c.state,
                      !.deleted = (c.op = "delete"),
                      !.updatedAt = c.at]
    BY <1>6 DEF Result
  <2>6. /\ m.result.revision = c.expected + 1
        /\ m.result.state = IF c.op = "delete" THEN rows[c.res].state ELSE c.state
        /\ m.result.deleted = (c.op = "delete")
        /\ m.result.updatedAt = c.at
        /\ m.result.createdAt = rows[c.res].createdAt
    BY <2>1, <2>5 DEF Version
  <2>7. Follows(m, log[p])
    BY <1>1, <1>6, <2>1, <2>2, <2>6 DEF Follows
  <2> QED BY <2>1, <2>2, <2>3, <2>4, <2>6, <2>7
<1> HIDE DEF rows2, log2
<1>7. ValidChain(rows2, log2, c.res)
  <2>1. m.result # None
    BY <1>1, StoreAssumption
  <2>2. CASE c.op = "create"
    BY <1>1, <1>2, <1>3, <1>5, <2>1, <2>2 DEF ValidChain, Version
  <2>3. CASE c.op # "create"
    <3>1. PICK p \in MutationsOf(log, c.res) :
            /\ log[p].result = rows[c.res]
            /\ Follows(m, log[p])
            /\ m.result.revision = rows[c.res].revision + 1
            /\ m.result.updatedAt = c.at
      BY <1>6, <2>3
    <3>2. /\ rows[c.res] # None /\ rows[c.res].revision \in Nat
          /\ \A k \in MutationsOf(log, c.res) :
               k \in Key /\ k # c.key /\ log2[k] = log[k]
               /\ log[k].result.revision \in Nat
               /\ log[k].result.revision <= rows[c.res].revision
      BY <1>1, <1>2, <1>3, <1>4, <2>3 DEF Accepts, ValidChain, MutationsOf, Version
    <3>3. \E k \in MutationsOf(log2, c.res) :
            log2[k].result = rows2[c.res] /\ log2[k].command.at = rows2[c.res].updatedAt
      BY <1>1, <1>2, <1>3, <3>1
    <3>4. \A k \in MutationsOf(log2, c.res) : log2[k].result.revision <= rows2[c.res].revision
      BY <1>1, <1>2, <1>3, <3>1, <3>2
    <3>5. \A j, k \in MutationsOf(log2, c.res) :
            log2[j].result.revision = log2[k].result.revision => j = k
      BY <1>1, <1>2, <1>3, <3>1, <3>2 DEF ValidChain
    <3>6. \A k \in MutationsOf(log2, c.res) :
            First(log2[k]) \/ \E j \in MutationsOf(log2, c.res) : Follows(log2[k], log2[j])
      BY <1>1, <1>2, <1>3, <3>1, <3>2 DEF ValidChain
    <3> QED BY <1>2, <2>1, <3>3, <3>4, <3>5, <3>6 DEF ValidChain
  <2> QED BY <2>2, <2>3
<1>8. ASSUME NEW r \in Res, r # c.res PROVE ValidChain(rows2, log2, r)
  <2>1. /\ rows2[r] = rows[r] /\ MutationsOf(log2, r) = MutationsOf(log, r)
        /\ \A k \in MutationsOf(log, r) : log2[k] = log[k]
    BY <1>2, <1>3, <1>8 DEF MutationsOf
  <2> QED BY <1>8, <2>1 DEF ValidChain
<1>9. BuiltOnPredecessor(log2)
  <2> SUFFICES ASSUME NEW k \in Key, log2[k] # None, log2[k].command.op # "create"
               PROVE  \E j \in MutationsOf(log2, log2[k].command.res) :
                        log2[j].result = log2[k].command.base /\ Follows(log2[k], log2[j])
    BY DEF BuiltOnPredecessor
  <2>1. CASE k = c.key
    <3>1. PICK p \in MutationsOf(log, c.res) :
            log[p].result = c.base /\ Follows(m, log[p])
      BY <1>1, <1>2, <1>6, <2>1
    <3>2. log2[p] = log[p] /\ p \in MutationsOf(log2, c.res)
      BY <1>2, <1>3, <3>1 DEF MutationsOf
    <3> QED BY <1>1, <1>2, <2>1, <3>1, <3>2
  <2>2. CASE k # c.key
    <3>1. PICK j \in MutationsOf(log, log[k].command.res) :
            log[j].result = log[k].command.base /\ Follows(log[k], log[j])
      BY <1>2, <2>2 DEF BuiltOnPredecessor
    <3>2. j \in Key /\ j # c.key /\ log[k].command.res \in Res
      BY <1>2, <2>2, <3>1 DEF MutationsOf, Mutation, Command
    <3>3. log2[j] = log[j] /\ j \in MutationsOf(log2, log2[k].command.res)
      BY <1>2, <2>2, <3>1, <3>2 DEF MutationsOf
    <3> QED BY <1>2, <2>2, <3>1, <3>3
  <2> QED BY <2>1, <2>2
<1> QED BY <1>7, <1>8, <1>9 DEF rows2, log2

-----------------------------------------------------------------------------
LEMMA PreparedType ==
  ASSUME TypeOK, NEW p \in Proposal, NEW keys \in SUBSET Key,
         p.op # "create" => Live(p.res)
  PROVE  Prepared(p, keys) \in Command
<1>1. p.res \in Res /\ p.key \in Key /\ p.at \in Nat
  BY StoreAssumption DEF Proposal
<1>2. CASE p.op = "create"
  BY <1>1, <1>2 DEF Prepared, Proposal, Command
<1>3. CASE p.op # "create"
  <2>1. resources[p.res] \in Version /\ resources[p.res].revision \in Nat
    BY <1>1, <1>3 DEF Live, TypeOK, Version
  <2> QED BY <1>1, <1>3, <2>1 DEF Prepared, Proposal, Command
<1> QED BY <1>2, <1>3

(* A proposed batch turned into commands: as long, and command by command. *)
LEMMA PreparedBatch ==
  ASSUME TypeOK, NEW c \in Client, NEW ps \in Proposals, Prepare(c, ps)
  PROVE  /\ batch'[c] \in Seq(Command)
         /\ DOMAIN batch'[c] = DOMAIN ps
         /\ batch'[c] # <<>>
         /\ \A i \in DOMAIN ps :
              /\ ps[i] \in Proposal
              /\ batch'[c][i] = Prepared(ps[i], {ps[j].key : j \in DOMAIN ps})
<1> DEFINE keys == {ps[j].key : j \in DOMAIN ps}
<1>1. PICK n \in 1..MaxBatch : ps \in [1..n -> Proposal]
  BY DEF Proposals
<1>2. n \in Nat /\ n >= 1 /\ DOMAIN ps = 1..n
  BY <1>1, StoreAssumption
<1>3. \A i \in 1..n : ps[i] \in Proposal /\ ps[i].key \in Key
  BY <1>1 DEF Proposal
<1>4. keys \in SUBSET Key
  BY <1>2, <1>3
<1>5. batch'[c] = [i \in 1..n |-> Prepared(ps[i], keys)]
  BY <1>2 DEF Prepare, TypeOK
<1> HIDE DEF keys
<1>6. \A i \in 1..n : Prepared(ps[i], keys) \in Command
  BY <1>2, <1>3, <1>4, PreparedType DEF Prepare
<1>7. batch'[c] \in [1..n -> Command]
  BY <1>5, <1>6
<1>8. batch'[c] \in Seq(Command)
  BY <1>2, <1>7
<1>9. batch'[c] # <<>>
  BY <1>2, <1>5
<1> QED BY <1>2, <1>3, <1>5, <1>8, <1>9 DEF keys

(* A batch under way: what its caller holds and, once the transaction has  *)
(* begun, what the transaction's view of the store is.                     *)
BatchInv ==
  \A c \in Client :
    LET b == batch[c]
    IN  /\ b = <<>> => answer[c] = <<>>
        /\ \A i, j \in DOMAIN b : i # j => b[i].key # b[j].key
        /\ \A i \in DOMAIN b : b[i].siblings = {b[j].key : j \in DOMAIN b}
        /\ \A i \in DOMAIN b : b[i].op # "create" =>
             \E k \in MutationsOf(mutations, b[i].res) :
               mutations[k].result = b[i].base /\ b[i].base.revision = b[i].expected

(* The first txn.done commands are in the log, the keys of the others and  *)
(* of the committed log are as before, and both audits already pass.       *)
TxnInv ==
  txn # None =>
    LET b == batch[txn.client]
    IN  /\ b # <<>>
        /\ answer[txn.client] = <<>>
        /\ txn.done <= Len(b)
        /\ \A i \in DOMAIN b :
             /\ mutations[b[i].key] = None
             /\ i <= txn.done => /\ txn.log[b[i].key] # None
                                 /\ txn.log[b[i].key].command = b[i]
             /\ i > txn.done => txn.log[b[i].key] = None
        /\ \A k \in Key : (\A i \in DOMAIN b : b[i].key # k) => txn.log[k] = mutations[k]
        /\ \A r \in Res : (resources[r] # None /\ resources[r].deleted)
                          => txn.rows[r] = resources[r]
        /\ \A r \in Res : ValidChain(txn.rows, txn.log, r)
        /\ BuiltOnPredecessor(txn.log)

IndInv ==
  /\ TypeOK
  /\ BatchInv
  /\ TxnInv
  /\ AuditPasses
  /\ AllOrNothing
  /\ AnswersAreRecorded
  /\ BuiltOnPredecessor(mutations)

(* The transaction only adds to the committed log.                         *)
LEMMA LogExtends ==
  ASSUME IndInv, txn # None, NEW k \in Key, mutations[k] # None
  PROVE  txn.log[k] = mutations[k]
BY DEF IndInv, TxnInv

LEMMA TypeInductive ==
  ASSUME IndInv, [Next]_vars
  PROVE  TypeOK'
<1> TypeOK
  BY DEF IndInv
<1>1. ASSUME NEW c \in Client, NEW ps \in Requests, Prepare(c, ps) PROVE TypeOK'
  <2> ps \in Proposals
    BY RequestsAssumption
  <2>1. batch'[c] \in Seq(Command)
    BY <1>1, PreparedBatch
  <2>2. batch' \in [Client -> Seq(Command)]
    BY <1>1, <2>1 DEF Prepare, TypeOK
  <2> QED BY <1>1, <2>2 DEF Prepare, TypeOK
<1>2. ASSUME NEW c \in Client, Begin(c) PROVE TypeOK'
  BY <1>2 DEF Begin, TypeOK, Transaction
<1>3. ASSUME NEW c \in Client, Replay(c) PROVE TypeOK'
  <2> DEFINE b == batch[c]
             a == [i \in DOMAIN b |-> mutations[b[i].key].result]
  <2>1. b \in Seq(Command) /\ DOMAIN b = 1..Len(b) /\ Len(b) \in Nat
    BY DEF TypeOK
  <2>2. \A i \in DOMAIN b : mutations[b[i].key].result \in Version
    <3> SUFFICES ASSUME NEW i \in DOMAIN b PROVE mutations[b[i].key].result \in Version
      OBVIOUS
    <3>1. b[i] \in Command
      BY <2>1
    <3>2. mutations[b[i].key] # None
      BY <1>3 DEF Replay, Recorded
    <3>3. mutations[b[i].key] \in Mutation
      BY <3>1, <3>2 DEF TypeOK, Command
    <3> QED BY <3>3 DEF Mutation
  <2>3. a \in Seq(Version)
    BY <2>1, <2>2
  <2> QED BY <1>3, <2>3 DEF Replay, TypeOK
<1>4. ASSUME NEW c \in Client, Conflict(c) PROVE TypeOK'
  BY <1>4 DEF Conflict, TypeOK
<1>5. ASSUME NEW c \in Client, Execute(c) PROVE TypeOK'
  <2> DEFINE m == [command |-> NextCommand, result |-> Result(txn.rows, NextCommand)]
  <2>1. txn \in Transaction /\ txn.client = c /\ Accepts(txn.rows, NextCommand)
    BY <1>5 DEF Execute, Running, TypeOK
  <2>2. /\ txn.done \in Nat /\ txn.rows \in [Res -> Version \cup {None}]
        /\ txn.log \in [Key -> Mutation \cup {None}]
    BY <2>1 DEF Transaction
  <2>3. batch[c] \in Seq(Command) /\ txn.done + 1 \in 1..Len(batch[c])
    BY <1>5, <2>1, <2>2 DEF Execute, TypeOK
  <2>4. NextCommand \in Command
    BY <2>1, <2>3 DEF NextCommand
  <2>5. m \in Mutation /\ m.command.res \in Res /\ m.command.key \in Key /\ m.result \in Version
    BY <2>1, <2>2, <2>4, ResultType DEF Mutation
  <2>6. txn' = [txn EXCEPT !.done = txn.done + 1,
                           !.rows = [txn.rows EXCEPT ![m.command.res] = m.result],
                           !.log = [txn.log EXCEPT ![m.command.key] = m]]
    BY <1>5 DEF Execute
  <2> HIDE DEF m
  <2>7. /\ txn.done + 1 \in Nat
        /\ [txn.rows EXCEPT ![m.command.res] = m.result] \in [Res -> Version \cup {None}]
        /\ [txn.log EXCEPT ![m.command.key] = m] \in [Key -> Mutation \cup {None}]
    BY <2>2, <2>5
  <2>8. txn' \in Transaction
    BY <2>1, <2>6, <2>7 DEF Transaction
  <2> QED BY <1>5, <2>8 DEF Execute, TypeOK
<1>6. ASSUME NEW c \in Client, Rollback(c) PROVE TypeOK'
  BY <1>6 DEF Rollback, TypeOK
<1>7. ASSUME NEW c \in Client, CommitTxn(c)
      PROVE  /\ resources' \in [Res -> Version \cup {None}]
             /\ mutations' \in [Key -> Mutation \cup {None}]
             /\ txn' \in Transaction \cup {None}
  BY <1>7 DEF CommitTxn, Running, TypeOK, Transaction
<1>13. ASSUME NEW c \in Client, Commit(c) PROVE TypeOK'
  <2> DEFINE b == batch[c]
             a == [i \in DOMAIN b |-> txn.log[b[i].key].result]
  <2>1. b \in Seq(Command) /\ DOMAIN b = 1..Len(b) /\ Len(b) \in Nat
    BY DEF TypeOK
  <2>2. txn # None /\ txn.client = c /\ txn.done = Len(b)
    BY <1>13 DEF Commit, CommitTxn, Running
  <2>3. \A i \in DOMAIN b : txn.log[b[i].key].result \in Version
    <3> SUFFICES ASSUME NEW i \in DOMAIN b PROVE txn.log[b[i].key].result \in Version
      OBVIOUS
    <3>1. b[i] \in Command
      BY <2>1
    <3>2. txn.log[b[i].key] # None
      BY <2>1, <2>2 DEF IndInv, TxnInv
    <3>3. txn.log[b[i].key] \in Mutation
      BY <2>2, <3>1, <3>2 DEF TypeOK, Transaction, Command
    <3> QED BY <3>3 DEF Mutation
  <2>4. a \in Seq(Version)
    BY <2>1, <2>3
  <2>5. CommitTxn(c) /\ answer' = [answer EXCEPT ![c] = a] /\ UNCHANGED batch
    BY <1>13 DEF Commit
  <2> QED BY <1>7, <2>4, <2>5 DEF TypeOK
<1>8. ASSUME NEW c \in Client, CrashAfterCommit(c) PROVE TypeOK'
  BY <1>7, <1>8 DEF CrashAfterCommit, TypeOK
<1>9. ASSUME NEW c \in Client, GiveUp(c) PROVE TypeOK'
  BY <1>9 DEF GiveUp, TypeOK
<1>10. CASE Crash
  BY <1>10 DEF Crash, TypeOK
<1>12. CASE UNCHANGED vars
  BY <1>12 DEF vars, TypeOK
<1> QED
  BY <1>1, <1>2, <1>3, <1>4, <1>5, <1>6, <1>8, <1>9, <1>10, <1>12, <1>13
  DEF Next

-----------------------------------------------------------------------------
LEMMA PreparedFields ==
  ASSUME NEW p, NEW keys
  PROVE  /\ Prepared(p, keys).op = p.op
         /\ Prepared(p, keys).res = p.res
         /\ Prepared(p, keys).key = p.key
         /\ Prepared(p, keys).siblings = keys
         /\ p.op # "create" => /\ Prepared(p, keys).base = resources[p.res]
                               /\ Prepared(p, keys).expected = resources[p.res].revision
BY DEF Prepared

LEMMA PrepareKeepsInv ==
  ASSUME IndInv, TypeOK', NEW c \in Client, NEW ps \in Proposals, Prepare(c, ps)
  PROVE  IndInv'
<1> DEFINE keys == {ps[j].key : j \in DOMAIN ps}
<1>1. /\ batch[c] = <<>> /\ answer[c] = <<>>
      /\ UNCHANGED <<resources, mutations, txn, answer>>
      /\ \A d \in Client : d # c => batch'[d] = batch[d]
  BY DEF Prepare, IndInv, BatchInv, TypeOK
<1>2. /\ DOMAIN batch'[c] = DOMAIN ps
      /\ \A i \in DOMAIN ps : ps[i] \in Proposal /\ batch'[c][i] = Prepared(ps[i], keys)
      /\ batch'[c] # <<>>
  BY PreparedBatch DEF IndInv
<1> keys = {ps[j].key : j \in DOMAIN ps}
  OBVIOUS
<1> HIDE DEF keys
<1>3. \A i \in DOMAIN ps : /\ batch'[c][i].key = ps[i].key
                           /\ batch'[c][i].siblings = keys
                           /\ batch'[c][i].op = ps[i].op
                           /\ batch'[c][i].res = ps[i].res
  <2> SUFFICES ASSUME NEW i \in DOMAIN ps
               PROVE  /\ batch'[c][i].key = ps[i].key
                      /\ batch'[c][i].siblings = keys
                      /\ batch'[c][i].op = ps[i].op
                      /\ batch'[c][i].res = ps[i].res
    OBVIOUS
  <2>1. batch'[c][i] = Prepared(ps[i], keys)
    BY <1>2
  <2> QED BY <2>1, PreparedFields
<1>4. BatchInv'
  <2> SUFFICES ASSUME NEW d \in Client
               PROVE  LET b == batch'[d]
                      IN  /\ b = <<>> => answer[d] = <<>>
                          /\ \A i, j \in DOMAIN b : i # j => b[i].key # b[j].key
                          /\ \A i \in DOMAIN b : b[i].siblings = {b[j].key : j \in DOMAIN b}
                          /\ \A i \in DOMAIN b : b[i].op # "create" =>
                               \E k \in MutationsOf(mutations, b[i].res) :
                                 mutations[k].result = b[i].base /\ b[i].base.revision = b[i].expected
    BY <1>1 DEF BatchInv, MutationsOf
  <2>1. CASE d # c
    BY <1>1, <2>1 DEF IndInv, BatchInv
  <2>2. CASE d = c
    <3>1. \A i, j \in DOMAIN ps : i # j => ps[i].key # ps[j].key
      BY DEF Proposals, DistinctKeys
    <3>2. \A i \in DOMAIN ps : keys = {batch'[c][j].key : j \in DOMAIN ps}
      BY <1>3
    <3>3. ASSUME NEW i \in DOMAIN ps, ps[i].op # "create"
          PROVE  \E k \in MutationsOf(mutations, ps[i].res) :
                   /\ mutations[k].result = batch'[c][i].base
                   /\ batch'[c][i].base.revision = batch'[c][i].expected
      <4>1. ps[i].res \in Res /\ Live(ps[i].res)
        BY <1>2, <3>3 DEF Prepare, Proposal
      <4>2. \E k \in MutationsOf(mutations, ps[i].res) : mutations[k].result = resources[ps[i].res]
        BY <4>1 DEF Live, IndInv, AuditPasses, ValidChain
      <4>3. batch'[c][i] = Prepared(ps[i], keys)
        BY <1>2
      <4>4. /\ batch'[c][i].base = resources[ps[i].res]
            /\ batch'[c][i].expected = resources[ps[i].res].revision
        BY <3>3, <4>3, PreparedFields
      <4> QED BY <4>2, <4>4
    <3> QED BY <1>1, <1>2, <1>3, <2>2, <3>1, <3>2, <3>3
  <2> QED BY <2>1, <2>2
<1>5. TxnInv'
  <2>1. txn # None => txn.client \in Client /\ txn.client # c
    BY <1>1 DEF IndInv, TypeOK, Transaction, TxnInv
  <2> QED BY <1>1, <2>1 DEF IndInv, TxnInv
<1>6. AnswersAreRecorded'
  BY <1>1 DEF IndInv, AnswersAreRecorded
<1> QED BY <1>1, <1>4, <1>5, <1>6 DEF IndInv, AuditPasses, AllOrNothing

LEMMA BeginKeepsInv ==
  ASSUME IndInv, TypeOK', NEW c \in Client, Begin(c)
  PROVE  IndInv'
<1>1. /\ batch[c] # <<>> /\ answer[c] = <<>>
      /\ txn' = [client |-> c, done |-> 0, rows |-> resources, log |-> mutations]
      /\ UNCHANGED <<resources, mutations, batch, answer>>
      /\ \A i \in DOMAIN batch[c] : mutations[batch[c][i].key] = None
  BY DEF Begin, Submitting, Recorded
<1>2. DOMAIN batch[c] = 1..Len(batch[c]) /\ Len(batch[c]) \in Nat
  BY DEF IndInv, TypeOK
<1>3. /\ txn'.client = c /\ txn'.done = 0 /\ txn'.rows = resources /\ txn'.log = mutations
  BY <1>1
<1>4. TxnInv'
  BY <1>1, <1>2, <1>3 DEF IndInv, TxnInv, AuditPasses
<1>5. BatchInv' /\ AnswersAreRecorded'
  BY <1>1 DEF IndInv, BatchInv, AnswersAreRecorded
<1> QED BY <1>1, <1>4, <1>5 DEF IndInv, AuditPasses, AllOrNothing

LEMMA ReplayKeepsInv ==
  ASSUME IndInv, TypeOK', NEW c \in Client, Replay(c)
  PROVE  IndInv'
<1> DEFINE b == batch[c]
<1>1. /\ b # <<>> /\ txn = None
      /\ UNCHANGED <<resources, mutations, txn, batch>>
      /\ \A d \in Client : d # c => answer'[d] = answer[d]
      /\ answer'[c] = [i \in DOMAIN b |-> mutations[b[i].key].result]
      /\ \A i \in DOMAIN b : /\ mutations[b[i].key] # None
                             /\ Canonical(b[i]) = Canonical(mutations[b[i].key].command)
  BY DEF Replay, Submitting, Recorded, IndInv, TypeOK
<1>2. BatchInv'
  BY <1>1 DEF IndInv, BatchInv
<1>3. TxnInv'
  BY <1>1 DEF TxnInv
<1>4. AnswersAreRecorded'
  BY <1>1 DEF IndInv, AnswersAreRecorded
<1> QED BY <1>1, <1>2, <1>3, <1>4 DEF IndInv, AuditPasses, AllOrNothing

(* A caller without a batch: it was refused, rolled back or given up.      *)
LEMMA DroppedBatchKeepsInv ==
  ASSUME IndInv, TypeOK', NEW c \in Client, UNCHANGED <<resources, mutations>>,
         batch' = [batch EXCEPT ![c] = <<>>],
         answer' \in {answer, [answer EXCEPT ![c] = <<>>]}, answer'[c] = <<>>,
         txn' \in {txn, None}, txn' # None => txn.client # c
  PROVE  IndInv'
<1>1. /\ batch'[c] = <<>> /\ answer'[c] = <<>> /\ DOMAIN batch'[c] = {}
      /\ \A d \in Client : d # c => batch'[d] = batch[d] /\ answer'[d] = answer[d]
  BY DEF IndInv, TypeOK
<1>2. BatchInv'
  BY <1>1 DEF IndInv, BatchInv
<1>3. TxnInv'
  <2>1. txn' # None => txn' = txn /\ txn.client \in Client \ {c}
    BY DEF IndInv, TypeOK, Transaction
  <2> QED BY <1>1, <2>1 DEF IndInv, TxnInv
<1>4. AnswersAreRecorded'
  BY <1>1 DEF IndInv, AnswersAreRecorded
<1> QED BY <1>2, <1>3, <1>4 DEF IndInv, AuditPasses, AllOrNothing

LEMMA ExecuteKeepsInv ==
  ASSUME IndInv, TypeOK', NEW c \in Client, Execute(c)
  PROVE  IndInv'
<1> DEFINE b == batch[c]
           x == NextCommand
           m == [command |-> x, result |-> Result(txn.rows, x)]
           rows2 == [txn.rows EXCEPT ![x.res] = m.result]
           log2 == [txn.log EXCEPT ![x.key] = m]
<1>1. /\ txn \in Transaction /\ txn.client = c /\ txn # None
      /\ txn.done \in Nat /\ txn.rows \in [Res -> Version \cup {None}]
      /\ txn.log \in [Key -> Mutation \cup {None}]
  BY StoreAssumption DEF Execute, Running, IndInv, TypeOK, Transaction
<1>2. /\ b \in Seq(Command) /\ DOMAIN b = 1..Len(b) /\ Len(b) \in Nat
      /\ txn.done + 1 \in DOMAIN b
      /\ x = b[txn.done + 1] /\ x \in Command
  BY <1>1 DEF Execute, NextCommand, IndInv, TypeOK
<1>3. /\ Accepts(txn.rows, x)
      /\ txn' = [txn EXCEPT !.done = txn.done + 1, !.rows = rows2, !.log = log2]
      /\ UNCHANGED <<resources, mutations, batch, answer>>
  BY DEF Execute
<1>4. /\ txn'.client = c /\ txn'.done = txn.done + 1
      /\ txn'.rows = rows2 /\ txn'.log = log2
  BY <1>1, <1>3 DEF Transaction
<1>5. \A i \in DOMAIN b : b[i] \in Command /\ b[i].key \in Key
  BY <1>2 DEF Command
<1>6. txn.log[x.key] = None /\ mutations[x.key] = None
  BY <1>1, <1>2 DEF IndInv, TxnInv
<1>7. ASSUME x.op # "create"
      PROVE  \E k \in MutationsOf(txn.log, x.res) :
               txn.log[k].result = x.base /\ x.base.revision = x.expected
  <2>1. PICK k \in MutationsOf(mutations, x.res) :
          mutations[k].result = x.base /\ x.base.revision = x.expected
    BY <1>2, <1>7 DEF IndInv, BatchInv
  <2>2. k \in Key /\ mutations[k] # None /\ mutations[k].command.res = x.res
    BY DEF MutationsOf
  <2>3. txn.log[k] = mutations[k]
    BY <1>1, <2>2, LogExtends
  <2> QED BY <2>1, <2>2, <2>3 DEF MutationsOf
<1>8. /\ \A r \in Res : ValidChain(rows2, log2, r)
      /\ BuiltOnPredecessor(log2)
  <2>1. (\A r \in Res : ValidChain(txn.rows, txn.log, r)) /\ BuiltOnPredecessor(txn.log)
    BY <1>1 DEF IndInv, TxnInv
  <2> HIDE DEF x
  <2> QED BY <1>1, <1>2, <1>3, <1>6, <1>7, <2>1, ChainExtends
<1>9. m \in Mutation /\ m # None /\ m.command = x /\ x.res \in Res /\ x.key \in Key
  BY <1>1, <1>2, <1>3, ResultType, StoreAssumption DEF Mutation
<1>10. log2[x.key] = m /\ \A k \in Key : k # x.key => log2[k] = txn.log[k]
  BY <1>1, <1>9
<1>11. \A i \in DOMAIN b : i # txn.done + 1 => b[i].key # x.key
  BY <1>1, <1>2 DEF IndInv, BatchInv
<1>12. \A r \in Res : (resources[r] # None /\ resources[r].deleted) => rows2[r] = resources[r]
  <2> SUFFICES ASSUME NEW r \in Res, resources[r] # None, resources[r].deleted
               PROVE  rows2[r] = resources[r]
    OBVIOUS
  <2>1. txn.rows[r] = resources[r]
    BY <1>1 DEF IndInv, TxnInv
  <2>2. r # x.res
    BY <1>3, <2>1 DEF Accepts
  <2> QED BY <1>1, <1>9, <2>1, <2>2
<1> HIDE DEF m, x, rows2, log2
<1>13. \A i \in DOMAIN b :
         /\ mutations[b[i].key] = None
         /\ i <= txn.done + 1 => log2[b[i].key] # None /\ log2[b[i].key].command = b[i]
         /\ i > txn.done + 1 => log2[b[i].key] = None
  <2> SUFFICES ASSUME NEW i \in DOMAIN b
               PROVE  /\ mutations[b[i].key] = None
                      /\ i <= txn.done + 1 => /\ log2[b[i].key] # None
                                              /\ log2[b[i].key].command = b[i]
                      /\ i > txn.done + 1 => log2[b[i].key] = None
    OBVIOUS
  <2>1. /\ mutations[b[i].key] = None
        /\ i <= txn.done => txn.log[b[i].key] # None /\ txn.log[b[i].key].command = b[i]
        /\ i > txn.done => txn.log[b[i].key] = None
    BY <1>1 DEF IndInv, TxnInv
  <2>2. CASE i = txn.done + 1
    BY <1>1, <1>2, <1>9, <1>10, <2>1, <2>2
  <2>3. CASE i # txn.done + 1
    BY <1>1, <1>2, <1>5, <1>10, <1>11, <2>1, <2>3
  <2> QED BY <2>2, <2>3
<1>14. \A k \in Key : (\A i \in DOMAIN b : b[i].key # k) => log2[k] = mutations[k]
  <2> SUFFICES ASSUME NEW k \in Key, \A i \in DOMAIN b : b[i].key # k
               PROVE  log2[k] = mutations[k]
    OBVIOUS
  <2>1. k # x.key
    BY <1>2
  <2>2. txn.log[k] = mutations[k]
    BY <1>1 DEF IndInv, TxnInv
  <2> QED BY <1>10, <2>1, <2>2
<1>15. TxnInv'
  <2>1. b # <<>> /\ answer[c] = <<>> /\ txn.done + 1 <= Len(b)
    BY <1>1, <1>2 DEF IndInv, TxnInv
  <2> QED BY <1>3, <1>4, <1>8, <1>12, <1>13, <1>14, <2>1 DEF TxnInv
<1>16. BatchInv' /\ AnswersAreRecorded'
  BY <1>3 DEF IndInv, BatchInv, AnswersAreRecorded
<1> QED BY <1>3, <1>15, <1>16 DEF IndInv, AuditPasses, AllOrNothing

(* COMMIT publishes a log that contains the committed one and the whole    *)
(* batch; whoever the answer reaches, the invariant holds.                 *)
LEMMA CommitKeepsInv ==
  ASSUME IndInv, TypeOK', NEW c \in Client, CommitTxn(c), UNCHANGED batch,
         \/ UNCHANGED answer
         \/ answer' = [answer EXCEPT ![c] =
              [i \in DOMAIN batch[c] |-> txn.log[batch[c][i].key].result]]
  PROVE  IndInv'
<1> DEFINE b == batch[c]
<1>1. /\ txn \in Transaction /\ txn.client = c /\ txn # None /\ txn.done = Len(b)
      /\ resources' = txn.rows /\ mutations' = txn.log /\ txn' = None
  BY StoreAssumption DEF CommitTxn, Running, IndInv, TypeOK, Transaction
<1>2. /\ b \in Seq(Command) /\ DOMAIN b = 1..Len(b) /\ Len(b) \in Nat
      /\ \A i \in DOMAIN b : i <= txn.done
  BY <1>1 DEF IndInv, TypeOK
<1>3. \A i \in DOMAIN b : txn.log[b[i].key] # None /\ txn.log[b[i].key].command = b[i]
  BY <1>1, <1>2 DEF IndInv, TxnInv
<1>4. \A k \in Key : mutations[k] # None => mutations'[k] = mutations[k]
  BY <1>1, LogExtends
<1>5. BatchInv'
  <2> SUFFICES ASSUME NEW d \in Client
               PROVE  /\ batch[d] = <<>> => answer'[d] = <<>>
                      /\ \A i \in DOMAIN batch[d] : batch[d][i].op # "create" =>
                           \E k \in MutationsOf(mutations', batch[d][i].res) :
                             /\ mutations'[k].result = batch[d][i].base
                             /\ batch[d][i].base.revision = batch[d][i].expected
    BY DEF IndInv, BatchInv, MutationsOf
  <2>1. batch[d] = <<>> => answer'[d] = <<>>
    <3>1. b # <<>>
      BY <1>1 DEF IndInv, TxnInv
    <3> QED BY <3>1 DEF IndInv, BatchInv, TypeOK
  <2>2. ASSUME NEW i \in DOMAIN batch[d], batch[d][i].op # "create"
        PROVE  \E k \in MutationsOf(mutations', batch[d][i].res) :
                 /\ mutations'[k].result = batch[d][i].base
                 /\ batch[d][i].base.revision = batch[d][i].expected
    <3>1. PICK k \in MutationsOf(mutations, batch[d][i].res) :
            /\ mutations[k].result = batch[d][i].base
            /\ batch[d][i].base.revision = batch[d][i].expected
      BY <2>2 DEF IndInv, BatchInv
    <3>2. mutations'[k] = mutations[k] /\ k \in MutationsOf(mutations', batch[d][i].res)
      BY <1>4, <3>1 DEF MutationsOf
    <3> QED BY <3>1, <3>2
  <2> QED BY <2>1, <2>2
<1>6. TxnInv'
  BY <1>1 DEF TxnInv
<1>7. AuditPasses' /\ BuiltOnPredecessor(mutations)'
  BY <1>1 DEF IndInv, TxnInv, AuditPasses
<1>8. AllOrNothing'
  <2> SUFFICES ASSUME NEW k \in Key, txn.log[k] # None,
                      NEW j \in txn.log[k].command.siblings
               PROVE  /\ txn.log[j] # None
                      /\ txn.log[j].command.siblings = txn.log[k].command.siblings
    BY <1>1 DEF AllOrNothing
  <2>1. CASE \E i \in DOMAIN b : b[i].key = k
    <3>1. PICK i \in DOMAIN b : b[i].key = k
      BY <2>1
    <3>2. /\ txn.log[k].command = b[i]
          /\ b[i].siblings = {b[n].key : n \in DOMAIN b}
      BY <1>3, <3>1 DEF IndInv, BatchInv
    <3>3. PICK n \in DOMAIN b : b[n].key = j
      BY <3>2
    <3>4. /\ txn.log[j] # None /\ txn.log[j].command = b[n]
          /\ b[n].siblings = {b[q].key : q \in DOMAIN b}
      BY <1>3, <3>3 DEF IndInv, BatchInv
    <3> QED BY <3>2, <3>4
  <2>2. CASE \A i \in DOMAIN b : b[i].key # k
    <3>1. txn.log[k] = mutations[k]
      BY <1>1, <2>2 DEF IndInv, TxnInv
    <3>2. j \in Key
      <4>1. mutations[k] \in Mutation
        BY <3>1 DEF IndInv, TypeOK
      <4>2. mutations[k].command.siblings \in SUBSET Key
        BY <4>1 DEF Mutation, Command
      <4> QED BY <3>1, <4>2
    <3>3. /\ mutations[j] # None
          /\ mutations[j].command.siblings = mutations[k].command.siblings
      BY <3>1 DEF IndInv, AllOrNothing
    <3> QED BY <1>1, <1>4, <3>1, <3>2, <3>3
  <2> QED BY <2>1, <2>2
<1>9. AnswersAreRecorded'
  <2> SUFFICES ASSUME NEW d \in Client, answer'[d] # <<>>, NEW i \in DOMAIN batch[d]
               PROVE  LET m == mutations'[batch[d][i].key]
                      IN  /\ m # None
                          /\ Canonical(m.command) = Canonical(batch[d][i])
                          /\ m.result = answer'[d][i]
    BY DEF AnswersAreRecorded
  <2>1. CASE d = c
    <3>1. answer[c] = <<>>
      BY <1>1 DEF IndInv, TxnInv
    <3>2. answer'[c] = [n \in DOMAIN b |-> txn.log[b[n].key].result]
      BY <2>1, <3>1 DEF IndInv, TypeOK
    <3> QED BY <1>1, <1>3, <2>1, <3>2
  <2>2. CASE d # c
    <3>1. answer'[d] = answer[d]
      BY <2>2 DEF IndInv, TypeOK
    <3>2. batch[d][i].key \in Key
      BY DEF IndInv, TypeOK, Command
    <3> QED BY <1>4, <3>1, <3>2 DEF IndInv, AnswersAreRecorded
  <2> QED BY <2>1, <2>2
<1> QED BY <1>5, <1>6, <1>7, <1>8, <1>9 DEF IndInv

LEMMA InvInductive ==
  ASSUME IndInv, [Next]_vars
  PROVE  IndInv'
<1> TypeOK'
  BY TypeInductive
<1>1. ASSUME NEW c \in Client, NEW ps \in Requests, Prepare(c, ps) PROVE IndInv'
  BY <1>1, PrepareKeepsInv, RequestsAssumption
<1>2. ASSUME NEW c \in Client, Begin(c) PROVE IndInv'
  BY <1>2, BeginKeepsInv
<1>3. ASSUME NEW c \in Client, Replay(c) PROVE IndInv'
  BY <1>3, ReplayKeepsInv
<1>4. ASSUME NEW c \in Client, Conflict(c) PROVE IndInv'
  BY <1>4, DroppedBatchKeepsInv DEF Conflict, Submitting
<1>5. ASSUME NEW c \in Client, Execute(c) PROVE IndInv'
  BY <1>5, ExecuteKeepsInv
<1>6. ASSUME NEW c \in Client, Rollback(c) PROVE IndInv'
  <2>1. answer[c] = <<>>
    BY <1>6 DEF Rollback, Running, IndInv, TxnInv
  <2> QED BY <1>6, <2>1, DroppedBatchKeepsInv DEF Rollback
<1>7. ASSUME NEW c \in Client, Commit(c) PROVE IndInv'
  BY <1>7, CommitKeepsInv DEF Commit
<1>8. ASSUME NEW c \in Client, CrashAfterCommit(c) PROVE IndInv'
  BY <1>8, CommitKeepsInv DEF CrashAfterCommit
<1>9. ASSUME NEW c \in Client, GiveUp(c) PROVE IndInv'
  <2>1. answer'[c] = <<>>
    BY <1>9 DEF GiveUp, IndInv, TypeOK
  <2> QED BY <1>9, <2>1, DroppedBatchKeepsInv DEF GiveUp, Running
<1>10. CASE Crash
  BY <1>10 DEF Crash, IndInv, BatchInv, TxnInv, AuditPasses, AllOrNothing,
     AnswersAreRecorded, BuiltOnPredecessor
<1>11. CASE UNCHANGED vars
  BY <1>11 DEF vars, IndInv, BatchInv, TxnInv, AuditPasses, AllOrNothing,
     AnswersAreRecorded, BuiltOnPredecessor
<1> QED
  BY <1>1, <1>2, <1>3, <1>4, <1>5, <1>6, <1>7, <1>8, <1>9, <1>10, <1>11 DEF Next

LEMMA Invariant == Spec => []IndInv
<1>1. Init => IndInv
  BY DEF Init, IndInv, TypeOK, BatchInv, TxnInv, AuditPasses, ValidChain, MutationsOf,
     AllOrNothing, AnswersAreRecorded, BuiltOnPredecessor
<1>2. IndInv /\ [Next]_vars => IndInv'
  BY InvInductive
<1> QED BY <1>1, <1>2, PTL DEF Spec

-----------------------------------------------------------------------------
(* Rows, log records, transactions and answers keep their types.           *)
THEOREM TypeCorrect == Spec => []TypeOK
<1>1. IndInv => TypeOK
  BY DEF IndInv
<1> QED BY <1>1, Invariant, PTL

(* The audit that runs when the store is opened never rejects what the     *)
(* store itself has written.                                               *)
THEOREM StoreReopens == Spec => []AuditPasses
<1>1. IndInv => AuditPasses
  BY DEF IndInv
<1> QED BY <1>1, Invariant, PTL

(* A committed mutation comes with its whole batch.                        *)
THEOREM BatchesAreAtomic == Spec => []AllOrNothing
<1>1. IndInv => AllOrNothing
  BY DEF IndInv
<1> QED BY <1>1, Invariant, PTL

(* First answers and replayed answers are what was recorded for the very   *)
(* commands that were sent.                                                *)
THEOREM AnswersAreExact == Spec => []AnswersAreRecorded
<1>1. IndInv => AnswersAreRecorded
  BY DEF IndInv
<1> QED BY <1>1, Invariant, PTL

(* No update or delete replaces a row its caller had not read.             *)
THEOREM UpdatesAreNotLost == Spec => []NoLostUpdate
<1>1. ASSUME IndInv, NEW r \in Res, NEW j \in MutationsOf(mutations, r),
             NEW k \in MutationsOf(mutations, r),
             mutations[j].command.op # "create", mutations[k].command.op # "create",
             mutations[j].command.base = mutations[k].command.base
      PROVE  j = k
  <2>1. /\ j \in Key /\ mutations[j] # None /\ mutations[j].command.res = r
        /\ k \in Key /\ mutations[k] # None /\ mutations[k].command.res = r
    BY DEF MutationsOf
  <2>2. \A x, y \in MutationsOf(mutations, r) :
          mutations[x].result.revision = mutations[y].result.revision => x = y
    BY <1>1, <2>1 DEF IndInv, AuditPasses, ValidChain
  <2>3. ASSUME NEW x \in Key, mutations[x] # None, mutations[x].command.op # "create"
        PROVE  mutations[x].result.revision = mutations[x].command.base.revision + 1
    <3>1. PICK y \in MutationsOf(mutations, mutations[x].command.res) :
            /\ mutations[y].result = mutations[x].command.base
            /\ Follows(mutations[x], mutations[y])
      BY <1>1, <2>3 DEF IndInv, BuiltOnPredecessor
    <3> QED BY <3>1 DEF Follows
  <2>4. mutations[j].result.revision = mutations[k].result.revision
    BY <1>1, <2>1, <2>3
  <2> QED BY <2>2, <2>4
<1>2. IndInv => NoLostUpdate
  BY <1>1 DEF IndInv, NoLostUpdate
<1> QED BY <1>2, Invariant, PTL

(* Log records never change, and a tombstone is the last row of its        *)
(* resource.                                                               *)
THEOREM RecordsStay == Spec => RecordsArePermanent
<1> DEFINE Kept == /\ \A k \in Key : mutations[k] # None => mutations'[k] = mutations[k]
                   /\ \A r \in Res : (resources[r] # None /\ resources[r].deleted)
                                     => resources'[r] = resources[r]
<1>1. IndInv /\ [Next]_vars => [Kept]_vars
  <2> SUFFICES ASSUME IndInv, [Next]_vars PROVE Kept
    OBVIOUS
  <2>1. ASSUME NEW c \in Client, CommitTxn(c) PROVE Kept
    <3>1. txn # None /\ mutations' = txn.log /\ resources' = txn.rows
      BY <2>1 DEF CommitTxn, Running
    <3> QED BY <3>1, LogExtends DEF IndInv, TxnInv
  <2>2. CASE UNCHANGED <<resources, mutations>>
    BY <2>2
  <2>3. ASSUME ~ \E c \in Client : Commit(c) \/ CrashAfterCommit(c)
        PROVE  UNCHANGED <<resources, mutations>>
    BY <2>3 DEF Next, vars, Prepare, Begin, Replay, Conflict, Execute, Rollback, GiveUp,
       Crash
  <2> QED BY <2>1, <2>2, <2>3 DEF Commit, CrashAfterCommit
<1> QED BY <1>1, Invariant, PTL DEF Spec, RecordsArePermanent

-----------------------------------------------------------------------------
(* The audit as the code runs it: it reads the whole log of a resource in  *)
(* the order of resulting revisions, and compares every record with the    *)
(* one before it and the last one with the row.                            *)
InOrder(rows, log, r) ==
  IF rows[r] = None
  THEN MutationsOf(log, r) = {}
  ELSE \E history \in [0..rows[r].revision -> MutationsOf(log, r)] :
         /\ \A k \in MutationsOf(log, r) : \E n \in 0..rows[r].revision : history[n] = k
         /\ \A n \in 0..rows[r].revision : log[history[n]].result.revision = n
         /\ First(log[history[0]])
         /\ \A n \in 1..rows[r].revision : Follows(log[history[n]], log[history[n - 1]])
         /\ log[history[rows[r].revision]].result = rows[r]

HistoriesInOrder == \A r \in Res : InOrder(resources, mutations, r)

(* In a valid chain no revision is missing: above the greatest one missing *)
(* stands a record that follows nothing.                                   *)
LEMMA NothingMissing ==
  ASSUME NEW rows \in [Res -> Version \cup {None}], NEW log \in [Key -> Mutation \cup {None}],
         NEW r \in Res, ValidChain(rows, log, r), rows[r] # None,
         NEW n \in 0..rows[r].revision
  PROVE  \E k \in MutationsOf(log, r) : log[k].result.revision = n
<1> DEFINE M == MutationsOf(log, r)
           rev == rows[r].revision
           Missing == {i \in 0..rev : \A k \in M : log[k].result.revision # i}
<1>1. rev \in Nat /\ \A k \in M : log[k].result.revision \in Nat
  BY DEF MutationsOf, Mutation, Version
<1>2. /\ \E k \in M : log[k].result = rows[r]
      /\ \A k \in M : First(log[k]) \/ \E j \in M : Follows(log[k], log[j])
  BY DEF ValidChain
<1> SUFFICES Missing = {}
  OBVIOUS
<1> SUFFICES ASSUME Missing # {} PROVE FALSE
  OBVIOUS
<1>3. Missing \in SUBSET Nat /\ \A i \in Missing : i <= rev
  BY <1>1
<1>4. PICK m \in Missing : \A i \in Missing : i <= m
  BY <1>1, <1>3, GreatestNumber
<1>5. m \in 0..rev /\ m # rev /\ \A k \in M : log[k].result.revision # m
  BY <1>2
<1>6. m + 1 \in 0..rev /\ m + 1 \notin Missing
  BY <1>1, <1>4, <1>5
<1>7. PICK k \in M : log[k].result.revision = m + 1
  BY <1>6
<1>8. ~First(log[k])
  BY <1>5, <1>7 DEF First
<1>9. PICK j \in M : log[k].result.revision = log[j].result.revision + 1
  BY <1>2, <1>8 DEF Follows
<1> QED BY <1>1, <1>5, <1>7, <1>9

LEMMA ChainInOrder ==
  ASSUME NEW rows \in [Res -> Version \cup {None}], NEW log \in [Key -> Mutation \cup {None}],
         NEW r \in Res, ValidChain(rows, log, r)
  PROVE  InOrder(rows, log, r)
<1>1. CASE rows[r] = None
  BY <1>1 DEF ValidChain, InOrder
<1>2. CASE rows[r] # None
  <2> DEFINE M == MutationsOf(log, r)
             rev == rows[r].revision
             history == [n \in 0..rev |-> CHOOSE k \in M : log[k].result.revision = n]
  <2>1. rev \in Nat /\ \A k \in M : log[k].result.revision \in Nat
    BY <1>2 DEF MutationsOf, Mutation, Version
  <2>2. /\ \E k \in M : log[k].result = rows[r]
        /\ \A k \in M : log[k].result.revision <= rev
        /\ \A j, k \in M : log[j].result.revision = log[k].result.revision => j = k
        /\ \A k \in M : First(log[k]) \/ \E j \in M : Follows(log[k], log[j])
    BY <1>2 DEF ValidChain
  <2>3. \A n \in 0..rev : history[n] \in M /\ log[history[n]].result.revision = n
    <3> SUFFICES ASSUME NEW n \in 0..rev
                 PROVE  history[n] \in M /\ log[history[n]].result.revision = n
      OBVIOUS
    <3>1. \E k \in M : log[k].result.revision = n
      BY <1>2, NothingMissing
    <3>2. history[n] = CHOOSE k \in M : log[k].result.revision = n
      OBVIOUS
    <3> QED BY <3>1, <3>2
  <2>4. history \in [0..rev -> M]
    BY <2>3
  <2> HIDE DEF history, M
  <2>5. \A k \in M : \A n \in 0..rev : log[k].result.revision = n => history[n] = k
    BY <2>2, <2>3
  <2>6. \A k \in M : \E n \in 0..rev : history[n] = k
    BY <2>1, <2>2, <2>5
  <2>7. First(log[history[0]])
    <3>1. 0 \in 0..rev
      BY <2>1
    <3>2. history[0] \in M /\ log[history[0]].result.revision = 0
      BY <2>3, <3>1
    <3>3. ASSUME NEW j \in M, Follows(log[history[0]], log[j]) PROVE FALSE
      BY <2>1, <3>2, <3>3 DEF Follows
    <3> QED BY <2>2, <3>2, <3>3
  <2>8. ASSUME NEW n \in 1..rev PROVE Follows(log[history[n]], log[history[n - 1]])
    <3>1. n \in 0..rev /\ n - 1 \in 0..rev /\ n # 0
      BY <2>1
    <3>2. history[n] \in M /\ log[history[n]].result.revision = n
      BY <2>3, <3>1
    <3>3. ~First(log[history[n]])
      BY <3>1, <3>2 DEF First
    <3>4. PICK j \in M : Follows(log[history[n]], log[j])
      BY <2>2, <3>2, <3>3
    <3>5. log[j].result.revision = n - 1
      <4>1. log[history[n]].result.revision = log[j].result.revision + 1
        BY <3>4 DEF Follows
      <4>2. n = log[j].result.revision + 1 /\ log[j].result.revision \in Nat
        BY <2>1, <3>2, <4>1
      <4> QED BY <4>2
    <3> QED BY <2>5, <3>1, <3>4, <3>5
  <2>9. log[history[rev]].result = rows[r]
    <3>1. PICK k \in M : log[k].result = rows[r]
      BY <2>2
    <3>2. rev \in 0..rev
      BY <2>1
    <3> QED BY <2>5, <3>1, <3>2
  <2> QED BY <1>2, <2>3, <2>4, <2>6, <2>7, <2>8, <2>9 DEF InOrder, M
<1> QED BY <1>1, <1>2

(* validateResourceMutationChain, record by record: the log of every       *)
(* resource, read in the order of revisions, is complete from revision 0   *)
(* to the row's, starts with the create, and each record follows the one   *)
(* before it.                                                              *)
THEOREM HistoriesAreComplete == Spec => []HistoriesInOrder
<1>1. IndInv => HistoriesInOrder
  BY ChainInOrder DEF IndInv, TypeOK, AuditPasses, HistoriesInOrder
<1> QED BY <1>1, Invariant, PTL

-----------------------------------------------------------------------------
(* The refinement of SerialStore.  While a transaction runs, its view is   *)
(* what its commands make of the committed rows, one after the other.      *)
SerialInv ==
  txn # None =>
    LET b == batch[txn.client]
    IN  /\ Serial!CarriedOut(resources, txn.log, b, txn.done)
        /\ \A r \in Res : txn.rows[r] \in Serial!RowAfter(resources, txn.log, b, txn.done, r)

(* The row a resource has after n commands depends on what the log says of *)
(* those commands only.                                                    *)
LEMMA RowAfterAgrees ==
  ASSUME NEW rs, NEW b, NEW n \in Nat, NEW r, NEW lg, NEW lg2,
         \A i \in 1..n : lg2[b[i].key] = lg[b[i].key]
  PROVE  Serial!RowAfter(rs, lg2, b, n, r) = Serial!RowAfter(rs, lg, b, n, r)
<1>1. \A j \in Serial!LastOn(b, n, r) : lg2[b[j].key].result = lg[b[j].key].result
  BY DEF Serial!LastOn
<1> QED BY <1>1 DEF Serial!RowAfter

(* One more command: it has the last word on its own resource and no other.*)
LEMMA RowAfterOneMore ==
  ASSUME NEW rs, NEW b, NEW n \in Nat, NEW r, NEW lg
  PROVE  IF b[n + 1].res = r
         THEN lg[b[n + 1].key].result \in Serial!RowAfter(rs, lg, b, n + 1, r)
         ELSE Serial!RowAfter(rs, lg, b, n + 1, r) = Serial!RowAfter(rs, lg, b, n, r)
<1>1. 1..(n + 1) = (1..n) \cup {n + 1} /\ n + 1 \in 1..(n + 1) /\ n + 1 \notin 1..n
  OBVIOUS
<1>2. CASE b[n + 1].res = r
  <2>1. n + 1 \in Serial!LastOn(b, n + 1, r)
    BY <1>1, <1>2 DEF Serial!LastOn
  <2>2. ~ \A k \in 1..(n + 1) : b[k].res # r
    BY <1>1, <1>2
  <2> QED BY <1>2, <2>1, <2>2 DEF Serial!RowAfter
<1>3. CASE b[n + 1].res # r
  <2>1. Serial!LastOn(b, n + 1, r) = Serial!LastOn(b, n, r)
    <3>1. ASSUME NEW j \in 1..n
          PROVE  (\A k \in (j + 1)..(n + 1) : b[k].res # r) <=> (\A k \in (j + 1)..n : b[k].res # r)
      <4>1. (j + 1)..(n + 1) = ((j + 1)..n) \cup {n + 1}
        OBVIOUS
      <4> QED BY <1>3, <4>1
    <3> QED BY <1>1, <1>3, <3>1 DEF Serial!LastOn
  <2>2. (\A k \in 1..(n + 1) : b[k].res # r) <=> (\A k \in 1..n : b[k].res # r)
    BY <1>1, <1>3
  <2> QED BY <1>3, <2>1, <2>2 DEF Serial!RowAfter
<1> QED BY <1>2, <1>3

(* A command the store accepts writes what it writes in SerialStore.       *)
LEMMA AcceptedWrites ==
  ASSUME NEW rows \in [Res -> Version \cup {None}], NEW c \in Command, Accepts(rows, c)
  PROVE  Serial!Writes(c, rows[c.res], Result(rows, c))
<1>1. c.res \in Res /\ c.op \in {"create", "update", "delete"}
  BY DEF Command
<1>2. CASE c.op = "create"
  BY <1>2 DEF Accepts, Result, Serial!Writes
<1>3. CASE c.op # "create"
  <2>1. rows[c.res] \in Version
    BY <1>1, <1>3 DEF Accepts
  <2> DEFINE st == IF c.op = "delete" THEN rows[c.res].state ELSE c.state
             old == rows[c.res]
             new == Result(rows, c)
  <2>2. /\ new.revision = c.expected + 1 /\ new.state = st
        /\ new.deleted = (c.op = "delete") /\ new.updatedAt = c.at
        /\ new.createdAt = old.createdAt
    BY <1>3, <2>1 DEF Result, Version
  <2>3. old # None /\ ~old.deleted /\ old.revision = c.expected /\ old.updatedAt <= c.at
    BY <1>3 DEF Accepts
  <2> QED BY <1>3, <2>2, <2>3 DEF Serial!Writes
<1> QED BY <1>2, <1>3

LEMMA OneMoreCarriedOut ==
  ASSUME NEW rs, NEW b, NEW n \in Nat, NEW lg, NEW lg2, NEW rows, NEW rows2, NEW x,
         x = b[n + 1], DOMAIN rows = Res, x.res \in Res,
         \A i \in 1..n : lg2[b[i].key] = lg[b[i].key],
         Serial!CarriedOut(rs, lg, b, n),
         \A r \in Res : rows[r] \in Serial!RowAfter(rs, lg, b, n, r),
         Serial!Writes(x, rows[x.res], lg2[x.key].result),
         rows2 = [rows EXCEPT ![x.res] = lg2[x.key].result]
  PROVE  /\ Serial!CarriedOut(rs, lg2, b, n + 1)
         /\ \A r \in Res : rows2[r] \in Serial!RowAfter(rs, lg2, b, n + 1, r)
<1>1. ASSUME NEW i \in 0..n, NEW r
      PROVE  Serial!RowAfter(rs, lg2, b, i, r) = Serial!RowAfter(rs, lg, b, i, r)
  <2>1. i \in Nat /\ \A j \in 1..i : lg2[b[j].key] = lg[b[j].key]
    OBVIOUS
  <2> QED BY <2>1, RowAfterAgrees
<1>2. ASSUME NEW i \in 1..(n + 1)
      PROVE  \E v \in Serial!RowAfter(rs, lg2, b, i - 1, b[i].res) :
               Serial!Writes(b[i], v, lg2[b[i].key].result)
  <2>1. CASE i = n + 1
    <3>1. i - 1 = n /\ n \in 0..n
      BY <2>1
    <3>2. rows[x.res] \in Serial!RowAfter(rs, lg2, b, n, x.res)
      BY <1>1, <3>1
    <3> QED BY <2>1, <3>1, <3>2
  <2>2. CASE i # n + 1
    <3>1. i \in 1..n /\ i - 1 \in 0..n
      BY <2>2
    <3>2. PICK v \in Serial!RowAfter(rs, lg, b, i - 1, b[i].res) :
            Serial!Writes(b[i], v, lg[b[i].key].result)
      BY <3>1 DEF Serial!CarriedOut
    <3> QED BY <1>1, <3>1, <3>2
  <2> QED BY <2>1, <2>2
<1>3. ASSUME NEW r \in Res
      PROVE  rows2[r] \in Serial!RowAfter(rs, lg2, b, n + 1, r)
  <2>1. CASE r = x.res
    BY <2>1, RowAfterOneMore
  <2>2. CASE r # x.res
    <3>1. rows2[r] = rows[r] /\ n \in 0..n
      BY <2>2
    <3>2. Serial!RowAfter(rs, lg2, b, n + 1, r) = Serial!RowAfter(rs, lg2, b, n, r)
      BY <2>2, RowAfterOneMore
    <3> QED BY <1>1, <3>1, <3>2
  <2> QED BY <2>1, <2>2
<1> QED BY <1>2, <1>3 DEF Serial!CarriedOut

LEMMA ExecuteKeepsSerial ==
  ASSUME IndInv, SerialInv, NEW c \in Client, Execute(c)
  PROVE  SerialInv'
<1> DEFINE b == batch[c]
           x == NextCommand
           m == [command |-> x, result |-> Result(txn.rows, x)]
           rows2 == [txn.rows EXCEPT ![x.res] = m.result]
           log2 == [txn.log EXCEPT ![x.key] = m]
<1>1. /\ txn \in Transaction /\ txn.client = c /\ txn # None
      /\ txn.done \in Nat /\ txn.rows \in [Res -> Version \cup {None}]
      /\ txn.log \in [Key -> Mutation \cup {None}]
  BY StoreAssumption DEF Execute, Running, IndInv, TypeOK, Transaction
<1>2. /\ b \in Seq(Command) /\ DOMAIN b = 1..Len(b) /\ Len(b) \in Nat
      /\ txn.done + 1 \in DOMAIN b /\ txn.done \in 0..Len(b)
      /\ x = b[txn.done + 1] /\ x \in Command
  BY <1>1 DEF Execute, NextCommand, IndInv, TypeOK
<1>3. /\ Accepts(txn.rows, x)
      /\ txn' = [txn EXCEPT !.done = txn.done + 1, !.rows = rows2, !.log = log2]
      /\ UNCHANGED <<resources, mutations, batch, answer>>
  BY DEF Execute
<1>4. /\ txn'.client = c /\ txn'.done = txn.done + 1
      /\ txn'.rows = rows2 /\ txn'.log = log2
  BY <1>1, <1>3 DEF Transaction
<1>5. x.res \in Res /\ x.key \in Key /\ log2[x.key].result = m.result
  BY <1>1, <1>2 DEF Command
<1>6. Serial!Writes(x, txn.rows[x.res], m.result)
  <2> HIDE DEF x
  <2> QED BY <1>1, <1>2, <1>3, AcceptedWrites
<1>7. \A i \in 1..txn.done : log2[b[i].key] = txn.log[b[i].key]
  <2> SUFFICES ASSUME NEW i \in 1..txn.done PROVE log2[b[i].key] = txn.log[b[i].key]
    OBVIOUS
  <2>1. i \in DOMAIN b /\ i # txn.done + 1
    BY <1>1, <1>2
  <2>2. b[i].key # x.key /\ b[i].key \in Key
    BY <1>1, <1>2, <2>1 DEF IndInv, BatchInv, Command
  <2> QED BY <1>1, <2>2
<1>8. /\ Serial!CarriedOut(resources, txn.log, b, txn.done)
      /\ \A r \in Res : txn.rows[r] \in Serial!RowAfter(resources, txn.log, b, txn.done, r)
  BY <1>1 DEF SerialInv
<1> HIDE DEF b, x, m, rows2, log2
<1>9. DOMAIN txn.rows = Res /\ rows2 = [txn.rows EXCEPT ![x.res] = log2[x.key].result]
  BY <1>1, <1>5 DEF rows2
<1>10. /\ Serial!CarriedOut(resources, log2, b, txn.done + 1)
       /\ \A r \in Res : rows2[r] \in Serial!RowAfter(resources, log2, b, txn.done + 1, r)
  <2> DEFINE n == txn.done
             lg == txn.log
             rows == txn.rows
             rs == resources
  <2>1. /\ n \in Nat /\ x = b[n + 1] /\ DOMAIN rows = Res /\ x.res \in Res
        /\ \A i \in 1..n : log2[b[i].key] = lg[b[i].key]
        /\ Serial!CarriedOut(rs, lg, b, n)
        /\ \A r \in Res : rows[r] \in Serial!RowAfter(rs, lg, b, n, r)
        /\ Serial!Writes(x, rows[x.res], log2[x.key].result)
        /\ rows2 = [rows EXCEPT ![x.res] = log2[x.key].result]
    BY <1>1, <1>2, <1>5, <1>6, <1>7, <1>8, <1>9
  <2> HIDE DEF n, lg, rows, rs
  <2>2. /\ Serial!CarriedOut(rs, log2, b, n + 1)
        /\ \A r \in Res : rows2[r] \in Serial!RowAfter(rs, log2, b, n + 1, r)
    BY <2>1, OneMoreCarriedOut
  <2> QED BY <2>2 DEF n, rs
<1>11. resources' = resources /\ batch'[txn'.client] = b
  BY <1>3, <1>4 DEF b
<1> QED BY <1>4, <1>10, <1>11 DEF SerialInv

LEMMA SerialInductive ==
  ASSUME IndInv, SerialInv, [Next]_vars
  PROVE  SerialInv'
<1>1. ASSUME NEW c \in Client, Begin(c) PROVE SerialInv'
  <2>1. /\ txn'.client = c /\ txn'.done = 0 /\ txn'.rows = resources /\ txn'.log = mutations
        /\ UNCHANGED <<resources, batch>>
    BY <1>1 DEF Begin
  <2>2. Serial!CarriedOut(resources, mutations, batch[c], 0)
    BY DEF Serial!CarriedOut
  <2>3. \A r \in Res : resources[r] \in Serial!RowAfter(resources, mutations, batch[c], 0, r)
    BY DEF Serial!RowAfter
  <2> QED BY <2>1, <2>2, <2>3 DEF SerialInv
<1>2. ASSUME NEW c \in Client, Execute(c) PROVE SerialInv'
  BY <1>2, ExecuteKeepsSerial
<1>3. ASSUME txn' = None PROVE SerialInv'
  BY <1>3 DEF SerialInv
<1>4. ASSUME UNCHANGED <<resources, txn>>, txn # None => batch'[txn.client] = batch[txn.client]
      PROVE  SerialInv'
  BY <1>4 DEF SerialInv
<1>5. ASSUME NEW c \in Client, NEW ps \in Requests, Prepare(c, ps) PROVE SerialInv'
  <2>1. txn # None => txn.client \in Client \ {c}
    BY <1>5 DEF Prepare, IndInv, TypeOK, Transaction, TxnInv
  <2> QED BY <1>4, <1>5, <2>1 DEF Prepare, IndInv, TypeOK
<1>6. ASSUME NEW c \in Client, Replay(c) \/ Conflict(c) PROVE SerialInv'
  BY <1>3, <1>6 DEF Replay, Conflict, Submitting
<1>7. ASSUME NEW c \in Client, Rollback(c) \/ Commit(c) \/ CrashAfterCommit(c) PROVE SerialInv'
  BY <1>3, <1>7 DEF Rollback, Commit, CrashAfterCommit, CommitTxn
<1>8. ASSUME NEW c \in Client, GiveUp(c) PROVE SerialInv'
  <2>1. txn # None => txn.client \in Client \ {c}
    BY <1>8 DEF GiveUp, Running, IndInv, TypeOK, Transaction
  <2> QED BY <1>4, <1>8, <2>1 DEF GiveUp, IndInv, TypeOK
<1>9. CASE Crash
  BY <1>3, <1>9 DEF Crash
<1>10. CASE UNCHANGED vars
  BY <1>4, <1>10 DEF vars
<1> QED BY <1>1, <1>2, <1>5, <1>6, <1>7, <1>8, <1>9, <1>10 DEF Next

(* COMMIT is the instant of the batch; its caller is told or is not.       *)
LEMMA CommitPerforms ==
  ASSUME IndInv, TypeOK', SerialInv, NEW c \in Client, Commit(c) \/ CrashAfterCommit(c)
  PROVE  Serial!Perform(c)
<1> DEFINE b == batch[c]
<1>1. /\ txn # None /\ txn.client = c /\ txn.done = Len(b)
      /\ resources' = txn.rows /\ mutations' = txn.log /\ batch' = batch
  BY DEF Commit, CrashAfterCommit, CommitTxn, Running
<1>2. /\ b # <<>> /\ answer[c] = <<>>
      /\ \A k \in Key : (\A i \in DOMAIN b : b[i].key # k) => mutations'[k] = mutations[k]
  BY <1>1 DEF IndInv, TxnInv
<1>3. \A i \in DOMAIN b : /\ mutations[b[i].key] = None /\ mutations'[b[i].key] # None
                          /\ mutations'[b[i].key].command = b[i]
  <2>1. \A i \in DOMAIN b : i <= txn.done
    BY <1>1 DEF IndInv, TypeOK
  <2> QED BY <1>1, <2>1 DEF IndInv, TxnInv
<1>4. /\ Serial!CarriedOut(resources, mutations', b, Len(b))
      /\ \A r \in Res : resources'[r] \in Serial!RowAfter(resources, mutations', b, Len(b), r)
  BY <1>1 DEF SerialInv
<1>5. DOMAIN resources' = Res /\ DOMAIN mutations' = Key
  BY DEF TypeOK
<1>6. answer' \in {answer, Serial!Told(c)}
  BY <1>1 DEF Commit, CrashAfterCommit, Serial!Told
<1> HIDE DEF b
<1>7. b = batch[c]
  BY DEF b
<1> QED BY <1>1, <1>2, <1>3, <1>4, <1>5, <1>6, <1>7 DEF Serial!Perform

LEMMA StepsSerial ==
  ASSUME IndInv, TypeOK', SerialInv, [Next]_vars
  PROVE  [Serial!Next]_(Serial!serialVars)
<1>1. ASSUME NEW c \in Client, NEW ps \in Requests, Prepare(c, ps) PROVE Serial!Send(c)
  BY <1>1 DEF Prepare, IndInv, TypeOK, Serial!Send
<1>2. ASSUME NEW c \in Client, Replay(c) PROVE Serial!Repeat(c)
  <2>1. batch[c] # <<>> /\ answer[c] = <<>> /\ UNCHANGED <<resources, mutations, batch>>
    BY <1>2 DEF Replay, Submitting
  <2>2. \A i \in DOMAIN batch[c] :
          /\ mutations[batch[c][i].key] # None
          /\ Serial!Same(batch[c][i], mutations[batch[c][i].key].command)
    BY <1>2 DEF Replay, Recorded, Canonical, Serial!Same
  <2>3. answer' = Serial!Told(c)
    BY <1>2, <2>1 DEF Replay, Serial!Told
  <2> QED BY <2>1, <2>2, <2>3 DEF Serial!Repeat
<1>3. ASSUME NEW c \in Client, Commit(c) \/ CrashAfterCommit(c) PROVE Serial!Perform(c)
  BY <1>3, CommitPerforms
<1>4. ASSUME NEW c \in Client, GiveUp(c) PROVE Serial!Drop(c)
  BY <1>4 DEF GiveUp, Serial!Drop
<1>5. ASSUME NEW c \in Client, Conflict(c) \/ Rollback(c) PROVE Serial!Drop(c)
  <2>1. answer[c] = <<>>
    BY <1>5 DEF Conflict, Submitting, Rollback, Running, IndInv, TxnInv
  <2>2. answer' = [answer EXCEPT ![c] = <<>>]
    BY <1>5, <2>1 DEF Conflict, Rollback, IndInv, TypeOK
  <2> QED BY <1>5, <2>2 DEF Conflict, Rollback, Serial!Drop
<1>6. ASSUME \/ \E c \in Client : Begin(c) \/ Execute(c)
             \/ Crash
             \/ UNCHANGED vars
      PROVE  UNCHANGED Serial!serialVars
  BY <1>6 DEF Begin, Execute, Crash, vars, Serial!serialVars
<1> QED BY <1>1, <1>2, <1>3, <1>4, <1>5, <1>6 DEF Next, Serial!Next

(* mutateResourcesBatch implements SerialStore: however transactions,      *)
(* refusals, rollbacks, replays and crashes of many callers interleave,    *)
(* batches take effect one at a time and as a whole, each command of them  *)
(* on the rows the earlier ones left, and a repeated batch is told what it *)
(* wrote the first time.                                                   *)
THEOREM ImplementsSerial == Spec => KeepsSerial
<1>1. Init => Serial!Init /\ SerialInv
  BY DEF Init, Serial!Init, SerialInv
<1>2. IndInv /\ SerialInv /\ [Next]_vars => SerialInv'
  BY SerialInductive
<1>3. IndInv => TypeOK
  BY DEF IndInv
<1>4. IndInv /\ TypeOK' /\ SerialInv /\ [Next]_vars => [Serial!Next]_(Serial!serialVars)
  BY StepsSerial
<1> QED BY <1>1, <1>2, <1>3, <1>4, Invariant, PTL DEF Spec, KeepsSerial, Serial!Spec
=============================================================================
