---------------------------- MODULE ResourceStore ----------------------------
(***************************************************************************)
(* Resource mutations of the event store: mutateResourcesBatch, the        *)
(* transaction it runs, the replay of idempotency keys, and the audit of   *)
(* every resource's mutation chain that runs whenever the store is opened. *)
(*                                                                         *)
(* A client is any caller in the process: it reads resources, prepares a   *)
(* batch, and submits it later - after an await, after other clients have  *)
(* written, or again after a crash, when it has no way to know whether its *)
(* batch was committed.  Idempotency keys and timestamps come from the     *)
(* caller and need not agree with the order of anything.                   *)
(*                                                                         *)
(* Events are not modelled apart from the mutation they belong to; an      *)
(* event that is refused, like every other error inside the transaction,   *)
(* is a Rollback.                                                          *)
(***************************************************************************)
EXTENDS Naturals, Sequences

CONSTANTS
  Res,       \* resources (kind and id)
  Key,       \* idempotency keys
  State,     \* what callers store in a resource
  Client,    \* callers
  Requests,  \* bound: the batches callers ask for, some of Proposals
  MaxBatch,  \* bound: commands in one batch
  MaxTime,   \* bound: the latest timestamp a caller uses
  None

(* A row of `resources'.                                                   *)
Version == [revision : Nat, state : State, deleted : BOOLEAN,
            createdAt : Nat, updatedAt : Nat]

(* A prepared command.  expected is 0 for a create, state None for a       *)
(* delete.  base (the row the caller had read) and siblings (the keys of   *)
(* its batch) are history: they are not part of what is stored.            *)
Command ==
  [op : {"create", "update"}, res : Res, key : Key, expected : Nat, state : State,
   at : Nat, base : Version \cup {None}, siblings : SUBSET Key]
  \cup
  [op : {"delete"}, res : Res, key : Key, expected : Nat, state : {None},
   at : Nat, base : Version \cup {None}, siblings : SUBSET Key]

(* A row of `resource_mutations'.                                          *)
Mutation == [command : Command, result : Version]

ASSUME StoreAssumption ==
  /\ MaxBatch \in Nat \ {0}
  /\ MaxTime \in Nat
  /\ None \notin Version /\ None \notin Mutation /\ None \notin State
  /\ None \notin Client

VARIABLES
  resources,  \* the committed rows: resource -> Version or None
  mutations,  \* the committed log: key -> Mutation or None
  txn,        \* the open transaction, or None
  batch,      \* client -> the commands it is submitting, <<>> when idle
  answer      \* client -> results returned for its batch, <<>> before that

vars == <<resources, mutations, txn, batch, answer>>

-----------------------------------------------------------------------------
(* The transaction's own view of the store while it runs.                  *)
Transaction ==
  [client : Client, done : Nat,
   rows : [Res -> Version \cup {None}], log : [Key -> Mutation \cup {None}]]

(* What canonicalJson compares of a command: all that is stored of it.     *)
Canonical(c) == <<c.op, c.res, c.key, c.expected, c.state, c.at>>

(* Mutants of Accepts: the caller's revision is not compared; its time is  *)
(* not compared; a create may follow a delete.                             *)
AcceptsAnyRevision(rows, c) ==
  IF c.op = "create"
  THEN rows[c.res] = None
  ELSE rows[c.res] # None /\ ~rows[c.res].deleted /\ rows[c.res].updatedAt <= c.at

AcceptsAnyTime(rows, c) ==
  IF c.op = "create"
  THEN rows[c.res] = None
  ELSE rows[c.res] # None /\ ~rows[c.res].deleted /\ rows[c.res].revision = c.expected

AcceptsOverTombstone(rows, c) ==
  IF c.op = "create"
  THEN rows[c.res] # None => rows[c.res].deleted
  ELSE /\ rows[c.res] # None /\ ~rows[c.res].deleted
       /\ rows[c.res].revision = c.expected /\ rows[c.res].updatedAt <= c.at

(* executePreparedResourceMutation: a create needs that no row was ever    *)
(* written, not even a tombstone; the others need a live row at exactly    *)
(* the revision and not after the time the caller prepared for.            *)
Accepts(rows, c) ==
  IF c.op = "create"
  THEN rows[c.res] = None
  ELSE /\ rows[c.res] # None
       /\ ~rows[c.res].deleted
       /\ rows[c.res].revision = c.expected
       /\ rows[c.res].updatedAt <= c.at

(* Mutant of Result: a delete overwrites the state with what it carries.   *)
ResultOverwritingState(rows, c) ==
  IF c.op = "create"
  THEN [revision |-> 0, state |-> c.state, deleted |-> FALSE,
        createdAt |-> c.at, updatedAt |-> c.at]
  ELSE [rows[c.res] EXCEPT !.revision = c.expected + 1, !.state = c.state,
          !.deleted = (c.op = "delete"), !.updatedAt = c.at]

Result(rows, c) ==
  IF c.op = "create"
  THEN [revision |-> 0, state |-> c.state, deleted |-> FALSE,
        createdAt |-> c.at, updatedAt |-> c.at]
  ELSE [rows[c.res] EXCEPT
          !.revision = c.expected + 1,
          !.state = IF c.op = "delete" THEN rows[c.res].state ELSE c.state,
          !.deleted = (c.op = "delete"),
          !.updatedAt = c.at]

Recorded(b) == {i \in DOMAIN b : mutations[b[i].key] # None}

-----------------------------------------------------------------------------
Init ==
  /\ resources = [r \in Res |-> None]
  /\ mutations = [k \in Key |-> None]
  /\ txn = None
  /\ batch = [c \in Client |-> <<>>]
  /\ answer = [c \in Client |-> <<>>]

(* What a caller asks for before it is turned into commands.               *)
Proposal ==
  [op : {"create", "update"}, res : Res, key : Key, state : State, at : 0..MaxTime]
    \cup [op : {"delete"}, res : Res, key : Key, state : {None}, at : 0..MaxTime]

DistinctKeys(ps) == \A i, j \in DOMAIN ps : i # j => ps[i].key # ps[j].key

Proposals == {ps \in UNION {[1..n -> Proposal] : n \in 1..MaxBatch} : DistinctKeys(ps)}

ASSUME RequestsAssumption == Requests \subseteq Proposals

(* The caller builds its commands from the rows it reads now; a command on *)
(* a missing or deleted row that is not a create is not built.             *)
Prepared(p, keys) ==
  [op |-> p.op, res |-> p.res, key |-> p.key,
   expected |-> IF p.op = "create" THEN 0 ELSE resources[p.res].revision,
   state |-> p.state, at |-> p.at,
   base |-> IF p.op = "create" THEN None ELSE resources[p.res],
   siblings |-> keys]

Live(r) == resources[r] # None /\ ~resources[r].deleted

Prepare(c, ps) ==
  /\ batch[c] = <<>>
  /\ \A i \in DOMAIN ps : ps[i].op # "create" => Live(ps[i].res)
  /\ batch' = [batch EXCEPT ![c] =
       [i \in DOMAIN ps |-> Prepared(ps[i], {ps[j].key : j \in DOMAIN ps})]]
  /\ UNCHANGED <<resources, mutations, txn, answer>>

Submitting(c) == batch[c] # <<>> /\ answer[c] = <<>> /\ txn = None

(* Every key is new: the write lock is taken and the transaction begins.   *)
Begin(c) ==
  /\ Submitting(c)
  /\ Recorded(batch[c]) = {}
  /\ txn' = [client |-> c, done |-> 0, rows |-> resources, log |-> mutations]
  /\ UNCHANGED <<resources, mutations, batch, answer>>

(* Mutant of Replay: the recorded command is not compared.                 *)
ReplayUncompared(c) ==
  /\ Submitting(c)
  /\ Recorded(batch[c]) = DOMAIN batch[c]
  /\ answer' = [answer EXCEPT ![c] =
       [i \in DOMAIN batch[c] |-> mutations[batch[c][i].key].result]]
  /\ UNCHANGED <<resources, mutations, txn, batch>>

(* Every key is recorded, with the same command: the recorded results are  *)
(* returned and nothing is written.                                        *)
Replay(c) ==
  /\ Submitting(c)
  /\ Recorded(batch[c]) = DOMAIN batch[c]
  /\ \A i \in DOMAIN batch[c] :
       Canonical(batch[c][i]) = Canonical(mutations[batch[c][i].key].command)
  /\ answer' = [answer EXCEPT ![c] =
       [i \in DOMAIN batch[c] |-> mutations[batch[c][i].key].result]]
  /\ UNCHANGED <<resources, mutations, txn, batch>>

(* A key is recorded for another command, or some keys are new and others  *)
(* are not: the batch is refused and the caller gives it up.               *)
Conflict(c) ==
  /\ Submitting(c)
  /\ Recorded(batch[c]) # {}
  /\ \/ Recorded(batch[c]) # DOMAIN batch[c]
     \/ \E i \in Recorded(batch[c]) :
          Canonical(batch[c][i]) # Canonical(mutations[batch[c][i].key].command)
  /\ batch' = [batch EXCEPT ![c] = <<>>]
  /\ UNCHANGED <<resources, mutations, txn, answer>>

Running(c) == txn # None /\ txn.client = c

NextCommand == batch[txn.client][txn.done + 1]

(* The next command of the batch, against what the earlier ones wrote.     *)
Execute(c) ==
  /\ Running(c)
  /\ txn.done < Len(batch[c])
  /\ Accepts(txn.rows, NextCommand)
  /\ LET m == [command |-> NextCommand, result |-> Result(txn.rows, NextCommand)]
     IN  txn' = [txn EXCEPT !.done = @ + 1,
                            !.rows[m.command.res] = m.result,
                            !.log[m.command.key] = m]
  /\ UNCHANGED <<resources, mutations, batch, answer>>

(* Mutant of Rollback: the failed batch leaves what it had already done.   *)
RollbackKeepingWork(c) ==
  /\ Running(c)
  /\ resources' = txn.rows
  /\ mutations' = txn.log
  /\ txn' = None
  /\ batch' = [batch EXCEPT ![c] = <<>>]
  /\ UNCHANGED answer

(* A command is refused, or anything else fails before COMMIT: the caller  *)
(* gets the error, and may prepare anew.                                   *)
Rollback(c) ==
  /\ Running(c)
  /\ txn' = None
  /\ batch' = [batch EXCEPT ![c] = <<>>]
  /\ UNCHANGED <<resources, mutations, answer>>

CommitTxn(c) ==
  /\ Running(c)
  /\ txn.done = Len(batch[c])
  /\ resources' = txn.rows
  /\ mutations' = txn.log
  /\ txn' = None

Commit(c) ==
  /\ CommitTxn(c)
  /\ answer' = [answer EXCEPT ![c] =
       [i \in DOMAIN batch[c] |-> txn.log[batch[c][i].key].result]]
  /\ UNCHANGED batch

(* The process dies between COMMIT and the answer.                         *)
CrashAfterCommit(c) ==
  /\ CommitTxn(c)
  /\ UNCHANGED <<batch, answer>>

(* The process dies inside the transaction.  Callers whose commands are    *)
(* derived from durable state (or were sent from outside) submit the same  *)
(* batch again; the others are covered by GiveUp.                          *)
Crash ==
  /\ txn # None
  /\ txn' = None
  /\ UNCHANGED <<resources, mutations, batch, answer>>

(* The caller has its answer, or no longer wants it.                       *)
GiveUp(c) ==
  /\ batch[c] # <<>> /\ ~Running(c)
  /\ batch' = [batch EXCEPT ![c] = <<>>]
  /\ answer' = [answer EXCEPT ![c] = <<>>]
  /\ UNCHANGED <<resources, mutations, txn>>

Next ==
  \/ \E c \in Client, ps \in Requests : Prepare(c, ps)
  \/ \E c \in Client : Begin(c)
  \/ \E c \in Client : Replay(c)
  \/ \E c \in Client : Conflict(c)
  \/ \E c \in Client : Execute(c)
  \/ \E c \in Client : Rollback(c)
  \/ \E c \in Client : Commit(c)
  \/ \E c \in Client : CrashAfterCommit(c)
  \/ \E c \in Client : GiveUp(c)
  \/ Crash

Spec == Init /\ [][Next]_vars

-----------------------------------------------------------------------------
TypeOK ==
  /\ resources \in [Res -> Version \cup {None}]
  /\ mutations \in [Key -> Mutation \cup {None}]
  /\ txn \in Transaction \cup {None}
  /\ batch \in [Client -> Seq(Command)]
  /\ answer \in [Client -> Seq(Version)]

MutationsOf(log, r) == {k \in Key : log[k] # None /\ log[k].command.res = r}

First(m) ==
  /\ m.command.op = "create"
  /\ m.result.revision = 0
  /\ ~m.result.deleted
  /\ m.result.state = m.command.state

Follows(m, p) ==
  /\ m.command.op # "create"
  /\ ~p.result.deleted
  /\ m.command.expected = p.result.revision
  /\ m.result.revision = p.result.revision + 1
  /\ m.command.at >= p.command.at
  /\ m.result.createdAt = p.result.createdAt
  /\ m.result.updatedAt = m.command.at
  /\ m.result.deleted = (m.command.op = "delete")
  /\ m.result.state = IF m.result.deleted THEN p.result.state ELSE m.command.state

(* validateResourceMutationChain: the log of a resource is one chain, from *)
(* a create to the row itself, with nothing after a delete.                *)
ValidChain(rows, log, r) ==
  IF rows[r] = None
  THEN MutationsOf(log, r) = {}
  ELSE /\ \E k \in MutationsOf(log, r) :
            /\ log[k].result = rows[r]
            /\ log[k].command.at = rows[r].updatedAt
       /\ \A k \in MutationsOf(log, r) : log[k].result.revision <= rows[r].revision
       /\ \A j, k \in MutationsOf(log, r) :
            log[j].result.revision = log[k].result.revision => j = k
       /\ \A k \in MutationsOf(log, r) :
            \/ First(log[k])
            \/ \E j \in MutationsOf(log, r) : Follows(log[k], log[j])

(* The store can always be opened again: whatever batches were committed,  *)
(* refused, rolled back or replayed, the audit at the next open accepts    *)
(* every resource.                                                         *)
AuditPasses == \A r \in Res : ValidChain(resources, mutations, r)

(* A batch is recorded as a whole or not at all, also when it shares keys  *)
(* with another batch or the process dies while it runs.                   *)
AllOrNothing ==
  \A k \in Key : mutations[k] # None =>
    \A j \in mutations[k].command.siblings :
      /\ mutations[j] # None
      /\ mutations[j].command.siblings = mutations[k].command.siblings

(* Whoever has an answer has it for exactly the commands it sent, and the  *)
(* answer is what those commands wrote when they were first executed.      *)
AnswersAreRecorded ==
  \A c \in Client : answer[c] # <<>> =>
    \A i \in DOMAIN batch[c] :
      LET m == mutations[batch[c][i].key]
      IN  m # None /\ Canonical(m.command) = Canonical(batch[c][i]) /\ m.result = answer[c][i]

BuiltOnPredecessor(log) ==
  \A k \in Key :
    log[k] # None /\ log[k].command.op # "create" =>
      \E j \in MutationsOf(log, log[k].command.res) :
        log[j].result = log[k].command.base /\ Follows(log[k], log[j])

(* No lost update: a recorded update or delete was built from the very row *)
(* it replaced, however long ago its caller had read it, and no two of     *)
(* them replaced the same row.                                             *)
NoLostUpdate ==
  /\ BuiltOnPredecessor(mutations)
  /\ \A r \in Res : \A j, k \in MutationsOf(mutations, r) :
       /\ mutations[j].command.op # "create" /\ mutations[k].command.op # "create"
       /\ mutations[j].command.base = mutations[k].command.base
       => j = k

(* What is recorded stays as it is, and a deleted resource never returns.  *)
RecordsArePermanent ==
  [][/\ \A k \in Key : mutations[k] # None => mutations'[k] = mutations[k]
     /\ \A r \in Res :
          (resources[r] # None /\ resources[r].deleted) => resources'[r] = resources[r]]_vars

-----------------------------------------------------------------------------
Serial == INSTANCE SerialStore WITH
  rows <- resources, log <- mutations, sent <- batch, got <- answer

(* The store implements SerialStore: the transactions of many callers,     *)
(* with their rollbacks, replays and crashes, are batches carried out one  *)
(* at a time, each at the instant of its COMMIT, and no key a second time. *)
KeepsSerial == Serial!Spec
=============================================================================
