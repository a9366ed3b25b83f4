# MagicPot agent platform: a TLA+ verification project

MagicPot Terrarium is an Electron workbench with an agent platform inside. The
part of it that has to be right when nobody is looking is *Magic Agent Platform 2*
(`src/packages/app/src/main/magicAgentPlatform2/`): a SQLite event store, and on
top of it durable triggers, approvals, drives, channels and agent instances. That
part is what this project models: TLA+ specifications translated from the source,
TLC runs on small instances, and TLAPS proofs for every value of the constants.

All source paths below are relative to `src/packages/app/src/main/magicAgentPlatform2/`
unless they start with `src/`.

## 1. Inventory

| component | state | operations | talks to |
|---|---|---|---|
| event store: resources (`persistence/eventStore.ts`, `schema.ts`) | tables `resources`, `resource_mutations`, `events` | `mutateResource(s)`, `getResource`, `listResources`, audit at open | every store below writes through it |
| event store: streams, snapshots, backup (`eventStore.ts`, `backupRestore.ts`) | `events`, `snapshots`, files | `append(Batch)`, `appendSnapshot`, `recoverStream`, `createBackup`, restore | sessions, graph runs |
| write lock and instance leases (`persistence/writeLock.ts`) | lock directory, owner record, lease files | acquire, release, recover a dead owner, scan leases | every write transaction; restore |
| occurrence queue (`triggers/triggerOccurrenceStore.ts`, `triggerOccurrenceScheduler.ts`) | one resource per occurrence; one in-flight execution | `enqueue(Manual)`, `claimNext`, `complete`, `fail`, `runOnce`, `start`, `stop` | sources enqueue; the executor runs |
| trigger sources (`triggers/*TriggerSource.ts`) | cursors in trigger configs | `tick`, `enqueue` on channel, drive, workflow, startup and external events | occurrence queue, trigger store |
| schedule triggers (`triggers/persistentTriggerStore.ts`, `persistentTriggerScheduler.ts`) | one resource per trigger, with claim and failure | `claimDue`, `completeClaim`, `failClaim`, `retry`, `update`, `setEnabled`, `setControl` | executor |
| execution (`triggers/productionTriggerExecutor.ts`, `policyExecution.ts`, `executionOutcomeStore.ts`) | permit, outcome record | authorise, consume, dispatch, record | approval store, agents, graphs |
| approval store (`policy/approvalStore.ts`) | grants, authorisations, audit | `createApprovalGrant`, `authorize`, `resumeAuthorization`, `consumeExecutionPermit` | every command service |
| trigger runtime and lifecycle (`triggers/productionTriggerRuntime.ts`, `productionTriggerLifecycle.ts`) | the active runtime, timers | `start`, `stop`, `close`, replacement | all trigger parts |
| drives (`drives/`) | one resource per drive, with delivery and lease | transition, transfer, claim, acknowledge, fail, retry delivery | agents; drive trigger source |
| runtime channels (`channels/`) | channel and message resources | join, leave, publish, claim, acknowledge, forward, wake | agents and graphs; channel trigger source |
| agent instances and teams (`agents/`) | one resource per instance, lifecycle operations | create, start, pause, resume, cancel, team-wide operations | channels, drives, controllers |
| graph runtime (`../magicAgentRuntime/graph/`) | run records, events | schedule nodes, retry, cancel, persist | dispatched by triggers |
| task queue, ComfyUI batches (`../queue`, `../comfy`) | in-memory queues and pools | enqueue, run, cancel | renderer |
| application update (`../appUpdate`) | staged versions, lock | stage, confirm, roll back | launcher |
| assistant runtime, kernel, tools, memory, MCP and design-tool bridges, UI, launcher, sidecars | sessions, external processes | I/O and provider protocols | not modelled |

How they interact: a source or a command enqueues an occurrence or creates a
resource with one event-store transaction; a polling scheduler claims it with a
second one, awaits an execution that passes the policy boundary (authorise,
consume a permit, dispatch), and settles it with a third. Every hand-over between
those steps crosses an `await`, a lease that can run out, a close or a crash.

What makes each part correct, and what is hard about it:

- **Occurrence queue.** Every occurrence the listing shows ends completed or dead-lettered; no attempt
  is dispatched twice; a late result changes nothing; the queue is served in order.
  Hard: overlapping runtimes, expired leases, crashes between claim and result, three
  different orders of the same records, attempt limits enforced in three places.
- **Resource mutations.** Batches are atomic, replays are exact, updates are not lost,
  and the store can always be opened again. Hard: callers that read, await and write;
  failures in the middle of a batch; death around COMMIT; re-submission.
- **Write lock.** One writer at a time; a dead writer's lock can be reclaimed. Hard: file
  operations of several processes, death between any two of them.
- **Calendar and cron source.** Every instant is enqueued once. Hard: two transactions per
  instant, shared idempotency keys, a timer that dies with its first exception.
- **Approvals.** A permit is consumed once, a grant not more often than allowed, and
  every decision has its audit record. Hard: decisions across awaits, replays with
  changed inputs, death after consumption.
- **Schedule triggers.** Missed windows are handled as the policy says; a claim that
  failed is retried for the same window. Hard: arithmetic at boundaries, update and
  retry while a claim is held.
- **Drives.** What is acknowledged was delivered as it stands; failures dead-letter after the
  last attempt. Hard: commands during a delivery, leases that run out, replaced runtimes.
- **Channels.** One claimant per queue message, every broadcast receiver acknowledges, wires
  form no cycle, forwarding publishes no copy twice. Hard: members that leave, claims that
  expire, a forwarding that fails or dies between two of its writes, recursion.
- **Restore.** The store ends up as what it was or as the backup, and never needs help. Hard:
  links, unlinks and fsyncs that fail, die or are undone by a loss of power at any point.
- **Agent instances, graph runs, task queue.** Status machines with cancellation racing
  completion.

`PROJECT.json` lists each hazard at its line, with the property that covers it or the
planned module that will.

## 2. Plan

In order of importance.

1. `TriggerOccurrences` (and the abstract `OccurrenceContract` it implements), `TriggerOccurrencesProofs`. **Done.**
2. `ResourceStore`, which implements `SerialStore`, and `ResourceStoreProofs`: the transactions every other store relies on. **Done.**
3. `Approvals`, which implements `GrantLedger`: grants, authorisations and permits; `TriggerExecution`, which puts the policy boundary and the outcome record on top of it and implements `ExecutionContract`; `ApprovalsProofs`, `TriggerExecutionProofs`. **Done.**
4. `Drives`, which implements `DriveCourse`, and `DrivesProofs`: leased delivery under commands. **Done.**
5. `RuntimeChannels`, which implements `ChannelRelay`, and `RuntimeChannelsProofs`: bounded publication, claims, wires and forwarding. **Done.**
6. `Restores`, which implements `StoreSwap`, and `RestoresProofs`: the journal of a restore under deaths and losses of power. **Done.**
7. `CalendarCron`: the source's two-transaction tick on top of the queue's enqueue, with crashes and a re-armed timer.
8. `WriteLock`: the lock protocol at the granularity of file operations, with process death. `Restores` relies on it.
9. `ScheduleTriggers`: claims and missed-run policies, the policies also checked against a reference definition over bounded inputs.
10. `EventLog`: streams, snapshots and recovery, with recovery shown equal to a full replay, and `createBackup`.
11. `AgentInstances`, `GraphRun`, `TaskQueue`, as far as the bounds allow.
12. `TriggerExecution` as the dispatch step of `TriggerOccurrences`, with the failures of single writes: an occurrence that is marked failed after its target was dispatched, and retried under a new authorisation.

Each module is parameterised by CONSTANTS with named assumptions, has one action per
operation and uses no RECURSIVE operator, so that it can be proved about.

## 3. `TriggerOccurrences`

State and code:

| variable | code |
|---|---|
| `occurrences` | the `trigger-occurrence` resources (`TriggerOccurrenceState`); `owner` is the claim's random id, `expiresAt` its lease, 0 when absent |
| `enabled` | the `enabled` flag of each trigger |
| `now` | `Date.now()` |
| `active`, `flight` | the polling `TriggerOccurrenceScheduler` and the execution (`inFlight`) each one awaits |
| `lastClaim` | claim ids handed out (`randomUUID`) |
| `dispatches` | history: calls of the target per occurrence and attempt |
| `interrupts` | bound on stops and crashes |

Actions: `Enqueue` (`enqueue`, `enqueueManual`), `SetEnabled`, the three outcomes of a
poll, `PollIdle`, `PollRejected` and `PollClaim` (`executeOne` up to its await, with the
sweep of `claimNext`), `Dispatch` (`executeOccurrence`), `Complete`, `Fail`, `Fenced`
(what follows the await), `Start`, `Stop`, `Crash`, `Tick`. A poll is one step because
`claimNext` runs synchronously; everything after the await is a step of its own.

`closeProductionTriggerLifecycle` forgets the active runtime before it awaits its flight,
so a replacement can poll meanwhile: that is why there is a set of workers, and why a
worker whose flight is over may start again as a new runtime.

`PollRejected` is an occurrence enqueued with a `requestedAt` ahead of the clock: its
resource's `updatedAt` is that time, and the event store refuses a write dated earlier, so
the poll ends with an exception and is tried again later.

`OccurrenceContract` is the promise seen from outside: per occurrence a phase (absent,
open, fulfilled, abandoned), the attempts granted and the deliveries made. An attempt may
still be delivered after the occurrence has settled - the executor does not look at its
claim again before it dispatches - but never twice.

Runs:

- `occurrences-safety`: two occurrences, two overlapping runtimes, two attempts, one stop or
  crash, timestamps up to one tick off the clock, a page that holds everything. Two
  occurrences are enough for one to overtake another, two runtimes for a late result,
  two attempts for a first and a last one. Checks the type invariant, at most one
  dispatch per attempt, completion by the last attempt only, dead letters only after every
  attempt, one live claimant, settled records never written again, claims in order, and
  the refinement of `OccurrenceContract`. Workers and keys are symmetric.
- `occurrences-liveness`: two occurrences over a page of one, two runtimes, two attempts and one
  interrupt, under `FairSpec`: every occurrence settles, unless its trigger is disabled or from some time on
  `list()` never returns it again. The last exception is needed, and a page of one shows why: the first
  occurrence settles, its record stays and is the least recently written, and the second is hidden behind it for ever
  (without the exception TLC finds just that). In the code the page has 1000 records, and settled ones are
  never deleted: after that many, no new occurrence is served. What the property still excludes is that an occurrence
  which comes back to the page over and over, as others fail and are written again, is passed over for ever. No symmetry.
- `occurrences-paging` (a violation): three records over a page of two. `list()` returns
  the 1000 least recently updated resources, settled ones included, and `claimNext` sorts
  only those, so an earlier occurrence outside the page is overtaken. The test
  `triggerOccurrenceStore.test.ts:58` promises global order.

Fairness: the poll timer is re-armed in a `finally` (weak fairness of `Poll`); an
execution that started ends, successfully or not (`Execute` - a target that hangs for ever
blocks the code's queue too, and is excluded by this assumption); the application is
started again after a stop or crash (`Start`); time passes (`Tick`). No fairness is assumed
of success: failures may use up every attempt.

## 4. `ResourceStore`

State: `resources` and `mutations` are the committed rows of the two tables; `txn` is the
open transaction's own view, which only `COMMIT` makes visible; `batch` is what each
caller is submitting, `answer` what it got. Timestamps are the callers' own. `base` and `siblings` of a
command are history: the row the caller had read and the keys of its batch.

Actions: `Prepare` (a caller reads rows and builds commands from them, with their
revision and time), `Begin` (write lock, `BEGIN IMMEDIATE`, all keys new), `Replay` and
`Conflict` (keys already recorded), `Execute` (one command against what the earlier
ones wrote), `Rollback`, `Commit`, `CrashAfterCommit` (no answer), `Crash` (no commit),
`GiveUp`. Between `Prepare` and `Begin` anything may happen: that is the await in
every caller. `Rollback` is also any failure the model does not spell out, such as a
refused event.

`AuditPasses` is `validateResourceMutationChain`, which runs over every resource when
the database is opened and refuses to open it otherwise: it is the property the code
itself would enforce too late.

`SerialStore` is the promise to the callers of `mutateResourcesBatch`, without transactions: a batch is
performed at one instant, each of its commands on the row that the earlier ones left, under keys used
for the first time; whoever sends it again is told what it wrote; a crash is a batch whose caller is not
told, and a failed batch never happened. `Commit` and `CrashAfterCommit` are its `Perform`.
That recorded mutations and tombstones never change (`RecordsArePermanent`) is a theorem of its own.

Run `resource-store`: two resources, three keys, two callers, batches of up to two commands
on different resources, two timestamps, one payload. The constraint `SmallBatches` lets one
caller at a time submit two commands and one key carry the later timestamp. Two resources let
a batch touch both and fail in the second; three keys let two batches overlap in one key, and
let two updates of one row compete; one late timestamp makes every earlier one stale. One
payload is enough because `NoLostUpdate` compares revisions and bases. Callers, keys and resources are symmetric.

## 5. `Approvals`

State and code (`policy/approvalStore.ts`):

| variable | code |
|---|---|
| `policy` | the rules of the running process, as the effect they give each request |
| `grants` | the `approval` resources (`ApprovalState` and the grant in it); the revision of the resource equals `useCount` |
| `audits` | the `policy-audit` resources (`AuditState`); `grant` and `use` are its receipt, `command` is `lastAuthorizationCommandDigest` |
| `attempts` | the audits of refused attempts, `<id>:attempt:<key>` |
| `held` | branded permits that callers hold (`permitBrands`), by the key they will consume with |
| `turn` | the caller that is between its `authorize` and its `consumeExecutionPermit` |
| `consumed` | history: successful consumptions |
| `now`, `restarts` | the clock; bound on restarts |

Actions: `CreateApprovalGrant`; `authorize` by its outcomes - `AuthorizeDirectly`,
`AuthorizeDenied`, `AwaitApproval`, `AuthorizeWithGrant`, `RefuseGrant`, `AuthorizeAgain`
(the replay that hands the permit out again); `ResumeAuthorization`; `consumeExecutionPermit`
as `ConsumePermit` and `ConsumeAgain`; `Abandon`; `Tick`; `Restart`. Calls that throw or
repeat a status without a permit change nothing and are no actions here.

`Waiting` separates two kinds of callers. The trigger boundary and the command services authorise and
consume without an await in between: their authorisations are outside `Waiting`, `turn`
keeps everyone else out until they have consumed or given up, and only a crash can come between. The
file, Git and notebook hosts prepare their effect in between; for these everything interleaves. A caller of the
second kind that asks twice under one key holds two permits, and both consumptions
succeed, the second as a replay (`ConsumeAgain`): `ConsumedAtMostOnce` is therefore stated
for the first kind only. In production those hosts mint a fresh authorisation id per call.

A permit carries a copy of its audit's decision, times and constraints. An authorised audit
changes only by being consumed (`AuthorizationCourse`, a theorem), so the copy always agrees and is left out.

`GrantLedger` is the promise, without permits, keys and clocks: a request is decided by the rules of the moment;
where they ask for approval, a decision in favour costs one use of a grant for that very request, in the same step,
and no use is ever given back; a decision in favour is acted upon while the rules still decide so, once for a caller that
does not wait in between; nothing else ever changes a decision. The mapping reads the uses a grant has left off its
resource (`Allowance`) and a decision off its audit (`Decision`); `rules` is the `policy` of the running process, `acted` the count of
consumptions. What the ledger leaves open stays with the invariants: how long a grant and a permit are valid
(`ConsumedUnderAuthority`), who holds what between the steps (`PermitsFollowPolicy`).

Abstractions: one policy version, one store id and one approval requirement; approver, actor, scope and
constraints are part of the request a grant is for; idempotency keys belong to one
authorisation; the `grant:<id>` audit, written once in the batch that creates a grant and
never read back, is left out; the clock does not go back.

Run `approvals`: one caller of each kind, two requests, one grant of up to two uses, two
keys, a permit lifetime of two ticks, grants of one to three, one restart under any rules.
Two authorisations are enough to compete for a use, two uses to tell the last one from the
others; with these lifetimes either of the two bounds of a permit's expiry can be the earlier one; two
keys tell a replay from another call; a caller of the second kind may hold two permits at
once. The run checks the five invariants and the refinement. Five constraints in `MCApprovals` keep the instance small: the second request is only
there to be mistaken for the first (`SecondRequestBound`), one refused attempt is on record
(`AttemptBound` - nobody reads them), a grant presented where none is needed is not told apart
from the command without it (`CommandBound`), the grant is given at time 0 (`GrantBound`),
and the permits held at once are two (`HeldBound`). Keys are symmetric.

## 6. `TriggerExecution`

`TriggerExecution` extends `Approvals` by `execute()` of the policy boundary
(`triggers/policyExecution.ts`), the outcome records (`executionOutcomeStore.ts`) and the
executor around the target (`productionTriggerExecutor.ts`). `flight` is where each
`execute()` stands, `outcomes` the status of the `trigger-execution` resource, `dispatches` a
history of target calls, `answer` what the last `execute()` returned.

Steps end where the code awaits or where the process can die between two durable writes: `Begin...` (the first
`authorize()`), the `await` of the grant provider, `GrantPermitted`, `GrantRefused`, `GrantSettled`
or `NoGrantYet`, then `Consume`, `Record`, `Dispatch`, `Complete` with their failures. Until the record is written there is
no await: `Free` keeps other executions out. Ids and keys derive from the request's digest, hence
`FirstKey` and `GrantKey`. The second attempt with a refused grant is answered `denied` or with a
conflict, depending on whether it is made at the same instant; both are allowed.

The branch of `execute()` for a `PermitConsumedError` (lines 131-145) has no action: the
authorisation was found unconsumed in the same turn, and one process owns the store.
For the same reason the replay in `Consume` (`ConsumeAgain`) never happens here; it stays in the
action because the code makes that call.

`ExecutionContract` is the promise: spend, record, deliver, settle, each at most once and in this
order, possibly stopping anywhere.

Runs:

- `trigger-execution`: one request, two concurrent executions, two grants of one use, expiry,
  two restarts under any rules, every failure. One request is enough because different
  requests share no record except a grant, and a grant is for one request; two grants let both executions be
  approved; two restarts let a crash be followed by a second one during the recovery.
- `execution-replay` (a violation): one worker, no restart. The consumption succeeds, its record
  fails, and the retry is answered `already-consumed` without writing the record, whereas
  `policyExecution.test.ts:278` is named "recovers a missing permit-consumed record on
  already-consumed replay without executing". That test reaches the recovery by replacing
  both `authorize()` and `consumeExecutionPermit()`. An execution lost this way is in nobody's list of uncertain outcomes.

## 7. `Drives`

State and code (`drives/persistentDriveStore.ts`, `driveDeliveryScheduler.ts`):

| variable | code |
|---|---|
| `drives` | the `drive` resources; `token` and `expiresAt` are the lease of the delivery record, 0 when there is none, and `attempts` is 0 when there is no delivery record |
| `active`, `flight` | the scheduler that polls, and what each `deliverOne` keeps over its await: its claim and the parts of the claimed state its settlement compares |
| `lastToken` | claim tokens handed out (`randomUUID`) |
| `runs` | history: which attempt was run, for which assignee, owner and links |
| `now`, `commands`, `interrupts` | the clock; bounds |

Actions: the commands `Create`, `Transition`, `Transfer`, `SetLinks`, `ReportProgress`,
`RetryDelivery`; `Claim` (`deliverOne` up to its await), `Deliver` (the agent has run),
`Acknowledge`, `Fail` and `Unsettled` (the settlement with `settlementRevision`, accepted or
thrown); `Start`, `Stop`, `Crash`, `Tick`. Every command is one mutation under the revision its
caller read, so a command appears where it is accepted; a replay writes nothing. Polls that find
nothing, or whose claim the store refuses, change nothing. Each worker is one runtime's
scheduler: a replacement may poll while the old runtime still delivers.

Abstractions: owner and links are one value, `detail`, because a settlement only compares them;
progress texts, metadata and the page of 1000 drives of `list()` are left out;
`terminalReason` is not kept, it is never present while a drive is active.

`DriveCourse` is the promise per drive: its status follows the table of transitions, attempts
begin only while it is active and its delivery is open, it is acknowledged only if its latest
attempt succeeded, and given up only if enough attempts were made and the latest did not succeed.

Runs:

- `drives-safety`: one drive, two overlapping runtimes, two details, two attempts, three accepted
  commands, three claims, a lease and a delay of one tick, timestamps up to one tick off the clock,
  one stop or crash. Three commands are enough to create, leave and re-enter a state during a
  delivery; three claims let a lease be taken over after the last attempt. Workers are symmetric.
- `drives-liveness`: two drives that compete for one scheduler, one stop or crash, two commands
  after which the drives stay alone. Under `FairSpec` every drive that asks for delivery is
  acknowledged or dead-lettered, or stops asking.

Fairness: the poll timer is re-armed after every poll, a delivery ends (one that hangs blocks the
code's scheduler too), the application is started again, time passes. `Punctual` is an assumption
of the liveness run, not of the safety run: a delivery ends before its lease of 30 s runs out. The
code does not see to that - there is no heartbeat, and only a failure report dead-letters - so a
longer delivery is claimed and performed again for ever, without ever becoming a dead letter. Also,
a drive last written at a time ahead of the clock makes the claim throw as long as it is the first
candidate, and the drives behind it wait.

Both runs switch deadlock checking off: a system without drives to deliver and with its commands
used up stops.

## 8. `RuntimeChannels`

State and code (`channels/`):

| variable | code |
|---|---|
| `members` | the members in each `runtime-channel` resource |
| `wires` | the wire resources: absent, enabled, removed |
| `messages` | the message resources; `token` counts the claims (`claimToken`), `recipients` and `received` are the deliveries of a broadcast |
| `forwarding` | the forwarding resources; `closed` are the idempotency keys under which a success was recorded |
| `held` | the token each member's own last claim returned |
| `current`, `todo`, `retries` | the turn of `forward()` or `retryForwarding()`: the `forwardOne` under way, the stack of its loops, the rest of the list of due attempts |
| `serving` | history: the message whose publication the turn serves |

Actions: `Join`, `Leave`, `MakeWire`, `RemoveWire`, `Publish`, `Claim`, `Acknowledge`, `Retry`, and
the writes of a turn: `ForwardNext` and `RetryNext` (`ensure`), `PublishCopy`, `Report` (`succeed`),
and the catch block of `forwardOne` as `Recover`, `Fail` and `Throw`; `Crash`, `Tick`. A turn is one
synchronous run of the event loop: nothing else happens in it, but the process can die after each
of its writes. A message is known by where it was published and by the wires it came over, which is what
the code derives the ids of copies from.

Abstractions: channels are there from the start; payloads, authorisation and the wakeups of agents
and graphs are left out. The order of equally old messages, of wires and of due attempts is left
open. After a crash commands may come before the start-up retry, which is more than the code allows.
`forwardInFlight` is left out: with acyclic wires no loop comes back to its own message.

Times: `publishedAt`, `claimedAt` and `acknowledgedAt` are the callers', and nothing compares them with the clock.
`Publish`, `Claim` and `Acknowledge` take any time `at` within `Skew` of the clock: `publish` counts what is pending as
of the date of the message, `claimQueue` looks at the last lease as of its `claimedAt`, and the event store refuses a claim or
acknowledgement dated before the message's last write (`updatedAt`). Forwarding goes by the clock.

Pages: `listPending` of the messages and that of the forwardings list the 1000 (`ListLimit`) resources of their
kind that were written least recently, and filter afterwards. Messages of all channels share the page, and what is
acknowledged, expired or forwarded stays on it. `MessagePages` and `ForwardingPages` are the pages the model may get; which of two
resources of the same `updatedAt` comes first is left open. Once a page is full of what is done, new messages are neither
counted nor forwarded, and new forwardings are not retried. The listing of wires is a page too, removed wires
included, but the model gives it no limit: `WirePageAssumption` says that the wires ever made fit. With more of
them than that, `targets()` misses enabled ones, and neither acyclicity nor forwarding can be relied on.

What the model made plain: a claim does not look at `acknowledgedAt`; the capacity of a target is
evaluated as of the time its forwarding was first tried, so a target that was full of messages which
have expired since keeps refusing the copy until they are acknowledged; a member that has left
can never acknowledge the broadcast it was a recipient of, which then waits for its expiry.

`MailboxesBounded` says what the capacity does bound. `publish` counts what is pending as of the date
of the message, and a message under claim is not; so in a queue more messages than the capacity may wait again once
claims run out, and only those that no consumer ever claimed are bounded. For the other modes all that
is pending is. Because messages may be dated before or after one another, the property looks at every time up to `MaxTime`
and counts what is dated no later and waits then; a message dated ahead is not counted before its date. And it speaks of the states in which all messages ever published fit one page
(`FitsOnePage`). Beyond that the bound is lost: with a page of three TLC finds an overfull queue once the hypothesis is dropped.

`ChannelRelay` is the promise about forwarding: a message is published once and stays acknowledged,
a copy exists only after its source, and is reported only when it exists.

Runs:

- `channels-safety`: a broadcast channel wired to a point-to-point one, which may be wired to a
  queue or back; two messages that expire, three members, one change of members or wires, two
  claims, one tick with timestamps up to one off the clock, one crash, targets with room for one. One wire is laid, so that the one change can be the
  wire that would close the cycle or the one that carries copies a second hop (`HopLimit` 2 for the
  code's 32: the third hop would repeat the second). The page holds four messages: there may be six with their copies, so `MailboxesBounded`
  has its hypothesis in some states and not in others, and the other properties are checked where the page leaves messages out too. The
  two consumers and the two messages are symmetric.
- `channels-forwarding` (a violation): a chain of two wires, no crash. A message that stays pending
  is forwarded again with every later publication, and its success is recorded each time; the event
  store accepts that under two keys. At the third time the catch block throws, out of the publication
  of a message that is committed: its own forwarding never gets on record, and its publisher is told
  that the publication failed.

Deadlock is not checked: with all messages published and the bounds used up the system stops.

## 9. `Restores`

State and code (`persistence/backupRestore.ts`, the constructor and `close` of `eventStore.ts`,
`writeLock.ts`):

| variable | code |
|---|---|
| `seen` | the directory: the names of files (store, rollback, partial), the journal, whether `-wal` and `-shm` are there |
| `disk` | the directories a loss of power may leave: those since the last `fsyncDirectory` |
| `content`, `onDisk` | the content of each file, and the contents a loss of power may leave |
| `open` | a process has the store open |
| `pc`, `toSync`, `recovering`, `call` | the next step of the restore or recovery under way |
| `result` | how the last call ended |

Actions: `Lock` and `Return` (the write lock), `Open`, `Create`, `Write`, `Close` (the store),
`CallRestore`, `CallRecover`, and one action per file operation of `restoreEventStoreBackupLocked` -
`Copy`, `Prepare`, `WriteJournal`, `LinkRollback`, `UnlinkTarget`, `LinkTarget`, `Verify`, `DropPartial`,
`DropJournal`, `End` -, of its catch block (`CleanUp`) and of `recoverEventStoreRestoreLocked` -
`Inspect`, `Undo`, `PutBack` and the last three of the restore. `SyncDirectory` is the fsync that follows a change.
`Throw` lets any step fail, `Doubt` the check of a copy for a reason that is not the copy's fault;
`Kill` and `PowerLoss` end the process anywhere.

The file system: changes to a directory become durable in the order they were made, at the latest
with the next fsync of the directory; the content of a file with its fsync. SQLite writes with
`synchronous = NORMAL` (`eventStore.ts:935`), so what was written since the store was opened may be lost
until it is closed. That is why a restore refuses a store with `-wal` or `-shm` files: linking the
file alone would keep a rollback that a loss of power can still change (the mutant
`CopyOverSidecars`).

Assumptions: the write lock excludes (its own hazards are listed), and several processes that have
the store open count as one; nobody else touches the files; the backup does not change; an fsync does what it
promises. On Windows `fsyncDirectory` accepts a refusal (line 680), and these results do not hold there: for
instance a journal whose removal was never fsynced may come back after the store was opened and
written, and a recovery then puts the old store back (the mutant `LockUnsynced`: it is the fsync that taking the lock
does that prevents it elsewhere). After a failed fsync a recovery in the same process may remove the journal
without another fsync of the store's new link; the order of directory changes is what protects it.

Left out: the stage in the journal, which nobody reads; temporary files; the fsyncs of journal updates that
change nothing else; a partial left by a killed process, which nobody removes; a copy that fails half-way;
a release of the lock that throws.

`StoreSwap` is the promise: while a restore is pending the store is not opened; it ends up as it was or
as the backup; success is reported when it is the backup for good; nothing takes back what is written afterwards.

Two things a reader of `persistence/README.md` should know. After the stage `verified` a failure reports
`RestoreError`, and yet the recovery commits the new store: line 60 says that a post-swap failure restores
the rollback, line 76 that a valid new target is committed, and the code does the latter. And a recovery leaves the
rollback's name behind, so that a retry with the same `rollbackPath` is refused.

Run `restores`: three files beside the first store, two names for the replaced one, two writes, two
failing steps, two deaths or losses of power. Three files let a store be made, replaced, and the
replacement replaced; two deaths let the recovery from the first be cut short; two failing
steps let the restore and the recovery in its catch block both fail. The names are symmetric. Deadlock is not checked: with the files and
writes used up nothing is left to do.

## 10. Proofs

`LeastElements` holds what stands in for induction over data: every non-empty set of naturals has a least element (the library's
`WFMin`), every bounded one a greatest, and every finite set a first element in any strict order, the one with the fewest
predecessors. `TriggerOccurrencesProofs`, `ResourceStoreProofs` and `DrivesProofs` use it.

`TriggerOccurrencesProofs` proves, for every set of occurrences, workers, keys and
every bound: `TypeCorrect`, `NoDoubleDispatch`, `CompletedRightly`, `DeadLettersRightly`, `ClaimsExclude`,
`SettledStays`, `ImplementsContract`, `ClaimsInOrderOnOnePage`, `PollsAreDecided` and `NothingStranded`. The assumptions are those of the module
(occurrence ids are numbers, the bounds are positive, `None` is none of the values), which
TLC evaluates in every run.

The inductive invariant `IndInv` says what a claim id means: ids in flight were handed
out before, two flights never share one, a flight's attempt is not ahead of
its record's, a flight that carries its record's claim carries its attempt too, nothing is dispatched
beyond the recorded attempt, and a flight that has not dispatched is the only one that
still can for its attempt. From that, no attempt is dispatched twice (the dispatch uses up
the flight's only chance) and a result that passes the fence is the result of the last
attempt. `SweepLemma` and `ClaimLemma` describe the two writes of `claimNext`;
`RecordSteps` and `DispatchSteps` say what a step can do to one record and one dispatch
counter, and the refinement follows from them occurrence by occurrence.

Three results are about `claimNext` itself. `ClaimsInOrder` is false in general (the paging run);
`ClaimsInOrderOnOnePage` proves it for the behaviours in which the stored records fit one page: then the page is
everything stored, the sweep only removes candidates or leaves them as they are, and the first candidate of the sorted page
is the first of all. So the page is the only reason for being overtaken. `PollsAreDecided` says that the three orders of the code are total where it matters: the
sweep has one result, and of several candidates exactly one is first. It needs that a non-empty set of records
has a least one in each order, which comes from the well-foundedness of the natural numbers
(`LeastNumber` of `LeastElements`). `NothingStranded` is the safety half of `EventuallySettles`:
an open record on the page whose times have passed is one that a poll can claim or dead-letters, so no mix of failures,
crashes and re-claims leaves it on the page where no poll takes it up; that polls come is the fairness, and stays with TLC, and
of the records beyond the page it says nothing.
`OpenInv` is the strengthening: what is pending or failed has attempts left, and what was claimed or
failed is not ahead of the clock any more.

`ResourceStoreProofs` proves `TypeCorrect`, `StoreReopens`, `BatchesAreAtomic`,
`AnswersAreExact`, `UpdatesAreNotLost`, `RecordsStay`, `HistoriesAreComplete` and `ImplementsSerial`. `IndInv` states for the committed
tables and for the open transaction alike that every resource's log is one valid chain and
that every update follows the row it was built from; that the transaction holds exactly the
committed log plus the commands done so far, so that a commit records a
whole batch; and that commands prepared but not yet submitted carry a base that really was the
row at their expected revision. The last part is what makes the revision check enough: a row
at the expected revision is the row the caller had read, because revisions of a
chain are never reused. For the refinement, `SerialInv` says that while a transaction runs its view is what
the commands done so far make of the committed rows one after the other (`OneMoreCarriedOut` adds one command:
keys of a batch are distinct, so what is logged of the earlier ones stays); COMMIT then is `SerialStore`'s single step,
for batches of any length that may write one row several times.
`HistoriesAreComplete` ties `ValidChain`, which speaks of any two records, to the audit as the code runs it over the log in order of
revisions: were a revision missing, the greatest missing one would stand below a record that is neither a creation nor
follows another, which `ValidChain` excludes.

`ApprovalsProofs` proves all six properties of the `approvals` run (`TypeCorrect`, `GrantsAccounted`,
`ConsumedOnce`, `UnderAuthority`, `PolicyFollowed`, `ImplementsLedger`) and `CourseKept`. Each invariant is strengthened by what it needs:
`AbsentUnused` (an absent grant has no uses, an unwritten audit no receipt), `SpentOnRecord` (whatever was
consumed has a consumed audit), `OneTurn` (outside `Waiting` a permit is held only by the caller whose turn
it is, and only for an authorisation not yet consumed), and `Authority` (an authorised audit stands on an allow decision or on a
grant for its request that was live at `issuedAt` and does not expire before the audit does). No
bound of the model but the assumptions `CallersAssumption`, `LimitsAssumption` and
`AbsenceAssumption` is used. For the refinement, one lemma per kind of step says which line of the ledger it writes
(`AuditDecides`, `GrantApproves`, `GrantGiven`, `ConsumptionActs`, `ReplayActsAgain`; `LedgerUnchanged` for the rest). It needs the
invariants above: `SpentOnRecord` for a consumption to be the first of its audit, `OneTurn` for a replay to be a waiting
caller's, `PolicyFollowed` for its rule to be in force still.

`TriggerExecutionProofs` extends it. `ServiceStep` shows that every step of an execution is a step of
the service or leaves it unchanged, so the invariants of `Approvals` carry over. `ExecInv` adds
`OneExecution`: an execution past its consumption is the only one for its request, and
the phase of its flight says how far record and dispatch are; and `TruthfulRecords`. From these follow `ExecTypeCorrect`,
`OneDispatch`, `RecordsTellTheTruth` and `ImplementsContract`, the refinement of `ExecutionContract`
request by request.

`DrivesProofs` proves `TypeCorrect`, `SettlersExclude`, `AcknowledgementsAreEarned`,
`ImplementsCourse` - all that the `drives-safety` run checks - and `PollsAreDecided`. Its invariant says that tokens in flight were handed
out before and never twice, that a flight's attempt is not ahead of its drive's, and that a flight which still holds
the lease carries the drive's attempt; a successful flight is on record in `runs`. No assumption on
the clock or on `Punctual` is used. `PollsAreDecided`: a poll with candidates has exactly one to claim, because only finitely
many drives exist at a time (a step creates at most one) and the order of `claimDelivery` is total on them.

`RuntimeChannelsProofs` proves `TypeCorrect`, `WiresStayAcyclic`, `BroadcastsReachAll`,
`ClaimantsAcknowledge`, `CapacityHolds` and `ImplementsRelay`, for any number of channels, members and messages, any page size, and any set of wires that fits
one page (`WirePageAssumption`): the model shows `reaches()` all wires, so `WiresStayAcyclic` says nothing of a system in which more were ever made.
Beside the types it needs that an unpublished message is blank (`Blank`), that whoever holds a message's latest
token is its claimant (`Holders`), that everything a turn works on has a published source (`Sourced`),
and that what is reported, or about to be, exists (`Reported`). That wires stay acyclic is shown without induction over
paths: `Reaches` quantifies over the sets of channels that no wire leaves, and the
proof intersects or unites the set that separates the new wire's ends with the one that separates an old wire's.
`CapacityHolds` has its hypothesis, `FitsOnePage`, inside the property: messages are never deleted, so what fits after a step did before,
and then the only page `publish` can get is everything published. It rests on `CapacityInv`: finitely many messages are published, only those of a queue are ever claimed, and
the bound holds at every time, not only up to `MaxTime`. A new message counts from its own date on; whatever waits at a later time, and was never claimed, was pending at
that date already, which is the time `publish` counted as of - for a copy the time its forwarding was first tried, whatever the
clock says since.

`RestoresProofs` proves `TypeCorrect`, `JournalsAreRecoverable`, `ReplacedStoreIsKept` and `ImplementsSwap`, for any
number of restores, failing steps, deaths and losses of power. The invariant is about the directories a loss
of power may leave: each of them is sound by itself (`Sound`: a journal names two different files that are
made, fsynced and where a recovery looks for them), any two agree (`Agree`: there is one journal at most on the
disk, and where it is missing the store is one of the two it names, and closed), and without a journal all have the same
store (`Images`). `RestoreProgress`, `RecoveryProgress` and `StoreProgress` say what the next step of a
call relies on. A loss of power then picks one sound directory, and the refinement follows by comparing what
was pending before with what is pending after.

Only model-checked: the two liveness properties `EventuallySettles`, because fairness is out of the
prover's reach, and the three violations: `ClaimsInOrder` over more than a page, `ReplayRecoversRecord` and
`ForwardsWhatIsCommitted`. Every invariant and action property of the passing runs is the statement of a theorem,
`ClaimsInOrder` under the hypothesis `FitsOnePage`, which the configuration of its run guarantees.

## 11. Mutants

Beside the definitions stand a few mutated forms, each commented as one, such as
`ClaimedUncounted` beside `ClaimedAnew`. None of them is used by a specification. They stand for plausible
mistakes in that code, and `PROJECT.json` names for every property a mutant that TLC
finds to violate it.

## 12. Not modelled, and limits

- Executions that never return, and a clock that goes back.
- I/O errors of single reads and writes, other than as `Rollback` of a batch and as `Throw` in a restore.
- The way from an occurrence's claim through its authorisation to its outcome in one model: `TriggerOccurrences` has
  the claim and the dispatch, `TriggerExecution` the authorisation, the dispatch and the record.
- What lies beyond a page of 1000 records: an occurrence there is not served (`EventuallySettles`, `NothingStranded` and
  `ClaimsInOrderOnOnePage` except it, each in its words), messages there are not counted (`MailboxesBounded`), and more drives or wires than
  a page are not modelled (section 7, `WirePageAssumption`).
- Liveness of approvals: an authorisation that nobody approves waits for ever, as in the code.
- Liveness of forwarding: a copy that its target refuses is tried again for ever, as in the code.
- SQLite itself: transactions are atomic; they are durable at once except in `Restores`.
- File systems that reorder changes to one directory.
- Validation of text fields, sizes and formats.
- The calendar and cron source, the write lock, schedule triggers, streams and snapshots,
  agent instances, graph runs and the task queue: in the plan, not written. Their hazards without a
  property are in `PROJECT.json`.
- The components the inventory marks as such: user interface, tools, bridges, sidecars and launchers are I/O and
  presentation, with provider protocols and assets that no property of this kind is about. They are most of the
  repository's lines.
