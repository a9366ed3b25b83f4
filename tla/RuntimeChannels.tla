-------------------------- MODULE RuntimeChannels --------------------------
(***************************************************************************)
(* Runtime channels (PersistentRuntimeChannelStore): bounded mailboxes     *)
(* with members, and the wires that forward every message of a channel to  *)
(* another (PersistentRuntimeChannelWireStore,                             *)
(* PersistentRuntimeChannelForwardingStore, forward() of                   *)
(* ProductionRuntimeChannelLifecycle).                                     *)
(*                                                                         *)
(* Every write is one mutation of the event store.  Forwarding runs to its *)
(* end within the turn of the event loop that published a message or that  *)
(* polls for retries: nothing else happens in between, but the process may *)
(* die after each of its writes, and it may throw.  forward() calls itself *)
(* for the target channel; `todo' is the stack of those loops.  The set    *)
(* forwardInFlight is left out: it stops a loop that came back to its own  *)
(* message, and enabled wires form no cycle.                               *)
(*                                                                         *)
(* Every listing of the event store is one page, of what was written least *)
(* recently, and nothing is ever deleted: what is acknowledged, expired,   *)
(* forwarded or removed takes its place there.  Messages and forwardings   *)
(* are listed so; the wires ever made are assumed to fit on one page.      *)
(*                                                                         *)
(* The times of publications, claims and acknowledgements are the callers',*)
(* those of forwarding are the clock's.  Payloads and the order of members *)
(* are left out.  A member keeps to the token its own last claim returned. *)
(***************************************************************************)
EXTENDS Naturals, Sequences, FiniteSets

CONSTANTS
  Channel,
  Mode,        \* channel -> "point-to-point", "queue" or "broadcast"
  Capacity,    \* channel -> capacity
  Member,      \* member ids
  Founders,    \* channel -> its first members
  Applicants,  \* the members that may join later: <<channel, member>>
  Origin,      \* messages that commands publish
  Home,        \* origin -> the channel it is published in
  Priority,    \* origin -> priority, of its copies too
  Life,        \* origin -> time to expiry; 0 when it does not expire
  Wire,
  Laid,        \* the wires that were made before
  From, To,    \* wire -> source and target channel
  Publisher,   \* wire -> targetPublisherMemberId
  MaxHops,     \* wire -> maxHops
  HopLimit,    \* the largest maxHops wire() accepts (32)
  Lease,       \* leaseMs of the claims
  RetryDelay,  \* retryDelayMs of a failed forwarding
  ListLimit,   \* page size of the listings (1000 in the code)
  Skew,        \* bound: how far callers' timestamps lie from the clock
  MaxTime,     \* bound: the clock, and the callers' timestamps
  MaxClaims,   \* bound: claims of one message
  MaxChanges,  \* bound: joins, departures, wires made and removed
  MaxCrashes,  \* bound: deaths of the process
  None

Role == {"producer", "consumer", "member"}

Membership == [id : Member, role : Role]

ASSUME ChannelAssumption ==
  /\ Mode \in [Channel -> {"point-to-point", "queue", "broadcast"}]
  /\ Capacity \in [Channel -> Nat \ {0}]
  /\ Founders \in [Channel -> SUBSET Membership]
  /\ \A c \in Channel : \A a, b \in Founders[c] : a.id = b.id => a = b
  /\ Applicants \subseteq Channel \X Membership
ASSUME OriginAssumption ==
  /\ Home \in [Origin -> Channel]
  /\ Priority \in [Origin -> Nat]
  /\ Life \in [Origin -> Nat]
ASSUME WireAssumption ==
  /\ HopLimit \in Nat \ {0}
  /\ From \in [Wire -> Channel] /\ To \in [Wire -> Channel]
  /\ Publisher \in [Wire -> Member]
  /\ MaxHops \in [Wire -> 1..HopLimit]
  /\ Laid \subseteq Wire
(* wires.list() shows every wire that is ever made, removed ones included. *)
ASSUME WirePageAssumption == IsFiniteSet(Wire) /\ Cardinality(Wire) <= ListLimit
ASSUME BoundsAssumption ==
  /\ Lease \in Nat \ {0} /\ RetryDelay \in Nat \ {0}
  /\ ListLimit \in Nat \ {0} /\ Skew \in Nat
  /\ MaxTime \in Nat /\ MaxClaims \in Nat /\ MaxChanges \in Nat /\ MaxCrashes \in Nat

(* A message is what a command published, or a copy of it, known by the    *)
(* wires it came over (wirePath), one after the other, none twice and none *)
(* after more hops than it allows: a copy's id is made of its wire's id    *)
(* and its source's.                                                       *)
Path == UNION {[1..n -> Wire] : n \in 0..HopLimit}

IsRoute(c, p) ==
  \A i \in DOMAIN p :
    /\ From[p[i]] = IF i = 1 THEN c ELSE To[p[i - 1]]
    /\ i <= MaxHops[p[i]]
    /\ \A j \in DOMAIN p : p[i] = p[j] => i = j

Message == {m \in [origin : Origin, path : Path] : IsRoute(Home[m.origin], m.path)}

Copy == {m \in Message : m.path # <<>>}

WireOf(x) == x.path[Len(x.path)]

SourceOf(x) == [origin |-> x.origin, path |-> SubSeq(x.path, 1, Len(x.path) - 1)]

Over(m, w) == [origin |-> m.origin, path |-> Append(m.path, w)]

ChannelOf(m) == IF m.path = <<>> THEN Home[m.origin] ELSE To[WireOf(m)]

(* A message resource.  expiresAt is 0 when it does not expire, token is 0 *)
(* while it was never claimed; recipients are those of a broadcast.        *)
MessageState ==
  [published : BOOLEAN, publishedAt : Nat, expiresAt : Nat, updatedAt : Nat,
   recipients : SUBSET Member, received : SUBSET Member,
   acknowledged : BOOLEAN, acknowledgedBy : Member \cup {None},
   token : Nat, claimedUntil : Nat, claimant : Member \cup {None}]

(* A forwarding resource; closed are the keys under which its success was  *)
(* recorded, each of which the event store accepts once.                   *)
ForwardingState ==
  [status : {"absent", "pending", "failed", "succeeded"}, createdAt : Nat,
   updatedAt : Nat, nextAttemptAt : Nat, closed : SUBSET {"success", "recovered"}]

VARIABLES
  members,     \* channel -> its members
  wires,       \* wire -> "absent", "enabled" or "removed"
  messages,    \* message -> resource
  forwarding,  \* copy -> the resource of its forwarding
  held,        \* member -> message -> the token of its own last claim, or 0
  now,         \* the clock
  current,     \* forwardOne under way: the copy it makes and its next write
  todo,        \* the forward() loops under way: what is left of each
  retries,     \* what is left of retryForwarding's list
  serving,     \* the message whose publication is being forwarded, or None
  changes, crashes

handler == <<current, todo, retries, serving>>
vars == <<members, wires, messages, forwarding, held, now, handler, changes, crashes>>

Idle == current = None /\ todo = <<>> /\ retries = {}

-----------------------------------------------------------------------------
(* The store.                                                              *)

Unpublished ==
  [published |-> FALSE, publishedAt |-> 0, expiresAt |-> 0, updatedAt |-> 0,
   recipients |-> {}, received |-> {}, acknowledged |-> FALSE, acknowledgedBy |-> None,
   token |-> 0, claimedUntil |-> 0, claimant |-> None]

Unattempted ==
  [status |-> "absent", createdAt |-> 0, updatedAt |-> 0, nextAttemptAt |-> 0, closed |-> {}]

Produces(c, i) == \E a \in members[c] : a.id = i /\ a.role # "consumer"

Consumes(c, i) == \E a \in members[c] : a.id = i /\ a.role # "producer"

Claimed(r, t) == r.token # 0 /\ r.claimedUntil > t

Waiting(r, t) ==
  /\ r.published /\ ~r.acknowledged
  /\ ~Claimed(r, t)
  /\ r.expiresAt = 0 \/ r.expiresAt > t

(* What one listing of the resources S may return: they are ordered by     *)
(* their last write and by id; the order of ids is left open.              *)
Pages(S, writtenAt) ==
  IF Cardinality(S) <= ListLimit
  THEN {S}
  ELSE {page \in SUBSET S :
          /\ Cardinality(page) = ListLimit
          /\ \A x \in page, y \in S \ page : writtenAt[x] <= writtenAt[y]}

Delivered(msgs) == {m \in Message : msgs[m].published}

MessagePages(msgs) == Pages(Delivered(msgs), [m \in Message |-> msgs[m].updatedAt])

(* listPending, which has the messages of all channels on one page.        *)
Pending(msgs, page, c, t) == {m \in page : ChannelOf(m) = c /\ Waiting(msgs[m], t)}

(* Mutant of HasRoom: a full channel takes one more.                       *)
HasRoomForOneMore(page, c, t) == Cardinality(Pending(messages, page, c, t)) <= Capacity[c]

HasRoom(page, c, t) == Cardinality(Pending(messages, page, c, t)) < Capacity[c]

Recipients(c, publisher) ==
  IF Mode[c] = "broadcast" THEN {i \in Member : i # publisher /\ Consumes(c, i)} ELSE {}

NewMessage(c, publisher, at, expiresAt) ==
  [Unpublished EXCEPT !.published = TRUE, !.publishedAt = at, !.expiresAt = expiresAt,
     !.updatedAt = at, !.recipients = Recipients(c, publisher)]

-----------------------------------------------------------------------------
(* The wires.                                                              *)

(* b lies in every set of channels that contains a and that no enabled     *)
(* wire leaves.                                                            *)
ClosedUnder(ws, C) == \A w \in ws : From[w] \in C => To[w] \in C

Reaches(ws, a, b) == \A C \in SUBSET Channel : a \in C /\ ClosedUnder(ws, C) => b \in C

ASSUME LaidAssumption == \A w \in Laid : ~Reaches(Laid, To[w], From[w])

Enabled == {w \in Wire : wires[w] = "enabled"}

(* What forward(c) goes through: the copies of what is pending in c over   *)
(* every wire, except those that have come too far or this way before.     *)
Outgoing(msgs, page, c, t) ==
  {x \in Copy : /\ WireOf(x) \in Enabled /\ From[WireOf(x)] = c
                /\ SourceOf(x) \in Pending(msgs, page, c, t)}

(* Forward calls forward(c) from within the loops of todo.                 *)
Forward(msgs, page, c, t) ==
  LET S == Outgoing(msgs, page, c, t) IN IF S = {} THEN todo ELSE <<S>> \o todo

(* The order of a loop: by priority, publication and id; the last is left  *)
(* open here, and so is the order of the wires.                            *)
Precedes(x, y) ==
  LET m == SourceOf(x)
      n == SourceOf(y)
  IN  \/ Priority[m.origin] > Priority[n.origin]
      \/ /\ Priority[m.origin] = Priority[n.origin]
         /\ messages[m].publishedAt < messages[n].publishedAt

-----------------------------------------------------------------------------
Init ==
  /\ members = Founders
  /\ wires = [w \in Wire |-> IF w \in Laid THEN "enabled" ELSE "absent"]
  /\ messages = [m \in Message |-> Unpublished]
  /\ forwarding = [x \in Copy |-> Unattempted]
  /\ held = [i \in Member |-> [m \in Message |-> 0]]
  /\ now = 0
  /\ current = None /\ todo = <<>> /\ retries = {} /\ serving = None
  /\ changes = 0 /\ crashes = 0

(* Mutant of Join: the member may be one already.                          *)
JoinAgain(c, a) ==
  /\ Idle /\ changes < MaxChanges
  /\ Mode[c] = "point-to-point" => Cardinality(members[c]) < 2
  /\ members' = [members EXCEPT ![c] = @ \cup {a}]
  /\ changes' = changes + 1
  /\ UNCHANGED <<wires, messages, forwarding, held, now, handler, crashes>>

Join(c, a) ==
  /\ Idle /\ changes < MaxChanges
  /\ Mode[c] = "point-to-point" => Cardinality(members[c]) < 2
  /\ \A b \in members[c] : b.id # a.id
  /\ members' = [members EXCEPT ![c] = @ \cup {a}]
  /\ changes' = changes + 1
  /\ UNCHANGED <<wires, messages, forwarding, held, now, handler, crashes>>

Leave(c, a) ==
  /\ Idle /\ changes < MaxChanges
  /\ a \in members[c]
  /\ members' = [members EXCEPT ![c] = @ \ {a}]
  /\ changes' = changes + 1
  /\ UNCHANGED <<wires, messages, forwarding, held, now, handler, crashes>>

(* Mutant of MakeWire: the search for a way back starts at the wrong end.  *)
MakeWireTheOtherWay(w) ==
  /\ Idle /\ changes < MaxChanges
  /\ wires[w] = "absent"
  /\ From[w] # To[w]
  /\ Produces(To[w], Publisher[w])
  /\ ~Reaches(Enabled, From[w], To[w])
  /\ wires' = [wires EXCEPT ![w] = "enabled"]
  /\ changes' = changes + 1
  /\ UNCHANGED <<members, messages, forwarding, held, now, handler, crashes>>

(* wire()                                                                  *)
MakeWire(w) ==
  /\ Idle /\ changes < MaxChanges
  /\ wires[w] = "absent"
  /\ From[w] # To[w]
  /\ Produces(To[w], Publisher[w])
  /\ ~Reaches(Enabled, To[w], From[w])
  /\ wires' = [wires EXCEPT ![w] = "enabled"]
  /\ changes' = changes + 1
  /\ UNCHANGED <<members, messages, forwarding, held, now, handler, crashes>>

(* unwire()                                                                *)
RemoveWire(w) ==
  /\ Idle /\ changes < MaxChanges
  /\ wires[w] # "absent"
  /\ wires' = [wires EXCEPT ![w] = "removed"]
  /\ changes' = changes + 1
  /\ UNCHANGED <<members, messages, forwarding, held, now, handler, crashes>>

Timestamps == {at \in 0..MaxTime : at <= now + Skew /\ now <= at + Skew}

(* publish of a command, dated by its caller, and the call of forward()    *)
(* that follows: the capacity counts what waits at that date.              *)
Publish(m, i, at) ==
  LET c == ChannelOf(m)
      r == NewMessage(c, i, at, IF Life[m.origin] = 0 THEN 0 ELSE at + Life[m.origin])
  IN  /\ Idle
      /\ m \notin Copy /\ ~messages[m].published
      /\ [id |-> i, role |-> "producer"] \in members[c]
      /\ \E page \in MessagePages(messages) : HasRoom(page, c, at)
      /\ messages' = [messages EXCEPT ![m] = r]
      /\ \E page \in MessagePages(messages') : todo' = Forward(messages', page, c, now)
      /\ serving' = m
      /\ UNCHANGED <<members, wires, forwarding, held, now, current, retries, changes, crashes>>

(* claimQueue, as of a time the caller gives.  That the message is         *)
(* acknowledged or expired is not looked at; the event store refuses a     *)
(* write that is dated before the last.                                    *)
Claim(m, i, at) ==
  LET c == ChannelOf(m)
      k == messages[m].token + 1
  IN  /\ Idle /\ k <= MaxClaims
      /\ messages[m].published
      /\ Mode[c] = "queue" /\ Consumes(c, i)
      /\ ~Claimed(messages[m], at) /\ messages[m].updatedAt <= at
      /\ messages' = [messages EXCEPT ![m] =
                       [@ EXCEPT !.token = k, !.claimedUntil = at + Lease, !.claimant = i,
                                 !.updatedAt = at]]
      /\ held' = [held EXCEPT ![i][m] = k]
      /\ UNCHANGED <<members, wires, forwarding, now, handler, changes, crashes>>

(* Mutant of PassesFence: whoever claimed it once may acknowledge.         *)
PassesAnyClaim(m, i) ==
  Mode[ChannelOf(m)] = "queue" /\ messages[m].token # 0 => held[i][m] # 0

PassesFence(m, i) ==
  Mode[ChannelOf(m)] = "queue" => messages[m].token = held[i][m]

(* Mutant of Acknowledged: one recipient answers for all.                  *)
AcknowledgedByAny(r, c, i, at) ==
  IF Mode[c] = "broadcast"
  THEN [r EXCEPT !.received = @ \cup ({i} \cap r.recipients), !.acknowledged = TRUE,
                 !.updatedAt = at]
  ELSE [r EXCEPT !.acknowledged = TRUE, !.acknowledgedBy = i, !.updatedAt = at]

Acknowledged(r, c, i, at) ==
  IF Mode[c] = "broadcast"
  THEN [r EXCEPT !.received = @ \cup ({i} \cap r.recipients),
                 !.acknowledged = @ \/ r.recipients \subseteq r.received \cup {i},
                 !.updatedAt = at]
  ELSE [r EXCEPT !.acknowledged = TRUE, !.acknowledgedBy = i, !.updatedAt = at]

Acknowledge(m, i, at) ==
  LET c == ChannelOf(m)
  IN  /\ Idle
      /\ messages[m].published
      /\ Consumes(c, i)
      /\ PassesFence(m, i) /\ messages[m].updatedAt <= at
      /\ messages' = [messages EXCEPT ![m] = Acknowledged(@, c, i, at)]
      /\ UNCHANGED <<members, wires, forwarding, held, now, handler, changes, crashes>>

ForwardingPages ==
  Pages({x \in Copy : forwarding[x].status # "absent"},
        [x \in Copy |-> forwarding[x].updatedAt])

(* retryForwarding: what is listed and due, as long as its wire is there.  *)
Retry ==
  /\ Idle
  /\ \E page \in ForwardingPages :
       retries' = {x \in page : /\ forwarding[x].status \in {"pending", "failed"}
                                /\ forwarding[x].nextAttemptAt <= now
                                /\ wires[WireOf(x)] = "enabled"}
  /\ retries' # {}
  /\ serving' = None
  /\ UNCHANGED <<members, wires, messages, forwarding, held, now, current, todo,
                 changes, crashes>>

(* forwardOne as far as ensure().                                          *)
Ensure(x) ==
  /\ forwarding' = IF forwarding[x].status # "absent" THEN forwarding
                   ELSE [forwarding EXCEPT ![x] = [@ EXCEPT !.status = "pending", !.createdAt = now,
                                           !.updatedAt = now, !.nextAttemptAt = now]]
  /\ current' = [copy |-> x, next |-> "publish"]
  /\ UNCHANGED <<members, wires, messages, held, now, serving, changes, crashes>>

ForwardNext ==
  /\ current = None /\ todo # <<>>
  /\ \E x \in Head(todo) :
       /\ \A y \in Head(todo) : ~Precedes(y, x)
       /\ Ensure(x)
       /\ todo' = IF Head(todo) = {x} THEN Tail(todo) ELSE [todo EXCEPT ![1] = @ \ {x}]
  /\ UNCHANGED retries

(* The due forwardings, in whatever order they are listed.                 *)
RetryNext ==
  /\ current = None /\ todo = <<>>
  /\ \E x \in retries :
       /\ Ensure(x)
       /\ retries' = retries \ {x}
  /\ UNCHANGED todo

(* The target channel accepts the copy - as of the time its forwarding was *)
(* first tried.                                                            *)
Accepts(x, page) ==
  LET c == To[WireOf(x)]
      at == forwarding[x].createdAt
      expiry == messages[SourceOf(x)].expiresAt
  IN  /\ Produces(c, Publisher[WireOf(x)])
      /\ expiry = 0 \/ expiry > at
      /\ HasRoom(page, c, at)

(* Published before, the copy has to be the same to count as a replay.     *)
SameAsBefore(x) ==
  messages[x].recipients = Recipients(To[WireOf(x)], Publisher[WireOf(x)])

(* Mutant of Stored: the copy is written anew.                             *)
StoredAnew(x) ==
  [messages EXCEPT ![x] =
     NewMessage(To[WireOf(x)], Publisher[WireOf(x)], forwarding[x].createdAt,
                messages[SourceOf(x)].expiresAt)]

Stored(x) ==
  IF messages[x].published THEN messages
  ELSE [messages EXCEPT ![x] =
          NewMessage(To[WireOf(x)], Publisher[WireOf(x)], forwarding[x].createdAt,
                     messages[SourceOf(x)].expiresAt)]

Copies(x, page) == Accepts(x, page) /\ (messages[x].published => SameAsBefore(x))

(* store.publish of the copy.                                              *)
PublishCopy ==
  LET x == current.copy
  IN  /\ current # None /\ current.next = "publish"
      /\ \E page \in MessagePages(messages) : Copies(x, page)
      /\ messages' = Stored(x)
      /\ current' = [current EXCEPT !.next = "succeed"]
      /\ UNCHANGED <<members, wires, forwarding, held, now, todo, retries, serving,
                     changes, crashes>>

Refused(x) ==
  current.next = "publish" /\ \E page \in MessagePages(messages) : ~Copies(x, page)

(* The success key is used up: by an earlier success, with another time    *)
(* and revision.                                                           *)
Conflicts(x) == current.next = "succeed" /\ "success" \in forwarding[x].closed

(* forwarding.succeed, and the call of forward() for the target.           *)
Succeed(x, key) ==
  /\ forwarding' = [forwarding EXCEPT ![x] =
                      [forwarding[x] EXCEPT !.status = "succeeded", !.updatedAt = now,
                                            !.closed = @ \cup {key}]]
  /\ current' = None
  /\ \E page \in MessagePages(messages) :
       todo' = Forward(messages, page, To[WireOf(x)], now)
  /\ UNCHANGED <<members, wires, messages, held, now, retries, serving, changes, crashes>>

Report ==
  LET x == current.copy
  IN  /\ current # None /\ current.next = "succeed"
      /\ ~Conflicts(x)
      /\ Succeed(x, "success")

(* The catch block, when the copy exists.                                  *)
Recover ==
  LET x == current.copy
  IN  /\ current # None
      /\ Refused(x) \/ Conflicts(x)
      /\ messages[x].published
      /\ "recovered" \notin forwarding[x].closed
      /\ Succeed(x, "recovered")

(* The catch block, when it does not.                                      *)
Fail ==
  LET x == current.copy
  IN  /\ current # None
      /\ Refused(x) \/ Conflicts(x)
      /\ ~messages[x].published
      /\ forwarding' = [forwarding EXCEPT ![x] = [@ EXCEPT !.status = "failed", !.updatedAt = now,
                                                       !.nextAttemptAt = now + RetryDelay]]
      /\ current' = None
      /\ UNCHANGED <<members, wires, messages, held, now, todo, retries, serving,
                     changes, crashes>>

EndOfTurn == current' = None /\ todo' = <<>> /\ retries' = {}

(* The catch block throws: both keys are used up.  Every forwardOne above  *)
(* it holds a revision that is not the latest any more, so each throws in  *)
(* its turn, and the whole turn ends.                                      *)
Throw ==
  LET x == current.copy
  IN  /\ current # None
      /\ Refused(x) \/ Conflicts(x)
      /\ messages[x].published
      /\ "recovered" \in forwarding[x].closed
      /\ EndOfTurn
      /\ UNCHANGED <<members, wires, messages, forwarding, held, now, serving,
                     changes, crashes>>

(* The process dies within a turn; it starts again with a Retry.           *)
Crash ==
  /\ ~Idle /\ crashes < MaxCrashes
  /\ EndOfTurn
  /\ serving' = None
  /\ crashes' = crashes + 1
  /\ UNCHANGED <<members, wires, messages, forwarding, held, now, changes>>

Tick ==
  /\ Idle /\ now < MaxTime
  /\ now' = now + 1
  /\ UNCHANGED <<members, wires, messages, forwarding, held, handler, changes, crashes>>

Next ==
  \/ \E a \in Applicants : Join(a[1], a[2])
  \/ \E c \in Channel : \E a \in members[c] : Leave(c, a)
  \/ \E w \in Wire : MakeWire(w)
  \/ \E w \in Wire : RemoveWire(w)
  \/ \E m \in Message, i \in Member, at \in Timestamps : Publish(m, i, at)
  \/ \E m \in Message, i \in Member, at \in Timestamps : Claim(m, i, at)
  \/ \E m \in Message, i \in Member, at \in Timestamps : Acknowledge(m, i, at)
  \/ Retry \/ ForwardNext \/ RetryNext
  \/ PublishCopy \/ Report \/ Recover \/ Fail \/ Throw
  \/ Crash \/ Tick

Spec == Init /\ [][Next]_vars

-----------------------------------------------------------------------------
(* Every variable has its type; a channel has a member once; receipts are  *)
(* those of recipients and tokens those of claims; and a turn works on     *)
(* forwardings that exist.                                                 *)
TypeOK ==
  /\ members \in [Channel -> SUBSET Membership]
  /\ \A c \in Channel : \A a, b \in members[c] : a.id = b.id => a = b
  /\ wires \in [Wire -> {"absent", "enabled", "removed"}]
  /\ messages \in [Message -> MessageState]
  /\ forwarding \in [Copy -> ForwardingState]
  /\ held \in [Member -> [Message -> Nat]]
  /\ \A m \in Message :
       /\ messages[m].received \subseteq messages[m].recipients
       /\ \A i \in Member : held[i][m] <= messages[m].token
  /\ now \in Nat
  /\ current \in [copy : Copy, next : {"publish", "succeed"}] \cup {None}
  /\ todo \in Seq((SUBSET Copy) \ {{}})
  /\ retries \in SUBSET Copy
  /\ serving \in Message \cup {None}
  /\ changes \in Nat /\ crashes \in Nat

(* Enabled wires form no cycle, however they were made and removed, as     *)
(* long as reaches() has them all on its page: the calls of forward() for  *)
(* the target of a wire come to an end.                                    *)
WiresAcyclic == \A w \in Enabled : ~Reaches(Enabled, To[w], From[w])

(* A broadcast counts as acknowledged when, and only when, everyone it was *)
(* addressed to has received it - whoever else acknowledges it, joins or   *)
(* leaves.                                                                 *)
AcknowledgedByAll ==
  \A m \in Message :
    Mode[ChannelOf(m)] = "broadcast" /\ messages[m].recipients # {} =>
      (messages[m].acknowledged <=> messages[m].recipients \subseteq messages[m].received)

(* What waits in a channel at a time t, of what is dated t or before; of a *)
(* queue, what nobody has claimed so far.                                  *)
Unserved(c, t) ==
  {m \in Delivered(messages) :
     /\ ChannelOf(m) = c /\ messages[m].publishedAt <= t
     /\ Waiting(messages[m], t)
     /\ Mode[c] = "queue" => messages[m].token = 0}

FitsOnePage == Cardinality(Delivered(messages)) <= ListLimit

(* As long as the messages of all channels fit on one page, a channel      *)
(* holds at no time, past or to come, more than its capacity: a caller may *)
(* date a message before or after others, and a copy finds room as of the  *)
(* time its forwarding was first tried, which a retry long after looks     *)
(* back at.  Not so once the page is full of what was acknowledged or has  *)
(* expired.  Of a queue only what was never claimed is bounded: a claim    *)
(* makes room for another message, and gives none back as it expires.      *)
MailboxesBounded ==
  FitsOnePage =>
    \A c \in Channel, t \in 0..MaxTime : Cardinality(Unserved(c, t)) <= Capacity[c]

(* What was claimed from a queue is acknowledged by its latest claimant    *)
(* only: a consumer whose lease ran out and whose message was claimed by   *)
(* another comes too late, although neither lease nor claimant is compared.*)
AcknowledgedByItsClaimant ==
  [][\A m \in Message :
       /\ Mode[ChannelOf(m)] = "queue" /\ messages[m].token # 0
       /\ messages'[m].acknowledgedBy # messages[m].acknowledgedBy
       => messages'[m].acknowledgedBy = messages[m].claimant]_vars

(* When the turn that published a message ends, and the process is still   *)
(* alive, the forwarding of that message and of its copies over the wires  *)
(* of their channels is on record: it succeeded or can be tried again.     *)
ForwardsWhatIsCommitted ==
  [][~Idle /\ Idle' /\ serving # None /\ serving' = serving =>
       \A x \in Copy :
         /\ x.origin = serving.origin /\ messages'[SourceOf(x)].published
         /\ WireOf(x) \in Enabled
         => forwarding'[x].status # "absent"]_vars

-----------------------------------------------------------------------------
StateOf(r) ==
  IF ~r.published THEN "absent" ELSE IF r.acknowledged THEN "acknowledged" ELSE "pending"

Relay == INSTANCE ChannelRelay WITH
  Source <- [x \in Copy |-> SourceOf(x)],
  state <- [m \in Message |-> StateOf(messages[m])],
  forwarded <- {x \in Copy : forwarding[x].status = "succeeded"}

(* The channels and the forwarding keep to ChannelRelay: neither crashes   *)
(* nor retries nor a message forwarded over and over publish a copy twice, *)
(* bring back an acknowledged one, or report one that does not exist.      *)
KeepsRelay == Relay!Spec
=============================================================================
