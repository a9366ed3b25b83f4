----------------------- MODULE RuntimeChannelsProofs -----------------------
(***************************************************************************)
(* Theorems about RuntimeChannels, for every set of channels, members and  *)
(* messages, every capacity, lease, page size and bound, and every set of  *)
(* wires that fits on one page (WirePageAssumption).                       *)
(***************************************************************************)
EXTENDS RuntimeChannels, SequenceTheorems, FiniteSetTheorems, TLAPS

(* A message that was not published is blank.                              *)
Blank == \A m \in Message : ~messages[m].published => messages[m] = Unpublished

(* Who holds the token of a message is its claimant.                       *)
Holders ==
  \A m \in Message, i \in Member :
    held[i][m] # 0 /\ held[i][m] = messages[m].token => messages[m].claimant = i

(* The copies a turn works on, and those it worked on before.              *)
InLoops(q) == UNION {q[k] : k \in DOMAIN q}

Queued == InLoops(todo)

Tried ==
  {x \in Copy : \/ forwarding[x].status # "absent"
                \/ x \in retries \/ x \in Queued
                \/ (current # None /\ current.copy = x)}

(* What is forwarded was published.                                        *)
Sourced == \A x \in Tried : messages[SourceOf(x)].published

(* What is reported, or about to be, exists.                               *)
Reported ==
  \A x \in Copy :
    (\/ forwarding[x].status = "succeeded"
     \/ (current # None /\ current.copy = x /\ current.next = "succeed"))
    => messages[x].published

TInv == TypeOK /\ Blank

-----------------------------------------------------------------------------
(* Messages and their copies.                                              *)

LEMMA PathTyped ==
  ASSUME NEW p \in Path
  PROVE  p \in Seq(Wire) /\ Len(p) \in 0..HopLimit
BY WireAssumption DEF Path

LEMMA CopyTyped ==
  ASSUME NEW x \in Copy
  PROVE  /\ x \in Message /\ x.path \in Path /\ x.origin \in Origin
         /\ x.path \in Seq(Wire) /\ Len(x.path) \in 1..HopLimit
         /\ WireOf(x) \in Wire
<1>1. x \in Message /\ x.path \in Path /\ x.origin \in Origin /\ x.path # <<>>
  BY DEF Copy, Message
<1>2. x.path \in Seq(Wire) /\ Len(x.path) \in 0..HopLimit
  BY <1>1, PathTyped
<1>3. Len(x.path) \in 1..HopLimit
  BY <1>1, <1>2, EmptySeq, WireAssumption
<1>4. x.path[Len(x.path)] \in Wire
  BY <1>2, <1>3
<1> QED
  BY <1>1, <1>2, <1>3, <1>4 DEF WireOf

LEMMA SourceTyped ==
  ASSUME NEW x \in Copy
  PROVE  SourceOf(x) \in Message
<1> DEFINE n == Len(x.path) - 1
           q == SubSeq(x.path, 1, n)
<1>1. x.path \in Seq(Wire) /\ Len(x.path) \in 1..HopLimit /\ x.origin \in Origin
  BY CopyTyped
<1>2. n \in 0..HopLimit /\ n \in Int /\ HopLimit \in Nat
  BY <1>1, WireAssumption
<1>3. \A i \in 1..n : x.path[i] \in Wire
  BY <1>1
<1>4. /\ q \in Seq(Wire) /\ Len(q) = n
      /\ \A i \in 1..n : q[i] = x.path[i]
  <2>1. /\ q \in Seq(Wire)
        /\ Len(q) = IF 1 <= n THEN n - 1 + 1 ELSE 0
        /\ \A i \in 1..n - 1 + 1 : q[i] = x.path[1 + i - 1]
    BY <1>2, <1>3, SubSeqProperties
  <2> QED
    BY <2>1, <1>2
<1> HIDE DEF q
<1>5. q \in [1..n -> Wire]
  BY <1>2, <1>4
<1>6. q \in Path
  BY <1>2, <1>5 DEF Path
<1>7. IsRoute(Home[x.origin], x.path)
  BY DEF Copy, Message
<1>8. IsRoute(Home[x.origin], q)
  <2>1. DOMAIN q = 1..n /\ DOMAIN x.path = 1..n + 1
    BY <1>1, <1>2, <1>5
  <2> SUFFICES ASSUME NEW i \in 1..n
               PROVE  /\ From[q[i]] = IF i = 1 THEN Home[x.origin] ELSE To[q[i - 1]]
                      /\ i <= MaxHops[q[i]]
                      /\ \A j \in 1..n : q[i] = q[j] => i = j
    BY <2>1 DEF IsRoute
  <2> HIDE DEF n
  <2>2. i \in 1..n + 1 /\ (i # 1 => i - 1 \in 1..n)
    BY <1>2
  <2>3. /\ From[x.path[i]] = IF i = 1 THEN Home[x.origin] ELSE To[x.path[i - 1]]
        /\ i <= MaxHops[x.path[i]]
        /\ \A j \in 1..n + 1 : x.path[i] = x.path[j] => i = j
    BY <1>7, <2>1, <2>2 DEF IsRoute
  <2>4. q[i] = x.path[i] /\ (i # 1 => q[i - 1] = x.path[i - 1])
    BY <1>4, <2>2
  <2>5. \A j \in 1..n : q[j] = x.path[j] /\ j \in 1..n + 1
    BY <1>2, <1>4
  <2> QED
    BY <2>3, <2>4, <2>5
<1>9. [origin |-> x.origin, path |-> q] \in Message
  BY <1>1, <1>6, <1>8 DEF Message
<1> QED
  BY <1>9 DEF SourceOf, q

LEMMA ChannelOfMessage ==
  ASSUME NEW m \in Message
  PROVE  ChannelOf(m) \in Channel
<1>1. m.path = <<>> => ChannelOf(m) \in Channel
  BY OriginAssumption DEF ChannelOf, Message
<1>2. m.path # <<>> => ChannelOf(m) \in Channel
  BY CopyTyped, WireAssumption DEF ChannelOf, Copy
<1> QED
  BY <1>1, <1>2

LEMMA UnpublishedTyped ==
  /\ Unpublished \in MessageState
  /\ ~Unpublished.published /\ Unpublished.token = 0 /\ Unpublished.claimant = None
  /\ Unpublished.received = {} /\ Unpublished.recipients = {}
  /\ ~Unpublished.acknowledged /\ Unpublished.acknowledgedBy = None
BY DEF Unpublished, MessageState

LEMMA RecipientsTyped ==
  ASSUME NEW c, NEW i
  PROVE  Recipients(c, i) \in SUBSET Member
BY DEF Recipients

LEMMA NewMessageTyped ==
  ASSUME NEW c, NEW i, NEW t \in Nat, NEW e \in Nat
  PROVE  /\ NewMessage(c, i, t, e) \in MessageState
         /\ NewMessage(c, i, t, e).published
         /\ NewMessage(c, i, t, e).received = {}
         /\ ~NewMessage(c, i, t, e).acknowledged
         /\ NewMessage(c, i, t, e).acknowledgedBy = None
         /\ NewMessage(c, i, t, e).token = 0
<1> DEFINE R == Recipients(c, i)
           r == [Unpublished EXCEPT !.published = TRUE, !.publishedAt = t, !.expiresAt = e,
                   !.updatedAt = t, !.recipients = R]
<1>1. R \in SUBSET Member
  BY RecipientsTyped
<1> HIDE DEF R
<1>2. /\ r \in MessageState /\ r.published
      /\ r.received = {} /\ ~r.acknowledged /\ r.acknowledgedBy = None
      /\ r.token = 0
  BY <1>1, UnpublishedTyped DEF MessageState
<1> QED
  BY <1>2 DEF NewMessage, R

LEMMA AcknowledgedTyped ==
  ASSUME NEW r \in MessageState, r.received \subseteq r.recipients, NEW c, NEW i \in Member,
         NEW at \in Nat
  PROVE  LET q == Acknowledged(r, c, i, at)
         IN  /\ q \in MessageState
             /\ q.received \subseteq q.recipients /\ q.recipients = r.recipients
             /\ q.published = r.published /\ q.token = r.token /\ q.claimant = r.claimant
             /\ r.acknowledged => q.acknowledged
<1>1. CASE Mode[c] = "broadcast"
  <2> DEFINE R == r.received \cup ({i} \cap r.recipients)
             done == r.acknowledged \/ r.recipients \subseteq r.received \cup {i}
  <2>1. R \in SUBSET Member /\ R \subseteq r.recipients /\ done \in BOOLEAN
    BY DEF MessageState
  <2>2. r.acknowledged => done
    OBVIOUS
  <2> HIDE DEF R, done
  <2>3. LET q == [r EXCEPT !.received = R, !.acknowledged = done, !.updatedAt = at]
        IN  /\ q \in MessageState
            /\ q.received \subseteq q.recipients /\ q.recipients = r.recipients
            /\ q.published = r.published /\ q.token = r.token /\ q.claimant = r.claimant
            /\ r.acknowledged => q.acknowledged
    BY <2>1, <2>2 DEF MessageState
  <2> QED
    BY <1>1, <2>3 DEF Acknowledged, R, done
<1>2. CASE Mode[c] # "broadcast"
  <2>1. LET q == [r EXCEPT !.acknowledged = TRUE, !.acknowledgedBy = i, !.updatedAt = at]
        IN  /\ q \in MessageState
            /\ q.received \subseteq q.recipients /\ q.recipients = r.recipients
            /\ q.published = r.published /\ q.token = r.token /\ q.claimant = r.claimant
            /\ r.acknowledged => q.acknowledged
    BY DEF MessageState
  <2> QED
    BY <1>2, <2>1 DEF Acknowledged
<1> QED
  BY <1>1, <1>2

-----------------------------------------------------------------------------
(* Enabled wires.                                                          *)

(* A wire into a set that nothing leaves and its source is not in, added   *)
(* to acyclic wires, closes no cycle.                                      *)
LEMMA AddingAWire ==
  ASSUME NEW ws \in SUBSET Wire, NEW w \in Wire,
         \A v \in ws : ~Reaches(ws, To[v], From[v]),
         ~Reaches(ws, To[w], From[w])
  PROVE  \A v \in ws \cup {w} : ~Reaches(ws \cup {w}, To[v], From[v])
<1> USE WireAssumption
<1>1. PICK D \in SUBSET Channel : To[w] \in D /\ ClosedUnder(ws, D) /\ From[w] \notin D
  BY DEF Reaches
<1>2. ClosedUnder(ws \cup {w}, D)
  BY <1>1 DEF ClosedUnder
<1>3. ~Reaches(ws \cup {w}, To[w], From[w])
  BY <1>1, <1>2 DEF Reaches
<1>4. ASSUME NEW v \in ws
      PROVE  ~Reaches(ws \cup {w}, To[v], From[v])
  <2>1. PICK E \in SUBSET Channel : To[v] \in E /\ ClosedUnder(ws, E) /\ From[v] \notin E
    BY DEF Reaches
  <2>2. CASE From[v] \in D
    <3>1. To[v] \in D \cap E /\ From[v] \notin D \cap E
      BY <1>1, <2>1, <2>2 DEF ClosedUnder
    <3>2. ClosedUnder(ws \cup {w}, D \cap E)
      BY <1>1, <2>1 DEF ClosedUnder
    <3> QED
      BY <3>1, <3>2 DEF Reaches
  <2>3. CASE From[v] \notin D
    <3>1. To[v] \in D \cup E /\ From[v] \notin D \cup E
      BY <2>1, <2>3
    <3>2. ClosedUnder(ws \cup {w}, D \cup E)
      BY <1>1, <2>1 DEF ClosedUnder
    <3> QED
      BY <3>1, <3>2 DEF Reaches
  <2> QED
    BY <2>2, <2>3
<1> QED
  BY <1>3, <1>4

LEMMA RemovingWires ==
  ASSUME NEW ws \in SUBSET Wire, NEW vs \in SUBSET ws,
         \A v \in ws : ~Reaches(ws, To[v], From[v])
  PROVE  \A v \in vs : ~Reaches(vs, To[v], From[v])
BY DEF Reaches, ClosedUnder

-----------------------------------------------------------------------------
(* Types.                                                                  *)

LEMMA TimestampsTyped == \A at \in Timestamps : at \in Nat
BY BoundsAssumption DEF Timestamps

(* What changes the messages and the tokens.                               *)
LEMMA MessageSteps ==
  ASSUME [Next]_vars
  PROVE  \/ UNCHANGED <<messages, held>>
         \/ \E m \in Message, i \in Member, at \in Nat :
              Publish(m, i, at) \/ Claim(m, i, at) \/ Acknowledge(m, i, at)
         \/ PublishCopy
BY TimestampsTyped
DEF Next, vars, Join, Leave, MakeWire, RemoveWire, Retry, ForwardNext, RetryNext, Ensure,
   Report, Recover, Succeed, Fail, Throw, Crash, Tick

(* A message that is published, by a command or as a copy.                 *)
Appears(m) ==
  \E i \in Member, t \in Nat, e \in Nat :
    /\ ~messages[m].published
    /\ messages' = [messages EXCEPT ![m] = NewMessage(ChannelOf(m), i, t, e)]
    /\ held' = held

LEMMA PublishAppears ==
  ASSUME TypeOK, NEW m \in Message, NEW i \in Member, NEW at \in Nat, Publish(m, i, at)
  PROVE  Appears(m)
<1> DEFINE e == IF Life[m.origin] = 0 THEN 0 ELSE at + Life[m.origin]
<1>1. e \in Nat
  BY OriginAssumption DEF Message
<1> QED
  BY <1>1 DEF Publish, Appears

LEMMA CopyAppears ==
  ASSUME TypeOK, PublishCopy
  PROVE  \/ messages[current.copy].published /\ UNCHANGED <<messages, held>>
         \/ Appears(current.copy)
<1> DEFINE x == current.copy
<1>1. x \in Copy
  BY DEF TypeOK, PublishCopy
<1>2. CASE messages[x].published
  BY <1>2 DEF PublishCopy, Stored
<1>3. CASE ~messages[x].published
  <2>1. ChannelOf(x) = To[WireOf(x)] /\ Publisher[WireOf(x)] \in Member
    BY <1>1, CopyTyped, WireAssumption DEF ChannelOf, Copy
  <2>2. /\ forwarding[x].createdAt \in Nat
        /\ messages[SourceOf(x)].expiresAt \in Nat
    BY <1>1, SourceTyped DEF TypeOK, ForwardingState, MessageState
  <2>3. /\ messages' = [messages EXCEPT ![x] =
                          NewMessage(To[WireOf(x)], Publisher[WireOf(x)],
                                     forwarding[x].createdAt, messages[SourceOf(x)].expiresAt)]
        /\ held' = held
    BY <1>3 DEF PublishCopy, Stored
  <2> QED
    BY <1>3, <2>1, <2>2, <2>3 DEF Appears
<1> QED
  BY <1>2, <1>3

(* The messages and the tokens.                                            *)
Mail ==
  /\ messages \in [Message -> MessageState]
  /\ held \in [Member -> [Message -> Nat]]
  /\ \A m \in Message :
       /\ messages[m].received \subseteq messages[m].recipients
       /\ \A i \in Member : held[i][m] <= messages[m].token

LEMMA AppearsMail ==
  ASSUME TInv, NEW m \in Message, Appears(m)
  PROVE  Mail' /\ Blank'
<1>1. PICK i \in Member, t \in Nat, e \in Nat :
        /\ ~messages[m].published
        /\ messages' = [messages EXCEPT ![m] = NewMessage(ChannelOf(m), i, t, e)]
        /\ held' = held
  BY DEF Appears
<1> DEFINE r == NewMessage(ChannelOf(m), i, t, e)
<1>2. r \in MessageState /\ r.published /\ r.received = {} /\ r.token = 0
  BY NewMessageTyped
<1>3. messages[m].token = 0
  BY <1>1, UnpublishedTyped DEF TInv, Blank
<1>4. \A j \in Member : held[j][m] = 0
  BY <1>3 DEF TInv, TypeOK
<1>5. messages' = [messages EXCEPT ![m] = r] /\ held' = held
  BY <1>1
<1> HIDE DEF r
<1> QED
  BY <1>2, <1>4, <1>5 DEF Mail, TInv, TypeOK, Blank

LEMMA ClaimMail ==
  ASSUME TInv, NEW m \in Message, NEW i \in Member, NEW at \in Nat, Claim(m, i, at)
  PROVE  Mail' /\ Blank'
<1> DEFINE k == messages[m].token + 1
           u == at + Lease
           r == [messages[m] EXCEPT !.token = k, !.claimedUntil = u, !.claimant = i,
                                    !.updatedAt = at]
<1>1. messages[m] \in MessageState /\ messages[m].token \in Nat /\ u \in Nat
  BY BoundsAssumption DEF TInv, TypeOK, MessageState
<1>2. k \in Nat /\ messages[m].token < k
  BY <1>1
<1>3. /\ messages' = [messages EXCEPT ![m] = r] /\ messages[m].published
      /\ held' = [held EXCEPT ![i][m] = k]
  BY DEF Claim
<1> HIDE DEF k, u
<1>4. /\ r \in MessageState /\ r.token = k
      /\ r.published = messages[m].published
      /\ r.received = messages[m].received /\ r.recipients = messages[m].recipients
  BY <1>1, <1>2 DEF MessageState
<1> HIDE DEF r
<1>5. /\ messages' \in [Message -> MessageState] /\ held' \in [Member -> [Message -> Nat]]
      /\ messages'[m] = r /\ \A n \in Message : n # m => messages'[n] = messages[n]
      /\ \A j \in Member, n \in Message :
           held'[j][n] = IF j = i /\ n = m THEN k ELSE held[j][n]
  BY <1>2, <1>3, <1>4 DEF TInv, TypeOK
<1>6. ASSUME NEW n \in Message, NEW j \in Member
      PROVE  held'[j][n] <= messages'[n].token
  <2>1. held[j][n] \in Nat /\ held[j][n] <= messages[n].token
    BY DEF TInv, TypeOK
  <2> QED
    BY <2>1, <1>1, <1>2, <1>4, <1>5
<1>7. \A n \in Message : messages'[n].received \subseteq messages'[n].recipients
  BY <1>4, <1>5 DEF TInv, TypeOK
<1>8. Blank'
  BY <1>3, <1>4, <1>5 DEF TInv, Blank
<1> QED
  BY <1>5, <1>6, <1>7, <1>8 DEF Mail

LEMMA AcknowledgeMail ==
  ASSUME TInv, NEW m \in Message, NEW i \in Member, NEW at \in Nat, Acknowledge(m, i, at)
  PROVE  Mail' /\ Blank'
<1> DEFINE r == Acknowledged(messages[m], ChannelOf(m), i, at)
<1>1. messages[m] \in MessageState /\ messages[m].received \subseteq messages[m].recipients
  BY DEF TInv, TypeOK
<1>2. /\ r \in MessageState /\ r.received \subseteq r.recipients
      /\ r.published = messages[m].published /\ r.token = messages[m].token
  BY <1>1, AcknowledgedTyped
<1> HIDE DEF r
<1>3. messages' = [messages EXCEPT ![m] = r] /\ held' = held /\ messages[m].published
  BY DEF Acknowledge, r
<1> QED
  BY <1>2, <1>3 DEF Mail, TInv, TypeOK, Blank

LEMMA MailKept ==
  ASSUME TInv, [Next]_vars
  PROVE  Mail' /\ Blank'
<1>1. CASE UNCHANGED <<messages, held>>
  BY <1>1 DEF Mail, TInv, TypeOK, Blank
<1>2. TypeOK
  BY DEF TInv
<1>3. ASSUME NEW m \in Message, NEW i \in Member, NEW at \in Nat, Publish(m, i, at)
      PROVE  Mail' /\ Blank'
  BY <1>2, <1>3, PublishAppears, AppearsMail
<1>4. CASE PublishCopy
  <2>1. current.copy \in Message
    BY <1>2, <1>4, CopyTyped DEF TypeOK, PublishCopy
  <2> QED
    BY <1>1, <1>2, <1>4, <2>1, CopyAppears, AppearsMail
<1> QED
  BY <1>1, <1>3, <1>4, MessageSteps, ClaimMail, AcknowledgeMail

(* The loops of a turn.                                                    *)
Loop == (SUBSET Copy) \ {{}}

LEMMA AddingALoop ==
  ASSUME NEW q \in Seq(Loop), NEW S \in Loop
  PROVE  <<S>> \o q \in Seq(Loop) /\ InLoops(<<S>> \o q) \subseteq S \cup InLoops(q)
<1> DEFINE r == <<S>> \o q
<1>1. <<S>> \in Seq(Loop) /\ Len(<<S>>) = 1 /\ <<S>>[1] = S
  OBVIOUS
<1>2. /\ r \in Seq(Loop) /\ Len(r) = 1 + Len(q)
      /\ \A k \in 1..1 + Len(q) : r[k] = IF k <= 1 THEN S ELSE q[k - 1]
  BY <1>1, ConcatProperties
<1> HIDE DEF r
<1>3. DOMAIN r = 1..1 + Len(q) /\ DOMAIN q = 1..Len(q) /\ Len(q) \in Nat
  BY <1>2, LenProperties
<1>4. ASSUME NEW k \in DOMAIN r
      PROVE  r[k] = S \/ (k - 1 \in DOMAIN q /\ r[k] = q[k - 1])
  BY <1>2, <1>3
<1>5. InLoops(r) \subseteq S \cup InLoops(q)
  BY <1>4 DEF InLoops
<1> QED
  BY <1>2, <1>5 DEF r

LEMMA EndingALoop ==
  ASSUME NEW q \in Seq(Loop), q # <<>>
  PROVE  /\ Head(q) \in Loop /\ Head(q) \subseteq InLoops(q)
         /\ Tail(q) \in Seq(Loop) /\ InLoops(Tail(q)) \subseteq InLoops(q)
<1> DEFINE r == Tail(q)
<1>1. /\ Len(q) \in Nat \ {0} /\ Head(q) = q[1]
      /\ Head(q) \in Loop /\ r \in Seq(Loop) /\ Len(r) = Len(q) - 1
      /\ \A k \in 1..Len(r) : r[k] = q[k + 1]
  BY HeadTailProperties, EmptySeq
<1> HIDE DEF r
<1>2. DOMAIN r = 1..Len(r) /\ DOMAIN q = 1..Len(q)
  BY <1>1, LenProperties
<1>3. 1 \in DOMAIN q /\ \A k \in DOMAIN r : k + 1 \in DOMAIN q /\ r[k] = q[k + 1]
  BY <1>1, <1>2
<1>4. InLoops(r) \subseteq InLoops(q) /\ Head(q) \subseteq InLoops(q)
  BY <1>1, <1>3 DEF InLoops
<1> QED
  BY <1>1, <1>4 DEF r

LEMMA NextInALoop ==
  ASSUME NEW q \in Seq(Loop), q # <<>>, NEW x \in Head(q), Head(q) # {x}
  PROVE  LET r == [q EXCEPT ![1] = @ \ {x}]
         IN  r \in Seq(Loop) /\ InLoops(r) \subseteq InLoops(q)
<1> DEFINE S == q[1] \ {x}
           r == [q EXCEPT ![1] = S]
<1>1. Len(q) \in Nat \ {0} /\ Head(q) = q[1] /\ Head(q) \in Loop
  BY EndingALoop, EmptySeq
<1>2. S \in Loop /\ S \subseteq q[1] /\ 1 \in 1..Len(q)
  BY <1>1 DEF Loop
<1> HIDE DEF S
<1>3. /\ r \in Seq(Loop) /\ Len(r) = Len(q)
      /\ \A k \in 1..Len(q) : r[k] = IF k = 1 THEN S ELSE q[k]
  BY <1>2, ExceptSeq
<1> HIDE DEF r
<1>4. DOMAIN r = 1..Len(q) /\ DOMAIN q = 1..Len(q)
  BY <1>3, LenProperties
<1>5. \A k \in DOMAIN r : k \in DOMAIN q /\ r[k] \subseteq q[k]
  BY <1>2, <1>3, <1>4
<1>6. InLoops(r) \subseteq InLoops(q)
  BY <1>5 DEF InLoops
<1> QED
  BY <1>3, <1>6 DEF r, S

LEMMA NoLoops == <<>> \in Seq(Loop) /\ InLoops(<<>>) = {}
<1>1. DOMAIN <<>> = {}
  OBVIOUS
<1> QED
  BY <1>1, EmptySeq DEF InLoops

(* What a turn keeps in memory, and the records of the forwardings.        *)
Turn ==
  /\ forwarding \in [Copy -> ForwardingState]
  /\ current \in [copy : Copy, next : {"publish", "succeed"}] \cup {None}
  /\ todo \in Seq(Loop)
  /\ retries \in SUBSET Copy
  /\ serving \in Message \cup {None}

(* The copies of what is published.                                        *)
Ready(msgs) == {x \in Copy : msgs[SourceOf(x)].published}

LEMMA ForwardTurn ==
  ASSUME NEW msgs, NEW page, NEW c, NEW t, todo \in Seq(Loop)
  PROVE  /\ Forward(msgs, page, c, t) \in Seq(Loop)
         /\ InLoops(Forward(msgs, page, c, t)) \subseteq Queued \cup Ready(msgs)
<1> DEFINE S == Outgoing(msgs, page, c, t)
<1>1. S \in SUBSET Copy /\ S \subseteq Ready(msgs)
  BY DEF Outgoing, Pending, Waiting, Ready
<1>2. Forward(msgs, page, c, t) = IF S = {} THEN todo ELSE <<S>> \o todo
  BY DEF Forward
<1> HIDE DEF S
<1>3. CASE S = {}
  BY <1>2, <1>3 DEF Queued
<1>4. CASE S # {}
  <2>1. S \in Loop
    BY <1>1, <1>4 DEF Loop
  <2>2. <<S>> \o todo \in Seq(Loop) /\ InLoops(<<S>> \o todo) \subseteq S \cup InLoops(todo)
    BY <2>1, AddingALoop
  <2> QED
    BY <1>1, <1>2, <1>4, <2>2 DEF Queued
<1> QED
  BY <1>3, <1>4

LEMMA TurnOfType == TypeOK => Turn
BY DEF TypeOK, Turn, Loop

(* A step does not lose a turn's types, and the copies it turns to are     *)
(* copies of what is published.                                            *)
TurnKept == Turn' /\ Tried' \subseteq Tried \cup Ready(messages')

LEMMA Idling ==
  ASSUME Turn, UNCHANGED handler, UNCHANGED forwarding
  PROVE  TurnKept
BY DEF Turn, handler, TurnKept, Tried, Queued

LEMMA PublishTurn ==
  ASSUME Turn, NEW m \in Message, NEW i \in Member, NEW at \in Nat, Publish(m, i, at)
  PROVE  TurnKept
<1>1. /\ \E page : todo' = Forward(messages', page, ChannelOf(m), now)
      /\ serving' = m
      /\ UNCHANGED <<forwarding, current, retries>>
  BY DEF Publish
<1>2. todo \in Seq(Loop)
  BY DEF Turn
<1>3. todo' \in Seq(Loop) /\ InLoops(todo') \subseteq Queued \cup Ready(messages')
  BY <1>1, <1>2, ForwardTurn
<1> QED
  BY <1>1, <1>3 DEF Turn, TurnKept, Tried, Queued

LEMMA EnsureTurn ==
  ASSUME Turn, now \in Nat, NEW x \in Copy, Ensure(x)
  PROVE  /\ forwarding' \in [Copy -> ForwardingState]
         /\ current' = [copy |-> x, next |-> "publish"]
         /\ \A y \in Copy :
              /\ y # x => forwarding'[y] = forwarding[y]
              /\ forwarding'[y].status = "succeeded" <=> forwarding[y].status = "succeeded"
<1> DEFINE f == [forwarding[x] EXCEPT !.status = "pending", !.createdAt = now,
                                     !.updatedAt = now, !.nextAttemptAt = now]
<1>1. forwarding \in [Copy -> ForwardingState] /\ forwarding[x] \in ForwardingState
  BY DEF Turn
<1>2. f \in ForwardingState /\ f.status = "pending"
  BY <1>1 DEF ForwardingState
<1>3. /\ current' = [copy |-> x, next |-> "publish"]
      /\ forwarding' = IF forwarding[x].status # "absent" THEN forwarding
                       ELSE [forwarding EXCEPT ![x] = f]
  BY DEF Ensure
<1> HIDE DEF f
<1> QED
  BY <1>1, <1>2, <1>3

LEMMA ForwardNextTurn ==
  ASSUME Turn, now \in Nat, ForwardNext
  PROVE  TurnKept
<1>1. /\ current = None /\ todo # <<>> /\ retries' = retries
      /\ todo \in Seq(Loop) /\ retries \in SUBSET Copy
  BY DEF ForwardNext, Turn
<1>2. PICK x \in Head(todo) :
        /\ Ensure(x)
        /\ todo' = IF Head(todo) = {x} THEN Tail(todo) ELSE [todo EXCEPT ![1] = @ \ {x}]
  BY DEF ForwardNext
<1>3. x \in Copy /\ x \in Queued
  BY <1>1, <1>2, EndingALoop DEF Queued, Loop
<1>4. todo' \in Seq(Loop) /\ InLoops(todo') \subseteq InLoops(todo)
  BY <1>1, <1>2, EndingALoop, NextInALoop
<1>5. /\ forwarding' \in [Copy -> ForwardingState]
      /\ current' = [copy |-> x, next |-> "publish"]
      /\ \A y \in Copy : y # x => forwarding'[y] = forwarding[y]
  BY <1>2, <1>3, EnsureTurn
<1>6. serving' = serving
  BY <1>2 DEF Ensure
<1> QED
  BY <1>1, <1>3, <1>4, <1>5, <1>6 DEF Turn, TurnKept, Tried, Queued

LEMMA RetryNextTurn ==
  ASSUME Turn, now \in Nat, RetryNext
  PROVE  TurnKept
<1>1. PICK x \in retries : Ensure(x) /\ retries' = retries \ {x}
  BY DEF RetryNext
<1>2. x \in Copy /\ todo' = todo /\ todo \in Seq(Loop)
  BY DEF RetryNext, Turn
<1>3. /\ forwarding' \in [Copy -> ForwardingState]
      /\ current' = [copy |-> x, next |-> "publish"]
      /\ \A y \in Copy : y # x => forwarding'[y] = forwarding[y]
  BY <1>1, <1>2, EnsureTurn
<1>4. serving' = serving
  BY <1>1 DEF Ensure
<1> QED
  BY <1>1, <1>2, <1>3, <1>4 DEF Turn, TurnKept, Tried, Queued

LEMMA RetryTurn ==
  ASSUME Turn, Retry
  PROVE  TurnKept
<1>1. PICK page \in ForwardingPages :
        retries' = {x \in page : /\ forwarding[x].status \in {"pending", "failed"}
                                 /\ forwarding[x].nextAttemptAt <= now
                                 /\ wires[WireOf(x)] = "enabled"}
  BY DEF Retry
<1>2. page \subseteq Copy
  BY DEF ForwardingPages, Pages
<1>3. UNCHANGED <<forwarding, current, todo>> /\ serving' = None
  BY DEF Retry
<1>4. retries' \subseteq Copy /\ \A x \in retries' : forwarding[x].status # "absent"
  BY <1>1, <1>2
<1> QED
  BY <1>3, <1>4 DEF Turn, TurnKept, Tried, Queued

LEMMA PublishCopyTurn ==
  ASSUME Turn, PublishCopy
  PROVE  TurnKept
<1>1. current \in [copy : Copy, next : {"publish", "succeed"}]
  BY DEF Turn, PublishCopy
<1>2. /\ current' = [current EXCEPT !.next = "succeed"]
      /\ UNCHANGED <<forwarding, todo, retries, serving>>
  BY DEF PublishCopy
<1>3. current' \in [copy : Copy, next : {"publish", "succeed"}] /\ current'.copy = current.copy
  BY <1>1, <1>2
<1>4. current # None
  BY DEF PublishCopy
<1> QED
  BY <1>2, <1>3, <1>4 DEF Turn, TurnKept, Tried, Queued

LEMMA SucceedTurn ==
  ASSUME Turn, now \in Nat, current # None, NEW key \in {"success", "recovered"},
         Succeed(current.copy, key)
  PROVE  /\ TurnKept
         /\ \A y \in Copy : forwarding'[y].status = "succeeded" <=>
                              (y = current.copy \/ forwarding[y].status = "succeeded")
<1> DEFINE x == current.copy
           f == [forwarding[x] EXCEPT !.status = "succeeded", !.updatedAt = now,
                                      !.closed = @ \cup {key}]
<1>1. x \in Copy /\ forwarding \in [Copy -> ForwardingState] /\ forwarding[x] \in ForwardingState
  BY DEF Turn
<1>2. f \in ForwardingState /\ f.status = "succeeded"
  BY <1>1 DEF ForwardingState
<1>3. /\ forwarding' = [forwarding EXCEPT ![x] = f] /\ current' = None
      /\ \E page : todo' = Forward(messages, page, To[WireOf(x)], now)
      /\ UNCHANGED <<messages, retries, serving>>
  BY DEF Succeed
<1> HIDE DEF f
<1>4. todo' \in Seq(Loop) /\ InLoops(todo') \subseteq Queued \cup Ready(messages)
  BY <1>3, ForwardTurn DEF Turn
<1>5. x \in Tried
  BY <1>1 DEF Tried
<1>6. /\ forwarding' \in [Copy -> ForwardingState]
      /\ forwarding'[x].status = "succeeded"
      /\ \A y \in Copy : y # x => forwarding'[y] = forwarding[y]
  BY <1>1, <1>2, <1>3
<1>7. Turn'
  BY <1>3, <1>4, <1>6 DEF Turn
<1>8. Tried' \subseteq Tried \cup Ready(messages')
  BY <1>3, <1>4, <1>5, <1>6 DEF Tried, Queued, Ready
<1> QED
  BY <1>6, <1>7, <1>8 DEF TurnKept

LEMMA FailTurn ==
  ASSUME Turn, now \in Nat, Fail
  PROVE  /\ TurnKept
         /\ \A y \in Copy : y # current.copy => forwarding'[y] = forwarding[y]
         /\ forwarding'[current.copy].status = "failed"
<1> DEFINE x == current.copy
           u == now + RetryDelay
           f == [forwarding[x] EXCEPT !.status = "failed", !.updatedAt = now,
                                      !.nextAttemptAt = u]
<1>1. /\ x \in Copy /\ forwarding \in [Copy -> ForwardingState] /\ forwarding[x] \in ForwardingState
      /\ u \in Nat /\ current # None
  BY BoundsAssumption DEF Turn, Fail
<1>2. /\ forwarding' = [forwarding EXCEPT ![x] = f] /\ current' = None
      /\ UNCHANGED <<messages, todo, retries, serving>>
  BY DEF Fail
<1> HIDE DEF u
<1>3. f \in ForwardingState /\ f.status = "failed"
  BY <1>1 DEF ForwardingState
<1> HIDE DEF f
<1>4. x \in Tried
  BY <1>1 DEF Tried
<1>5. /\ forwarding' \in [Copy -> ForwardingState]
      /\ forwarding'[x].status = "failed"
      /\ \A y \in Copy : y # x => forwarding'[y] = forwarding[y]
  BY <1>1, <1>2, <1>3
<1>6. Turn'
  BY <1>2, <1>5 DEF Turn
<1>7. Tried' \subseteq Tried \cup Ready(messages')
  BY <1>2, <1>4, <1>5 DEF Tried, Queued
<1> QED
  BY <1>5, <1>6, <1>7 DEF TurnKept

LEMMA EndOfTurnTurn ==
  ASSUME Turn, EndOfTurn, UNCHANGED forwarding, serving' \in {serving, None}
  PROVE  TurnKept
<1>1. Queued' = {} /\ todo' \in Seq(Loop)
  BY NoLoops DEF EndOfTurn, Queued
<1>2. current' = None /\ retries' = {}
  BY DEF EndOfTurn
<1> QED
  BY <1>1, <1>2 DEF Turn, TurnKept, Tried

(* The members of a channel, each known by its id.                         *)
Membered ==
  /\ members \in [Channel -> SUBSET Membership]
  /\ \A c \in Channel : \A a, b \in members[c] : a.id = b.id => a = b

LEMMA JoinMembers ==
  ASSUME Membered, NEW c \in Channel, NEW a \in Membership, Join(c, a)
  PROVE  Membered'
<1>1. /\ members' = [members EXCEPT ![c] = @ \cup {a}]
      /\ \A b \in members[c] : b.id # a.id
  BY DEF Join
<1>2. /\ members' \in [Channel -> SUBSET Membership]
      /\ members'[c] = members[c] \cup {a}
      /\ \A d \in Channel : d # c => members'[d] = members[d]
  BY <1>1 DEF Membered
<1>3. ASSUME NEW d \in Channel, NEW e \in members'[d], NEW f \in members'[d], e.id = f.id
      PROVE  e = f
  BY <1>1, <1>2, <1>3 DEF Membered
<1> QED
  BY <1>2, <1>3 DEF Membered

LEMMA LeaveMembers ==
  ASSUME Membered, NEW c \in Channel, NEW a \in members[c], Leave(c, a)
  PROVE  Membered'
<1>1. members' = [members EXCEPT ![c] = @ \ {a}]
  BY DEF Leave
<1>2. /\ members' \in [Channel -> SUBSET Membership]
      /\ \A d \in Channel : members'[d] \subseteq members[d]
  BY <1>1 DEF Membered
<1> QED
  BY <1>2 DEF Membered

LEMMA MembersKept ==
  ASSUME Membered, [Next]_vars
  PROVE  Membered'
<1>1. CASE UNCHANGED members
  BY <1>1 DEF Membered
<1>2. ASSUME NEW e \in Applicants, Join(e[1], e[2])
      PROVE  Membered'
  <2>1. e[1] \in Channel /\ e[2] \in Membership
    BY ChannelAssumption
  <2> QED
    BY <1>2, <2>1, JoinMembers
<1>3. ASSUME NEW c \in Channel, NEW a \in members[c], Leave(c, a)
      PROVE  Membered'
  BY <1>3, LeaveMembers
<1>4. \/ UNCHANGED members
      \/ \E e \in Applicants : Join(e[1], e[2])
      \/ \E c \in Channel : \E a \in members[c] : Leave(c, a)
  BY DEF Next, vars, MakeWire, RemoveWire, Publish, Claim, Acknowledge, Retry, ForwardNext,
     RetryNext, Ensure, PublishCopy, Report, Recover, Succeed, Fail, Throw, Crash, Tick
<1> QED
  BY <1>1, <1>2, <1>3, <1>4

LEMMA TurnStep ==
  ASSUME TypeOK, [Next]_vars
  PROVE  TurnKept
<1>1. Turn /\ now \in Nat
  BY TurnOfType DEF TypeOK
<1>2. CASE UNCHANGED <<handler, forwarding>>
  BY <1>1, <1>2, Idling
<1>3. ASSUME NEW m \in Message, NEW i \in Member, NEW at \in Nat, Publish(m, i, at)
      PROVE  TurnKept
  BY <1>1, <1>3, PublishTurn
<1>4. CASE Report
  BY <1>1, <1>4, SucceedTurn DEF Report
<1>5. CASE Recover
  BY <1>1, <1>5, SucceedTurn DEF Recover
<1>6. CASE Throw
  BY <1>1, <1>6, EndOfTurnTurn DEF Throw
<1>7. CASE Crash
  BY <1>1, <1>7, EndOfTurnTurn DEF Crash
<1>8. \/ UNCHANGED <<handler, forwarding>>
      \/ \E m \in Message, i \in Member, at \in Nat : Publish(m, i, at)
      \/ Retry \/ ForwardNext \/ RetryNext \/ PublishCopy
      \/ Report \/ Recover \/ Fail \/ Throw \/ Crash
  BY TimestampsTyped
  DEF Next, vars, Join, Leave, MakeWire, RemoveWire, Claim, Acknowledge, Tick
<1> QED
  BY <1>1, <1>2, <1>3, <1>4, <1>5, <1>6, <1>7, <1>8, RetryTurn, ForwardNextTurn,
     RetryNextTurn, PublishCopyTurn, FailTurn

LEMMA WireSteps ==
  ASSUME [Next]_vars
  PROVE  UNCHANGED wires \/ (\E w \in Wire : MakeWire(w) \/ RemoveWire(w))
BY DEF Next, vars, Join, Leave, Publish, Claim, Acknowledge, Retry, ForwardNext,
   RetryNext, Ensure, PublishCopy, Report, Recover, Succeed, Fail, Throw, Crash, Tick

Counted == now \in Nat /\ changes \in Nat /\ crashes \in Nat

LEMMA CountersKept ==
  ASSUME Counted, [Next]_vars
  PROVE  Counted'
<1>1. CASE UNCHANGED <<now, changes, crashes>>
  BY <1>1 DEF Counted
<1>2. CASE \/ \E a \in Applicants : Join(a[1], a[2])
           \/ \E c \in Channel : \E a \in members[c] : Leave(c, a)
           \/ \E w \in Wire : MakeWire(w) \/ RemoveWire(w)
           \/ Crash \/ Tick
  BY <1>2 DEF Counted, Join, Leave, MakeWire, RemoveWire, Crash, Tick
<1> QED
  BY <1>1, <1>2 DEF Next, vars, Publish, Claim, Acknowledge, Retry, ForwardNext, RetryNext,
     Ensure, PublishCopy, Report, Recover, Succeed, Fail, Throw

LEMMA TypeStep ==
  ASSUME TInv, [Next]_vars
  PROVE  TInv'
<1>1. TypeOK /\ Membered /\ Counted
  BY DEF TInv, TypeOK, Membered, Counted
<1>2. Membered' /\ Mail' /\ Blank' /\ Turn' /\ Counted'
  BY <1>1, MembersKept, MailKept, TurnStep, CountersKept DEF TurnKept
<1>3. (wires \in [Wire -> {"absent", "enabled", "removed"}])'
  BY WireSteps DEF TInv, TypeOK, MakeWire, RemoveWire
<1> QED
  BY <1>2, <1>3 DEF TInv, TypeOK, Membered, Mail, Turn, Loop, Counted

LEMMA TypeInit == Init => TInv
<1> SUFFICES ASSUME Init PROVE TInv
  OBVIOUS
<1>1. Mail /\ Blank
  BY UnpublishedTyped DEF Init, Mail, Blank
<1>2. Membered
  BY ChannelAssumption DEF Init, Membered
<1>3. Unattempted \in ForwardingState
  BY DEF Unattempted, ForwardingState
<1>4. Turn
  BY <1>3, NoLoops DEF Init, Turn
<1>5. /\ wires \in [Wire -> {"absent", "enabled", "removed"}]
      /\ now \in Nat /\ changes \in Nat /\ crashes \in Nat
  BY DEF Init
<1> QED
  BY <1>1, <1>2, <1>4, <1>5 DEF TInv, TypeOK, Membered, Mail, Turn, Loop

(* In every reachable state every variable has its type, a channel has a   *)
(* member once, receipts are those of recipients and tokens those of       *)
(* claims, and a turn works on forwardings that exist.                     *)
THEOREM TypeCorrect == Spec => []TypeOK
<1>1. TInv => TypeOK
  BY DEF TInv
<1> QED
  BY <1>1, TypeInit, TypeStep, PTL DEF Spec

(* Whatever wires are made and removed, the enabled ones form no cycle, as *)
(* long as the wires ever made, removed ones included, fit on the one page *)
(* that reaches() looks at (WirePageAssumption; the listing of wires shows *)
(* `wires' whole only then).  wire() looks only for a way from the target  *)
(* to the source of the new wire, and unwire() for none.                   *)
THEOREM WiresStayAcyclic == Spec => []WiresAcyclic
<1>1. Init => TInv /\ WiresAcyclic
  BY LaidAssumption, WireAssumption, TypeInit
     DEF Init, WiresAcyclic, Enabled, Reaches, ClosedUnder
<1>2. TInv /\ WiresAcyclic /\ [Next]_vars => TInv' /\ WiresAcyclic'
  <2> SUFFICES ASSUME TInv, WiresAcyclic, [Next]_vars
               PROVE  WiresAcyclic'
    BY TypeStep
  <2>1. CASE UNCHANGED wires
    BY <2>1 DEF WiresAcyclic, Enabled
  <2>2. wires \in [Wire -> {"absent", "enabled", "removed"}]
    BY DEF TInv, TypeOK
  <2>3. Enabled \in SUBSET Wire /\ \A v \in Enabled : ~Reaches(Enabled, To[v], From[v])
    BY DEF Enabled, WiresAcyclic
  <2>4. ASSUME NEW w \in Wire, MakeWire(w)
        PROVE  WiresAcyclic'
    <3>1. Enabled' = Enabled \cup {w} /\ ~Reaches(Enabled, To[w], From[w])
      BY <2>2, <2>4 DEF MakeWire, Enabled
    <3>2. \A v \in Enabled \cup {w} : ~Reaches(Enabled \cup {w}, To[v], From[v])
      BY <2>3, <3>1, AddingAWire
    <3> QED
      BY <3>1, <3>2 DEF WiresAcyclic
  <2>5. ASSUME NEW w \in Wire, RemoveWire(w)
        PROVE  WiresAcyclic'
    <3>1. Enabled' \in SUBSET Enabled
      BY <2>2, <2>5 DEF RemoveWire, Enabled
    <3>2. \A v \in Enabled' : ~Reaches(Enabled', To[v], From[v])
      BY <2>3, <3>1, RemovingWires
    <3> QED
      BY <3>2 DEF WiresAcyclic
  <2> QED
    BY <2>1, <2>4, <2>5, WireSteps
<1> QED
  BY <1>1, <1>2, PTL DEF Spec

(* A broadcast counts as acknowledged when, and only when, all it was      *)
(* addressed to have received it: acknowledgements of others and changes   *)
(* of the channel's members do not matter.                                 *)
THEOREM BroadcastsReachAll == Spec => []AcknowledgedByAll
<1>1. Init => TInv /\ AcknowledgedByAll
  BY TypeInit, UnpublishedTyped DEF Init, AcknowledgedByAll
<1>2. TInv /\ AcknowledgedByAll /\ [Next]_vars => TInv' /\ AcknowledgedByAll'
  <2> SUFFICES ASSUME TInv, AcknowledgedByAll, [Next]_vars
               PROVE  AcknowledgedByAll'
    BY TypeStep
  <2>0. TypeOK /\ messages \in [Message -> MessageState]
    BY DEF TInv, TypeOK
  <2>1. CASE UNCHANGED messages
    BY <2>1 DEF AcknowledgedByAll
  <2>2. ASSUME NEW m \in Message, Appears(m)
        PROVE  AcknowledgedByAll'
    <3>1. PICK i \in Member, t \in Nat, e \in Nat :
            messages' = [messages EXCEPT ![m] = NewMessage(ChannelOf(m), i, t, e)]
      BY <2>2 DEF Appears
    <3> DEFINE r == NewMessage(ChannelOf(m), i, t, e)
    <3>2. r.received = {} /\ r.acknowledged = FALSE
      BY NewMessageTyped
    <3>3. messages' = [messages EXCEPT ![m] = r]
      BY <3>1
    <3> HIDE DEF r
    <3> QED
      BY <2>0, <3>2, <3>3 DEF AcknowledgedByAll
  <2>3. ASSUME NEW m \in Message, NEW i \in Member, NEW at \in Nat, Claim(m, i, at)
        PROVE  AcknowledgedByAll'
    BY <2>0, <2>3 DEF Claim, AcknowledgedByAll, MessageState
  <2>4. ASSUME NEW m \in Message, NEW i \in Member, NEW at \in Nat, Acknowledge(m, i, at)
        PROVE  AcknowledgedByAll'
    <3> DEFINE q == messages[m]
               r == Acknowledged(q, ChannelOf(m), i, at)
    <3>1. q \in MessageState /\ messages' = [messages EXCEPT ![m] = r]
      BY <2>0, <2>4 DEF Acknowledge
    <3>2. Mode[ChannelOf(m)] = "broadcast" =>
            /\ r.recipients = q.recipients
            /\ r.received = q.received \cup ({i} \cap q.recipients)
            /\ r.acknowledged = (q.acknowledged \/ q.recipients \subseteq q.received \cup {i})
      BY <3>1 DEF Acknowledged, MessageState
    <3> HIDE DEF r
    <3> QED
      BY <2>0, <3>1, <3>2 DEF AcknowledgedByAll
  <2>5. PublishCopy => current.copy \in Message
    BY <2>0, CopyTyped DEF TypeOK, PublishCopy
  <2> QED
    BY <2>0, <2>1, <2>2, <2>3, <2>4, <2>5, MessageSteps, PublishAppears, CopyAppears
<1> QED
  BY <1>1, <1>2, PTL DEF Spec

-----------------------------------------------------------------------------
(* Claims.                                                                 *)

(* A message that appears has no token, and nobody holds one for it.       *)
LEMMA AppearsUnclaimed ==
  ASSUME TInv, NEW m \in Message, Appears(m)
  PROVE  /\ messages[m].token = 0
         /\ \A n \in Message : n # m => messages'[n] = messages[n]
         /\ \A i \in Member : held'[i][m] = 0
         /\ UNCHANGED held
<1>1. /\ ~messages[m].published /\ UNCHANGED held
      /\ \A n \in Message : n # m => messages'[n] = messages[n]
  BY DEF Appears, TInv, TypeOK
<1>2. messages[m].token = 0
  BY <1>1, UnpublishedTyped DEF TInv, Blank
<1>3. \A i \in Member : held[i][m] = 0
  BY <1>2 DEF TInv, TypeOK
<1> QED
  BY <1>1, <1>2, <1>3

LEMMA ClaimChanges ==
  ASSUME TInv, NEW m \in Message, NEW i \in Member, NEW at \in Nat, Claim(m, i, at)
  PROVE  /\ messages'[m].token = messages[m].token + 1
         /\ messages'[m].claimant = i
         /\ messages'[m].acknowledgedBy = messages[m].acknowledgedBy
         /\ StateOf(messages'[m]) = StateOf(messages[m])
         /\ \A n \in Message : n # m => messages'[n] = messages[n]
         /\ \A j \in Member, n \in Message :
              held'[j][n] = IF j = i /\ n = m THEN messages[m].token + 1 ELSE held[j][n]
<1>1. /\ messages \in [Message -> MessageState] /\ messages[m] \in MessageState
      /\ held \in [Member -> [Message -> Nat]]
  BY DEF TInv, TypeOK
<1> QED
  BY <1>1 DEF Claim, MessageState, StateOf

LEMMA AcknowledgeChanges ==
  ASSUME TInv, NEW m \in Message, NEW i \in Member, NEW at \in Nat, Acknowledge(m, i, at)
  PROVE  /\ messages'[m].token = messages[m].token
         /\ messages'[m].claimant = messages[m].claimant
         /\ Mode[ChannelOf(m)] # "broadcast" => messages'[m].acknowledgedBy = i
         /\ messages[m].published /\ messages'[m].published
         /\ messages[m].acknowledged => messages'[m].acknowledged
         /\ \A n \in Message : n # m => messages'[n] = messages[n]
         /\ UNCHANGED held
<1> DEFINE r == Acknowledged(messages[m], ChannelOf(m), i, at)
<1>1. /\ messages \in [Message -> MessageState] /\ messages[m] \in MessageState
      /\ messages[m].received \subseteq messages[m].recipients
  BY DEF TInv, TypeOK
<1>2. /\ r.token = messages[m].token /\ r.claimant = messages[m].claimant
      /\ r.published = messages[m].published
      /\ messages[m].acknowledged => r.acknowledged
  BY <1>1, AcknowledgedTyped
<1>3. Mode[ChannelOf(m)] # "broadcast" => r.acknowledgedBy = i
  BY <1>1 DEF Acknowledged, MessageState
<1>4. messages' = [messages EXCEPT ![m] = r] /\ messages[m].published /\ UNCHANGED held
  BY DEF Acknowledge
<1> HIDE DEF r
<1> QED
  BY <1>1, <1>2, <1>3, <1>4

LEMMA HoldersKept ==
  ASSUME TInv, Holders, [Next]_vars
  PROVE  Holders'
<1>0. TypeOK
  BY DEF TInv
<1>1. CASE UNCHANGED <<messages, held>>
  BY <1>1 DEF Holders
<1>2. ASSUME NEW m \in Message, Appears(m)
      PROVE  Holders'
  BY <1>2, AppearsUnclaimed DEF Holders
<1>3. ASSUME NEW m \in Message, NEW i \in Member, NEW at \in Nat, Claim(m, i, at)
      PROVE  Holders'
  <2> SUFFICES ASSUME NEW n \in Message, NEW j \in Member,
                      held'[j][n] # 0, held'[j][n] = messages'[n].token
               PROVE  messages'[n].claimant = j
    BY DEF Holders
  <2>1. /\ messages[m].token \in Nat /\ held[j][m] \in Nat
        /\ held[j][m] <= messages[m].token
    BY DEF TInv, TypeOK, MessageState
  <2>2. CASE n = m
    BY <1>3, <2>1, <2>2, ClaimChanges
  <2>3. CASE n # m
    BY <1>3, <2>3, ClaimChanges DEF Holders
  <2> QED
    BY <2>2, <2>3
<1>4. ASSUME NEW m \in Message, NEW i \in Member, NEW at \in Nat, Acknowledge(m, i, at)
      PROVE  Holders'
  BY <1>4, AcknowledgeChanges DEF Holders
<1>5. PublishCopy => current.copy \in Message
  BY <1>0, CopyTyped DEF TypeOK, PublishCopy
<1> QED
  BY <1>0, <1>1, <1>2, <1>3, <1>4, <1>5, MessageSteps, PublishAppears, CopyAppears

(* Who acknowledges a message of a queue that was claimed is its latest    *)
(* claimant: the token acknowledge() compares is as good as the lease and  *)
(* the claimant it does not look at.                                       *)
THEOREM ClaimantsAcknowledge == Spec => AcknowledgedByItsClaimant
<1>1. Init => TInv /\ Holders
  BY TypeInit, UnpublishedTyped DEF Init, Holders
<1>2. TInv /\ Holders /\ [Next]_vars => TInv' /\ Holders'
  BY TypeStep, HoldersKept
<1>3. TInv /\ Holders /\ [Next]_vars =>
        [\A m \in Message :
           /\ Mode[ChannelOf(m)] = "queue" /\ messages[m].token # 0
           /\ messages'[m].acknowledgedBy # messages[m].acknowledgedBy
           => messages'[m].acknowledgedBy = messages[m].claimant]_vars
  <2> SUFFICES ASSUME TInv, Holders, [Next]_vars, NEW m \in Message,
                      Mode[ChannelOf(m)] = "queue", messages[m].token # 0,
                      messages'[m].acknowledgedBy # messages[m].acknowledgedBy
               PROVE  messages'[m].acknowledgedBy = messages[m].claimant
    OBVIOUS
  <2>0. TypeOK
    BY DEF TInv
  <2>1. ASSUME NEW n \in Message, Appears(n)
        PROVE  FALSE
    BY <2>1, AppearsUnclaimed
  <2>2. ASSUME NEW n \in Message, NEW i \in Member, NEW at \in Nat, Claim(n, i, at)
        PROVE  FALSE
    BY <2>2, ClaimChanges
  <2>3. ASSUME NEW n \in Message, NEW i \in Member, NEW at \in Nat, Acknowledge(n, i, at)
        PROVE  messages'[m].acknowledgedBy = messages[m].claimant
    <3>1. n = m
      BY <2>3, AcknowledgeChanges
    <3>2. messages[m].token = held[i][m]
      BY <2>3, <3>1 DEF Acknowledge, PassesFence
    <3>3. messages[m].claimant = i
      BY <3>2 DEF Holders
    <3> QED
      BY <2>3, <3>1, <3>3, AcknowledgeChanges
  <2>4. PublishCopy => current.copy \in Message
    BY <2>0, CopyTyped DEF TypeOK, PublishCopy
  <2> QED
    BY <2>0, <2>1, <2>2, <2>3, <2>4, MessageSteps, PublishAppears, CopyAppears
<1> QED
  BY <1>1, <1>2, <1>3, PTL DEF Spec, AcknowledgedByItsClaimant

-----------------------------------------------------------------------------
(* The relay.                                                              *)

LEMMA PublishedKept ==
  ASSUME TInv, [Next]_vars, NEW m \in Message, messages[m].published
  PROVE  messages'[m].published
<1>0. TypeOK
  BY DEF TInv
<1>1. ASSUME NEW n \in Message, Appears(n)
      PROVE  messages'[m].published
  <2>1. n # m
    BY <1>1 DEF Appears
  <2> QED
    BY <1>1, <2>1, AppearsUnclaimed
<1>2. ASSUME NEW n \in Message, NEW i \in Member, NEW at \in Nat, Claim(n, i, at)
      PROVE  messages'[m].published
  <2>1. CASE n = m
    BY <1>2, <2>1, ClaimChanges DEF StateOf
  <2>2. CASE n # m
    BY <1>2, <2>2, ClaimChanges
  <2> QED
    BY <2>1, <2>2
<1>3. ASSUME NEW n \in Message, NEW i \in Member, NEW at \in Nat, Acknowledge(n, i, at)
      PROVE  messages'[m].published
  BY <1>3, AcknowledgeChanges
<1>4. PublishCopy => current.copy \in Message
  BY <1>0, CopyTyped DEF TypeOK, PublishCopy
<1> QED
  BY <1>0, <1>1, <1>2, <1>3, <1>4, MessageSteps, PublishAppears, CopyAppears

LEMMA SourcedKept ==
  ASSUME TInv, Sourced, [Next]_vars
  PROVE  Sourced'
<1>1. Tried' \subseteq Tried \cup Ready(messages')
  BY TurnStep DEF TInv, TurnKept
<1>2. ASSUME NEW x \in Tried'
      PROVE  messages'[SourceOf(x)].published
  <2>1. CASE x \in Tried
    <3>1. x \in Copy /\ messages[SourceOf(x)].published
      BY <2>1 DEF Tried, Sourced
    <3> QED
      BY <3>1, SourceTyped, PublishedKept
  <2>2. CASE x \in Ready(messages')
    BY <2>2 DEF Ready
  <2> QED
    BY <1>1, <1>2, <2>1, <2>2
<1> QED
  BY <1>2 DEF Sourced

(* The copies whose forwarding succeeded.                                  *)
Succeeded == {x \in Copy : forwarding[x].status = "succeeded"}

(* A copy about to be reported exists.                                     *)
AboutToSucceed ==
  current # None /\ current.next = "succeed" => messages[current.copy].published

(* One copy that exists is reported, or none is.                           *)
ReportStep ==
  \/ Succeeded' = Succeeded
  \/ /\ UNCHANGED messages
     /\ \E x \in Copy : messages[x].published /\ Succeeded' = Succeeded \cup {x}

LEMMA ReportSteps ==
  ASSUME TInv, Reported, [Next]_vars
  PROVE  ReportStep /\ AboutToSucceed'
<1>0. TypeOK /\ Turn /\ now \in Nat /\ AboutToSucceed
  BY TurnOfType DEF TInv, TypeOK, Reported, AboutToSucceed
<1>1. ASSUME UNCHANGED <<forwarding, current>>
      PROVE  ReportStep /\ AboutToSucceed'
  <2>1. CASE current = None \/ current.next # "succeed"
    BY <1>1, <2>1 DEF ReportStep, Succeeded, AboutToSucceed
  <2>2. CASE current # None /\ current.next = "succeed"
    <3>1. current.copy \in Message /\ messages[current.copy].published
      BY <1>0, <2>2, CopyTyped DEF TypeOK, AboutToSucceed
    <3> QED
      BY <1>1, <3>1, PublishedKept DEF ReportStep, Succeeded, AboutToSucceed
  <2> QED
    BY <2>1, <2>2
<1>2. ASSUME NEW x \in Copy, Ensure(x)
      PROVE  ReportStep /\ AboutToSucceed'
  BY <1>0, <1>2, EnsureTurn DEF ReportStep, Succeeded, AboutToSucceed
<1>3. CASE PublishCopy
  <2> DEFINE x == current.copy
  <2>1. /\ current \in [copy : Copy, next : {"publish", "succeed"}]
        /\ messages \in [Message -> MessageState]
    BY <1>0, <1>3 DEF TypeOK, PublishCopy
  <2>2. UNCHANGED forwarding /\ current'.copy = x /\ x \in Message
    BY <1>3, <2>1, CopyTyped DEF PublishCopy
  <2>3. messages'[x].published
    <3>1. CASE messages[x].published
      BY <2>2, <3>1, PublishedKept
    <3>2. CASE ~messages[x].published
      <4>1. Appears(x)
        BY <1>0, <1>3, <3>2, CopyAppears
      <4>2. PICK i \in Member, t \in Nat, e \in Nat :
              messages' = [messages EXCEPT ![x] = NewMessage(ChannelOf(x), i, t, e)]
        BY <4>1 DEF Appears
      <4>3. NewMessage(ChannelOf(x), i, t, e).published
        BY NewMessageTyped
      <4> QED
        BY <2>1, <2>2, <4>2, <4>3
    <3> QED
      BY <3>1, <3>2
  <2> QED
    BY <2>2, <2>3 DEF ReportStep, Succeeded, AboutToSucceed
<1>4. ASSUME NEW key \in {"success", "recovered"}, current # None,
             Succeed(current.copy, key), messages[current.copy].published
      PROVE  ReportStep /\ AboutToSucceed'
  <2>1. current.copy \in Copy /\ UNCHANGED messages /\ current' = None
    BY <1>0, <1>4 DEF TypeOK, Succeed
  <2>2. Succeeded' = Succeeded \cup {current.copy}
    BY <1>0, <1>4, <2>1, SucceedTurn DEF Succeeded
  <2> QED
    BY <1>4, <2>1, <2>2 DEF ReportStep, AboutToSucceed
<1>5. CASE Report
  BY <1>0, <1>4, <1>5 DEF Report, AboutToSucceed
<1>6. CASE Recover
  BY <1>4, <1>6 DEF Recover
<1>7. CASE Fail
  <2>1. /\ current.copy \in Copy /\ current # None /\ ~messages[current.copy].published
        /\ current' = None
    BY <1>0, <1>7 DEF TypeOK, Fail
  <2>2. forwarding[current.copy].status # "succeeded"
    BY <2>1 DEF Reported
  <2>3. Succeeded' = Succeeded
    BY <1>0, <1>7, <2>1, <2>2, FailTurn DEF Succeeded
  <2> QED
    BY <2>1, <2>3 DEF ReportStep, AboutToSucceed
<1>8. CASE Throw \/ Crash
  BY <1>8 DEF Throw, Crash, EndOfTurn, ReportStep, Succeeded, AboutToSucceed
<1>9. ForwardNext \/ RetryNext => \E x \in Copy : Ensure(x)
  BY <1>0, EndingALoop DEF ForwardNext, RetryNext, Turn, Loop
<1>10. \/ UNCHANGED <<forwarding, current>>
       \/ ForwardNext \/ RetryNext \/ PublishCopy
       \/ Report \/ Recover \/ Fail \/ Throw \/ Crash
  BY DEF Next, vars, handler, Join, Leave, MakeWire, RemoveWire, Publish, Claim, Acknowledge,
     Retry, Tick
<1> QED
  BY <1>1, <1>2, <1>3, <1>5, <1>6, <1>7, <1>8, <1>9, <1>10

LEMMA ReportedKept ==
  ASSUME TInv, Reported, [Next]_vars
  PROVE  Reported'
<1>1. ReportStep /\ AboutToSucceed'
  BY ReportSteps
<1>2. ASSUME NEW x \in Copy, x \in Succeeded'
      PROVE  messages'[x].published
  <2>1. CASE x \in Succeeded
    <3>1. x \in Message /\ messages[x].published
      BY <2>1, CopyTyped DEF Succeeded, Reported
    <3> QED
      BY <3>1, PublishedKept
  <2>2. CASE x \notin Succeeded
    BY <1>1, <1>2, <2>2 DEF ReportStep
  <2> QED
    BY <2>1, <2>2
<1> QED
  BY <1>1, <1>2 DEF Reported, Succeeded, AboutToSucceed

(* The channels and the forwarding implement ChannelRelay: no crash, retry *)
(* or repeated forwarding publishes a copy twice, brings an acknowledged   *)
(* one back, makes one of a message that is not there or reports one that  *)
(* does not exist.                                                         *)
THEOREM ImplementsRelay == Spec => KeepsRelay
<1> DEFINE RInv == TInv /\ Sourced /\ Reported
<1>1. Init => RInv /\ Relay!Init
  <2> SUFFICES ASSUME Init
               PROVE  RInv /\ Relay!Init
    OBVIOUS
  <2>1. TInv /\ messages = [m \in Message |-> Unpublished]
    BY TypeInit DEF Init
  <2>2. \A x \in Copy : forwarding[x].status = "absent"
    BY DEF Init, Unattempted
  <2>3. Tried = {}
    BY <2>2, NoLoops DEF Init, Tried, Queued
  <2>4. Sourced /\ Reported
    BY <2>2, <2>3 DEF Sourced, Reported, Init
  <2>5. \A m \in Message : StateOf(messages[m]) = "absent"
    BY <2>1, UnpublishedTyped DEF StateOf
  <2> QED
    BY <2>1, <2>2, <2>4, <2>5 DEF Relay!Init
<1>2. RInv /\ [Next]_vars => RInv' /\ [Relay!Next]_(Relay!relayVars)
  <2> SUFFICES ASSUME TInv, Sourced, Reported, [Next]_vars
               PROVE  [Relay!Next]_(Relay!relayVars)
    BY TypeStep, SourcedKept, ReportedKept
  <2>0. TypeOK /\ messages \in [Message -> MessageState]
    BY DEF TInv, TypeOK
  <2>1. CASE UNCHANGED messages
    <3>1. \A m \in Message : StateOf(messages[m])' = StateOf(messages[m])
      BY <2>1 DEF StateOf
    <3>2. CASE Succeeded' = Succeeded
      BY <3>1, <3>2 DEF Succeeded, Relay!relayVars
    <3>3. ASSUME NEW x \in Copy, messages[x].published, Succeeded' = Succeeded \cup {x}
          PROVE  Relay!Report(x)
      <4>1. x \in Message /\ StateOf(messages[x]) # "absent"
        BY <3>3, CopyTyped DEF StateOf
      <4> QED
        BY <3>1, <3>3, <4>1 DEF Succeeded, Relay!Report
    <3> QED
      BY <3>2, <3>3, ReportSteps DEF ReportStep, Relay!Next
  <2>2. ASSUME NEW m \in Message, Appears(m), UNCHANGED forwarding,
               m \in Copy => messages[SourceOf(m)].published
        PROVE  Relay!Publish(m)
    <3>1. PICK i \in Member, t \in Nat, e \in Nat :
            /\ ~messages[m].published
            /\ messages' = [messages EXCEPT ![m] = NewMessage(ChannelOf(m), i, t, e)]
      BY <2>2 DEF Appears
    <3>2. /\ NewMessage(ChannelOf(m), i, t, e).published
          /\ ~NewMessage(ChannelOf(m), i, t, e).acknowledged
      BY NewMessageTyped
    <3>3. /\ StateOf(messages[m]) = "absent" /\ StateOf(messages'[m]) = "pending"
          /\ \A n \in Message : n # m => messages'[n] = messages[n]
      BY <2>0, <3>1, <3>2 DEF StateOf
    <3>4. m \in Copy => SourceOf(m) \in Message /\ StateOf(messages[SourceOf(m)]) # "absent"
      BY <2>2, SourceTyped DEF StateOf
    <3> QED
      BY <2>2, <3>3, <3>4 DEF Relay!Publish
  <2>3. ASSUME NEW m \in Message, NEW i \in Member, NEW at \in Nat, Claim(m, i, at)
        PROVE  UNCHANGED Relay!relayVars
    <3>1. UNCHANGED forwarding /\ \A n \in Message : StateOf(messages'[n]) = StateOf(messages[n])
      BY <2>3, ClaimChanges DEF Claim
    <3> QED
      BY <3>1 DEF Relay!relayVars
  <2>4. ASSUME NEW m \in Message, NEW i \in Member, NEW at \in Nat, Acknowledge(m, i, at)
        PROVE  Relay!Acknowledge(m) \/ UNCHANGED Relay!relayVars
    <3>1. /\ UNCHANGED forwarding
          /\ \A n \in Message : n # m => StateOf(messages'[n]) = StateOf(messages[n])
      BY <2>4, AcknowledgeChanges DEF Acknowledge
    <3>2. \/ StateOf(messages'[m]) = StateOf(messages[m])
          \/ StateOf(messages[m]) = "pending" /\ StateOf(messages'[m]) = "acknowledged"
      BY <2>4, AcknowledgeChanges DEF StateOf
    <3>3. CASE StateOf(messages'[m]) = StateOf(messages[m])
      BY <3>1, <3>3 DEF Relay!relayVars
    <3>4. CASE StateOf(messages[m]) = "pending" /\ StateOf(messages'[m]) = "acknowledged"
      BY <3>1, <3>4 DEF Relay!Acknowledge
    <3> QED
      BY <3>2, <3>3, <3>4
  <2>5. ASSUME NEW m \in Message, NEW i \in Member, NEW at \in Nat, Publish(m, i, at)
        PROVE  Relay!Publish(m)
    <3>1. Appears(m) /\ UNCHANGED forwarding /\ m \notin Copy
      BY <2>0, <2>5, PublishAppears DEF Publish
    <3> QED
      BY <2>2, <3>1
  <2>6. CASE PublishCopy /\ ~UNCHANGED messages
    <3> DEFINE x == current.copy
    <3>1. x \in Copy /\ x \in Message /\ current # None
      BY <2>0, <2>6, CopyTyped DEF TypeOK, PublishCopy
    <3>2. Appears(x) /\ UNCHANGED forwarding
      BY <2>0, <2>6, CopyAppears DEF PublishCopy
    <3>3. messages[SourceOf(x)].published
      BY <3>1 DEF Sourced, Tried
    <3>4. Relay!Publish(x)
      BY <2>2, <3>1, <3>2, <3>3
    <3> QED
      BY <3>1, <3>4 DEF Relay!Next
  <2> QED
    BY <2>1, <2>3, <2>4, <2>5, <2>6, MessageSteps DEF Relay!Next
<1> QED
  BY <1>1, <1>2, PTL DEF Spec, KeepsRelay, Relay!Spec
-----------------------------------------------------------------------------
(* The capacity.                                                           *)

(* Only what is in a queue is ever claimed.                                *)
QueuesClaimed ==
  \A m \in Message : messages[m].token # 0 => Mode[ChannelOf(m)] = "queue"

(* The capacity holds at every time, beyond the bound of the clock too.    *)
BoundedAlways ==
  FitsOnePage =>
    \A c \in Channel, t \in Nat : Cardinality(Unserved(c, t)) <= Capacity[c]

(* The capacity holds because the publication counts as of the date of the *)
(* message: what waits later, and was never claimed, waited then.          *)
CapacityInv ==
  /\ IsFiniteSet(Delivered(messages))
  /\ QueuesClaimed
  /\ BoundedAlways

(* A message that appears with the date `at'.                              *)
AppearsDated(m, at) ==
  \E i \in Member, e \in Nat :
    /\ ~messages[m].published
    /\ messages' = [messages EXCEPT ![m] = NewMessage(ChannelOf(m), i, at, e)]
    /\ held' = held

LEMMA FewerFit ==
  ASSUME NEW P, NEW U \in SUBSET P, NEW n \in Nat, IsFiniteSet(P), Cardinality(P) <= n
  PROVE  Cardinality(U) <= n
<1>1. /\ Cardinality(P) \in Nat /\ Cardinality(U) \in Nat
      /\ Cardinality(U) <= Cardinality(P)
  BY FS_Subset, FS_CardinalityType
<1> QED
  BY <1>1

LEMMA OneMoreFits ==
  ASSUME NEW P, NEW m, NEW U \in SUBSET (P \cup {m}), NEW n \in Nat,
         IsFiniteSet(P), Cardinality(P) < n
  PROVE  Cardinality(U) <= n
<1>1. /\ IsFiniteSet(P \cup {m})
      /\ Cardinality(P \cup {m}) = IF m \in P THEN Cardinality(P) ELSE Cardinality(P) + 1
  BY FS_AddElement
<1>2. Cardinality(P) \in Nat
  BY FS_CardinalityType
<1>3. Cardinality(P \cup {m}) <= n
  BY <1>1, <1>2
<1> QED
  BY <1>1, <1>3, FewerFit

(* Unclaimed messages only ever cease to wait as time passes.              *)
LEMMA WaitedBefore ==
  ASSUME NEW r \in MessageState, NEW t \in Nat, NEW u \in Nat, t <= u,
         r.token = 0, Waiting(r, u)
  PROVE  Waiting(r, t)
BY DEF Waiting, Claimed, MessageState

LEMMA UnservedTyped ==
  ASSUME QueuesClaimed, NEW c, NEW t, NEW m \in Unserved(c, t)
  PROVE  /\ m \in Message /\ m \in Delivered(messages) /\ ChannelOf(m) = c
         /\ messages[m].token = 0 /\ Waiting(messages[m], t)
BY DEF QueuesClaimed, Unserved, Delivered

LEMMA UnservedIsFinite ==
  ASSUME IsFiniteSet(Delivered(messages)), NEW c, NEW t
  PROVE  IsFiniteSet(Unserved(c, t))
<1>1. Unserved(c, t) \subseteq Delivered(messages)
  BY DEF Unserved
<1> QED
  BY <1>1, FS_Subset

(* What fits on one page after a step fitted before it.                    *)
LEMMA FittedBefore ==
  ASSUME IsFiniteSet(Delivered(messages)'), FitsOnePage',
         Delivered(messages) \subseteq Delivered(messages)'
  PROVE  FitsOnePage
<1>1. PICK P : P = Delivered(messages)'
  OBVIOUS
<1>2. IsFiniteSet(P) /\ Cardinality(P) <= ListLimit /\ Delivered(messages) \subseteq P
  BY <1>1 DEF FitsOnePage
<1>3. Cardinality(Delivered(messages)) <= ListLimit
  BY <1>2, FewerFit, BoundsAssumption
<1> QED
  BY <1>3 DEF FitsOnePage

LEMMA OnePage ==
  ASSUME FitsOnePage, NEW page \in MessagePages(messages)
  PROVE  page = Delivered(messages)
BY DEF FitsOnePage, MessagePages, Pages

(* A step after which no channel holds, at any time, a message it did not  *)
(* hold before.                                                            *)
LEMMA NothingMore ==
  ASSUME CapacityInv, IsFiniteSet(Delivered(messages)'),
         Delivered(messages) \subseteq Delivered(messages)',
         \A c \in Channel, t \in Nat : Unserved(c, t)' \subseteq Unserved(c, t)
  PROVE  BoundedAlways'
<1> SUFFICES ASSUME FitsOnePage', NEW c \in Channel, NEW t \in Nat
             PROVE  Cardinality(Unserved(c, t)') <= Capacity[c]
  BY DEF BoundedAlways
<1>1. PICK P : P = Unserved(c, t)
  OBVIOUS
<1>2. PICK U : U = Unserved(c, t)'
  OBVIOUS
<1>3. IsFiniteSet(P) /\ Cardinality(P) <= Capacity[c] /\ Capacity[c] \in Nat
  BY <1>1, FittedBefore, UnservedIsFinite, ChannelAssumption DEF CapacityInv, BoundedAlways
<1>4. U \subseteq P
  BY <1>1, <1>2
<1> QED
  BY <1>2, <1>3, <1>4, FewerFit

(* A message appears where, at its own date, there was room.               *)
LEMMA OneMore ==
  ASSUME TInv, CapacityInv, IsFiniteSet(Delivered(messages)'),
         Delivered(messages) \subseteq Delivered(messages)',
         NEW m \in Message, NEW at \in Nat, AppearsDated(m, at),
         NEW page \in MessagePages(messages), HasRoom(page, ChannelOf(m), at)
  PROVE  BoundedAlways'
<1>0. /\ messages \in [Message -> MessageState]
      /\ QueuesClaimed /\ IsFiniteSet(Delivered(messages))
  BY DEF TInv, TypeOK, CapacityInv
<1>1. /\ messages'[m].publishedAt = at
      /\ \A n \in Message : n # m => messages'[n] = messages[n]
  <2>1. PICK i \in Member, e \in Nat :
          messages' = [messages EXCEPT ![m] = NewMessage(ChannelOf(m), i, at, e)]
    BY DEF AppearsDated
  <2> DEFINE r == NewMessage(ChannelOf(m), i, at, e)
  <2>2. r.publishedAt = at /\ messages' = [messages EXCEPT ![m] = r]
    BY <2>1 DEF NewMessage, Unpublished
  <2> HIDE DEF r
  <2> QED
    BY <1>0, <2>2
<1> SUFFICES ASSUME FitsOnePage', NEW c \in Channel, NEW t \in Nat
             PROVE  Cardinality(Unserved(c, t)') <= Capacity[c]
  BY DEF BoundedAlways
<1>2. FitsOnePage /\ page = Delivered(messages)
  BY FittedBefore, OnePage
<1>3. Capacity[c] \in Nat
  BY ChannelAssumption
<1>4. PICK U : U = Unserved(c, t)'
  OBVIOUS
<1>5. ASSUME NEW n \in U, n # m
      PROVE  n \in Unserved(c, t)
  BY <1>1, <1>4, <1>5 DEF Unserved, Delivered
<1>6. CASE m \in U
  <2>1. PICK P : P = Pending(messages, page, c, at)
    OBVIOUS
  <2>2. c = ChannelOf(m) /\ at <= t
    BY <1>1, <1>4, <1>6 DEF Unserved
  <2>3. ASSUME NEW n \in U, n # m
        PROVE  n \in P
    <3>1. /\ n \in Message /\ n \in page /\ ChannelOf(n) = c
          /\ messages[n].token = 0 /\ Waiting(messages[n], t)
      BY <1>0, <1>2, <1>5, <2>3, UnservedTyped
    <3>2. Waiting(messages[n], at)
      BY <1>0, <2>2, <3>1, WaitedBefore
    <3> QED
      BY <2>1, <3>1, <3>2 DEF Pending
  <2>4. U \subseteq P \cup {m}
    BY <2>3
  <2>5. P \subseteq Delivered(messages)
    BY <1>2, <2>1 DEF Pending
  <2>6. IsFiniteSet(P)
    BY <1>0, <2>5, FS_Subset
  <2>7. Cardinality(P) < Capacity[c]
    BY <2>1, <2>2 DEF HasRoom
  <2> QED
    BY <1>3, <1>4, <2>4, <2>6, <2>7, OneMoreFits
<1>7. CASE m \notin U
  <2>1. PICK P : P = Unserved(c, t)
    OBVIOUS
  <2>2. U \subseteq P
    BY <1>5, <1>7, <2>1
  <2>3. IsFiniteSet(P) /\ Cardinality(P) <= Capacity[c]
    BY <1>0, <1>2, <2>1, UnservedIsFinite DEF CapacityInv, BoundedAlways
  <2> QED
    BY <1>3, <1>4, <2>2, <2>3, FewerFit
<1> QED
  BY <1>6, <1>7

(* Nothing is ever deleted, and a step publishes one message at most.      *)
LEMMA DeliveredKept ==
  ASSUME TInv, IsFiniteSet(Delivered(messages)), [Next]_vars
  PROVE  /\ IsFiniteSet(Delivered(messages)')
         /\ Delivered(messages) \subseteq Delivered(messages)'
<1>0. TypeOK
  BY DEF TInv
<1>1. PICK D : D = Delivered(messages)
  OBVIOUS
<1>2. PICK E : E = Delivered(messages)'
  OBVIOUS
<1>3. D \subseteq E
  BY <1>1, <1>2, PublishedKept DEF Delivered
<1>4. ASSUME NEW m \in Message, Appears(m)
      PROVE  E \subseteq D \cup {m}
  BY <1>1, <1>2, <1>4, AppearsUnclaimed DEF Delivered
<1>5. ASSUME NEW m \in Message, NEW i \in Member, NEW at \in Nat, Claim(m, i, at)
      PROVE  E \subseteq D \cup {m}
  BY <1>1, <1>2, <1>5, ClaimChanges DEF Delivered
<1>6. ASSUME NEW m \in Message, NEW i \in Member, NEW at \in Nat, Acknowledge(m, i, at)
      PROVE  E \subseteq D \cup {m}
  BY <1>1, <1>2, <1>6, AcknowledgeChanges DEF Delivered
<1>7. UNCHANGED messages => E \subseteq D
  BY <1>1, <1>2 DEF Delivered
<1>8. PublishCopy => current.copy \in Message
  BY <1>0, CopyTyped DEF TypeOK, PublishCopy
<1>9. E \subseteq D \/ \E m \in Message : E \subseteq D \cup {m}
  BY <1>0, <1>4, <1>5, <1>6, <1>7, <1>8, MessageSteps, PublishAppears, CopyAppears
<1>10. PICK m : E \subseteq D \cup {m}
  BY <1>9
<1>11. IsFiniteSet(D \cup {m})
  BY <1>1, FS_AddElement
<1>12. IsFiniteSet(E)
  BY <1>10, <1>11, FS_Subset
<1> QED
  BY <1>1, <1>2, <1>3, <1>12

LEMMA QueuesClaimedKept ==
  ASSUME TInv, QueuesClaimed, [Next]_vars
  PROVE  QueuesClaimed'
<1>0. TypeOK /\ messages \in [Message -> MessageState]
  BY DEF TInv, TypeOK
<1>1. CASE UNCHANGED messages
  BY <1>1 DEF QueuesClaimed
<1>2. ASSUME NEW m \in Message, Appears(m)
      PROVE  QueuesClaimed'
  <2>1. PICK i \in Member, t \in Nat, e \in Nat :
          messages' = [messages EXCEPT ![m] = NewMessage(ChannelOf(m), i, t, e)]
    BY <1>2 DEF Appears
  <2> DEFINE r == NewMessage(ChannelOf(m), i, t, e)
  <2>2. r.token = 0 /\ messages' = [messages EXCEPT ![m] = r]
    BY <2>1, NewMessageTyped
  <2> HIDE DEF r
  <2>3. messages'[m].token = 0
    BY <1>0, <2>2
  <2> QED
    BY <1>2, <2>3, AppearsUnclaimed DEF QueuesClaimed
<1>3. ASSUME NEW m \in Message, NEW i \in Member, NEW at \in Nat, Claim(m, i, at)
      PROVE  QueuesClaimed'
  <2>1. Mode[ChannelOf(m)] = "queue"
    BY <1>3 DEF Claim
  <2> QED
    BY <1>3, <2>1, ClaimChanges DEF QueuesClaimed
<1>4. ASSUME NEW m \in Message, NEW i \in Member, NEW at \in Nat, Acknowledge(m, i, at)
      PROVE  QueuesClaimed'
  BY <1>4, AcknowledgeChanges DEF QueuesClaimed
<1>5. PublishCopy => current.copy \in Message
  BY <1>0, CopyTyped DEF TypeOK, PublishCopy
<1> QED
  BY <1>0, <1>1, <1>2, <1>3, <1>4, <1>5, MessageSteps, PublishAppears, CopyAppears

LEMMA BoundKept ==
  ASSUME TInv, CapacityInv, [Next]_vars
  PROVE  BoundedAlways'
<1>0. /\ TypeOK /\ messages \in [Message -> MessageState]
      /\ IsFiniteSet(Delivered(messages)')
      /\ Delivered(messages) \subseteq Delivered(messages)'
  BY DeliveredKept DEF TInv, TypeOK, CapacityInv
<1>1. CASE UNCHANGED messages
  <2>1. \A c \in Channel, t \in Nat : Unserved(c, t)' \subseteq Unserved(c, t)
    BY <1>1 DEF Unserved, Delivered
  <2> QED
    BY <1>0, <2>1, NothingMore
<1>2. ASSUME NEW m \in Message, NEW i \in Member, NEW at \in Nat, Publish(m, i, at)
      PROVE  BoundedAlways'
  <2> DEFINE e == IF Life[m.origin] = 0 THEN 0 ELSE at + Life[m.origin]
  <2>1. e \in Nat
    BY OriginAssumption DEF Message
  <2>2. AppearsDated(m, at)
    BY <1>2, <2>1 DEF Publish, AppearsDated
  <2>3. PICK page \in MessagePages(messages) : HasRoom(page, ChannelOf(m), at)
    BY <1>2 DEF Publish
  <2> QED
    BY <1>0, <2>2, <2>3, OneMore
<1>3. CASE PublishCopy
  <2> DEFINE x == current.copy
             at == forwarding[x].createdAt
             e == messages[SourceOf(x)].expiresAt
  <2>1. x \in Copy /\ x \in Message
    BY <1>0, <1>3, CopyTyped DEF TypeOK, PublishCopy
  <2>2. ChannelOf(x) = To[WireOf(x)] /\ Publisher[WireOf(x)] \in Member
    BY <2>1, CopyTyped, WireAssumption DEF ChannelOf, Copy
  <2>3. at \in Nat /\ e \in Nat
    BY <1>0, <2>1, SourceTyped DEF TypeOK, ForwardingState, MessageState
  <2>4. PICK page \in MessagePages(messages) : HasRoom(page, ChannelOf(x), at)
    BY <1>3, <2>2 DEF PublishCopy, Copies, Accepts
  <2>5. CASE messages[x].published
    BY <1>1, <1>3, <2>5 DEF PublishCopy, Stored
  <2>6. CASE ~messages[x].published
    <3>1. AppearsDated(x, at)
      BY <1>3, <2>2, <2>3, <2>6 DEF PublishCopy, Stored, AppearsDated
    <3> HIDE DEF x, at
    <3> QED
      BY <1>0, <2>1, <2>3, <2>4, <3>1, OneMore
  <2> QED
    BY <2>5, <2>6
<1>4. ASSUME NEW m \in Message, NEW i \in Member, NEW at \in Nat, Claim(m, i, at)
      PROVE  BoundedAlways'
  <2>0. messages[m].token \in Nat /\ messages'[m].token = messages[m].token + 1
    BY <1>0, <1>4, ClaimChanges DEF MessageState
  <2>1. Mode[ChannelOf(m)] = "queue"
    BY <1>4 DEF Claim
  <2>2. messages'[m].token # 0
    BY <2>0
  <2>3. \A n \in Message : n # m => messages'[n] = messages[n]
    BY <1>4, ClaimChanges
  <2>4. \A c \in Channel, t \in Nat : Unserved(c, t)' \subseteq Unserved(c, t)
    BY <2>1, <2>2, <2>3 DEF Unserved, Delivered
  <2> QED
    BY <1>0, <2>4, NothingMore
<1>5. ASSUME NEW m \in Message, NEW i \in Member, NEW at \in Nat, Acknowledge(m, i, at)
      PROVE  BoundedAlways'
  <2> DEFINE r == Acknowledged(messages[m], ChannelOf(m), i, at)
  <2>1. /\ messages'[m] = r
        /\ \A n \in Message : n # m => messages'[n] = messages[n]
    BY <1>0, <1>5 DEF Acknowledge
  <2>2. /\ \A u : Waiting(r, u) => Waiting(messages[m], u)
        /\ r.published = messages[m].published /\ r.token = messages[m].token
        /\ r.publishedAt = messages[m].publishedAt
    <3>1. messages[m] \in MessageState /\ messages[m].received \subseteq messages[m].recipients
      BY <1>0 DEF TypeOK
    <3>2. /\ r.published = messages[m].published /\ r.token = messages[m].token
          /\ messages[m].acknowledged => r.acknowledged
      BY <3>1, AcknowledgedTyped
    <3>3. /\ r.claimedUntil = messages[m].claimedUntil /\ r.expiresAt = messages[m].expiresAt
          /\ r.publishedAt = messages[m].publishedAt
      BY <3>1 DEF Acknowledged, MessageState
    <3> HIDE DEF r
    <3>4. \A u : Waiting(r, u) => Waiting(messages[m], u)
      BY <3>2, <3>3 DEF Waiting, Claimed
    <3> QED
      BY <3>2, <3>3, <3>4
  <2> HIDE DEF r
  <2>3. \A c \in Channel, t \in Nat : Unserved(c, t)' \subseteq Unserved(c, t)
    BY <2>1, <2>2 DEF Unserved, Delivered
  <2> QED
    BY <1>0, <2>3, NothingMore
<1> QED
  BY <1>1, <1>2, <1>3, <1>4, <1>5, MessageSteps

(* While the messages ever published fit on one page of listPending, no    *)
(* channel holds more waiting messages than its capacity (in a queue, more *)
(* that were never claimed), whatever time one counts at and whatever      *)
(* dates the callers give: not through copies that are published late,     *)
(* when their forwarding is tried again, either.                           *)
THEOREM CapacityHolds == Spec => []MailboxesBounded
<1>1. Init => TInv /\ CapacityInv
  <2> SUFFICES ASSUME Init PROVE CapacityInv
    BY TypeInit
  <2>1. \A m \in Message : ~messages[m].published /\ messages[m].token = 0
    BY UnpublishedTyped DEF Init
  <2>2. Delivered(messages) = {} /\ QueuesClaimed
    BY <2>1 DEF Delivered, QueuesClaimed
  <2>3. \A c \in Channel, t \in Nat : Unserved(c, t) = {}
    BY <2>2 DEF Unserved
  <2>4. \A c \in Channel : 0 <= Capacity[c]
    BY ChannelAssumption
  <2>5. BoundedAlways
    BY <2>3, <2>4, FS_EmptySet DEF BoundedAlways
  <2> QED
    BY <2>2, <2>5, FS_EmptySet DEF CapacityInv
<1>2. TInv /\ CapacityInv /\ [Next]_vars => TInv' /\ CapacityInv'
  <2> SUFFICES ASSUME TInv, CapacityInv, [Next]_vars
               PROVE  CapacityInv'
    BY TypeStep
  <2>1. IsFiniteSet(Delivered(messages)) /\ QueuesClaimed
    BY DEF CapacityInv
  <2> QED
    BY <2>1, DeliveredKept, QueuesClaimedKept, BoundKept DEF CapacityInv
<1>3. CapacityInv => MailboxesBounded
  <2>1. \A t \in 0..MaxTime : t \in Nat
    BY BoundsAssumption
  <2> QED
    BY <2>1 DEF CapacityInv, BoundedAlways, MailboxesBounded
<1> QED
  BY <1>1, <1>2, <1>3, PTL DEF Spec
=============================================================================
