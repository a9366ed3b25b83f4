---------------------------- MODULE SerialStore ----------------------------
(***************************************************************************)
(* What the event store promises to the callers of mutateResourcesBatch:   *)
(* batches take effect one at a time and each at one instant, as if its    *)
(* commands were carried out one after the other on the rows of that       *)
(* instant; a key is used once; and whoever sends a batch again is told    *)
(* what it wrote the first time.  There are no transactions here, nothing  *)
(* fails half way, and a crash is a batch whose caller is not answered.    *)
(***************************************************************************)
EXTENDS Naturals, Sequences

CONSTANTS Res, Key, Client, None

VARIABLES
  rows,  \* resource -> its row, or None
  log,   \* key -> the command it was used for and the row that wrote, or None
  sent,  \* client -> the batch it wants to be carried out, or <<>>
  got    \* client -> the rows it was told, or <<>>

serialVars == <<rows, log, sent, got>>

Init ==
  /\ rows = [r \in Res |-> None]
  /\ log = [k \in Key |-> None]
  /\ sent = [c \in Client |-> <<>>]
  /\ got = [c \in Client |-> <<>>]

(* Command x turns the row old into the row new.                           *)
Writes(x, old, new) ==
  /\ new.updatedAt = x.at
  /\ new.deleted = (x.op = "delete")
  /\ \/ /\ x.op = "create" /\ old = None
        /\ new.revision = 0 /\ new.createdAt = x.at /\ new.state = x.state
     \/ /\ x.op # "create" /\ old # None /\ ~old.deleted
        /\ old.revision = x.expected /\ old.updatedAt <= x.at
        /\ new.revision = old.revision + 1 /\ new.createdAt = old.createdAt
        /\ new.state = IF x.op = "delete" THEN old.state ELSE x.state

(* The last of the first n commands of b that writes r.                    *)
LastOn(b, n, r) ==
  {j \in 1..n : b[j].res = r /\ \A k \in (j + 1)..n : b[k].res # r}

(* The row of r once the first n commands of b have written on rs what lg  *)
(* says.                                                                   *)
RowAfter(rs, lg, b, n, r) ==
  IF \A k \in 1..n : b[k].res # r
  THEN {rs[r]}
  ELSE {lg[b[j].key].result : j \in LastOn(b, n, r)}

(* lg says what they write if they are carried out on rs, one after the    *)
(* other.                                                                  *)
CarriedOut(rs, lg, b, n) ==
  \A i \in 1..n : \E v \in RowAfter(rs, lg, b, i - 1, b[i].res) :
    Writes(b[i], v, lg[b[i].key].result)

Told(c) == [got EXCEPT ![c] = [i \in DOMAIN sent[c] |-> log'[sent[c][i].key].result]]

Send(c) ==
  /\ sent[c] = <<>>
  /\ sent' = [sent EXCEPT ![c] = sent'[c]]
  /\ UNCHANGED <<rows, log, got>>

(* The caller may never learn of it.                                       *)
Perform(c) ==
  LET b == sent[c]
  IN  /\ b # <<>> /\ got[c] = <<>>
      /\ \A i \in DOMAIN b :
           LET k == b[i].key IN log[k] = None /\ log'[k] # None /\ log'[k].command = b[i]
      /\ CarriedOut(rows, log', b, Len(b))
      /\ DOMAIN rows' = Res
      /\ \A r \in Res : rows'[r] \in RowAfter(rows, log', b, Len(b), r)
      /\ DOMAIN log' = Key
      /\ \A k \in Key : (\A i \in DOMAIN b : b[i].key # k) => log'[k] = log[k]
      /\ got' \in {got, Told(c)}
      /\ UNCHANGED sent

Same(x, y) ==
  /\ x.op = y.op /\ x.res = y.res /\ x.key = y.key
  /\ x.expected = y.expected /\ x.state = y.state /\ x.at = y.at

Repeat(c) ==
  /\ sent[c] # <<>> /\ got[c] = <<>>
  /\ \A i \in DOMAIN sent[c] :
       LET k == sent[c][i].key IN log[k] # None /\ Same(sent[c][i], log[k].command)
  /\ got' = Told(c)
  /\ UNCHANGED <<rows, log, sent>>

Drop(c) ==
  /\ sent' = [sent EXCEPT ![c] = <<>>]
  /\ got' = [got EXCEPT ![c] = <<>>]
  /\ UNCHANGED <<rows, log>>

Next == \E c \in Client : Send(c) \/ Perform(c) \/ Repeat(c) \/ Drop(c)

Spec == Init /\ [][Next]_serialVars
=============================================================================
