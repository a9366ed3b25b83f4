------------------------------ MODULE StoreSwap ------------------------------
(***************************************************************************)
(* What restoring a backup promises about an event store: while a restore  *)
(* is pending nobody opens the store, and in the end it is what it was or  *)
(* the backup, and nothing else; a restore that reported success has put   *)
(* the backup in place; and what is written afterwards stays.              *)
(***************************************************************************)
CONSTANTS Content, Backup, None

VARIABLES
  store,    \* the content of the store, or None when there is no store
  pending,  \* a restore is not settled
  open,     \* the store was opened, and not closed since
  answer    \* the last restore reported success

swapVars == <<store, pending, open, answer>>

Init ==
  /\ store \in Content \cup {None}
  /\ ~pending /\ ~open /\ ~answer

Open ==
  /\ ~pending /\ ~open
  /\ open'
  /\ IF store = None THEN store' \in Content ELSE store' = store
  /\ UNCHANGED <<pending, answer>>

Write ==
  /\ open
  /\ store' \in Content
  /\ UNCHANGED <<pending, open, answer>>

Close ==
  /\ open
  /\ ~open' /\ ~answer'
  /\ UNCHANGED <<store, pending>>

Begin ==
  /\ ~open /\ ~pending
  /\ pending'
  /\ UNCHANGED <<store, open, answer>>

Settle ==
  /\ pending
  /\ store' \in {store, Backup}
  /\ ~pending' /\ ~answer'
  /\ UNCHANGED open

Report ==
  /\ ~pending /\ store = Backup
  /\ answer'
  /\ UNCHANGED <<store, pending, open>>

Forget == ~answer' /\ UNCHANGED <<store, pending, open>>

Next == Open \/ Write \/ Close \/ Begin \/ Settle \/ Report \/ Forget

Spec == Init /\ [][Next]_swapVars
=============================================================================
