------------------------------ MODULE Restores ------------------------------
(***************************************************************************)
(* Restoring a backup into an event store (restoreEventStoreBackup,        *)
(* recoverEventStoreRestore) and opening the store (the constructor of     *)
(* MagicAgentEventStore), one step of the file system at a time, with      *)
(* steps that fail, processes that die and power that is lost.             *)
(*                                                                         *)
(* A file is an inode and the names that are linked to it.  After a loss   *)
(* of power the directory is what it was at some time since the last       *)
(* fsyncDirectory: file systems are taken to keep the order of changes to  *)
(* a directory, and fsync to do what it promises.  SQLite writes with      *)
(* synchronous = NORMAL: until the store is closed a loss of power may     *)
(* take its last transactions.                                             *)
(*                                                                         *)
(* The write lock of the store is taken to exclude: one process restores,  *)
(* recovers or opens at a time, whoever it is.  To take it and to give it  *)
(* back fsyncs the directory, which the lock's own files are in.  Those    *)
(* who have the store open together count as one.  Nobody else touches the *)
(* files, and the backup stays as it is.                                   *)
(*                                                                         *)
(* The stage in the journal is left out: no program reads it.  A file      *)
(* written but not yet linked (the journal's) is left out too.             *)
(***************************************************************************)
EXTENDS Naturals

CONSTANTS
  Name,       \* names in the directory, except the journal's
  Target,     \* the name of the store
  Rollback,   \* names for the store that is replaced
  MaxInode,   \* bound: files made
  Partial,    \* inode -> the name a copy of the backup is made under
  Backup,     \* the content of the backup
  Torn,       \* the content of a copy that was not fsynced, after a loss of power
  MaxWrites,  \* bound: writes to the store
  MaxFaults,  \* bound: steps that fail
  MaxCrashes, \* bound: deaths and losses of power
  None

Inode == 0..MaxInode

Content == Nat \cup {Backup, Torn}

ASSUME NameAssumption ==
  /\ Target \in Name /\ Rollback \subseteq Name \ {Target}
  /\ Partial \in [Inode -> Name \ ({Target} \cup Rollback)]
  /\ \A i, j \in Inode : Partial[i] = Partial[j] => i = j
ASSUME ContentAssumption ==
  Backup \notin Nat /\ Torn \notin Nat \cup {Backup} /\ None \notin Nat \cup {Backup, Torn}
ASSUME BoundsAssumption ==
  MaxInode \in Nat /\ MaxWrites \in Nat /\ MaxFaults \in Nat /\ MaxCrashes \in Nat

(* The journal of a restore: the inodes of the copy and of the store it    *)
(* replaces, None when there was none, and the name kept for that one.     *)
Journal == [copy : Inode, old : Inode \cup {None}, rollback : Rollback]

ASSUME NoneAssumption == None \notin Journal

Directory ==
  [files : [Name -> Inode \cup {None}], journal : Journal \cup {None}, sidecars : BOOLEAN]

VARIABLES
  seen,        \* the directory
  disk,        \* the directories that a loss of power may leave
  content,     \* inode -> content
  onDisk,      \* inode -> the contents that a loss of power may leave
  fresh,       \* the next inode
  open,        \* a process has the store open
  pc,          \* the next step of the call under way, "idle" when there is none
  toSync,      \* the directory is to be fsynced before it
  call,        \* the call: the name for the replaced store, the copy it made,
               \* and what follows its recovery
  recovering,  \* it is recovering a restore
  result,      \* of the last call
  writes, faults, crashes

callVars == <<pc, toSync, call, recovering, result>>
fileVars == <<content, onDisk, fresh, writes>>
vars == <<seen, disk, fileVars, open, callVars, faults, crashes>>

Call == [rollback : Rollback \cup {None}, copy : Inode \cup {None},
         after : {"copy", "fail", "return"}]

Step == {"copy", "prepare", "writeJournal", "linkRollback", "unlinkTarget", "linkTarget",
         "verify", "cleanUp", "inspect", "undo", "putBack", "dropPartial", "dropJournal", "end"}

Init ==
  /\ \E i \in {0, None} :
       seen = [files |-> [n \in Name |-> IF n = Target THEN i ELSE None],
               journal |-> None, sidecars |-> FALSE]
  /\ disk = {seen}
  /\ content = [i \in Inode |-> 0] /\ onDisk = [i \in Inode |-> {0}]
  /\ fresh = 1 /\ open = FALSE
  /\ pc = "idle" /\ toSync = FALSE /\ recovering = FALSE /\ result = "none"
  /\ call = [rollback |-> None, copy |-> None, after |-> "return"]
  /\ writes = 0 /\ faults = 0 /\ crashes = 0

(* The directory changes, and it is fsynced.                               *)
Becomes(d) == seen' = d /\ disk' = disk \cup {d}

Synced(d) == seen' = d /\ disk' = {d}

(* A file is written, and with fsync.                                      *)
Wrote(i, c) ==
  /\ content' = [content EXCEPT ![i] = c]
  /\ onDisk' = [onDisk EXCEPT ![i] = @ \cup {c}]

WroteThrough(i, c) ==
  /\ content' = [content EXCEPT ![i] = c]
  /\ onDisk' = [onDisk EXCEPT ![i] = {c}]

-----------------------------------------------------------------------------
(* The store.                                                              *)

(* Mutant of Lock: the directory is not fsynced.                           *)
LockUnsynced ==
  /\ pc = "idle" /\ ~open
  /\ pc' = "locked"
  /\ result' = "none"
  /\ UNCHANGED <<seen, disk, fileVars, open, toSync, call, recovering, faults, crashes>>

(* A process takes the write lock, to open, restore or recover.            *)
Lock ==
  /\ pc = "idle" /\ ~open
  /\ Synced(seen)
  /\ pc' = "locked"
  /\ result' = "none"
  /\ UNCHANGED <<fileVars, open, toSync, call, recovering, faults, crashes>>

(* The store that is there is opened; with a journal it is not.            *)
Open ==
  LET opens == seen.journal = None
  IN  /\ pc = "locked"
      /\ seen.files[Target] # None \/ ~opens
      /\ open' = opens
      /\ Synced([seen EXCEPT !.sidecars = @ \/ opens])
      /\ pc' = "idle"
      /\ UNCHANGED <<fileVars, toSync, call, recovering, result, faults, crashes>>

(* The store that is not there is made.                                    *)
Create ==
  /\ pc = "locked"
  /\ seen.journal = None /\ seen.files[Target] = None
  /\ fresh <= MaxInode /\ writes < MaxWrites
  /\ Synced([seen EXCEPT !.files[Target] = fresh, !.sidecars = TRUE])
  /\ WroteThrough(fresh, writes + 1)
  /\ fresh' = fresh + 1 /\ writes' = writes + 1
  /\ open' = TRUE
  /\ pc' = "idle"
  /\ UNCHANGED <<toSync, call, recovering, result, faults, crashes>>

(* A transaction of SQLite; its write-ahead log counts as the file's.      *)
Write ==
  /\ open /\ writes < MaxWrites
  /\ Wrote(seen.files[Target], writes + 1)
  /\ writes' = writes + 1
  /\ UNCHANGED <<seen, disk, fresh, open, callVars, faults, crashes>>

(* The last connection writes the log back and takes it away.              *)
Close ==
  LET i == seen.files[Target]
  IN  /\ open
      /\ open' = FALSE
      /\ WroteThrough(i, content[i])
      /\ Becomes([seen EXCEPT !.sidecars = FALSE])
      /\ UNCHANGED <<fresh, writes, callVars, faults, crashes>>

-----------------------------------------------------------------------------
(* Calls.                                                                  *)

CallRestore(r) ==
  /\ pc = "locked" /\ fresh <= MaxInode
  /\ pc' = IF seen.journal = None THEN "copy" ELSE "inspect"
  /\ recovering' = (seen.journal # None)
  /\ call' = [rollback |-> r, copy |-> None, after |-> "copy"]
  /\ UNCHANGED <<seen, disk, fileVars, open, toSync, result, faults, crashes>>

CallRecover ==
  /\ pc = "locked"
  /\ pc' = "inspect"
  /\ recovering' = TRUE
  /\ call' = [rollback |-> None, copy |-> None, after |-> "return"]
  /\ UNCHANGED <<seen, disk, fileVars, open, toSync, result, faults, crashes>>

(* The lock is given back.                                                 *)
Return ==
  /\ pc = "release"
  /\ Synced(seen)
  /\ pc' = "idle"
  /\ UNCHANGED <<fileVars, open, toSync, call, recovering, result, faults, crashes>>

At(s) == pc = s /\ ~toSync

EndWith(r) ==
  /\ pc' = "release" /\ toSync' = FALSE
  /\ result' = r
  /\ UNCHANGED <<call, recovering>>

(* A step throws: a restore comes to its catch block, a recovery and the   *)
(* catch block end the call.                                               *)
Fail ==
  IF recovering \/ pc = "cleanUp" THEN EndWith("failed")
  ELSE /\ pc' = "cleanUp" /\ toSync' = FALSE
       /\ UNCHANGED <<call, recovering, result>>

(* The step that links, unlinks or writes the journal: files and journal   *)
(* are what it leaves, provided that ok, or else it throws.                *)
Changes(ok, files, journal, sync, next) ==
  /\ IF ok THEN /\ Becomes([seen EXCEPT !.files = files, !.journal = journal])
                /\ pc' = next /\ toSync' = sync
                /\ UNCHANGED <<call, recovering, result>>
     ELSE Fail /\ UNCHANGED <<seen, disk>>
  /\ UNCHANGED <<fileVars, open, faults, crashes>>

SyncDirectory ==
  /\ pc \in Step /\ toSync
  /\ Synced(seen)
  /\ toSync' = FALSE
  /\ UNCHANGED <<fileVars, open, pc, call, recovering, result, faults, crashes>>

Valid(i) == content[i] = Backup

-----------------------------------------------------------------------------
(* restoreEventStoreBackupLocked.                                          *)

(* The file is a copy of the backup.                                       *)
Copied(i) ==
  /\ content' = [content EXCEPT ![i] = Backup]
  /\ onDisk' = [onDisk EXCEPT ![i] = {Torn, Backup}]

(* Mutant of Copy: a store that was not closed is not noticed.             *)
CopyOverSidecars ==
  /\ At("copy")
  /\ Becomes([seen EXCEPT !.files[Partial[fresh]] = fresh])
  /\ Copied(fresh)
  /\ fresh' = fresh + 1
  /\ call' = [call EXCEPT !.copy = fresh]
  /\ pc' = "prepare"
  /\ UNCHANGED <<open, toSync, recovering, result, writes, faults, crashes>>

(* The backup is copied, unless the store was not closed.                  *)
Copy ==
  /\ At("copy")
  /\ IF seen.sidecars
     THEN Fail /\ UNCHANGED <<seen, disk, content, onDisk, fresh>>
     ELSE /\ Becomes([seen EXCEPT !.files[Partial[fresh]] = fresh])
          /\ Copied(fresh)
          /\ fresh' = fresh + 1
          /\ call' = [call EXCEPT !.copy = fresh]
          /\ pc' = "prepare"
          /\ UNCHANGED <<toSync, recovering, result>>
  /\ UNCHANGED <<open, writes, faults, crashes>>

(* Mutant of Prepare: a file under that name is not noticed.               *)
PrepareOverRollback ==
  /\ At("prepare")
  /\ WroteThrough(call.copy, content[call.copy])
  /\ IF Valid(call.copy)
     THEN pc' = "writeJournal" /\ UNCHANGED <<toSync, call, recovering, result>>
     ELSE Fail
  /\ UNCHANGED <<seen, disk, fresh, open, writes, faults, crashes>>

(* The copy is fsynced and checked; a file under the name for the replaced *)
(* store is not overwritten.                                               *)
Prepare ==
  /\ At("prepare")
  /\ WroteThrough(call.copy, content[call.copy])
  /\ IF Valid(call.copy) /\ seen.files[call.rollback] = None
     THEN pc' = "writeJournal" /\ UNCHANGED <<toSync, call, recovering, result>>
     ELSE Fail
  /\ UNCHANGED <<seen, disk, fresh, open, writes, faults, crashes>>

(* From here on the copy is the journal's.                                 *)
WriteJournal ==
  LET old == seen.files[Target]
  IN  /\ At("writeJournal")
      /\ Becomes([seen EXCEPT !.journal =
           [copy |-> call.copy, old |-> old, rollback |-> call.rollback]])
      /\ pc' = IF old # None THEN "linkRollback" ELSE "linkTarget"
      /\ toSync' = TRUE
      /\ call' = [call EXCEPT !.copy = None]
      /\ UNCHANGED <<fileVars, open, recovering, result, faults, crashes>>

LinkRollback ==
  LET j == seen.journal
  IN  /\ At("linkRollback")
      /\ Changes(seen.files[Target] = j.old /\ seen.files[j.rollback] = None,
                 [seen.files EXCEPT ![j.rollback] = j.old], j, TRUE, "unlinkTarget")

UnlinkTarget ==
  LET j == seen.journal
  IN  /\ At("unlinkTarget")
      /\ Changes(seen.files[Target] \in {None, j.old},
                 [seen.files EXCEPT ![Target] = None], j, TRUE, "linkTarget")

LinkTarget ==
  LET j == seen.journal
  IN  /\ At("linkTarget")
      /\ Changes(seen.files[Target] = None /\ seen.files[Partial[j.copy]] = j.copy,
                 [seen.files EXCEPT ![Target] = j.copy], j, TRUE, "verify")

Verify ==
  /\ At("verify")
  /\ Changes(Valid(seen.journal.copy) /\ ~seen.sidecars, seen.files, seen.journal, FALSE,
             "dropPartial")

(* The last steps of a restore and of a recovery.                          *)
DropPartial ==
  LET j == seen.journal
  IN  /\ At("dropPartial")
      /\ Changes(seen.files[Partial[j.copy]] \in {None, j.copy},
                 [seen.files EXCEPT ![Partial[j.copy]] = None], j, FALSE, "dropJournal")

DropJournal ==
  /\ At("dropJournal")
  /\ Changes(TRUE, seen.files, None, TRUE, "end")

(* Mutant of CleanUp: it does not look for the journal.                    *)
CleanUpBlindly ==
  /\ At("cleanUp")
  /\ pc' = "dropPartial"
  /\ recovering' = TRUE
  /\ call' = [call EXCEPT !.after = "fail"]
  /\ UNCHANGED <<seen, disk, fileVars, open, toSync, result, faults, crashes>>

(* The catch block: a copy without a journal is removed, and what the      *)
(* journal tells of is recovered.                                          *)
CleanUp ==
  LET orphan == call.copy # None /\ seen.journal = None
  IN  /\ At("cleanUp")
      /\ Becomes(IF orphan THEN [seen EXCEPT !.files[Partial[call.copy]] = None] ELSE seen)
      /\ toSync' = orphan
      /\ pc' = "inspect"
      /\ recovering' = TRUE
      /\ call' = [call EXCEPT !.after = "fail"]
      /\ UNCHANGED <<fileVars, open, result, faults, crashes>>

-----------------------------------------------------------------------------
(* recoverEventStoreRestoreLocked.                                         *)

(* What the files must be for a recovery to go ahead by itself.            *)
Recoverable(d) ==
  LET j == d.journal
  IN  /\ ~d.sidecars
      /\ d.files[Target] \in {None, j.old, j.copy}
      /\ d.files[Partial[j.copy]] \in {None, j.copy}
      /\ j.old # None =>
           /\ d.files[j.rollback] \in {None, j.old}
           /\ d.files[Target] = j.old \/ d.files[j.rollback] = j.old

(* What follows a recovery that found nothing to do or did it.             *)
Recovered ==
  IF call.after = "copy"
  THEN /\ pc' = "copy" /\ recovering' = FALSE
       /\ UNCHANGED <<toSync, call, result>>
  ELSE EndWith(IF call.after = "fail" THEN "failed" ELSE "recovered")

(* The replaced store, or a valid copy, at its name is left there.         *)
Inspect ==
  LET j == seen.journal
      i == seen.files[Target]
  IN  /\ At("inspect")
      /\ IF j = None THEN Recovered
         ELSE IF ~Recoverable(seen) THEN EndWith("failed")
         ELSE /\ pc' = IF i = None THEN IF j.old = None THEN "dropPartial" ELSE "putBack"
                       ELSE IF i = j.copy /\ ~Valid(i) THEN "undo" ELSE "dropPartial"
              /\ UNCHANGED <<toSync, call, recovering, result>>
      /\ UNCHANGED <<seen, disk, fileVars, open, faults, crashes>>

(* The check of a copy fails, for whatever reason: that counts as invalid. *)
Doubt ==
  /\ At("inspect") /\ faults < MaxFaults
  /\ seen.journal # None /\ Recoverable(seen)
  /\ seen.files[Target] = seen.journal.copy
  /\ pc' = "undo"
  /\ faults' = faults + 1
  /\ UNCHANGED <<seen, disk, fileVars, open, toSync, call, recovering, result, crashes>>

Undo ==
  LET j == seen.journal
  IN  /\ At("undo")
      /\ Changes(seen.files[Target] \in {None, j.copy}, [seen.files EXCEPT ![Target] = None], j,
                 TRUE, IF j.old = None THEN "dropPartial" ELSE "putBack")

PutBack ==
  LET j == seen.journal
  IN  /\ At("putBack")
      /\ Changes(seen.files[j.rollback] = j.old /\ seen.files[Target] = None,
                 [seen.files EXCEPT ![Target] = j.old], j, TRUE, "dropPartial")

End ==
  /\ At("end")
  /\ IF recovering THEN Recovered ELSE EndWith("restored")
  /\ UNCHANGED <<seen, disk, fileVars, open, faults, crashes>>

-----------------------------------------------------------------------------
(* Faults.                                                                 *)

Throw ==
  /\ pc \in Step /\ faults < MaxFaults
  /\ ~(At("end") /\ recovering)
  /\ Fail
  /\ faults' = faults + 1
  /\ UNCHANGED <<seen, disk, fileVars, open, crashes>>

Dies ==
  /\ crashes < MaxCrashes
  /\ crashes' = crashes + 1
  /\ open' = FALSE
  /\ pc' = "idle" /\ toSync' = FALSE /\ recovering' = FALSE /\ result' = "none"
  /\ call' = [rollback |-> None, copy |-> None, after |-> "return"]
  /\ UNCHANGED <<fresh, writes, faults>>

Kill ==
  /\ pc # "idle" \/ open
  /\ Dies
  /\ UNCHANGED <<seen, disk, content, onDisk>>

PowerLoss ==
  /\ \E d \in disk : Synced(d)
  /\ \E c \in [Inode -> UNION {onDisk[i] : i \in Inode}] :
       /\ \A i \in Inode : c[i] \in onDisk[i]
       /\ content' = c
  /\ onDisk' = [i \in Inode |-> {content'[i]}]
  /\ Dies

Next ==
  \/ Lock \/ Open \/ Create \/ Write \/ Close
  \/ \E r \in Rollback : CallRestore(r)
  \/ CallRecover \/ Return \/ SyncDirectory
  \/ Copy \/ Prepare \/ WriteJournal \/ LinkRollback \/ UnlinkTarget \/ LinkTarget
  \/ Verify \/ DropPartial \/ DropJournal \/ CleanUp
  \/ Inspect \/ Doubt \/ Undo \/ PutBack \/ End
  \/ Throw \/ Kill \/ PowerLoss

Spec == Init /\ [][Next]_vars

-----------------------------------------------------------------------------
(* Every variable has its type; nothing is open during a call or before a  *)
(* journal; and the steps that need the journal have it.                   *)
TypeOK ==
  /\ seen \in disk /\ disk \in SUBSET Directory
  /\ content \in [Inode -> Content]
  /\ onDisk \in [Inode -> SUBSET Content]
  /\ \A i \in Inode : content[i] \in onDisk[i]
  /\ fresh \in 1..MaxInode + 1
  /\ open \in BOOLEAN
  /\ open => pc = "idle" /\ seen.journal = None /\ seen.files[Target] # None
  /\ pc \in Step \cup {"idle", "locked", "release"}
  /\ toSync \in BOOLEAN /\ recovering \in BOOLEAN
  /\ call \in Call
  /\ pc \in {"linkRollback", "unlinkTarget", "linkTarget", "verify", "undo", "putBack",
             "dropPartial", "dropJournal"} => seen.journal # None
  /\ result \in {"none", "restored", "recovered", "failed"}
  /\ writes \in Nat /\ faults \in Nat /\ crashes \in Nat

(* Whatever steps fail, and wherever a process dies or the power is lost:  *)
(* a journal that is left can be recovered without help.  The errors that  *)
(* ask for it are for files that somebody else touched.                    *)
RecoversUnaided == seen.journal # None => Recoverable(seen)

(* As long as a restore is not settled, the store it replaces is under its *)
(* own name or the one it is kept under, and its content is what it was,   *)
(* whatever a loss of power leaves.                                        *)
OldStoreKept ==
  \A d \in disk :
    d.journal # None /\ d.journal.old # None =>
      /\ \E n \in {Target, d.journal.rollback} : d.files[n] = d.journal.old
      /\ onDisk[d.journal.old] = {content[d.journal.old]}

-----------------------------------------------------------------------------
(* A restore is pending as long as its journal is there or may come back.  *)
Journals == {d.journal : d \in disk} \ {None}

Pending == Journals # {}

Unsettled == CHOOSE j \in Journals : TRUE

Store ==
  LET i == IF Pending THEN Unsettled.old ELSE seen.files[Target]
  IN  IF i = None THEN None ELSE content[i]

Swap == INSTANCE StoreSwap WITH
  Content <- Content,
  store <- Store,
  pending <- Pending,
  open <- open \/ seen.sidecars,
  answer <- (pc = "idle" /\ result = "restored")

(* Restores, recoveries and openings of the store keep to StoreSwap: it is *)
(* not opened while it is undecided what it is; it ends up as the store it *)
(* was or as the backup; success is reported when it is the backup for     *)
(* good; and no late recovery takes back what was written since.           *)
KeepsSwap == Swap!Spec
=============================================================================
