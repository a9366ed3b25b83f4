---------------------------- MODULE RestoresProofs ----------------------------
(***************************************************************************)
(* Proofs about Restores.  The invariant says what every directory that a  *)
(* loss of power may leave has in common with the one the process sees,    *)
(* and what the next step relies on.                                       *)
(***************************************************************************)
EXTENDS Restores, TLAPS

(* No loss of power changes the content.                                   *)
Durable(i) == onDisk[i] = {content[i]}

(* What the journal names is made, and on the disk, and allows a recovery. *)
SoundJournal(d) ==
  LET j == d.journal
  IN  /\ Recoverable(d)
      /\ j.copy # j.old
      /\ j.copy < fresh /\ content[j.copy] = Backup /\ Durable(j.copy)
      /\ j.old # None => j.old < fresh /\ Durable(j.old)

Sound(d) ==
  /\ \A n \in Name : d.files[n] # None => d.files[n] < fresh
  /\ \A i \in Inode : d.files[Partial[i]] \in {None, i}
  /\ d.sidecars => d.files[Target] # None
  /\ ~d.sidecars /\ d.files[Target] # None => Durable(d.files[Target])
  /\ d.journal # None => SoundJournal(d)

(* At most one journal is on the disk; before it and after it the store is *)
(* the one it replaces or the copy, and closed.                            *)
Agree(d, e) ==
  e.journal # None =>
    /\ d.journal \in {None, e.journal}
    /\ d.journal = None => ~d.sidecars /\ d.files[Target] \in {e.journal.old, e.journal.copy}

(* No journal is on the disk.                                              *)
Quiet == \A d \in disk : d.journal = None

Images ==
  /\ \A d \in disk : Sound(d)
  /\ \A d, e \in disk : Agree(d, e)
  /\ Quiet => \A d \in disk : d.files[Target] = seen.files[Target]
  /\ seen.sidecars => \A d \in disk : d.sidecars

(* The store that is replaced is kept, if there is one.                    *)
Kept == seen.journal.old # None => seen.files[seen.journal.rollback] = seen.journal.old

Before == {"copy", "prepare", "writeJournal"}

During == {"linkRollback", "unlinkTarget", "linkTarget", "verify"}

(* What the steps of a restore rely on.                                    *)
RestoreProgress ==
  /\ pc \in Before \cup During => ~recovering
  /\ pc \in Before => call.after = "copy" /\ Quiet
  /\ pc = "copy" => disk = {seen}
  /\ pc \in {"prepare", "writeJournal"} =>
       /\ \A d \in disk : ~d.sidecars
       /\ call.copy # None /\ call.copy < fresh /\ call.copy # seen.files[Target]
  /\ pc = "writeJournal" =>
       /\ content[call.copy] = Backup /\ Durable(call.copy)
       /\ seen.files[call.rollback] = None
  /\ pc \in {"unlinkTarget", "linkTarget"} => Kept
  /\ pc = "verify" => seen.files[Target] = seen.journal.copy

(* What the steps of a recovery rely on, and the last ones of a restore.   *)
RecoveryProgress ==
  /\ pc \in {"inspect", "undo", "putBack"} => recovering
  /\ pc = "inspect" /\ call.after = "copy" => seen.journal # None
  /\ pc \in {"undo", "putBack"} => Kept
  /\ pc = "putBack" => seen.journal.old # None
  /\ pc \in {"dropPartial", "dropJournal"} =>
       /\ seen.files[Target] \in {seen.journal.old, seen.journal.copy}
       /\ ~recovering => seen.files[Target] = seen.journal.copy
  /\ pc = "end" =>
       /\ seen.journal = None /\ ~seen.sidecars
       /\ ~toSync => disk = {seen}
       /\ ~recovering => seen.files[Target] # None /\ content[seen.files[Target]] = Backup
  /\ call.after = "copy" => call.rollback \in Rollback
  /\ pc \in Step /\ (recovering \/ pc = "copy") /\ call.after = "copy" => fresh <= MaxInode

(* The store is open, or locked, or was restored.                          *)
StoreProgress ==
  /\ open => disk = {seen} /\ seen.sidecars
  /\ pc = "locked" => disk = {seen} /\ result = "none"
  /\ result = "restored" =>
       /\ pc \in {"idle", "release"} /\ ~open
       /\ disk = {seen} /\ seen.journal = None /\ ~seen.sidecars
       /\ seen.files[Target] # None /\ content[seen.files[Target]] = Backup

IInv == TypeOK /\ Images /\ RestoreProgress /\ RecoveryProgress /\ StoreProgress

-----------------------------------------------------------------------------
(* Directories.                                                            *)

(* The names are apart.                                                    *)
LEMMA NamesApart ==
  /\ Target \in Name /\ Rollback \subseteq Name /\ Target \notin Rollback
  /\ \A i \in Inode : /\ Partial[i] \in Name /\ Partial[i] # Target /\ Partial[i] \notin Rollback
                      /\ \A j \in Inode : Partial[i] = Partial[j] => i = j
BY NameAssumption

(* The directory is fsynced: one directory is on the disk.                 *)
LEMMA ImagesAfterSync ==
  ASSUME NEW d \in Directory, Synced(d), Sound(d)'
  PROVE  /\ Images'
         /\ seen' = d /\ disk' = {d} /\ seen' \in disk' /\ disk' \in SUBSET Directory
<1>1. seen' = d /\ disk' = {d}
  BY DEF Synced
<1>2. (\A e \in disk : Sound(e))'
  BY <1>1 DEF Images
<1>3. Agree(d, d)
  BY DEF Agree
<1>4. (\A e, g \in disk : Agree(e, g))'
  BY <1>1, <1>3 DEF Agree
<1>5. QED
  BY <1>1, <1>2, <1>4 DEF Images

(* The directory changes, and no file.                                     *)
LEMMA ImagesAfterChange ==
  ASSUME TypeOK, Images, NEW d \in Directory, Becomes(d), UNCHANGED <<content, onDisk, fresh>>,
         Sound(d), \A e \in disk : Agree(d, e) /\ Agree(e, d),
         Quiet /\ d.journal = None => d.files[Target] = seen.files[Target],
         d.sidecars => seen.sidecars
  PROVE  /\ Images'
         /\ seen' = d /\ seen' \in disk' /\ disk' \in SUBSET Directory
<1>1. seen' = d /\ disk' = disk \cup {d}
  BY DEF Becomes
<1>2. \A e : Sound(e)' <=> Sound(e)
  BY DEF Sound, SoundJournal, Recoverable, Durable
<1>3. (\A e \in disk : Sound(e))'
  BY <1>1, <1>2 DEF Images
<1>4. Agree(d, d)
  BY DEF Agree
<1>5. (\A e, g \in disk : Agree(e, g))'
  <2> SUFFICES ASSUME NEW e \in disk \cup {d}, NEW g \in disk \cup {d} PROVE Agree(e, g)
    BY <1>1 DEF Agree
  <2> QED
    BY <1>4 DEF Images
<1>6. (Quiet => \A e \in disk : e.files[Target] = seen.files[Target])'
  BY <1>1 DEF Quiet, Images
<1>7. (seen.sidecars => \A e \in disk : e.sidecars)'
  BY <1>1 DEF Images
<1>8. disk' \in SUBSET Directory
  BY <1>1 DEF TypeOK
<1>9. QED
  BY <1>1, <1>3, <1>5, <1>6, <1>7, <1>8 DEF Images

(* With the journal there, files are linked and unlinked.                  *)
LEMMA ImagesAfterLink ==
  ASSUME TypeOK, Images, seen.journal # None,
         NEW f \in [Name -> Inode \cup {None}],
         Becomes([seen EXCEPT !.files = f, !.journal = seen.journal]),
         UNCHANGED <<content, onDisk, fresh>>,
         \A n \in Name : f[n] # None => f[n] < fresh,
         \A i \in Inode : f[Partial[i]] \in {None, i},
         Recoverable([seen EXCEPT !.files = f, !.journal = seen.journal])
  PROVE  /\ Images'
         /\ seen' \in Directory /\ seen' \in disk' /\ disk' \in SUBSET Directory
         /\ seen'.files = f /\ seen'.journal = seen.journal
<1> DEFINE d == [seen EXCEPT !.files = f, !.journal = seen.journal]
<1>1. seen \in Directory /\ seen.journal \in Journal
  BY DEF TypeOK, Directory
<1>2. /\ d \in Directory
      /\ d.files = f /\ d.journal = seen.journal /\ d.sidecars = seen.sidecars
  <2>1. seen.journal \in Journal \cup {None}
    BY <1>1
  <2>2. QED
    BY <1>1, <2>1 DEF Directory
<1>3. Sound(seen) /\ Recoverable(d) /\ ~d.sidecars
  <2>1. Sound(seen)
    BY DEF Images, TypeOK
  <2>2. Recoverable(d)
    OBVIOUS
  <2>3. QED
    BY <2>1, <2>2 DEF Recoverable
<1> HIDE DEF d
<1>4. Sound(d)
  <2>1. f[Target] # None => Durable(f[Target])
    BY <1>2, <1>3 DEF Sound, SoundJournal, Recoverable
  <2>2. SoundJournal(d)
    BY <1>2, <1>3 DEF Sound, SoundJournal
  <2>3. QED
    BY <1>2, <1>3, <2>1, <2>2 DEF Sound
<1>5. ASSUME NEW e \in disk
      PROVE  Agree(d, e) /\ Agree(e, d)
  <2>1. Agree(seen, e) /\ Agree(e, seen)
    BY DEF Images, TypeOK
  <2>2. QED
    BY <1>2, <2>1 DEF Agree
<1>6. Becomes(d)
  BY DEF d
<1>7. /\ Images'
      /\ seen' = d /\ seen' \in disk' /\ disk' \in SUBSET Directory
  <2>1. ~(Quiet /\ d.journal = None)
    BY <1>2
  <2>2. d.sidecars => seen.sidecars
    BY <1>2
  <2>3. QED
    BY <1>2, <1>4, <1>5, <1>6, <2>1, <2>2, ImagesAfterChange
<1>8. QED
  BY <1>2, <1>7

-----------------------------------------------------------------------------
(* The invariant is kept: steps that change no file.                       *)

filesVars == <<seen, disk, content, onDisk, fresh>>

(* Nothing about the files changes.                                        *)
LEMMA ImagesUnchanged ==
  ASSUME Images, UNCHANGED filesVars
  PROVE  Images'
<1>1. \A e : Sound(e)' <=> Sound(e)
  BY DEF filesVars, Sound, SoundJournal, Recoverable, Durable
<1>2. (\A e \in disk : Sound(e))'
  BY <1>1 DEF filesVars, Images
<1>3. (\A e, g \in disk : Agree(e, g))'
  BY DEF filesVars, Images, Agree
<1>4. QED
  BY <1>2, <1>3 DEF filesVars, Images, Quiet

(* The call ends without success.                                          *)
LEMMA EndStep ==
  ASSUME IInv, pc \in Step, UNCHANGED <<filesVars, writes, open, crashes>>, faults' \in Nat,
         NEW r \in {"failed", "recovered"}, EndWith(r)
  PROVE  IInv'
<1>1. ~open
  BY DEF IInv, TypeOK, Step
<1>2. pc' = "release" /\ toSync' = FALSE /\ result' = r /\ UNCHANGED <<call, recovering>>
  BY DEF EndWith
<1>3. Images'
  BY ImagesUnchanged DEF IInv
<1>4. TypeOK'
  BY <1>1, <1>2 DEF IInv, TypeOK, filesVars
<1>5. RestoreProgress'
  BY <1>2 DEF RestoreProgress, Before, During
<1>6. RecoveryProgress'
  BY <1>2 DEF IInv, RecoveryProgress, Step
<1>7. StoreProgress'
  BY <1>1, <1>2 DEF StoreProgress
<1>8. QED
  BY <1>3, <1>4, <1>5, <1>6, <1>7 DEF IInv

(* A step throws.                                                          *)
LEMMA FailStep ==
  ASSUME IInv, pc \in Step, UNCHANGED <<filesVars, writes, open, crashes>>, faults' \in Nat, Fail
  PROVE  IInv'
<1>1. CASE recovering \/ pc = "cleanUp"
  <2>1. EndWith("failed")
    BY <1>1 DEF Fail
  <2>2. QED
    BY <2>1, EndStep
<1>2. CASE ~(recovering \/ pc = "cleanUp")
  <2>1. ~open
    BY DEF IInv, TypeOK, Step
  <2>2. pc' = "cleanUp" /\ toSync' = FALSE /\ UNCHANGED <<call, recovering, result>>
    BY <1>2 DEF Fail
  <2>3. Images'
    BY ImagesUnchanged DEF IInv
  <2>4. TypeOK'
    BY <2>1, <2>2 DEF IInv, TypeOK, filesVars, Step
  <2>5. RestoreProgress'
    BY <2>2 DEF RestoreProgress, Before, During
  <2>6. RecoveryProgress'
    BY <1>2, <2>2 DEF IInv, RecoveryProgress, Step
  <2>7. StoreProgress'
    BY <2>1, <2>2 DEF IInv, StoreProgress, Step
  <2>8. QED
    BY <2>3, <2>4, <2>5, <2>6, <2>7 DEF IInv
<1>3. QED
  BY <1>1, <1>2

(* What follows a recovery.                                                *)
LEMMA RecoveredStep ==
  ASSUME IInv, pc \in Step, UNCHANGED <<filesVars, writes, open, faults, crashes>>, Recovered,
         recovering, call.after = "copy" => disk = {seen} /\ seen.journal = None
  PROVE  IInv'
<1>1. CASE call.after = "copy"
  <2>1. ~open
    BY DEF IInv, TypeOK, Step
  <2>2. pc' = "copy" /\ recovering' = FALSE /\ UNCHANGED <<toSync, call, result>>
    BY <1>1 DEF Recovered
  <2>3. Images'
    BY ImagesUnchanged DEF IInv
  <2>4. TypeOK'
    BY <2>1, <2>2 DEF IInv, TypeOK, filesVars, Step
  <2>5. RestoreProgress'
    BY <1>1, <2>2 DEF RestoreProgress, Before, During, Quiet, filesVars
  <2>6. RecoveryProgress'
    BY <1>1, <2>2 DEF IInv, RecoveryProgress, Step, filesVars
  <2>7. StoreProgress'
    BY <2>1, <2>2 DEF IInv, StoreProgress, Step
  <2>8. QED
    BY <2>3, <2>4, <2>5, <2>6, <2>7 DEF IInv
<1>2. CASE call.after # "copy"
  <2>1. PICK r \in {"failed", "recovered"} : EndWith(r)
    BY <1>2 DEF Recovered
  <2>2. faults' \in Nat
    BY DEF IInv, TypeOK
  <2>3. QED
    BY <2>1, <2>2, EndStep
<1>3. QED
  BY <1>1, <1>2

-----------------------------------------------------------------------------
(* The store and the calls.                                                *)

LEMMA LockStep ==
  ASSUME IInv, Lock
  PROVE  IInv'
<1>1. /\ pc = "idle" /\ ~open /\ open' = open /\ pc' = "locked" /\ result' = "none"
      /\ seen' = seen /\ disk' = {seen}
      /\ UNCHANGED <<content, onDisk, fresh, writes, toSync, call, recovering, faults, crashes>>
  BY DEF Lock, Synced, fileVars
<1>2. seen \in Directory /\ Sound(seen)
  BY DEF IInv, TypeOK, Images
<1>3. Sound(seen)'
  BY <1>1, <1>2 DEF Sound, SoundJournal, Recoverable, Durable
<1>4. Images'
  <2>1. Synced(seen)
    BY DEF Lock
  <2>2. (Sound(seen))' => \A d : d = seen => Sound(d)'
    BY <1>1
  <2>3. QED
    BY <1>2, <1>3, <2>1, <2>2, ImagesAfterSync
<1>5. TypeOK'
  BY <1>1, <1>2 DEF IInv, TypeOK
<1>6. RestoreProgress'
  BY <1>1 DEF RestoreProgress, Before, During
<1>7. RecoveryProgress'
  BY <1>1 DEF IInv, RecoveryProgress, Step
<1>8. StoreProgress'
  BY <1>1 DEF StoreProgress
<1>9. QED
  BY <1>4, <1>5, <1>6, <1>7, <1>8 DEF IInv

LEMMA OpenStep ==
  ASSUME IInv, Open
  PROVE  IInv'
<1> DEFINE opens == seen.journal = None
<1>0. PICK d : d = [seen EXCEPT !.sidecars = @ \/ opens]
  OBVIOUS
<1>1. /\ pc = "locked" /\ (seen.files[Target] # None \/ ~opens)
      /\ open' = opens /\ pc' = "idle" /\ Synced(d)
      /\ UNCHANGED <<content, onDisk, fresh, writes, toSync, call, recovering, result, faults,
                     crashes>>
  BY <1>0 DEF Open, fileVars
<1>2. seen \in Directory /\ Sound(seen) /\ result = "none"
  BY <1>1 DEF IInv, TypeOK, Images, StoreProgress
<1>3. /\ d \in Directory
      /\ d.files = seen.files /\ d.journal = seen.journal
      /\ d.sidecars <=> (seen.sidecars \/ opens)
  BY <1>0, <1>2 DEF Directory
<1>4. Sound(d)
  BY <1>1, <1>2, <1>3 DEF Sound, SoundJournal, Recoverable
<1>5. Sound(d)'
  BY <1>1, <1>4 DEF Sound, SoundJournal, Recoverable, Durable
<1>6. /\ Images'
      /\ seen' = d /\ disk' = {d} /\ seen' \in disk' /\ disk' \in SUBSET Directory
  BY <1>1, <1>3, <1>5, ImagesAfterSync
<1>7. TypeOK'
  BY <1>1, <1>3, <1>6 DEF IInv, TypeOK
<1>8. RestoreProgress'
  BY <1>1 DEF RestoreProgress, Before, During
<1>9. RecoveryProgress'
  BY <1>1 DEF IInv, RecoveryProgress, Step
<1>10. StoreProgress'
  BY <1>1, <1>2, <1>3, <1>6 DEF StoreProgress
<1>11. QED
  BY <1>6, <1>7, <1>8, <1>9, <1>10 DEF IInv

LEMMA CreateStep ==
  ASSUME IInv, Create
  PROVE  IInv'
<1>0. PICK d : d = [seen EXCEPT !.files[Target] = fresh, !.sidecars = TRUE]
  OBVIOUS
<1>1. /\ pc = "locked" /\ seen.journal = None /\ fresh <= MaxInode
      /\ Synced(d) /\ WroteThrough(fresh, writes + 1)
      /\ fresh' = fresh + 1 /\ writes' = writes + 1 /\ open' = TRUE /\ pc' = "idle"
      /\ UNCHANGED <<toSync, call, recovering, result, faults, crashes>>
  BY <1>0 DEF Create
<1>2. /\ seen \in Directory /\ Sound(seen) /\ result = "none"
      /\ fresh \in Inode /\ fresh \in Nat /\ writes \in Nat /\ Inode \subseteq Nat
      /\ None \notin Nat
  BY <1>1, BoundsAssumption, ContentAssumption
     DEF IInv, TypeOK, Images, StoreProgress, Inode
<1>3. /\ d \in Directory
      /\ d.files = [seen.files EXCEPT ![Target] = fresh] /\ d.journal = None /\ d.sidecars
  BY <1>0, <1>1, <1>2, NamesApart DEF Directory
<1>4. /\ d.files[Target] = fresh
      /\ \A n \in Name \ {Target} : d.files[n] = seen.files[n]
  BY <1>2, <1>3, NamesApart DEF Directory
<1>5. Sound(d)'
  <2>1. \A n \in Name : d.files[n] # None => d.files[n] < fresh + 1
    <3> TAKE n \in Name
    <3>1. d.files[n] \in Inode \cup {None}
      BY <1>3 DEF Directory
    <3>2. CASE n = Target
      BY <1>2, <1>4, <3>2
    <3>3. CASE n # Target
      <4>1. d.files[n] = seen.files[n] /\ (d.files[n] # None => d.files[n] < fresh)
        BY <1>2, <1>4, <3>3 DEF Sound
      <4>2. d.files[n] # None => d.files[n] \in Nat
        BY <1>2, <3>1
      <4>3. QED
        BY <1>2, <4>1, <4>2
    <3>4. QED
      BY <3>2, <3>3
  <2>2. \A i \in Inode : d.files[Partial[i]] \in {None, i}
    BY <1>2, <1>4, NamesApart DEF Sound
  <2>3. d.files[Target] # None
    BY <1>2, <1>4
  <2>4. QED
    BY <1>1, <1>3, <2>1, <2>2, <2>3 DEF Sound
<1>6. /\ Images'
      /\ seen' = d /\ disk' = {d} /\ seen' \in disk' /\ disk' \in SUBSET Directory
  BY <1>1, <1>3, <1>5, ImagesAfterSync
<1>7. TypeOK'
  <2>1. /\ content' \in [Inode -> Content] /\ onDisk' \in [Inode -> SUBSET Content]
        /\ \A i \in Inode : content'[i] \in onDisk'[i]
    BY <1>1, <1>2 DEF IInv, TypeOK, WroteThrough, Content
  <2>2. fresh' \in 1..MaxInode + 1
    BY <1>1, <1>2, BoundsAssumption DEF IInv, TypeOK, Inode
  <2>3. d.files[Target] # None
    BY <1>2, <1>4
  <2>4. /\ open' \in BOOLEAN
        /\ open' => pc' = "idle" /\ seen'.journal = None /\ seen'.files[Target] # None
    <3>1. open' \in BOOLEAN
      BY <1>1
    <3>2. pc' = "idle" /\ seen'.journal = None /\ seen'.files[Target] # None
      BY <1>1, <1>3, <1>6, <2>3
    <3>3. QED
      BY <3>1, <3>2
  <2>5. writes' \in Nat
    BY <1>1, <1>2
  <2>6. /\ toSync' \in BOOLEAN /\ recovering' \in BOOLEAN /\ call' \in Call
        /\ result' \in {"none", "restored", "recovered", "failed"}
        /\ faults' \in Nat /\ crashes' \in Nat
    BY <1>1 DEF IInv, TypeOK
  <2>7. QED
    BY <1>1, <1>6, <2>1, <2>2, <2>4, <2>5, <2>6 DEF TypeOK
<1>8. RestoreProgress'
  BY <1>1 DEF RestoreProgress, Before, During
<1>9. RecoveryProgress'
  BY <1>1 DEF IInv, RecoveryProgress, Step
<1>10. StoreProgress'
  BY <1>1, <1>2, <1>3, <1>6 DEF StoreProgress
<1>11. QED
  BY <1>6, <1>7, <1>8, <1>9, <1>10 DEF IInv

LEMMA WriteStep ==
  ASSUME IInv, Write
  PROVE  IInv'
<1> DEFINE i == seen.files[Target]
<1>1. /\ open /\ open' = open /\ Wrote(i, writes + 1) /\ writes' = writes + 1
      /\ UNCHANGED <<seen, disk, fresh, callVars, faults, crashes>>
  BY DEF Write
<1>2. /\ disk = {seen} /\ seen.sidecars /\ seen.journal = None /\ pc = "idle" /\ i # None
      /\ seen \in Directory /\ Sound(seen) /\ writes \in Nat
  BY <1>1 DEF IInv, TypeOK, StoreProgress, Images
<1>3. i \in Inode
  BY <1>2, NamesApart DEF Directory
<1>4. Images'
  <2>1. Sound(seen)'
    BY <1>1, <1>2 DEF Sound
  <2>2. (\A d \in disk : Sound(d))'
    BY <1>1, <1>2, <2>1
  <2>3. QED
    BY <1>1, <1>2, <2>2 DEF Images, Agree, Quiet
<1>5. TypeOK'
  <2>1. /\ content' \in [Inode -> Content] /\ onDisk' \in [Inode -> SUBSET Content]
        /\ \A k \in Inode : content'[k] \in onDisk'[k]
    BY <1>1, <1>2, <1>3 DEF IInv, TypeOK, Wrote, Content
  <2>2. QED
    BY <1>1, <1>2, <2>1 DEF IInv, TypeOK, callVars
<1>6. RestoreProgress'
  BY <1>1, <1>2 DEF RestoreProgress, Before, During, callVars
<1>7. RecoveryProgress'
  BY <1>1, <1>2 DEF IInv, RecoveryProgress, Step, callVars
<1>8. StoreProgress'
  BY <1>1, <1>2 DEF IInv, StoreProgress, callVars
<1>9. QED
  BY <1>4, <1>5, <1>6, <1>7, <1>8 DEF IInv

LEMMA CloseStep ==
  ASSUME IInv, Close
  PROVE  IInv'
<1>0. PICK i, d : i = seen.files[Target] /\ d = [seen EXCEPT !.sidecars = FALSE]
  OBVIOUS
<1>1. /\ open /\ open' = FALSE /\ WroteThrough(i, content[i]) /\ Becomes(d)
      /\ UNCHANGED <<fresh, writes, callVars, faults, crashes>>
  BY <1>0 DEF Close
<1>2. /\ disk = {seen} /\ seen.sidecars /\ seen.journal = None /\ pc = "idle" /\ i # None
      /\ seen \in Directory /\ Sound(seen)
  BY <1>0, <1>1 DEF IInv, TypeOK, StoreProgress, Images
<1>3. i \in Inode
  BY <1>0, <1>2, NamesApart DEF Directory
<1>4. /\ d \in Directory
      /\ d.files = seen.files /\ d.journal = None /\ ~d.sidecars
  BY <1>0, <1>2 DEF Directory
<1>5. content' = content /\ onDisk' = [onDisk EXCEPT ![i] = {content[i]}]
  BY <1>1, <1>3 DEF IInv, TypeOK, WroteThrough
<1>6. Durable(i)'
  BY <1>3, <1>5 DEF IInv, TypeOK, Durable
<1>7. seen' = d /\ disk' = {seen, d}
  BY <1>1, <1>2 DEF Becomes
<1>8. Images'
  <2>1. \A e \in {seen, d} : e.files = seen.files /\ e.journal = None
    BY <1>2, <1>4
  <2>2. ASSUME NEW e \in {seen, d}
        PROVE  Sound(e)'
    <3>1. e.files = seen.files /\ e.journal = None
      BY <2>1
    <3>2. onDisk'[i] = {content'[i]}
      BY <1>6 DEF Durable
    <3>3. QED
      BY <1>0, <1>1, <1>2, <3>1, <3>2 DEF Sound, Durable
  <2>3. (\A e \in disk : Sound(e))'
    BY <1>7, <2>2
  <2>4. QED
    BY <1>4, <1>7, <2>1, <2>3 DEF Images, Agree, Quiet
<1>9. TypeOK'
  <2>1. /\ content' \in [Inode -> Content] /\ onDisk' \in [Inode -> SUBSET Content]
        /\ \A k \in Inode : content'[k] \in onDisk'[k]
    BY <1>3, <1>5 DEF IInv, TypeOK
  <2>2. QED
    BY <1>1, <1>2, <1>4, <1>7, <2>1 DEF IInv, TypeOK, callVars
<1>10. RestoreProgress'
  BY <1>1, <1>2 DEF RestoreProgress, Before, During, callVars
<1>11. RecoveryProgress'
  BY <1>1, <1>2 DEF IInv, RecoveryProgress, Step, callVars
<1>12. StoreProgress'
  BY <1>1, <1>2 DEF IInv, StoreProgress, callVars
<1>13. QED
  BY <1>8, <1>9, <1>10, <1>11, <1>12 DEF IInv

LEMMA CallRestoreStep ==
  ASSUME IInv, NEW r \in Rollback, CallRestore(r)
  PROVE  IInv'
<1>1. /\ pc = "locked" /\ fresh <= MaxInode
      /\ pc' = IF seen.journal = None THEN "copy" ELSE "inspect"
      /\ recovering' = (seen.journal # None)
      /\ call' = [rollback |-> r, copy |-> None, after |-> "copy"]
      /\ UNCHANGED <<filesVars, writes, open, toSync, result, faults, crashes>>
  BY DEF CallRestore, fileVars, filesVars
<1>2. disk = {seen} /\ result = "none" /\ ~open
  BY <1>1 DEF IInv, TypeOK, StoreProgress
<1>3. Images'
  BY <1>1, ImagesUnchanged DEF IInv
<1>4. TypeOK'
  <2>1. call' \in Call
    BY <1>1 DEF Call
  <2>2. recovering' \in BOOLEAN
    BY <1>1
  <2>3. pc' \in {"copy", "inspect"}
    BY <1>1
  <2>4. QED
    BY <1>1, <1>2, <2>1, <2>2, <2>3 DEF IInv, TypeOK, Step, filesVars
<1>5. RestoreProgress'
  BY <1>1, <1>2 DEF RestoreProgress, Before, During, Quiet, filesVars
<1>6. RecoveryProgress'
  BY <1>1 DEF RecoveryProgress, Step, filesVars
<1>7. StoreProgress'
  BY <1>1, <1>2 DEF StoreProgress
<1>8. QED
  BY <1>3, <1>4, <1>5, <1>6, <1>7 DEF IInv

LEMMA CallRecoverStep ==
  ASSUME IInv, CallRecover
  PROVE  IInv'
<1>1. /\ pc = "locked" /\ pc' = "inspect" /\ recovering' = TRUE
      /\ call' = [rollback |-> None, copy |-> None, after |-> "return"]
      /\ UNCHANGED <<filesVars, writes, open, toSync, result, faults, crashes>>
  BY DEF CallRecover, fileVars, filesVars
<1>2. result = "none" /\ ~open
  BY <1>1 DEF IInv, TypeOK, StoreProgress
<1>3. Images'
  BY <1>1, ImagesUnchanged DEF IInv
<1>4. TypeOK'
  <2>1. call' \in Call
    BY <1>1 DEF Call
  <2>2. recovering' \in BOOLEAN
    BY <1>1
  <2>3. QED
    BY <1>1, <1>2, <2>1, <2>2 DEF IInv, TypeOK, Step, filesVars
<1>5. RestoreProgress'
  BY <1>1 DEF RestoreProgress, Before, During
<1>6. RecoveryProgress'
  BY <1>1 DEF RecoveryProgress, Step
<1>7. StoreProgress'
  BY <1>1, <1>2 DEF StoreProgress
<1>8. QED
  BY <1>3, <1>4, <1>5, <1>6, <1>7 DEF IInv

LEMMA ReturnStep ==
  ASSUME IInv, Return
  PROVE  IInv'
<1>1. /\ pc = "release" /\ pc' = "idle" /\ Synced(seen) /\ seen' = seen /\ disk' = {seen}
      /\ UNCHANGED <<content, onDisk, fresh, writes, open, toSync, call, recovering, result,
                     faults, crashes>>
  BY DEF Return, Synced, fileVars
<1>2. seen \in Directory /\ Sound(seen) /\ ~open
  BY <1>1 DEF IInv, TypeOK, Images
<1>3. Sound(seen)'
  BY <1>1, <1>2 DEF Sound, SoundJournal, Recoverable, Durable
<1>4. Images'
  <2>1. \A d : d = seen => Sound(d)'
    BY <1>1, <1>3
  <2>2. QED
    BY <1>1, <1>2, <2>1, ImagesAfterSync
<1>5. TypeOK'
  BY <1>1, <1>2 DEF IInv, TypeOK
<1>6. RestoreProgress'
  BY <1>1 DEF RestoreProgress, Before, During
<1>7. RecoveryProgress'
  BY <1>1 DEF IInv, RecoveryProgress, Step
<1>8. StoreProgress'
  BY <1>1, <1>2 DEF IInv, StoreProgress
<1>9. QED
  BY <1>4, <1>5, <1>6, <1>7, <1>8 DEF IInv

LEMMA SyncDirectoryStep ==
  ASSUME IInv, SyncDirectory
  PROVE  IInv'
<1>1. /\ pc \in Step /\ Synced(seen) /\ seen' = seen /\ disk' = {seen} /\ toSync' = FALSE
      /\ UNCHANGED <<content, onDisk, fresh, writes, open, pc, call, recovering, result,
                     faults, crashes>>
  BY DEF SyncDirectory, Synced, fileVars
<1>2. seen \in Directory /\ seen \in disk /\ Sound(seen) /\ ~open
  BY <1>1 DEF IInv, TypeOK, Images, Step
<1>3. Sound(seen)'
  BY <1>1, <1>2 DEF Sound, SoundJournal, Recoverable, Durable
<1>4. Images'
  <2>1. \A d : d = seen => Sound(d)'
    BY <1>1, <1>3
  <2>2. QED
    BY <1>1, <1>2, <2>1, ImagesAfterSync
<1>5. TypeOK'
  BY <1>1, <1>2 DEF IInv, TypeOK
<1>6. RestoreProgress'
  BY <1>1, <1>2 DEF IInv, RestoreProgress, Before, During, Quiet, Kept, Durable
<1>7. RecoveryProgress'
  BY <1>1, <1>2 DEF IInv, RecoveryProgress, Step, Kept
<1>8. StoreProgress'
  BY <1>1, <1>2 DEF IInv, StoreProgress, Step
<1>9. QED
  BY <1>4, <1>5, <1>6, <1>7, <1>8 DEF IInv

-----------------------------------------------------------------------------
(* The steps before the journal.                                           *)

LEMMA CopyStep ==
  ASSUME IInv, Copy
  PROVE  IInv'
<1>1. CASE seen.sidecars
  <2>1. /\ pc = "copy" /\ Fail
        /\ UNCHANGED <<filesVars, writes, open, crashes>> /\ faults' = faults
    BY <1>1 DEF Copy, At, filesVars
  <2>2. faults' \in Nat /\ pc \in Step
    BY <2>1 DEF IInv, TypeOK, Step
  <2>3. QED
    BY <2>1, <2>2, FailStep
<1>2. CASE ~seen.sidecars
  <2>0. PICK d, s : d = [seen EXCEPT !.files[Partial[fresh]] = fresh] /\ s = seen
    OBVIOUS
  <2>1. /\ pc = "copy" /\ Becomes(d) /\ Copied(fresh) /\ fresh' = fresh + 1
        /\ call' = [call EXCEPT !.copy = fresh] /\ pc' = "prepare"
        /\ UNCHANGED <<toSync, recovering, result, open, writes, faults, crashes>>
    BY <1>2, <2>0 DEF Copy, At
  <2>2. /\ disk = {seen} /\ seen.journal = None /\ seen \in Directory /\ Sound(seen)
        /\ ~recovering /\ call.after = "copy" /\ call \in Call /\ ~open
    BY <2>1 DEF IInv, TypeOK, Images, RestoreProgress, Before, Quiet
  <2>3. /\ fresh \in Nat /\ fresh <= MaxInode /\ fresh \in Inode /\ Inode \subseteq Nat
        /\ None \notin Nat
    BY <2>1, <2>2, BoundsAssumption, ContentAssumption
       DEF IInv, TypeOK, RecoveryProgress, Step, Inode
  <2>4. /\ d \in Directory
        /\ d.files = [seen.files EXCEPT ![Partial[fresh]] = fresh]
        /\ d.journal = None /\ ~d.sidecars
    BY <1>2, <2>0, <2>2, <2>3, NamesApart DEF Directory
  <2>5. /\ d.files[Partial[fresh]] = fresh
        /\ \A n \in Name \ {Partial[fresh]} : d.files[n] = seen.files[n]
    BY <2>2, <2>3, <2>4, NamesApart DEF Directory
  <2>6. seen' = d /\ disk' = {seen, d}
    BY <2>1, <2>2 DEF Becomes
  <2>7. /\ content' \in [Inode -> Content] /\ onDisk' \in [Inode -> SUBSET Content]
        /\ \A k \in Inode : content'[k] \in onDisk'[k]
        /\ \A k \in Inode \ {fresh} : Durable(k) => Durable(k)'
    BY <2>1, <2>3 DEF IInv, TypeOK, Copied, Content, Durable
  <2>8. \A n \in Name : s.files[n] # None => s.files[n] \in Inode /\ s.files[n] < fresh
    BY <2>0, <2>2 DEF Directory, Sound
  <2>9. \A n \in Name : s.files[n] # None => s.files[n] < fresh + 1 /\ s.files[n] # fresh
    <3> SUFFICES ASSUME NEW n \in Name, s.files[n] # None
                 PROVE  s.files[n] < fresh + 1 /\ s.files[n] # fresh
      OBVIOUS
    <3>1. s.files[n] \in Nat /\ s.files[n] < fresh
      BY <2>3, <2>8
    <3>2. QED
      BY <2>3, <3>1
  <2>10. ~s.sidecars /\ (s.files[Target] # None => Durable(s.files[Target])')
    <3>1. s.files[Target] # None => Durable(s.files[Target])
      BY <1>2, <2>0, <2>2 DEF Sound
    <3>2. s.files[Target] # None => s.files[Target] \in Inode \ {fresh}
      BY <2>8, <2>9, NamesApart
    <3>3. QED
      BY <1>2, <2>0, <2>7, <3>1, <3>2
  <2>11. Sound(s)'
    <3>1. s.journal = None /\ \A i \in Inode : s.files[Partial[i]] \in {None, i}
      BY <2>0, <2>2 DEF Sound
    <3>2. QED
      BY <2>1, <2>9, <2>10, <3>1 DEF Sound
  <2>12. d.files[Target] = seen.files[Target]
    BY <2>3, <2>5, NamesApart
  <2>13. Sound(d)'
    <3>1. \A n \in Name : d.files[n] # None => d.files[n] < fresh + 1
      <4> TAKE n \in Name
      <4>1. CASE n = Partial[fresh]
        BY <2>3, <2>5, <4>1
      <4>2. CASE n # Partial[fresh]
        <5>1. d.files[n] = s.files[n]
          BY <2>0, <2>5, <4>2
        <5>2. QED
          BY <2>9, <5>1
      <4>3. QED
        BY <4>1, <4>2
    <3>2. \A i \in Inode : d.files[Partial[i]] \in {None, i}
      BY <2>2, <2>3, <2>5, NamesApart DEF Sound
    <3>3. d.files[Target] # None => Durable(d.files[Target])'
      BY <2>0, <2>10, <2>12
    <3>4. QED
      BY <2>1, <2>4, <3>1, <3>2, <3>3 DEF Sound
  <2>14. Images'
    <3>1. (\A e \in disk : Sound(e))'
      BY <2>0, <2>6, <2>11, <2>13
    <3>2. QED
      BY <2>2, <2>4, <2>6, <2>12, <3>1 DEF Images, Agree, Quiet
  <2>15. TypeOK'
    <3>1. call' \in Call
      BY <2>1, <2>2, <2>3 DEF Call
    <3>2. fresh' \in 1..MaxInode + 1
      BY <2>1, <2>3, BoundsAssumption DEF IInv, TypeOK
    <3>3. disk' \in SUBSET Directory /\ seen' \in disk'
      BY <2>2, <2>4, <2>6
    <3>4. pc' \in Step /\ ~open'
      BY <2>1, <2>2 DEF Step
    <3>5. QED
      BY <2>1, <2>2, <2>7, <3>1, <3>2, <3>3, <3>4 DEF IInv, TypeOK
  <2>16. call'.after = "copy" /\ call'.copy = fresh /\ call'.rollback = call.rollback
    BY <2>1, <2>2 DEF Call
  <2>17. RestoreProgress'
    <3>1. fresh # seen.files[Target]
      BY <2>0, <2>3, <2>9, NamesApart
    <3>2. fresh < fresh + 1 /\ fresh # None
      BY <2>3
    <3>3. Quiet'
      BY <2>2, <2>4, <2>6 DEF Quiet
    <3>4. QED
      BY <1>2, <2>1, <2>2, <2>4, <2>6, <2>12, <2>16, <3>1, <3>2, <3>3
         DEF RestoreProgress, Before, During
  <2>18. RecoveryProgress'
    BY <2>1, <2>2, <2>16 DEF IInv, RecoveryProgress, Step
  <2>19. StoreProgress'
    BY <2>1, <2>2 DEF IInv, StoreProgress
  <2>20. QED
    BY <2>14, <2>15, <2>17, <2>18, <2>19 DEF IInv
<1>3. QED
  BY <1>1, <1>2

LEMMA PrepareStep ==
  ASSUME IInv, Prepare
  PROVE  IInv'
<1>0. PICK i : i = call.copy
  OBVIOUS
<1>1. /\ pc = "prepare" /\ WroteThrough(i, content[i])
      /\ UNCHANGED <<seen, disk, fresh, open, writes, faults, crashes>>
      /\ \/ /\ Valid(i) /\ seen.files[call.rollback] = None
            /\ pc' = "writeJournal" /\ UNCHANGED <<toSync, call, recovering, result>>
         \/ Fail
  BY <1>0 DEF Prepare, At
<1>2. /\ i # None /\ i < fresh /\ i # seen.files[Target] /\ call.after = "copy"
      /\ \A d \in disk : d.journal = None /\ ~d.sidecars
      /\ ~recovering /\ ~open /\ call \in Call
  BY <1>0, <1>1 DEF IInv, RestoreProgress, Before, Quiet, TypeOK
<1>3. i \in Inode
  BY <1>0, <1>2 DEF Call
<1>4. /\ content' = content /\ onDisk' = [onDisk EXCEPT ![i] = {content[i]}]
      /\ \A k \in Inode : Durable(k) => Durable(k)'
      /\ Durable(i)'
  BY <1>1, <1>3 DEF IInv, TypeOK, WroteThrough, Durable
<1>5. Images'
  <2>1. ASSUME NEW d \in disk
        PROVE  Sound(d)'
    <3>1. Sound(d) /\ d \in Directory /\ d.journal = None /\ ~d.sidecars
      BY <1>2 DEF IInv, Images, TypeOK
    <3>2. d.files[Target] # None => d.files[Target] \in Inode
      BY <3>1, NamesApart DEF Directory
    <3>3. d.files[Target] # None => Durable(d.files[Target])'
      BY <1>4, <3>1, <3>2 DEF Sound
    <3>4. QED
      BY <1>1, <3>1, <3>3 DEF Sound
  <2>2. (\A d \in disk : Sound(d))'
    BY <1>1, <2>1
  <2>3. QED
    BY <1>1, <2>2 DEF IInv, Images, Agree, Quiet
<1>6. /\ content' \in [Inode -> Content] /\ onDisk' \in [Inode -> SUBSET Content]
      /\ \A k \in Inode : content'[k] \in onDisk'[k]
  BY <1>3, <1>4 DEF IInv, TypeOK
<1>7. CASE Valid(i) /\ pc' = "writeJournal" /\ seen.files[call.rollback] = None
           /\ UNCHANGED <<toSync, call, recovering, result>>
  <2>1. TypeOK'
    BY <1>1, <1>2, <1>6, <1>7 DEF IInv, TypeOK, Step
  <2>2. RestoreProgress'
    <3>1. Durable(call.copy)'
      BY <1>0, <1>4, <1>7 DEF Durable
    <3>2. content'[call'.copy] = Backup
      BY <1>0, <1>4, <1>7 DEF Valid
    <3>3. QED
      BY <1>0, <1>1, <1>2, <1>7, <3>1, <3>2 DEF RestoreProgress, Before, During, Quiet
  <2>3. RecoveryProgress'
    BY <1>1, <1>2, <1>7 DEF IInv, RecoveryProgress, Step
  <2>4. StoreProgress'
    BY <1>1, <1>2, <1>7 DEF IInv, StoreProgress
  <2>5. QED
    BY <1>5, <2>1, <2>2, <2>3, <2>4 DEF IInv
<1>8. CASE Fail
  <2>1. pc' = "cleanUp" /\ toSync' = FALSE /\ UNCHANGED <<call, recovering, result>>
    BY <1>1, <1>2, <1>8 DEF Fail
  <2>2. TypeOK'
    BY <1>1, <1>2, <1>6, <2>1 DEF IInv, TypeOK, Step
  <2>3. RestoreProgress'
    BY <2>1 DEF RestoreProgress, Before, During
  <2>4. RecoveryProgress'
    BY <1>1, <1>2, <2>1 DEF IInv, RecoveryProgress, Step
  <2>5. StoreProgress'
    BY <1>1, <1>2, <2>1 DEF IInv, StoreProgress
  <2>6. QED
    BY <1>5, <2>2, <2>3, <2>4, <2>5 DEF IInv
<1>9. QED
  BY <1>1, <1>7, <1>8

LEMMA WriteJournalStep ==
  ASSUME IInv, WriteJournal
  PROVE  IInv'
<1>0. PICK c, o, r, j, d :
        /\ c = call.copy /\ o = seen.files[Target] /\ r = call.rollback
        /\ j = [copy |-> c, old |-> o, rollback |-> r]
        /\ d = [seen EXCEPT !.journal = j]
  OBVIOUS
<1>1. /\ pc = "writeJournal" /\ Becomes(d)
      /\ pc' = IF o # None THEN "linkRollback" ELSE "linkTarget"
      /\ toSync' = TRUE /\ call' = [call EXCEPT !.copy = None]
      /\ UNCHANGED <<content, onDisk, fresh, writes, open, recovering, result, faults, crashes>>
  BY <1>0 DEF WriteJournal, At, fileVars
<1>2. /\ c # None /\ c < fresh /\ c # o /\ call.after = "copy" /\ ~recovering /\ Quiet
      /\ content[c] = Backup /\ Durable(c) /\ seen.files[r] = None
      /\ \A e \in disk : ~e.sidecars
      /\ call \in Call /\ r \in Rollback /\ ~open
      /\ seen \in disk /\ seen \in Directory /\ Sound(seen) /\ ~seen.sidecars
  BY <1>0, <1>1 DEF IInv, RestoreProgress, RecoveryProgress, Before, TypeOK, Images
<1>3. /\ c \in Inode /\ o \in Inode \cup {None}
  BY <1>0, <1>2, NamesApart DEF Call, Directory
<1>4. /\ j \in Journal /\ j.copy = c /\ j.old = o /\ j.rollback = r /\ j # None
  <2>1. j \in Journal /\ j.copy = c /\ j.old = o /\ j.rollback = r
    BY <1>0, <1>2, <1>3 DEF Journal
  <2>2. QED
    BY <2>1, NoneAssumption
<1>5. /\ d \in Directory /\ d.files = seen.files /\ d.journal = j /\ ~d.sidecars
  BY <1>0, <1>2, <1>4 DEF Directory
<1>6. o # None => Durable(o) /\ o < fresh
  BY <1>0, <1>2, NamesApart DEF Sound
<1>7. Sound(d)
  <2>1. Recoverable(d)
    BY <1>0, <1>2, <1>3, <1>4, <1>5 DEF Recoverable, Sound
  <2>2. SoundJournal(d)
    BY <1>2, <1>4, <1>5, <1>6, <2>1 DEF SoundJournal
  <2>3. QED
    BY <1>2, <1>5, <2>2 DEF Sound
<1>8. ASSUME NEW e \in disk
      PROVE  Agree(d, e) /\ Agree(e, d)
  <2>1. e.journal = None /\ e.files[Target] = o /\ ~e.sidecars
    BY <1>0, <1>2 DEF IInv, Images, Quiet
  <2>2. QED
    BY <1>4, <1>5, <2>1 DEF Agree
<1>9. Images' /\ seen' = d /\ seen' \in disk' /\ disk' \in SUBSET Directory
  <2>1. TypeOK /\ Images
    BY DEF IInv
  <2>2. d.journal # None
    BY <1>4, <1>5
  <2>3. QED
    BY <1>1, <1>5, <1>7, <1>8, <2>1, <2>2, ImagesAfterChange
<1>10. call' \in Call /\ call'.after = "copy" /\ call'.rollback = r /\ call'.copy = None
  BY <1>0, <1>1, <1>2 DEF Call
<1>11. pc' \in {"linkRollback", "linkTarget"} /\ (pc' = "linkTarget" => o = None)
  BY <1>1
<1>12. TypeOK'
  BY <1>1, <1>2, <1>4, <1>5, <1>9, <1>10, <1>11 DEF IInv, TypeOK, Step
<1>13. RestoreProgress'
  BY <1>1, <1>2, <1>4, <1>5, <1>9, <1>11 DEF RestoreProgress, Before, During, Kept
<1>14. RecoveryProgress'
  BY <1>1, <1>2, <1>10, <1>11 DEF RecoveryProgress
<1>15. StoreProgress'
  BY <1>1, <1>2, <1>11 DEF IInv, StoreProgress
<1>16. QED
  BY <1>9, <1>12, <1>13, <1>14, <1>15 DEF IInv

LEMMA CleanUpStep ==
  ASSUME IInv, CleanUp
  PROVE  IInv'
<1> DEFINE orphan == call.copy # None /\ seen.journal = None
<1>0. PICK c, d :
        /\ c = call.copy
        /\ d = IF orphan THEN [seen EXCEPT !.files[Partial[c]] = None] ELSE seen
  OBVIOUS
<1>1. /\ pc = "cleanUp" /\ Becomes(d) /\ toSync' = orphan
      /\ pc' = "inspect" /\ recovering' = TRUE
      /\ call' = [call EXCEPT !.after = "fail"]
      /\ UNCHANGED <<content, onDisk, fresh, writes, open, result, faults, crashes>>
  BY <1>0 DEF CleanUp, At, fileVars
<1>2. /\ seen \in disk /\ seen \in Directory /\ Sound(seen) /\ call \in Call /\ ~open
      /\ TypeOK /\ Images
  BY <1>1 DEF IInv, TypeOK, Images
<1>3. c \in Inode \cup {None}
  BY <1>0, <1>2 DEF Call
<1>4. /\ d \in Directory /\ d.journal = seen.journal /\ d.sidecars = seen.sidecars
      /\ d.files[Target] = seen.files[Target]
      /\ \A n \in Name : d.files[n] = seen.files[n] \/ d.files[n] = None
      /\ seen.journal # None => d = seen
  BY <1>0, <1>2, <1>3, NamesApart DEF Directory
<1>5. Sound(d)
  <2>1. CASE seen.journal # None
    BY <1>2, <1>4, <2>1
  <2>2. CASE seen.journal = None
    <3>1. \A n \in Name : d.files[n] # None => d.files[n] < fresh
      BY <1>2, <1>4 DEF Sound
    <3>2. \A i \in Inode : d.files[Partial[i]] \in {None, i}
      BY <1>2, <1>4, NamesApart DEF Sound
    <3>3. QED
      BY <1>2, <1>4, <2>2, <3>1, <3>2 DEF Sound
  <2>3. QED
    BY <2>1, <2>2
<1>6. ASSUME NEW e \in disk
      PROVE  Agree(d, e) /\ Agree(e, d)
  <2>1. Agree(seen, e) /\ Agree(e, seen)
    BY <1>2 DEF Images
  <2>2. QED
    BY <1>4, <2>1 DEF Agree
<1>7. Images' /\ seen' = d /\ seen' \in disk' /\ disk' \in SUBSET Directory
  BY <1>1, <1>2, <1>4, <1>5, <1>6, ImagesAfterChange
<1>8. call' \in Call /\ call'.after = "fail"
  BY <1>1, <1>2 DEF Call
<1>9. TypeOK'
  <2>1. toSync' \in BOOLEAN
    BY <1>1
  <2>2. recovering' \in BOOLEAN
    BY <1>1
  <2>3. QED
    BY <1>1, <1>2, <1>7, <1>8, <2>1, <2>2 DEF TypeOK, Step
<1>10. RestoreProgress'
  BY <1>1 DEF RestoreProgress, Before, During
<1>11. RecoveryProgress'
  BY <1>1, <1>8 DEF RecoveryProgress
<1>12. StoreProgress'
  BY <1>1, <1>2 DEF IInv, StoreProgress
<1>13. QED
  BY <1>7, <1>9, <1>10, <1>11, <1>12 DEF IInv

-----------------------------------------------------------------------------
(* The steps under the journal.                                            *)

(* Files f that the journal j allows.                                      *)
Allowed(f, j) ==
  /\ \A n \in Name : f[n] # None => f[n] < fresh
  /\ \A i \in Inode : f[Partial[i]] \in {None, i}
  /\ f[Target] \in {None, j.old, j.copy}
  /\ j.old # None => /\ f[j.rollback] \in {None, j.old}
                     /\ f[Target] = j.old \/ f[j.rollback] = j.old

(* With the journal j there, the files become f; the rest of the invariant *)
(* is up to the next step.                                                 *)
LEMMA FilesStep ==
  ASSUME IInv, pc \in Step, NEW j \in Journal, j = seen.journal,
         NEW f \in [Name -> Inode \cup {None}],
         Allowed(f, j),
         NEW sync \in BOOLEAN,
         NEW next \in {"unlinkTarget", "linkTarget", "verify", "putBack", "dropPartial",
                       "dropJournal"},
         Changes(TRUE, f, seen.journal, sync, next),
         faults' \in Nat, UNCHANGED crashes
  PROVE  /\ Images' /\ TypeOK' /\ StoreProgress'
         /\ seen'.files = f /\ seen'.journal = j /\ pc' = next
         /\ UNCHANGED <<content, onDisk, fresh, open, call, recovering, result>>
<1>1. /\ Becomes([seen EXCEPT !.files = f, !.journal = seen.journal])
      /\ pc' = next /\ toSync' = sync
      /\ UNCHANGED <<content, onDisk, fresh, writes, open, call, recovering, result>>
  BY DEF Changes, fileVars
<1>2. /\ TypeOK /\ Images /\ Sound(seen) /\ ~open
      /\ seen \in Directory /\ j # None /\ j.copy \in Inode
  BY NoneAssumption DEF IInv, TypeOK, Images, Step, Journal
<1>3. Recoverable([seen EXCEPT !.files = f, !.journal = seen.journal])
  <2>1. Recoverable(seen)
    BY <1>2 DEF Sound, SoundJournal
  <2>2. f[Partial[j.copy]] \in {None, j.copy}
    BY <1>2 DEF Allowed
  <2>3. PICK d : d = [seen EXCEPT !.files = f, !.journal = seen.journal]
    OBVIOUS
  <2>4. d.files = f /\ d.journal = j /\ d.sidecars = seen.sidecars
    BY <1>2, <2>3 DEF Directory
  <2>5. Recoverable(d)
    BY <2>1, <2>2, <2>4 DEF Recoverable, Allowed
  <2>6. QED
    BY <2>3, <2>5
<1>4. /\ Images'
      /\ seen' \in Directory /\ seen' \in disk' /\ disk' \in SUBSET Directory
      /\ seen'.files = f /\ seen'.journal = seen.journal
  BY <1>1, <1>2, <1>3, ImagesAfterLink DEF Allowed
<1>5. TypeOK'
  BY <1>1, <1>2, <1>4 DEF TypeOK, Step
<1>6. StoreProgress'
  BY <1>1, <1>2, <1>4 DEF IInv, StoreProgress, Step
<1>7. QED
  BY <1>1, <1>4, <1>5, <1>6

(* What is known of the files when there is a journal.                     *)
LEMMA JournalFacts ==
  ASSUME IInv, seen.journal # None
  PROVE  /\ seen.journal \in Journal /\ seen.files \in [Name -> Inode \cup {None}]
         /\ seen.journal.copy \in Inode /\ seen.journal.old \in Inode \cup {None}
         /\ seen.journal.rollback \in Name \ {Target}
         /\ \A i \in Inode : seen.journal.rollback # Partial[i]
         /\ seen.journal.copy < fresh /\ seen.journal.copy # seen.journal.old
         /\ (seen.journal.old # None => seen.journal.old < fresh)
         /\ content[seen.journal.copy] = Backup
         /\ Recoverable(seen)
         /\ \A n \in Name : seen.files[n] # None => seen.files[n] < fresh
         /\ \A i \in Inode : seen.files[Partial[i]] \in {None, i}
         /\ None \notin Inode
<1>1. seen \in Directory /\ Sound(seen)
  BY DEF IInv, TypeOK, Images
<1>2. SoundJournal(seen)
  BY <1>1 DEF Sound
<1>3. seen.journal \in Journal /\ seen.files \in [Name -> Inode \cup {None}]
  BY <1>1 DEF Directory
<1>4. None \notin Inode
  BY ContentAssumption DEF Inode
<1>5. QED
  BY <1>1, <1>2, <1>3, <1>4, NamesApart DEF Sound, SoundJournal, Journal

LEMMA LinkRollbackStep ==
  ASSUME IInv, LinkRollback
  PROVE  IInv'
<1>0. PICK j, f : j = seen.journal /\ f = [seen.files EXCEPT ![j.rollback] = j.old]
  OBVIOUS
<1>1. /\ pc = "linkRollback" /\ pc \in Step /\ j # None
      /\ Changes(seen.files[Target] = j.old /\ seen.files[j.rollback] = None, f, seen.journal,
                 TRUE, "unlinkTarget")
  BY <1>0 DEF LinkRollback, At, IInv, TypeOK, Step
<1>2. /\ ~recovering /\ faults' = faults /\ crashes' = crashes /\ faults' \in Nat
  BY <1>1 DEF IInv, TypeOK, RestoreProgress, During, Changes
<1>3. CASE ~(seen.files[Target] = j.old /\ seen.files[j.rollback] = None)
  <2>1. Fail /\ UNCHANGED <<filesVars, writes, open, crashes>>
    BY <1>1, <1>3 DEF Changes, filesVars, fileVars
  <2>2. QED
    BY <1>1, <1>2, <2>1, FailStep
<1>4. CASE seen.files[Target] = j.old /\ seen.files[j.rollback] = None
  <2>1. Changes(TRUE, f, seen.journal, TRUE, "unlinkTarget")
    BY <1>1, <1>4 DEF Changes
  <2>2. /\ j \in Journal /\ f \in [Name -> Inode \cup {None}]
        /\ f[j.rollback] = j.old
        /\ \A n \in Name \ {j.rollback} : f[n] = seen.files[n]
    BY <1>0, <1>1, JournalFacts
  <2>3. /\ \A n \in Name : f[n] # None => f[n] < fresh
        /\ \A i \in Inode : f[Partial[i]] \in {None, i}
        /\ f[Target] = j.old
    BY <1>0, <1>1, <1>4, <2>2, JournalFacts, NamesApart
  <2>4. Allowed(f, j)
    BY <2>2, <2>3 DEF Allowed
  <2>5. /\ Images' /\ TypeOK' /\ StoreProgress'
        /\ seen'.files = f /\ seen'.journal = j /\ pc' = "unlinkTarget"
        /\ UNCHANGED <<content, onDisk, fresh, open, call, recovering, result>>
    BY <1>0, <1>1, <1>2, <2>1, <2>2, <2>4, FilesStep
  <2>6. RestoreProgress'
    BY <1>2, <2>2, <2>5 DEF RestoreProgress, Before, During, Kept
  <2>7. RecoveryProgress'
    BY <1>1, <1>2, <2>5 DEF IInv, RecoveryProgress, Step
  <2>8. QED
    BY <2>5, <2>6, <2>7 DEF IInv
<1>5. QED
  BY <1>3, <1>4

LEMMA UnlinkTargetStep ==
  ASSUME IInv, UnlinkTarget
  PROVE  IInv'
<1>0. PICK j, f : j = seen.journal /\ f = [seen.files EXCEPT ![Target] = None]
  OBVIOUS
<1>1. /\ pc = "unlinkTarget" /\ pc \in Step /\ j # None
      /\ Changes(seen.files[Target] \in {None, j.old}, f, seen.journal, TRUE, "linkTarget")
  BY <1>0 DEF UnlinkTarget, At, IInv, TypeOK, Step
<1>2. /\ ~recovering /\ Kept /\ faults' = faults /\ crashes' = crashes /\ faults' \in Nat
  BY <1>1 DEF IInv, TypeOK, RestoreProgress, During, Changes
<1>3. CASE seen.files[Target] \notin {None, j.old}
  <2>1. Fail /\ UNCHANGED <<filesVars, writes, open, crashes>>
    BY <1>1, <1>3 DEF Changes, filesVars, fileVars
  <2>2. QED
    BY <1>1, <1>2, <2>1, FailStep
<1>4. CASE seen.files[Target] \in {None, j.old}
  <2>1. Changes(TRUE, f, seen.journal, TRUE, "linkTarget")
    BY <1>1, <1>4 DEF Changes
  <2>2. /\ j \in Journal /\ f \in [Name -> Inode \cup {None}]
        /\ f[Target] = None
        /\ \A n \in Name \ {Target} : f[n] = seen.files[n]
        /\ j.rollback \in Name \ {Target}
    BY <1>0, <1>1, JournalFacts, NamesApart
  <2>3. /\ \A n \in Name : f[n] # None => f[n] < fresh
        /\ \A i \in Inode : f[Partial[i]] \in {None, i}
        /\ j.old # None => f[j.rollback] = j.old
    BY <1>0, <1>1, <1>2, <2>2, JournalFacts, NamesApart DEF Kept
  <2>4. /\ f[Target] \in {None, j.old, j.copy}
        /\ j.old # None => /\ f[j.rollback] \in {None, j.old}
                           /\ f[Target] = j.old \/ f[j.rollback] = j.old
    BY <2>2, <2>3
  <2>5. Allowed(f, j)
    BY <2>3, <2>4 DEF Allowed
  <2>6. /\ Images' /\ TypeOK' /\ StoreProgress'
        /\ seen'.files = f /\ seen'.journal = j /\ pc' = "linkTarget"
        /\ UNCHANGED <<content, onDisk, fresh, open, call, recovering, result>>
    BY <1>0, <1>1, <1>2, <2>1, <2>2, <2>5, FilesStep
  <2>7. RestoreProgress'
    BY <1>2, <2>3, <2>6 DEF RestoreProgress, Before, During, Kept
  <2>8. RecoveryProgress'
    BY <1>1, <1>2, <2>6 DEF IInv, RecoveryProgress, Step
  <2>9. QED
    BY <2>6, <2>7, <2>8 DEF IInv
<1>5. QED
  BY <1>3, <1>4

LEMMA LinkTargetStep ==
  ASSUME IInv, LinkTarget
  PROVE  IInv'
<1>0. PICK j, f : j = seen.journal /\ f = [seen.files EXCEPT ![Target] = j.copy]
  OBVIOUS
<1>1. /\ pc = "linkTarget" /\ pc \in Step /\ j # None
      /\ Changes(seen.files[Target] = None /\ seen.files[Partial[j.copy]] = j.copy, f,
                 seen.journal, TRUE, "verify")
  BY <1>0 DEF LinkTarget, At, IInv, TypeOK, Step
<1>2. /\ ~recovering /\ Kept /\ faults' = faults /\ crashes' = crashes /\ faults' \in Nat
  BY <1>1 DEF IInv, TypeOK, RestoreProgress, During, Changes
<1>3. CASE ~(seen.files[Target] = None /\ seen.files[Partial[j.copy]] = j.copy)
  <2>1. Fail /\ UNCHANGED <<filesVars, writes, open, crashes>>
    BY <1>1, <1>3 DEF Changes, filesVars, fileVars
  <2>2. QED
    BY <1>1, <1>2, <2>1, FailStep
<1>4. CASE seen.files[Target] = None /\ seen.files[Partial[j.copy]] = j.copy
  <2>1. Changes(TRUE, f, seen.journal, TRUE, "verify")
    BY <1>1, <1>4 DEF Changes
  <2>2. /\ j \in Journal /\ f \in [Name -> Inode \cup {None}]
        /\ f[Target] = j.copy
        /\ \A n \in Name \ {Target} : f[n] = seen.files[n]
        /\ j.rollback \in Name \ {Target}
    BY <1>0, <1>1, JournalFacts, NamesApart
  <2>3. /\ \A n \in Name : f[n] # None => f[n] < fresh
        /\ \A i \in Inode : f[Partial[i]] \in {None, i}
        /\ j.old # None => f[j.rollback] = j.old
    BY <1>0, <1>1, <1>2, <2>2, JournalFacts, NamesApart DEF Kept
  <2>4. Allowed(f, j)
    BY <2>2, <2>3 DEF Allowed
  <2>5. /\ Images' /\ TypeOK' /\ StoreProgress'
        /\ seen'.files = f /\ seen'.journal = j /\ pc' = "verify"
        /\ UNCHANGED <<content, onDisk, fresh, open, call, recovering, result>>
    BY <1>0, <1>1, <1>2, <2>1, <2>2, <2>4, FilesStep
  <2>6. RestoreProgress'
    BY <1>2, <2>2, <2>5 DEF RestoreProgress, Before, During
  <2>7. RecoveryProgress'
    BY <1>1, <1>2, <2>5 DEF IInv, RecoveryProgress, Step
  <2>8. QED
    BY <2>5, <2>6, <2>7 DEF IInv
<1>5. QED
  BY <1>3, <1>4

LEMMA VerifyStep ==
  ASSUME IInv, Verify
  PROVE  IInv'
<1>1. /\ pc = "verify" /\ pc \in Step /\ seen.journal # None
      /\ Changes(Valid(seen.journal.copy) /\ ~seen.sidecars, seen.files, seen.journal, FALSE,
                 "dropPartial")
  BY DEF Verify, At, IInv, TypeOK, Step
<1>2. /\ ~recovering /\ faults' = faults /\ crashes' = crashes /\ faults' \in Nat
      /\ seen.files[Target] = seen.journal.copy
  BY <1>1 DEF IInv, TypeOK, RestoreProgress, During, Changes
<1>3. CASE ~(Valid(seen.journal.copy) /\ ~seen.sidecars)
  <2>1. Fail /\ UNCHANGED <<filesVars, writes, open, crashes>>
    BY <1>1, <1>3 DEF Changes, filesVars, fileVars
  <2>2. QED
    BY <1>1, <1>2, <2>1, FailStep
<1>4. CASE Valid(seen.journal.copy) /\ ~seen.sidecars
  <2>0. PICK j, f : j = seen.journal /\ f = seen.files
    OBVIOUS
  <2>1. Changes(TRUE, f, seen.journal, FALSE, "dropPartial")
    BY <1>1, <1>4, <2>0 DEF Changes
  <2>2. /\ j \in Journal /\ f \in [Name -> Inode \cup {None}]
        /\ \A n \in Name : f[n] # None => f[n] < fresh
        /\ \A i \in Inode : f[Partial[i]] \in {None, i}
        /\ f[Target] = j.copy
        /\ j.old # None => /\ f[j.rollback] \in {None, j.old}
                           /\ f[Target] = j.old \/ f[j.rollback] = j.old
    BY <1>1, <1>2, <2>0, JournalFacts DEF Recoverable
  <2>3. Allowed(f, j)
    BY <2>2 DEF Allowed
  <2>4. /\ Images' /\ TypeOK' /\ StoreProgress'
        /\ seen'.files = f /\ seen'.journal = j /\ pc' = "dropPartial"
        /\ UNCHANGED <<content, onDisk, fresh, open, call, recovering, result>>
    BY <1>1, <1>2, <2>0, <2>1, <2>2, <2>3, FilesStep
  <2>5. RestoreProgress'
    BY <2>4 DEF RestoreProgress, Before, During
  <2>6. RecoveryProgress'
    BY <1>1, <1>2, <2>2, <2>4 DEF IInv, RecoveryProgress, Step
  <2>7. QED
    BY <2>4, <2>5, <2>6 DEF IInv
<1>5. QED
  BY <1>3, <1>4

LEMMA DropPartialStep ==
  ASSUME IInv, DropPartial
  PROVE  IInv'
<1>0. PICK j, f : j = seen.journal /\ f = [seen.files EXCEPT ![Partial[j.copy]] = None]
  OBVIOUS
<1>1. /\ pc = "dropPartial" /\ pc \in Step /\ j # None
      /\ Changes(seen.files[Partial[j.copy]] \in {None, j.copy}, f, seen.journal, FALSE,
                 "dropJournal")
  BY <1>0 DEF DropPartial, At, IInv, TypeOK, Step
<1>2. /\ faults' = faults /\ crashes' = crashes /\ faults' \in Nat
      /\ seen.files[Target] \in {j.old, j.copy}
      /\ ~recovering => seen.files[Target] = j.copy
  BY <1>0, <1>1 DEF IInv, TypeOK, RecoveryProgress, Changes
<1>3. CASE seen.files[Partial[j.copy]] \notin {None, j.copy}
  <2>1. Fail /\ UNCHANGED <<filesVars, writes, open, crashes>>
    BY <1>1, <1>3 DEF Changes, filesVars, fileVars
  <2>2. QED
    BY <1>1, <1>2, <2>1, FailStep
<1>4. CASE seen.files[Partial[j.copy]] \in {None, j.copy}
  <2>1. Changes(TRUE, f, seen.journal, FALSE, "dropJournal")
    BY <1>1, <1>4 DEF Changes
  <2>2. /\ j \in Journal /\ f \in [Name -> Inode \cup {None}]
        /\ f[Partial[j.copy]] = None
        /\ \A n \in Name \ {Partial[j.copy]} : f[n] = seen.files[n]
        /\ j.copy \in Inode /\ j.rollback \in Name \ {Target, Partial[j.copy]}
    BY <1>0, <1>1, JournalFacts, NamesApart
  <2>3. f[Target] = seen.files[Target] /\ f[j.rollback] = seen.files[j.rollback]
    BY <2>2, NamesApart
  <2>4. /\ \A n \in Name : f[n] # None => f[n] < fresh
        /\ \A i \in Inode : f[Partial[i]] \in {None, i}
    BY <1>0, <1>1, <2>2, JournalFacts, NamesApart
  <2>5. /\ f[Target] \in {None, j.old, j.copy}
        /\ j.old # None => /\ f[j.rollback] \in {None, j.old}
                           /\ f[Target] = j.old \/ f[j.rollback] = j.old
    BY <1>0, <1>1, <2>3, JournalFacts DEF Recoverable
  <2>6. Allowed(f, j)
    BY <2>4, <2>5 DEF Allowed
  <2>7. /\ Images' /\ TypeOK' /\ StoreProgress'
        /\ seen'.files = f /\ seen'.journal = j /\ pc' = "dropJournal"
        /\ UNCHANGED <<content, onDisk, fresh, open, call, recovering, result>>
    BY <1>0, <1>1, <1>2, <2>1, <2>2, <2>6, FilesStep
  <2>8. RestoreProgress'
    BY <2>7 DEF RestoreProgress, Before, During
  <2>9. RecoveryProgress'
    BY <1>1, <1>2, <2>3, <2>7 DEF IInv, RecoveryProgress, Step
  <2>10. QED
    BY <2>7, <2>8, <2>9 DEF IInv
<1>5. QED
  BY <1>3, <1>4

LEMMA DropJournalStep ==
  ASSUME IInv, DropJournal
  PROVE  IInv'
<1>0. PICK j, d : j = seen.journal /\ d = [seen EXCEPT !.files = seen.files, !.journal = None]
  OBVIOUS
<1>1. /\ pc = "dropJournal" /\ pc \in Step /\ j # None
      /\ Becomes(d) /\ pc' = "end" /\ toSync' = TRUE
      /\ UNCHANGED <<call, recovering, result, content, onDisk, fresh, writes, open,
                     faults, crashes>>
  BY <1>0 DEF DropJournal, At, IInv, TypeOK, Step, Changes, fileVars
<1>2. /\ seen.files[Target] \in {j.old, j.copy}
      /\ ~recovering => seen.files[Target] = j.copy
      /\ seen \in disk /\ seen \in Directory /\ Sound(seen) /\ ~open /\ TypeOK /\ Images
  BY <1>0, <1>1 DEF IInv, TypeOK, RecoveryProgress, Images
<1>3. /\ d \in Directory /\ d.files = seen.files /\ d.journal = None
      /\ d.sidecars = seen.sidecars
  BY <1>0, <1>2 DEF Directory
<1>4. ~seen.sidecars /\ j.copy # None /\ content[j.copy] = Backup
  BY <1>0, <1>1, JournalFacts DEF Recoverable
<1>5. Sound(d)
  BY <1>2, <1>3 DEF Sound
<1>6. ASSUME NEW e \in disk
      PROVE  Agree(d, e) /\ Agree(e, d)
  <2>1. Agree(seen, e) /\ Agree(e, seen)
    BY <1>2 DEF Images
  <2>2. QED
    BY <1>0, <1>1, <1>2, <1>3, <1>4, <2>1 DEF Agree
<1>7. Images' /\ seen' = d /\ seen' \in disk' /\ disk' \in SUBSET Directory
  BY <1>1, <1>2, <1>3, <1>5, <1>6, ImagesAfterChange
<1>8. TypeOK'
  <2>1. toSync' \in BOOLEAN
    BY <1>1
  <2>2. QED
    BY <1>1, <1>2, <1>7, <2>1 DEF TypeOK, Step
<1>9. RestoreProgress'
  BY <1>1 DEF RestoreProgress, Before, During
<1>10. RecoveryProgress'
  BY <1>1, <1>2, <1>3, <1>4, <1>7 DEF IInv, RecoveryProgress, Step
<1>11. StoreProgress'
  BY <1>1, <1>2 DEF IInv, StoreProgress, Step
<1>12. QED
  BY <1>7, <1>8, <1>9, <1>10, <1>11 DEF IInv

LEMMA InspectStep ==
  ASSUME IInv, Inspect
  PROVE  IInv'
<1>0. PICK j, i : j = seen.journal /\ i = seen.files[Target]
  OBVIOUS
<1>1. /\ pc = "inspect" /\ pc \in Step
      /\ UNCHANGED <<filesVars, writes, open, faults, crashes>>
      /\ \/ j = None /\ Recovered
         \/ j # None /\ EndWith("failed")
         \/ /\ j # None /\ Recoverable(seen)
            /\ pc' = IF i = None THEN IF j.old = None THEN "dropPartial" ELSE "putBack"
                     ELSE IF i = j.copy /\ ~Valid(i) THEN "undo" ELSE "dropPartial"
            /\ UNCHANGED <<toSync, call, recovering, result>>
  BY <1>0 DEF Inspect, At, Step, filesVars, fileVars
<1>2. /\ recovering /\ faults' \in Nat /\ ~open
      /\ (call.after = "copy" => j # None)
  BY <1>0, <1>1 DEF IInv, TypeOK, RecoveryProgress
<1>3. CASE j = None /\ Recovered
  BY <1>1, <1>2, <1>3, RecoveredStep
<1>4. CASE EndWith("failed")
  BY <1>1, <1>2, <1>4, EndStep
<1>5. CASE /\ j # None /\ Recoverable(seen)
           /\ pc' = IF i = None THEN IF j.old = None THEN "dropPartial" ELSE "putBack"
                    ELSE IF i = j.copy /\ ~Valid(i) THEN "undo" ELSE "dropPartial"
           /\ UNCHANGED <<toSync, call, recovering, result>>
  <2>1. Images'
    BY <1>1, ImagesUnchanged DEF IInv
  <2>2. pc' \in {"undo", "putBack", "dropPartial"}
    BY <1>5
  <2>3. TypeOK'
    BY <1>0, <1>1, <1>2, <1>5, <2>2 DEF IInv, TypeOK, Step, filesVars
  <2>4. RestoreProgress'
    BY <2>2 DEF RestoreProgress, Before, During
  <2>5. RecoveryProgress'
    <3>1. j.copy # j.old
      BY <1>0, <1>5, JournalFacts
    <3>2. /\ pc' \in {"undo", "putBack"} => Kept
          /\ pc' = "putBack" => j.old # None
          /\ pc' = "dropPartial" => i \in {j.old, j.copy}
      BY <1>0, <1>5, <3>1 DEF Recoverable, Kept
    <3>3. Kept' <=> Kept
      BY <1>1 DEF Kept, filesVars
    <3>4. QED
      BY <1>0, <1>1, <1>2, <1>5, <2>2, <3>2, <3>3 DEF IInv, RecoveryProgress, Step, filesVars
  <2>6. StoreProgress'
    BY <1>1, <1>2, <1>5 DEF IInv, StoreProgress
  <2>7. QED
    BY <2>1, <2>3, <2>4, <2>5, <2>6 DEF IInv
<1>6. QED
  BY <1>1, <1>3, <1>4, <1>5

LEMMA DoubtStep ==
  ASSUME IInv, Doubt
  PROVE  IInv'
<1>1. /\ pc = "inspect" /\ pc' = "undo" /\ seen.journal # None /\ Recoverable(seen)
      /\ seen.files[Target] = seen.journal.copy /\ faults' = faults + 1
      /\ UNCHANGED <<filesVars, writes, open, toSync, call, recovering, result, crashes>>
  BY DEF Doubt, At, filesVars, fileVars
<1>2. recovering /\ ~open /\ faults \in Nat
  BY <1>1 DEF IInv, TypeOK, RecoveryProgress
<1>3. Images'
  BY <1>1, ImagesUnchanged DEF IInv
<1>4. TypeOK'
  BY <1>1, <1>2 DEF IInv, TypeOK, Step, filesVars
<1>5. RestoreProgress'
  BY <1>1 DEF RestoreProgress, Before, During
<1>6. RecoveryProgress'
  <2>1. Kept
    BY <1>1, JournalFacts DEF Recoverable, Kept
  <2>2. Kept'
    BY <1>1, <2>1 DEF Kept, filesVars
  <2>3. QED
    BY <1>1, <1>2, <2>2 DEF IInv, RecoveryProgress, Step, filesVars
<1>7. StoreProgress'
  BY <1>1, <1>2 DEF IInv, StoreProgress
<1>8. QED
  BY <1>3, <1>4, <1>5, <1>6, <1>7 DEF IInv

LEMMA UndoStep ==
  ASSUME IInv, Undo
  PROVE  IInv'
<1>0. PICK j, f, next : /\ j = seen.journal /\ f = [seen.files EXCEPT ![Target] = None]
                        /\ next = IF j.old = None THEN "dropPartial" ELSE "putBack"
  OBVIOUS
<1>1. /\ pc = "undo" /\ pc \in Step /\ j # None
      /\ Changes(seen.files[Target] \in {None, j.copy}, f, seen.journal, TRUE, next)
  BY <1>0 DEF Undo, At, IInv, TypeOK, Step
<1>2. /\ recovering /\ Kept /\ faults' = faults /\ crashes' = crashes /\ faults' \in Nat
  BY <1>1 DEF IInv, TypeOK, RecoveryProgress, Changes
<1>3. CASE seen.files[Target] \notin {None, j.copy}
  <2>1. Fail /\ UNCHANGED <<filesVars, writes, open, crashes>>
    BY <1>1, <1>3 DEF Changes, filesVars, fileVars
  <2>2. QED
    BY <1>1, <1>2, <2>1, FailStep
<1>4. CASE seen.files[Target] \in {None, j.copy}
  <2>1. Changes(TRUE, f, seen.journal, TRUE, next)
    BY <1>1, <1>4 DEF Changes
  <2>2. /\ j \in Journal /\ f \in [Name -> Inode \cup {None}]
        /\ f[Target] = None
        /\ \A n \in Name \ {Target} : f[n] = seen.files[n]
        /\ j.rollback \in Name \ {Target}
        /\ next \in {"dropPartial", "putBack"}
    BY <1>0, <1>1, JournalFacts, NamesApart
  <2>3. /\ \A n \in Name : f[n] # None => f[n] < fresh
        /\ \A i \in Inode : f[Partial[i]] \in {None, i}
        /\ j.old # None => f[j.rollback] = j.old
    BY <1>0, <1>1, <1>2, <2>2, JournalFacts, NamesApart DEF Kept
  <2>4. /\ f[Target] \in {None, j.old, j.copy}
        /\ j.old # None => /\ f[j.rollback] \in {None, j.old}
                           /\ f[Target] = j.old \/ f[j.rollback] = j.old
    BY <2>2, <2>3
  <2>5. Allowed(f, j)
    BY <2>3, <2>4 DEF Allowed
  <2>6. /\ Images' /\ TypeOK' /\ StoreProgress'
        /\ seen'.files = f /\ seen'.journal = j /\ pc' = next
        /\ UNCHANGED <<content, onDisk, fresh, open, call, recovering, result>>
    BY <1>0, <1>1, <1>2, <2>1, <2>2, <2>5, FilesStep
  <2>7. RestoreProgress'
    BY <2>2, <2>6 DEF RestoreProgress, Before, During
  <2>8. RecoveryProgress'
    BY <1>0, <1>1, <1>2, <2>2, <2>3, <2>6 DEF IInv, RecoveryProgress, Step, Kept
  <2>9. QED
    BY <2>6, <2>7, <2>8 DEF IInv
<1>5. QED
  BY <1>3, <1>4

LEMMA PutBackStep ==
  ASSUME IInv, PutBack
  PROVE  IInv'
<1>0. PICK j, f : j = seen.journal /\ f = [seen.files EXCEPT ![Target] = j.old]
  OBVIOUS
<1>1. /\ pc = "putBack" /\ pc \in Step /\ j # None
      /\ Changes(seen.files[j.rollback] = j.old /\ seen.files[Target] = None, f, seen.journal,
                 TRUE, "dropPartial")
  BY <1>0 DEF PutBack, At, IInv, TypeOK, Step
<1>2. /\ recovering /\ Kept /\ j.old # None
      /\ faults' = faults /\ crashes' = crashes /\ faults' \in Nat
  BY <1>0, <1>1 DEF IInv, TypeOK, RecoveryProgress, Changes
<1>3. CASE ~(seen.files[j.rollback] = j.old /\ seen.files[Target] = None)
  <2>1. Fail /\ UNCHANGED <<filesVars, writes, open, crashes>>
    BY <1>1, <1>3 DEF Changes, filesVars, fileVars
  <2>2. QED
    BY <1>1, <1>2, <2>1, FailStep
<1>4. CASE seen.files[j.rollback] = j.old /\ seen.files[Target] = None
  <2>1. Changes(TRUE, f, seen.journal, TRUE, "dropPartial")
    BY <1>1, <1>4 DEF Changes
  <2>2. /\ j \in Journal /\ f \in [Name -> Inode \cup {None}]
        /\ f[Target] = j.old
        /\ \A n \in Name \ {Target} : f[n] = seen.files[n]
        /\ j.rollback \in Name \ {Target}
    BY <1>0, <1>1, JournalFacts, NamesApart
  <2>3. /\ \A n \in Name : f[n] # None => f[n] < fresh
        /\ \A i \in Inode : f[Partial[i]] \in {None, i}
        /\ f[j.rollback] = j.old
    BY <1>0, <1>1, <1>4, <2>2, JournalFacts, NamesApart
  <2>4. Allowed(f, j)
    BY <2>2, <2>3 DEF Allowed
  <2>5. /\ Images' /\ TypeOK' /\ StoreProgress'
        /\ seen'.files = f /\ seen'.journal = j /\ pc' = "dropPartial"
        /\ UNCHANGED <<content, onDisk, fresh, open, call, recovering, result>>
    BY <1>0, <1>1, <1>2, <2>1, <2>2, <2>4, FilesStep
  <2>6. RestoreProgress'
    BY <2>5 DEF RestoreProgress, Before, During
  <2>7. RecoveryProgress'
    BY <1>1, <1>2, <2>2, <2>5 DEF IInv, RecoveryProgress, Step
  <2>8. QED
    BY <2>5, <2>6, <2>7 DEF IInv
<1>5. QED
  BY <1>3, <1>4

LEMMA EndsStep ==
  ASSUME IInv, End
  PROVE  IInv'
<1>1. /\ pc = "end" /\ pc \in Step /\ ~toSync
      /\ UNCHANGED <<filesVars, writes, open, faults, crashes>>
      /\ IF recovering THEN Recovered ELSE EndWith("restored")
  BY DEF End, At, Step, filesVars, fileVars
<1>2. /\ disk = {seen} /\ seen.journal = None /\ ~seen.sidecars /\ ~open
      /\ ~recovering => seen.files[Target] # None /\ content[seen.files[Target]] = Backup
  BY <1>1 DEF IInv, TypeOK, RecoveryProgress
<1>3. CASE recovering
  BY <1>1, <1>2, <1>3, RecoveredStep
<1>4. CASE ~recovering
  <2>1. /\ pc' = "release" /\ toSync' = FALSE /\ result' = "restored"
        /\ UNCHANGED <<call, recovering>>
    BY <1>1, <1>4 DEF EndWith
  <2>2. Images'
    BY <1>1, ImagesUnchanged DEF IInv
  <2>3. TypeOK'
    BY <1>1, <1>2, <2>1 DEF IInv, TypeOK, filesVars
  <2>4. RestoreProgress'
    BY <2>1 DEF RestoreProgress, Before, During
  <2>5. RecoveryProgress'
    BY <1>1, <2>1 DEF IInv, RecoveryProgress, Step, filesVars
  <2>6. StoreProgress'
    BY <1>1, <1>2, <1>4, <2>1 DEF StoreProgress, filesVars
  <2>7. QED
    BY <2>2, <2>3, <2>4, <2>5, <2>6 DEF IInv
<1>5. QED
  BY <1>3, <1>4

-----------------------------------------------------------------------------
(* Faults.                                                                 *)

LEMMA ThrowStep ==
  ASSUME IInv, Throw
  PROVE  IInv'
<1>1. /\ pc \in Step /\ Fail /\ faults' = faults + 1
      /\ UNCHANGED <<filesVars, writes, open, crashes>>
  BY DEF Throw, filesVars, fileVars
<1>2. faults' \in Nat
  BY <1>1 DEF IInv, TypeOK
<1>3. QED
  BY <1>1, <1>2, FailStep

(* After a death nothing is under way.                                     *)
LEMMA DeathProgress ==
  ASSUME IInv, Dies
  PROVE  /\ RestoreProgress' /\ RecoveryProgress' /\ StoreProgress'
         /\ pc' = "idle" /\ open' = FALSE /\ fresh' = fresh
         /\ toSync' \in BOOLEAN /\ recovering' \in BOOLEAN /\ open' \in BOOLEAN /\ call' \in Call
         /\ result' = "none" /\ writes' \in Nat /\ faults' \in Nat /\ crashes' \in Nat
<1>1. /\ pc' = "idle" /\ open' = FALSE /\ toSync' = FALSE /\ recovering' = FALSE
      /\ result' = "none" /\ fresh' = fresh /\ writes' = writes /\ faults' = faults
      /\ crashes' = crashes + 1
      /\ call' = [rollback |-> None, copy |-> None, after |-> "return"]
  BY DEF Dies
<1>2. call' \in Call /\ call'.after = "return"
  BY <1>1 DEF Call
<1>3. toSync' \in BOOLEAN /\ recovering' \in BOOLEAN /\ open' \in BOOLEAN
  <2>1. toSync' \in BOOLEAN
    BY <1>1
  <2>2. recovering' \in BOOLEAN
    BY <1>1
  <2>3. open' \in BOOLEAN
    BY <1>1
  <2>4. QED
    BY <2>1, <2>2, <2>3
<1>4. writes' \in Nat /\ faults' \in Nat /\ crashes' \in Nat
  BY <1>1 DEF IInv, TypeOK
<1>5. RestoreProgress'
  BY <1>1 DEF RestoreProgress, Before, During
<1>6. RecoveryProgress'
  BY <1>1, <1>2 DEF RecoveryProgress, Step
<1>7. StoreProgress'
  BY <1>1 DEF StoreProgress
<1>8. QED
  BY <1>1, <1>2, <1>3, <1>4, <1>5, <1>6, <1>7

LEMMA KillStep ==
  ASSUME IInv, Kill
  PROVE  IInv'
<1>1. Dies /\ UNCHANGED <<seen, disk, content, onDisk>>
  BY DEF Kill
<1>2. Images'
  BY <1>1, ImagesUnchanged DEF IInv, Dies, filesVars
<1>3. TypeOK'
  BY <1>1, DeathProgress DEF IInv, TypeOK, Step
<1>4. QED
  BY <1>1, <1>2, <1>3, DeathProgress DEF IInv

(* What was fsynced outlasts a loss of power.                              *)
LEMMA DurableOutlasts ==
  ASSUME IInv, PowerLoss
  PROVE  /\ content' \in [Inode -> Content]
         /\ \A i \in Inode : onDisk'[i] = {content'[i]} /\ content'[i] \in onDisk[i]
         /\ onDisk' \in [Inode -> SUBSET Content]
         /\ \A i \in Inode : Durable(i) => content'[i] = content[i]
<1>1. PICK c \in [Inode -> UNION {onDisk[i] : i \in Inode}] :
        (\A i \in Inode : c[i] \in onDisk[i]) /\ content' = c
  BY DEF PowerLoss
<1>2. \A i \in Inode : onDisk[i] \in SUBSET Content
  BY DEF IInv, TypeOK
<1>3. content' \in [Inode -> Content]
  BY <1>1, <1>2
<1>4. onDisk' = [i \in Inode |-> {content'[i]}]
  BY DEF PowerLoss
<1>5. QED
  BY <1>1, <1>3, <1>4 DEF Durable

LEMMA PowerLossStep ==
  ASSUME IInv, PowerLoss
  PROVE  IInv'
<1>1. PICK d \in disk : Synced(d)
  BY DEF PowerLoss
<1>2. Dies
  BY DEF PowerLoss
<1>3. d \in Directory /\ Sound(d) /\ fresh' = fresh
  BY <1>2 DEF IInv, TypeOK, Images, Dies
<1>4. \A i \in Inode : Durable(i)'
  BY DurableOutlasts DEF Durable
<1>5. Sound(d)'
  <2>1. d.files[Target] # None => d.files[Target] \in Inode
    BY <1>3, NamesApart DEF Directory
  <2>2. d.journal # None => SoundJournal(d)'
    <3>1. SUFFICES ASSUME d.journal # None
                   PROVE  SoundJournal(d)'
      OBVIOUS
    <3>2. SoundJournal(d) /\ d.journal.copy \in Inode /\ d.journal.old \in Inode \cup {None}
      BY <1>3, <3>1 DEF Sound, Directory, Journal
    <3>3. content'[d.journal.copy] = Backup
      BY <3>2, DurableOutlasts DEF SoundJournal
    <3>4. QED
      BY <1>3, <1>4, <3>2, <3>3 DEF SoundJournal, Recoverable
  <2>3. QED
    BY <1>3, <1>4, <2>1, <2>2 DEF Sound
<1>6. Images' /\ seen' \in disk' /\ disk' \in SUBSET Directory
  BY <1>1, <1>3, <1>5, ImagesAfterSync
<1>7. TypeOK'
  <2>1. \A i \in Inode : content'[i] \in onDisk'[i]
    BY DurableOutlasts
  <2>2. fresh' \in 1..MaxInode + 1
    BY <1>3 DEF IInv, TypeOK
  <2>3. QED
    BY <1>2, <1>6, <2>1, <2>2, DurableOutlasts, DeathProgress DEF TypeOK, Step
<1>8. QED
  BY <1>2, <1>6, <1>7, DeathProgress DEF IInv

-----------------------------------------------------------------------------
(* The invariant.                                                          *)

LEMMA InitInvariant == Init => IInv
<1> SUFFICES ASSUME Init PROVE IInv
  OBVIOUS
<1>1. /\ disk = {seen} /\ seen.journal = None /\ seen.sidecars = FALSE
      /\ seen \in Directory
      /\ \A n \in Name \ {Target} : seen.files[n] = None
      /\ seen.files[Target] \in {0, None}
  <2>1. PICK i \in {0, None} :
          seen = [files |-> [n \in Name |-> IF n = Target THEN i ELSE None],
                  journal |-> None, sidecars |-> FALSE]
    BY DEF Init
  <2>2. i \in Inode \cup {None}
    BY BoundsAssumption DEF Inode
  <2>3. QED
    BY <2>1, <2>2, NamesApart DEF Init, Directory
<1>2. /\ content = [i \in Inode |-> 0] /\ onDisk = [i \in Inode |-> {0}]
      /\ fresh = 1 /\ open = FALSE /\ pc = "idle" /\ toSync = FALSE /\ recovering = FALSE
      /\ result = "none" /\ writes = 0 /\ faults = 0 /\ crashes = 0
      /\ call = [rollback |-> None, copy |-> None, after |-> "return"]
  BY DEF Init
<1>3. 0 \in Inode /\ \A i \in Inode : Durable(i)
  BY <1>2, BoundsAssumption DEF Durable, Inode
<1>4. Images
  <2>1. \A n \in Name : seen.files[n] # None => seen.files[n] < fresh
    BY <1>1, <1>2
  <2>2. \A i \in Inode : seen.files[Partial[i]] \in {None, i}
    BY <1>1, NamesApart
  <2>3. Sound(seen)
    BY <1>1, <1>3, <2>1, <2>2 DEF Sound
  <2>4. QED
    BY <1>1, <2>3 DEF Images, Agree
<1>5. TypeOK
  <2>1. fresh \in 1..MaxInode + 1
    BY <1>2, BoundsAssumption
  <2>2. call \in Call
    BY <1>2 DEF Call
  <2>3. /\ content \in [Inode -> Content] /\ onDisk \in [Inode -> SUBSET Content]
        /\ \A i \in Inode : content[i] \in onDisk[i]
    BY <1>2 DEF Content
  <2>4. toSync \in BOOLEAN /\ recovering \in BOOLEAN /\ open \in BOOLEAN
    <3>1. toSync \in BOOLEAN
      BY <1>2
    <3>2. recovering \in BOOLEAN
      BY <1>2
    <3>3. open \in BOOLEAN
      BY <1>2
    <3>4. QED
      BY <3>1, <3>2, <3>3
  <2>5. seen \in disk /\ disk \in SUBSET Directory
    BY <1>1
  <2>6. QED
    BY <1>2, <2>1, <2>2, <2>3, <2>4, <2>5 DEF TypeOK
<1>6. RestoreProgress
  BY <1>2 DEF RestoreProgress, Before, During
<1>7. RecoveryProgress
  BY <1>2 DEF RecoveryProgress, Step
<1>8. StoreProgress
  BY <1>2 DEF StoreProgress
<1>9. QED
  BY <1>4, <1>5, <1>6, <1>7, <1>8 DEF IInv

LEMMA StepInvariant == IInv /\ [Next]_vars => IInv'
<1> SUFFICES ASSUME IInv, [Next]_vars PROVE IInv'
  OBVIOUS
<1>1. CASE UNCHANGED vars
  <2>1. Images'
    BY <1>1, ImagesUnchanged DEF IInv, vars, filesVars, fileVars
  <2>2. TypeOK'
    BY <1>1 DEF IInv, TypeOK, vars, fileVars, callVars
  <2>3. RestoreProgress'
    BY <1>1 DEF IInv, RestoreProgress, Quiet, Kept, Durable, vars, fileVars, callVars
  <2>4. RecoveryProgress'
    BY <1>1 DEF IInv, RecoveryProgress, Kept, vars, fileVars, callVars
  <2>5. StoreProgress'
    BY <1>1 DEF IInv, StoreProgress, vars, fileVars, callVars
  <2>6. QED
    BY <2>1, <2>2, <2>3, <2>4, <2>5 DEF IInv
<1>2. CASE Lock \/ Open \/ Create \/ Write \/ Close
  BY <1>2, LockStep, OpenStep, CreateStep, WriteStep, CloseStep
<1>3. CASE (\E r \in Rollback : CallRestore(r)) \/ CallRecover \/ Return \/ SyncDirectory
  BY <1>3, CallRestoreStep, CallRecoverStep, ReturnStep, SyncDirectoryStep
<1>4. CASE Copy \/ Prepare \/ WriteJournal \/ LinkRollback \/ UnlinkTarget \/ LinkTarget
  BY <1>4, CopyStep, PrepareStep, WriteJournalStep, LinkRollbackStep, UnlinkTargetStep,
     LinkTargetStep
<1>5. CASE Verify \/ DropPartial \/ DropJournal \/ CleanUp
  BY <1>5, VerifyStep, DropPartialStep, DropJournalStep, CleanUpStep
<1>6. CASE Inspect \/ Doubt \/ Undo \/ PutBack \/ End
  BY <1>6, InspectStep, DoubtStep, UndoStep, PutBackStep, EndsStep
<1>7. CASE Throw \/ Kill \/ PowerLoss
  BY <1>7, ThrowStep, KillStep, PowerLossStep
<1>8. QED
  BY <1>1, <1>2, <1>3, <1>4, <1>5, <1>6, <1>7 DEF Next

LEMMA Invariant == Spec => []IInv
BY InitInvariant, StepInvariant, PTL DEF Spec

(* Every variable has its type, in every behaviour and for every value of  *)
(* the constants.                                                          *)
THEOREM TypeCorrect == Spec => []TypeOK
<1>1. IInv => TypeOK
  BY DEF IInv
<1>2. QED
  BY <1>1, Invariant, PTL

(* Whatever fails, and wherever a process dies or the power is lost: a     *)
(* journal that is left (writeJournal to unlinkJournal) can be recovered   *)
(* by recoverEventStoreRestore without help.                               *)
THEOREM JournalsAreRecoverable == Spec => []RecoversUnaided
<1>1. IInv => RecoversUnaided
  BY JournalFacts DEF RecoversUnaided
<1>2. QED
  BY <1>1, Invariant, PTL

(* The store that restoreEventStoreBackup replaces has a name, and is as   *)
(* it was, in every directory that a loss of power may leave.              *)
THEOREM ReplacedStoreIsKept == Spec => []OldStoreKept
<1>1. ASSUME IInv
      PROVE  OldStoreKept
  <2> SUFFICES ASSUME NEW d \in disk, d.journal # None, d.journal.old # None
               PROVE  /\ \E n \in {Target, d.journal.rollback} : d.files[n] = d.journal.old
                      /\ onDisk[d.journal.old] = {content[d.journal.old]}
    BY DEF OldStoreKept
  <2>1. SoundJournal(d)
    BY <1>1 DEF IInv, Images, Sound
  <2>2. QED
    BY <2>1 DEF SoundJournal, Recoverable, Durable
<1>2. QED
  BY <1>1, Invariant, PTL

-----------------------------------------------------------------------------
(* The refinement.                                                         *)

ContentOf(i) == IF i = None THEN None ELSE content[i]

Opened == open \/ seen.sidecars

Answered == pc = "idle" /\ result = "restored"

LEMMA PendingWhen == Pending <=> ~Quiet
BY DEF Pending, Journals, Quiet

(* With a journal on the disk the store is the one it replaces, else it is *)
(* the one with the name.                                                  *)
LEMMA StoreWhenPending ==
  ASSUME IInv, NEW e \in disk, e.journal # None
  PROVE  Pending /\ Store = ContentOf(e.journal.old)
<1>1. Journals = {e.journal}
  BY DEF IInv, Images, Agree, Journals
<1>2. Pending
  BY <1>1 DEF Pending
<1>3. Unsettled = e.journal
  BY <1>1 DEF Unsettled
<1>4. QED
  BY <1>2, <1>3 DEF Store, ContentOf

LEMMA StoreWhenQuiet ==
  ASSUME Quiet
  PROVE  ~Pending /\ Store = ContentOf(seen.files[Target])
BY PendingWhen DEF Store, ContentOf

LEMMA OpenedTyped == IInv => Opened \in BOOLEAN
BY DEF IInv, TypeOK, Opened, Directory

(* Steps that change nothing that StoreSwap speaks of, except that the     *)
(* answer is forgotten.                                                    *)
LEMMA Stutters ==
  ASSUME Store' = Store, Pending' <=> Pending, Opened' = Opened, Answered' => Answered
  PROVE  [Swap!Next]_(Swap!swapVars)
<1>1. CASE Answered' <=> Answered
  BY <1>1 DEF Swap!swapVars, Opened, Answered
<1>2. CASE ~Answered'
  BY <1>2 DEF Swap!Next, Swap!Forget, Opened, Answered
<1>3. QED
  BY <1>1, <1>2

LEMMA UnchangedSwaps ==
  ASSUME UNCHANGED <<seen, disk, content>>, Opened' = Opened, Answered' => Answered
  PROVE  [Swap!Next]_(Swap!swapVars)
<1>1. Store' = Store /\ (Pending' <=> Pending)
  BY DEF Store, Unsettled, Pending, Journals
<1>2. QED
  BY <1>1, Stutters

(* With a journal on the disk, before and after.                           *)
LEMMA PendingSwaps ==
  ASSUME IInv, IInv', NEW e \in disk, e \in disk', e.journal # None, UNCHANGED content,
         Opened' = Opened, ~Answered'
  PROVE  [Swap!Next]_(Swap!swapVars)
<1>1. Pending /\ Store = ContentOf(e.journal.old)
  BY StoreWhenPending
<1>2. Pending' /\ Store' = ContentOf(e.journal.old)
  <2>1. (Journals = {e.journal})'
    BY DEF IInv, Images, Agree, Journals
  <2>2. Pending' /\ Unsettled' = e.journal
    BY <2>1 DEF Pending, Unsettled
  <2>3. QED
    BY <2>2 DEF Store, ContentOf
<1>3. QED
  BY <1>1, <1>2, Stutters

(* Without a journal on the disk, before and after.                        *)
LEMMA QuietSwaps ==
  ASSUME Quiet, Quiet', ContentOf(seen.files[Target])' = ContentOf(seen.files[Target]),
         Opened' = Opened, Answered' => Answered
  PROVE  [Swap!Next]_(Swap!swapVars)
<1>1. ~Pending /\ Store = ContentOf(seen.files[Target])
  BY StoreWhenQuiet
<1>2. ~Pending' /\ Store' = ContentOf(seen.files[Target])'
  BY PendingWhen DEF Store, ContentOf, Pending, Journals, Quiet
<1>3. QED
  BY <1>1, <1>2, Stutters

(* The journal is gone from the disk.                                      *)
LEMMA SettleSwaps ==
  ASSUME IInv, IInv', ~Quiet, Quiet', seen' \in disk, Opened' = Opened, ~Answered',
         \A i \in Inode : Durable(i) => content'[i] = content[i]
  PROVE  [Swap!Next]_(Swap!swapVars)
<1>1. PICK e \in disk : e.journal # None
  BY DEF Quiet
<1>2. PICK d : d = seen'
  OBVIOUS
<1>3. d \in disk /\ d.journal = None
  BY <1>2 DEF Quiet, IInv, TypeOK
<1>4. /\ d.files[Target] \in {e.journal.old, e.journal.copy} /\ SoundJournal(e)
      /\ e.journal \in Journal
  BY <1>1, <1>3 DEF IInv, Images, Agree, Sound, TypeOK, Directory
<1>5. Pending /\ Store = ContentOf(e.journal.old)
  BY <1>1, StoreWhenPending
<1>6. ~Pending' /\ Store' = IF d.files[Target] = None THEN None ELSE content'[d.files[Target]]
  BY <1>2 DEF Store, Pending, Journals, Quiet
<1>7. e.journal.copy # None /\ content'[e.journal.copy] = Backup
  <2>1. e.journal.copy \in Inode
    BY <1>4 DEF Journal
  <2>2. None \notin Inode
    BY ContentAssumption DEF Inode
  <2>3. QED
    BY <1>4, <2>1, <2>2 DEF SoundJournal
<1>8. e.journal.old # None => content'[e.journal.old] = content[e.journal.old]
  BY <1>4 DEF SoundJournal, Journal
<1>9. Store' \in {Store, Backup}
  BY <1>4, <1>5, <1>6, <1>7, <1>8 DEF ContentOf
<1>10. Swap!Settle
  BY <1>5, <1>6, <1>9 DEF Swap!Settle, Opened, Answered
<1>11. QED
  BY <1>10 DEF Swap!Next

(* The directory is fsynced as it is.                                      *)
LEMMA SyncSwaps ==
  ASSUME IInv, IInv', Synced(seen), UNCHANGED content, Opened' = Opened,
         Answered' => Answered \/ (Quiet /\ ContentOf(seen.files[Target]) = Backup)
  PROVE  [Swap!Next]_(Swap!swapVars)
<1>1. seen' = seen /\ disk' = {seen} /\ seen \in disk
  BY DEF Synced, IInv, TypeOK
<1>2. Answered' => Quiet
  BY <1>1 DEF IInv, StoreProgress, Answered, Quiet
<1>3. CASE seen.journal # None
  <2>1. ~Answered'
    BY <1>1, <1>2, <1>3 DEF Quiet
  <2>2. QED
    BY <1>1, <1>3, <2>1, PendingSwaps
<1>4. CASE seen.journal = None /\ ~Quiet
  <2>1. Quiet'
    BY <1>1, <1>4 DEF Quiet
  <2>2. \A i \in Inode : content'[i] = content[i]
    OBVIOUS
  <2>3. QED
    BY <1>1, <1>2, <1>4, <2>1, <2>2, SettleSwaps
<1>5. CASE Quiet
  <2>1. Quiet' /\ ContentOf(seen.files[Target])' = ContentOf(seen.files[Target])
    BY <1>1, <1>5 DEF Quiet, ContentOf
  <2>2. CASE Answered' => Answered
    BY <1>5, <2>1, <2>2, QuietSwaps
  <2>3. CASE Answered' /\ ~Answered
    <3>1. ~Pending /\ Store = Backup
      BY <1>5, <2>3, StoreWhenQuiet
    <3>2. ~Pending' /\ Store' = Store
      BY <1>1, <1>5, <2>1 DEF Store, Pending, Journals, Quiet
    <3>3. (Pending' <=> Pending) /\ Store' = Store /\ Store = Backup
      BY <3>1, <3>2
    <3>4. Swap!Report
      BY <2>3, <3>1, <3>3 DEF Swap!Report, Opened, Answered
    <3>5. QED
      BY <3>4 DEF Swap!Next
  <2>4. QED
    BY <2>2, <2>3
<1>6. QED
  BY <1>3, <1>4, <1>5

(* Steps of a call that change neither the directory nor the files.        *)
LEMMA CallSwaps ==
  ASSUME IInv, \/ CallRecover \/ Inspect \/ Doubt \/ End \/ Throw
               \/ \E r \in Rollback : CallRestore(r)
  PROVE  [Swap!Next]_(Swap!swapVars)
<1>1. UNCHANGED <<seen, disk, content, open>>
  BY DEF CallRecover, Inspect, Doubt, End, Throw, CallRestore, fileVars
<1>2. Opened' = Opened
  BY <1>1 DEF Opened
<1>3. pc' # "idle" \/ UNCHANGED <<pc, result>>
  BY DEF CallRecover, Inspect, Doubt, End, Throw, CallRestore, Fail, Recovered, EndWith
<1>4. QED
  BY <1>1, <1>2, <1>3, UnchangedSwaps DEF Answered

(* Steps that link and unlink under the journal, or throw.                 *)
LEMMA JournalStepsSwap ==
  ASSUME IInv, IInv', \/ LinkRollback \/ UnlinkTarget \/ LinkTarget \/ Verify \/ DropPartial
                      \/ Undo \/ PutBack
  PROVE  [Swap!Next]_(Swap!swapVars)
<1>1. seen.journal # None /\ seen \in disk /\ seen \in Directory
  BY DEF IInv, TypeOK, At, LinkRollback, UnlinkTarget, LinkTarget, Verify, DropPartial, Undo,
         PutBack
<1>2. /\ UNCHANGED <<content, open>> /\ seen \in disk' /\ seen'.sidecars = seen.sidecars
      /\ pc' # "idle"
  <2> USE DEF Changes, Becomes, Directory, fileVars, Fail, EndWith
  <2>1. CASE LinkRollback
    BY <1>1, <2>1 DEF LinkRollback
  <2>2. CASE UnlinkTarget
    BY <1>1, <2>2 DEF UnlinkTarget
  <2>3. CASE LinkTarget
    BY <1>1, <2>3 DEF LinkTarget
  <2>4. CASE Verify
    BY <1>1, <2>4 DEF Verify
  <2>5. CASE DropPartial
    BY <1>1, <2>5 DEF DropPartial
  <2>6. CASE Undo
    BY <1>1, <2>6 DEF Undo
  <2>7. CASE PutBack
    BY <1>1, <2>7 DEF PutBack
  <2>8. QED
    BY <2>1, <2>2, <2>3, <2>4, <2>5, <2>6, <2>7
<1>3. Opened' = Opened /\ ~Answered'
  BY <1>2 DEF Opened, Answered
<1>4. QED
  BY <1>1, <1>2, <1>3, PendingSwaps

(* The directory is fsynced as it is.                                      *)
LEMMA SyncsSwap ==
  ASSUME IInv, IInv', Lock \/ Return \/ SyncDirectory
  PROVE  [Swap!Next]_(Swap!swapVars)
<1>1. Synced(seen) /\ UNCHANGED <<content, open>>
  BY DEF Lock, Return, SyncDirectory, fileVars
<1>2. Opened' = Opened
  BY <1>1 DEF Opened, Synced
<1>3. Answered' => Quiet /\ ContentOf(seen.files[Target]) = Backup
  <2> SUFFICES ASSUME Answered' PROVE Quiet /\ ContentOf(seen.files[Target]) = Backup
    OBVIOUS
  <2>1. Return /\ result = "restored"
    BY DEF Answered, Lock, Return, SyncDirectory, Step
  <2>2. QED
    BY <2>1 DEF IInv, StoreProgress, Quiet, ContentOf
<1>4. QED
  BY <1>1, <1>2, <1>3, SyncSwaps

LEMMA OpensSwap ==
  ASSUME IInv, IInv', Open
  PROVE  [Swap!Next]_(Swap!swapVars)
<1>1. /\ pc = "locked" /\ disk = {seen} /\ result = "none" /\ ~open /\ result' = result
      /\ UNCHANGED content /\ seen \in Directory
      /\ Synced([seen EXCEPT !.sidecars = @ \/ seen.journal = None])
      /\ open' = (seen.journal = None)
      /\ seen.files[Target] # None \/ seen.journal # None
  BY DEF Open, IInv, TypeOK, StoreProgress, fileVars
<1>2. CASE seen.journal # None
  <2>1. seen' = seen /\ disk' = disk /\ open' = open
    <3>1. [seen EXCEPT !.sidecars = @ \/ seen.journal = None] = seen
      BY <1>1, <1>2 DEF Directory
    <3>2. seen' = seen /\ disk' = {seen}
      BY <1>1, <3>1 DEF Synced
    <3>3. open' = open
      BY <1>1, <1>2 DEF IInv, TypeOK
    <3>4. QED
      BY <1>1, <3>2, <3>3
  <2>2. Opened' = Opened /\ ~Answered'
    BY <1>1, <2>1 DEF Opened, Answered
  <2>3. QED
    BY <1>1, <2>1, <2>2, UnchangedSwaps
<1>3. CASE seen.journal = None
  <2>1. /\ seen'.files = seen.files /\ seen'.journal = None /\ seen'.sidecars /\ disk' = {seen'}
        /\ open'
    BY <1>1, <1>3 DEF Synced, Directory
  <2>2. Quiet /\ Quiet'
    BY <1>1, <1>3, <2>1 DEF Quiet
  <2>3. ContentOf(seen.files[Target])' = ContentOf(seen.files[Target])
    BY <1>1, <2>1 DEF ContentOf
  <2>4. ~Answered /\ ~Answered'
    BY <1>1 DEF Answered
  <2>5. CASE Opened
    <3>1. Opened' = Opened
      BY <2>1, <2>5, OpenedTyped DEF Opened
    <3>2. QED
      BY <2>2, <2>3, <2>4, <3>1, QuietSwaps
  <2>6. CASE ~Opened
    <3>1. ~Pending /\ Store = ContentOf(seen.files[Target]) /\ ~Pending' /\ Store' = Store
      <4>1. ~Pending /\ Store = ContentOf(seen.files[Target])
        BY <2>2, StoreWhenQuiet
      <4>2. ~Pending' /\ Store' = ContentOf(seen.files[Target])'
        BY <2>2, PendingWhen DEF Store, ContentOf, Pending, Journals, Quiet
      <4>3. QED
        BY <2>3, <4>1, <4>2
    <3>2. Store # None
      <4>1. seen.files[Target] \in Inode
        BY <1>1, <1>3, NamesApart DEF Directory
      <4>2. content[seen.files[Target]] \in Content
        BY <4>1 DEF IInv, TypeOK
      <4>3. QED
        BY <1>1, <1>3, <3>1, <4>2, ContentAssumption DEF ContentOf, Content
    <3>3. Swap!Open
      <4>1. (Pending' <=> Pending) /\ (Answered' <=> Answered)
        BY <2>4, <3>1
      <4>2. (open \/ seen.sidecars)' /\ ~(open \/ seen.sidecars)
        BY <2>1, <2>6 DEF Opened
      <4>3. ~Pending /\ Store # None /\ Store' = Store
        BY <3>1, <3>2
      <4>4. (Pending' = Pending) /\ (Answered' = Answered)
        BY <4>1 DEF Pending, Answered
      <4>5. IF Store = None THEN Store' \in Content ELSE Store' = Store
        BY <4>3
      <4>6. QED
        BY <4>2, <4>3, <4>4, <4>5 DEF Swap!Open, Answered
    <3>4. QED
      BY <3>3 DEF Swap!Next
  <2>7. QED
    BY <2>5, <2>6
<1>4. QED
  BY <1>2, <1>3

LEMMA CreateSwaps ==
  ASSUME IInv, IInv', Create
  PROVE  [Swap!Next]_(Swap!swapVars)
<1>1. /\ pc = "locked" /\ disk = {seen} /\ result = "none" /\ ~open /\ result' = result
      /\ seen.journal = None /\ seen.files[Target] = None /\ seen \in Directory
      /\ Synced([seen EXCEPT !.files[Target] = fresh, !.sidecars = TRUE])
      /\ WroteThrough(fresh, writes + 1) /\ open' /\ fresh <= MaxInode
  BY DEF Create, IInv, TypeOK, StoreProgress
<1>2. fresh \in Inode /\ writes + 1 \in Content
  BY <1>1, BoundsAssumption DEF IInv, TypeOK, Inode, Content
<1>3. /\ seen'.files[Target] = fresh /\ seen'.journal = None /\ disk' = {seen'}
  BY <1>1, NamesApart DEF Synced, Directory
<1>4. Quiet /\ Quiet'
  BY <1>1, <1>3 DEF Quiet
<1>5. ~seen.sidecars
  <2>1. Sound(seen)
    BY DEF IInv, TypeOK, Images
  <2>2. QED
    BY <1>1, <2>1 DEF Sound
<1>6. ~Pending /\ Store = None
  BY <1>1, <1>4, StoreWhenQuiet DEF ContentOf
<1>7. ~Pending' /\ Store' \in Content
  <2>1. content'[fresh] = writes + 1
    BY <1>1, <1>2 DEF WroteThrough, IInv, TypeOK
  <2>2. fresh # None
    BY <1>2, ContentAssumption DEF Inode
  <2>3. ~Pending' /\ Store' = IF fresh = None THEN None ELSE content'[fresh]
    BY <1>3, <1>4 DEF Store, Pending, Journals, Quiet
  <2>4. QED
    BY <1>2, <2>1, <2>2, <2>3
<1>8. ~Answered /\ ~Answered'
  BY <1>1 DEF Answered
<1>9. (Pending' = Pending) /\ (Answered' = Answered)
  BY <1>6, <1>7, <1>8 DEF Pending, Answered
<1>10. (open \/ seen.sidecars)' /\ ~(open \/ seen.sidecars)
  BY <1>1, <1>5
<1>11. Swap!Open
  BY <1>6, <1>7, <1>9, <1>10 DEF Swap!Open, Answered
<1>12. QED
  BY <1>11 DEF Swap!Next

(* Transactions that come, or go with a loss of power.                     *)
LEMMA WriteSwaps ==
  ASSUME IInv, IInv', Quiet, Quiet', Opened, Opened', ~Answered, ~Answered',
         seen'.files[Target] # None
  PROVE  [Swap!Next]_(Swap!swapVars)
<1>1. ~Pending
  BY PendingWhen
<1>2. Store' \in Content /\ ~Pending'
  <2>1. ~Pending' /\ Store' = content'[seen'.files[Target]]
    BY DEF Store, Pending, Journals, Quiet
  <2>2. seen'.files[Target] \in Inode /\ content' \in [Inode -> Content]
    BY NamesApart DEF IInv, TypeOK, Directory
  <2>3. QED
    BY <2>1, <2>2
<1>3. (Pending' = Pending) /\ (Answered' = Answered)
  BY <1>1, <1>2 DEF Pending, Answered
<1>4. (open \/ seen.sidecars)' /\ (open \/ seen.sidecars)
  BY DEF Opened
<1>5. Swap!Write
  BY <1>2, <1>3, <1>4 DEF Swap!Write, Answered
<1>6. QED
  BY <1>5 DEF Swap!Next

LEMMA WritesSwap ==
  ASSUME IInv, IInv', Write
  PROVE  [Swap!Next]_(Swap!swapVars)
<1>1. /\ open /\ seen' = seen /\ disk' = disk /\ open' = open /\ result' = result /\ pc' = pc
      /\ disk = {seen} /\ seen.journal = None /\ seen.files[Target] # None
      /\ result # "restored"
  BY DEF Write, callVars, IInv, TypeOK, StoreProgress
<1>2. Quiet /\ Quiet'
  BY <1>1 DEF Quiet
<1>3. Opened /\ Opened'
  BY <1>1 DEF Opened
<1>4. ~Answered /\ ~Answered' /\ seen'.files[Target] # None
  BY <1>1 DEF Answered
<1>5. QED
  BY <1>2, <1>3, <1>4, WriteSwaps

LEMMA CloseSwaps ==
  ASSUME IInv, IInv', Close
  PROVE  [Swap!Next]_(Swap!swapVars)
<1>1. /\ open /\ ~open' /\ result' = result /\ pc' = pc
      /\ disk = {seen} /\ seen.journal = None /\ seen \in Directory
      /\ result # "restored" /\ Becomes([seen EXCEPT !.sidecars = FALSE])
  BY DEF Close, callVars, IInv, TypeOK, StoreProgress
<1>2. /\ seen'.files = seen.files /\ seen'.journal = None /\ ~seen'.sidecars
      /\ disk' = {seen, seen'}
  BY <1>1 DEF Becomes, Directory
<1>3. Quiet /\ Quiet'
  BY <1>1, <1>2 DEF Quiet
<1>4. content' = content
  BY DEF Close, WroteThrough, IInv, TypeOK
<1>5. ~Pending /\ Store = ContentOf(seen.files[Target])
  BY <1>3, StoreWhenQuiet
<1>6. ~Pending' /\ Store' = Store
  BY <1>2, <1>3, <1>4, <1>5 DEF Store, ContentOf, Pending, Journals, Quiet
<1>7. Pending' = Pending
  BY <1>5, <1>6 DEF Pending
<1>8. (open \/ seen.sidecars) /\ ~(open \/ seen.sidecars)' /\ ~Answered'
  BY <1>1, <1>2 DEF Answered
<1>9. Swap!Close
  BY <1>6, <1>7, <1>8 DEF Swap!Close, Answered
<1>10. QED
  BY <1>9 DEF Swap!Next

LEMMA CopySwaps ==
  ASSUME IInv, IInv', Copy
  PROVE  [Swap!Next]_(Swap!swapVars)
<1>1. /\ pc = "copy" /\ disk = {seen} /\ seen.journal = None /\ seen \in Directory
      /\ ~open /\ open' = open /\ fresh \in Inode
  <2>1. /\ pc = "copy" /\ disk = {seen} /\ ~open /\ open' = open /\ seen \in Directory
        /\ call.after = "copy" /\ Quiet
    BY DEF Copy, At, IInv, TypeOK, RestoreProgress, Before
  <2>2. fresh <= MaxInode
    BY <2>1 DEF IInv, RecoveryProgress, Step
  <2>3. QED
    BY <2>1, <2>2, BoundsAssumption DEF IInv, TypeOK, Inode, Quiet
<1>2. CASE seen.sidecars
  <2>1. UNCHANGED <<seen, disk, content>> /\ pc' # "idle"
    BY <1>1, <1>2 DEF Copy, Fail, EndWith
  <2>2. Opened' = Opened /\ ~Answered'
    BY <1>1, <2>1 DEF Opened, Answered
  <2>3. QED
    BY <2>1, <2>2, UnchangedSwaps
<1>3. CASE ~seen.sidecars
  <2>1. /\ Becomes([seen EXCEPT !.files[Partial[fresh]] = fresh]) /\ Copied(fresh)
        /\ pc' = "prepare"
    BY <1>1, <1>3 DEF Copy
  <2>2. /\ seen'.files[Target] = seen.files[Target] /\ seen'.journal = None
        /\ seen'.sidecars = seen.sidecars /\ disk' = {seen, seen'}
    BY <1>1, <2>1, NamesApart DEF Becomes, Directory
  <2>3. Quiet /\ Quiet'
    BY <1>1, <2>2 DEF Quiet
  <2>4. seen.files[Target] # None => content'[seen.files[Target]] = content[seen.files[Target]]
    <3>1. Sound(seen)
      BY <1>1 DEF IInv, Images
    <3>2. seen.files[Target] # None => seen.files[Target] # fresh
      BY <1>1, <3>1, BoundsAssumption, NamesApart DEF Sound, Inode
    <3>3. QED
      BY <2>1, <3>2 DEF Copied, IInv, TypeOK
  <2>5. ContentOf(seen.files[Target])' = ContentOf(seen.files[Target])
    BY <2>2, <2>4 DEF ContentOf
  <2>6. Opened' = Opened /\ ~Answered'
    BY <1>1, <2>1, <2>2 DEF Opened, Answered
  <2>7. QED
    BY <2>3, <2>5, <2>6, QuietSwaps
<1>4. QED
  BY <1>2, <1>3

LEMMA PrepareSwaps ==
  ASSUME IInv, IInv', Prepare
  PROVE  [Swap!Next]_(Swap!swapVars)
<1>1. UNCHANGED <<seen, disk, open>> /\ pc' # "idle"
  BY DEF Prepare, Fail, EndWith
<1>2. content' = content
  BY DEF Prepare, WroteThrough, IInv, TypeOK
<1>3. Opened' = Opened /\ ~Answered'
  BY <1>1 DEF Opened, Answered
<1>4. QED
  BY <1>1, <1>2, <1>3, UnchangedSwaps

LEMMA WriteJournalSwaps ==
  ASSUME IInv, IInv', WriteJournal
  PROVE  [Swap!Next]_(Swap!swapVars)
<1>0. PICK j : j = [copy |-> call.copy, old |-> seen.files[Target], rollback |-> call.rollback]
  OBVIOUS
<1>1. /\ pc = "writeJournal" /\ Quiet /\ seen \in disk /\ seen \in Directory /\ ~open /\ ~open'
      /\ ~seen.sidecars /\ content' = content
      /\ Becomes([seen EXCEPT !.journal = j]) /\ pc' # "idle"
  BY <1>0 DEF WriteJournal, At, IInv, TypeOK, RestoreProgress, Before, fileVars
<1>2. /\ seen'.journal = j /\ seen'.sidecars = seen.sidecars /\ seen' \in disk'
      /\ j.old = seen.files[Target] /\ j # None
  <2>1. /\ seen'.journal = j /\ seen'.sidecars = seen.sidecars /\ seen' \in disk'
        /\ j.old = seen.files[Target]
    BY <1>0, <1>1 DEF Becomes, Directory
  <2>2. pc' \in {"linkRollback", "linkTarget"}
    BY DEF WriteJournal
  <2>3. seen'.journal # None
    BY <2>2 DEF IInv, TypeOK
  <2>4. QED
    BY <2>1, <2>3
<1>3. ~Pending /\ Store = ContentOf(seen.files[Target])
  BY <1>1, StoreWhenQuiet
<1>4. Pending' /\ Store' = Store
  <2>1. (Journals = {j})'
    BY <1>1, <1>2 DEF Journals, Becomes, Quiet
  <2>2. Pending' /\ Unsettled' = j
    BY <2>1 DEF Pending, Unsettled
  <2>3. QED
    BY <1>1, <1>2, <1>3, <2>2 DEF Store, ContentOf
<1>5. /\ ~(open \/ seen.sidecars) /\ ~(open \/ seen.sidecars)' /\ ~Answered /\ ~Answered'
  BY <1>1, <1>2 DEF Answered
<1>6. Swap!Begin
  BY <1>3, <1>4, <1>5 DEF Swap!Begin, Answered
<1>7. QED
  BY <1>6 DEF Swap!Next

LEMMA DropJournalSwaps ==
  ASSUME IInv, IInv', DropJournal
  PROVE  [Swap!Next]_(Swap!swapVars)
<1>1. /\ seen \in disk' /\ seen \in disk /\ seen.journal # None /\ content' = content
      /\ seen'.sidecars = seen.sidecars /\ open' = open /\ pc' # "idle"
  BY DEF DropJournal, At, Changes, Becomes, IInv, TypeOK, Directory, fileVars
<1>2. Opened' = Opened /\ ~Answered'
  BY <1>1 DEF Opened, Answered
<1>3. QED
  BY <1>1, <1>2, PendingSwaps

LEMMA CleanUpSwaps ==
  ASSUME IInv, IInv', CleanUp
  PROVE  [Swap!Next]_(Swap!swapVars)
<1>0. PICK d : d = IF call.copy # None /\ seen.journal = None
                   THEN [seen EXCEPT !.files[Partial[call.copy]] = None] ELSE seen
  OBVIOUS
<1>1. /\ Becomes(d) /\ content' = content /\ open' = open /\ pc' # "idle"
      /\ seen \in Directory /\ call.copy \in Inode \cup {None}
  BY <1>0 DEF CleanUp, IInv, TypeOK, Call, fileVars
<1>2. /\ d.files[Target] = seen.files[Target] /\ d.journal = seen.journal
      /\ d.sidecars = seen.sidecars
  BY <1>0, <1>1, NamesApart DEF Directory
<1>3. seen' = d /\ disk' = disk \cup {d}
  BY <1>1 DEF Becomes
<1>4. Opened' = Opened /\ ~Answered'
  BY <1>1, <1>2, <1>3 DEF Opened, Answered
<1>5. CASE Quiet
  <2>1. Quiet'
    BY <1>2, <1>3, <1>5 DEF Quiet, IInv, TypeOK
  <2>2. ContentOf(seen.files[Target])' = ContentOf(seen.files[Target])
    BY <1>1, <1>2, <1>3 DEF ContentOf
  <2>3. QED
    BY <1>4, <1>5, <2>1, <2>2, QuietSwaps
<1>6. CASE ~Quiet
  <2>1. PICK e \in disk : e.journal # None
    BY <1>6 DEF Quiet
  <2>2. QED
    BY <1>1, <1>3, <1>4, <2>1, PendingSwaps
<1>7. QED
  BY <1>5, <1>6

LEMMA KillSwaps ==
  ASSUME IInv, IInv', Kill
  PROVE  [Swap!Next]_(Swap!swapVars)
<1>1. UNCHANGED <<seen, disk, content>> /\ open' = FALSE /\ result' = "none"
  BY DEF Kill, Dies
<1>2. Opened' = Opened
  <2>1. open => seen.sidecars
    BY DEF IInv, StoreProgress
  <2>2. Opened' <=> Opened
    BY <1>1, <2>1 DEF Opened
  <2>3. QED
    BY <2>2 DEF Opened
<1>3. ~Answered'
  BY <1>1 DEF Answered
<1>4. QED
  BY <1>1, <1>2, <1>3, UnchangedSwaps

(* A loss of power.                                                        *)
LEMMA PowerLossSwaps ==
  ASSUME IInv, IInv', PowerLoss
  PROVE  [Swap!Next]_(Swap!swapVars)
<1>1. PICK d \in disk : Synced(d)
  BY DEF PowerLoss
<1>2. /\ seen' = d /\ disk' = {d} /\ d \in Directory /\ seen \in disk /\ seen \in Directory
      /\ open' = FALSE /\ ~Answered' /\ Sound(d)
  BY <1>1 DEF Synced, PowerLoss, Dies, Answered, IInv, TypeOK, Images
<1>3. \A i \in Inode : Durable(i) => content'[i] = content[i]
  BY DurableOutlasts
<1>4. (Opened' <=> d.sidecars) /\ (Opened <=> seen.sidecars)
  BY <1>2 DEF Opened, IInv, StoreProgress
<1>5. CASE ~Quiet
  <2>1. PICK e \in disk : e.journal # None
    BY <1>5 DEF Quiet
  <2>2. \A g \in disk : ~g.sidecars
    BY <2>1 DEF IInv, Images, Agree, Sound, SoundJournal, Recoverable
  <2>3. Opened' = Opened
    <3>1. ~Opened' /\ ~Opened
      BY <1>2, <1>4, <2>2
    <3>2. QED
      BY <1>2, <3>1 DEF Opened
  <2>4. CASE d.journal # None
    <3>1. Pending /\ Store = ContentOf(d.journal.old)
      BY <2>4, StoreWhenPending
    <3>2. Pending' /\ Unsettled' = d.journal
      <4>1. (Journals = {d.journal})'
        BY <1>2, <2>4 DEF Journals
      <4>2. QED
        BY <4>1 DEF Pending, Unsettled
    <3>3. d.journal.old # None => content'[d.journal.old] = content[d.journal.old]
      BY <1>2, <1>3, <2>4 DEF Sound, SoundJournal, Directory, Journal
    <3>4. Store' = Store
      BY <3>1, <3>2, <3>3 DEF Store, ContentOf
    <3>5. QED
      BY <1>2, <2>3, <3>1, <3>2, <3>4, Stutters
  <2>5. CASE d.journal = None
    <3>1. Quiet'
      BY <1>2, <2>5 DEF Quiet
    <3>2. QED
      BY <1>2, <1>3, <1>5, <2>3, <3>1, SettleSwaps
  <2>6. QED
    BY <2>4, <2>5
<1>6. CASE Quiet
  <2>1. Quiet' /\ d.files[Target] = seen.files[Target] /\ Sound(seen)
    BY <1>2, <1>6 DEF Quiet, IInv, Images
  <2>2. seen.sidecars => d.sidecars /\ d.files[Target] # None /\ ~Answered
    <3>1. seen.sidecars => d.sidecars /\ ~Answered
      BY DEF IInv, Images, StoreProgress, Answered
    <3>2. QED
      BY <1>2, <3>1 DEF Sound
  <2>3. CASE seen.sidecars
    BY <1>2, <1>4, <1>6, <2>1, <2>2, <2>3, WriteSwaps
  <2>4. CASE ~seen.sidecars
    <3>1. ContentOf(seen.files[Target])' = ContentOf(seen.files[Target])
      <4>1. seen.files[Target] \in Inode \cup {None}
        BY <1>2, NamesApart DEF Directory
      <4>2. seen.files[Target] # None =>
              content'[seen.files[Target]] = content[seen.files[Target]]
        BY <1>3, <2>1, <2>4, <4>1 DEF Sound
      <4>3. QED
        BY <1>2, <2>1, <4>2 DEF ContentOf
    <3>2. CASE ~d.sidecars
      <4>1. Opened' = Opened
        BY <1>2, <1>4, <2>4, <3>2 DEF Opened
      <4>2. QED
        BY <1>2, <1>6, <2>1, <3>1, <4>1, QuietSwaps
    <3>3. CASE d.sidecars
      <4>1. ~Pending /\ Store = ContentOf(seen.files[Target])
        BY <1>6, StoreWhenQuiet
      <4>2. ~Pending' /\ Store' = ContentOf(seen.files[Target])'
        BY <2>1, PendingWhen DEF Store, ContentOf, Pending, Journals, Quiet
      <4>3. Store # None
        <5>1. seen.files[Target] # None /\ seen.files[Target] \in Inode
          BY <1>2, <2>1, <3>3, NamesApart DEF Sound, Directory
        <5>2. content[seen.files[Target]] \in Content
          BY <5>1 DEF IInv, TypeOK
        <5>3. QED
          BY <4>1, <5>1, <5>2, ContentAssumption DEF ContentOf, Content
      <4>4. ~Answered
        <5>1. result = "restored" => d = seen
          BY DEF IInv, StoreProgress
        <5>2. QED
          BY <2>4, <3>3, <5>1 DEF Answered
      <4>5. (Pending' = Pending) /\ (Answered' = Answered)
        BY <1>2, <4>1, <4>2, <4>4 DEF Pending, Answered
      <4>6. (open \/ seen.sidecars)' /\ ~(open \/ seen.sidecars)
        BY <1>4, <2>4, <3>3 DEF Opened
      <4>7. IF Store = None THEN Store' \in Content ELSE Store' = Store
        BY <3>1, <4>1, <4>2, <4>3
      <4>8. Swap!Open
        BY <4>1, <4>5, <4>6, <4>7 DEF Swap!Open, Answered
      <4>9. QED
        BY <4>8 DEF Swap!Next
    <3>4. QED
      BY <3>2, <3>3
  <2>5. QED
    BY <2>3, <2>4
<1>7. QED
  BY <1>5, <1>6

LEMMA InitSwaps == Init => Swap!Init
<1> SUFFICES ASSUME Init PROVE Swap!Init
  OBVIOUS
<1>1. IInv
  BY InitInvariant
<1>2. /\ disk = {seen} /\ seen.journal = None /\ seen.sidecars = FALSE /\ open = FALSE
      /\ result = "none"
  BY DEF Init
<1>3. Quiet
  BY <1>2 DEF Quiet
<1>4. ~Pending /\ Store = ContentOf(seen.files[Target])
  BY <1>3, StoreWhenQuiet
<1>5. Store \in Content \cup {None}
  <2>1. seen.files[Target] \in Inode \cup {None}
    BY <1>1, NamesApart DEF IInv, TypeOK, Directory
  <2>2. seen.files[Target] \in Inode => content[seen.files[Target]] \in Content
    BY <1>1 DEF IInv, TypeOK
  <2>3. QED
    BY <1>4, <2>1, <2>2 DEF ContentOf
<1>6. ~(open \/ seen.sidecars) /\ ~Answered
  BY <1>2 DEF Answered
<1>7. QED
  BY <1>4, <1>5, <1>6 DEF Swap!Init, Answered

(* Restores, recoveries and openings (restoreEventStoreBackup,             *)
(* recoverEventStoreRestore, MagicAgentEventStore) keep to StoreSwap: the  *)
(* store ends up as what it was or as the backup, is not opened before,    *)
(* and what is written to it afterwards no late recovery takes back.       *)
THEOREM ImplementsSwap == Spec => KeepsSwap
<1>1. ASSUME IInv, IInv', [Next]_vars
      PROVE  [Swap!Next]_(Swap!swapVars)
  <2>1. CASE Lock \/ Return \/ SyncDirectory
    BY <1>1, <2>1, SyncsSwap
  <2>2. CASE Open \/ Create \/ Write \/ Close
    BY <1>1, <2>2, OpensSwap, CreateSwaps, WritesSwap, CloseSwaps
  <2>3. CASE \/ CallRecover \/ Inspect \/ Doubt \/ End \/ Throw
             \/ \E r \in Rollback : CallRestore(r)
    BY <1>1, <2>3, CallSwaps
  <2>4. CASE Copy \/ Prepare \/ WriteJournal \/ DropJournal \/ CleanUp
    BY <1>1, <2>4, CopySwaps, PrepareSwaps, WriteJournalSwaps, DropJournalSwaps, CleanUpSwaps
  <2>5. CASE \/ LinkRollback \/ UnlinkTarget \/ LinkTarget \/ Verify \/ DropPartial
             \/ Undo \/ PutBack
    BY <1>1, <2>5, JournalStepsSwap
  <2>6. CASE Kill \/ PowerLoss
    BY <1>1, <2>6, KillSwaps, PowerLossSwaps
  <2>7. CASE UNCHANGED vars
    <3>1. UNCHANGED <<seen, disk, content>> /\ Opened' = Opened /\ (Answered' => Answered)
      BY <2>7 DEF vars, fileVars, callVars, Opened, Answered
    <3>2. QED
      BY <3>1, UnchangedSwaps
  <2>8. QED
    BY <1>1, <2>1, <2>2, <2>3, <2>4, <2>5, <2>6, <2>7 DEF Next
<1>2. QED
  BY <1>1, InitSwaps, Invariant, PTL DEF Spec, KeepsSwap, Swap!Spec
=============================================================================
