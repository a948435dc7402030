---------------------------- MODULE ReviewProofs ----------------------------
(* Theorems about the snapshot store and its mutation core (module Store),  *)
(* and about the review queue that works on it (module Review).  What       *)
(* several review processes do to each other's rows is left to the runs:    *)
(* the theorems about the queue that need a single one say so.              *)
EXTENDS Review, Naturals, TLAPS, WellFoundedInduction

(***************************************************************************)
(* Types.  An open transaction is one mutation of one artifact, working on *)
(* its copy of the database.  It may have been asked for by a row of the   *)
(* review queue, which archives and makes cold: StoreStep is what the      *)
(* store does with or without a queue on top of it.                        *)
(***************************************************************************)
Hash == Content \cup {None}
Gone == {"cold", "archived"}
Recs == Nat \cup {NoRec}

OpenTx ==
  [op : {"archive", "restore"}, art : Artifact, target : Lifecycle,
   at : {"begin", "captured", "hashed", "ready", "written"},
   hash : Hash, rec : Recs, view : Database]

TxOK == tx = NoTx \/ tx \in OpenTx

TypeInv == StoreTypeOK /\ TxOK

Begins(a) ==
  RestoreBegin(a) \/ \E target \in Gone, rec \in Recs : ArchiveBegin(a, target, rec)

StoreStep ==
  \/ \E a \in Artifact :
       \/ Begins(a)
       \/ \E b \in BOOLEAN : Pin(a, b) \/ Unpin(a, b)
       \/ Ingest(a)
       \/ \E k \in Hash : Edit(a, k)
  \/ Mutate \/ ArchiveCommit \/ RestoreCommit \/ Abort

LEMMA OwnSteps == StoreNext => StoreStep
<1>1. "archived" \in Gone /\ NoRec \in Recs
  BY DEF Gone, Recs
<1>2. ASSUME NEW a \in Artifact, ArchiveBegin(a, "archived", NoRec)
      PROVE  Begins(a)
  BY <1>1, <1>2 DEF Begins
<1>3. QED
  BY <1>2 DEF StoreNext, StoreOps, StoreStep, Begins, Hash

\* A mutation begins with a copy of the database.
LEMMA Begun ==
  ASSUME NEW a \in Artifact, Begins(a)
  PROVE  /\ ~Open /\ UNCHANGED <<disk, blobs, db, replaced, torn>>
         /\ tx'.view = db /\ tx'.art = a
         /\ \/ tx'.op = "archive" /\ tx'.target \in Gone /\ tx'.at = "begin"
            \/ /\ tx'.op = "restore" /\ tx'.hash = db.current[a]
               /\ tx'.rec = NoRec
               /\ tx'.at = IF Rewrites(a) THEN "begin" ELSE "ready"
<1>1. CASE RestoreBegin(a)
  BY <1>1 DEF RestoreBegin, Opens, Lock, files
<1>2. ASSUME NEW target \in Gone, NEW rec \in Recs, ArchiveBegin(a, target, rec)
      PROVE  /\ ~Open /\ UNCHANGED <<disk, blobs, db, replaced, torn>>
             /\ tx'.view = db /\ tx'.art = a
             /\ tx'.op = "archive" /\ tx'.target \in Gone /\ tx'.at = "begin"
  BY <1>2 DEF ArchiveBegin, Opens, Lock, files
<1>3. QED
  BY <1>1, <1>2 DEF Begins

\* Storing a snapshot adds one object and one snapshot row, nothing else.
LEMMA CapturedAdds ==
  ASSUME NEW d \in Database, NEW a \in Artifact,
         disk \in [Artifact -> Hash], disk[a] # None
  PROVE  /\ Captured(d, a) \in Database
         /\ Captured(d, a).cas = d.cas \cup {disk[a]}
         /\ Captured(d, a).snaps = d.snaps \cup {<<a, disk[a]>>}
         /\ Captured(d, a).life = d.life
         /\ Captured(d, a).saved = d.saved
         /\ Captured(d, a).current = d.current
<1>1. /\ d.cas \cup {disk[a]} \in SUBSET Content
      /\ d.snaps \cup {<<a, disk[a]>>} \in SUBSET (Artifact \X Content)
  BY DEF Database, Hash
<1>2. QED
  BY <1>1 DEF Captured, Database

LEMMA StoredBlobsAdds ==
  ASSUME NEW d, NEW k
  PROVE  /\ blobs \subseteq StoredBlobs(d, k)
         /\ StoredBlobs(d, k) \subseteq blobs \cup ({k} \cap Large)
BY DEF StoredBlobs

\* With a transaction open its fields have their types.
LEMMA OpenTyped ==
  ASSUME TypeInv, Open
  PROVE  /\ tx \in OpenTx
         /\ tx.op \in {"archive", "restore"} /\ tx.art \in Artifact
         /\ tx.hash \in Hash /\ tx.view \in Database /\ tx.target \in Lifecycle
BY DEF TypeInv, TxOK, Open, NoTx, OpenTx

LEMMA TypeInit == StoreInit => TypeInv
<1> SUFFICES ASSUME StoreInit PROVE TypeInv
  OBVIOUS
<1>1. db \in Database
  BY DEF StoreInit, Database, Lifecycle
<1>2. tx = NoTx /\ ~Open
  BY DEF StoreInit, Open, NoTx
<1>3. QED
  BY <1>1, <1>2 DEF StoreInit, TypeInv, StoreTypeOK, TxOK

LEMMA TypeBegin ==
  ASSUME TypeInv, NEW a \in Artifact, Begins(a)
  PROVE  TypeInv'
<1>1. /\ disk \in [Artifact -> Hash] /\ blobs \subseteq Large /\ db \in Database
      /\ db.current[a] \in Hash
  BY DEF TypeInv, StoreTypeOK, Hash, Database
<1>2. tx' \in OpenTx
  <2>1. ASSUME NEW target \in Gone, NEW rec \in Recs, ArchiveBegin(a, target, rec)
        PROVE  tx' \in OpenTx
    BY <1>1, <2>1 DEF ArchiveBegin, Opens, OpenTx, Lifecycle, Gone, Hash
  <2>2. CASE RestoreBegin(a)
    <3>1. Opens("restore", a, "active", NoRec) \in OpenTx
      BY <1>1 DEF Opens, OpenTx, Lifecycle, Recs, Hash
    <3>2. QED
      BY <1>1, <2>2, <3>1 DEF RestoreBegin, OpenTx
  <2>3. QED
    BY <2>1, <2>2 DEF Begins
<1>3. tx'.op \in {"archive", "restore"} /\ tx'.view \in Database
  BY <1>2 DEF OpenTx
<1>4. QED
  BY <1>1, <1>2, <1>3, Begun DEF TypeInv, StoreTypeOK, TxOK, Open, Hash

LEMMA TypeMutate ==
  ASSUME TypeInv, Mutate
  PROVE  TypeInv'
<1>1. /\ disk \in [Artifact -> Hash] /\ blobs \subseteq Large /\ db \in Database
      /\ Open
  BY DEF TypeInv, StoreTypeOK, Hash, Mutate, Open, ArchiveCapture, ArchiveHash,
         ArchiveWithoutFile, RestoreCapture, RestoreWrite
<1>2. tx \in OpenTx /\ tx.art \in Artifact /\ tx.view \in Database /\ tx.hash \in Hash
  BY <1>1, OpenTyped
<1>3. ASSUME Capture(tx.art),
             tx' = [tx EXCEPT !.view = Captured(tx.view, tx.art), !.at = "captured"]
      PROVE  tx' \in OpenTx /\ blobs' \subseteq Large
  BY <1>1, <1>2, <1>3, CapturedAdds, StoredBlobsAdds DEF Capture, OpenTx
<1>4. /\ tx' \in OpenTx /\ blobs' \subseteq Large
      /\ disk' \in [Artifact -> Hash] /\ db' = db
  <2>1. CASE ArchiveCapture
    BY <1>1, <1>3, <2>1 DEF ArchiveCapture
  <2>2. CASE ArchiveHash
    BY <1>1, <1>2, <2>2 DEF ArchiveHash, OpenTx, files
  <2>3. CASE ArchiveWithoutFile
    <3>1. KeptHash(tx.view, tx.art) \in Hash
      BY <1>2 DEF KeptHash, Database, Hash
    <3>2. QED
      BY <1>1, <1>2, <2>3, <3>1 DEF ArchiveWithoutFile, OpenTx, files
  <2>4. CASE RestoreCapture
    <3>1. CASE disk[tx.art] = None
      BY <1>1, <1>2, <2>4, <3>1 DEF RestoreCapture, OpenTx
    <3>2. CASE disk[tx.art] # None
      BY <1>1, <1>3, <2>4, <3>2 DEF RestoreCapture
    <3>3. QED
      BY <3>1, <3>2
  <2>5. CASE RestoreWrite
    BY <1>1, <1>2, <2>5 DEF RestoreWrite, OpenTx
  <2>6. QED
    BY <2>1, <2>2, <2>3, <2>4, <2>5 DEF Mutate
<1>5. tx'.op \in {"archive", "restore"} /\ tx'.view \in Database
  BY <1>4 DEF OpenTx
<1>6. QED
  BY <1>1, <1>4, <1>5 DEF TypeInv, StoreTypeOK, TxOK, Open, Hash

\* What a transaction publishes.
LEMMA CommitType ==
  ASSUME TypeInv, Open, NEW l \in Lifecycle
  PROVE  LET d == [tx.view EXCEPT !.life[tx.art] = l, !.saved[tx.art] = tx.hash]
         IN  /\ d \in Database
             /\ d.cas = tx.view.cas /\ d.snaps = tx.view.snaps
             /\ d.current = tx.view.current
             /\ d.life = [tx.view.life EXCEPT ![tx.art] = l]
             /\ d.saved = [tx.view.saved EXCEPT ![tx.art] = tx.hash]
BY OpenTyped DEF Database, Hash

\* ArchiveCommit and RestoreCommit in one form.
LEMMA Committed ==
  ASSUME TypeInv, ArchiveCommit \/ RestoreCommit
  PROVE  /\ Open /\ tx' = NoTx /\ UNCHANGED <<disk, blobs, replaced, torn>>
         /\ \E l \in Lifecycle :
              /\ l = IF ArchiveCommit THEN tx.target ELSE "active"
              /\ db' = [tx.view EXCEPT !.life[tx.art] = l, !.saved[tx.art] = tx.hash]
<1>1. Open /\ tx' = NoTx /\ UNCHANGED <<disk, blobs, replaced, torn>>
  BY DEF ArchiveCommit, RestoreCommit, Open, Commit, files
<1>2. tx.target \in Lifecycle
  BY <1>1, OpenTyped
<1>3. CASE ArchiveCommit
  BY <1>1, <1>2, <1>3 DEF ArchiveCommit, Commit, Archived
<1>4. CASE RestoreCommit /\ ~ArchiveCommit
  BY <1>1, <1>4 DEF RestoreCommit, Commit, Lifecycle
<1>5. QED
  BY <1>1, <1>3, <1>4

LEMMA TypeNext ==
  ASSUME TypeInv, [StoreStep]_storeVars
  PROVE  TypeInv'
<1>1. /\ disk \in [Artifact -> Hash] /\ blobs \subseteq Large /\ db \in Database
  BY DEF TypeInv, StoreTypeOK, Hash
<1>2. ASSUME NEW a \in Artifact, Begins(a)
      PROVE  TypeInv'
  BY <1>2, TypeBegin
<1>3. ASSUME NEW a \in Artifact, NEW b \in BOOLEAN, Pin(a, b) \/ Unpin(a, b)
      PROVE  TypeInv'
  <2>1. db' \in Database
    <3>1. CASE Pin(a, b)
      <4>1. db.pinned \cup {a} \in SUBSET Artifact
        BY <1>1 DEF Database
      <4>2. (IF b THEN db.critical \cup {a} ELSE db.critical) \in SUBSET Artifact
        BY <1>1 DEF Database
      <4>3. Pinned(db, a, b) \in Database
        BY <1>1, <4>1, <4>2 DEF Pinned, Database
      <4>4. QED
        BY <3>1, <4>3 DEF Pin
    <3>2. CASE Unpin(a, b)
      BY <1>1, <3>2 DEF Unpin, Database
    <3>3. QED
      BY <1>3, <3>1, <3>2
  <2>2. disk' = disk /\ blobs' = blobs /\ tx' = tx
    BY <1>3 DEF Pin, Unpin, files
  <2>3. QED
    BY <2>1, <2>2 DEF TypeInv, StoreTypeOK, TxOK, Open
<1>4. ASSUME NEW a \in Artifact, Ingest(a)
      PROVE  TypeInv'
  <2>1. db' \in Database
    BY <1>1, <1>4 DEF Ingest, Database, Hash
  <2>2. disk' = disk /\ blobs' = blobs /\ tx' = tx
    BY <1>4 DEF Ingest, files
  <2>3. QED
    BY <2>1, <2>2 DEF TypeInv, StoreTypeOK, TxOK, Open
<1>5. ASSUME NEW a \in Artifact, NEW k \in Hash, Edit(a, k)
      PROVE  TypeInv'
  <2>1. disk' \in [Artifact -> Hash] /\ blobs' = blobs /\ tx' = tx /\ db' = db
    BY <1>1, <1>5 DEF Edit
  <2>2. QED
    BY <2>1 DEF TypeInv, StoreTypeOK, TxOK, Open, Hash
<1>6. CASE Mutate
  BY <1>6, TypeMutate
<1>7. CASE ArchiveCommit \/ RestoreCommit
  <2>1. db' \in Database
    BY <1>7, Committed, CommitType
  <2>2. disk' = disk /\ blobs' = blobs /\ tx' = NoTx
    BY <1>7, Committed
  <2>3. QED
    BY <2>1, <2>2 DEF TypeInv, StoreTypeOK, TxOK, Open, NoTx
<1>8. CASE Abort
  BY <1>8 DEF Abort, TypeInv, StoreTypeOK, TxOK, Open, NoTx, files
<1>9. CASE UNCHANGED storeVars
  BY <1>9 DEF storeVars, TypeInv, StoreTypeOK, TxOK, Open
<1>10. QED
  BY <1>2, <1>3, <1>4, <1>5, <1>6, <1>7, <1>8, <1>9
     DEF StoreStep

\* Every reachable state is well typed: blobs/ holds large contents only, and
\* an open transaction works on a well-formed copy of the database.
THEOREM StoreTypeCorrect == StoreSpec => []StoreTypeOK
<1>1. StoreInit => TypeInv
  BY TypeInit
<1>2. TypeInv /\ [StoreStep]_storeVars => TypeInv'
  BY TypeNext
<1>3. TypeInv => StoreTypeOK
  BY DEF TypeInv
<1>4. QED
  BY <1>1, <1>2, <1>3, OwnSteps, PTL DEF StoreSpec

(***************************************************************************)
(* The object store.  The copy an open transaction works on has to be as   *)
(* sound as the committed database: it is what the commit publishes.       *)
(***************************************************************************)
Sound(d, held) ==
  /\ d.cas \cap Large \subseteq held
  /\ \A s \in d.snaps : s[2] \in d.cas

StoreInv ==
  /\ TypeInv
  /\ Sound(db, blobs)
  /\ Open => Sound(tx.view, blobs)

LEMMA SoundInit == StoreInit => StoreInv
<1> SUFFICES ASSUME StoreInit PROVE StoreInv
  OBVIOUS
<1>1. Sound(db, blobs) /\ ~Open
  BY DEF StoreInit, Sound, Open, NoTx
<1>2. QED
  BY <1>1, TypeInit DEF StoreInv

\* More files keep every object loadable.
LEMMA SoundGrows ==
  ASSUME NEW d, NEW B, NEW C, B \subseteq C, Sound(d, B)
  PROVE  Sound(d, C)
BY DEF Sound

\* The snapshot of a file that is there keeps the copy sound: a large content
\* has its file before its row, and one that has its row has its file.
LEMMA SoundCaptured ==
  ASSUME StoreInv, Open, Capture(tx.art)
  PROVE  Sound(Captured(tx.view, tx.art), blobs') /\ blobs \subseteq blobs'
<1>1. /\ tx.art \in Artifact /\ tx.view \in Database /\ disk \in [Artifact -> Hash]
      /\ Sound(tx.view, blobs)
  BY OpenTyped DEF StoreInv, TypeInv, StoreTypeOK, Hash
<1>2. /\ Captured(tx.view, tx.art).cas = tx.view.cas \cup {disk[tx.art]}
      /\ Captured(tx.view, tx.art).snaps
           = tx.view.snaps \cup {<<tx.art, disk[tx.art]>>}
  BY <1>1, CapturedAdds DEF Capture
<1>3. blobs' = StoredBlobs(tx.view, disk[tx.art]) /\ blobs \subseteq blobs'
  BY StoredBlobsAdds DEF Capture
<1>4. (tx.view.cas \cup {disk[tx.art]}) \cap Large \subseteq blobs'
  BY <1>1, <1>3 DEF Sound, StoredBlobs
<1>5. QED
  BY <1>1, <1>2, <1>3, <1>4 DEF Sound

LEMMA SoundMutate ==
  ASSUME StoreInv, Mutate
  PROVE  /\ db' = db /\ Open' /\ blobs \subseteq blobs'
         /\ Sound(tx'.view, blobs')
<1>1. Open /\ tx \in OpenTx /\ Sound(tx.view, blobs)
  <2>1. Open
    BY DEF Mutate, Open, ArchiveCapture, ArchiveHash, ArchiveWithoutFile,
           RestoreCapture, RestoreWrite
  <2>2. QED
    BY <2>1, OpenTyped DEF StoreInv
<1>2. ASSUME Capture(tx.art),
             tx' = [tx EXCEPT !.view = Captured(tx.view, tx.art), !.at = "captured"]
      PROVE  /\ blobs \subseteq blobs' /\ tx'.op = tx.op
             /\ Sound(tx'.view, blobs')
  BY <1>1, <1>2, SoundCaptured DEF OpenTx
<1>3. /\ db' = db /\ blobs \subseteq blobs' /\ tx'.op = tx.op
      /\ Sound(tx'.view, blobs')
  <2>1. CASE ArchiveCapture
    BY <1>1, <1>2, <2>1 DEF ArchiveCapture
  <2>2. CASE ArchiveHash
    BY <1>1, <2>2 DEF ArchiveHash, OpenTx, files
  <2>3. CASE ArchiveWithoutFile
    BY <1>1, <2>3 DEF ArchiveWithoutFile, OpenTx, files
  <2>4. CASE RestoreCapture
    BY <1>1, <1>2, <2>4 DEF RestoreCapture, OpenTx
  <2>5. CASE RestoreWrite
    BY <1>1, <2>5 DEF RestoreWrite, OpenTx
  <2>6. QED
    BY <2>1, <2>2, <2>3, <2>4, <2>5 DEF Mutate
<1>4. QED
  BY <1>1, <1>3 DEF Open

LEMMA SoundNext ==
  ASSUME StoreInv, [StoreStep]_storeVars
  PROVE  StoreInv'
<1>1. TypeInv' /\ TypeInv /\ db \in Database /\ Sound(db, blobs)
  BY TypeNext DEF StoreInv, TypeInv, StoreTypeOK
<1>2. ASSUME blobs' = blobs, db' = db, ~Open' \/ tx' = tx
      PROVE  StoreInv'
  BY <1>1, <1>2 DEF StoreInv, Open
<1>3. ASSUME NEW a \in Artifact, Begins(a)
      PROVE  StoreInv'
  BY <1>1, <1>3, Begun DEF StoreInv
<1>4. ASSUME NEW a \in Artifact,
             (\E b \in BOOLEAN : Pin(a, b) \/ Unpin(a, b)) \/ Ingest(a)
      PROVE  StoreInv'
  <2>1. blobs' = blobs /\ tx' = tx /\ ~Open
    BY <1>4 DEF Pin, Unpin, Ingest, files, Lock
  <2>2. db'.cas = db.cas /\ db'.snaps = db.snaps
    BY <1>1, <1>4 DEF Pin, Unpin, Ingest, Pinned, Database
  <2>3. QED
    BY <1>1, <2>1, <2>2 DEF StoreInv, Sound, Open
<1>5. ASSUME NEW a \in Artifact, NEW k \in Hash, Edit(a, k)
      PROVE  StoreInv'
  BY <1>2, <1>5 DEF Edit
<1>6. CASE Mutate
  <2>1. Sound(db, blobs')
    BY <1>1, <1>6, SoundMutate, SoundGrows
  <2>2. QED
    BY <1>1, <1>6, <2>1, SoundMutate DEF StoreInv
<1>7. CASE ArchiveCommit \/ RestoreCommit
  <2>1. /\ Open /\ tx' = NoTx /\ blobs' = blobs
        /\ db'.cas = tx.view.cas /\ db'.snaps = tx.view.snaps
    BY <1>1, <1>7, Committed, CommitType
  <2>2. QED
    BY <1>1, <2>1 DEF StoreInv, Sound, Open, NoTx
<1>8. CASE Abort
  BY <1>2, <1>8 DEF Abort, files, Open, NoTx
<1>9. CASE UNCHANGED storeVars
  BY <1>2, <1>9 DEF storeVars
<1>10. QED
  BY <1>3, <1>4, <1>5, <1>6, <1>7, <1>8, <1>9 DEF StoreStep

\* Every object in the database can be loaded, and every snapshot row names
\* one, in every reachable state and so after a crash at any step: it rests on
\* store_bytes renaming the external file into place before it inserts the row.
THEOREM SnapshotsAlwaysLoad == StoreSpec => []SnapshotsLoad
<1>1. StoreInit => StoreInv
  BY SoundInit
<1>2. StoreInv /\ [StoreStep]_storeVars => StoreInv'
  BY SoundNext
<1>3. StoreInv => SnapshotsLoad
  BY DEF StoreInv, Sound, SnapshotsLoad, Loadable
<1>4. QED
  BY <1>1, <1>2, <1>3, OwnSteps, PTL DEF StoreSpec

(***************************************************************************)
(* Saving and bringing back.  These hold when nobody writes a document     *)
(* while its mutation is in progress: archive and restore look at the file *)
(* several times.  What has to be known of an open transaction: its copy   *)
(* differs from the database by what it captured only, and each phase      *)
(* fixes what is on disk.                                                  *)
(***************************************************************************)
Restorable(d) ==
  \A a \in Artifact : d.life[a] # "active" /\ d.saved[a] # None => d.saved[a] \in d.cas

CopyOK ==
  Open => /\ db.cas \subseteq tx.view.cas
          /\ tx.view.life = db.life
          /\ tx.view.saved = db.saved
          /\ tx.view.current = db.current

ArchiveOK ==
  tx.op = "archive" =>
    /\ tx.target \in Gone
    /\ tx.at \in {"begin", "captured", "hashed"}
    /\ tx.at # "begin" => disk[tx.art] \in tx.view.cas \cup {None}
    /\ tx.at = "hashed" => tx.hash \in tx.view.cas \cup {None}

RestoreOK ==
  tx.op = "restore" =>
    /\ tx.hash = db.current[tx.art]
    /\ tx.at \in {"begin", "captured", "written", "ready"}
    /\ tx.at = "captured" => disk[tx.art] \in tx.view.cas \cup {None}
    /\ tx.at = "written" => disk[tx.art] = tx.hash
    /\ tx.at = "ready" => ~Rewrites(tx.art)

Written == tx.op = "restore" /\ tx.at = "written"

SavedOK == ~torn => replaced \subseteq (IF Written THEN tx.view.cas ELSE db.cas)

QuietInv ==
  TypeInv /\ Restorable(db) /\ CopyOK /\ ArchiveOK /\ RestoreOK /\ SavedOK

LEMMA QuietInit == StoreInit => QuietInv
<1> SUFFICES ASSUME StoreInit PROVE QuietInv
  OBVIOUS
<1>1. tx.op = "none" /\ ~Open
  BY DEF StoreInit, Open, NoTx
<1>2. Restorable(db) /\ SavedOK
  BY DEF StoreInit, Restorable, SavedOK
<1>3. QED
  BY <1>1, <1>2, TypeInit DEF QuietInv, CopyOK, ArchiveOK, RestoreOK

\* No transaction is open: nothing but the database and the saved contents
\* is left to check.
LEMMA QuietClosed ==
  ASSUME TypeInv', ~Open', Restorable(db)', (~torn => replaced \subseteq db.cas)'
  PROVE  QuietInv'
BY DEF QuietInv, CopyOK, ArchiveOK, RestoreOK, SavedOK, Written, Open

\* A capture of the file of the open transaction.
LEMMA QuietCapture ==
  ASSUME QuietInv, Open, Capture(tx.art),
         tx' = [tx EXCEPT !.view = Captured(tx.view, tx.art), !.at = "captured"]
  PROVE  /\ tx'.op = tx.op /\ tx'.art = tx.art /\ tx'.hash = tx.hash
         /\ tx'.target = tx.target /\ tx'.at = "captured"
         /\ tx'.view.cas = tx.view.cas \cup {disk[tx.art]}
         /\ tx'.view.life = tx.view.life
         /\ tx'.view.saved = tx.view.saved
         /\ tx'.view.current = tx.view.current
<1>1. tx \in OpenTx /\ tx.art \in Artifact /\ tx.view \in Database
  BY OpenTyped DEF QuietInv
<1>2. disk \in [Artifact -> Hash] /\ disk[tx.art] # None
  BY DEF QuietInv, TypeInv, StoreTypeOK, Hash, Capture
<1>3. tx'.view = Captured(tx.view, tx.art)
  BY <1>1 DEF OpenTx
<1>4. QED
  BY <1>1, <1>2, <1>3, CapturedAdds DEF OpenTx

LEMMA QuietArchiveStep ==
  ASSUME QuietInv, TypeInv', ArchiveCapture \/ ArchiveHash \/ ArchiveWithoutFile
  PROVE  QuietInv'
<1>1. /\ Open /\ tx.op = "archive" /\ tx \in OpenTx
      /\ tx.art \in Artifact /\ tx.view \in Database
  <2>1. Open /\ tx.op = "archive"
    BY DEF Open, ArchiveCapture, ArchiveHash, ArchiveWithoutFile
  <2>2. QED
    BY <2>1, OpenTyped DEF QuietInv
<1>2. /\ db' = db /\ disk' = disk /\ replaced' = replaced /\ torn' = torn
      /\ tx'.op = "archive" /\ tx'.art = tx.art /\ tx'.target = tx.target
      /\ tx.view.cas \subseteq tx'.view.cas
      /\ tx'.view.life = tx.view.life
      /\ tx'.view.saved = tx.view.saved
      /\ tx'.view.current = tx.view.current
      /\ tx'.at \in {"captured", "hashed"}
      /\ disk[tx.art] \in tx'.view.cas \cup {None}
      /\ tx'.at = "hashed" => tx'.hash \in tx'.view.cas \cup {None}
  <2>1. CASE ArchiveCapture
    BY <1>1, <2>1, QuietCapture DEF ArchiveCapture
  <2>2. CASE ArchiveHash
    BY <1>1, <2>2 DEF ArchiveHash, OpenTx, files, QuietInv, ArchiveOK
  <2>3. CASE ArchiveWithoutFile
    <3>1. KeptHash(tx.view, tx.art) \in tx.view.cas \cup {None}
      BY DEF KeptHash
    <3>2. QED
      BY <1>1, <2>3, <3>1 DEF ArchiveWithoutFile, OpenTx, files
  <2>4. QED
    BY <2>1, <2>2, <2>3
<1>3. Restorable(db)'
  BY <1>2 DEF QuietInv, Restorable
<1>4. CopyOK' /\ ArchiveOK' /\ RestoreOK'
  BY <1>1, <1>2 DEF QuietInv, CopyOK, ArchiveOK, RestoreOK, Open
<1>5. SavedOK'
  BY <1>1, <1>2 DEF QuietInv, SavedOK, Written
<1>6. QED
  BY <1>3, <1>4, <1>5 DEF QuietInv

LEMMA QuietRestoreStep ==
  ASSUME QuietInv, TypeInv', RestoreCapture \/ RestoreWrite
  PROVE  QuietInv'
<1>1. /\ Open /\ tx.op = "restore" /\ tx \in OpenTx
      /\ tx.art \in Artifact /\ tx.view \in Database
      /\ disk \in [Artifact -> Hash]
  <2>1. Open /\ tx.op = "restore"
    BY DEF Open, RestoreCapture, RestoreWrite
  <2>2. QED
    BY <2>1, OpenTyped DEF QuietInv, TypeInv, StoreTypeOK, Hash
<1>2. /\ db' = db /\ torn' = torn
      /\ tx'.op = "restore" /\ tx'.art = tx.art /\ tx'.hash = tx.hash
      /\ tx.view.cas \subseteq tx'.view.cas
      /\ tx'.view.life = tx.view.life
      /\ tx'.view.saved = tx.view.saved
      /\ tx'.view.current = tx.view.current
      /\ tx'.at \in {"captured", "written"}
      /\ tx'.at = "captured" =>
           /\ replaced' = replaced /\ tx.at = "begin"
           /\ disk'[tx.art] \in tx'.view.cas \cup {None}
      /\ tx'.at = "written" =>
           /\ replaced' = replaced \cup ({disk[tx.art]} \ {None})
           /\ disk[tx.art] \in tx.view.cas \cup {None}
           /\ disk'[tx.art] = tx.hash /\ tx.at = "captured"
  <2>1. CASE RestoreCapture /\ disk[tx.art] = None
    BY <1>1, <2>1 DEF RestoreCapture, OpenTx
  <2>2. CASE RestoreCapture /\ disk[tx.art] # None
    <3>1. /\ Capture(tx.art)
          /\ tx' = [tx EXCEPT !.view = Captured(tx.view, tx.art), !.at = "captured"]
      BY <2>2 DEF RestoreCapture
    <3>2. UNCHANGED <<disk, db, replaced, torn>> /\ tx.at = "begin"
      BY <2>2 DEF RestoreCapture
    <3>3. QED
      BY <1>1, <3>1, <3>2, QuietCapture
  <2>3. CASE RestoreWrite
    <3>1. tx.at = "captured" /\ disk[tx.art] \in tx.view.cas \cup {None}
      BY <1>1, <2>3 DEF RestoreWrite, QuietInv, RestoreOK
    <3>2. QED
      BY <1>1, <2>3, <3>1 DEF RestoreWrite, OpenTx
  <2>4. QED
    BY <2>1, <2>2, <2>3
<1>3. Restorable(db)'
  BY <1>2 DEF QuietInv, Restorable
<1>4. CopyOK' /\ ArchiveOK' /\ RestoreOK'
  BY <1>1, <1>2 DEF QuietInv, CopyOK, ArchiveOK, RestoreOK, Open
<1>5. SavedOK'
  <2>1. CASE tx'.at = "captured"
    BY <1>1, <1>2, <2>1 DEF QuietInv, SavedOK, Written
  <2>2. CASE tx'.at = "written"
    <3>1. Written' /\ ~Written /\ db.cas \subseteq tx.view.cas
      BY <1>1, <1>2, <2>2 DEF QuietInv, CopyOK, Written
    <3>2. QED
      BY <1>1, <1>2, <2>2, <3>1 DEF QuietInv, SavedOK
  <2>3. QED
    BY <1>2, <2>1, <2>2
<1>6. QED
  BY <1>3, <1>4, <1>5 DEF QuietInv

\* A commit publishes a sound database and every content it wrote over.
LEMMA QuietCommit ==
  ASSUME QuietInv, TypeInv', ArchiveCommit \/ RestoreCommit
  PROVE  QuietInv'
<1>1. /\ Open /\ tx' = NoTx /\ replaced' = replaced /\ torn' = torn
      /\ tx \in OpenTx /\ tx.art \in Artifact /\ tx.view \in Database
  BY Committed, OpenTyped DEF QuietInv
<1>2. PICK l \in Lifecycle :
         /\ l = IF ArchiveCommit THEN tx.target ELSE "active"
         /\ db' = [tx.view EXCEPT !.life[tx.art] = l, !.saved[tx.art] = tx.hash]
  BY Committed DEF QuietInv
<1>3. /\ db'.cas = tx.view.cas
      /\ db'.life = [tx.view.life EXCEPT ![tx.art] = l]
      /\ db'.saved = [tx.view.saved EXCEPT ![tx.art] = tx.hash]
  BY <1>1, <1>2, CommitType DEF QuietInv
<1>4. /\ db.cas \subseteq tx.view.cas /\ tx.view.life = db.life
      /\ tx.view.saved = db.saved
  BY <1>1 DEF QuietInv, CopyOK
<1>5. l # "active" => tx.hash \in tx.view.cas \cup {None}
  BY <1>2 DEF QuietInv, ArchiveOK, ArchiveCommit, Gone
<1>6. tx.view.life \in [Artifact -> Lifecycle] /\ tx.view.saved \in [Artifact -> Hash]
  BY <1>1 DEF Database, Hash
<1>7. Restorable(db)'
  <2> SUFFICES ASSUME NEW a \in Artifact,
                      db'.life[a] # "active", db'.saved[a] # None
               PROVE  db'.saved[a] \in db'.cas
    BY DEF Restorable
  <2>1. CASE a = tx.art
    BY <1>1, <1>3, <1>5, <1>6, <2>1
  <2>2. CASE a # tx.art
    BY <1>1, <1>3, <1>4, <1>6, <2>2 DEF QuietInv, Restorable
  <2>3. QED
    BY <2>1, <2>2
<1>8. ~torn' => replaced' \subseteq db'.cas
  BY <1>1, <1>3, <1>4 DEF QuietInv, SavedOK
<1>9. ~Open'
  BY <1>1 DEF Open, NoTx
<1>10. QED
  BY <1>7, <1>8, <1>9, QuietClosed

LEMMA QuietBegin ==
  ASSUME QuietInv, TypeInv', NEW a \in Artifact, Begins(a)
  PROVE  QuietInv'
<1>1. Restorable(db)' /\ SavedOK'
  BY Begun DEF QuietInv, Restorable, SavedOK, Written, Open
<1>2. CopyOK' /\ ArchiveOK' /\ RestoreOK'
  BY Begun DEF CopyOK, ArchiveOK, RestoreOK, Rewrites
<1>3. QED
  BY <1>1, <1>2 DEF QuietInv

LEMMA QuietNext ==
  ASSUME ~EditsDuringTx, QuietInv, [StoreStep]_storeVars
  PROVE  QuietInv'
<1>1. TypeInv' /\ db \in Database
  BY TypeNext DEF QuietInv, TypeInv, StoreTypeOK
<1>2. ASSUME NEW a \in Artifact, Begins(a)
      PROVE  QuietInv'
  BY <1>1, <1>2, QuietBegin
<1>3. ASSUME NEW a \in Artifact,
             (\E b \in BOOLEAN : Pin(a, b) \/ Unpin(a, b)) \/ Ingest(a)
      PROVE  QuietInv'
  <2>1. tx' = tx /\ ~Open /\ replaced' = replaced /\ torn' = torn
    BY <1>3 DEF Pin, Unpin, Ingest, files, Lock
  <2>2. db'.cas = db.cas /\ db'.life = db.life /\ db'.saved = db.saved
    BY <1>1, <1>3 DEF Pin, Unpin, Ingest, Pinned, Database
  <2>3. Restorable(db)' /\ (~torn => replaced \subseteq db.cas)' /\ ~Open'
    BY <2>1, <2>2 DEF QuietInv, Restorable, SavedOK, Written, Open
  <2>4. QED
    BY <1>1, <2>3, QuietClosed
<1>4. ASSUME NEW a \in Artifact, NEW k \in Hash, Edit(a, k)
      PROVE  QuietInv'
  <2>1. tx' = tx /\ ~Open /\ db' = db /\ replaced' = replaced /\ torn' = torn
    BY <1>4 DEF Edit
  <2>2. Restorable(db)' /\ (~torn => replaced \subseteq db.cas)' /\ ~Open'
    BY <2>1 DEF QuietInv, Restorable, SavedOK, Written, Open
  <2>3. QED
    BY <1>1, <2>2, QuietClosed
<1>5. CASE Mutate
  BY <1>1, <1>5, QuietArchiveStep, QuietRestoreStep DEF Mutate
<1>6. CASE ArchiveCommit \/ RestoreCommit
  BY <1>1, <1>6, QuietCommit
<1>7. CASE Abort
  <2>1. /\ tx' = NoTx /\ db' = db /\ replaced' = replaced
        /\ torn' = (torn \/ Written)
    BY <1>7 DEF Abort, Written
  <2>2. Restorable(db)' /\ (~torn => replaced \subseteq db.cas)' /\ ~Open'
    BY <2>1 DEF QuietInv, Restorable, SavedOK, Open, NoTx
  <2>3. QED
    BY <1>1, <2>2, QuietClosed
<1>8. CASE UNCHANGED storeVars
  <2>1. db' = db /\ disk' = disk /\ tx' = tx /\ replaced' = replaced /\ torn' = torn
    BY <1>8 DEF storeVars
  <2>2. QED
    BY <1>1, <2>1 DEF QuietInv, Restorable, CopyOK, ArchiveOK, RestoreOK, SavedOK,
                      Written, Open, Rewrites
<1>9. QED
  BY <1>2, <1>3, <1>4, <1>5, <1>6, <1>7, <1>8 DEF StoreStep

\* While nobody writes documents under an open mutation, what archive reports
\* as restorable is in the store.
THEOREM RestorableMeansStored ==
  ASSUME ~EditsDuringTx
  PROVE  StoreSpec => []RestorableIsTrue
<1>1. StoreInit => QuietInv
  BY QuietInit
<1>2. QuietInv /\ [StoreStep]_storeVars => QuietInv'
  BY QuietNext
<1>3. QuietInv => RestorableIsTrue
  BY DEF QuietInv, Restorable, RestorableIsTrue
<1>4. QED
  BY <1>1, <1>2, <1>3, OwnSteps, PTL DEF StoreSpec

\* What restore writes over is saved, unless a process died between the rename
\* of the file and the commit: the pre_restore snapshot is part of the
\* transaction that publishes the restored state.
THEOREM RestoreSavesFirst ==
  ASSUME ~EditsDuringTx
  PROVE  StoreSpec => []OverwrittenIsSavedOrTorn
<1>1. StoreInit => QuietInv
  BY QuietInit
<1>2. QuietInv /\ [StoreStep]_storeVars => QuietInv'
  BY QuietNext
<1>3. QuietInv => OverwrittenIsSavedOrTorn
  BY DEF QuietInv, SavedOK, Written, OverwrittenIsSavedOrTorn, Open
<1>4. QED
  BY <1>1, <1>2, <1>3, OwnSteps, PTL DEF StoreSpec

\* Only a commit changes a lifecycle state.
LEMMA LifeChanges ==
  ASSUME QuietInv, [StoreStep]_storeVars, ~(ArchiveCommit \/ RestoreCommit)
  PROVE  db'.life = db.life
<1>1. db \in Database
  BY DEF QuietInv, TypeInv, StoreTypeOK
<1>2. ASSUME NEW a \in Artifact,
             (\E b \in BOOLEAN : Pin(a, b) \/ Unpin(a, b)) \/ Ingest(a)
      PROVE  db'.life = db.life
  BY <1>1, <1>2 DEF Pin, Unpin, Ingest, Pinned, Database
<1>3. ASSUME NEW a \in Artifact, Begins(a) \/ \E k \in Hash : Edit(a, k)
      PROVE  db' = db
  BY <1>3, Begun DEF Edit
<1>4. CASE Mutate \/ Abort \/ UNCHANGED storeVars
  BY <1>4 DEF Mutate, ArchiveCapture, ArchiveHash, ArchiveWithoutFile,
              RestoreCapture, RestoreWrite, Abort, storeVars
<1>5. QED
  BY <1>2, <1>3, <1>4 DEF StoreStep

\* A commit changes the lifecycle state of its artifact only.
LEMMA LifeCommitted ==
  ASSUME QuietInv, ArchiveCommit \/ RestoreCommit, NEW a \in Artifact,
         db'.life[a] # db.life[a]
  PROVE  /\ a = tx.art /\ disk' = disk
         /\ db'.cas = tx.view.cas
         /\ db'.life[a] # "active" => ArchiveCommit
         /\ db'.life[a] = "active" => RestoreCommit
<1>1. /\ Open /\ disk' = disk /\ tx.art \in Artifact /\ tx.view \in Database
  BY Committed, OpenTyped DEF QuietInv
<1>2. PICK l \in Lifecycle :
         /\ l = IF ArchiveCommit THEN tx.target ELSE "active"
         /\ db' = [tx.view EXCEPT !.life[tx.art] = l, !.saved[tx.art] = tx.hash]
  BY Committed DEF QuietInv
<1>3. /\ db'.cas = tx.view.cas
      /\ db'.life = [tx.view.life EXCEPT ![tx.art] = l]
  BY <1>1, <1>2, CommitType DEF QuietInv
<1>4. tx.view.life = db.life /\ tx.view.life \in [Artifact -> Lifecycle]
  BY <1>1 DEF QuietInv, CopyOK, Database
<1>5. a = tx.art /\ db'.life[a] = l
  BY <1>1, <1>3, <1>4
<1>6. l # "active" => ArchiveCommit
  BY <1>2
<1>7. l = "active" => RestoreCommit
  BY <1>2 DEF QuietInv, ArchiveOK, ArchiveCommit, Gone
<1>8. QED
  BY <1>1, <1>3, <1>5, <1>6, <1>7

LEMMA KeepsFile ==
  ASSUME QuietInv, [StoreStep]_storeVars, NEW a \in Artifact,
         db.life[a] = "active", db'.life[a] # "active", disk[a] # None
  PROVE  disk[a] \in db'.cas
<1>1. ArchiveCommit \/ RestoreCommit
  BY LifeChanges
<1>2. ArchiveCommit /\ a = tx.art /\ db'.cas = tx.view.cas
  BY <1>1, LifeCommitted
<1>3. QED
  BY <1>2 DEF QuietInv, ArchiveOK, ArchiveCommit

LEMMA BringsBack ==
  ASSUME QuietInv, [StoreStep]_storeVars, NEW a \in Artifact,
         db.life[a] # "active", db'.life[a] = "active", db.current[a] \in db.cas
  PROVE  disk'[a] = db.current[a]
<1>1. ArchiveCommit \/ RestoreCommit
  BY LifeChanges
<1>2. RestoreCommit /\ a = tx.art /\ disk' = disk
  BY <1>1, LifeCommitted
<1>3. QED
  BY <1>2 DEF QuietInv, RestoreOK, RestoreCommit, Rewrites

\* An artifact leaves the active state only with the content of its file in
\* the store.
THEOREM ArchivingKeepsTheFile ==
  ASSUME ~EditsDuringTx
  PROVE  StoreSpec => ArchivedOnDisk
<1>1. StoreInit => QuietInv
  BY QuietInit
<1>2. QuietInv /\ [StoreStep]_storeVars => QuietInv'
  BY QuietNext
<1>3. QuietInv /\ [StoreStep]_storeVars =>
        [\A a \in Artifact :
           db.life[a] = "active" /\ db'.life[a] # "active" /\ disk[a] # None
             => disk[a] \in db'.cas]_storeVars
  BY KeepsFile
<1>4. QED
  BY <1>1, <1>2, <1>3, OwnSteps, PTL DEF StoreSpec, ArchivedOnDisk

\* A restore that commits leaves the current version on disk whenever the
\* store had its content, whether it wrote the file or found it right.
THEOREM RestoringWorks ==
  ASSUME ~EditsDuringTx
  PROVE  StoreSpec => RestoreBringsBack
<1>1. StoreInit => QuietInv
  BY QuietInit
<1>2. QuietInv /\ [StoreStep]_storeVars => QuietInv'
  BY QuietNext
<1>3. QuietInv /\ [StoreStep]_storeVars =>
        [\A a \in Artifact :
           db.life[a] # "active" /\ db'.life[a] = "active"
             /\ db.current[a] \in db.cas => disk'[a] = db.current[a]]_storeVars
  BY BringsBack
<1>4. QED
  BY <1>1, <1>2, <1>3, OwnSteps, PTL DEF StoreSpec, RestoreBringsBack

(***************************************************************************)
(* What is committed is never taken back: an open transaction has added to *)
(* its copy, and nothing else was committed since it took it.              *)
(***************************************************************************)
Adds(d, e) == d.cas \subseteq e.cas /\ d.snaps \subseteq e.snaps /\ d.current = e.current

KeepInv == TypeInv /\ (Open => Adds(db, tx.view))

\* A snapshot only adds, and so does every other step of a mutation.
LEMMA CapturedKeeps ==
  ASSUME KeepInv, Open, disk[tx.art] # None
  PROVE  Adds(db, Captured(tx.view, tx.art))
<1>1. tx.view \in Database /\ tx.art \in Artifact /\ disk \in [Artifact -> Hash]
  BY OpenTyped DEF KeepInv, TypeInv, StoreTypeOK, Hash
<1>2. QED
  BY <1>1, CapturedAdds DEF KeepInv, Adds

LEMMA MutateKeeps ==
  ASSUME KeepInv, Mutate
  PROVE  db' = db /\ Adds(db, tx'.view) /\ blobs \subseteq blobs'
<1>1. Open
  BY DEF Mutate, Open, ArchiveCapture, ArchiveHash, ArchiveWithoutFile,
         RestoreCapture, RestoreWrite
<1>2. tx \in OpenTx /\ Adds(db, tx.view)
  BY <1>1, OpenTyped DEF KeepInv
<1>3. ASSUME Capture(tx.art),
             tx' = [tx EXCEPT !.view = Captured(tx.view, tx.art), !.at = "captured"]
      PROVE  Adds(db, tx'.view) /\ blobs \subseteq blobs'
  <2>1. blobs' = StoredBlobs(tx.view, disk[tx.art])
    BY <1>3 DEF Capture
  <2>2. blobs \subseteq blobs'
    BY <2>1, StoredBlobsAdds
  <2>3. tx'.view = Captured(tx.view, tx.art)
    BY <1>2, <1>3 DEF OpenTx
  <2>4. QED
    BY <1>1, <1>3, <2>2, <2>3, CapturedKeeps DEF Capture
<1>4. CASE ArchiveCapture
  BY <1>3, <1>4 DEF ArchiveCapture
<1>5. CASE ArchiveHash
  BY <1>2, <1>5 DEF ArchiveHash, OpenTx, files
<1>6. CASE ArchiveWithoutFile
  BY <1>2, <1>6 DEF ArchiveWithoutFile, OpenTx, files
<1>7. CASE RestoreCapture
  BY <1>2, <1>3, <1>7 DEF RestoreCapture, OpenTx
<1>8. CASE RestoreWrite
  BY <1>2, <1>8 DEF RestoreWrite, OpenTx
<1>9. QED
  BY <1>4, <1>5, <1>6, <1>7, <1>8 DEF Mutate

\* Every step leaves the committed objects, snapshots and files where they are.
LEMMA KeepNext ==
  ASSUME KeepInv, [StoreStep]_storeVars
  PROVE  /\ db.cas \subseteq db'.cas /\ db.snaps \subseteq db'.snaps
         /\ blobs \subseteq blobs'
         /\ \A a \in Artifact : db'.current[a] = None => db.current[a] = None
         /\ KeepInv'
<1> DEFINE Kept == /\ db.cas \subseteq db'.cas /\ db.snaps \subseteq db'.snaps
                   /\ blobs \subseteq blobs'
                   /\ \A a \in Artifact : db'.current[a] = None => db.current[a] = None
<1>1. TypeInv' /\ TypeInv /\ db \in Database /\ disk \in [Artifact -> Hash]
  BY TypeNext DEF KeepInv, TypeInv, StoreTypeOK, Hash
<1>2. ASSUME NEW a \in Artifact, Begins(a)
      PROVE  Kept /\ KeepInv'
  BY <1>1, <1>2, Begun DEF KeepInv, Adds
<1>3. ASSUME NEW a \in Artifact,
             (\E b \in BOOLEAN : Pin(a, b) \/ Unpin(a, b)) \/ Ingest(a)
      PROVE  Kept /\ KeepInv'
  <2>1. /\ db'.cas = db.cas /\ db'.snaps = db.snaps
        /\ \A x \in Artifact : db'.current[x] = None => db.current[x] = None
    BY <1>1, <1>3 DEF Pin, Unpin, Ingest, Pinned, Database
  <2>2. blobs' = blobs /\ tx' = tx /\ ~Open
    BY <1>3 DEF Pin, Unpin, Ingest, Lock, files
  <2>3. QED
    BY <1>1, <2>1, <2>2 DEF KeepInv, Open
<1>4. ASSUME UNCHANGED <<blobs, db>>, UNCHANGED tx \/ ~Open'
      PROVE  Kept /\ KeepInv'
  BY <1>1, <1>4 DEF KeepInv, Open, Adds
<1>5. ASSUME NEW a \in Artifact, NEW k \in Hash, Edit(a, k)
      PROVE  Kept /\ KeepInv'
  BY <1>4, <1>5 DEF Edit
<1>6. CASE Mutate
  BY <1>1, <1>6, MutateKeeps DEF KeepInv
<1>7. CASE ArchiveCommit \/ RestoreCommit
  <2>1. Open /\ tx' = NoTx /\ blobs' = blobs /\ Adds(db, tx.view)
    BY <1>1, <1>7, Committed DEF KeepInv
  <2>2. PICK l \in Lifecycle :
           db' = [tx.view EXCEPT !.life[tx.art] = l, !.saved[tx.art] = tx.hash]
    BY <1>1, <1>7, Committed
  <2>3. Adds(db, db')
    BY <1>1, <2>1, <2>2, CommitType DEF Adds
  <2>4. ~Open'
    BY <2>1 DEF Open, NoTx
  <2>5. QED
    BY <1>1, <2>1, <2>3, <2>4 DEF KeepInv, Adds
<1>8. CASE Abort
  <2>1. ~Open'
    BY <1>8 DEF Abort, Open, NoTx
  <2>2. QED
    BY <1>4, <1>8, <2>1 DEF Abort, files
<1>9. CASE UNCHANGED storeVars
  BY <1>4, <1>9 DEF storeVars
<1>10. QED
  BY <1>2, <1>3, <1>5, <1>6, <1>7, <1>8, <1>9 DEF StoreStep

\* Objects, snapshots, files and live versions only accumulate, whoever edits
\* and whatever dies.
THEOREM NothingIsEverDeleted == StoreSpec => NothingIsDeleted
<1>1. StoreInit => KeepInv
  <2>1. StoreInit => ~Open
    BY DEF StoreInit, Open, NoTx
  <2>2. QED
    BY <2>1, TypeInit DEF KeepInv
<1>2. KeepInv /\ [StoreStep]_storeVars => KeepInv'
  BY KeepNext
<1>3. KeepInv /\ [StoreStep]_storeVars =>
        [/\ db.cas \subseteq db'.cas /\ db.snaps \subseteq db'.snaps
         /\ blobs \subseteq blobs'
         /\ \A a \in Artifact : db'.current[a] = None => db.current[a] = None]_storeVars
  BY KeepNext
<1>4. QED
  BY <1>1, <1>2, <1>3, OwnSteps, PTL DEF StoreSpec, NothingIsDeleted

\* What a mutation does to contents: archiving and restoring keep them, and
\* nothing is deleted.
THEOREM MutationsKeepContents ==
  ASSUME ~EditsDuringTx
  PROVE  StoreSpec => MovesKeepContents
BY ArchivingKeepsTheFile, RestoringWorks, NothingIsEverDeleted DEF MovesKeepContents

-----------------------------------------------------------------------------
(***************************************************************************)
(* The queue.                                                              *)
(***************************************************************************)

(***************************************************************************)
(* Types, and what the open transaction has to do with the queue: one that *)
(* was asked for by a row archives that row's artifact, and the row is     *)
(* still pending, since whoever writes a row needs the write lock.         *)
(***************************************************************************)
Phases == {"idle", "read", "supersede", "ensure", "deciding"}
DeskState == [at : Phases, active : SUBSET Key, gated : BOOLEAN,
              todo : SUBSET (Nat \cup Key), new : SUBSET Key]

\* a refresh works through rows first, through candidates then
TodoOK(d) ==
  /\ At(d, "supersede") => desk[d].todo \subseteq DOMAIN rows
  /\ At(d, "ensure") => desk[d].todo \subseteq Key

QueueType ==
  /\ rows \in Seq(Row) /\ Len(rows) <= MaxRows
  /\ desk \in [Desk -> DeskState]
  /\ \A d \in Desk : TodoOK(d)

\* what is applied by archiving
Archiving == DemoteArchiveClass \cup {"invalidate_or_correct"}

RecOK ==
  tx.rec # NoRec =>
    /\ tx.op = "archive"
    /\ tx.rec \in Pending
    /\ rows[tx.rec].key[1] \in Archiving
    /\ tx.art = rows[tx.rec].key[2]
    /\ tx.target = Target(rows[tx.rec].key[1])
    /\ \E d \in Desk : At(d, "deciding")

ReviewInv == TypeInv /\ QueueType /\ RecOK

(***************************************************************************)
(* With one review process nothing changes the rows under a refresh.       *)
(***************************************************************************)
OneDesk == \A d, e \in Desk : d = e

\* A row that is not the last of its key was superseded.
OnlyLatestCounts ==
  \A r, x \in DOMAIN rows :
    r < x /\ rows[r].key = rows[x].key => rows[r].status = "superseded"

InForce == {"pending"} \cup Decided

FoldOK(d) == desk[d].gated => \A k \in desk[d].active : k[1] \notin DemoteArchiveClass

SupersedeOK(d) ==
  At(d, "supersede") =>
    /\ desk[d].todo \subseteq Pending
    /\ \A r \in Pending : rows[r].key \notin desk[d].active => r \in desk[d].todo

EnsureOK(d) ==
  At(d, "ensure") =>
    /\ desk[d].todo \cup desk[d].new \subseteq desk[d].active
    /\ KeysOf({"pending"}) \subseteq desk[d].active
    /\ desk[d].active \subseteq KeysOf(InForce) \cup desk[d].todo \cup desk[d].new

\* The candidate that is about to get a row has none in force.
NewOK(d) ==
  /\ desk[d].new # {} => At(d, "ensure")
  /\ desk[d].new \cap KeysOf(InForce) = {}
  /\ \A k, l \in desk[d].new : k = l

DeskInv ==
  /\ ReviewInv /\ OnlyLatestCounts
  /\ \A d \in Desk : FoldOK(d) /\ SupersedeOK(d) /\ EnsureOK(d) /\ NewOK(d)

-----------------------------------------------------------------------------
(* Rows.                                                                    *)

LEMMA RowTyped ==
  ASSUME QueueType, NEW r \in DOMAIN rows
  PROVE  /\ r \in Nat /\ r \in 1 .. Len(rows) /\ rows[r] \in Row
         /\ rows[r].key \in Key /\ rows[r].key[2] \in Artifact
         /\ rows[r].key[1] \in Action
         /\ rows[r].status \in InForce \cup {"superseded"}
<1>1. r \in Nat /\ r \in 1 .. Len(rows) /\ rows[r] \in Row
  BY DEF QueueType
<1>2. rows[r].key \in Key /\ rows[r].status \in InForce \cup {"superseded"}
  BY <1>1 DEF Row, InForce
<1>3. rows[r].key \in Action \X Artifact
  BY <1>2, ReviewAssumption
<1>4. QED
  BY <1>1, <1>2, <1>3

\* A row is marked in place, and nothing else changes.
LEMMA Marked ==
  ASSUME QueueType, NEW r \in DOMAIN rows, NEW s \in Decided \cup {"superseded"},
         rows' = [rows EXCEPT ![r].status = s]
  PROVE  /\ rows' \in Seq(Row) /\ Len(rows') = Len(rows) /\ DOMAIN rows' = DOMAIN rows
         /\ \A x \in DOMAIN rows : rows'[x].key = rows[x].key
         /\ \A x \in DOMAIN rows : x # r => rows'[x] = rows[x]
         /\ rows'[r].status = s
<1>1. rows \in Seq(Row) /\ rows[r] \in Row
  BY RowTyped DEF QueueType
<1>2. [rows[r] EXCEPT !.status = s] \in Row
  BY <1>1 DEF Row
<1>3. rows' = [rows EXCEPT ![r] = [rows[r] EXCEPT !.status = s]]
  OBVIOUS
<1>4. rows' \in Seq(Row) /\ Len(rows') = Len(rows) /\ DOMAIN rows' = DOMAIN rows
  BY <1>1, <1>2, <1>3
<1>5. \A x \in DOMAIN rows : x # r => rows'[x] = rows[x]
  BY <1>1, <1>3
<1>6. rows'[r] = [rows[r] EXCEPT !.status = s]
  BY <1>1, <1>3
<1>7. rows'[r].key = rows[r].key /\ rows'[r].status = s
  BY <1>1, <1>6 DEF Row
<1>8. QED
  BY <1>4, <1>5, <1>7

\* A new row goes to the end.
LEMMA Added ==
  ASSUME QueueType, NEW k \in Key, Len(rows) < MaxRows,
         rows' = Append(rows, [key |-> k, status |-> "pending"])
  PROVE  /\ rows' \in Seq(Row) /\ Len(rows') <= MaxRows
         /\ DOMAIN rows' = DOMAIN rows \cup {Len(rows) + 1}
         /\ DOMAIN rows = 1 .. Len(rows) /\ Len(rows) \in Nat
         /\ \A x \in DOMAIN rows : rows'[x] = rows[x]
         /\ rows'[Len(rows) + 1] = [key |-> k, status |-> "pending"]
<1>1. [key |-> k, status |-> "pending"] \in Row
  BY DEF Row
<1>2. rows \in Seq(Row) /\ MaxRows \in Nat
  BY QueueAssumption DEF QueueType
<1>3. /\ rows' \in Seq(Row) /\ Len(rows') = Len(rows) + 1
      /\ DOMAIN rows = 1 .. Len(rows) /\ DOMAIN rows' = 1 .. Len(rows) + 1
      /\ Len(rows) \in Nat
  BY <1>1, <1>2
<1>4. /\ \A x \in 1 .. Len(rows) : rows'[x] = rows[x]
      /\ rows'[Len(rows) + 1] = [key |-> k, status |-> "pending"]
  BY <1>1, <1>2
<1>5. QED
  BY <1>2, <1>3, <1>4

(***************************************************************************)
(* The steps of the queue do to the store what commands do.                *)
(***************************************************************************)
LEMMA StoreSide ==
  ASSUME ReviewInv, [Next]_vars
  PROVE  [StoreStep]_storeVars
<1>1. CASE StoreOps \/ CommitArchive \/ AbortTx
  BY <1>1, OwnSteps DEF StoreNext, CommitArchive, AbortTx
<1>2. ASSUME NEW d \in Desk, Refresh(d)
      PROVE  UNCHANGED storeVars
  BY <1>2 DEF Refresh
<1>3. ASSUME NEW d \in Desk, NEW r \in DOMAIN rows, Accept(d, r)
      PROVE  [StoreStep]_storeVars
  <2>1. /\ r \in Recs /\ rows[r].key[2] \in Artifact
        /\ rows[r].key[1] \in Action
    BY RowTyped DEF ReviewInv, Recs
  <2>2. CASE rows[r].key[1] = "pin"
    BY <1>3, <2>1, <2>2 DEF Accept, Pin, StoreStep
  <2>3. CASE rows[r].key[1] = "split"
    BY <1>3, <2>3 DEF Accept
  <2>4. CASE rows[r].key[1] \in Archiving
    <3>1. ArchiveBegin(rows[r].key[2], Target(rows[r].key[1]), r)
      BY <1>3, <2>4 DEF Accept, Action, Archiving, DemoteArchiveClass
    <3>2. Target(rows[r].key[1]) \in Gone
      BY DEF Target, Gone
    <3>3. Begins(rows[r].key[2])
      BY <2>1, <3>1, <3>2 DEF Begins
    <3>4. QED
      BY <2>1, <3>3 DEF StoreStep
  <2>5. QED
    BY <2>1, <2>2, <2>3, <2>4 DEF Action, Archiving
<1>4. CASE UNCHANGED vars
  BY <1>4 DEF vars
<1>5. QED
  BY <1>1, <1>2, <1>3, <1>4 DEF Next

-----------------------------------------------------------------------------
(* Types.                                                                   *)

LEMMA QueueInitInv == Init => DeskInv
<1> SUFFICES ASSUME Init PROVE DeskInv
  OBVIOUS
<1>1. TypeInv
  BY TypeInit DEF Init
<1>2. rows = <<>> /\ desk = [d \in Desk |-> IdleDesk] /\ tx.rec = NoRec
  BY DEF Init, QueueInit, StoreInit, NoTx
<1>3. IdleDesk \in DeskState
  BY DEF IdleDesk, DeskState, Phases
<1>4. QueueType
  BY <1>2, <1>3, QueueAssumption DEF QueueType, TodoOK, At, IdleDesk
<1>5. RecOK
  BY <1>2 DEF RecOK
<1>6. OnlyLatestCounts
  BY <1>2 DEF OnlyLatestCounts
<1>7. \A d \in Desk : FoldOK(d) /\ SupersedeOK(d) /\ EnsureOK(d) /\ NewOK(d)
  BY <1>2 DEF IdleDesk, FoldOK, SupersedeOK, EnsureOK, NewOK, At
<1>8. QED
  BY <1>1, <1>4, <1>5, <1>6, <1>7 DEF DeskInv, ReviewInv

\* A step of the refresh of desk d puts the desk in state x.
LEMMA DeskSet ==
  ASSUME QueueType, NEW d \in Desk, NEW x \in DeskState, desk' = [desk EXCEPT ![d] = x],
         rows' \in Seq(Row), Len(rows') <= MaxRows, DOMAIN rows \subseteq DOMAIN rows',
         x.at = "supersede" => x.todo \subseteq DOMAIN rows',
         x.at = "ensure" => x.todo \subseteq Key,
         At(d, "deciding") => x.at = "deciding"
  PROVE  /\ QueueType'
         /\ \A e \in Desk : At(e, "deciding") => At(e, "deciding")'
<1>1. desk \in [Desk -> DeskState] /\ \A e \in Desk : TodoOK(e)
  BY DEF QueueType
<1>2. desk' \in [Desk -> DeskState]
  BY <1>1
<1>3. desk'[d] = x /\ \A e \in Desk : e # d => desk'[e] = desk[e]
  BY <1>1
<1>4. \A e \in Desk : TodoOK(e)'
  BY <1>1, <1>3 DEF TodoOK, At
<1>5. \A e \in Desk : At(e, "deciding") => At(e, "deciding")'
  BY <1>3 DEF At
<1>6. QED
  BY <1>2, <1>4, <1>5 DEF QueueType

LEMMA RefreshType ==
  ASSUME QueueType, NEW d \in Desk, Refresh(d)
  PROVE  /\ QueueType'
         /\ \A e \in Desk : At(e, "deciding") => At(e, "deciding")'
<1> DEFINE Goal == /\ QueueType'
                   /\ \A e \in Desk : At(e, "deciding") => At(e, "deciding")'
<1>1. /\ desk \in [Desk -> DeskState] /\ desk[d] \in DeskState /\ TodoOK(d)
      /\ rows \in Seq(Row) /\ Len(rows) <= MaxRows
  BY DEF QueueType
<1>2. /\ desk[d].at \in Phases /\ desk[d].active \subseteq Key
      /\ desk[d].todo \subseteq Nat \cup Key /\ desk[d].new \subseteq Key
      /\ desk[d].gated \in BOOLEAN
  BY <1>1 DEF DeskState
<1>3. ASSUME NEW S \in SUBSET Key, NEW gated \in BOOLEAN, Fold(d, S, gated)
      PROVE  Goal
  <2> DEFINE x == [IdleDesk EXCEPT !.at = "read", !.active = Active(S, gated),
                                   !.gated = gated]
  <2>1. Active(S, gated) \in SUBSET Key
    BY DEF Active
  <2>2. x \in DeskState /\ x.at = "read"
    BY <2>1 DEF IdleDesk, DeskState, Phases
  <2>3. desk' = [desk EXCEPT ![d] = x] /\ ~At(d, "deciding") /\ rows' = rows
    BY <1>3 DEF Fold, At
  <2>4. QED
    BY <1>1, <2>2, <2>3, DeskSet
<1>4. CASE ReadPending(d)
  <2> DEFINE x == [desk[d] EXCEPT !.at = "supersede",
                     !.todo = {r \in Pending : rows[r].key \notin desk[d].active}]
  <2>1. x \in DeskState /\ x.at = "supersede" /\ x.todo \subseteq DOMAIN rows
    <3>1. Pending \subseteq Nat
      BY RowTyped DEF Pending
    <3>2. QED
      BY <1>1, <3>1 DEF DeskState, Phases, Pending
  <2>2. desk' = [desk EXCEPT ![d] = x] /\ ~At(d, "deciding") /\ rows' = rows
    BY <1>1, <1>4 DEF ReadPending, At
  <2>3. QED
    BY <1>1, <2>1, <2>2, DeskSet
<1>5. CASE Superseded(d)
  <2> DEFINE x == [desk[d] EXCEPT !.at = "ensure", !.todo = desk[d].active]
  <2>1. x \in DeskState /\ x.at = "ensure" /\ x.todo \subseteq Key
    BY <1>1, <1>2 DEF DeskState, Phases
  <2>2. desk' = [desk EXCEPT ![d] = x] /\ ~At(d, "deciding") /\ rows' = rows
    BY <1>1, <1>5 DEF Superseded, At
  <2>3. QED
    BY <1>1, <2>1, <2>2, DeskSet
<1>6. CASE Ensure(d)
  <2>1. PICK k \in desk[d].todo :
           desk' = [desk EXCEPT ![d].todo = @ \ {k},
                                ![d].new = IF Settled(k) THEN {} ELSE {k}]
    BY <1>6 DEF Ensure
  <2> DEFINE x == [desk[d] EXCEPT !.todo = desk[d].todo \ {k},
                                  !.new = IF Settled(k) THEN {} ELSE {k}]
  <2>2. desk[d].todo \subseteq Key /\ k \in Key /\ At(d, "ensure")
    BY <1>1, <1>6, <2>1 DEF Ensure, TodoOK
  <2>3. x \in DeskState /\ x.at = "ensure" /\ x.todo \subseteq Key
    BY <1>1, <1>2, <2>2 DEF DeskState, At
  <2>4. desk' = [desk EXCEPT ![d] = x] /\ ~At(d, "deciding") /\ rows' = rows
    BY <1>1, <1>6, <2>1 DEF Ensure, At
  <2>5. QED
    BY <1>1, <2>3, <2>4, DeskSet
<1>7. CASE Refreshed(d) \/ Interrupted(d)
  <2>1. desk' = [desk EXCEPT ![d] = IdleDesk] /\ ~At(d, "deciding") /\ rows' = rows
    BY <1>7 DEF Refreshed, Interrupted, At
  <2>2. IdleDesk \in DeskState /\ IdleDesk.at = "idle"
    BY DEF IdleDesk, DeskState, Phases
  <2>3. QED
    BY <1>1, <2>1, <2>2, DeskSet
<1>8. CASE Supersede(d)
  <2>1. PICK r \in desk[d].todo :
           /\ rows' = [rows EXCEPT ![r].status = "superseded"]
           /\ desk' = [desk EXCEPT ![d].todo = @ \ {r}]
    BY <1>8 DEF Supersede
  <2> DEFINE x == [desk[d] EXCEPT !.todo = desk[d].todo \ {r}]
  <2>2. At(d, "supersede") /\ desk[d].todo \subseteq DOMAIN rows
    BY <1>1, <1>8 DEF Supersede, TodoOK
  <2>3. x \in DeskState /\ x.at = "supersede" /\ x.todo \subseteq DOMAIN rows
    BY <1>1, <1>2, <2>2 DEF DeskState, At
  <2>4. desk' = [desk EXCEPT ![d] = x] /\ ~At(d, "deciding")
    BY <1>1, <2>1, <2>2 DEF At
  <2>5. rows' \in Seq(Row) /\ Len(rows') <= MaxRows /\ DOMAIN rows' = DOMAIN rows
    BY <1>1, <2>1, <2>2, Marked
  <2>6. QED
    BY <2>3, <2>4, <2>5, DeskSet
<1>9. CASE Insert(d)
  <2>1. PICK k \in desk[d].new : rows' = Append(rows, [key |-> k, status |-> "pending"])
    BY <1>9 DEF Insert
  <2> DEFINE x == [desk[d] EXCEPT !.new = {}]
  <2>2. x \in DeskState /\ x.at = desk[d].at /\ x.todo = desk[d].todo
    BY <1>1, <1>2 DEF DeskState
  <2>3. desk' = [desk EXCEPT ![d] = x]
    BY <1>1, <1>9 DEF Insert
  <2>4. rows' \in Seq(Row) /\ Len(rows') <= MaxRows /\ DOMAIN rows \subseteq DOMAIN rows'
    BY <1>2, <1>9, <2>1, Added DEF Insert
  <2>5. /\ x.at = "supersede" => x.todo \subseteq DOMAIN rows'
        /\ x.at = "ensure" => x.todo \subseteq Key
        /\ At(d, "deciding") => x.at = "deciding"
    BY <1>1, <2>2, <2>4 DEF TodoOK, At
  <2>6. QED
    BY <2>2, <2>3, <2>4, <2>5, DeskSet
<1>10. QED
  BY <1>3, <1>4, <1>5, <1>6, <1>7, <1>8, <1>9 DEF Refresh, Reads, Writes

\* Outside the queue a transaction begins without a row and keeps what it is
\* about until it ends.
LEMMA StoreOpsRec ==
  ASSUME TypeInv, StoreOps
  PROVE  \/ tx'.rec = NoRec
         \/ /\ tx'.op = tx.op /\ tx'.art = tx.art
            /\ tx'.target = tx.target /\ tx'.rec = tx.rec
<1>1. ASSUME NEW a \in Artifact, ArchiveBegin(a, "archived", NoRec) \/ RestoreBegin(a)
      PROVE  tx'.rec = NoRec
  <2>1. CASE ArchiveBegin(a, "archived", NoRec)
    BY <2>1 DEF ArchiveBegin, Opens
  <2>2. CASE RestoreBegin(a)
    BY <2>2 DEF RestoreBegin, Opens
  <2>3. QED
    BY <1>1, <2>1, <2>2
<1>2. ASSUME NEW a \in Artifact,
             \/ \E b \in BOOLEAN : Pin(a, b) \/ Unpin(a, b)
             \/ Ingest(a)
             \/ \E k \in Content \cup {None} : Edit(a, k)
      PROVE  tx' = tx
  BY <1>2 DEF Pin, Unpin, Ingest, Edit
<1>3. CASE Mutate
  <2>1. Open
    BY <1>3 DEF Mutate, Open, ArchiveCapture, ArchiveHash, ArchiveWithoutFile,
                RestoreCapture, RestoreWrite
  <2>2. tx \in OpenTx
    BY <2>1, OpenTyped
  <2>3. QED
    BY <1>3, <2>2 DEF Mutate, ArchiveCapture, ArchiveHash, ArchiveWithoutFile,
                      RestoreCapture, RestoreWrite, OpenTx
<1>4. CASE RestoreCommit
  BY <1>4 DEF RestoreCommit, Commit, NoTx
<1>5. QED
  BY <1>1, <1>2, <1>3, <1>4 DEF StoreOps

\* The open transaction was not asked for by a row: nothing is owed to one.
LEMMA NoRecOK ==
  ASSUME tx'.rec = NoRec
  PROVE  RecOK'
BY DEF RecOK

\* The desks when a decision is over.
LEMMA OverType ==
  ASSUME QueueType, DecisionOver, rows' \in Seq(Row), Len(rows') <= MaxRows,
         DOMAIN rows' = DOMAIN rows
  PROVE  QueueType'
<1>1. IdleDesk \in DeskState /\ desk \in [Desk -> DeskState] /\ IdleDesk.at = "idle"
  BY DEF IdleDesk, DeskState, Phases, QueueType
<1>2. \A d \in Desk : desk'[d] = IF At(d, "deciding") THEN IdleDesk ELSE desk[d]
  BY DEF DecisionOver
<1>3. desk' \in [Desk -> DeskState]
  BY <1>1 DEF DecisionOver
<1>4. \A d \in Desk : TodoOK(d)'
  BY <1>1, <1>2 DEF QueueType, TodoOK, At
<1>5. QED
  BY <1>3, <1>4 DEF QueueType

LEMMA AcceptInv ==
  ASSUME ReviewInv, NEW d \in Desk, NEW r \in DOMAIN rows, Accept(d, r)
  PROVE  QueueType' /\ RecOK'
<1>1. /\ QueueType /\ tx.rec = NoRec /\ r \in Pending
      /\ desk \in [Desk -> DeskState] /\ ~Open
  BY DEF ReviewInv, QueueType, RecOK, Accept, Lock, Open, Undecided
<1>2. /\ rows[r].key[1] \in Action
      /\ rows[r].key[2] \in Artifact /\ r \in Nat /\ r # NoRec
  BY <1>1, RowTyped, ReviewAssumption
<1>3. CASE rows[r].key[1] \in {"pin", "split"}
  <2>1. rows' = [rows EXCEPT ![r].status = "accepted"] /\ tx' = tx /\ desk' = desk
    BY <1>3 DEF Accept, DecideRow, storeVars
  <2>2. /\ rows' \in Seq(Row) /\ Len(rows') <= MaxRows
        /\ DOMAIN rows' = DOMAIN rows
    BY <1>1, <2>1, Marked DEF QueueType, Decided
  <2>3. QueueType'
    BY <1>1, <2>1, <2>2 DEF QueueType, TodoOK, At
  <2>4. QED
    BY <1>1, <2>1, <2>3, NoRecOK
<1>4. CASE rows[r].key[1] \in Archiving
  <2>1. /\ ArchiveBegin(rows[r].key[2], Target(rows[r].key[1]), r)
        /\ Deciding(d) /\ rows' = rows
    BY <1>4 DEF Accept, Action, Archiving, DemoteArchiveClass
  <2>2. [desk[d] EXCEPT !.at = "deciding"] \in DeskState
    BY <1>1 DEF DeskState, Phases
  <2>3. desk' = [desk EXCEPT ![d] = [desk[d] EXCEPT !.at = "deciding"]]
    BY <2>1 DEF Deciding
  <2>4. desk' \in [Desk -> DeskState] /\ At(d, "deciding")'
    BY <1>1, <2>2, <2>3 DEF At, DeskState
  <2>5. \A e \in Desk : TodoOK(e)'
    BY <1>1, <2>1, <2>3, <2>4 DEF QueueType, TodoOK, At
  <2>6. /\ tx'.op = "archive" /\ tx'.rec = r /\ tx'.art = rows[r].key[2]
        /\ tx'.target = Target(rows[r].key[1])
    BY <2>1 DEF ArchiveBegin, Opens
  <2>7. QED
    BY <1>1, <1>4, <2>1, <2>4, <2>5, <2>6 DEF QueueType, RecOK, Pending
<1>5. QED
  BY <1>2, <1>3, <1>4 DEF Action, Archiving

LEMMA ReviewNext ==
  ASSUME ReviewInv, [Next]_vars
  PROVE  ReviewInv'
<1>1. TypeInv' /\ TypeInv /\ QueueType /\ RecOK
  BY StoreSide, TypeNext DEF ReviewInv
<1>2. CASE StoreOps /\ UNCHANGED queueVars
  <2>1. QueueType'
    BY <1>1, <1>2 DEF queueVars, QueueType, TodoOK, At
  <2>2. RecOK'
    BY <1>1, <1>2, StoreOpsRec DEF queueVars, RecOK, Pending, At
  <2>3. QED
    BY <1>1, <2>1, <2>2 DEF ReviewInv
<1>3. CASE CommitArchive
  <2>1. tx'.rec = NoRec
    BY <1>3 DEF CommitArchive, ArchiveCommit, Commit, NoTx
  <2>2. CASE tx.rec = NoRec
    BY <1>1, <1>3, <2>1, <2>2, NoRecOK
       DEF CommitArchive, queueVars, ReviewInv, QueueType, TodoOK, At
  <2>3. CASE tx.rec # NoRec
    <3>1. /\ rows' = [rows EXCEPT ![tx.rec].status = "accepted"] /\ DecisionOver
          /\ tx.rec \in DOMAIN rows
      BY <1>1, <1>3, <2>3 DEF CommitArchive, DecideRow, RecOK, Pending
    <3>2. /\ rows' \in Seq(Row) /\ Len(rows') <= MaxRows
          /\ DOMAIN rows' = DOMAIN rows
      BY <1>1, <3>1, Marked DEF QueueType, Decided
    <3>3. QED
      BY <1>1, <2>1, <3>1, <3>2, OverType, NoRecOK DEF ReviewInv
  <2>4. QED
    BY <2>2, <2>3
<1>4. CASE AbortTx
  <2>1. tx'.rec = NoRec /\ DecisionOver /\ rows' = rows
    BY <1>4 DEF AbortTx, Abort, NoTx
  <2>2. rows' \in Seq(Row) /\ Len(rows') <= MaxRows /\ DOMAIN rows' = DOMAIN rows
    BY <1>1, <2>1 DEF QueueType
  <2>3. QED
    BY <1>1, <2>1, <2>2, OverType, NoRecOK DEF ReviewInv
<1>5. ASSUME NEW d \in Desk, Refresh(d)
      PROVE  ReviewInv'
  <2>1. QueueType' /\ \A e \in Desk : At(e, "deciding") => At(e, "deciding")'
    BY <1>1, <1>5, RefreshType
  <2>2. tx' = tx
    BY <1>5 DEF Refresh, storeVars
  <2>3. tx.rec = NoRec \/ rows' = rows
    BY <1>1, <1>5 DEF Refresh, RecOK, Lock, Open, Reads, ReadPending, Superseded,
                      Ensure, Refreshed, Interrupted, Fold
  <2>4. RecOK'
    BY <1>1, <2>1, <2>2, <2>3 DEF RecOK, Pending
  <2>5. QED
    BY <1>1, <2>1, <2>4 DEF ReviewInv
<1>6. ASSUME NEW d \in Desk, NEW r \in DOMAIN rows, Accept(d, r)
      PROVE  ReviewInv'
  BY <1>1, <1>6, AcceptInv DEF ReviewInv
<1>7. ASSUME NEW d \in Desk, NEW r \in DOMAIN rows,
             Lock /\ Reject(d, r) /\ UNCHANGED storeVars
      PROVE  ReviewInv'
  <2>1. /\ rows' = [rows EXCEPT ![r].status = "rejected"] /\ desk' = desk
        /\ tx' = tx /\ tx.rec = NoRec
    BY <1>1, <1>7 DEF Reject, DecideRow, RecOK, Lock, Open, storeVars
  <2>2. rows' \in Seq(Row) /\ Len(rows') <= MaxRows /\ DOMAIN rows' = DOMAIN rows
    BY <1>1, <2>1, Marked DEF QueueType, Decided
  <2>3. QED
    BY <1>1, <2>1, <2>2, NoRecOK DEF ReviewInv, QueueType, TodoOK, At
<1>8. CASE UNCHANGED vars
  BY <1>1, <1>8 DEF vars, storeVars, queueVars, ReviewInv, QueueType, TodoOK, RecOK,
                    Pending, At
<1>9. QED
  BY <1>2, <1>3, <1>4, <1>5, <1>6, <1>7, <1>8 DEF Next

\* Both halves stay well typed, however many processes review.
THEOREM ReviewTypeCorrect == Spec => [](StoreTypeOK /\ QueueTypeOK)
<1>1. Init => ReviewInv
  BY QueueInitInv DEF DeskInv
<1>2. ReviewInv /\ [Next]_vars => ReviewInv'
  BY ReviewNext
<1>3. ReviewInv => StoreTypeOK /\ QueueTypeOK
  BY DEF ReviewInv, TypeInv, QueueType, QueueTypeOK, DeskState, Phases
<1>4. QED
  BY <1>1, <1>2, <1>3, PTL DEF Spec

(***************************************************************************)
(* What the store promises its commands it also promises the queue.        *)
(***************************************************************************)
THEOREM ReviewKeepsObjects == Spec => []SnapshotsLoad /\ NothingIsDeleted
<1> DEFINE Inv == ReviewInv /\ StoreInv /\ KeepInv
<1>1. Init => Inv
  <2>1. Init => ReviewInv /\ StoreInv /\ ~Open
    BY QueueInitInv, SoundInit DEF DeskInv, Init, StoreInit, Open, NoTx
  <2>2. QED
    BY <2>1 DEF KeepInv, ReviewInv
<1>2. Inv /\ [Next]_vars => Inv'
  BY ReviewNext, StoreSide, SoundNext, KeepNext
<1>3. Inv => SnapshotsLoad
  BY DEF StoreInv, Sound, SnapshotsLoad, Loadable
<1>4. Inv /\ [Next]_vars =>
        [/\ db.cas \subseteq db'.cas /\ db.snaps \subseteq db'.snaps
         /\ blobs \subseteq blobs'
         /\ \A a \in Artifact : db'.current[a] = None => db.current[a] = None]_storeVars
  BY StoreSide, KeepNext
<1>5. QED
  BY <1>1, <1>2, <1>3, <1>4, PTL DEF Spec, NothingIsDeleted

\* An acceptance archives by the same steps as the command, so the contents
\* are kept on the way out and on the way back.
THEOREM ReviewKeepsContents ==
  ASSUME ~EditsDuringTx
  PROVE  Spec => [](RestorableIsTrue /\ OverwrittenIsSavedOrTorn) /\ MovesKeepContents
<1> DEFINE Inv == ReviewInv /\ QuietInv
<1>1. Init => Inv
  BY QueueInitInv, QuietInit DEF DeskInv, Init
<1>2. Inv /\ [Next]_vars => Inv'
  BY ReviewNext, StoreSide, QuietNext
<1>3. Inv => RestorableIsTrue /\ OverwrittenIsSavedOrTorn
  BY DEF QuietInv, Restorable, RestorableIsTrue, SavedOK, Written,
         OverwrittenIsSavedOrTorn, Open
<1>4. Inv /\ [Next]_vars =>
        [\A a \in Artifact :
           db.life[a] = "active" /\ db'.life[a] # "active" /\ disk[a] # None
             => disk[a] \in db'.cas]_storeVars
  BY StoreSide, KeepsFile
<1>5. Inv /\ [Next]_vars =>
        [\A a \in Artifact :
           db.life[a] # "active" /\ db'.life[a] = "active"
             /\ db.current[a] \in db.cas => disk'[a] = db.current[a]]_storeVars
  BY StoreSide, BringsBack
<1>6. Spec => NothingIsDeleted
  BY ReviewKeepsObjects
<1>7. QED
  BY <1>1, <1>2, <1>3, <1>4, <1>5, <1>6, PTL
     DEF Spec, MovesKeepContents, ArchivedOnDisk, RestoreBringsBack

(***************************************************************************)
(* Decisions.                                                              *)
(***************************************************************************)

\* While a transaction is open the database stays what its copy was taken of.
ViewInv == ReviewInv /\ (Open => tx.view.life = db.life)

LEMMA ViewNext ==
  ASSUME ViewInv, [Next]_vars
  PROVE  ViewInv'
<1>1. ReviewInv' /\ [StoreStep]_storeVars /\ TypeInv /\ db \in Database
  BY ReviewNext, StoreSide DEF ViewInv, ReviewInv, TypeInv, StoreTypeOK
<1>2. ASSUME NEW a \in Artifact, Begins(a)
      PROVE  ViewInv'
  BY <1>1, <1>2, Begun DEF ViewInv
<1>3. ASSUME ~Open' \/ (db'.life = db.life /\ tx' = tx)
      PROVE  ViewInv'
  BY <1>1, <1>3 DEF ViewInv, Open
<1>4. ASSUME NEW a \in Artifact,
             \/ \E b \in BOOLEAN : Pin(a, b) \/ Unpin(a, b)
             \/ Ingest(a)
             \/ \E k \in Hash : Edit(a, k)
      PROVE  ViewInv'
  <2>1. db'.life = db.life /\ tx' = tx
    BY <1>1, <1>4 DEF Pin, Unpin, Ingest, Edit, Pinned, Database
  <2>2. QED
    BY <1>3, <2>1
<1>5. CASE Mutate
  <2>1. Open
    BY <1>5 DEF Mutate, Open, ArchiveCapture, ArchiveHash, ArchiveWithoutFile,
                RestoreCapture, RestoreWrite
  <2>2. /\ tx \in OpenTx /\ tx.view \in Database /\ tx.art \in Artifact
        /\ disk \in [Artifact -> Hash]
    BY <1>1, <2>1, OpenTyped DEF TypeInv, StoreTypeOK, Hash
  <2>3. ASSUME disk[tx.art] # None,
               tx' = [tx EXCEPT !.view = Captured(tx.view, tx.art), !.at = "captured"]
        PROVE  tx'.view.life = tx.view.life
    BY <2>2, <2>3, CapturedAdds DEF OpenTx
  <2>4. db' = db /\ tx'.view.life = tx.view.life
    BY <1>5, <2>2, <2>3
       DEF Mutate, ArchiveCapture, ArchiveHash, ArchiveWithoutFile, RestoreCapture,
           RestoreWrite, Capture, OpenTx, files
  <2>5. QED
    BY <1>1, <2>1, <2>4 DEF ViewInv
<1>6. CASE ArchiveCommit \/ RestoreCommit \/ Abort
  BY <1>3, <1>6 DEF ArchiveCommit, RestoreCommit, Abort, Commit, Open, NoTx
<1>7. CASE UNCHANGED storeVars
  BY <1>3, <1>7 DEF storeVars
<1>8. QED
  BY <1>1, <1>2, <1>4, <1>5, <1>6, <1>7 DEF StoreStep

\* What CommitArchive publishes.
LEMMA CommitLife ==
  ASSUME ViewInv, ArchiveCommit
  PROVE  /\ tx.art \in Artifact
         /\ db'.life = [db.life EXCEPT ![tx.art] = tx.target]
         /\ db'.life[tx.art] = tx.target
<1>1. /\ Open /\ tx.art \in Artifact /\ tx.view \in Database
      /\ tx.view.life = db.life /\ db.life \in [Artifact -> Lifecycle]
  <2>1. Open
    BY DEF ArchiveCommit, Open
  <2>2. QED
    BY <2>1, OpenTyped DEF ViewInv, ReviewInv, TypeInv, StoreTypeOK, Database
<1>2. db' = Archived
  BY DEF ArchiveCommit, Commit
<1>3. db'.life = [tx.view.life EXCEPT ![tx.art] = tx.target]
  BY <1>1, <1>2 DEF Archived, Database
<1>4. QED
  BY <1>1, <1>3

\* Which steps decide a row: an acceptance, a rejection, or the commit of the
\* archive an acceptance asked for.
LEMMA WhoAccepts ==
  ASSUME ReviewInv, [Next]_vars, NEW r \in DOMAIN rows,
         rows[r].status # "accepted", rows'[r].status = "accepted"
  PROVE  \/ \E d \in Desk : Accept(d, r) /\ rows[r].key[1] \in {"pin", "split"}
         \/ CommitArchive /\ r = tx.rec /\ tx.rec # NoRec
<1>1. QueueType /\ RecOK
  BY DEF ReviewInv
<1>2. ASSUME NEW d \in Desk, Refresh(d)
      PROVE  FALSE
  <2>1. CASE Supersede(d)
    <3>1. PICK x \in desk[d].todo : rows' = [rows EXCEPT ![x].status = "superseded"]
      BY <2>1 DEF Supersede
    <3>2. x \in DOMAIN rows
      BY <1>1, <2>1, <3>1 DEF QueueType, TodoOK, Supersede
    <3>3. QED
      BY <1>1, <3>1, <3>2, Marked
  <2>2. CASE Insert(d)
    <3>1. PICK k \in desk[d].new : rows' = Append(rows, [key |-> k, status |-> "pending"])
      BY <2>2 DEF Insert
    <3>2. k \in Key /\ Len(rows) < MaxRows
      BY <1>1, <2>2, <3>1 DEF QueueType, DeskState, Insert
    <3>3. QED
      BY <1>1, <3>1, <3>2, Added
  <2>3. CASE ~Writes(d)
    BY <1>2, <2>3 DEF Refresh, Reads, ReadPending, Superseded, Ensure, Refreshed,
                      Interrupted, Fold
  <2>4. QED
    BY <2>1, <2>2, <2>3 DEF Writes
<1>3. ASSUME NEW d \in Desk, NEW x \in DOMAIN rows, Accept(d, x)
      PROVE  x = r /\ rows[r].key[1] \in {"pin", "split"}
  <2>1. rows[x].key[1] \in Action
    BY <1>1, RowTyped
  <2>2. rows[x].key[1] \in {"pin", "split"}
    BY <1>3, <2>1 DEF Accept, Action, Archiving, DemoteArchiveClass
  <2>3. rows' = [rows EXCEPT ![x].status = "accepted"]
    BY <1>3, <2>2 DEF Accept, DecideRow
  <2>4. x = r
    BY <1>1, <2>3, Marked DEF Decided
  <2>5. QED
    BY <2>2, <2>4
<1>4. ASSUME NEW d \in Desk, NEW x \in DOMAIN rows, Reject(d, x)
      PROVE  FALSE
  BY <1>1, <1>4, Marked DEF Reject, DecideRow, Decided
<1>5. CASE CommitArchive
  <2>1. tx.rec # NoRec /\ rows' = [rows EXCEPT ![tx.rec].status = "accepted"]
    BY <1>5 DEF CommitArchive, queueVars, DecideRow
  <2>2. tx.rec \in DOMAIN rows
    BY <1>1, <2>1 DEF RecOK, Pending
  <2>3. QED
    BY <1>1, <1>5, <2>1, <2>2, Marked DEF Decided
<1>6. rows' # rows
  OBVIOUS
<1>7. QED
  BY <1>2, <1>3, <1>4, <1>5, <1>6 DEF Next, AbortTx, queueVars, vars

LEMMA AppliedStep ==
  ASSUME ViewInv, [Next]_vars, NEW r \in DOMAIN rows,
         rows[r].status # "accepted", rows'[r].status = "accepted"
  PROVE  LET action == rows[r].key[1]
             a == rows[r].key[2]
         IN  IF action = "pin" THEN a \in db'.pinned \cap db'.critical
             ELSE action # "split" => db'.life[a] = Target(action)
<1>1. ReviewInv /\ QueueType /\ RecOK /\ db \in Database
  BY DEF ViewInv, ReviewInv, TypeInv, StoreTypeOK
<1>2. ASSUME NEW d \in Desk, Accept(d, r), rows[r].key[1] = "pin"
      PROVE  rows[r].key[2] \in db'.pinned \cap db'.critical
  <2>1. db' = Pinned(db, rows[r].key[2], TRUE)
    BY <1>2 DEF Accept
  <2>2. QED
    BY <1>1, <2>1 DEF Pinned, Database
<1>3. ASSUME CommitArchive, r = tx.rec, tx.rec # NoRec
      PROVE  rows[r].key[1] # "pin" /\ db'.life[rows[r].key[2]] = Target(rows[r].key[1])
  <2>1. db'.life[tx.art] = tx.target
    BY <1>3, CommitLife DEF CommitArchive
  <2>2. QED
    BY <1>1, <1>3, <2>1 DEF RecOK, Archiving, DemoteArchiveClass
<1>4. QED
  BY <1>1, <1>2, <1>3, WhoAccepts

LEMMA ArchivesOnceStep ==
  ASSUME ViewInv, [Next]_vars, NEW a \in Artifact,
         db.life[a] # db'.life[a], tx.rec # NoRec
  PROVE  /\ rows[tx.rec].status = "pending" /\ rows'[tx.rec].status = "accepted"
         /\ rows[tx.rec].key[2] = a
<1>1. /\ QueueType /\ RecOK /\ db' # db /\ Open /\ tx.op = "archive"
      /\ tx.rec \in DOMAIN rows /\ tx.art = rows[tx.rec].key[2]
      /\ db.life \in [Artifact -> Lifecycle]
  BY DEF ViewInv, ReviewInv, RecOK, Open, Pending, TypeInv, StoreTypeOK, Database
<1>2. ~StoreOps
  <2>1. ASSUME NEW x \in Artifact
        PROVE  /\ ~ArchiveBegin(x, "archived", NoRec) /\ ~RestoreBegin(x) /\ ~Ingest(x)
               /\ \A b \in BOOLEAN : ~Pin(x, b) /\ ~Unpin(x, b)
               /\ \A k \in Content \cup {None} : ~Edit(x, k)
    BY <1>1 DEF ArchiveBegin, RestoreBegin, Ingest, Pin, Unpin, Edit, Lock
  <2>2. ~Mutate /\ ~RestoreCommit
    BY <1>1 DEF Mutate, RestoreCommit, ArchiveCapture, ArchiveHash,
                ArchiveWithoutFile, RestoreCapture, RestoreWrite
  <2>3. QED
    BY <2>1, <2>2 DEF StoreOps
<1>3. CommitArchive
  <2>1. \A d \in Desk : ~Refresh(d)
    BY <1>1 DEF Refresh, storeVars
  <2>2. ASSUME NEW d \in Desk, NEW r \in DOMAIN rows
        PROVE  ~Accept(d, r) /\ ~(Reject(d, r) /\ UNCHANGED storeVars)
    BY <1>1 DEF Accept, Lock, storeVars
  <2>3. ~AbortTx
    BY <1>1 DEF AbortTx, Abort
  <2>4. QED
    BY <1>1, <1>2, <2>1, <2>2, <2>3 DEF Next, vars, storeVars
<1>4. a = tx.art /\ rows[tx.rec].status = "pending"
  BY <1>1, <1>3, CommitLife DEF CommitArchive, ViewInv, ReviewInv, RecOK, Pending
<1>5. rows' = [rows EXCEPT ![tx.rec].status = "accepted"]
  BY <1>3 DEF CommitArchive, DecideRow
<1>6. QED
  BY <1>1, <1>4, <1>5, Marked DEF Decided

\* What a human accepts is applied in the step that marks the row, and what a
\* row moves is its own artifact, as the row goes from pending to accepted: for
\* all five actions and any number of processes, next to commands, ingestion,
\* crashes and editors.
THEOREM AcceptancesAreApplied == Spec => AcceptedIsApplied /\ QueueArchivesOnce
<1>1. Init => ViewInv
  BY QueueInitInv DEF DeskInv, ViewInv, Init, StoreInit, Open, NoTx
<1>2. ViewInv /\ [Next]_vars => ViewInv'
  BY ViewNext
<1>3. ViewInv /\ [Next]_vars =>
        [\A r \in DOMAIN rows :
           rows[r].status # "accepted" /\ rows'[r].status = "accepted"
             => LET action == rows[r].key[1]
                    a == rows[r].key[2]
                IN  IF action = "pin" THEN a \in db'.pinned \cap db'.critical
                    ELSE action # "split" => db'.life[a] = Target(action)]_vars
  BY AppliedStep
<1>4. ViewInv /\ [Next]_vars =>
        [\A a \in Artifact :
           db.life[a] # db'.life[a] /\ tx.rec # NoRec
             => /\ rows[tx.rec].status = "pending" /\ rows'[tx.rec].status = "accepted"
                /\ rows[tx.rec].key[2] = a]_vars
  BY ArchivesOnceStep
<1>5. QED
  BY <1>1, <1>2, <1>3, <1>4, PTL DEF Spec, AcceptedIsApplied, QueueArchivesOnce

(***************************************************************************)
(* One process.                                                            *)
(***************************************************************************)

\* A non-empty set of row numbers has a greatest one, so Latest is a row.
LEMMA GreatestExists ==
  ASSUME NEW n \in Nat, NEW S \in SUBSET (1 .. n), S # {}
  PROVE  \E m \in S : \A x \in S : x <= m
<1> DEFINE T == {n - x : x \in S}
<1>1. T \subseteq Nat /\ T # {}
  OBVIOUS
<1>2. PICK t \in T : \A y \in T : ~(<<y, t>> \in OpToRel(<, Nat))
  <2> HIDE DEF T
  <2> QED
    BY <1>1, NatLessThanWellFounded, WFMin
<1>3. \A y \in T : ~(y < t)
  BY <1>1, <1>2 DEF OpToRel
<1>4. PICK m \in S : t = n - m
  BY <1>2
<1>5. ASSUME NEW x \in S PROVE x <= m
  <2>1. n - x \in T
    OBVIOUS
  <2>2. ~(n - x < n - m)
    BY <1>3, <1>4, <2>1
  <2>3. QED
    BY <2>2
<1>6. QED
  BY <1>5

\* refresh gives a candidate a row exactly when it has none in force.
LEMMA SettledInForce ==
  ASSUME QueueType, OnlyLatestCounts, NEW k
  PROVE  Settled(k) <=> k \in KeysOf(InForce)
<1>1. ASSUME Settled(k) PROVE k \in KeysOf(InForce)
  <2>1. OfKey(k) # {} /\ rows[Latest(k)].status \in InForce
    BY <1>1 DEF Settled, InForce
  <2>2. Len(rows) \in Nat /\ OfKey(k) \in SUBSET (1 .. Len(rows))
    BY DEF QueueType, OfKey
  <2>3. \E m \in OfKey(k) : \A x \in OfKey(k) : x <= m
    BY <2>1, <2>2, GreatestExists
  <2>4. Latest(k) \in OfKey(k)
    BY <2>3 DEF Latest
  <2>5. QED
    BY <2>1, <2>4 DEF OfKey, KeysOf
<1>2. ASSUME k \in KeysOf(InForce) PROVE Settled(k)
  <2>1. PICK r \in DOMAIN rows : rows[r].key = k /\ rows[r].status \in InForce
    BY <1>2 DEF KeysOf
  <2>2. rows[r].status # "superseded"
    BY <2>1 DEF InForce, Decided
  <2>3. r \in OfKey(k) /\ \A x \in OfKey(k) : x \in Nat /\ r \in Nat
    BY <2>1, RowTyped DEF OfKey
  <2>4. \A x \in OfKey(k) : x <= r
    BY <2>1, <2>2, <2>3 DEF OfKey, OnlyLatestCounts
  <2>5. \A m \in OfKey(k) : (\A x \in OfKey(k) : x <= m) => m = r
    BY <2>3, <2>4
  <2>6. Latest(k) = r
    BY <2>3, <2>4, <2>5 DEF Latest
  <2>7. QED
    BY <2>1, <2>3, <2>6 DEF Settled, InForce
<1>3. QED
  BY <1>1, <1>2

\* A desk that is not refreshing owes nothing.
LEMMA RestingDesk ==
  ASSUME NEW d \in Desk, desk[d].new = {}, ~desk[d].gated \/ desk[d].active = {},
         At(d, "idle") \/ At(d, "deciding")
  PROVE  FoldOK(d) /\ SupersedeOK(d) /\ EnsureOK(d) /\ NewOK(d)
BY DEF FoldOK, SupersedeOK, EnsureOK, NewOK, At

\* A pending row is the last of its key, so marking it superseded or decided
\* leaves every other row in its place.
LEMMA MarkKeepsOrder ==
  ASSUME QueueType, OnlyLatestCounts, NEW r \in Pending,
         NEW s \in Decided \cup {"superseded"}, rows' = [rows EXCEPT ![r].status = s]
  PROVE  OnlyLatestCounts'
<1>1. r \in DOMAIN rows /\ rows[r].status = "pending"
  BY DEF Pending
<1>2. /\ DOMAIN rows' = DOMAIN rows
      /\ \A x \in DOMAIN rows : rows'[x].key = rows[x].key
      /\ \A x \in DOMAIN rows : x # r => rows'[x] = rows[x]
  BY <1>1, Marked
<1>3. QED
  BY <1>1, <1>2 DEF OnlyLatestCounts

\* Steps that leave the rows and the desks alone, or end a decision.
LEMMA DecidedDesk ==
  ASSUME DeskInv, OneDesk, ReviewInv', OnlyLatestCounts',
         \A d \in Desk : \/ desk'[d] = desk[d] /\ rows' = rows
                         \/ desk'[d] = IdleDesk
                         \/ At(d, "idle") /\ desk'[d] = desk[d]
                         \/ At(d, "idle") /\ desk'[d] = [desk[d] EXCEPT !.at = "deciding"]
  PROVE  DeskInv'
<1> SUFFICES ASSUME NEW d \in Desk
             PROVE  (FoldOK(d) /\ SupersedeOK(d) /\ EnsureOK(d) /\ NewOK(d))'
  BY DEF DeskInv
<1>1. desk[d] \in DeskState /\ FoldOK(d) /\ SupersedeOK(d) /\ EnsureOK(d) /\ NewOK(d)
  BY DEF DeskInv, ReviewInv, QueueType
<1>2. CASE desk'[d] = desk[d] /\ rows' = rows
  BY <1>1, <1>2 DEF FoldOK, SupersedeOK, EnsureOK, NewOK, At, Pending, KeysOf
<1>3. CASE desk'[d] = IdleDesk
  BY <1>3 DEF IdleDesk, FoldOK, SupersedeOK, EnsureOK, NewOK, At
<1>4. CASE At(d, "idle") /\ desk'[d] = desk[d]
  BY <1>1, <1>4 DEF FoldOK, SupersedeOK, EnsureOK, NewOK, At
<1>5. CASE At(d, "idle") /\ desk'[d] = [desk[d] EXCEPT !.at = "deciding"]
  BY <1>1, <1>5 DEF DeskState, FoldOK, SupersedeOK, EnsureOK, NewOK, At
<1>6. QED
  BY <1>2, <1>3, <1>4, <1>5

\* The refresh of the only desk.
LEMMA RefreshDesk ==
  ASSUME DeskInv, OneDesk, ReviewInv', NEW d \in Desk, Refresh(d)
  PROVE  DeskInv'
<1> DEFINE Goal == (FoldOK(d) /\ SupersedeOK(d) /\ EnsureOK(d) /\ NewOK(d))'
<1>1. /\ QueueType /\ OnlyLatestCounts
      /\ FoldOK(d) /\ SupersedeOK(d) /\ EnsureOK(d) /\ NewOK(d)
      /\ desk \in [Desk -> DeskState] /\ desk[d] \in DeskState
  BY DEF DeskInv, ReviewInv, QueueType
<1>2. /\ desk[d].at \in Phases /\ desk[d].active \subseteq Key
      /\ desk[d].new \subseteq Key /\ desk[d].gated \in BOOLEAN
  BY <1>1 DEF DeskState
<1>3. SUFFICES OnlyLatestCounts' /\ Goal
  BY DEF DeskInv, OneDesk
<1>4. ASSUME rows' = rows PROVE OnlyLatestCounts'
  BY <1>1, <1>4 DEF OnlyLatestCounts
<1>5. ASSUME NEW S \in SUBSET Key, NEW gated \in BOOLEAN, Fold(d, S, gated)
      PROVE  OnlyLatestCounts' /\ Goal
  <2>1. /\ desk'[d].at = "read" /\ desk'[d].active = Active(S, gated)
        /\ desk'[d].gated = gated /\ desk'[d].new = {} /\ rows' = rows
    BY <1>1, <1>5 DEF Fold, IdleDesk
  <2>2. FoldOK(d)'
    BY <2>1 DEF FoldOK, Active
  <2>3. QED
    BY <1>4, <2>1, <2>2 DEF SupersedeOK, EnsureOK, NewOK, At
<1>6. CASE ReadPending(d)
  <2>1. /\ desk'[d].at = "supersede" /\ desk'[d].active = desk[d].active
        /\ desk'[d].gated = desk[d].gated /\ desk'[d].new = desk[d].new
        /\ desk'[d].todo = {r \in Pending : rows[r].key \notin desk[d].active}
        /\ rows' = rows /\ desk[d].at = "read"
    BY <1>1, <1>6 DEF ReadPending, DeskState, At
  <2>2. desk'[d].new = {}
    BY <1>1, <2>1 DEF NewOK, At
  <2>3. SupersedeOK(d)'
    BY <2>1 DEF SupersedeOK, Pending
  <2>4. QED
    BY <1>1, <1>4, <2>1, <2>2, <2>3 DEF FoldOK, EnsureOK, NewOK, At
<1>7. CASE Superseded(d)
  <2>1. /\ desk'[d].at = "ensure" /\ desk'[d].active = desk[d].active
        /\ desk'[d].gated = desk[d].gated /\ desk'[d].new = desk[d].new
        /\ desk'[d].todo = desk[d].active /\ desk[d].todo = {}
        /\ rows' = rows /\ desk[d].at = "supersede"
    BY <1>1, <1>7 DEF Superseded, DeskState, At
  <2>2. desk'[d].new = {}
    BY <1>1, <2>1 DEF NewOK, At
  <2>3. KeysOf({"pending"}) \subseteq desk[d].active
    BY <1>1, <2>1 DEF SupersedeOK, KeysOf, Pending, At
  <2>4. EnsureOK(d)'
    BY <2>1, <2>2, <2>3 DEF EnsureOK, KeysOf
  <2>5. QED
    BY <1>1, <1>4, <2>1, <2>2, <2>4 DEF FoldOK, SupersedeOK, NewOK, At
<1>8. CASE Ensure(d)
  <2>1. PICK k \in desk[d].todo :
           desk' = [desk EXCEPT ![d].todo = @ \ {k},
                                ![d].new = IF Settled(k) THEN {} ELSE {k}]
    BY <1>8 DEF Ensure
  <2>2. /\ desk'[d].at = "ensure" /\ desk'[d].active = desk[d].active
        /\ desk'[d].gated = desk[d].gated
        /\ desk'[d].todo = desk[d].todo \ {k}
        /\ desk'[d].new = IF Settled(k) THEN {} ELSE {k}
        /\ rows' = rows /\ desk[d].at = "ensure" /\ desk[d].new = {}
    BY <1>1, <1>8, <2>1 DEF Ensure, DeskState, At
  <2>3. Settled(k) <=> k \in KeysOf(InForce)
    BY <1>1, SettledInForce
  <2>4. KeysOf(InForce)' = KeysOf(InForce) /\ KeysOf({"pending"})' = KeysOf({"pending"})
    BY <2>2 DEF KeysOf
  <2>5. EnsureOK(d)'
    BY <1>1, <2>1, <2>2, <2>3, <2>4 DEF EnsureOK, At
  <2>6. NewOK(d)'
    BY <2>2, <2>3, <2>4 DEF NewOK, At
  <2>7. QED
    BY <1>1, <1>4, <2>2, <2>5, <2>6 DEF FoldOK, SupersedeOK, At
<1>9. CASE Refreshed(d) \/ Interrupted(d)
  <2>1. desk'[d] = IdleDesk /\ rows' = rows
    BY <1>1, <1>9 DEF Refreshed, Interrupted
  <2>2. QED
    BY <1>4, <2>1 DEF IdleDesk, FoldOK, SupersedeOK, EnsureOK, NewOK, At
<1>10. CASE Supersede(d)
  <2>1. PICK r \in desk[d].todo :
           /\ rows' = [rows EXCEPT ![r].status = "superseded"]
           /\ desk' = [desk EXCEPT ![d].todo = @ \ {r}]
    BY <1>10 DEF Supersede
  <2>2. /\ desk'[d].at = "supersede" /\ desk'[d].active = desk[d].active
        /\ desk'[d].gated = desk[d].gated /\ desk'[d].new = desk[d].new
        /\ desk'[d].todo = desk[d].todo \ {r} /\ desk[d].at = "supersede"
    BY <1>1, <1>10, <2>1 DEF Supersede, DeskState, At
  <2>3. r \in Pending /\ desk[d].todo \subseteq Pending
    BY <1>1, <2>1, <2>2 DEF SupersedeOK, At
  <2>4. /\ DOMAIN rows' = DOMAIN rows /\ rows'[r].status = "superseded"
        /\ \A x \in DOMAIN rows : x # r => rows'[x] = rows[x]
    BY <1>1, <2>1, <2>3, Marked DEF Pending
  <2>5. Pending' = Pending \ {r}
    BY <2>3, <2>4 DEF Pending
  <2>6. SupersedeOK(d)'
    BY <1>1, <2>2, <2>3, <2>4, <2>5 DEF SupersedeOK, At, Pending
  <2>7. OnlyLatestCounts'
    BY <1>1, <2>1, <2>3, MarkKeepsOrder
  <2>8. desk'[d].new = {}
    BY <1>1, <2>2 DEF NewOK, At
  <2>9. QED
    BY <1>1, <2>2, <2>6, <2>7, <2>8 DEF FoldOK, EnsureOK, NewOK, At
<1>11. CASE Insert(d)
  <2>1. PICK k \in desk[d].new : rows' = Append(rows, [key |-> k, status |-> "pending"])
    BY <1>11 DEF Insert
  <2>2. /\ desk'[d].at = desk[d].at /\ desk'[d].active = desk[d].active
        /\ desk'[d].gated = desk[d].gated /\ desk'[d].new = {}
        /\ desk'[d].todo = desk[d].todo /\ desk[d].at = "ensure"
    BY <1>1, <1>11, <2>1 DEF Insert, DeskState, NewOK, At
  <2>3. k \in Key /\ k \notin KeysOf(InForce) /\ desk[d].new = {k} /\ k \in desk[d].active
    BY <1>1, <1>2, <2>1, <2>2 DEF NewOK, EnsureOK, At
  <2> DEFINE last == Len(rows) + 1
  <2>4. /\ DOMAIN rows' = DOMAIN rows \cup {last} /\ DOMAIN rows = 1 .. Len(rows)
        /\ Len(rows) \in Nat
        /\ \A x \in DOMAIN rows : rows'[x] = rows[x]
        /\ rows'[last] = [key |-> k, status |-> "pending"]
    BY <1>1, <1>11, <2>1, <2>3, Added DEF Insert
  <2>5. OnlyLatestCounts'
    <3> SUFFICES ASSUME NEW r \in DOMAIN rows', NEW x \in DOMAIN rows',
                        r < x, rows'[r].key = rows'[x].key
                 PROVE  rows'[r].status = "superseded"
      BY DEF OnlyLatestCounts
    <3>1. r \in DOMAIN rows /\ rows'[r] = rows[r]
      BY <2>4
    <3>2. CASE x \in DOMAIN rows
      BY <1>1, <2>4, <3>1, <3>2 DEF OnlyLatestCounts
    <3>3. CASE x = last
      <4>1. rows[r].key = k
        BY <2>4, <3>1, <3>3
      <4>2. rows[r].status \notin InForce
        BY <2>3, <3>1, <4>1 DEF KeysOf
      <4>3. QED
        BY <1>1, <3>1, <4>2, RowTyped
    <3>4. QED
      BY <2>4, <3>2, <3>3
  <2>6. KeysOf({"pending"})' = KeysOf({"pending"}) \cup {k}
    BY <2>4 DEF KeysOf
  <2>7. KeysOf(InForce)' = KeysOf(InForce) \cup {k}
    BY <2>4 DEF KeysOf, InForce
  <2>8. EnsureOK(d)'
    BY <1>1, <2>2, <2>3, <2>6, <2>7 DEF EnsureOK, At
  <2>9. QED
    BY <1>1, <2>2, <2>5, <2>8 DEF FoldOK, SupersedeOK, NewOK, At
<1>12. QED
  BY <1>5, <1>6, <1>7, <1>8, <1>9, <1>10, <1>11 DEF Refresh, Reads, Writes

\* Who writes a row, and which ones: with one process, only pending rows lose
\* their status.
LEMMA DeskNext ==
  ASSUME DeskInv, OneDesk, [Next]_vars
  PROVE  /\ DeskInv'
         /\ \A r \in DOMAIN rows : rows[r].status \in Decided => rows'[r] = rows[r]
<1> DEFINE Stuck == \A r \in DOMAIN rows : rows[r].status \in Decided => rows'[r] = rows[r]
<1>1. /\ ReviewInv' /\ ReviewInv /\ QueueType /\ RecOK /\ OnlyLatestCounts
  BY ReviewNext DEF DeskInv, ReviewInv
<1>2. ASSUME rows' = rows PROVE OnlyLatestCounts' /\ Stuck
  BY <1>1, <1>2 DEF OnlyLatestCounts
<1>3. ASSUME NEW r \in Pending, NEW s \in Decided \cup {"superseded"},
             rows' = [rows EXCEPT ![r].status = s]
      PROVE  OnlyLatestCounts' /\ Stuck
  <2>1. r \in DOMAIN rows /\ rows[r].status \notin Decided
    BY DEF Pending, Decided
  <2>2. Stuck
    BY <1>1, <1>3, <2>1, Marked
  <2>3. QED
    BY <1>1, <1>3, <2>2, MarkKeepsOrder
<1>4. CASE (StoreOps /\ UNCHANGED queueVars) \/ UNCHANGED vars
  <2>1. rows' = rows /\ desk' = desk
    BY <1>4 DEF queueVars, vars
  <2>2. QED
    BY <1>1, <1>2, <2>1, DecidedDesk
<1>5. CASE CommitArchive
  <2>1. CASE tx.rec = NoRec
    BY <1>1, <1>2, <1>5, <2>1, DecidedDesk DEF CommitArchive, queueVars
  <2>2. CASE tx.rec # NoRec
    <3>1. /\ rows' = [rows EXCEPT ![tx.rec].status = "accepted"]
          /\ DecisionOver /\ tx.rec \in Pending /\ \A d \in Desk : At(d, "deciding")
      BY <1>1, <1>5, <2>2 DEF CommitArchive, DecideRow, RecOK, OneDesk
    <3>2. \A d \in Desk : desk'[d] = IdleDesk
      BY <3>1 DEF DecisionOver
    <3>3. QED
      BY <1>1, <1>3, <3>1, <3>2, DecidedDesk DEF Decided
  <2>3. QED
    BY <2>1, <2>2
<1>6. CASE AbortTx
  <2>1. rows' = rows /\ \A d \in Desk : desk'[d] \in {IdleDesk, desk[d]}
    BY <1>6 DEF AbortTx, DecisionOver
  <2>2. QED
    BY <1>1, <1>2, <2>1, DecidedDesk
<1>7. ASSUME NEW d \in Desk, Refresh(d)
      PROVE  DeskInv' /\ Stuck
  <2>1. CASE Supersede(d)
    <3>1. PICK r \in desk[d].todo : rows' = [rows EXCEPT ![r].status = "superseded"]
      BY <2>1 DEF Supersede
    <3>2. r \in Pending
      BY <2>1, <3>1 DEF DeskInv, SupersedeOK, Supersede
    <3>3. QED
      BY <1>1, <1>3, <1>7, <3>1, <3>2, RefreshDesk
  <2>2. CASE Insert(d)
    <3>1. PICK k \in desk[d].new : rows' = Append(rows, [key |-> k, status |-> "pending"])
      BY <2>2 DEF Insert
    <3>2. k \in Key /\ Len(rows) < MaxRows
      BY <1>1, <2>2, <3>1 DEF QueueType, DeskState, Insert
    <3>3. QED
      BY <1>1, <1>7, <3>1, <3>2, Added, RefreshDesk
  <2>3. CASE ~Writes(d)
    <3>1. rows' = rows
      BY <1>7, <2>3 DEF Refresh, Reads, ReadPending, Superseded, Ensure, Refreshed,
                        Interrupted, Fold
    <3>2. QED
      BY <1>1, <1>2, <1>7, <3>1, RefreshDesk
  <2>4. QED
    BY <2>1, <2>2, <2>3 DEF Writes
<1>8. ASSUME NEW d \in Desk, NEW r \in DOMAIN rows, Accept(d, r)
      PROVE  DeskInv' /\ Stuck
  <2>1. /\ r \in Pending /\ At(d, "idle") /\ \A e \in Desk : e = d
        /\ rows[r].key[1] \in Action
    BY <1>1, <1>8, RowTyped DEF Accept, Undecided, OneDesk
  <2>2. CASE rows[r].key[1] \in {"pin", "split"}
    <3>1. rows' = [rows EXCEPT ![r].status = "accepted"] /\ desk' = desk
      BY <1>8, <2>2 DEF Accept, DecideRow
    <3>2. QED
      BY <1>1, <1>3, <2>1, <3>1, DecidedDesk DEF Decided
  <2>3. CASE rows[r].key[1] \in Archiving
    <3>1. rows' = rows /\ Deciding(d)
      BY <1>8, <2>3 DEF Accept, Action, Archiving, DemoteArchiveClass
    <3>2. desk'[d] = [desk[d] EXCEPT !.at = "deciding"]
      BY <1>1, <3>1 DEF Deciding, QueueType
    <3>3. QED
      BY <1>1, <1>2, <2>1, <3>1, <3>2, DecidedDesk
  <2>4. QED
    BY <2>1, <2>2, <2>3 DEF Action, Archiving
<1>9. ASSUME NEW d \in Desk, NEW r \in DOMAIN rows, Reject(d, r)
      PROVE  DeskInv' /\ Stuck
  <2>1. /\ r \in Pending /\ rows' = [rows EXCEPT ![r].status = "rejected"]
        /\ desk' = desk /\ At(d, "idle") /\ \A e \in Desk : e = d
    BY <1>9 DEF Reject, Undecided, DecideRow, OneDesk
  <2>2. QED
    BY <1>1, <1>3, <2>1, DecidedDesk DEF Decided
<1>10. QED
  BY <1>4, <1>5, <1>6, <1>7, <1>8, <1>9 DEF Next

\* With one review process the queue shows what the fold recommends and
\* nobody decided: no decided candidate comes back, none has two pending rows.
THEOREM QueueIsAlwaysTrue ==
  ASSUME OneDesk
  PROVE  Spec => []QueueIsTrue
<1>1. Init => DeskInv
  BY QueueInitInv
<1>2. DeskInv /\ [Next]_vars => DeskInv'
  BY DeskNext
<1>3. ASSUME DeskInv PROVE QueueIsTrue
  <2>1. QueueType /\ OnlyLatestCounts
    BY <1>3 DEF DeskInv, ReviewInv
  <2>2. ASSUME NEW r \in DOMAIN rows, NEW x \in DOMAIN rows,
               rows[r].key = rows[x].key,
               rows[r].status # "superseded", rows[x].status # "superseded"
        PROVE  r = x
    <3>1. r \in Nat /\ x \in Nat
      BY <2>1, RowTyped
    <3>2. ~(r < x) /\ ~(x < r)
      BY <2>1, <2>2 DEF OnlyLatestCounts
    <3>3. QED
      BY <3>1, <3>2
  <2>3. NotResurfaced
    <3> SUFFICES ASSUME NEW k \in KeysOf(Decided) \cap KeysOf({"pending"}) PROVE FALSE
      BY DEF NotResurfaced
    <3>1. PICK r \in DOMAIN rows : rows[r].key = k /\ rows[r].status \in Decided
      BY DEF KeysOf
    <3>2. PICK x \in DOMAIN rows : rows[x].key = k /\ rows[x].status = "pending"
      BY DEF KeysOf
    <3>3. QED
      BY <2>2, <3>1, <3>2 DEF Decided
  <2>4. OnePendingRow
    BY <2>2 DEF OnePendingRow, Pending
  <2>5. KeysOf(InForce) = KeysOf({"pending"}) \cup KeysOf(Decided)
    BY DEF KeysOf, InForce
  <2>6. ASSUME NEW d \in Desk, At(d, "ensure"), desk[d].todo = {}, desk[d].new = {}
        PROVE  /\ KeysOf({"pending"}) = desk[d].active \ KeysOf(Decided)
               /\ desk[d].gated => \A k \in KeysOf({"pending"}) : k[1] \notin DemoteArchiveClass
    <3>1. FoldOK(d) /\ EnsureOK(d)
      BY <1>3 DEF DeskInv
    <3>2. KeysOf({"pending"}) = desk[d].active \ KeysOf(Decided)
      BY <2>3, <2>5, <2>6, <3>1 DEF EnsureOK, NotResurfaced
    <3>3. QED
      BY <3>1, <3>2 DEF FoldOK
  <2>7. QED
    BY <2>3, <2>4, <2>6 DEF QueueIsTrue, QueueMirrorsFold
<1>4. QED
  BY <1>1, <1>2, <1>3, PTL DEF Spec

\* With one review process a decision is final, is carried out in the step
\* that records it, and nothing is carried out that nobody decided.
THEOREM DecisionsAreAlwaysReal ==
  ASSUME OneDesk
  PROVE  Spec => DecisionsAreReal
<1>1. Init => DeskInv
  BY QueueInitInv
<1>2. DeskInv /\ [Next]_vars => DeskInv'
  BY DeskNext
<1>3. DeskInv /\ [Next]_vars =>
        [\A r \in DOMAIN rows : rows[r].status \in Decided => rows'[r] = rows[r]]_queueVars
  BY DeskNext
<1>4. Spec => DecisionsStick
  BY <1>1, <1>2, <1>3, PTL DEF Spec, DecisionsStick
<1>5. QED
  BY <1>4, AcceptancesAreApplied DEF DecisionsAreReal
=============================================================================
