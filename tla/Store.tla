-------------------------------- MODULE Store --------------------------------
(***************************************************************************)
(* The snapshot store and the mutation core: snapshot/cas.py, store.py and *)
(* fsck.py, and the version tracking of ingest/pipeline.py they depend on. *)
(*                                                                         *)
(* Contents are identified with their sha256.  The database is one record; *)
(* a mutation works on a private copy under BEGIN IMMEDIATE and publishes  *)
(* it at COMMIT, so at most one transaction is open and a crash or an      *)
(* exception drops the copy.  Files are not part of the transaction: what  *)
(* was written to objects/ or to a canonical path stays.                   *)
(***************************************************************************)
EXTENDS FiniteSets

CONSTANTS
  Artifact,
  Content,
  None,                 \* no file, no version, no artifact
  Large,                \* contents stored as external files under objects/
  Commands,             \* which commands an instance uses next to the queue
  EditsDuringTx,        \* editors may write while a transaction is open
  NoRec                 \* the mutation was not asked for by the review queue

ASSUME StoreAssumption ==
  /\ None \notin Artifact /\ None \notin Content
  /\ Large \subseteq Content
  /\ EditsDuringTx \in BOOLEAN

Lifecycle == {"active", "cold", "archived"}

VARIABLES
  disk,                 \* disk[a]: the file at a's canonical path, or None
  blobs,                \* external files present under objects/
  db,                   \* the committed database
  tx,                   \* the open transaction
  replaced,             \* history: contents a restore wrote over
  torn                  \* history: a transaction died after its restore wrote

files == <<disk, blobs>>
storeVars == <<disk, blobs, db, tx, replaced, torn>>

Database ==
  [cas : SUBSET Content,                     \* cas_objects
   snaps : SUBSET (Artifact \X Content),     \* fs_snapshot_files
   current : [Artifact -> Content \cup {None}],   \* hash of the live version
   life : [Artifact -> Lifecycle],
   saved : [Artifact -> Content \cup {None}], \* content_hash of the last audit
   pinned : SUBSET Artifact,
   critical : SUBSET Artifact]

NoTx == [op |-> "none", art |-> None, target |-> "active", at |-> "none",
         hash |-> None, rec |-> NoRec]

Opens(op, a, target, rec) ==
  [op |-> op, art |-> a, target |-> target, at |-> "begin", hash |-> None,
   rec |-> rec, view |-> db]

Open == tx.op # "none"

-----------------------------------------------------------------------------
(* The content-addressed store.                                            *)

Loadable(d) == {k \in d.cas : k \in Large => k \in blobs}

\* mutants: a large content gets its row and no file; every content gets one
StoredBlobsNone(d, k) == IF k \in d.cas THEN blobs ELSE blobs \ {k}
StoredBlobsAlways(d, k) == IF k \in d.cas THEN blobs ELSE blobs \cup {k}

\* the external file is written and renamed before the row is inserted
StoredBlobs(d, k) == IF k \in d.cas \/ k \notin Large THEN blobs ELSE blobs \cup {k}


\* mutant: a snapshot row without its object
CapturedRowOnly(d, a) == [d EXCEPT !.snaps = @ \cup {<<a, disk[a]>>}]

\* create_fs_snapshot: the file of a, as it is now, goes to the store
Captured(d, a) == [d EXCEPT !.cas = @ \cup {disk[a]},
                            !.snaps = @ \cup {<<a, disk[a]>>}]

Capture(a) ==
  /\ disk[a] # None
  /\ blobs' = StoredBlobs(tx.view, disk[a])

-----------------------------------------------------------------------------
(* Transactions.                                                           *)

\* mutant: BEGIN without the write lock
LockNot == TRUE
Lock == ~Open                       \* BEGIN IMMEDIATE

Commit(d) == db' = d /\ tx' = NoTx

\* an exception, a lost connection or a killed process
Abort ==
  /\ Open
  /\ tx' = NoTx
  /\ torn' = (torn \/ (tx.op = "restore" /\ tx.at = "written"))
  /\ UNCHANGED <<files, db, replaced>>

-----------------------------------------------------------------------------
(* archive: lifecycle transition plus content preservation.                *)

ArchiveBegin(a, target, rec) ==
  /\ Lock
  /\ db.life[a] # target
  /\ tx' = Opens("archive", a, target, rec)
  /\ UNCHANGED <<files, db, replaced, torn>>

ArchiveCapture ==
  /\ tx.op = "archive" /\ tx.at = "begin"
  /\ Capture(tx.art)
  /\ tx' = [tx EXCEPT !.view = Captured(tx.view, tx.art), !.at = "captured"]
  /\ UNCHANGED <<disk, db, replaced, torn>>

\* the hash that goes to the audit log is read from the file a second time
ArchiveHash ==
  /\ tx.op = "archive" /\ tx.at = "captured"
  /\ disk[tx.art] # None
  /\ tx' = [tx EXCEPT !.hash = disk[tx.art], !.at = "hashed"]
  /\ UNCHANGED <<files, db, replaced, torn>>

\* mutant: the store is not asked
KeptHashUnchecked(d, a) == d.current[a]
KeptHash(d, a) == IF d.current[a] \in d.cas THEN d.current[a] ELSE None

\* the file is gone: keep the current version if its content happens to be there
ArchiveWithoutFile ==
  /\ tx.op = "archive" /\ tx.at = "begin"
  /\ disk[tx.art] = None
  /\ tx' = [tx EXCEPT !.hash = KeptHash(tx.view, tx.art), !.at = "hashed"]
  /\ UNCHANGED <<files, db, replaced, torn>>

\* mutant: the audit row is written and the lifecycle state is not
ArchivedLater == [tx.view EXCEPT !.saved[tx.art] = tx.hash]
Archived == [tx.view EXCEPT !.life[tx.art] = tx.target, !.saved[tx.art] = tx.hash]

ArchiveCommit ==
  /\ tx.op = "archive" /\ tx.at = "hashed"
  /\ Commit(Archived)
  /\ UNCHANGED <<files, replaced, torn>>

-----------------------------------------------------------------------------
(* restore: back to the current version, if its content is in the store.   *)

\* mutant: a file that is there is taken for the right one
RewritesMissing(a) == db.current[a] \in db.cas /\ disk[a] = None
Rewrites(a) == db.current[a] \in db.cas /\ disk[a] # db.current[a]

RestoreBegin(a) ==
  /\ Lock
  /\ tx' = [Opens("restore", a, "active", NoRec)
               EXCEPT !.hash = db.current[a],
                      !.at = IF Rewrites(a) THEN "begin" ELSE "ready"]
  /\ UNCHANGED <<files, db, replaced, torn>>

\* mutant: the file is written before it is captured
RestoreCaptureSkipped ==
  /\ tx.op = "restore" /\ tx.at = "begin"
  /\ tx' = [tx EXCEPT !.at = "captured"]
  /\ UNCHANGED <<files, db, replaced, torn>>

\* the pre_restore snapshot of whatever is on disk
RestoreCapture ==
  /\ tx.op = "restore" /\ tx.at = "begin"
  /\ IF disk[tx.art] = None
     THEN tx' = [tx EXCEPT !.at = "captured"] /\ UNCHANGED blobs
     ELSE /\ Capture(tx.art)
          /\ tx' = [tx EXCEPT !.view = Captured(tx.view, tx.art), !.at = "captured"]
  /\ UNCHANGED <<disk, db, replaced, torn>>

\* load and verify, then write aside and rename over the canonical path
RestoreWrite ==
  /\ tx.op = "restore" /\ tx.at = "captured"
  /\ tx.hash \in Loadable(tx.view)
  /\ disk' = [disk EXCEPT ![tx.art] = tx.hash]
  /\ replaced' = replaced \cup ({disk[tx.art]} \ {None})
  /\ tx' = [tx EXCEPT !.at = "written"]
  /\ UNCHANGED <<blobs, db, torn>>

RestoreCommit ==
  /\ tx.op = "restore" /\ tx.at \in {"ready", "written"}
  /\ Commit([tx.view EXCEPT !.life[tx.art] = "active", !.saved[tx.art] = tx.hash])
  /\ UNCHANGED <<files, replaced, torn>>

-----------------------------------------------------------------------------
(* Pins, the version tracking of ingestion, and the editors.               *)

Pinned(d, a, critical) ==
  [d EXCEPT !.pinned = @ \cup {a}, !.critical = IF critical THEN @ \cup {a} ELSE @]

Pin(a, critical) ==
  /\ Lock
  /\ db' = Pinned(db, a, critical)
  /\ UNCHANGED <<files, tx, replaced, torn>>

\* a critical artifact is unpinned only with its file name typed
Unpin(a, confirmed) ==
  /\ Lock
  /\ a \in db.critical => confirmed
  /\ db' = [db EXCEPT !.pinned = @ \ {a}]
  /\ UNCHANGED <<files, tx, replaced, torn>>

\* _ensure_current_version: a read of the document makes what is on disk the
\* live version, whatever the lifecycle state; the content is not stored
Ingest(a) ==
  /\ Lock
  /\ disk[a] # None
  /\ db' = [db EXCEPT !.current[a] = disk[a]]
  /\ UNCHANGED <<files, tx, replaced, torn>>

Edit(a, k) ==
  /\ EditsDuringTx \/ ~Open
  /\ k # disk[a]
  /\ disk' = [disk EXCEPT ![a] = k]
  /\ UNCHANGED <<blobs, db, tx, replaced, torn>>

-----------------------------------------------------------------------------
StoreInit ==
  /\ disk \in [Artifact -> Content \cup {None}]
  /\ blobs = {}
  /\ db = [cas |-> {}, snaps |-> {}, current |-> [a \in Artifact |-> None],
           life |-> [a \in Artifact |-> "active"],
           saved |-> [a \in Artifact |-> None], pinned |-> {}, critical |-> {}]
  /\ tx = NoTx
  /\ replaced = {} /\ torn = FALSE

\* the steps of an open transaction, up to its commit
Mutate ==
  \/ ArchiveCapture \/ ArchiveHash \/ ArchiveWithoutFile
  \/ RestoreCapture \/ RestoreWrite

\* what is not asked for through the review queue
StoreOps ==
  \/ \E a \in Artifact :
       \/ "archive" \in Commands /\ ArchiveBegin(a, "archived", NoRec)
       \/ "restore" \in Commands /\ RestoreBegin(a)
       \/ "pin" \in Commands /\ \E b \in BOOLEAN : Pin(a, b)
       \/ "unpin" \in Commands /\ \E b \in BOOLEAN : Unpin(a, b)
       \/ "ingest" \in Commands /\ Ingest(a)
       \/ "edit" \in Commands /\ \E k \in Content \cup {None} : Edit(a, k)
  \/ Mutate \/ RestoreCommit

StoreNext == StoreOps \/ ArchiveCommit \/ Abort
StoreSpec == StoreInit /\ [][StoreNext]_storeVars

-----------------------------------------------------------------------------
StoreTypeOK ==
  /\ disk \in [Artifact -> Content \cup {None}]
  /\ blobs \subseteq Large
  /\ db \in Database
  /\ Open => tx.op \in {"archive", "restore"} /\ tx.view \in Database

\* Whatever a snapshot row refers to can be loaded, and so can every object:
\* large contents have their file under objects/ before the row that names
\* it is committed, whenever the process dies.
SnapshotsLoad ==
  /\ db.cas = Loadable(db)
  /\ \A s \in db.snaps : s[2] \in db.cas

\* archive reports an artifact restorable (content_hash in its audit row) only
\* if that content is in the store.
RestorableIsTrue ==
  \A a \in Artifact :
    db.life[a] # "active" /\ db.saved[a] # None => db.saved[a] \in db.cas

\* No hard delete: objects, snapshot rows and external files only accumulate,
\* and a commit loses nothing another process committed meanwhile.
NothingIsDeleted ==
  [][/\ db.cas \subseteq db'.cas /\ db.snaps \subseteq db'.snaps
     /\ blobs \subseteq blobs'
     /\ \A a \in Artifact : db'.current[a] = None => db.current[a] = None]_storeVars

\* An artifact never leaves the active state while the content it has on disk
\* is unknown to the store.
ArchivedOnDisk ==
  [][\A a \in Artifact :
       db.life[a] = "active" /\ db'.life[a] # "active" /\ disk[a] # None
         => disk[a] \in db'.cas]_storeVars

\* restore takes a snapshot of whatever is on disk first: what it wrote over can
\* be found in the store once no transaction is open. Only a process that dies
\* between the rename and the commit loses it: the snapshot is rolled back.
OverwrittenIsSavedOrTorn == ~Open /\ ~torn => replaced \subseteq db.cas

\* A restore that commits leaves the current version on disk, whenever the
\* store had its content.
RestoreBringsBack ==
  [][\A a \in Artifact :
       db.life[a] # "active" /\ db'.life[a] = "active" /\ db.current[a] \in db.cas
         => disk'[a] = db.current[a]]_storeVars

\* Both ways out of a state keep the content, and nothing is ever deleted.
MovesKeepContents == ArchivedOnDisk /\ RestoreBringsBack /\ NothingIsDeleted

\* The restore guarantee that archive states and fsck checks, of an artifact it
\* holds for: while the artifact stays cold or archived, the content of its
\* current version stays in the store.
ArchivedContentKept ==
  [][\A a \in Artifact :
       db.life[a] # "active" /\ db'.life[a] # "active" /\ db.current[a] \in db.cas
         => db'.current[a] \in db'.cas]_storeVars
=============================================================================
