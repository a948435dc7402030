------------------------------- MODULE Review --------------------------------
(***************************************************************************)
(* The review queue on top of the snapshot store: what a human accepts is  *)
(* applied by the mutation core in the same transaction that marks the row *)
(* accepted.  Mutations from the command line, ingestion, editors and      *)
(* crashes go on next to it.                                               *)
(***************************************************************************)
EXTENDS Store, ReviewQueue

\* the five actions the fold recommends; only the demote class is gated
Action == DemoteArchiveClass \cup {"pin", "split", "invalidate_or_correct"}

\* a recommendation is of one artifact; rows are numbered
ASSUME ReviewAssumption ==
  /\ Key \subseteq Action \X Artifact
  /\ NoRec \notin Nat

vars == <<storeVars, queueVars>>

\* the registry the fold reads: pins are suggested for what is not pinned;
\* cold candidates become cold_transition when critical, archive when not;
\* split and invalidate_or_correct come from the policy, for any artifact
Recommends(S) ==
  \A k \in S :
    /\ k[1] = "pin" => k[2] \notin db.pinned
    /\ k[1] = "archive" => k[2] \notin db.critical
    /\ k[1] = "cold_transition" => k[2] \in db.critical

\* an invalidation is archived, critical or not
Target(action) == IF action = "cold_transition" THEN "cold" ELSE "archived"

\* _apply_accept
Accept(d, r) ==
  /\ At(d, "idle") /\ Lock
  /\ Undecided(r)
  /\ LET action == rows[r].key[1]
         a == rows[r].key[2]
     IN  CASE action = "pin" ->
                /\ db' = Pinned(db, a, TRUE)
                /\ DecideRow(r, "accepted")
                /\ UNCHANGED <<files, tx, replaced, torn, desk>>
           [] action = "split" ->
                /\ DecideRow(r, "accepted")
                /\ UNCHANGED <<storeVars, desk>>
           [] OTHER ->
                /\ ArchiveBegin(a, Target(action), r)
                /\ Deciding(d)
                /\ UNCHANGED rows

\* mutant: the row is not marked by the transaction that archives
CommitRowLater == ArchiveCommit /\ DecisionOver /\ UNCHANGED rows

CommitArchive ==
  /\ ArchiveCommit
  /\ IF tx.rec = NoRec THEN UNCHANGED queueVars
     ELSE DecideRow(tx.rec, "accepted") /\ DecisionOver

AbortTx == Abort /\ DecisionOver /\ UNCHANGED rows

Refresh(d) ==
  /\ \/ \E S \in SUBSET Key, gated \in BOOLEAN : Recommends(S) /\ Fold(d, S, gated)
     \/ Reads(d)
     \/ Lock /\ Writes(d)
  /\ UNCHANGED storeVars

Init == StoreInit /\ QueueInit

Next ==
  \/ StoreOps /\ UNCHANGED queueVars
  \/ CommitArchive
  \/ AbortTx
  \/ \E d \in Desk : Refresh(d)
  \/ \E d \in Desk : \E r \in DOMAIN rows :
       Accept(d, r) \/ (Lock /\ Reject(d, r) /\ UNCHANGED storeVars)

Spec == Init /\ [][Next]_vars

\* An accepted recommendation was applied, and in the step that marked it: a
\* row never becomes accepted while its artifact is where it was.
AcceptedIsApplied ==
  [][\A r \in DOMAIN rows :
       rows[r].status # "accepted" /\ rows'[r].status = "accepted"
         => LET action == rows[r].key[1]
                a == rows[r].key[2]
            IN  IF action = "pin" THEN a \in db'.pinned \cap db'.critical
                ELSE action # "split" => db'.life[a] = Target(action)]_vars

\* The queue never moves an artifact behind its own back: what a row's
\* transaction moves is the row's artifact, and the row, until then pending,
\* is accepted in the same step; so no row moves anything twice.
QueueArchivesOnce ==
  [][\A a \in Artifact :
       db.life[a] # db'.life[a] /\ tx.rec # NoRec
         => /\ rows[tx.rec].status = "pending" /\ rows'[tx.rec].status = "accepted"
            /\ rows[tx.rec].key[2] = a]_vars

\* What a decision is worth: it stays, it was carried out, and nothing is
\* carried out that nobody decided.
DecisionsAreReal == DecisionsStick /\ AcceptedIsApplied /\ QueueArchivesOnce
=============================================================================
