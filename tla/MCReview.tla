------------------------------ MODULE MCReview -------------------------------
(* Instances of Review: one artifact, and the actions the fold can ask for.  *)
(* A project whose files are edited has no review process, or it has one and *)
(* its files, if there, are large ones and only written by restores.         *)
EXTENDS Review

CONSTANTS a1, k1, k2, d1
MaxCandidates == 2          \* bound on what one fold recommends

\* bound: a split, whose acceptance changes no artifact, next to pins only
Offered == {rows[r].key[1] : r \in DOMAIN rows} \cup UNION {{k[1] : k \in desk[d].active} : d \in Desk}
SplitApart == "split" \in Offered => Offered \subseteq {"split", "pin"}
AllCommands == {"archive", "restore", "pin", "unpin", "ingest", "edit"}
Keys == Action \X {a1}

VARIABLE edited
MCInit == Init /\ edited \in BOOLEAN /\ (edited \/ k1 \notin {disk[a] : a \in Artifact})
MCNext ==
  /\ UNCHANGED edited
  /\ \/ edited /\ StoreNext /\ UNCHANGED queueVars
     \/ /\ ~edited /\ Next /\ (disk' = disk \/ Open)
        /\ SplitApart' /\ \A d \in Desk : Cardinality(desk'[d].active) <= MaxCandidates
MCSpec == MCInit /\ [][MCNext]_<<vars, edited>>
=============================================================================
