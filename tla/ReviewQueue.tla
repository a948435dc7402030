----------------------------- MODULE ReviewQueue -----------------------------
(***************************************************************************)
(* The recommendation queue: the gates of live/state.py and the rows of    *)
(* live/queue.py.  What the fold of the telemetry recommends is an input:  *)
(* it may be any set of keys each time it is computed.                     *)
(*                                                                         *)
(* refresh runs outside any transaction: each of its statements commits by *)
(* itself, and what it read before may have changed.  decide runs inside   *)
(* one transaction.  Each desk is one `karc review` process.               *)
(***************************************************************************)
EXTENDS Naturals, Sequences

CONSTANTS
  Desk,                 \* the review processes
  Key,                  \* recommendation keys: <<action, artifact>>
  MaxRows               \* bound on the recommendations table

ASSUME QueueAssumption == MaxRows \in Nat

DemoteArchiveClass == {"archive", "cold_transition"}
Decided == {"accepted", "rejected"}
Row == [key : Key, status : Decided \cup {"pending", "superseded"}]

VARIABLES
  rows,                 \* the recommendations table, in creation order
  desk                  \* desk[d]: the refresh in progress
queueVars == <<rows, desk>>

IdleDesk == [at |-> "idle", active |-> {}, gated |-> FALSE, todo |-> {}, new |-> {}]
At(d, phase) == desk[d].at = phase

-----------------------------------------------------------------------------
(* compute and _build_queue: demotions and archivals are held back while   *)
(* coverage is frozen or the observation window is open.                   *)

\* mutant: the gates hold nothing back
Ungated(S, gated) == S
Active(S, gated) == {k \in S : gated => k[1] \notin DemoteArchiveClass}

Fold(d, S, gated) ==
  /\ At(d, "idle")
  /\ desk' = [desk EXCEPT ![d] = [IdleDesk EXCEPT
                !.at = "read", !.active = Active(S, gated), !.gated = gated]]
  /\ UNCHANGED rows

-----------------------------------------------------------------------------
(* refresh: supersede what is gone, then give each candidate a row.        *)

Pending == {r \in DOMAIN rows : rows[r].status = "pending"}
OfKey(k) == {r \in DOMAIN rows : rows[r].key = k}
Latest(k) == CHOOSE r \in OfKey(k) : \A x \in OfKey(k) : x <= r

ReadPending(d) ==
  /\ At(d, "read")
  /\ desk' = [desk EXCEPT
       ![d].at = "supersede",
       ![d].todo = {r \in Pending : rows[r].key \notin desk[d].active}]
  /\ UNCHANGED rows

\* the status is overwritten, whatever it is by now
Supersede(d) ==
  /\ At(d, "supersede")
  /\ \E r \in desk[d].todo :
       /\ rows' = [rows EXCEPT ![r].status = "superseded"]
       /\ desk' = [desk EXCEPT ![d].todo = @ \ {r}]

\* from here on, todo holds candidates
Superseded(d) ==
  /\ At(d, "supersede") /\ desk[d].todo = {}
  /\ desk' = [desk EXCEPT ![d].at = "ensure", ![d].todo = desk[d].active]
  /\ UNCHANGED rows

\* mutants: only a pending row, only a decided one settles its candidate
OnlyPendingSettles(k) == OfKey(k) # {} /\ rows[Latest(k)].status = "pending"
OnlyDecidedSettles(k) == OfKey(k) # {} /\ rows[Latest(k)].status \in Decided
Settled(k) ==
  OfKey(k) # {} /\ rows[Latest(k)].status \in Decided \cup {"pending"}

Ensure(d) ==
  /\ At(d, "ensure") /\ desk[d].new = {}
  /\ \E k \in desk[d].todo :
       desk' = [desk EXCEPT ![d].todo = @ \ {k},
                            ![d].new = IF Settled(k) THEN {} ELSE {k}]
  /\ UNCHANGED rows

Insert(d) ==
  /\ Len(rows) < MaxRows
  /\ \E k \in desk[d].new : rows' = Append(rows, [key |-> k, status |-> "pending"])
  /\ desk' = [desk EXCEPT ![d].new = {}]

Refreshed(d) ==
  /\ At(d, "ensure") /\ desk[d].todo = {} /\ desk[d].new = {}
  /\ desk' = [desk EXCEPT ![d] = IdleDesk]
  /\ UNCHANGED rows

\* Ctrl-C, or the database stayed locked
Interrupted(d) ==
  /\ desk[d].at \notin {"idle", "deciding"}
  /\ desk' = [desk EXCEPT ![d] = IdleDesk]
  /\ UNCHANGED rows

\* the steps of a refresh that only read, and those that write a row
Reads(d) == ReadPending(d) \/ Superseded(d) \/ Ensure(d) \/ Refreshed(d) \/ Interrupted(d)
Writes(d) == Supersede(d) \/ Insert(d)

-----------------------------------------------------------------------------
(* decide: only a pending row can be accepted or rejected, from a process  *)
(* that is not refreshing.                                                 *)

\* mutant: the status is not looked at
AnyRow(r) == r \in DOMAIN rows
Undecided(r) == r \in Pending

DecideRow(r, status) == rows' = [rows EXCEPT ![r].status = status]

\* an acceptance that takes the mutation core several steps
Deciding(d) == desk' = [desk EXCEPT ![d].at = "deciding"]
DecisionOver ==
  desk' = [d \in Desk |-> IF At(d, "deciding") THEN IdleDesk ELSE desk[d]]

Reject(d, r) ==
  /\ At(d, "idle")
  /\ Undecided(r)
  /\ DecideRow(r, "rejected")
  /\ UNCHANGED desk

-----------------------------------------------------------------------------
QueueInit == rows = <<>> /\ desk = [d \in Desk |-> IdleDesk]

QueueTypeOK ==
  /\ rows \in Seq(Row) /\ Len(rows) <= MaxRows
  /\ \A d \in Desk :
       /\ desk[d].at \in {"idle", "read", "supersede", "ensure", "deciding"}
       /\ desk[d].active \subseteq Key /\ desk[d].new \subseteq Key

KeysOf(status) == {rows[r].key : r \in {x \in DOMAIN rows : rows[x].status \in status}}

\* A candidate that was decided is not offered again (queue.py, rule 1).
NotResurfaced == KeysOf(Decided) \cap KeysOf({"pending"}) = {}

\* A candidate has at most one pending row (rule 2).
OnePendingRow == \A r, x \in Pending : rows[r].key = rows[x].key => r = x

\* When a refresh is done, what is pending is what the fold recommends and
\* nobody decided; while the gates hold, nothing of the demote class is.
QueueMirrorsFold ==
  \A d \in Desk :
    At(d, "ensure") /\ desk[d].todo = {} /\ desk[d].new = {}
      => /\ KeysOf({"pending"}) = desk[d].active \ KeysOf(Decided)
         /\ desk[d].gated => \A k \in KeysOf({"pending"}) : k[1] \notin DemoteArchiveClass

\* What the queue shows: the three rules of the refresh together.
QueueIsTrue == NotResurfaced /\ OnePendingRow /\ QueueMirrorsFold

\* The decision history only grows: no decided row changes its status.
DecisionsStick ==
  [][\A r \in DOMAIN rows : rows[r].status \in Decided => rows'[r] = rows[r]]_queueVars
=============================================================================
