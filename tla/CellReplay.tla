----------------------------- MODULE CellReplay -----------------------------
(* One cell of the E4 grid replayed (bench/e4_replay.py:68-254) and the      *)
(* activation gate over its counts (bench/e4_activation.py:28-148).  The     *)
(* policies are parameters: what an event does to one, what it would supply, *)
(* in which list it keeps a version.  A task is one of module Registry.      *)
EXTENDS Integers, Sequences, FiniteSets, SequencesExt

CONSTANTS
  Arms,                 \* WORKING_SET_ARMS
  MakePolicy(_),        \* of an arm
  OnEvent(_, _),        \* a policy after [type, version]
  WorkingSet(_),
  ListOf(_, _),         \* "T1", "T2", a ghost list or "none"
  Transitions(_)        \* how often the policy made each of Moves

Moves == {"t1_to_t2", "resident_to_b", "b1_revival", "b2_revival", "corrected_t2_to_t1"}

Feed(policies, events) == [arm \in Arms |-> FoldLeft(OnEvent, policies[arm], events)]

\* what the task's own reads and outcomes tell every arm, after the answer
\* Mutant of Afterwards: the outcomes are reported before the reads.
OutcomesFirst(task) ==
  [i \in 1 .. Cardinality(task.outcome) |-> [type |-> "validated", version |-> task.required]]
    \o <<[type |-> "read", version |-> task.required]>>
Afterwards(task) ==
  <<[type |-> "read", version |-> task.required]>>
    \o [i \in 1 .. Cardinality(task.outcome) |-> [type |-> "validated", version |-> task.required]]

\* a pre-event that finds its version in karc's T2
HotHits(policies, pre, type) ==
  Cardinality({i \in DOMAIN pre : pre[i].type = type
    /\ ListOf(Feed(policies, SubSeq(pre, 1, i - 1))["karc"], pre[i].version) = "T2"})

\* Jaccard < 1, both empty counting as equal
Diverges(supplied) == supplied["karc"] # supplied["classic"]
StaleOnly(row) ==
  /\ row.forbidden \cap row.supplied["classic"] # {}
  /\ row.forbidden \cap row.supplied["karc"] = {}

\* Mutant of ReplayTask: the task's reads reach the policies before its answer.
ReplayReadsFirst(state, task) ==
  LET told == Feed(state.policies, task.pre)
      read == Feed(told, Afterwards(task))
  IN [policies |-> read,
      hot |-> [type \in DOMAIN state.hot |-> state.hot[type] + HotHits(state.policies, task.pre, type)],
      rows |-> Append(state.rows, [required |-> task.required, forbidden |-> task.forbidden,
                 supplied |-> [arm \in Arms |-> WorkingSet(read[arm])]])]
ReplayTask(state, task) ==
  LET told == Feed(state.policies, task.pre)
  IN [policies |-> Feed(told, Afterwards(task)),
      hot |-> [type \in DOMAIN state.hot |-> state.hot[type] + HotHits(state.policies, task.pre, type)],
      rows |-> Append(state.rows, [required |-> task.required, forbidden |-> task.forbidden,
                 supplied |-> [arm \in Arms |-> WorkingSet(told[arm])]])]

ReplayCell(tasks) ==
  FoldLeft(ReplayTask,
    [policies |-> [arm \in Arms |-> MakePolicy(arm)], rows |-> <<>>,
     hot |-> [type \in {"corrected", "validity_changed"} |-> 0]], tasks)

Count(rows, test(_)) == Len(SelectSeq(rows, test))
Covered(cell, arm) == Count(cell.rows, LAMBDA r : r.required \in r.supplied[arm])
StaleExposed(cell, arm) == Count(cell.rows, LAMBDA r : r.forbidden \cap r.supplied[arm] # {})

-----------------------------------------------------------------------------
(* evaluate_activation_gate: reused counts the tasks that ask again, cells   *)
(* are the sweep; the fourth criterion is over the sweep and three arms.     *)
ArcArms == {"classic", "karc", "karc-no-outcome"} \cap Arms
Criteria(cell, cells, reused, corrected, superseded) ==
  [g1 |-> reused > 0 /\ Transitions(cell.policies["karc"])["t1_to_t2"] > 0,
   g2 |-> corrected > 0 /\ superseded > 0 /\ cell.hot["corrected"] > 0 /\ cell.hot["validity_changed"] > 0,
   g3 |-> Count(cell.rows, LAMBDA r : Diverges(r.supplied)) >= 1,
   g4 |-> \A move \in Moves : \E i \in DOMAIN cells, arm \in ArcArms :
            Transitions(cells[i].policies[arm])[move] > 0,
   g5 |-> StaleExposed(cell, "classic") > 0 /\ Count(cell.rows, StaleOnly) > 0]
FailedCriteria(criteria) == {g \in DOMAIN criteria : ~criteria[g]}
=============================================================================
