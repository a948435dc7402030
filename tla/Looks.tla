-------------------------------- MODULE Looks -------------------------------
(* The gates of the E4 runs over their attempt rows (bench/e4_model.py,      *)
(* e4_grid.py, e4_sequential.py, e4_activation.py, e4_instrument.py).  A row *)
(* is [id, arm, task, class, passed, leaked, stale, cost]; a task            *)
(* [id, forbids].  Rates are counted, never divided.                         *)
EXTENDS Integers, Sequences, FiniteSets, SequencesExt, FiniteSetsExt, Functions

CONSTANTS
  Arms,                 \* ARMS
  Comparators,          \* PRIMARY_COMPARATORS
  SensitivityArms,      \* SENSITIVITY_ARMS
  Reps,                 \* REPS
  LookTasks,            \* LOOK_TASKS
  NFloor, NCap,         \* N_TASK_FLOOR, N_TASK_CAP
  Margin,               \* MARGIN, in the unit of the success differences
  Lower(_), Upper(_)    \* the bootstrap's quantiles of the paired differences

Total(seq) == FoldLeft(LAMBDA a, b : a + b, 0, seq)
SumOver(S, f(_)) == MapThenSumSet(f, S)

-----------------------------------------------------------------------------
(* _latest_graded: the last attempt of every run, where it was graded.       *)
LatestRows(rows) ==
  {i \in DOMAIN rows : \A j \in DOMAIN rows : rows[j].id = rows[i].id => j <= i}
\* Mutant of Graded: every graded attempt counts.
EveryGraded(rows) == {i \in DOMAIN rows : rows[i].class \in {"ok", "task"}}
Graded(rows) == {i \in LatestRows(rows) : rows[i].class \in {"ok", "task"}}

Of(rows, task) == {i \in Graded(rows) : rows[i].task = task}
Group(rows, arm, task) == {i \in Of(rows, task) : rows[i].arm = arm}
Passes(rows, group) == Cardinality({i \in group : rows[i].passed})

(* canary_verdict: without any document at most 5 % of a task's and 2 % of   *)
(* all runs may succeed, and none may show a tag.                            *)
GateComplete(rows, tasks) ==
  /\ Cardinality(Graded(rows)) = Len(tasks) * Reps
  /\ \A t \in ToSet(tasks) : Cardinality(Of(rows, t.id)) = Reps
Flagged(rows, tasks) ==
  {t \in ToSet(tasks) : Cardinality(Of(rows, t.id)) = Reps /\ 20 * Passes(rows, Of(rows, t.id)) > Reps}

\* Mutant of CanaryPasses: what is there decides, complete or not.
CanaryIncomplete(rows, tasks) ==
  /\ Flagged(rows, tasks) = {}
  /\ 50 * Passes(rows, Graded(rows)) <= Len(tasks) * Reps
  /\ \A i \in Graded(rows) : ~rows[i].leaked
CanaryPasses(rows, tasks) ==
  /\ GateComplete(rows, tasks)
  /\ Flagged(rows, tasks) = {}
  /\ 50 * Passes(rows, Graded(rows)) <= Len(tasks) * Reps
  /\ \A i \in Graded(rows) : ~rows[i].leaked

\* trap_verdict: given the old version alone, 70 % must repeat its value
TrapPasses(rows, tasks) ==
  /\ GateComplete(rows, tasks)
  /\ 10 * Passes(rows, Graded(rows)) >= 7 * Len(tasks) * Reps

-----------------------------------------------------------------------------
(* Lifecycle (e4_instrument.py): what was exposed is what was supplied and   *)
(* what was fetched and resolved, listings aside.                            *)
Exposed(access) == ~access.unresolved /\ ~access.listing
ExposureSet(supplied, accesses) == supplied \cup {a.version : a \in {a \in accesses : Exposed(a)}}

SourceCategory(required, stale, exposure) ==
  CASE required \cap exposure # {} /\ stale \cap exposure # {} -> "both"
    [] required \cap exposure # {} /\ stale \cap exposure = {} -> "current_only"
    [] required \cap exposure = {} /\ stale \cap exposure # {} -> "stale_only"
    [] OTHER -> "neither"

Lifecycle(required, exposure, value, abstained) ==
  CASE abstained -> "L6"
    [] ~abstained /\ value = "stale" -> "L5"
    [] ~abstained /\ value = "expected" -> "success"
    [] OTHER -> IF required \subseteq exposure THEN "L2" ELSE "L1"

\* _guard_index: what the guard logged under a run's name, in all its attempts
Logged(log, run) == {i \in DOMAIN log : log[i].run = run}
ToolCalls(log, run) == {i \in Logged(log, run) : log[i].hook = "PreToolUse"}
Documents(log, run) == UNION {log[i].documents : i \in ToolCalls(log, run)}
UnresolvedOf(log, run) == SumOver(ToolCalls(log, run), LAMBDA i : log[i].unresolved)

\* Mutant of LifecycleRow: what was fetched is left out.
LifecycleSupplyOnly(row, task, supplied, log) ==
  [lifecycle |-> Lifecycle(task.required, supplied,
                   IF row.passed THEN "expected" ELSE IF row.stale THEN "stale" ELSE "other", row.abstained),
   l4 |-> task.forbids \cap supplied # {},
   unresolved |-> UnresolvedOf(log, row.id),
   observable |-> \E i \in Logged(log, row.id) : log[i].hook = "SessionStart"]
LifecycleRow(row, task, supplied, log) ==
  LET exposure == ExposureSet(supplied,
                    {[version |-> v, unresolved |-> FALSE, listing |-> FALSE] : v \in Documents(log, row.id)})
  IN [lifecycle |-> Lifecycle(task.required, exposure,
                      IF row.passed THEN "expected" ELSE IF row.stale THEN "stale" ELSE "other", row.abstained),
      l4 |-> task.forbids \cap exposure # {},
      unresolved |-> UnresolvedOf(log, row.id),
      observable |-> \E i \in Logged(log, row.id) : log[i].hook = "SessionStart"]

\* lifecycle_rows, by the place of their run; supplies[arm][task]
LifecycleRows(rows, tasks, supplies, log) ==
  LET known == {i \in Graded(rows) : rows[i].arm \in Arms /\ \E t \in ToSet(tasks) : t.id = rows[i].task}
  IN [i \in known |-> LET t == CHOOSE t \in ToSet(tasks) : t.id = rows[i].task
                      IN LifecycleRow(rows[i], t, supplies[rows[i].arm][t.id], log)]

Distribution(life) ==
  [kind \in {"success", "L1", "L2", "L3", "L5", "L6"} |-> Cardinality({i \in DOMAIN life : life[i].lifecycle = kind})]
Observations(life) ==
  [l4 |-> Cardinality({i \in DOMAIN life : life[i].l4}), l5 |-> Distribution(life)["L5"],
   unresolved |-> SumOver(DOMAIN life, LAMBDA i : life[i].unresolved),
   observable |-> \A i \in DOMAIN life : life[i].observable]

-----------------------------------------------------------------------------
(* smoke_verdict: right_size_from_variance and the gate.  The variance over  *)
(* the squared margin is num / den.                                          *)
CeilDiv(a, b) == -((-a) \div b)
Uncapped(num, den) == CeilDiv(6185 * num, 1000 * den)
RightSize(num, den) == Min({NCap, Max({NFloor, Uncapped(num, den)})})

\* looks at a quarter, a half, three quarters and all of the tasks
\* Mutant of SmokeLooks: rounded down.
SmokeLooksDown(n) == [q \in 1 .. 4 |-> (n * q - 4) \div 4]
SmokeLooks(n) == [q \in 1 .. 4 |-> CeilDiv(n * q, 4)]

\* e4_sequential_config refuses any other schedule
ScheduleAccepted(n, looks) ==
  /\ n > 0 /\ looks # <<>> /\ looks[Len(looks)] = n
  /\ looks[1] > 0 /\ \A i \in 1 .. Len(looks) - 1 : looks[i] < looks[i + 1]

ArmRuns(rows, tasks, arm) == UNION {Group(rows, arm, t.id) : t \in ToSet(tasks)}
SmokeComplete(rows, tasks) ==
  \A arm \in Arms, t \in ToSet(tasks) : Cardinality(Group(rows, arm, t.id)) = Reps

\* obs are the Observations; oracle is the arm given everything
SmokePasses(rows, tasks, oracle, obs, activated, uncapped) ==
  LET count(arm) == Passes(rows, ArmRuns(rows, tasks, arm))
      runs == Len(tasks) * Reps
  IN /\ SmokeComplete(rows, tasks)
     /\ 10 * count(oracle) >= 7 * runs
     /\ \E a, b \in Arms : 20 * (count(a) - count(b)) >= runs
     /\ obs.l4 > 0 /\ obs.l5 > 0
     /\ obs.observable /\ obs.unresolved = 0
     /\ uncapped <= NCap
     /\ activated
GridReady(passes, pool, n) == passes /\ pool >= n

(* The outcome layer: some supply differs by outcomes, and some harmful      *)
(* version is held back by the policy and not by its ablation.               *)
OutcomeActivated(tasks, karc, ablated) ==
  /\ \E t \in ToSet(tasks) : karc[t.id] # ablated[t.id]
  /\ \E t \in ToSet(tasks) : t.forbids \cap karc[t.id] = {} /\ t.forbids \cap ablated[t.id] # {}

-----------------------------------------------------------------------------
(* e4_grid.py: the looks of the sequential run.                              *)
\* complete_task_ids: the longest prefix of the order that is whole
WholeTask(rows, arms, t) == \A arm \in arms : Cardinality(Group(rows, arm, t.id)) = Reps
CompletePrefix(rows, arms, tasks) ==
  Max({0} \cup {n \in DOMAIN tasks : \A i \in 1 .. n : WholeTask(rows, arms, tasks[i])})

\* _task_metric, summed over the repetitions
Metric(rows, arm, t, kind) ==
  LET group == Group(rows, arm, t.id)
  IN CASE kind = "success" -> Passes(rows, group)
       [] kind = "stale" -> Cardinality({i \in group : rows[i].stale})
       [] OTHER -> SumOver(group, LAMBDA i : rows[i].cost)

\* paired_bootstrap_panel: positive is better for the policy
Diffs(rows, tasks, comparator, kind) ==
  LET sign == IF kind = "success" THEN 1 ELSE -1
  IN [i \in DOMAIN tasks |->
        sign * (Metric(rows, "karc", tasks[i], kind) - Metric(rows, comparator, tasks[i], kind))]

Null(kind) == IF kind = "success" THEN -Margin ELSE 0
PanelTasks(tasks, kind) ==
  IF kind = "stale" THEN SelectSeq(tasks, LAMBDA t : t.forbids # {}) ELSE tasks

Panel(rows, tasks, comparator, kind) ==
  LET diffs == Diffs(rows, PanelTasks(tasks, kind), comparator, kind)
  IN IF diffs = <<>> THEN [efficacy |-> FALSE, reversal |-> FALSE]
     ELSE [efficacy |-> Lower(diffs) > Null(kind), reversal |-> Upper(diffs) < Null(kind)]

Kinds == {"success", "cost", "stale"}
Panels(rows, tasks) == [c \in Comparators, kind \in Kinds |-> Panel(rows, tasks, c, kind)]
AllEfficacy(panels) == \A x \in DOMAIN panels : panels[x].efficacy
AnyReversal(panels) == \E x \in DOMAIN panels : panels[x].reversal
Registered(panels) ==
  \A c \in Comparators :
    panels[c, "success"].efficacy /\ (panels[c, "cost"].efficacy \/ panels[c, "stale"].efficacy)

LookAction(panels, look) ==
  IF AnyReversal(panels) THEN "STOP_FAIL"
  ELSE IF AllEfficacy(panels) THEN "STOP_PASS_DROP_ARMS"
  ELSE IF look < Len(LookTasks) THEN "CONTINUE"
  ELSE IF Registered(panels) THEN "STOP_PASS" ELSE "STOP_FAIL"

\* Mutant of SequentialLook: it looks at every task that has rows.
LookPeeks(rows, tasks, look) ==
  LET done == SubSeq(tasks, 1, Max({LookTasks[look], CompletePrefix(rows, Arms, tasks)}))
  IN IF \E t \in ToSet(done) : ~WholeTask(rows, Arms, t) THEN "error"
     ELSE LookAction(Panels(rows, done), look)
SequentialLook(rows, tasks, look) ==
  LET done == SubSeq(tasks, 1, LookTasks[look])
  IN IF \E t \in ToSet(done) : ~WholeTask(rows, Arms, t) THEN "error"
     ELSE LookAction(Panels(rows, done), look)

\* sensitivity_analysis: a fixed sample, both axes by the same conjunction
Directional(rows, tasks) ==
  IF \E t \in ToSet(tasks) : ~WholeTask(rows, SensitivityArms, t) THEN {"error"}
  ELSE LET panels == Panels(rows, tasks)
       IN {c \in Comparators : panels[c, "success"].efficacy
                                 /\ (panels[c, "cost"].efficacy \/ panels[c, "stale"].efficacy)}

-----------------------------------------------------------------------------
(* freeze_fixture: the writes in their order, each the value of a file; a    *)
(* fixture is [dir, manifest, build, freeze, retrieval], a value naming what *)
(* it was computed from.                                                     *)
NoFixture == [dir |-> FALSE, manifest |-> "absent", build |-> "absent", freeze |-> "absent", retrieval |-> FALSE]
FreezeWrites ==
  <<[NoFixture EXCEPT !.dir = TRUE],                                          \* copytree, interrupted
    [NoFixture EXCEPT !.dir = TRUE, !.manifest = "draft", !.build = "draft"],
    [NoFixture EXCEPT !.dir = TRUE, !.manifest = "frozen", !.build = "draft"],
    [dir |-> TRUE, manifest |-> "frozen", build |-> "draft", freeze |-> "absent", retrieval |-> TRUE],
    [dir |-> TRUE, manifest |-> "frozen", build |-> "draft", freeze |-> "frozen", retrieval |-> TRUE],
    [dir |-> TRUE, manifest |-> "frozen", build |-> "frozen", freeze |-> "frozen", retrieval |-> TRUE]>>

\* Mutant of LoadsFrozen: the build record is not compared.
LoadsAnyBuild(fx) == fx.manifest # "absent" /\ fx.build # "absent" /\ fx.freeze = fx.manifest
\* load_fixture(require_frozen=True): hashes agree, and the freeze names them
LoadsFrozen(fx) ==
  /\ fx.manifest # "absent" /\ fx.build = fx.manifest
  /\ fx.freeze = fx.manifest
MayFreeze(canary, trap, fx) == canary /\ trap /\ ~fx.dir
=============================================================================
