------------------------------ MODULE Registry ------------------------------
(* The controlled registry of the E4 runs: its documents and versions, the   *)
(* task schedules (bench/e4_fixture.py), who is current when, and what the   *)
(* retrieval arms and the utility-admission arm may supply                   *)
(* (bench/e4_retrieval.py, e3_retrieval.py, e4_model.py, e4_budget.py).      *)
(* A version is <<document, number>>; a stable document has version 1 only.  *)
EXTENDS Integers, Sequences, FiniteSets, SequencesExt, FiniteSetsExt

CONSTANTS NTasks,                  \* N_TASKS
          NStable, NVersioned,     \* the documents of the first schedule
          NCycles,                 \* V2_N_CYCLES
          Seed

None == 0

\* groups of the corpus: stable documents first, then the versioned ones
Stable(i) == <<i, 1>>                    \* groups["stable"][i]
V1(i) == <<NStable + i, 1>>              \* groups["versioned_v1"][i]
Successor(v) == <<v[1], 2>>              \* superseded_by_version_id

Pre(kind, v) == [type |-> kind, version |-> v]
\* _task_row, its sequence number given by the place in the schedule
Task(required, structure) ==
  [required |-> required, pre |-> <<>>, forbidden |-> {}, outcome |-> {}, structure |-> structure]
With(task, pre) == [task EXCEPT !.pre = <<pre>>]
Forbid(task, v) == [task EXCEPT !.forbidden = {v}]

-----------------------------------------------------------------------------
(* _structure_stats *)
Reuses(tasks) == {i \in DOMAIN tasks : \E j \in 1 .. i - 1 : tasks[j].required[1] = tasks[i].required[1]}
ReusedDocs(tasks) == {tasks[i].required[1] : i \in Reuses(tasks)}
SigmaDenominator(tasks) ==
  IF \E i \in DOMAIN tasks : tasks[i].structure = "ghost" THEN 17
  ELSE IF ReusedDocs(tasks) = {} THEN 0 ELSE 9

EventCount(tasks, type) ==
  FoldLeft(LAMBDA n, task : n + Len(SelectSeq(task.pre, LAMBDA e : e.type = type)), 0, tasks)

-----------------------------------------------------------------------------
(* _schedule: rho in quarters, sigma in twentieths.                          *)
Rehab == Stable(0)
Harmful == Stable(1)
Anchor == Stable(2)
Ghost(i) == Stable(10 + i)

CorrectionTasks ==
  <<Task(Rehab, "prime"), Task(Rehab, "promote"), Task(Harmful, "prime"), Task(Harmful, "promote"),
    Task(Anchor, "prime"), Task(Anchor, "promote"),
    With(Task(Anchor, "rehab-correct"), Pre("corrected", Rehab)),
    [Task(Rehab, "rehab-validated") EXCEPT !.outcome = {"validated"}],
    Task(Rehab, "rehab-repromote"),
    With(Task(Rehab, "harmful-correct-1"), Pre("corrected", Harmful)),
    Forbid(With(Task(Rehab, "harmful-correct-2"), Pre("corrected", Harmful)), Harmful)>>

Superseded(rho, sigma) ==
  Min({6, (2 * sigma * (IF rho >= 2 THEN 17 ELSE 9) + 20) \div 40})

HotTrap(v, structure) ==
  Forbid(With(Task(Successor(v), structure), Pre("validity_changed", v)), v)

SupersessionTasks(n) ==
  FlattenSeq([i \in 1 .. 6 |->
    <<Task(V1(i - 1), "prime"), Task(V1(i - 1), "promote")>>
      \o IF i <= n THEN <<HotTrap(V1(i - 1), "hot-supersession-trap")>> ELSE <<>>])

GhostTasks ==
  FlattenSeq([i \in 1 .. 8 |-> <<Task(Ghost(i - 1), "ghost"), Task(Ghost(i - 1), "ghost")>>])
    \o <<Task(Ghost(0), "ghost"), Task(Ghost(1), "ghost"), Task(Harmful, "ghost")>>

CoreTasks(rho, sigma) ==
  CorrectionTasks \o SupersessionTasks(Superseded(rho, sigma)) \o IF rho >= 2 THEN GhostTasks ELSE <<>>

\* Mutant of Reusable: the first version asked for.
FirstReusable(core) ==
  LET firsts == SelectSeq([i \in DOMAIN core |-> i], LAMBDA i : i \notin Reuses(core))
  IN [k \in DOMAIN firsts |-> core[firsts[k]].required]

\* the last version asked for, per document, in the order of first use
Reusable(core) ==
  LET firsts == SelectSeq([i \in DOMAIN core |-> i], LAMBDA i : i \notin Reuses(core))
  IN [k \in DOMAIN firsts |->
        core[Max({i \in DOMAIN core : core[i].required[1] = core[firsts[k]].required[1]})].required]

TargetReuse(rho) == (rho * NTasks) \div 4

RECURSIVE Fill(_, _, _, _)
Fill(tasks, reusable, need, cursor) ==
  LET n == Len(tasks)
      remaining == NTasks - n
      again == need > 0 /\ (need >= remaining \/ (n + Seed) % 3 # 0)
  IN IF n >= NTasks THEN tasks
     ELSE IF again
          THEN Fill(Append(tasks, Task(reusable[((n + Seed) % Len(reusable)) + 1], "fill-reuse")),
                    reusable, need - 1, cursor)
          ELSE Fill(Append(tasks, Task(Stable(cursor), "fill-new")), reusable, need, cursor + 1)

Schedule(rho, sigma) ==
  IF rho = 0 THEN [i \in 1 .. NTasks |-> Task(Stable(19 + i), "anchor")]
  ELSE LET core == CoreTasks(rho, sigma)
       IN Fill(core, Reusable(core), TargetReuse(rho) - Cardinality(Reuses(core)), 40)

-----------------------------------------------------------------------------
(* _schedule_v2: forty cycles of sixteen tasks over documents of their own;  *)
(* s and v are how far the two iterators have advanced.                      *)
CorrectedPart(s, v, extra) ==
  LET doc == IF extra THEN V1(v) ELSE Stable(s)
      anchor == IF extra THEN s ELSE s + 1
  IN <<Task(doc, "corrected"), Task(doc, "corrected"),
       With(Task(Stable(anchor), "corrected-demote"), Pre("corrected", doc)),
       IF extra THEN HotTrap(doc, "corrected") ELSE Task(Stable(anchor + 1), "corrected")>>

\* Mutant of HarmfulPart: the second correction never comes.
HarmfulOnce(s, v) ==
  <<Task(V1(v), "harmful"), Task(V1(v), "harmful"),
    With(Task(Stable(s), "harmful"), Pre("corrected", V1(v))),
    Forbid(Task(Successor(V1(v)), "harmful-current"), V1(v))>>
HarmfulPart(s, v) ==
  <<Task(V1(v), "harmful"), Task(V1(v), "harmful"),
    With(Task(Stable(s), "harmful"), Pre("corrected", V1(v))),
    Forbid(With(Task(Successor(V1(v)), "harmful-current"), Pre("corrected", V1(v))), V1(v))>>

RehabPart(s, extra) ==
  <<Task(Stable(s), "rehabilitation"), Task(Stable(s), "rehabilitation"),
    With(Task(Stable(s + 1), "rehabilitation"), Pre("corrected", Stable(s))),
    [Task(Stable(s), "rehab-validated") EXCEPT !.outcome = {"validated"}],
    IF extra THEN Task(Stable(s + 2), "rehab-balance") ELSE Task(Stable(s), "rehab-post-validated")>>

StalePart(v) ==
  <<Task(V1(v), "plain-stale"), Task(V1(v), "plain-stale"), HotTrap(V1(v), "hot-supersession-trap")>>

Cycle(at, c) ==
  LET extra == c % 5 = 0
      s == at.s + IF extra THEN 1 ELSE 3
      v == at.v + IF extra THEN 1 ELSE 0
  IN [s |-> s + IF extra THEN 4 ELSE 3, v |-> v + 2,
      tasks |-> at.tasks \o CorrectedPart(at.s, at.v, extra) \o HarmfulPart(s, v)
                  \o RehabPart(s + 1, extra) \o StalePart(v + 1),
      traps |-> at.traps \o (IF extra THEN <<V1(at.v)>> ELSE <<>>) \o <<V1(v + 1)>>]

Pool == FoldLeft(Cycle, [s |-> 0, v |-> 0, tasks |-> <<>>, traps |-> <<>>], [i \in 1 .. NCycles |-> i - 1])

-----------------------------------------------------------------------------
(* What the gates draw from the pool: by kind for the smoke, from the rest   *)
(* for the grid, from the first versions of the traps for the potency probe. *)
Strata ==
  {<<"harmful-current", 4>>, <<"rehab-post-validated", 4>>, <<"hot-supersession-trap", 3>>,
   <<"corrected-demote", 2>>, <<"rehab-validated", 2>>}
Stratum(tasks, structure) == {i \in DOMAIN tasks : tasks[i].structure = structure}
SmokeDraws(tasks, pick(_, _)) == UNION {pick(Stratum(tasks, st[1]), st[2]) : st \in Strata}
SmokeRefused(tasks) == \E st \in Strata : Cardinality(Stratum(tasks, st[1])) < st[2]
\* Mutant of PrimaryEligible: the smoke's tasks stay in.
PrimaryAll(tasks, smoke) == DOMAIN tasks
PrimaryEligible(tasks, smoke) == DOMAIN tasks \ smoke
PrimaryRefused(tasks, smoke, n) == Cardinality(PrimaryEligible(tasks, smoke)) < n

TrapProbe(v) == [task |-> Task(v, "v1-only-potency-probe"), supply |-> {v}]
TrapsRefused(traps, n) == Len(traps) < n

-----------------------------------------------------------------------------
(* The validity timeline, filled after the schedule: of the first schedule   *)
(* from its validity events, of the pool also from the harmful replacements. *)
Replacing(task) ==
  {task.pre[j].version : j \in {j \in DOMAIN task.pre : task.pre[j].type = "validity_changed"}}
    \cup IF task.structure = "harmful-current" THEN task.forbidden ELSE {}

SupersededAt(tasks, v) ==
  LET at == {i \in DOMAIN tasks : v \in Replacing(tasks[i])}
  IN IF at = {} THEN None ELSE Max(at)

\* Mutant of ValidFrom: a successor is current from the start.
ValidAlways(tasks, v) == 1
ValidFrom(tasks, v) == IF v[2] = 1 THEN 1 ELSE SupersededAt(tasks, <<v[1], 1>>)

Active(entry, seq) ==
  /\ entry.from # None
  /\ entry.from <= seq
  /\ entry.until = None \/ entry.until > seq

Entry(tasks, v) == [from |-> ValidFrom(tasks, v), until |-> SupersededAt(tasks, v)]

-----------------------------------------------------------------------------
(* version_aware_ranked: reg maps versions to entries, a ranking is a        *)
(* sequence of [version, score].                                             *)
Candidates(ranked, reg, seq) ==
  {v \in {ranked[i].version : i \in DOMAIN ranked} : Active(reg[v], seq)}
OfDocument(versions, d) == {v \in versions : v[1] = d}
Winners(versions, reg) ==
  {v \in versions : \A w \in versions : reg[w].from <= reg[v].from}

\* Mutant of Allowed: conflicting versions are all kept.
AllowAll(ranked, reg, seq) == Candidates(ranked, reg, seq)
Allowed(ranked, reg, seq) ==
  LET fresh == Candidates(ranked, reg, seq)
  IN {v \in fresh : Winners(OfDocument(fresh, v[1]), reg) = {v}}

Unresolved(ranked, reg, seq) ==
  LET fresh == Candidates(ranked, reg, seq)
  IN {d \in {v[1] : v \in fresh} : Cardinality(Winners(OfDocument(fresh, d), reg)) > 1}

VersionAware(ranked, reg, seq) ==
  SelectSeq(ranked, LAMBDA item : item.version \in Allowed(ranked, reg, seq))

\* select_budget: whole documents, each once, that still fit
SelectBudget(ranked, size, budget) ==
  LET take(plan, item) ==
        IF item.score <= 0 \/ item.version \in plan.seen THEN plan
        ELSE IF plan.used + size[item.version] > budget
             THEN [plan EXCEPT !.seen = @ \cup {item.version}]
             ELSE [seen |-> plan.seen \cup {item.version}, used |-> plan.used + size[item.version],
                   chosen |-> Append(plan.chosen, item.version)]
  IN FoldLeft(take, [seen |-> {}, used |-> 0, chosen |-> <<>>], ranked)

RagVa(ranked, reg, seq, size, budget) == SelectBudget(VersionAware(ranked, reg, seq), size, budget).chosen

-----------------------------------------------------------------------------
(* _solar_admission: what was read before, by posterior reuse per token,     *)
(* names breaking ties; observes nothing of the task it supplies.            *)
Hits(tasks, k, v) == Cardinality({i \in 1 .. k - 1 : tasks[i].required = v})
FirstSeen(tasks, v) == Min({i \in DOMAIN tasks : tasks[i].required = v})
\* (count + 1) / (opportunities + 2) / size, as a fraction
Utility(tasks, k, v, size) ==
  <<Hits(tasks, k, v) + 1, (Max({1, k - FirstSeen(tasks, v)}) + 2) * size[v]>>
Before(v, w, tasks, k, size) ==
  LET a == Utility(tasks, k, v, size)
      b == Utility(tasks, k, w, size)
  IN a[1] * b[2] > b[1] * a[2] \/ (a[1] * b[2] = b[1] * a[2] /\ (v[1] < w[1] \/ (v[1] = w[1] /\ v[2] < w[2])))

\* Mutant of SolarPlan: the task's own read is already counted.
SolarPeeks(tasks, k, size, budget) ==
  LET seen == {tasks[i].required : i \in 1 .. k}
      order == SetToSortSeq(seen, LAMBDA v, w : Before(v, w, tasks, k + 1, size))
  IN SelectBudget([i \in DOMAIN order |-> [version |-> order[i], score |-> 1]], size, budget).chosen
SolarPlan(tasks, k, size, budget) ==
  LET seen == {tasks[i].required : i \in 1 .. k - 1}
      order == SetToSortSeq(seen, LAMBDA v, w : Before(v, w, tasks, k, size))
  IN SelectBudget([i \in DOMAIN order |-> [version |-> order[i], score |-> 1]], size, budget).chosen

\* build_supplies: the cache, and on a required miss the plan after it
KarcPlusVa(required, karc, plan) ==
  IF required \in ToSet(karc) THEN karc ELSE karc \o SelectSeq(plan, LAMBDA v : v \notin ToSet(karc))

-----------------------------------------------------------------------------
(* diagnose_budget_degeneracy with alpha = 1/4: a document is admitted only  *)
(* if four of it fit the budget.                                             *)
BudgetOf(total, pct) == Max({1, (total * pct) \div 100})
Eligible(sizes, pct) ==
  {i \in DOMAIN sizes : 4 * sizes[i] <= BudgetOf(FoldLeft(LAMBDA a, b : a + b, 0, sizes), pct)}
Rejected(sizes, pct) == DOMAIN sizes \ Eligible(sizes, pct)
FirstBudget(size) == 4 * size
\* None stands for next() finding nothing among the hundred percents
FirstPct(sizes, size) ==
  LET total == FoldLeft(LAMBDA a, b : a + b, 0, sizes)
      pcts == {p \in 1 .. 100 : BudgetOf(total, p) >= 4 * size}
  IN IF pcts = {} THEN None ELSE Min(pcts)
=============================================================================
