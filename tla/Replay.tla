------------------------------- MODULE Replay -------------------------------
(* Offline replay: the classic policies the engine is compared with          *)
(* (policy/baselines.py), the fold of a workload through a policy            *)
(* (replay/runner.py), its metrics (replay/metrics.py), the outcomes that    *)
(* are fed back (replay/outcome.py) and the fold of a recorded trace         *)
(* (replay/trace.py).  An event is [id, type, cls, art, task]; a size that   *)
(* the registry does not know is the default's.                              *)
EXTENDS Integers, Sequences, FiniteSets, SequencesExt, FiniteSetsExt

CONSTANTS
  Size,                 \* Size[a]: resolved_size of every artifact
  Critical,             \* ArtifactMeta.critical
  PreloadOrder,         \* the preload set by depth, path and id
  InvalidFrom,          \* artifact -> the task from which it is invalid
  Draw(_, _, _)         \* _unit of a task, an artifact and a kind of outcome

Tok(S) == MapThenSumSet(LAMBDA a : Size[a], S)

IsReference(e) == \/ e.type \in {"read", "cited", "applied"}
                  \/ e.type = "loaded" /\ e.cls = "on_demand"

-----------------------------------------------------------------------------
(* The classic policies: resident is the order of the OrderedDict.           *)
\* "절단": the first artifact of the order that does not fit ends the fill
RECURSIVE StaticFill(_, _)
StaticFill(order, room) ==
  IF order = <<>> \/ Size[Head(order)] > room THEN <<>>
  ELSE <<Head(order)>> \o StaticFill(Tail(order), room - Size[Head(order)])

MakePolicy(name, c) ==
  [name |-> name, c |-> c, seen |-> {}, freq |-> [a \in DOMAIN Size |-> 0],
   resident |-> IF name = "static" THEN StaticFill(PreloadOrder, c) ELSE <<>>,
   admissions |-> 0, evictions |-> 0, hits |-> 0, oversize |-> 0, critical |-> 0]

WorkingSet(pol) == ToSet(pol.resident)

Count(pol, a) == IF pol.name = "lfu" THEN [pol EXCEPT !.freq[a] = @ + 1] ELSE pol

ToEnd(held, a) == Append(Remove(held, a), a)

\* Mutant of OnHit: a hit leaves the order alone.
OnHitNowhere(pol, a) == [Count(pol, a) EXCEPT !.hits = @ + 1]
OnHit(pol, a) ==
  [Count(pol, a) EXCEPT !.hits = @ + 1,
     !.resident = IF pol.name \in {"lru", "lfu"} THEN ToEnd(@, a) ELSE @]

\* the least frequent, the one used longest ago among equals
Rarest(pol) ==
  LET least == Min({pol.freq[a] : a \in WorkingSet(pol)})
  IN SelectSeq(pol.resident, LAMBDA a : pol.freq[a] = least)[1]
PickVictim(pol) == IF pol.name = "lfu" THEN Rarest(pol) ELSE Head(pol.resident)

Evict(pol) ==
  LET victim == PickVictim(pol)
  IN [pol EXCEPT !.resident = Remove(@, victim), !.evictions = @ + 1,
                 !.critical = @ + IF victim \in Critical THEN 1 ELSE 0]

RECURSIVE MakeRoom(_, _)
MakeRoom(pol, size) ==
  IF pol.resident = <<>> \/ Tok(WorkingSet(pol)) + size <= pol.c THEN pol
  ELSE MakeRoom(Evict(pol), size)

Admit(pol, a) == [Count(pol, a) EXCEPT !.resident = Append(@, a), !.admissions = @ + 1]

Refer(pol, a) ==
  IF a \in WorkingSet(pol) THEN OnHit(pol, a)
  ELSE IF Size[a] > pol.c THEN [pol EXCEPT !.oversize = @ + 1]
  ELSE Admit(MakeRoom(pol, Size[a]), a)

OnEvent(pol, e) ==
  LET met == [pol EXCEPT !.seen = @ \cup {e.id}]
  IN IF e.id \in pol.seen \/ pol.name = "static" \/ ~IsReference(e) THEN met
     ELSE Refer(met, e.art)

-----------------------------------------------------------------------------
(* Outcomes: a task is [id, required, forbidden, refs, events].              *)
Keep(id, a, kind, alpha) == Draw(id, a, kind) < alpha

Supplied(task, held) == held \cup {task.refs[i][2] : i \in DOMAIN task.refs}

Outcome(task, held, alpha) ==
  LET supplied == Supplied(task, held)
      wrong == supplied \cap task.forbidden
      success == task.required \subseteq supplied /\ wrong = {}
      kind == IF success THEN "validated" ELSE "corrected"
      targets == IF success THEN task.required ELSE wrong
      kept == {a \in targets : Keep(task.id, a, kind, alpha)}
  IN [success |-> success, wrong |-> wrong, kind |-> kind, emitted |-> kept,
      events |-> LET order == SetToSeq(kept)
                 IN [i \in DOMAIN order |-> [id |-> <<"out", task.id, order[i], kind>>, type |-> kind,
                                             cls |-> "none", art |-> order[i], task |-> task.id]]]

-----------------------------------------------------------------------------
(* The metrics of a run: one row per task, counters of every event.          *)
NewRow(task, held) ==
  [id |-> task.id, held |-> Cardinality(held), tokens |-> Tok(held),
   covered |-> Cardinality(task.required \cap held), required |-> Cardinality(task.required),
   stale |-> Tok({a \in held : a \in DOMAIN InvalidFrom /\ InvalidFrom[a] <= task.id}),
   refs |-> 0, hits |-> 0, tokenRefs |-> 0, tokenHits |-> 0, evictions |-> 0,
   success |-> FALSE, emitted |-> 0]

NewRun(name, c) ==
  [policy |-> MakePolicy(name, c), rows |-> <<>>, seen |-> {}, prev |-> 0,
   raw |-> [refs |-> 0, hits |-> 0, tokenRefs |-> 0, tokenHits |-> 0]]

One(b) == IF b THEN 1 ELSE 0

Bump(row, size, resident) ==
  [row EXCEPT !.refs = @ + 1, !.tokenRefs = @ + size,
              !.hits = @ + One(resident), !.tokenHits = @ + IF resident THEN size ELSE 0]

\* residency is tested before the policy sees the event
Observe(run, task, e) ==
  LET resident == e.art \in WorkingSet(run.policy)
      first == <<task.id, e.art>> \notin run.seen
  IN IF ~IsReference(e) THEN run
     ELSE [run EXCEPT !.raw = Bump(@, Size[e.art], resident),
                      !.seen = @ \cup {<<task.id, e.art>>},
                      !.rows[Len(run.rows)] = IF first THEN Bump(@, Size[e.art], resident) ELSE @]

Feed(run, e) == [run EXCEPT !.policy = OnEvent(@, e)]

\* Mutant of TaskEnd: what was counted before is counted again.
TaskEndCumulative(run, outcome) ==
  [run EXCEPT !.rows[Len(run.rows)] =
     [@ EXCEPT !.evictions = run.policy.evictions - run.prev,
               !.success = outcome.success, !.emitted = Cardinality(outcome.emitted)]]
TaskEnd(run, outcome) ==
  [run EXCEPT !.rows[Len(run.rows)] =
     [@ EXCEPT !.evictions = run.policy.evictions - run.prev,
               !.success = outcome.success, !.emitted = Cardinality(outcome.emitted)],
              !.prev = run.policy.evictions]

ReplayTask(run, task, alpha) ==
  LET held == WorkingSet(run.policy)
      started == [run EXCEPT !.rows = Append(@, NewRow(task, held))]
      read == FoldLeft(LAMBDA r, e : Feed(Observe(r, task, e), e), started, task.events)
      outcome == Outcome(task, held, alpha)
  IN TaskEnd(FoldLeft(Feed, read, outcome.events), outcome)

RunReplay(name, c, tasks, alpha) ==
  FoldLeft(LAMBDA run, task : ReplayTask(run, task, alpha), NewRun(name, c), tasks)

Total(rows, field) == MapThenSumSet(LAMBDA i : rows[i][field], DOMAIN rows)

\* Tasks after the shift until coverage is back at 95 % of the last ten before.
\* Coverage is a pair <<covered, required>>; a task that requires nothing has none.
AdaptationLag(rows, shift) ==
  LET defined == {i \in DOMAIN rows : rows[i].required > 0}
      before == {i \in defined : shift - 10 <= i - 1 /\ i - 1 < shift}
      Share(i) == (1000 * rows[i].covered) \div rows[i].required
      target == MapThenSumSet(Share, before)
      back == {i \in defined : i > shift /\ 100 * Cardinality(before) * Share(i) >= 95 * target}
  IN IF before = {} \/ back = {} THEN {} ELSE {Min(back) - 1 - shift}

-----------------------------------------------------------------------------
(* A recorded trace: a row ends where the task of the next event differs, so *)
(* that a task whose events are interleaved with another's has several.      *)
TraceRow(task) == [task |-> task, refs |-> 0, hits |-> 0, tokenRefs |-> 0, tokenHits |-> 0, events |-> 0]

TakeTrace(run, e) ==
  LET rows == IF run.rows # <<>> /\ Last(run.rows).task = e.task THEN run.rows
              ELSE Append(run.rows, TraceRow(e.task))
      seen == IF rows = run.rows THEN run.seen ELSE {}
      counts == IsReference(e) /\ e.art \notin seen
      row == [Last(rows) EXCEPT !.events = @ + 1]
  IN [policy |-> OnEvent(run.policy, e),
      seen |-> IF counts THEN seen \cup {e.art} ELSE seen,
      rows |-> [rows EXCEPT ![Len(rows)] =
                  IF counts THEN Bump(row, Size[e.art], e.art \in WorkingSet(run.policy)) ELSE row]]

ReplayTrace(name, c, events) ==
  FoldLeft(TakeTrace, [policy |-> MakePolicy(name, c), rows |-> <<>>, seen |-> {}], events)

\* The size a trace's registry gives: recorded cost, file size, or the default.
TraceSize(costs, bytes) == IF costs # {} THEN Max(costs)
                           ELSE IF bytes > 0 THEN Max({1, bytes \div 4})
                           ELSE 800

\* An absolute budget, or a share of the corpus.
ResolveBudget(budget, corpus) == IF budget.share THEN Max({1, (corpus * budget.value) \div 100})
                                 ELSE budget.value
=============================================================================
