------------------------------ MODULE Accounts ------------------------------
(* What E5 charges the arms for one schedule, and the verdict drawn from the  *)
(* grid of schedules (src/src/karc/bench/e5_killgate.py).  Everything here is *)
(* a function of its arguments: tasks, the replayed working sets, the plans   *)
(* of the retrieval arms, and the manifest                                    *)
(*   [size |-> version -> tokens, validFrom, supersededAt |-> version -> seq] *)
(* with 0 for None.  A version is a number, which gives the code's sort order.*)
(* A rate or a mean over n is kept as its sum over the same n.                *)
EXTENDS Integers, Sequences, FiniteSets, FiniteSetsExt, SequencesExt

Tokens(manifest, versions) == MapThenSumSet(LAMBDA v : manifest.size[v], versions)
Count(b) == IF b THEN 1 ELSE 0

StaleVersions(manifest, seq) ==
  {v \in DOMAIN manifest.size : manifest.supersededAt[v] \in 1 .. seq}
IsActive(manifest, v, seq) ==
  manifest.validFrom[v] \in 1 .. seq /\ v \notin StaleVersions(manifest, seq)

BudgetTokens(manifest, pct) == Max({1, (Tokens(manifest, DOMAIN manifest.size) * pct) \div 100})

(* _search_only_plans: the gold versions first, then the other active ones in *)
(* a pseudo-random order, each taken if it still fits.                        *)
SearchOnlyPlan(manifest, task, order, budget) ==
  LET others == SelectSeq(order, LAMBDA v : IsActive(manifest, v, task.seq) /\ v # task.required)
  IN FoldLeft(LAMBDA acc, v :
                IF acc.tokens + manifest.size[v] <= budget
                THEN [ids |-> acc.ids \cup {v}, tokens |-> acc.tokens + manifest.size[v]]
                ELSE acc,
              [ids |-> {}, tokens |-> 0], <<task.required>> \o others)

-----------------------------------------------------------------------------
(* _cache_account.  A session first pays its whole initial working set, which *)
(* its first task then finds seen.  A miss is charged the complete retrieval  *)
(* plan, with no credit for what the session has read.                        *)
NoCacheCost == [session |-> 0, seenResident |-> {}, seenGold |-> {}, init |-> 0,
                fresh |-> 0, misses |-> 0, missTokens |-> 0, goldOnly |-> 0,
                gross |-> 0, sufficient |-> 0, stale |-> 0]

\* Mutant of OpenCacheSession: what it paid for is not yet seen, and is paid for again.
OpenUnseen(acc, session, initial, manifest) ==
  IF acc.session = session THEN acc
  ELSE [acc EXCEPT !.session = session, !.seenResident = {}, !.seenGold = {},
                   !.fresh = @ + Tokens(manifest, initial)]
OpenCacheSession(acc, session, initial, manifest) ==
  LET paid == Tokens(manifest, initial)
  IN IF acc.session = session THEN acc
     ELSE [acc EXCEPT !.session = session, !.seenResident = initial, !.seenGold = initial,
                      !.init = @ + paid, !.fresh = @ + paid, !.goldOnly = @ + paid,
                      !.gross = @ + paid]

ChargeCacheTask(acc, task, resident, plan, manifest) ==
  LET miss == task.required \notin resident
      gold == resident \cup (IF miss THEN {task.required} ELSE {})
      planTokens == IF miss THEN Tokens(manifest, plan) ELSE 0
  IN [acc EXCEPT
        !.fresh = @ + Tokens(manifest, resident \ acc.seenResident),
        !.missTokens = @ + planTokens,
        !.goldOnly = @ + Tokens(manifest, gold \ acc.seenGold),
        !.gross = @ + Tokens(manifest, resident),
        !.seenResident = @ \cup resident, !.seenGold = @ \cup gold,
        !.misses = @ + Count(miss), !.sufficient = @ + Count(~miss),
        !.stale = @ + Count(resident \cap StaleVersions(manifest, task.seq) # {})]

CacheAccount(tasks, residents, plans, manifest) ==
  FoldLeftDomain(LAMBDA acc, i :
      ChargeCacheTask(OpenCacheSession(acc, tasks[i].session, residents[i], manifest),
                      tasks[i], residents[i], plans[i], manifest),
    NoCacheCost, tasks)

(* The totals the report derives; W01 is ten times the one-tenth weighting.   *)
CachePrimary(account) == account.fresh + account.missTokens
CacheW01(account) == 10 * CachePrimary(account) + (account.gross - account.fresh)
CacheW1(account) == account.gross + account.missTokens

(* _retrieval_account: the primary account charges every plan in full; the    *)
(* symmetric one credits what the session has retrieved before.               *)
NoRetrievalCost == [session |-> 0, seen |-> {}, primary |-> 0, symmetric |-> 0,
                    contained |-> 0, stale |-> 0]
RetrievalAccount(tasks, plans, manifest) ==
  FoldLeftDomain(LAMBDA acc, i :
      LET seen == IF acc.session = tasks[i].session THEN acc.seen ELSE {}
          context == plans[i]
      IN [session |-> tasks[i].session, seen |-> seen \cup context,
          primary |-> acc.primary + Tokens(manifest, context),
          symmetric |-> acc.symmetric + Tokens(manifest, context \ seen),
          contained |-> acc.contained + Count(tasks[i].required \in context),
          stale |-> acc.stale + Count(context \cap StaleVersions(manifest, tasks[i].seq) # {})],
    NoRetrievalCost, tasks)

-----------------------------------------------------------------------------
(* belady_containment: a cache of gold versions that knows the future.  The   *)
(* version just answered may itself be the victim.                            *)
Infinity == 1000000
\* Mutant of NextUse: the first use of all, which may be behind us.
FirstUse(tasks, i, v) ==
  LET uses == {j \in DOMAIN tasks : tasks[j].required = v}
  IN IF uses = {} THEN Infinity ELSE Min(uses)
NextUse(tasks, i, v) ==
  LET uses == {j \in i + 1 .. Len(tasks) : tasks[j].required = v}
  IN IF uses = {} THEN Infinity ELSE Min(uses)

Victim(tasks, i, cache) ==
  CHOOSE v \in cache : \A w \in cache \ {v} :
    \/ NextUse(tasks, i, w) < NextUse(tasks, i, v)
    \/ NextUse(tasks, i, w) = NextUse(tasks, i, v) /\ w < v

EvictTo(tasks, i, manifest, budget, full) ==
  LET evicted[cache \in SUBSET full] ==
        IF Tokens(manifest, cache) <= budget THEN cache
        ELSE evicted[cache \ {Victim(tasks, i, cache)}]
  IN evicted[full]

BeladyContainment(tasks, manifest, budget) ==
  FoldLeftDomain(LAMBDA acc, i :
      LET cache == acc.cache \ tasks[i].invalidated
          required == tasks[i].required
      IN [hits |-> acc.hits + Count(required \in cache),
          cache |-> EvictTo(tasks, i, manifest, budget, cache \cup {required})],
    [hits |-> 0, cache |-> {}], tasks).hits

(* _stale_frontier: tasks at which an arm still holds a superseded version.   *)
StaleFrontier(tasks, residents, manifest) ==
  Cardinality({i \in DOMAIN tasks :
    residents[i] \cap StaleVersions(manifest, tasks[i].seq) # {}})

(* evaluate_cell, from the replay of the arms and the plans of the rivals.    *)
EvaluateCell(tasks, manifest, budget, replay, bm25, order) ==
  LET plans == [i \in DOMAIN tasks |-> SearchOnlyPlan(manifest, tasks[i], order, budget).ids]
  IN [costs |-> [arm \in DOMAIN replay |-> CacheAccount(tasks, replay[arm], bm25, manifest)],
      rag |-> RetrievalAccount(tasks, bm25, manifest),
      search |-> RetrievalAccount(tasks, plans, manifest),
      belady |-> BeladyContainment(tasks, manifest, budget),
      stale |-> [arm \in DOMAIN replay |-> StaleFrontier(tasks, replay[arm], manifest)],
      divergent |-> Cardinality({i \in DOMAIN tasks : replay["karc"][i] # replay["classic"][i]})]

-----------------------------------------------------------------------------
(* The grid.  A reuse factor is counted in quarters.  gap[seed][r] is what    *)
(* the cache arm costs more than BM25 in that cell; it is the difference the  *)
(* code compares, before it is divided by the number of cells.                *)
RGrid == 0 .. 4
PlausibleRMax == 2
HighReuseMin == 3
NoCrossing == -1

Crossing(curve) ==
  LET crossed == {r \in RGrid : curve[r] <= 0}
  IN IF crossed = {} THEN NoCrossing ELSE Min(crossed)
Category(rStar) ==
  IF rStar = NoCrossing THEN "STOP" ELSE IF rStar <= PlausibleRMax THEN "PASS" ELSE "PASS-NARROW"
Pooled(gap) == [r \in RGrid |-> MapThenSumSet(LAMBDA seed : gap[seed][r], DOMAIN gap)]

(* A verdict of its own for every seed, and the pool's if they are one.       *)
Control(gap) == \A seed \in DOMAIN gap : gap[seed][0] > 0
\* Mutant of SeedsAgree: it is enough that every seed crosses, or none does.
SeedsCross(gap) ==
  \A s, t \in DOMAIN gap : Crossing(gap[s]) = NoCrossing <=> Crossing(gap[t]) = NoCrossing
SeedsAgree(gap) == \A s, t \in DOMAIN gap : Category(Crossing(gap[s])) = Category(Crossing(gap[t]))
Status(gap) ==
  IF Control(gap) /\ SeedsAgree(gap) THEN Category(Crossing(Pooled(gap))) ELSE "VOID"

(* evaluate_verdict.  gaps holds the grids of the primary account, of the     *)
(* symmetric one and of the classic arm; facts the sums over seeds the        *)
(* falsification clauses read, of the primary cell (divergent: the least of   *)
(* the seeds, for F-K5 asks it of every cell).                                *)
Verdict(gaps, facts) ==
  LET primary == Crossing(Pooled(gaps.primary))
      classic == Crossing(Pooled(gaps.classic))
      status == Status(gaps.primary)
      insufficient == \E r \in RGrid : /\ r >= HighReuseMin /\ facts.belady[r] > 0
                                       /\ 2 * facts.karc[r] < facts.belady[r]
      inactive == \E r \in RGrid \ {0} : facts.divergent[r] = 0
      sensitive == Category(Crossing(Pooled(gaps.symmetric))) # Category(primary)
  IN [status |-> status, rStar |-> primary,
      stage2 |-> status = "PASS" /\ ~insufficient /\ ~inactive /\ ~sensitive,
      falsified |-> {f \in 0 .. 6 :
        CASE f = 0 -> ~Control(gaps.primary)
          [] f = 1 -> status = "STOP"
          [] f = 2 -> status = "PASS-NARROW"
          [] f = 3 -> insufficient
          [] f = 4 -> facts.staleClassic <= facts.staleKarc
          [] f = 5 -> inactive
          [] f = 6 -> NoCrossing \notin {primary, classic} /\ primary > classic}]
=============================================================================
