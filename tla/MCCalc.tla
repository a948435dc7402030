------------------------------- MODULE MCCalc -------------------------------
(* Every calculation over all its bounded inputs: a state is one input. The   *)
(* cases of the offline replay, of the E4 simulations and of the stage 2 arms *)
(* are here, those of E5, E10, E11 and the pi cells in CalcBench.             *)
EXTENDS CalcBench, TLC

(* Offline replay over bounded workloads.                                    *)

Art == 1 .. 4
Even == INSTANCE Replay WITH Size <- [a \in Art |-> 1], Critical <- {1}, PreloadOrder <- <<2, 1>>,
          InvalidFrom <- [a \in {1} |-> 2], Draw <- LAMBDA id, a, kind : 0
\* Documents of one, two and three tokens, and one larger than any budget.
Uneven == INSTANCE Replay WITH Size <- <<1, 2, 3, 9>>, Critical <- {1}, PreloadOrder <- <<2, 1, 3>>,
            InvalidFrom <- [a \in {1} |-> 2], Draw <- LAMBDA id, a, kind : (id + a) % 3
\* The draws of fifty event ids.
Wrk == INSTANCE Workload WITH Unit <- LAMBDA purpose, id : (37 * id) % 100

-----------------------------------------------------------------------------
Event(id, type, art, task) ==
  [id |-> <<"in", task, id, type>>, type |-> type, cls |-> IF type = "loaded" THEN "preload" ELSE "none", art |-> art, task |-> task]
Reads(arts) == [i \in DOMAIN arts |-> Event(i, "read", arts[i], 1)]

PickReads ==
  /\ Waiting
  /\ \E arts \in [1 .. 6 -> Art] : case' = [kind |-> "reads", arts |-> arts]

HeldAfter(name, c, arts) ==
  Even!WorkingSet(FoldLeft(Even!OnEvent, Even!MakePolicy(name, c), Reads(arts)))

(* With documents of one size a larger budget never holds less under LRU or   *)
(* LFU, whatever was read: the budget sweeps compare like with like           *)
(* (policy/baselines.py:86-198).                                              *)
BudgetsNest ==
  case.kind = "reads" =>
    \A name \in {"lru", "lfu"}, c \in 1 .. 3 :
      HeldAfter(name, c, case.arts) \subseteq HeldAfter(name, c + 1, case.arts)

-----------------------------------------------------------------------------
Inputs == {<<type, art>> : type \in {"read", "loaded"}, art \in Art \ {4}} \cup {<<"read", 4>>}
EventsOf(task, inputs) ==
  [i \in DOMAIN inputs |-> Event(2 * task + i, inputs[i][1], inputs[i][2], task)]
TaskWith(id, inputs) ==
  [id |-> id, required |-> {1, 2}, forbidden |-> IF id = 2 THEN {3} ELSE {},
   refs |-> [i \in DOMAIN inputs |-> <<inputs[i][1], inputs[i][2]>>], events |-> EventsOf(id, inputs)]

\* Two tasks of two events; the stream may deliver its first event again.
PickReplay ==
  /\ Waiting
  /\ \E first, second \in [1 .. 2 -> Inputs], name \in {"static", "fifo", "lru", "lfu"},
        c \in {2, 5}, again \in BOOLEAN :
       case' = [kind |-> "replay", name |-> name, c |-> c, alpha |-> 2,
                tasks |-> <<[TaskWith(1, first) EXCEPT !.events =
                                IF again THEN Append(@, Head(@)) ELSE @], TaskWith(2, second)>>]

ReadsOf(task) == {e \in ToSet(task.events) : Uneven!IsReference(e)}

(* The rows of a run add up to what its policy did: what was admitted and not *)
(* evicted is held, within the budget; every eviction is in one row; each     *)
(* document counts once a task, repeated deliveries and retries               *)
(* notwithstanding.  The fold of the same events as a recorded trace sees the *)
(* same hits and ends in the same state, though no outcome is fed back: the   *)
(* classic policies ignore it (replay/runner.py:95-150, trace.py:165-200).    *)
RunsAreAccounted ==
  case.kind = "replay" =>
    LET run == Uneven!RunReplay(case.name, case.c, case.tasks, case.alpha)
        pol == run.policy
        trace == Uneven!ReplayTrace(case.name, case.c, case.tasks[1].events \o case.tasks[2].events)
    IN /\ Uneven!Tok(Uneven!WorkingSet(pol)) <= case.c
       /\ case.name # "static" => Len(pol.resident) = pol.admissions - pol.evictions
       /\ Uneven!Total(run.rows, "evictions") = pol.evictions
       /\ \A i \in 1 .. 2 : /\ run.rows[i].refs = Cardinality({e.art : e \in ReadsOf(case.tasks[i])})
                            /\ run.rows[i].hits <= run.rows[i].refs
                            /\ run.rows[i].tokens <= case.c
                            /\ run.rows[i].stale <= run.rows[i].tokens
       /\ Uneven!Total(run.rows, "hits") <= run.raw.hits
       /\ trace.policy.resident = pol.resident
       /\ \A field \in {"refs", "hits", "tokenRefs", "tokenHits"} :
            Uneven!Total(trace.rows, field) = Uneven!Total(run.rows, field)
       /\ Uneven!Total(trace.rows, "events") = Len(case.tasks[1].events) + Len(case.tasks[2].events)

-----------------------------------------------------------------------------
Body == <<Wrk!Pending("read", 1), Wrk!Pending("loaded", 2), Wrk!Pending("cited", 1), Wrk!Pending("read", 3)>>
Feed == [Wrk!Pending("validity_changed", 3) EXCEPT !.droppable = FALSE]
Orders == {o \in [1 .. 4 -> 1 .. 4] : \A i, j \in 1 .. 4 : o[i] = o[j] => i = j}

PickNoise ==
  /\ Waiting
  /\ \E order \in Orders, less, more \in {0, 10, 30, 50}, at \in 0 .. 4, next \in {0, 7, 20} :
       /\ less <= more
       /\ case' = [kind |-> "noise", order |-> order, less |-> less, more |-> more, next |-> next,
                   task |-> [Wrk!NewTask(1, "hot") EXCEPT !.pending = InsertAt(Body, at + 1, Feed)]]

Drops(rate) == [drop |-> rate, miss |-> 0]
Straight == [i \in 1 .. 4 |-> i]

(* Noise only hides: a higher rate of drops loses what a lower one lost, and  *)
(* more, whatever the order the events come in; a feed of the registry is     *)
(* never lost and always first (replay/workload.py:113-155).                  *)
NoiseOnlyHides ==
  case.kind = "noise" =>
    LET more == Wrk!FinishTask(case.task, case.next, case.order, Drops(case.more))
        less == Wrk!FinishTask(case.task, case.next, Straight, Drops(case.less))
        all == Wrk!FinishTask(case.task, case.next, case.order, Drops(0))
    IN /\ ToSet(more) \subseteq ToSet(less)
       /\ Len(all) = 5 /\ Cardinality({n.id : n \in ToSet(all)}) = 5
       /\ more[1].item = Feed /\ IsInjective(more)

-----------------------------------------------------------------------------
\* A task of each family with some hot work and a chain.
Hot(group) == <<<<<<group, 0>>, "cited">>, <<<<group, 3>>, "read">>, <<<<group, 14>>, "applied">>>>
Cycle == Wrk!CycleSet(Wrk!CyclePool, 25, [a \in ToSet(Wrk!CyclePool) |-> 1])
Script(family, idx) ==
  IF family = "f-a" THEN Wrk!TaskFA(idx, [work |-> Hot("hotA"), chain |-> idx % 3])
  ELSE IF family = "f-b"
       THEN Wrk!TaskFB(idx, [work |-> Hot(IF Wrk!SegmentFB(idx) = "phase-b" THEN "hotB" ELSE "hotA"),
                             chain |-> idx % 2], Cycle)
  ELSE Wrk!TaskFC(idx, [work |-> Hot("hotA"), chain |-> 0])
LastTask == [f \in {"f-a", "f-b", "f-c"} |-> IF f = "f-a" THEN 49 ELSE IF f = "f-b" THEN 109 ELSE 59]

PickScript ==
  /\ Waiting
  /\ \E family \in DOMAIN LastTask : \E idx \in 0 .. LastTask[family] :
       case' = [kind |-> "script", family |-> family, idx |-> idx,
                tasks |-> [j \in (IF family = "f-c" THEN 0 ELSE idx) .. idx |-> Script(family, j)]]

ReadBy(task) == {task.refs[i][2] : i \in DOMAIN task.refs}
Corrects(task, art) == \E e \in ToSet(task.pending) : e.type = "corrected" /\ e.art = art
CorrectionsBefore(art) == Cardinality({j \in 0 .. case.idx - 1 : Corrects(case.tasks[j], art)})

(* The scripts test what they say: what a task requires it reads, and it      *)
(* reads nothing forbidden, so that only a document held without being asked  *)
(* for makes it fail; a harmful document is corrected before a second task    *)
(* reads it, and a document to be rehabilitated is neither validated before   *)
(* its correction nor left without five tasks that require it afterwards      *)
(* (replay/workload.py:188-405).                                              *)
ScriptsMeanIt ==
  case.kind = "script" =>
    LET task == case.tasks[case.idx]
        read == ReadBy(task)
    IN /\ task.required \subseteq read /\ read \subseteq Wrk!Corpus
       /\ read \cap task.forbidden = {}
       /\ case.family = "f-c" =>
            /\ \A h \in ToSet(Wrk!Harmful) \cap read :
                 (\E j \in 0 .. case.idx - 1 : h \in ReadBy(case.tasks[j])) => CorrectionsBefore(h) > 0
            /\ \A r \in ToSet(Wrk!Rehab) \cap task.required : CorrectionsBefore(r) = 1
       /\ case.family = "f-c" /\ case.idx = 59 =>
            \A r \in ToSet(Wrk!Rehab) : Cardinality({j \in 0 .. 59 : r \in case.tasks[j].required}) >= 5

PickReplays == PickReads \/ PickReplay \/ PickNoise \/ PickScript
-----------------------------------------------------------------------------
(* The E4 registry, replay and gates over bounded inputs.                    *)

Reg(s) == INSTANCE Registry WITH NTasks <- 80, NStable <- 112, NVersioned <- 12, NCycles <- 0, Seed <- s
Balanced(cycles) == INSTANCE Registry WITH NTasks <- 640, NStable <- 232, NVersioned <- 88, NCycles <- cycles, Seed <- 0

-----------------------------------------------------------------------------
\* Every cell of the grid, with the seeds that place the fill differently.
PickSchedule ==
  /\ Waiting
  /\ \/ \E rho \in 0 .. 3, sigma \in {0, 3, 6}, s \in 0 .. 50 :
          case' = [kind |-> "schedule", tasks |-> Reg(s)!Schedule(rho, sigma),
                   reuse |-> Reg(s)!TargetReuse(rho), pool |-> FALSE]
     \/ \E cycles \in {5, 40} :
          case' = [kind |-> "schedule", tasks |-> Balanced(cycles)!Pool.tasks, reuse |-> 8 * cycles, pool |-> TRUE]
     \/ \E high \in BOOLEAN :
          case' = [kind |-> "draws", tasks |-> Balanced(40)!Pool.tasks, traps |-> Balanced(40)!Pool.traps, high |-> high]

R == INSTANCE Registry WITH NTasks <- 80, NStable <- 112, NVersioned <- 12, NCycles <- 0, Seed <- 0
Told(tasks, i, type) ==
  {tasks[i].pre[j].version : j \in {j \in DOMAIN tasks[i].pre : tasks[i].pre[j].type = type}}
Corrections(tasks, k, v) == Cardinality({i \in 1 .. k : v \in Told(tasks, i, "corrected")})

(* Every schedule asks for what is current at its place, forbids only what    *)
(* was replaced or twice corrected by then, changes only versions that two    *)
(* earlier tasks have asked for, never asks for what it forbids, and repeats  *)
(* documents exactly as often as its locality says; the documents that repeat *)
(* are the denominator its supersession rate is reported over                 *)
(* (e4_fixture.py:210-293, 296-434, 437-482).                                 *)
SchedulesAreSound ==
  case.kind = "schedule" =>
    LET tasks == case.tasks IN
    /\ Len(tasks) = IF case.pool THEN 2 * case.reuse ELSE 80
    /\ Cardinality(R!Reuses(tasks)) = case.reuse
    /\ IF case.pool THEN 2 * Cardinality(R!ReusedDocs(tasks)) = case.reuse
       ELSE Cardinality(R!ReusedDocs(tasks)) = R!SigmaDenominator(tasks)
    /\ \A i \in DOMAIN tasks :
         /\ R!Active(R!Entry(tasks, tasks[i].required), i)
         /\ tasks[i].required \notin tasks[i].forbidden
         /\ \A v \in tasks[i].forbidden : ~R!Active(R!Entry(tasks, v), i) \/ Corrections(tasks, i, v) >= 2
         /\ case.pool /\ tasks[i].structure = "harmful-current" =>
              \A v \in tasks[i].forbidden : Corrections(tasks, i, v) = 2
         /\ \A type \in {"corrected", "validity_changed"} : \A v \in Told(tasks, i, type) :
              Cardinality({j \in 1 .. i - 1 : tasks[j].required = v}) >= 2
         /\ Told(tasks, i, "validated") = {}

RECURSIVE Lowest(_, _)
Lowest(S, n) == IF n = 0 THEN {} ELSE {Min(S)} \cup Lowest(S \ {Min(S)}, n - 1)
RECURSIVE Highest(_, _)
Highest(S, n) == IF n = 0 THEN {} ELSE {Max(S)} \cup Highest(S \ {Max(S)}, n - 1)

(* The pool is large enough for every gate: each kind has its smoke tasks,    *)
(* the grid finds its tasks outside them, whichever were drawn, and the trap  *)
(* probes are of twenty versions, each asked for twice and then replaced      *)
(* (e4_model.py:175-226, 253-282, e4_grid.py:46-91).                          *)
GatesAreDisjoint ==
  case.kind = "draws" =>
    LET smoke == IF case.high THEN R!SmokeDraws(case.tasks, Highest) ELSE R!SmokeDraws(case.tasks, Lowest)
        outside == R!PrimaryEligible(case.tasks, smoke)
    IN /\ ~R!SmokeRefused(case.tasks) /\ Cardinality(smoke) = 15
       /\ ~R!PrimaryRefused(case.tasks, smoke, 165) /\ smoke \cap outside = {}
       /\ ~R!TrapsRefused(case.traps, 20)
       /\ Cardinality(ToSet(case.traps)) = Len(case.traps)
       /\ \A v \in ToSet(case.traps) :
            /\ R!SupersededAt(case.tasks, v) # 0
            /\ Cardinality({i \in DOMAIN case.tasks : case.tasks[i].required = R!TrapProbe(v).task.required}) = 2

-----------------------------------------------------------------------------
\* One document with two versions of any dates, another with one.
Versioned == {<<1, 1>>, <<1, 2>>, <<2, 1>>}
Dates == [from : 0 .. 3, until : {0, 2, 3}]
Sizes == [v \in Versioned |-> IF v = <<1, 2>> THEN 3 ELSE 2]
Rankings == {r \in [1 .. 3 -> Versioned] : \A i, j \in 1 .. 3 : r[i] = r[j] => i = j}

PickRanking ==
  /\ Waiting
  /\ \E one, two \in Dates, r \in Rankings, budget \in {2, 4, 5, 7}, cut \in 0 .. 3 :
       case' = [kind |-> "ranking",
                reg |-> (<<1, 1>> :> one) @@ (<<1, 2>> :> two) @@ (<<2, 1>> :> [from |-> 1, until |-> 0]),
                ranked |-> [i \in 1 .. 3 |-> [version |-> r[i], score |-> cut - i + 1]], budget |-> budget]

(* What the version-aware arm supplies fits the budget and was current; of a  *)
(* document that is current in two versions it supplies the later or neither, *)
(* and of the two plans, with and without the rule, only the plain one may    *)
(* supply an expired version (e4_retrieval.py:50-83, e3_retrieval.py:154).    *)
RetrievalIsCurrent ==
  case.kind = "ranking" =>
    LET plan == R!RagVa(case.ranked, case.reg, 2, Sizes, case.budget)
        conflict == \A n \in {1, 2} : R!Active(case.reg[<<1, n>>], 2)
    IN /\ MapThenSumSet(LAMBDA v : Sizes[v], ToSet(plan)) <= case.budget
       /\ \A v \in ToSet(plan) : R!Active(case.reg[v], 2)
       /\ Cardinality({v[1] : v \in ToSet(plan)}) = Len(plan)
       /\ conflict /\ case.reg[<<1, 1>>].from >= case.reg[<<1, 2>>].from => <<1, 2>> \notin ToSet(plan)
       /\ (1 \in R!Unresolved(case.ranked, case.reg, 2)) =
            (conflict /\ case.reg[<<1, 1>>].from = case.reg[<<1, 2>>].from)
       /\ \A held \in SUBSET Versioned :
            LET both == R!KarcPlusVa(<<2, 1>>, SetToSeq(held), plan)
            IN /\ held \subseteq ToSet(both) /\ Cardinality(ToSet(both)) = Len(both)
               /\ <<2, 1>> \in held \cup ToSet(plan) => <<2, 1>> \in ToSet(both)

-----------------------------------------------------------------------------
\* Four tasks over a document in two versions and another one.
Mini == {[required |-> v, pre |-> pre, outcome |-> {}, structure |-> "mini",
          forbidden |-> IF pre # <<>> /\ pre[1].type = "validity_changed" THEN {<<1, 1>>} ELSE {}] :
           v \in Versioned, pre \in {<<>>, <<R!Pre("corrected", <<1, 1>>)>>, <<R!Pre("validity_changed", <<1, 1>>)>>}}
PickCell ==
  /\ Waiting
  /\ \E tasks \in [1 .. 4 -> Mini] : case' = [kind |-> "cell", tasks |-> tasks]

(* A policy of two places: the second use makes a version hot; karc and its   *)
(* ablation drop what went stale, karc alone cools what was corrected.        *)
Toy(arm) == [arm |-> arm, held |-> <<>>, hot |-> {}, moves |-> 0]
ToyRead(pol, v) ==
  IF v \in ToSet(pol.held)
  THEN [pol EXCEPT !.held = Append(Remove(@, v), v), !.hot = @ \cup {v}, !.moves = @ + 1]
  ELSE [pol EXCEPT !.held = Append(IF Len(@) = 2 THEN Tail(@) ELSE @, v), !.hot = @ \ {v}]
ToyEvent(pol, e) ==
  CASE e.type = "read" -> ToyRead(pol, e.version)
    [] e.type = "validity_changed" /\ pol.arm # "classic" ->
         [pol EXCEPT !.held = Remove(@, e.version), !.hot = @ \ {e.version}]
    [] e.type = "corrected" /\ pol.arm = "karc" -> [pol EXCEPT !.hot = @ \ {e.version}]
    [] OTHER -> pol
C == INSTANCE CellReplay WITH Arms <- {"classic", "karc", "karc-no-outcome"}, MakePolicy <- Toy, OnEvent <- ToyEvent,
       WorkingSet <- LAMBDA pol : ToSet(pol.held),
       ListOf <- LAMBDA pol, v : IF v \notin ToSet(pol.held) THEN "none" ELSE IF v \in pol.hot THEN "T2" ELSE "T1",
       Transitions <- LAMBDA pol : [m \in {"t1_to_t2", "resident_to_b", "b1_revival", "b2_revival", "corrected_t2_to_t1"} |->
                                      IF m = "t1_to_t2" THEN pol.moves ELSE 0]

ReadBefore(tasks, i, v) == \E j \in 1 .. i - 1 : tasks[j].required = v

(* A task is answered from what earlier tasks read and from the changes       *)
(* announced before it: what is supplied was read before, later tasks change  *)
(* no row, and the activation criteria that hold point at tasks that show it  *)
(* (e4_replay.py:124-205, e4_activation.py:57-107).                           *)
AnswersPrecedeReads ==
  case.kind = "cell" =>
    LET cell == C!ReplayCell(case.tasks)
        gate == C!Criteria(cell, <<cell>>, Cardinality(R!Reuses(case.tasks)),
                           R!EventCount(case.tasks, "corrected"), R!EventCount(case.tasks, "validity_changed"))
    IN /\ \A i \in 1 .. 4 : \A arm \in {"classic", "karc"} : \A v \in cell.rows[i].supplied[arm] :
            ReadBefore(case.tasks, i, v)
       /\ C!ReplayCell(SubSeq(case.tasks, 1, 3)).rows = SubSeq(cell.rows, 1, 3)
       /\ gate.g2 => \E i \in 1 .. 4 : \E v \in Told(case.tasks, i, "validity_changed") :
                        Cardinality({j \in 1 .. i - 1 : case.tasks[j].required = v}) >= 2
       /\ gate.g5 => /\ gate.g3
                     /\ \E i \in 1 .. 4 : case.tasks[i].forbidden # {} /\ ReadBefore(case.tasks, i, <<1, 1>>)
       /\ "g4" \in C!FailedCriteria(gate)

(* The utility-admission arm sees the reads before a task and nothing else.   *)
SolarSeesThePast ==
  case.kind = "cell" =>
    \A k \in 1 .. 4, budget \in {2, 5} :
      LET plan == R!SolarPlan(case.tasks, k, Sizes, budget)
      IN /\ plan = R!SolarPlan(SubSeq(case.tasks, 1, k - 1), k, Sizes, budget)
         /\ MapThenSumSet(LAMBDA v : Sizes[v], ToSet(plan)) <= budget
         /\ \A v \in ToSet(plan) : ReadBefore(case.tasks, k, v)

-----------------------------------------------------------------------------
Sum(seq) == FoldLeft(LAMBDA a, b : a + b, 0, seq)
L == INSTANCE Looks WITH Arms <- {"karc", "classic", "rag"}, Comparators <- {"classic", "rag"},
       SensitivityArms <- {"karc", "classic", "rag"}, Reps <- 1, LookTasks <- <<1, 2>>, NFloor <- 124, NCap <- 640,
       Margin <- 1, Lower <- LAMBDA d : Sum(d) - 1, Upper <- LAMBDA d : Sum(d) + 1

Some == {[passed |-> TRUE, cost |-> 1, stale |-> FALSE], [passed |-> TRUE, cost |-> 4, stale |-> FALSE],
         [passed |-> FALSE, cost |-> 4, stale |-> TRUE]}
Row(arm, task, class, result) ==
  [id |-> <<arm, task>>, arm |-> arm, task |-> task, class |-> class, leaked |-> FALSE,
   passed |-> result.passed, cost |-> result.cost, stale |-> result.stale]
Two == <<[id |-> 1, forbids |-> {<<1, 1>>}], [id |-> 2, forbids |-> {}]>>
Slots == <<<<"karc", 1>>, <<"classic", 1>>, <<"rag", 1>>, <<"karc", 2>>, <<"classic", 2>>, <<"rag", 2>>>>
Failed == [passed |-> FALSE, cost |-> 0, stale |-> FALSE]

\* Two tasks by three arms; one run was tried before, one may be missing.
PickLook ==
  /\ Waiting
  /\ \E results \in [1 .. 6 -> Some], tried \in {0, 1, 4}, left \in {0, 2, 5} :
       case' = [kind |-> "look",
                before |-> IF tried = 0 THEN <<>> ELSE <<Row(Slots[tried][1], Slots[tried][2], "usage_limit", Failed)>>,
                rows |-> LET all == [i \in 1 .. 6 |-> Row(Slots[i][1], Slots[i][2],
                                       IF results[i].passed THEN "ok" ELSE "task", results[i])]
                         IN SelectSeq(all, LAMBDA r : left = 0 \/ r.id # Slots[left])]

(* A look decides from its own tasks once they are whole and from nothing     *)
(* else: rows of later tasks and the attempts a window cut off do not change  *)
(* it; the last look always decides; a pass means that nothing reversed and   *)
(* every comparator is met; without a stale task nobody stops early with a    *)
(* pass (e4_grid.py:119-129, 215-312).                                        *)
LooksAreBinding ==
  case.kind = "look" =>
    LET rows == case.before \o case.rows
        first == SelectSeq(rows, LAMBDA r : r.task = 1)
        action(look) == L!SequentialLook(rows, Two, look)
        fixed == L!Directional(rows, Two)
    IN /\ \A look \in {1, 2} :
            /\ (action(look) = "error") = (L!CompletePrefix(rows, {"karc", "classic", "rag"}, Two) < look)
            /\ action(look) = L!SequentialLook(case.rows, Two, look)
            /\ action(look) \in {"STOP_PASS", "STOP_PASS_DROP_ARMS"} =>
                 /\ ~L!AnyReversal(L!Panels(rows, SubSeq(Two, 1, look)))
                 /\ L!Registered(L!Panels(rows, SubSeq(Two, 1, look)))
       /\ action(1) = L!SequentialLook(first, Two, 1)
       /\ action(2) # "CONTINUE" /\ action(1) # "STOP_PASS"
       /\ L!SequentialLook(rows, Tail(Two), 1) # "STOP_PASS_DROP_ARMS"
       /\ action(2) = "STOP_PASS" => fixed = {"classic", "rag"}

-----------------------------------------------------------------------------
G == INSTANCE Looks WITH Arms <- {"off"}, Comparators <- {}, SensitivityArms <- {}, Reps <- 2, LookTasks <- <<1>>,
       NFloor <- 124, NCap <- 640, Margin <- 1, Lower <- LAMBDA d : 0, Upper <- LAMBDA d : 0

Attempt(run, class, passed, leaked) ==
  [id |-> run, arm |-> "off", task |-> (run + 1) \div 2, class |-> class, passed |-> passed, leaked |-> leaked,
   stale |-> FALSE, cost |-> 0]
Attempts == {Attempt(run, c[1], c[2], c[3]) : run \in 1 .. 5,
               c \in {<<"ok", TRUE, FALSE>>, <<"task", FALSE, FALSE>>, <<"task", FALSE, TRUE>>, <<"usage_limit", FALSE, FALSE>>}}

\* Four attempts at the runs of two tasks; run 5 is of neither.
PickGate ==
  /\ Waiting
  /\ \E rows \in [1 .. 4 -> Attempts] : case' = [kind |-> "gate", rows |-> rows]

GradedRuns == {case.rows[i].id : i \in {i \in DOMAIN case.rows : case.rows[i].class \in {"ok", "task"}}}

(* The gates before the freeze pass only on a grade for every run of every    *)
(* task and no other; no run of the canary succeeded or showed a tag, and     *)
(* repeating an attempt whose answer is in does not open a gate: where the    *)
(* canary passes the trap does not (e4_model.py:138-172, 229-250).            *)
GatesNeedEveryRun ==
  case.kind = "gate" =>
    LET canary == G!CanaryPasses(case.rows, Two)
        trap == G!TrapPasses(case.rows, Two)
    IN /\ canary \/ trap => GradedRuns = 1 .. 4
       /\ canary => \A i \in 1 .. 4 : ~case.rows[i].passed /\ ~case.rows[i].leaked
       /\ trap => Cardinality({i \in 1 .. 4 : case.rows[i].passed}) >= 3
       /\ ~(canary /\ trap)

-----------------------------------------------------------------------------
S == INSTANCE Looks WITH Arms <- {"off", "on"}, Comparators <- {}, SensitivityArms <- {}, Reps <- 1, LookTasks <- <<1>>,
       NFloor <- 124, NCap <- 640, Margin <- 1, Lower <- LAMBDA d : 0, Upper <- LAMBDA d : 0

HookRow(run, hook, documents, unresolved) ==
  [run |-> run, hook |-> hook, documents |-> documents, unresolved |-> unresolved]
HookRows == UNION {{HookRow(run, "SessionStart", {}, 0), HookRow(run, "PreToolUse", {}, 1),
                    HookRow(run, "PreToolUse", {<<1, 1>>}, 0), HookRow(run, "PreToolUse", {<<1, 2>>}, 0)} : run \in {1, 2}}
Asked == <<[id |-> 1, required |-> {<<1, 2>>}, forbids |-> {<<1, 1>>}]>>
Told2(answer) == [passed |-> answer = "right", stale |-> answer = "stale", abstained |-> answer = "none"]
LifeRow(run, class, answer) ==
  [id |-> run, arm |-> IF run = 1 THEN "off" ELSE "on", task |-> 1, class |-> class, leaked |-> FALSE, cost |-> 0] @@ Told2(answer)

\* Two runs of a task, the first perhaps tried twice, and three log rows.
PickLife ==
  /\ Waiting
  /\ \E log \in [1 .. 3 -> HookRows], answers \in [1 .. 2 -> {"right", "stale", "wrong", "none"}],
        again \in BOOLEAN, supplied \in {{}, {<<1, 1>>}} :
       case' = [kind |-> "life", log |-> log, supplied |-> supplied,
                rows |-> (IF again THEN <<LifeRow(1, "usage_limit", "none")>> ELSE <<>>)
                           \o <<LifeRow(1, "task", answers[1]), LifeRow(2, "task", answers[2])>>]

(* Every graded run is in exactly one class; a run is said to have lacked     *)
(* the evidence only if nobody supplied it and no hook saw it fetched, and to *)
(* be clean of stale text only likewise; the smoke passes only when every     *)
(* run's hooks reported and resolved everything (e4_model.py:533-598,         *)
(* 608-715, e4_instrument.py:78-139).                                         *)
LifecyclesAreAccounted ==
  case.kind = "life" =>
    LET life == S!LifecycleRows(case.rows, Asked, [arm \in {"off", "on"} |-> [t \in {1} |-> case.supplied]], case.log)
        kinds == S!Distribution(life)
        seen(i) == case.supplied \cup UNION {case.log[j].documents : j \in {j \in 1 .. 3 : case.log[j].run = case.rows[i].id}}
    IN /\ Cardinality(DOMAIN life) = 2
       /\ MapThenSumSet(LAMBDA k : kinds[k], DOMAIN kinds) = 2
       /\ \A i \in DOMAIN life :
            /\ life[i].lifecycle = "L1" => <<1, 2>> \notin seen(i)
            /\ life[i].lifecycle = "L2" => <<1, 2>> \in seen(i)
            /\ life[i].l4 = (<<1, 1>> \in seen(i))
            /\ (life[i].lifecycle = "success") = case.rows[i].passed
       /\ S!SmokePasses(case.rows, Asked, "on", S!Observations(life), TRUE, 1) =>
            /\ \A j \in 1 .. 3 : case.log[j].unresolved = 0
            /\ {case.log[j].run : j \in {j \in 1 .. 3 : case.log[j].hook = "SessionStart"}} = {1, 2}

-----------------------------------------------------------------------------
\* A variance over the margin's square, and a point at which a freeze died.
PickPlan ==
  /\ Waiting
  /\ \/ \E num \in 0 .. 110 : case' = [kind |-> "plan", num |-> num]
     \/ \E stop \in 1 .. 6, canary, trap \in BOOLEAN :
          case' = [kind |-> "freeze", stop |-> stop, canary |-> canary, trap |-> trap]
     \/ \E sizes \in [1 .. 3 -> {1, 4, 9, 40}] : case' = [kind |-> "budget", sizes |-> sizes]

(* The looks the smoke gate proposes for its task count are a schedule the    *)
(* boundaries accept, and the count registered for the grid is one of them    *)
(* (e4_model.py:68-73, 716-718 and e4_sequential.py:126-147).                 *)
LooksFitTheBoundaries ==
  case.kind = "plan" =>
    LET n == G!RightSize(case.num, 1)
    IN /\ G!ScheduleAccepted(n, G!SmokeLooks(n))
       /\ n >= 124 /\ n <= 640 /\ (G!Uncapped(case.num, 1) <= 640 => n >= G!Uncapped(case.num, 1))
       /\ G!SmokeLooks(165) = <<42, 83, 124, 165>>

(* A frozen fixture loads only if its freeze ran to the end; whatever a       *)
(* freeze that died has left blocks the next (e4_model.py:300-380).           *)
FrozenIsWhole ==
  case.kind = "freeze" =>
    LET left == G!FreezeWrites[case.stop]
    IN /\ G!LoadsFrozen(left) = (case.stop = Len(G!FreezeWrites))
       /\ ~G!MayFreeze(case.canary, case.trap, left)
       /\ G!MayFreeze(case.canary, case.trap, G!NoFixture) => case.canary /\ case.trap

(* The first percent at which the guard admits anything, or everything, is    *)
(* the first at which the table shows it (e4_budget.py:12-98).                *)
StarvationIsLocated ==
  case.kind = "budget" =>
    LET sizes == case.sizes
        some == R!FirstPct(sizes, Min(ToSet(sizes)))
        all == R!FirstPct(sizes, Max(ToSet(sizes)))
    IN \A pct \in 1 .. 100 :
         /\ (R!Eligible(sizes, pct) # {}) = (some # 0 /\ pct >= some)
         /\ (R!Rejected(sizes, pct) = {}) = (all # 0 /\ pct >= all)

PickE4 == PickSchedule \/ PickRanking \/ PickCell \/ PickLook \/ PickGate \/ PickLife \/ PickPlan
-----------------------------------------------------------------------------
(* The arms of the stage 2 benchmark: what each run is given, may read and is *)
(* graded on, over bounded inputs.                                            *)

Measured(d) == IF d[1] = "long" THEN 30 ELSE 1 + (d[2] % 3)
Wl == INSTANCE Workload WITH Unit <- LAMBDA purpose, id : 0
Rep == INSTANCE Replay WITH Size <- [d \in Wl!Corpus |-> Measured(d)], Critical <- {}, PreloadOrder <- Wl!PreloadSet,
         InvalidFrom <- [d \in {} |-> 0], Draw <- LAMBDA id, a, kind : 0
\* At the smallest budget the invariants break when ten documents were evicted.
Breaks(pol) == pol.c = 4 /\ pol.evictions >= 10
St == INSTANCE Stage2 WITH Unit <- LAMBDA purpose, id : 0, Low <- 1, High <- 12,
        Value <- LAMBDA d, i, salt : 1 + ((d[2] * 7 + i * 5 + (IF salt = "own" THEN 0 ELSE d[2] % 3)) % 12),
        Start <- LAMBDA name, c : Rep!MakePolicy(name, c), Step <- LAMBDA pol, e : Rep!OnEvent(pol, e),
        Held <- LAMBDA pol : Rep!WorkingSet(pol),
        Events <- LAMBDA task, held : Rep!Outcome(task, held, 1).events,
        Broken <- Breaks,
        Docs <- {1, 2, 3}, Preload <- {1, 3}, Size <- <<1, 2, 4>>

Lists == {<<>>} \cup {<<d>> : d \in {1, 2, 9}} \cup {<<d, e>> : d, e \in {1, 2, 9}}
Injective == {l \in Lists : IsInjective(l)} \cup {St!NoSet}
Shared == {"closed-book", "static-full", "classic", "karc", "mcp"}
ArmNames == Shared \cup {"closed-context", "search-only", "rag-bm25", "typo"}
Dir(c) == IF c.runtime = "codex" THEN St!CodexDir(c.arm, c.ws, c.managed, c.condition)
          ELSE St!ClaudeDir(c.arm, c.ws, c.managed, c.condition)

PickDir ==
  /\ Waiting
  /\ \E runtime \in {"codex", "claude-code"}, arm \in ArmNames, ws \in Injective, managed \in Lists,
        condition \in {"c0", "c1", "c2"} :
       case' = [kind |-> "dir", runtime |-> runtime, arm |-> arm, ws |-> ws, managed |-> managed, condition |-> condition]

AnyTool(dir) == UNION {St!Readable(dir, tool) : tool \in {"Read", "Grep", "Glob", "Bash", "karc"}}

(* Every arm gives what it is named for, in both runtimes alike: a closed     *)
(* book nothing, a closed context its documents and no other, the rest of     *)
(* them every document of the repository in one way or another, so that each  *)
(* task can be answered; the tokens reported are those of what the session    *)
(* starts with; what K-ARC manages is served by its index, all of it, and     *)
(* under c2 not by the tools that are denied (materialize.py:106-398,         *)
(* mcp_index.py:31-97).                                                       *)
ArmsAreFair ==
  case.kind = "dir" =>
    LET dir == Dir(case)
        other == Dir([case EXCEPT !.runtime = IF @ = "codex" THEN "claude-code" ELSE "codex"])
    IN /\ dir.ok =>
            /\ dir.tokens = MapThenSumSet(LAMBDA d : <<1, 2, 4>>[d], dir.injected)
            /\ CASE case.arm = "closed-book" -> dir.injected \cup dir.repo \cup dir.managed = {}
                 [] case.arm = "closed-context" -> AnyTool(dir) \subseteq dir.injected
                 [] OTHER -> dir.injected \cup AnyTool(dir) = {1, 2, 3}
            /\ St!Readable(dir, "karc") = dir.managed
            /\ case.arm = "mcp" => dir.tokens = 0 /\ dir.managed = {1, 2, 3} \cap ToSet(case.managed)
            /\ case.arm = "mcp" /\ case.condition = "c2" =>
                 \A tool \in {"Read", "Grep"} : St!Readable(dir, tool) \cap dir.managed = {}
       /\ case.arm \in Shared => [dir EXCEPT !.deny = "any"] = [other EXCEPT !.deny = "any"]

-----------------------------------------------------------------------------
Keys == {"PATH", "SECRET", "HOME", "LOG", "MODE"}
Env(keys, who) == [k \in keys |-> who]

PickEnv ==
  /\ Waiting
  /\ \E host, overrides \in SUBSET Keys, extra \in SUBSET {"PATH", "HOME", "MODE"} :
       case' = [kind |-> "env", child |-> St!ChildEnvironment(Env(host, "host"), Env(extra, "extra"), Env(overrides, "run")),
                host |-> host, given |-> extra \cup overrides]

(* A benchmark turn sees of the host what is on the list and nothing else,    *)
(* whatever the run adds; its home and the log of its guard are its own, and  *)
(* it is never without a guard mode (environment.py:110-119).                 *)
EnvironmentIsSealed ==
  case.kind = "env" =>
    /\ \A k \in DOMAIN case.child : case.child[k] = "host" => k \in St!Allowed \ case.given
    /\ case.child["HOME"] = "own" /\ case.child["LOG"] = "own"
    /\ DOMAIN case.child = {"HOME", "LOG", "MODE"} \cup case.given \cup (St!Allowed \cap case.host)

-----------------------------------------------------------------------------
TextEvent(text) == [kind |-> "text", text |-> text, karc |-> FALSE, native |-> FALSE, failed |-> FALSE, managed |-> FALSE]
Use(karc, native, failed, managed) ==
  [kind |-> "tool_use", text |-> {}, karc |-> karc, native |-> native, failed |-> failed, managed |-> managed]
Happenings == {TextEvent({1}), TextEvent({}), [TextEvent({}) EXCEPT !.kind = "guard_denied"],
               Use(TRUE, FALSE, FALSE, FALSE), Use(TRUE, FALSE, TRUE, FALSE), Use(FALSE, FALSE, FALSE, FALSE)}
              \cup {Use(FALSE, TRUE, failed, managed) : failed, managed \in BOOLEAN}
PickTranscript ==
  /\ Waiting
  /\ \E n \in 0 .. 3 : \E events \in [1 .. n -> Happenings], output \in {{}, {2}} :
       case' = [kind |-> "transcript", events |-> events, output |-> output]

(* The adoption of a run is the share of the calls that reached managed       *)
(* knowledge: what was denied, failed or read elsewhere leaves it alone, and  *)
(* without any such call there is none; a leak is a canary that was said      *)
(* (grade.py:76-153).                                                         *)
TranscriptsAreJudged ==
  case.kind = "transcript" =>
    LET counted == SelectSeq(case.events, LAMBDA e : St!UseClass(e) \in {"mcp", "managed"})
        mcp == Len(SelectSeq(counted, LAMBDA e : e.karc))
    IN /\ St!AdoptionRate(case.events) = IF counted = <<>> THEN <<>> ELSE <<mcp, Len(counted)>>
       /\ St!AdoptionRate(counted) = St!AdoptionRate(case.events)
       /\ \A e \in ToSet(counted) : e.karc \/ (e.managed /\ ~e.failed)
       /\ (1 \in St!Leaked({1, 2}, case.output, case.events)) = (TextEvent({1}) \in ToSet(case.events))
       /\ (2 \in St!Leaked({1, 2}, case.output, case.events)) = (case.output = {2})

-----------------------------------------------------------------------------
PickTaskPlan ==
  /\ Waiting
  /\ \/ \E name \in {"static", "fifo", "lru", "lfu"}, c \in {4, 12, 40} :
          case' = [kind |-> "stream", name |-> name, c |-> c, next |-> 1, plan |-> St!NoPlan(name, c)]
     \/ \E seq \in 1 .. 60 : case' = [kind |-> "task", task |-> St!Tasks[seq]]

\* The loop over the tasks; after a policy has raised it leaves the plan alone.
PlanNext ==
  /\ case.kind = "stream" /\ case.next <= 60
  /\ case' = [case EXCEPT !.next = @ + 1, !.plan = St!PlanTask(@, St!Spec2(case.next))]

RequiredBefore(seq) == UNION {ToSet(St!Tasks[i].required) : i \in 1 .. seq - 1}

(* The arms of one budget see one stream, although each is fed its own        *)
(* outcomes: no policy that only holds what was read ever supplies a          *)
(* replaced document, so every task succeeds for all of them; only the        *)
(* preload of the static arm can be corrected.  A task is supplied with what  *)
(* earlier ones required, within the budget, and a policy that breaks ends    *)
(* the plan at that task (bench/working_set.py:80-227).                       *)
PlansShareTheStream ==
  case.kind = "stream" =>
    LET plan == case.plan  done == Len(plan.supply)  run == case.next - 1 IN
    /\ case.c > 4 \/ case.name = "static" => done = run
    /\ done < run => Breaks(plan.policy)
    /\ \A seq \in 1 .. done :
         /\ Rep!Tok(plan.supply[seq]) <= case.c
         /\ case.name # "static" =>
              /\ plan.supply[seq] \subseteq RequiredBefore(seq)
              /\ plan.supply[seq] \cap St!Tasks[seq].forbidden = {}
              /\ seq < done \/ ~Breaks(plan.policy) =>
                   {<<e.type, e.art>> : e \in ToSet(plan.outcomes[seq])}
                     = {"validated"} \X ToSet(St!Tasks[seq].required)
         /\ \A e \in ToSet(plan.outcomes[seq]) : e.type = "corrected" => e.art \in ToSet(Wl!PreloadSet)

Digits(n) == IF n < 10 THEN <<n>> ELSE <<n \div 10, n % 10>>
Says(d) == {<<St!Facts(d)[i].key, Digits(St!Facts(d)[i].value)>> : i \in {0, 1}}
Answer(fact) == <<fact.key, Digits(fact.value)>>

(* Every task has one document that answers it, which it requires and does    *)
(* not forbid: whoever repeats what a replaced version or a draft says has    *)
(* not answered, though it speaks of the same key (bench/tasks.py:88-144,     *)
(* corpus_text.py:71-92, grade.py:24-58).                                     *)
TasksHaveOneAnswer ==
  case.kind = "task" =>
    LET task == case.task
        answer == Answer(St!Expected(task))
        \* what the version it replaces says of the same key
        stale == IF task.forbidden = {} THEN St!NoAnswer
                 ELSE Answer(St!Facts(CHOOSE d \in task.forbidden : TRUE)[task.fact])
    IN /\ {d \in St!Corpus : St!Classify(answer, stale, Says(d)) = "correct"} = {task.art}
       /\ {d \in St!Corpus : St!Classify(answer, stale, Says(d)) = "stale"} = task.forbidden
       /\ task.art \in ToSet(task.required) \ task.forbidden
       /\ Cardinality({seq \in 1 .. 60 : St!Main(seq)}) = 40 /\ Len(St!Tasks) = 60

PickArms == PickDir \/ PickEnv \/ PickTranscript \/ PickTaskPlan \/ PlanNext

-----------------------------------------------------------------------------
Next ==
  \/ IsAbout("bench") /\ PickBench
  \/ IsAbout("pi") /\ PickPi
  \/ IsAbout("readout") /\ PickReadings
  \/ IsAbout("replay") /\ PickReplays
  \/ IsAbout("e4") /\ PickE4
  \/ IsAbout("arms") /\ PickArms
Spec == Init /\ [][Next]_case

(* What the canaries and cards compute is what they claim: Belady's choices   *)
(* are optimal, two ways of adding up usage agree, a verdict over pooled      *)
(* seeds is that of the seeds, a split loses no text and no token, a report   *)
(* does not change with what is added, a sample has the power it was sized    *)
(* for, a defective session decides nothing, a cell starts on the contract    *)
(* that was frozen for it, and an answer of Codex counts in one thread with   *)
(* its input in full (bench/e5_*.py, e10_*.py, e11_*.py, driver.py).          *)
BenchIsSound ==
  /\ BeladyIsOptimal /\ AccountsMatchUnions /\ SeedsSpeakForThePool
  /\ SplitKeepsContent /\ TokensAreShared
  /\ ReportIsStable /\ FreezeHasPower /\ DefectsBlockDecisions
  /\ HorizonIsRead /\ ContractsAreFrozen /\ AnswersAreOfOneThread

(* A pi turn is metered by its provider's own counters, paced within its rate *)
(* but for what runs at once, and set up in the order it is measured in; what *)
(* is read from the kept units is judged when they are all there, paid for    *)
(* once and of one piece (the scripts of the pi cells).                       *)
PiIsSound == TurnsAreMetered /\ PaceIsBounded /\ SetUpIsSound /\ ReadoutIsHonest

(* A replay compares policies fairly: more budget never loses what less had,  *)
(* every access is a hit or a miss of one task, noise only hides accesses,    *)
(* scripted outcomes arrive where the script says (replay/*.py).              *)
ReplayIsFair == BudgetsNest /\ RunsAreAccounted /\ NoiseOnlyHides /\ ScriptsMeanIt

(* A simulation of E3 and E4 judges what it says: schedules, retrieval,       *)
(* replays and plans see no future, looks and gates bind, a frozen fixture is *)
(* whole, lifecycles are paid for (bench/e3_*.py, bench/e4_*.py).             *)
SimulationsAreSound ==
  /\ SchedulesAreSound /\ RetrievalIsCurrent /\ AnswersPrecedeReads /\ SolarSeesThePast
  /\ LooksAreBinding /\ GatesNeedEveryRun /\ LooksFitTheBoundaries /\ FrozenIsWhole
  /\ GatesAreDisjoint /\ LifecyclesAreAccounted /\ StarvationIsLocated

(* The arms of an experiment differ in the policy only: the same tasks in the *)
(* same order with one answer each, the same sealed environment, and answers  *)
(* judged by what was said (bench/materialize.py, environment.py, grade.py,   *)
(* tasks.py, nonce.py).                                                       *)
ArmsAreComparable ==
  /\ ArmsAreFair /\ EnvironmentIsSealed /\ TranscriptsAreJudged
  /\ PlansShareTheStream /\ TasksHaveOneAnswer
=============================================================================
