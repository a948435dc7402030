------------------------------- MODULE Horizon -------------------------------
(* The sixteen-turn horizon (E10, src/src/karc/bench/e10_horizon_canary.py    *)
(* and e10_horizon_execution.py) and the three baselines run on its schedule  *)
(* (E11, e11_baseline3.py and e11_baseline3_execution.py): what the frozen    *)
(* contract is checked for, what a normalized row is audited for, and what    *)
(* the rows may decide.  The budgets and the choice of attempts are in        *)
(* Ledger.  Numbers the code fixes are constants, so they can be small here.  *)
EXTENDS Integers, Sequences, FiniteSets, FiniteSetsExt, SequencesExt

CONSTANTS SessionCount, SessionLength, Window,
          Horizons, Weights,              \* weights of a cached token, in tenths
          SpendCap, InfraCap, CallCap, PerTurnCap,
          QualityMargin,                  \* per cent
          Interval(_)                     \* the bootstrap's 95% interval <<low, high>>

H16Arms == {"karc-full", "rag-bm25"}
BaselineArms == {"full-history", "sliding-window-compaction", "stateless-rag"}
Sessions == 1 .. SessionCount
Positions == 1 .. SessionLength

-----------------------------------------------------------------------------
(* validate_bundle of E10: assignments are those of a Schedule.  Repeats fall *)
(* seven to half the sessions and eight to the others: as even as they can.   *)
BundleChecks(assignments, contained, utilization) ==
  LET of(s) == SelectSeq(assignments, LAMBDA a : a.session = s)
      reused(s) == Len(SelectSeq(of(s), LAMBDA a : a.reuse))
      opportunities == SessionCount * (SessionLength - 1)
      repeats == Len(SelectSeq(assignments, LAMBDA a : a.reuse))
  IN [reuse |-> 2 * repeats = opportunities,
      taskCount |-> Len(assignments) = SessionCount * SessionLength,
      sessionCount |-> {assignments[i].session : i \in DOMAIN assignments} = Sessions,
      gold |-> contained, parity |-> utilization >= 80,
      positions |-> \A s \in Sessions : [i \in DOMAIN of(s) |-> of(s)[i].position]
                                        = [i \in Positions |-> i],
      lineage |-> \A s \in Sessions : \A i \in DOMAIN of(s) :
         of(s)[i].reuse <=> \E j \in 1 .. i - 1 : of(s)[j].artifact = of(s)[i].artifact,
      balanced |-> LET low == (SessionLength - 1) \div 2
                   IN /\ \A s \in Sessions : reused(s) \in {low, low + 1}
                      /\ 2 * Cardinality({s \in Sessions : reused(s) = low}) = SessionCount]
AllPass(checks) == \A c \in DOMAIN checks : checks[c]
ValidateBundle(assignments, contained, utilization) ==
  AllPass(BundleChecks(assignments, contained, utilization))

(* E11 takes the same bundle, and no other: schedule and corpus by hash.      *)
ValidateBaselineBundle(bundle, frozen) ==
  /\ ValidateBundle(bundle.assignments, bundle.contained, bundle.utilization)
  /\ bundle.schedule = frozen.schedule /\ bundle.corpus = frozen.corpus

(* build_config refuses a bundle that does not pass (the contract is a set of *)
(* one, or empty); validate_config accepts                                    *)
(* only what was written, unchanged since (the self hash) and not yet run.    *)
PlannedTurns(arms) == SessionCount * SessionLength * Cardinality(arms)
BuildConfig(bundle, valid, arms) ==
  IF ~valid THEN {}
  ELSE {[status |-> "AWAITING_USER_APPROVAL", arms |-> arms, planned |-> PlannedTurns(arms),
        spendCap |-> SpendCap, infraCap |-> InfraCap, callCap |-> CallCap, window |-> Window,
        substitution |-> "FORBIDDEN", schedule |-> bundle.schedule, calls |-> 0]}
ValidateConfig(config, hash, arms) ==
  /\ hash = config /\ config.status = "AWAITING_USER_APPROVAL" /\ config.arms = arms
  /\ config.planned = PlannedTurns(arms) /\ config.window = Window
  /\ config.spendCap = SpendCap /\ config.infraCap = InfraCap /\ config.callCap = CallCap
  /\ config.substitution = "FORBIDDEN" /\ config.calls = 0

-----------------------------------------------------------------------------
(* expected_state of E11: the earlier turns an arm is given at a position.    *)
ExpectedState(arm, position) ==
  LET prior == position - 1
      kept == CASE arm = "full-history" -> prior
                [] arm = "sliding-window-compaction" -> Min({prior, Window})
                [] arm = "stateless-rag" -> 0
  IN [supplied |-> kept, discarded |-> prior - kept, retrieval |-> arm # "full-history",
      reused |-> arm = "full-history" /\ position > 1]

(* materialize_arm of E11: the whole corpus, or a bare directory; never MCP.  *)
MaterializeBaseline(arm, corpus) ==
  [hook |-> "deny-all", injected |-> IF arm = "full-history" THEN corpus ELSE {}, mcp |-> FALSE]

KeyOf(row) == <<row.arm, row.session, row.position>>
Sum(rows, field) == FoldLeft(LAMBDA a, row : a + row[field], 0, rows)
HasDuplicates(rows) == Cardinality({KeyOf(rows[i]) : i \in DOMAIN rows}) # Len(rows)
WithinCaps(spend, infra) == spend <= SpendCap /\ infra <= InfraCap /\ spend + infra <= CallCap

(* audit_turn_rows of E10.  A row is [arm, session, position, attempt, class, *)
(* fresh, cached, gross, passed, calls (of the MCP tools), spend, infra].     *)
AuditHorizonRows(rows, requireComplete) ==
  /\ \A i \in DOMAIN rows : rows[i].arm = "rag-bm25" => rows[i].calls = 0
  /\ ~HasDuplicates(rows)
  /\ \A i \in DOMAIN rows : rows[i].fresh + rows[i].cached = rows[i].gross
  /\ WithinCaps(Sum(rows, "spend"), Sum(rows, "infra"))
  /\ requireComplete => {KeyOf(rows[i]) : i \in DOMAIN rows} = H16Arms \X Sessions \X Positions

(* audit_turn_rows of E11, whose rows also have the state the arm was in, the *)
(* task and the thread that answered.  Rows of no known shape are not read    *)
(* any further, but fail the audit by themselves.                             *)
WellShaped(row) == row.arm \in BaselineArms /\ row.position \in Positions
AuditBaselineRows(rows, taskOf, requireComplete) ==
  LET shaped == SelectSeq(rows, WellShaped)
      keys == {KeyOf(shaped[i]) : i \in DOMAIN shaped}
      planned == BaselineArms \X Sessions \X Positions
      good(row) == row.spend \in 0 .. PerTurnCap
  IN /\ Len(shaped) = Len(rows) /\ ~HasDuplicates(shaped)
     /\ keys \subseteq planned /\ (requireComplete => planned \subseteq keys)
     /\ \A i \in DOMAIN shaped :
          /\ shaped[i].task = taskOf[<<shaped[i].session, shaped[i].position>>]
          /\ shaped[i].gross = shaped[i].fresh + shaped[i].cached
          /\ shaped[i].state = ExpectedState(shaped[i].arm, shaped[i].position)
          /\ shaped[i].calls = 0 /\ good(shaped[i])
     /\ WithinCaps(Sum(SelectSeq(shaped, good), "spend"), Sum(shaped, "infra"))

-----------------------------------------------------------------------------
(* latest_complete, of either experiment, in the order of the log.            *)
Answered(row) == row.class \in {"ok", "task"}
Attempt(rows, arm, session, attempt) ==
  SelectSeq(rows, LAMBDA row : /\ row.arm = arm /\ row.session = session
                               /\ row.attempt = attempt /\ Answered(row))
IsWhole(unit) == /\ Len(unit) = SessionLength
                 /\ {unit[i].position : i \in DOMAIN unit} = Positions
LatestComplete(rows, arms) ==
  LET attempts == {rows[i].attempt : i \in DOMAIN rows}
      whole(arm, s) == {a \in attempts : IsWhole(Attempt(rows, arm, s, a))}
  IN SelectSeq(rows, LAMBDA row :
       /\ row.arm \in arms /\ Answered(row) /\ whole(row.arm, row.session) # {}
       /\ row.attempt = Max(whole(row.arm, row.session)))

UpTo(rows, session, arm, horizon) ==
  SelectSeq(rows, LAMBDA row : row.session = session /\ row.arm = arm /\ row.position <= horizon)
Cost(rows, weight) == 10 * Sum(rows, "fresh") + weight * Sum(rows, "cached")
Correct(rows) == Len(SelectSeq(rows, LAMBDA row : row.passed))

(* The sessions both arms of a comparison finished up to the horizon, and the *)
(* differences over them; E11 also leaves out a pair that cost nothing.       *)
PairedSessions(rows, left, right, horizon) ==
  {s \in Sessions : \A arm \in {left, right} : Len(UpTo(rows, s, arm, horizon)) = horizon}
Comparison(rows, left, right, horizon, weight) ==
  LET cost(s, arm) == Cost(UpTo(rows, s, arm, horizon), weight)
      paired == {s \in PairedSessions(rows, left, right, horizon) : cost(s, right) > 0}
      order == SetToSortSeq(paired, <)
  IN [i \in DOMAIN order |-> cost(order[i], left) - cost(order[i], right)]
QualityComparison(rows, left, right, horizon) ==
  LET order == SetToSortSeq(PairedSessions(rows, left, right, horizon), <)
  IN [i \in DOMAIN order |-> (100 * (Correct(UpTo(rows, order[i], left, horizon))
                                     - Correct(UpTo(rows, order[i], right, horizon)))) \div horizon]

CostDominates(rows, left, right) ==
  \A weight \in Weights :
    LET differences == Comparison(rows, left, right, SessionLength, weight)
    IN differences # <<>> /\ Interval(differences)[2] < 0
QualityNoninferior(rows, left, right) ==
  LET differences == QualityComparison(rows, left, right, SessionLength)
  IN differences # <<>> /\ Interval(differences)[1] >= -QualityMargin

(* _session_identity_audit: the persistent arm talks to one provider thread,  *)
(* the other two to a new one every turn.  Thread 0 is None.                  *)
\* Mutant of SessionIdentityAudit: only the persistent arm's threads are counted.
PersistentIdentityAudit(rows) ==
  \A s \in Sessions :
    LET unit == UpTo(rows, s, "full-history", SessionLength)
    IN Cardinality({unit[i].thread : i \in DOMAIN unit} \ {0}) = 1
SessionIdentityAudit(rows) ==
  \A s \in Sessions, arm \in BaselineArms :
    LET unit == UpTo(rows, s, arm, SessionLength)
        threads == {unit[i].thread : i \in DOMAIN unit} \ {0}
    IN /\ Len(unit) = SessionLength
       /\ Cardinality(threads) = IF arm = "full-history" THEN 1 ELSE SessionLength

(* summarize of E10.  The crossovers compare the arms' mean turns; a position *)
(* no session reached ends the cumulative one, but the per-turn one compares  *)
(* what K-ARC has with None, and the whole summary fails.  A crossover is a   *)
(* set of one position, or empty.                                             *)
AtPosition(rows, arm, p) == SelectSeq(rows, LAMBDA row : row.arm = arm /\ row.position = p)
GrossMean(rows, arm, p) == Sum(AtPosition(rows, arm, p), "gross") \div Len(AtPosition(rows, arm, p))
FirstOf(positions) == {p \in positions : \A q \in positions : p <= q}
SummarizeHorizon(rows) ==
  LET valid == LatestComplete(rows, H16Arms)
      mean(arm, p) == GrossMean(valid, arm, p)
      has(arm, p) == AtPosition(valid, arm, p) # <<>>
      reached == {p \in Positions : \A q \in 1 .. p : \A arm \in H16Arms : has(arm, q)}
      upTo(arm, p) == MapThenSumSet(LAMBDA q : mean(arm, q), 1 .. p)
  IN [complete |-> Len(valid) = PlannedTurns(H16Arms),
      paired |-> [h \in Horizons, w \in Weights |->
                    Comparison(valid, "karc-full", "rag-bm25", h, w)],
      raises |-> \E p \in Positions : has("karc-full", p) /\ ~has("rag-bm25", p),
      perTurn |-> FirstOf({p \in reached : mean("karc-full", p) <= mean("rag-bm25", p)}),
      cumulative |-> FirstOf({p \in reached : upTo("karc-full", p) <= upTo("rag-bm25", p)}),
      audit |-> \A i \in DOMAIN valid : /\ valid[i].arm = "rag-bm25" => valid[i].calls = 0
                                        /\ valid[i].fresh + valid[i].cached = valid[i].gross]

(* summarize of E11: the two decisions its rows may trigger.                  *)
SummarizeBaselines(rows, reference, taskOf) ==
  LET valid == LatestComplete(rows, BaselineArms)
      references == LatestComplete(reference, H16Arms)
      combined == valid \o references
      complete == /\ Len(valid) = PlannedTurns(BaselineArms)
                  /\ AuditBaselineRows(valid, taskOf, TRUE)
                  /\ Sum(valid, "local") = 0
                  /\ SessionIdentityAudit(valid)
                  /\ Len(references) = PlannedTurns(H16Arms)
      beats(left, right) == /\ CostDominates(combined, left, right)
                            /\ QualityNoninferior(combined, left, right)
  IN [complete |-> complete,
      rewritePremise |-> complete /\ \A arm \in H16Arms : beats("full-history", arm),
      removeNecessity |-> complete /\ beats("stateless-rag", "rag-bm25")]
=============================================================================
