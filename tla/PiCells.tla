------------------------------- MODULE PiCells ------------------------------
(* How the pi cells are set up before a model is called: E23's bundle, its    *)
(* gates and its steady-state window (run_e23_reuse_density.py), E19's        *)
(* slices and verdict on an executed warm-up (run_e19_steady_state.py), the   *)
(* builds of E27 and E28 at other budgets (run_e27.py, run_e28.py), and the   *)
(* probe of pi's registry. A hash stands for the thing hashed.                *)
EXTENDS Integers, Sequences, FiniteSets, FiniteSetsExt, SequencesExt

CONSTANTS SessionCount, SessionLength, WarmupStart, WarmupMax, MeasureSessions,
          BudgetTokens(_),     \* tokens of a budget in percent of the corpus
          CacheMinPrefix       \* OPENAI_CACHE_MIN_PREFIX

-----------------------------------------------------------------------------
\* _prepare_bundle. A task: session, position, required, plan, resident, reuse.
SessionOrder(tasks) ==
    FoldSeq(LAMBDA t, sids : IF Contains(sids, t.session) THEN sids ELSE Append(sids, t.session), <<>>, tasks)
TasksOf(tasks, sid) ==
    SortSeq(SelectSeq(tasks, LAMBDA t : t.session = sid), LAMBDA a, b : a.position < b.position)
\* Mutant of SessionOf: the first task listed opens the session.
SessionAsListed(tasks, sid) ==
    LET own == SelectSeq(tasks, LAMBDA t : t.session = sid)
    IN [id |-> sid, initial |-> own[1].resident, tasks |-> own]
SessionOf(tasks, sid) ==
    LET own == TasksOf(tasks, sid) IN [id |-> sid, initial |-> own[1].resident, tasks |-> own]

PlansCoverGold(tasks) == \A i \in DOMAIN tasks : tasks[i].required \subseteq tasks[i].plan
Prepared(tasks) == PlansCoverGold(tasks) /\ Len(SessionOrder(tasks)) = SessionCount

PrepareBundle(tasks, budget, structure) ==
    [sessions |-> [i \in DOMAIN SessionOrder(tasks) |-> SessionOf(tasks, SessionOrder(tasks)[i])],
     tasks |-> tasks, budget |-> budget, budgetTokens |-> BudgetTokens(budget), structure |-> structure,
     contained |-> Cardinality({i \in DOMAIN tasks : tasks[i].required \subseteq tasks[i].plan})]

\* What the four hashes see: residents and plans; the order and the questions; the corpus and its budget.
Identity(b) == [snapshot |-> b.sessions,
                schedule |-> [i \in DOMAIN b.tasks |-> <<b.tasks[i].session, b.tasks[i].position>>],
                tasks |-> [i \in DOMAIN b.tasks |-> b.tasks[i].required],
                manifest |-> b.budgetTokens]

\* build_bundle: identity, budget, reuse rate, H12 and H13; any other bundle ends the process.
BuildGate(b, want, budgetTokens, reuse) ==
    /\ Identity(b) = want
    /\ b.budgetTokens = budgetTokens
    /\ b.structure.reuse = reuse
    /\ b.contained = Len(b.tasks)
    /\ b.structure.reused > 0 /\ b.structure.superseded > 0 /\ b.structure.sigmaDefined

ResidentOf(b, index, size) ==
    LET s == b.sessions[index]
        tokens == MapThenSumSet(LAMBDA v : size[v], s.initial)
    IN [session |-> s.id, versions |-> Cardinality(s.initial), tokens |-> tokens, budget |-> b.budgetTokens]
Ramp(b, size) == [i \in 1 .. SessionCount |-> ResidentOf(b, i, size)]

SliceVersions(b, indices) ==
    UNION {UNION {b.sessions[i].tasks[k].required : k \in DOMAIN b.sessions[i].tasks} : i \in indices}

ReuseProfile(b) ==
    [i \in 1 .. SessionCount |->
       [session |-> b.sessions[i].id, tasks |-> Len(b.sessions[i].tasks),
        reuse |-> Len(SelectSeq(b.sessions[i].tasks, LAMBDA t : t.reuse)),
        hits |-> Len(SelectSeq(b.sessions[i].tasks, LAMBDA t : t.required \subseteq t.resident))]]

-----------------------------------------------------------------------------
\* phase_build of E27 and E28: the cell's bundle, the same path at the control's
\* budget, and H14: the budget moves residents and plans, and not the questions.
Reproduces(control, committed) == Identity(control) = committed
AxisPurity(b, control) ==
    /\ Identity(b).schedule = Identity(control).schedule
    /\ Identity(b).tasks = Identity(control).tasks
    /\ b.structure = control.structure
    /\ Identity(b).manifest # Identity(control).manifest
BuildE27(b, want, control, committed, budgetTokens, reuse) ==
    BuildGate(b, want, budgetTokens, reuse) /\ Reproduces(control, committed) /\ AxisPurity(b, control)

\* E28 also asks for another snapshot, and of a fractional budget, whose replay
\* was given its whole part, that the ramp is not that of the whole part.
RampMoved(ramp, other) == \E i \in DOMAIN ramp : ramp[i].tokens # other[i].tokens
FractionalIsReal(b, whole, size) == RampMoved(Ramp(b, size), Ramp(whole, size))
BuildE28(b, want, control, committed, budgetTokens, reuse, fractional, whole, size) ==
    /\ BuildGate(b, want, budgetTokens, reuse) /\ Reproduces(control, committed)
    /\ AxisPurity(b, control) /\ Identity(b).snapshot # Identity(control).snapshot
    /\ fractional => FractionalIsReal(b, whole, size)

-----------------------------------------------------------------------------
\* Steady state: the last warm-up session within 5 % of the one before, and 95 % of the budget.
IsWarmup(count) == count \in WarmupStart .. WarmupMax
Within(last, prev) == prev > 0 /\ 20 * Max({last - prev, prev - last}) <= prev
Utilized(tokens, budget) == 20 * tokens >= 19 * budget
SteadyAt(ramp, count, budget) ==
    Within(ramp[count], ramp[count - 1]) /\ Utilized(ramp[count], budget)

WarmupSessions(count) == 1 .. count
MeasureWindow(count) == count + 1 .. count + MeasureSessions
Overruns(count) == count + MeasureSessions > SessionCount     \* SystemExit

(* E23, phase_steady: the smallest warm-up that arrives; none fires H11.     *)
PhaseSteady(ramp, budget) ==
    LET arrived == {n \in WarmupStart .. WarmupMax : SteadyAt(ramp, n, budget)}
    IN IF arrived = {} THEN [reached |-> FALSE, warmup |-> WarmupMax, window |-> {}]
       ELSE [reached |-> TRUE, warmup |-> Min(arrived), window |-> MeasureWindow(Min(arrived))]

(* E23 and E27, main: the window a wave measures. Sessions named on the      *)
(* command line, or a warm-up named there, pass the verdict by.              *)
WindowFor(named, warmup, steady) ==
    IF named # {} THEN named
    ELSE IF warmup # 0 THEN MeasureWindow(warmup)
    ELSE steady.window

(* E19, phase_steady: the verdict on a warm-up of the operator's length that  *)
(* was executed; H10 fires only when it cannot be made longer.               *)
SteadyAfter(ramp, count, budget, executed) ==
    [reached |-> SteadyAt(ramp, count, budget),
     fired |-> ~SteadyAt(ramp, count, budget) /\ count >= WarmupMax,
     allTurns |-> \A i \in WarmupSessions(count) : executed[i] = SessionLength]

(* E19, phase_slices: warm-up, measured and unused sessions of the build.    *)
Slices(count) ==
    [warm |-> WarmupSessions(count), measured |-> MeasureWindow(count),
     unused |-> {i \in 1 .. SessionCount : i \notin WarmupSessions(count) \cup MeasureWindow(count)}]

-----------------------------------------------------------------------------
(* phase_auth: the check is run without the key and, if it is set, with it.  *)
PhaseAuth(keySet, answers) ==
    [noKey |-> answers.without, withKey |-> IF keySet THEN answers.with ELSE "skipped"]

(* _registry_probe: one start of pi, which may fail to write its probe; the  *)
(* files of earlier starts are removed first.                                *)
ProbeReport(file, writes, start) == IF writes THEN start ELSE 0

(* phase_registry: with and without the system prompt; the difference of the *)
(* two sizes is the injection, if both starts reported one.                  *)
InjectedSize(without, with) ==
    IF without = 0 \/ with = 0 THEN [known |-> FALSE] ELSE [known |-> TRUE, of |-> <<without, with>>]
PhaseRegistry(files, writes) ==
    LET reports == [k \in 1 .. 2 |-> ProbeReport(files[k], writes[k], 2 + k)]
    IN [reports |-> reports, injection |-> InjectedSize(reports[1], reports[2])]
-----------------------------------------------------------------------------
(* What E19's runner makes of a turn of pi (run_e19_steady_state.py): the     *)
(* event stream, the calls and their token buckets, the row, the prices, and  *)
(* the turn that fails its unit. Rates are cents per million tokens.          *)

\* int(usage.get(key) or 0): a key may be missing
Tokens(usage, key) == IF key \in DOMAIN usage THEN usage[key] ELSE 0
SumOf(f(_), s) == FoldSeq(LAMBDA x, sum : sum + f(x), 0, s)
OfType(events, type) == SelectSeq(events, LAMBDA e : e.type = type)

\* Only what an assistant message ended with is a call; lines that are no JSON
\* object and other events are passed over.
Calls(events) == SelectSeq(events, LAMBDA e : e.type = "message_end" /\ e.role = "assistant")

ParseJsonStream(events) ==
    [calls |-> Calls(events),
     starts |-> Len(OfType(events, "tool_execution_start")),
     failedEnds |-> Len(SelectSeq(events, LAMBDA e : e.type = "tool_execution_end" /\ e.isError)),
     errors |-> Len(SelectSeq(events, LAMBDA e : e.type \in {"unparsable", "extension_error", "error"})),
     answer |-> LET texts == SelectSeq(Calls(events), LAMBDA c : c.text # "")
                IN IF texts = <<>> THEN "" ELSE Last(texts).text]

CatalogRates == [anthropic |-> [input |-> 200, output |-> 1000, read |-> 20, write5m |-> 250, write1h |-> 400],
                 openai |-> [input |-> 20, output |-> 120, read |-> 2, write5m |-> 25, write1h |-> 25]]
StandardRates == [anthropic |-> [input |-> 300, output |-> 1500, read |-> 30, write5m |-> 375, write1h |-> 600],
                  openai |-> [input |-> 20, output |-> 120, read |-> 2, write5m |-> 25, write1h |-> 25]]

AtRates(p, input, output, read, write, write1h) ==
    input * p.input + output * p.output + read * p.read
    + Max({0, write - write1h}) * p.write5m + write1h * p.write1h

PiModelledCost(provider, usage) ==
    AtRates(CatalogRates[provider], Tokens(usage, "input"), Tokens(usage, "output"),
            Tokens(usage, "cacheRead"), Tokens(usage, "cacheWrite"), Tokens(usage, "cacheWrite1h"))

Prefix(usage) == Tokens(usage, "input") + Tokens(usage, "cacheRead") + Tokens(usage, "cacheWrite")

ClosureOf(call, provider) ==
    LET u == call.usage
    IN [usage |-> u, gross |-> Prefix(u), eligible |-> Prefix(u) >= CacheMinPrefix,
        read |-> Tokens(u, "cacheRead"), write |-> Tokens(u, "cacheWrite"),
        closes |-> Tokens(u, "totalTokens") = Prefix(u) + Tokens(u, "output"),
        inclusive |-> Tokens(u, "totalTokens") = Tokens(u, "input") + Tokens(u, "output"),
        write1hFits |-> Tokens(u, "cacheWrite1h") <= Tokens(u, "cacheWrite"),
        cold |-> Tokens(u, "cacheRead") = 0,
        total |-> Tokens(u, "totalTokens"),
        stop |-> call.stop, error |-> call.error,
        modelled |-> PiModelledCost(provider, u)]

Buckets == {"input", "output", "cacheRead", "cacheWrite", "cacheWrite1h", "totalTokens"}
UsageTurn(calls) == [key \in Buckets |-> SumOf(LAMBDA c : Tokens(c.usage, key), calls)]

RefusalSignals(calls) ==
    [outputZero |-> UsageTurn(calls)["output"] = 0,
     anyOutputZero |-> \E i \in DOMAIN calls : Tokens(calls[i].usage, "output") = 0,
     errorMessage |-> \E i \in DOMAIN calls : calls[i].error,
     noContent |-> \E i \in DOMAIN calls : calls[i].blocks = 0,
     rawRefusal |-> \E i \in DOMAIN calls : calls[i].refused,
     stopError |-> \E i \in DOMAIN calls : calls[i].stop = "error"]

\* phase_unit, one turn; audit is the length the bridge's file has grown to.
Row(turn, auditBefore, provider) ==
    LET parsed == ParseJsonStream(turn.events)
        closure == [i \in DOMAIN parsed.calls |-> ClosureOf(parsed.calls[i], provider)]
    IN [calls |-> closure, usage |-> UsageTurn(parsed.calls),
        gross |-> SumOf(LAMBDA c : c.gross, closure),
        signals |-> RefusalSignals(parsed.calls),
        starts |-> parsed.starts, failedEnds |-> parsed.failedEnds, errors |-> parsed.errors,
        audited |-> turn.audit - auditBefore, code |-> turn.code]

\* Mutant of IsFatal: pi's exit code is the verdict.
IsFatalByCode(row) == row.code # 0
IsFatal(row) ==
    \/ row.code # 0
    \/ \E i \in DOMAIN row.calls :
          row.calls[i].stop = "error" \/ row.calls[i].error \/ row.calls[i].total = 0

Recorded(row) == row.gross + row.usage["output"]     \* what PACER.record is told

(* phase_unit: the turns in order, up to the first that is fatal.            *)
Unit(turns, provider) ==
    LET run[n \in 0 .. Len(turns)] ==
          IF n = 0 THEN [rows |-> <<>>, audit |-> 0, failed |-> FALSE]
          ELSE LET before == run[n - 1]
                   row == Row(turns[n], before.audit, provider)
               IN IF before.failed THEN before
                  ELSE [rows |-> Append(before.rows, row), audit |-> turns[n].audit, failed |-> IsFatal(row)]
        end == run[Len(turns)]
    IN [failed |-> end.failed, rows |-> end.rows,
        paths |-> [starts |-> SumOf(LAMBDA r : r.starts, end.rows), bridge |-> end.audit]]

(* _standard_priced_usd: the spend the guard sees.                           *)
StandardPriced(provider, rows) ==
    SumOf(LAMBDA r : AtRates(StandardRates[provider], r.usage["input"], r.usage["output"],
                             r.usage["cacheRead"], r.usage["cacheWrite"], r.usage["cacheWrite1h"]), rows)

-----------------------------------------------------------------------------
(* TokenPacer: the tokens recorded at each moment of the last minute, and the *)
(* largest turn so far, which the next one is taken to cost.  Nothing is      *)
(* reserved when a thread passes.                                             *)
CONSTANTS Minute, TokensPerMinute, FirstPeak
NewPacer == [events |-> <<>>, peak |-> FirstPeak]
Window(pacer, now) == {at \in DOMAIN pacer.events : now - at < Minute}
InWindow(pacer, now) == MapThenSumSet(LAMBDA at : pacer.events[at], Window(pacer, now))
\* Mutant of MayPass: no room is kept for the turn about to start.
MayPassAnyway(pacer, now) == InWindow(pacer, now) <= TokensPerMinute
MayPass(pacer, now) ==
    TokensPerMinute <= 0 \/ InWindow(pacer, now) + pacer.peak <= TokensPerMinute
Record(pacer, now, tokens) ==
    IF TokensPerMinute <= 0 THEN pacer
    ELSE [events |-> [at \in Window(pacer, now) \cup {now} |->
                        (IF at \in DOMAIN pacer.events THEN pacer.events[at] ELSE 0)
                        + (IF at = now THEN tokens ELSE 0)],
          peak |-> Max({pacer.peak, tokens})]
=============================================================================
