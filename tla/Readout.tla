------------------------------- MODULE Readout ------------------------------
(* What the cells make of their unit files once they are measured: the checks *)
(* of the instrument and the conditions that hold a result back, the paired   *)
(* intervals, the break-even price of a cache write, and the verdicts each    *)
(* cell registered (analyze_e18.py, _e19, _e21, _e23, _e27, _e28).  A unit    *)
(* file is what the runner kept of an arm in a session; files and units are   *)
(* functions of <<arm, session>>.  Arithmetic is exact, in cents per million. *)
EXTENDS Integers, Sequences, FiniteSets, FiniteSetsExt, SequencesExt

CONSTANTS SessionLength,   \* turns of a session
          Matrix,          \* the resampling, drawn once and used for every quantity: rows of indices
          CacheMinPrefix,  \* shorter prefixes are not cached by the provider
          BudgetCap

Arms == {"karc-full", "rag-bm25"}
Legs == {"A", "B"}
Verdict(holds) == IF holds THEN "PASS" ELSE "FAIL"
Sum(f(_), s) ==
    LET sum[i \in 0 .. Len(s)] == IF i = 0 THEN 0 ELSE sum[i - 1] + f(s[i]) IN sum[Len(s)]

\* RATE_CARDS of the pi cells; E21 has the card of leg B.
RateCards ==
    [A |-> [input |-> 300, write5m |-> 375, write1h |-> 600, read |-> 30, output |-> 1500],
     B |-> [input |-> 20, write5m |-> 25, write1h |-> 25, read |-> 2, output |-> 120]]

-----------------------------------------------------------------------------
\* Intervals. A fraction is <<numerator, denominator>> with a positive denominator.
Less(a, b) == a[1] * b[2] < b[1] * a[2]
One == <<1, 1>>

(* percentile_ci: the draws in order, at floor(B * 2.5 %) and                 *)
(* ceil(B * 97.5 %) - 1, counted from zero.                                   *)
PercentileCI(draws) ==
    LET ordered == SortSeq(draws, Less)
        b == Len(draws)
    IN <<ordered[(25 * b) \div 1000 + 1], ordered[-((-975 * b) \div 1000)]>>

Drawn(f, row) == Sum(LAMBDA i : f[i], row)
Whole(f) == Sum(LAMBDA x : x, f)

PairedMean(f) ==
    LET ci == PercentileCI([r \in DOMAIN Matrix |-> <<Drawn(f, Matrix[r]), Len(Matrix[r])>>])
    IN [ci |-> ci, excludesZero |-> ci[1][1] > 0 \/ ci[2][1] < 0]

\* A resample whose denominator vanishes is left out; a total that vanishes has no interval.
RatioOfSums(num, den) ==
    LET usable == SelectSeq(Matrix, LAMBDA row : Drawn(den, row) # 0)
        ci == PercentileCI([r \in DOMAIN usable |-> <<Drawn(num, usable[r]), Drawn(den, usable[r])>>])
    IN IF Whole(den) = 0 THEN [degenerate |-> TRUE]
       ELSE [degenerate |-> FALSE, point |-> <<Whole(num), Whole(den)>>, ci |-> ci,
             above |-> Less(One, ci[1]), below |-> Less(ci[2], One)]

-----------------------------------------------------------------------------
\* Files that are not there are passed over.
LoadUnits(files, window, arms) ==
    [k \in DOMAIN files \cap (arms \X {window[i] : i \in DOMAIN window}) |-> files[k]]

CallsOf(unit) == FlattenSeq([n \in DOMAIN unit.rows |-> unit.rows[n].calls])
AllCalls(units) == UNION {ToSet(CallsOf(units[k])) : k \in DOMAIN units}

(* session_store_usage: the last of pi's session files whose name fits; its   *)
(* assistant messages that report usage.  A missing key reads None: here -1.  *)
Compared == {"input", "output", "cacheRead", "cacheWrite", "cacheWrite1h"}
Get(usage, key, default) == IF key \in DOMAIN usage THEN usage[key] ELSE default
SessionStoreUsage(found) ==
    IF found = <<>> THEN <<>>
    ELSE LET spoken == SelectSeq(Last(found), LAMBDA e : e.role = "assistant" /\ e.reports)
         IN <<[i \in DOMAIN spoken |-> [usage |-> [key \in Compared |-> Get(spoken[i].usage, key, -1)],
                                        stop |-> spoken[i].stop]]>>

\* Standard output has turned a missing bucket into zero, all but the hour's writes.
StdoutUsage(call) ==
    [usage |-> [key \in Compared |-> Get(call.usage, key, IF key = "cacheWrite1h" THEN -1 ELSE 0)],
     stop |-> call.stop]
StoreAgrees(unit, found) ==
    LET calls == CallsOf(unit)
    IN SessionStoreUsage(found) = <<[i \in DOMAIN calls |-> StdoutUsage(calls[i])]>>

\* The tool calls of a unit, seen by the harness, the bridge and the server's database.
PathsAgree(arm, paths) ==
    IF arm = "karc-full" THEN paths.starts = paths.bridge /\ paths.db = <<paths.bridge>>
    ELSE paths.starts = 0 /\ paths.bridge = 0 /\ paths.db = <<>>

Refused(row) == row.signals.outputZero \/ row.signals.errorMessage \/ row.signals.noContent
                \/ row.signals.rawRefusal \/ row.signals.stopError

\* The first call of a unit that could have been cached and read nothing wrote nothing either.
FirstEligibleCold(unit) == SelectSeq(CallsOf(unit), LAMBDA c : c.cold /\ c.eligible)
ColdUnwritten(unit) == FirstEligibleCold(unit) # <<>> /\ Head(FirstEligibleCold(unit)).write = 0
Dead(call) == call.eligible /\ call.read = 0 /\ call.write = 0
\* Served an entry that an execution outside this dataset wrote.
ServedElsewhere(call) == call.write = 0 /\ call.read > 0

TurnsIn(units) == MapThenSumSet(LAMBDA k : Len(units[k].rows), DOMAIN units)
TurnsExpected(window) == Len(window) * Cardinality(Arms) * SessionLength
\* More than a tenth of the turns is missing.
Shortfall(units, window) == 10 * TurnsIn(units) < 9 * TurnsExpected(window)

PricedUsd(card, u, w5, w1, r, o) ==
    u * card.input + w5 * card.write5m + w1 * card.write1h + r * card.read + o * card.output
FiveMinute(usage) == Max({0, usage["cacheWrite"] - usage["cacheWrite1h"]})
PricedTurn(card, usage) ==
    PricedUsd(card, usage["input"], FiveMinute(usage), usage["cacheWrite1h"], usage["cacheRead"], usage["output"])
PricedTotal(card, units) ==
    MapThenSumSet(LAMBDA k : Sum(LAMBDA row : PricedTurn(card, row.usage), units[k].rows), DOMAIN units)
PiTotal(units) ==
    MapThenSumSet(LAMBDA k : Sum(LAMBDA c : c.modelled, CallsOf(units[k])), DOMAIN units)

-----------------------------------------------------------------------------
(* crosscheck: the conditions a cell registered, each fired or not.  H4hour   *)
(* is E18's and E19's H4, H4cold their H4'' and the later cells' H4.          *)
Fired(condition) == {h \in DOMAIN condition : condition[h]}

Instrument(units, window) ==
    [H1 |-> \E k \in DOMAIN units : ~PathsAgree(k[1], units[k].paths),
     H2 |-> \E k \in DOMAIN units : \E n \in DOMAIN units[k].rows : Refused(units[k].rows[n]),
     H3 |-> \E c \in AllCalls(units) : ~c.closes,
     H4cold |-> \E k \in DOMAIN units : ColdUnwritten(units[k]),
     H5 |-> Shortfall(units, window),
     H8 |-> \E c \in AllCalls(units) : Dead(c)]

Fired18(leg, units, window) ==
    Fired(Instrument(units, window)
          @@ [H4hour |-> leg = "A" /\ \E c \in AllCalls(units) : Get(c.usage, "cacheWrite1h", 0) = 0])

(* The roots the code compares differ by construction; what can collide is    *)
(* the prefix of pi's session id.                                             *)
Misnamed(units) == \E k \in DOMAIN units : ~units[k].named

Fired19(leg, units, window, warm, steady) ==
    Fired18(leg, units, window)
    \cup Fired([H10 |-> steady # <<>> /\ Head(steady).fired,
                H11 |-> \E c \in AllCalls(units) : ServedElsewhere(c),
                H12 |-> Misnamed(units) \/ Misnamed(warm)])

\* A build's own conditions are known when its report is there.
Fired23(units, window, steady, build) ==
    Fired(Instrument(units, window)
          @@ [H9 |-> \E c \in AllCalls(units) : ServedElsewhere(c),
              H10 |-> Misnamed(units),
              H11 |-> steady.fired,
              H12 |-> build # <<>> /\ Head(build).goldMissing,
              H13 |-> build # <<>> /\ Head(build).degenerate])

Fired27(units, window, steady, build) ==
    Fired23(units, window, steady, build)
    \cup Fired([H6 |-> PricedTotal(RateCards.B, units) > BudgetCap,
                H14 |-> build # <<>> /\ Head(build).axisMoved])

(* The report a crosscheck writes, whatever fired.                            *)
Report(card, units, fired) ==
    [turns |-> TurnsIn(units),
     short |-> {k \in DOMAIN units : Len(units[k].rows) # SessionLength},
     misread |-> [arm \in Arms |-> MapThenSumSet(
                    LAMBDA k : Sum(LAMBDA c : IF ServedElsewhere(c) THEN c.read ELSE 0, CallsOf(units[k])),
                    {k \in DOMAIN units : k[1] = arm})],
     cost |-> PricedTotal(card, units), pi |-> PiTotal(units), fired |-> fired]
Crosscheck18(leg, units, window) == Report(RateCards[leg], units, Fired18(leg, units, window))
Crosscheck19(leg, units, window, warm, steady) ==
    Report(RateCards[leg], units, Fired19(leg, units, window, warm, steady))
    @@ [warm |-> PricedTotal(RateCards[leg], warm),
        total |-> PricedTotal(RateCards[leg], units) + PricedTotal(RateCards[leg], warm)]
Crosscheck23(units, window, steady, build) ==
    Report(RateCards.B, units, Fired23(units, window, steady, build))
Crosscheck27(units, window, steady, build) ==
    Report(RateCards.B, units, Fired27(units, window, steady, build))

-----------------------------------------------------------------------------
\* per_session_components: what the turns of a unit add up to.
ComponentsOf(row) ==
    [uncached |-> row.usage["input"], creation |-> row.usage["cacheWrite"],
     creation1h |-> row.usage["cacheWrite1h"], creation5m |-> FiveMinute(row.usage),
     read |-> row.usage["cacheRead"], output |-> row.usage["output"], gross |-> row.gross,
     calls |-> Len(row.calls), tools |-> row.starts, turns |-> 1]
Components(unit) ==
    [key \in {"uncached", "creation", "creation1h", "creation5m", "read", "output", "gross",
              "calls", "tools", "turns"} |-> Sum(LAMBDA row : ComponentsOf(row)[key], unit.rows)]
Difference(f, g) == [i \in DOMAIN f |-> f[i] - g[i]]
\* Of each arm the components, session by session.
BySession(units, window) ==
    [arm \in Arms |-> [i \in DOMAIN window |-> Components(units[<<arm, window[i]>>])]]
Of(sessions, arm, key) == [i \in DOMAIN sessions[arm] |-> sessions[arm][i][key]]
PricedSessions(card, components) ==
    [i \in DOMAIN components |->
       PricedUsd(card, components[i].uncached, components[i].creation5m, components[i].creation1h,
                 components[i].read, components[i].output)]

Complete(units, window) == DOMAIN units = Arms \X {window[i] : i \in DOMAIN window}

(* The multiple of the input price at which a written token makes the arms    *)
(* cost the same: dU + mu_w * dW + mu_r * dR + mu_o * dO = 0, none if dW = 0.  *)
Threshold(card, d) ==
    LET rest == d.uncached * card.input + d.read * card.read + d.output * card.output
    IN IF d.creation = 0 THEN <<>>
       ELSE IF d.creation < 0 THEN <<rest, -d.creation * card.input>>
       ELSE <<-rest, d.creation * card.input>>
WriteMultiple(card, leg) == <<IF leg = "A" THEN card.write1h ELSE card.write5m, card.input>>
Predicted(stats) ==
    IF stats.threshold = <<>> \/ stats.delta.creation >= 0 THEN "none"
    ELSE IF Less(stats.threshold, stats.observed) THEN "reversal" ELSE "no reversal"

(* leg_statistics, statistics_block: what the two arms' sessions say paired.  *)
Contrast(card, multiple, gross, priced, delta) ==
    [complete |-> TRUE, delta |-> delta,
     gross |-> RatioOfSums(gross["karc-full"], gross["rag-bm25"]),
     priced |-> RatioOfSums(priced["karc-full"], priced["rag-bm25"]),
     usd |-> PairedMean(Difference(priced["karc-full"], priced["rag-bm25"])),
     totals |-> [arm \in Arms |-> Whole(priced[arm])],
     sessions |-> [gross |-> gross, priced |-> priced],
     threshold |-> Threshold(card, delta), observed |-> multiple]
Statistics(card, multiple, sessions) ==
    Contrast(card, multiple, [arm \in Arms |-> Of(sessions, arm, "gross")],
             [arm \in Arms |-> PricedSessions(card, sessions[arm])],
             [key \in {"uncached", "creation", "read", "output", "gross", "calls"} |->
                Whole(Of(sessions, "karc-full", key)) - Whole(Of(sessions, "rag-bm25", key))])

LegStatistics(leg, units, window) ==
    IF ~Complete(units, window) THEN [complete |-> FALSE]
    ELSE Statistics(RateCards[leg], WriteMultiple(RateCards[leg], leg), BySession(units, window))

ComponentCI(sessions, keys) ==
    [key \in keys |-> PairedMean(Difference(Of(sessions, "karc-full", key), Of(sessions, "rag-bm25", key)))]
\* rho_statistics: E19's, with an interval for each component.
RhoStatistics(units, window) ==
    LegStatistics("B", units, window)
    @@ IF Complete(units, window)
       THEN [componentCI |-> ComponentCI(BySession(units, window), {"read", "creation", "uncached", "output"})]
       ELSE <<>>

-----------------------------------------------------------------------------
(* The verdicts.  What fired is carried beside them and holds none of them    *)
(* back; a leg whose window is not whole is not judged.                       *)
Signature(stats) == stats.delta.read > 0 /\ stats.delta.creation < 0
PricedBelow(stats) == stats.priced.below /\ stats.usd.excludesZero
NotRun == [status |-> "not run"]

Judge18(leg, stats, check) ==
    IF ~stats.complete THEN NotRun
    ELSE [status |-> "judged", p1 |-> Verdict(stats.gross.above), component |-> Verdict(Signature(stats)),
          p2 |-> IF leg = "B" THEN Verdict(stats.priced.above)                     \* P4
                 ELSE IF ~stats.gross.above THEN "NOT JUDGED" ELSE Verdict(PricedBelow(stats)),
          fired |-> check.fired]

Judge19(stats, check) ==
    IF ~stats.complete THEN NotRun
    ELSE [status |-> "judged", q1 |-> Verdict(stats.gross.above), q2 |-> Verdict(PricedBelow(stats)),
          q3 |-> Verdict(Signature(stats)),
          reversal |-> IF stats.gross.above /\ PricedBelow(stats) THEN "ESTABLISHED" ELSE "NOT ESTABLISHED",
          fired |-> check.fired]

\* E23 predicts the signature alone, and asks it of both densities.
Judge23(stats) ==
    LET s1 == [tag \in DOMAIN stats |-> IF stats[tag].complete THEN Verdict(Signature(stats[tag])) ELSE "NOT RUN"]
    IN [s1 |-> s1, overall |-> IF \A tag \in DOMAIN s1 : s1[tag] = "PASS" THEN "HELD" ELSE "NOT HELD"]

Judge28(stats, check) ==
    [b1 |-> [above |-> stats.gross.above, below |-> stats.gross.below],
     b2 |-> [above |-> stats.priced.above, below |-> stats.priced.below],
     b3 |-> Verdict(Signature(stats)),
     b4 |-> IF stats.threshold = <<>> THEN "none"
            ELSE IF Less(stats.threshold, stats.observed) THEN "exceeds" ELSE "does not exceed",
     fired |-> check.fired]

Raises(stats) == stats.complete /\ (stats.gross.degenerate \/ stats.priced.degenerate)

-----------------------------------------------------------------------------
(* main: what a cell's analysis is made of, leg by leg or cell by cell.  A leg *)
(* without a unit file is neither checked nor judged nor paid for.            *)
None == <<>>
Reading(stats, check, judged) == [stats |-> stats, check |-> check, judged |-> judged]
\* A verdict reads an interval; the script raises where there is none, and writes no analysis.
Written(analysis) == \A leg \in DOMAIN analysis : ~Raises(analysis[leg].stats)
Budget(costs) == [total |-> costs, within |-> costs <= BudgetCap]
VerdictOn(analysis, leg) == IF leg \in DOMAIN analysis THEN analysis[leg].judged ELSE NotRun

Reading18(leg, stats, check) == Reading(stats, check, Judge18(leg, stats, check))
Leg18(leg, units, window) == Reading18(leg, LegStatistics(leg, units, window), Crosscheck18(leg, units, window))
Main18(files, window) ==
    [leg \in {leg \in Legs : LoadUnits(files[leg], window, Arms) # None} |->
       Leg18(leg, LoadUnits(files[leg], window, Arms), window)]
Budget18(analysis) == Budget(MapThenSumSet(LAMBDA leg : analysis[leg].check.cost, DOMAIN analysis))

\* The warm-up is paid for and enters no verdict.
Reading19(stats, check) == Reading(stats, check, Judge19(stats, check))
Leg19(leg, units, window, warm, steady) ==
    Reading19(LegStatistics(leg, units, window), Crosscheck19(leg, units, window, warm, steady))
Main19(files, warmup, window, steady) ==
    [leg \in {leg \in Legs : LoadUnits(files[leg], window, Arms) # None} |->
       Leg19(leg, LoadUnits(files[leg], window, Arms), window,
             LoadUnits(files[leg], warmup, {"karc-full"}), steady[leg])]
Budget19(analysis) == Budget(MapThenSumSet(LAMBDA leg : analysis[leg].check.total, DOMAIN analysis))

(* E23 and E27 measure where the steady state was found, and read nothing     *)
(* where it was not; E27 writes no verdict on a window that is not whole.     *)
Measurable(steady) ==
    steady # None /\ Head(steady).reached /\ Len(Head(steady).window) = Len(Head(Matrix))

Reading23(stats, checks) == [stats |-> stats, judged |-> Judge23(stats), checks |-> checks]
Main23(files, steady, build) ==
    IF ~\A tag \in DOMAIN files : Measurable(steady[tag]) THEN None
    ELSE LET window(tag) == Head(steady[tag]).window
             units == [tag \in DOMAIN files |-> LoadUnits(files[tag], window(tag), Arms)]
         IN <<Reading23([tag \in DOMAIN files |-> RhoStatistics(units[tag], window(tag))],
                        [tag \in {tag \in DOMAIN files : units[tag] # None} |->
                           Crosscheck23(units[tag], window(tag), Head(steady[tag]), build)])>>

Reading27(stats, check) ==
    IF ~stats.complete \/ Raises(stats) THEN None
    ELSE <<Reading(stats, check, Judge28(stats, check) @@ [s1 |-> Judge23([only |-> stats]).s1.only])>>
Read27(units, window, steady, build) ==
    IF units = None THEN None
    ELSE Reading27(RhoStatistics(units, window), Crosscheck27(units, window, steady, build))
Main27(files, steady, build) ==
    IF ~Measurable(steady) THEN None
    ELSE Read27(LoadUnits(files, Head(steady).window, Arms), Head(steady).window, Head(steady), build)

-----------------------------------------------------------------------------
(* E28: four cells on E18's functions, each with its own leg.  A cell that is *)
(* not whole stops the analysis at the intervals of its components.           *)
LegOf == [o025 |-> "B", o10 |-> "B", o20 |-> "B", a10 |-> "A"]
PercentOf == [o025 |-> 25, o10 |-> 100, o20 |-> 200, a10 |-> 100]     \* tenths of a percent

\* Every kept unit has all its turns; rows are in order of position.
CreationAt(units, arm, position) ==
    MapThenSumSet(LAMBDA k : units[k].rows[position].usage["cacheWrite"], {k \in DOMAIN units : k[1] = arm})
\* More than twice the mean of the positions after it.
HeadHeavy(units, arm) ==
    (SessionLength - 1) * CreationAt(units, arm, 1)
        > 2 * MapThenSumSet(LAMBDA p : CreationAt(units, arm, p), 2 .. SessionLength)
MechanismTable(units) == [arm \in Arms |-> HeadHeavy(units, arm)]

\* The sweep in order of budget, with the control; what each question reads, if its cell was judged.
BatchQuestions(judged, controls) ==
    LET point(tag) == <<PercentOf[tag], tag>>
    IN [sweep |-> SortSeq(controls \o SetToSeq({point(tag) : tag \in DOMAIN judged \ {"a10"}}),
                          LAMBDA a, b : a[1] < b[1]),
        at20 |-> IF "o20" \in DOMAIN judged THEN <<judged["o20"].b1>> ELSE None,
        at025 |-> IF "o025" \in DOMAIN judged THEN <<judged["o025"].b2>> ELSE None,
        windows |-> IF "o10" \in DOMAIN judged THEN <<judged["o10"]>> ELSE None]

Reading28(stats, check, units, window) ==
    IF ~stats.complete THEN Reading(stats, check, NotRun)
    ELSE Reading(stats, check, Judge28(stats, check))
         @@ [mechanism |-> MechanismTable(units),
             intervals |-> ComponentCI(BySession(units, window), {"read", "creation", "uncached", "output", "gross"})]
Cell28(tag, units, window) ==
    Reading28(LegStatistics(LegOf[tag], units, window), Crosscheck18(LegOf[tag], units, window), units, window)
Main28(files, window) ==
    [tag \in {tag \in DOMAIN LegOf : LoadUnits(files[tag], window, Arms) # None} |->
       Cell28(tag, LoadUnits(files[tag], window, Arms), window)]
Written28(analysis) == Written(analysis) /\ \A tag \in DOMAIN analysis : analysis[tag].stats.complete
JudgedCells(analysis) == [tag \in DOMAIN analysis |-> analysis[tag].judged]
\* What was charged and what the judged rates make of it, both within the cap.
Budget28(analysis) ==
    LET standard == MapThenSumSet(LAMBDA tag : analysis[tag].check.cost, DOMAIN analysis)
        charged == MapThenSumSet(LAMBDA tag : analysis[tag].check.pi, DOMAIN analysis)
    IN [standard |-> standard, charged |-> charged, within |-> charged <= BudgetCap /\ standard <= BudgetCap]

-----------------------------------------------------------------------------
(* E21.  A row has the difference of two of the thread's totals and the       *)
(* requests of its slice of the rollout; input, which Codex reports for each, *)
(* is the whole prefix if the cached and written tokens lie within it.        *)
Within(u) == u.cached + u.write <= u.input
Beyond(u) == u.cached > u.input

InclusiveReading(usages) == usages # <<>> /\ \A i \in DOMAIN usages : Within(usages[i]) /\ ~Beyond(usages[i])
ExclusiveReading(usages) == usages # <<>> /\ \A i \in DOMAIN usages : Beyond(usages[i])
RowsOf(units) == LET keys == SetToSeq(DOMAIN units) IN FlattenSeq([i \in DOMAIN keys |-> units[keys[i]].rows])
Turns21(units) == LET rows == RowsOf(units) IN [i \in DOMAIN rows |-> rows[i].delta]
Requests21(units) == LET rows == RowsOf(units) IN FlattenSeq([i \in DOMAIN rows |-> rows[i].requests])

InclusionProbe(units) ==
    IF InclusiveReading(Requests21(units)) /\ InclusiveReading(Turns21(units)) THEN "inclusive"
    ELSE IF ExclusiveReading(Requests21(units)) THEN "exclusive" ELSE "undecided"

\* call_accounting of the runner; the fresh tokens are what is left of the input.
Fresh(u) == u.input - u.cached - u.write
CallOf(u) == [eligible |-> u.input >= CacheMinPrefix, cold |-> u.cached = 0, write |-> u.write,
              dead |-> u.cached = 0 /\ u.write = 0, suspect |-> u.write = 0 /\ u.cached > 0]
CallsOf21(unit) == LET asked == FlattenSeq([n \in DOMAIN unit.rows |-> unit.rows[n].requests])
                   IN [i \in DOMAIN asked |-> CallOf(asked[i])]
EveryCall21(units) == UNION {ToSet(CallsOf21(units[k])) : k \in DOMAIN units}
Monotone(u) == \A key \in DOMAIN u : u[key] >= 0

\* Codex' events, the server's database and the guard's log.
PathsAgree21(arm, paths) ==
    IF arm = "karc-full" THEN paths.db = <<paths.items>> /\ paths.guard = paths.items
    ELSE paths.items = 0 /\ paths.guard = 0 /\ paths.db = <<>>

ColdUnwritten21(unit) ==
    LET cold == SelectSeq(CallsOf21(unit), LAMBDA c : c.cold /\ c.eligible) IN cold # <<>> /\ Head(cold).write = 0

Priced21(u) == PricedUsd(RateCards.B, Fresh(u), u.write, 0, u.cached, u.output)
Cost21(units) == Sum(LAMBDA u : Priced21(u), Turns21(units))
AddUp(usages) == [key \in {"input", "cached", "write", "output"} |-> Sum(LAMBDA u : u[key], usages)]

(* The namespace holds if every tree lies under the cell's root, which is     *)
(* none of the earlier cells', and no two units share a thread.               *)
SharedThread(units, warm) ==
    LET all == {<<"m", k>> : k \in DOMAIN units} \cup {<<"w", k>> : k \in DOMAIN warm}
        of(x) == IF x[1] = "m" THEN units[x[2]] ELSE warm[x[2]]
    IN Cardinality({of(x).thread : x \in all}) # Cardinality(all) \/ \E x \in all : ~of(x).placed

(* What is not known - no proof of the route, no times of the user's home, no *)
(* report of the warm-up - fires nothing.                                     *)
Fired21(units, warm, window, steady, proof, homes) ==
    Fired([H1 |-> \E k \in DOMAIN units : ~PathsAgree21(k[1], units[k].paths),
           H2 |-> \E k \in DOMAIN units : \E n \in DOMAIN units[k].rows : units[k].rows[n].refused,
           H3 |-> \E u \in ToSet(Turns21(units)) : ~Monotone(u),
           H4 |-> \E k \in DOMAIN units : ColdUnwritten21(units[k]),
           H5 |-> Shortfall(units, window),
           H6 |-> Cost21(units) + Cost21(warm) > BudgetCap,
           H7 |-> Len(homes) = 2 /\ homes[1] # homes[2],
           H8 |-> \E c \in EveryCall21(units) : c.eligible /\ c.dead,
           H9 |-> \E c \in EveryCall21(units) : c.eligible /\ c.suspect,
           H10 |-> SharedThread(units, warm),
           H11 |-> proof # None /\ ~Head(proof),
           H12 |-> steady # None /\ Head(steady).fired])

Crosscheck21(units, warm, window, steady, proof, homes) ==
    LET rows == RowsOf(units)
    IN [turns |-> Len(rows), short |-> {k \in DOMAIN units : Len(units[k].rows) # SessionLength},
        inclusion |-> InclusionProbe(units),
        agreeing |-> Len(SelectSeq(rows, LAMBDA r : r.agrees)),
        cost |-> Cost21(units), oneShot |-> Priced21(AddUp(Turns21(units))), warm |-> Cost21(warm),
        fired |-> Fired21(units, warm, window, steady, proof, homes)]

Totals21(unit) == AddUp([n \in DOMAIN unit.rows |-> unit.rows[n].delta])
Components21(unit) ==
    LET u == Totals21(unit)
    IN [uncached |-> Fresh(u), creation |-> u.write, creation5m |-> u.write, creation1h |-> 0,
        read |-> u.cached, output |-> u.output, gross |-> u.input,
        calls |-> Sum(LAMBDA row : Len(row.requests), unit.rows), tools |-> Sum(LAMBDA row : row.tools, unit.rows)]
Statistics21(units, window) ==
    IF ~Complete(units, window) THEN [complete |-> FALSE]
    ELSE Statistics(RateCards.B, WriteMultiple(RateCards.B, "B"),
                    [arm \in Arms |-> [i \in DOMAIN window |-> Components21(units[<<arm, window[i]>>])]])

\* R3 asks for a threshold below the card, whichever arm writes more.
Judge21(stats, check) ==
    IF ~stats.complete THEN NotRun
    ELSE [status |-> "judged", r1 |-> Verdict(Signature(stats)), r2 |-> Verdict(PricedBelow(stats)),
          r3 |-> Verdict(stats.threshold # None /\ Less(stats.threshold, stats.observed)),
          inclusion |-> check.inclusion, fired |-> check.fired]

(* What of the read tokens' difference is the harness's own prompt, at least: *)
(* each further request carries it once more.                                 *)
FixedCost(stats, prompt) ==
    IF ~stats.complete \/ prompt = None THEN None
    ELSE <<[extra |-> stats.delta.calls, floor |-> stats.delta.calls * Head(prompt),
            share |-> IF stats.delta.read = 0 THEN None ELSE <<stats.delta.calls * Head(prompt), stats.delta.read>>]>>

\* descriptive_window_profile of E19 and E21: the sessions by themselves.
WindowProfile(sessions) ==
    LET above(f, g) == {i \in DOMAIN f : f[i] > g[i]}
    IN [grossAbove |-> above(sessions.gross["karc-full"], sessions.gross["rag-bm25"]),
        pricedBelow |-> above(sessions.priced["rag-bm25"], sessions.priced["karc-full"])]

Reading21(stats, check, prompt) ==
    IF Raises(stats) THEN None
    ELSE <<Reading(stats, check, Judge21(stats, check))
           @@ [profile |-> IF stats.complete THEN WindowProfile(stats.sessions) ELSE None,
               fixed |-> FixedCost(stats, prompt)]>>
Main21(files, warmup, window, steady, proof, homes, prompt) ==
    LET units == LoadUnits(files, window, Arms)
        warm == LoadUnits(files, warmup, {"karc-full"})
    IN IF units = None THEN None
       ELSE Reading21(Statistics21(units, window),
                      Crosscheck21(units, warm, window, steady, proof, homes), prompt)
=============================================================================
