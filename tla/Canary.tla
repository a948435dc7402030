------------------------------- MODULE Canary -------------------------------
(* The two canaries of E5: which turns of the log count, what they say, the   *)
(* contract frozen from the smoke test and the verdict on the canary          *)
(* (src/src/karc/bench/e5_cache_canary.py for G1, e5_chunk_canary.py for G2). *)
(*                                                                            *)
(* A row of the log is a record [arm, session, attempt, position, class,      *)
(* fresh, gross, cached, reuse, passed, policyHit, prefixHit, search, get,    *)
(* native, denied]; the session stands for its schedule seed and id.  Savings *)
(* and rates are per cent, rounded down.  A bootstrap bound is what the       *)
(* constant Lower makes of a sequence of per-session values.                  *)
EXTENDS Integers, Sequences, FiniteSets, FiniteSetsExt, SequencesExt

CONSTANTS SessionLength,      \* SESSION_LENGTH
          Lower(_), Deviation(_)   \* bootstrap_lower, statistics.stdev

Arms == {"karc-full", "rag-bm25"}
None == "None"

(* _latest_complete: of each arm and session, the rows of the last attempt    *)
(* with exactly one answered row for every position.  As indexes of the log.  *)
Answered(row) == row.class \in {"ok", "task"}
AttemptRows(rows, arm, session, attempt) ==
  {i \in DOMAIN rows : /\ rows[i].arm = arm /\ rows[i].session = session
                       /\ rows[i].attempt = attempt /\ Answered(rows[i])}
WholeAttempts(rows, arm, session) ==
  {a \in {rows[i].attempt : i \in DOMAIN rows} :
     LET unit == AttemptRows(rows, arm, session, a)
     IN /\ Cardinality(unit) = SessionLength
        /\ {rows[i].position : i \in unit} = 1 .. SessionLength}
\* Mutant of LatestComplete: the last attempt there is.
LatestStarted(rows, arm, session) ==
  LET started == {rows[i].attempt : i \in {j \in DOMAIN rows :
                    rows[j].arm = arm /\ rows[j].session = session /\ Answered(rows[j])}}
  IN IF started = {} THEN {} ELSE AttemptRows(rows, arm, session, Max(started))
LatestComplete(rows, arm, session) ==
  LET whole == WholeAttempts(rows, arm, session)
  IN IF whole = {} THEN {} ELSE AttemptRows(rows, arm, session, Max(whole))

SessionsIn(rows) == {rows[i].session : i \in DOMAIN rows}
ValidRows(rows) == UNION {LatestComplete(rows, a, s) : a \in Arms, s \in SessionsIn(rows)}
Paired(rows) == {s \in SessionsIn(rows) : \A a \in Arms : LatestComplete(rows, a, s) # {}}

Total(rows, unit, field) == MapThenSumSet(LAMBDA i : rows[i][field], unit)
CountOf(unit, P(_)) == Cardinality({i \in unit : P(i)})
PerCent(part, whole) == IF whole = 0 THEN None ELSE (100 * part) \div whole
Mean(values) == IF values = <<>> THEN None
                ELSE FoldLeft(LAMBDA a, b : a + b, 0, values) \div Len(values)

(* One paired session: 1 - (K-ARC's fresh tokens per task / BM25's), over the *)
(* reuse turns and over all turns, and G2's difference in correct answers.    *)
Saving(rows, karc, rag, field) ==
  100 - (100 * Total(rows, karc, field) * Cardinality(rag))
        \div (Total(rows, rag, field) * Cardinality(karc))
PairMetrics(rows, session) ==
  LET karc == LatestComplete(rows, "karc-full", session)
      rag == LatestComplete(rows, "rag-bm25", session)
      reused(unit) == {i \in unit : rows[i].reuse}
      correct(unit) == CountOf(unit, LAMBDA i : rows[i].passed)
  IN [session |-> session,
      reuse |-> Saving(rows, reused(karc), reused(rag), "fresh"),
      amortized |-> Saving(rows, karc, rag, "fresh"),
      accuracy |-> (100 * (correct(karc) - correct(rag))) \div SessionLength]

\* lower is the bound, where there is one
Statistic(values) ==
  [point |-> Mean(values), lower |-> IF values = <<>> THEN {} ELSE {Lower(values)},
   sd |-> IF Len(values) > 1 THEN Deviation(values) ELSE 0]

(* How the K-ARC arm was used.  A call of the MCP server is adoption of the   *)
(* channel; a native attempt is a denied read of a managed file.              *)
Operations(rows) ==
  LET karc == {i \in ValidRows(rows) : rows[i].arm = "karc-full"}
      misses == {i \in karc : ~rows[i].policyHit}
      calls == Total(rows, karc, "search") + Total(rows, karc, "get")
      native == Total(rows, karc, "native")
  IN [residentHits |-> PerCent(CountOf(karc, LAMBDA i : rows[i].policyHit), Cardinality(karc)),
      prefixHits |-> PerCent(CountOf(karc, LAMBDA i : rows[i].prefixHit), Cardinality(karc)),
      getOnMiss |-> PerCent(CountOf(misses, LAMBDA i : rows[i].get > 0), Cardinality(misses)),
      taskAdoption |-> PerCent(CountOf(karc, LAMBDA i : rows[i].search + rows[i].get > 0),
                               Cardinality(karc)),
      adoption |-> PerCent(calls, calls + native),
      denied |-> Total(rows, karc, "denied")]

(* Cost of an arm over all its valid rows, or over those of one position.     *)
ArmSummary(rows, arm, positions) ==
  LET unit == {i \in ValidRows(rows) : rows[i].arm = arm /\ rows[i].position \in positions}
      mean(field) == IF unit = {} THEN None ELSE Total(rows, unit, field) \div Cardinality(unit)
      gross == Total(rows, unit, "gross")
  IN [turns |-> Cardinality(unit), fresh |-> mean("fresh"), gross |-> mean("gross"),
      cached |-> mean("cached"),
      cacheHits |-> IF gross = 0 THEN 0 ELSE (100 * Total(rows, unit, "cached")) \div gross,
      correct |-> PerCent(CountOf(unit, LAMBDA i : rows[i].passed), Cardinality(unit))]

Summarize(rows, expected) ==
  LET pairs == [k \in 1 .. Cardinality(Paired(rows)) |->
                  PairMetrics(rows, SetToSortSeq(Paired(rows), <)[k])]
      values(field) == [k \in DOMAIN pairs |-> pairs[k][field]]
      rag == {i \in ValidRows(rows) : rows[i].arm = "rag-bm25"}
  IN [complete |-> Len(pairs) = expected, pairs |-> pairs,
      turns |-> Cardinality(ValidRows(rows)),
      reuse |-> Statistic(values("reuse")), amortized |-> Statistic(values("amortized")),
      accuracy |-> Statistic(values("accuracy")),
      byArm |-> [a \in Arms |-> ArmSummary(rows, a, 1 .. SessionLength)],
      byPosition |-> [a \in Arms, p \in 1 .. SessionLength |-> ArmSummary(rows, a, {p})],
      operations |-> Operations(rows),
      ragCalls |-> Total(rows, rag, "search") + Total(rows, rag, "get")]

-----------------------------------------------------------------------------
(* choose_canary_freeze.  Required is ceil((2.486 sd / distance)^2); 6183 is  *)
(* the square of Z_ALPHA + Z_POWER in thousandths.  Distances are per cent,   *)
(* and never below 2.5, so both are doubled.                                  *)
SessionChoices == {8, 12}
Margins == <<5, 10>>
Abs(x) == IF x < 0 THEN -x ELSE x
Required(sd, distance) ==
  LET d == Max({2 * Abs(distance), 5})
      top == 6183 * (2 * sd) * (2 * sd)
      bottom == 1000 * d * d
  IN (top + bottom - 1) \div bottom

CostMargin(point) == IF point >= 2 * Margins[2] THEN Margins[2] ELSE Margins[1]
AccuracyMargin(sd) ==
  LET feasible == {i \in DOMAIN Margins : Required(sd, Margins[i]) <= Max(SessionChoices)}
  IN IF feasible = {} THEN Margins[2] ELSE Margins[Min(feasible)]

SizeOf(uncapped) ==
  LET choices == {c \in SessionChoices : c >= uncapped}
      sessions == IF choices = {} THEN Max(SessionChoices) ELSE Min(choices)
      planned == sessions * Cardinality(Arms) * SessionLength
  IN [sessions |-> sessions, capBinding |-> uncapped > Max(SessionChoices),
      planned |-> planned, attemptCap |-> planned + Max({16, planned \div 4})]
\* Mutant of Size: the easiest conjunct decides.
SizeForEasiest(needs) == SizeOf(Max({Min(needs), Min(SessionChoices)}))
Size(needs) == SizeOf(Max(needs \cup {Min(SessionChoices)}))

CostNeeds(smoke, margin) ==
  {Required(smoke.reuse.sd, smoke.reuse.point - margin),
   Required(smoke.amortized.sd, smoke.amortized.point)}

(* G1's freeze, and G2's, which adds the accuracy conjunct.                   *)
ChooseCanaryFreeze(smoke) ==
  LET margin == CostMargin(smoke.reuse.point)
  IN [margin |-> margin, size |-> Size(CostNeeds(smoke, margin))]
ChooseChunkFreeze(smoke) ==
  LET margin == CostMargin(smoke.reuse.point)
      accuracy == AccuracyMargin(smoke.accuracy.sd)
  IN [margin |-> margin, accuracyMargin |-> accuracy,
      size |-> Size(CostNeeds(smoke, margin) \cup {Required(smoke.accuracy.sd, accuracy)})]
MayFreeze(smoke) == smoke.complete

(* canary_verdict; audit is the retrieval audit of the bundle.                *)
AtLeast(bound, margin) == \E b \in bound : b >= margin
StatusOf(complete, conjuncts) ==
  IF ~complete THEN "INCOMPLETE" ELSE IF \A c \in conjuncts : c THEN "CONFIRM" ELSE "REFUTE"
StrongBaseline(audit) == audit.contained = 100 /\ audit.utilization >= 80 /\ audit.rankOrder
CanaryVerdict(summary, freeze, audit) ==
  [status |-> StatusOf(summary.complete, {AtLeast(summary.reuse.lower, freeze.margin),
                                          AtLeast(summary.amortized.lower, 0)}),
   strong |-> StrongBaseline(audit), adoption |-> summary.operations.adoption]
ChunkVerdict(summary, freeze, audit) ==
  [status |-> StatusOf(summary.complete, {AtLeast(summary.reuse.lower, freeze.margin),
                                          AtLeast(summary.amortized.lower, 0),
                                          AtLeast(summary.accuracy.lower, -freeze.accuracyMargin)}),
   strong |-> StrongBaseline(audit), adoption |-> summary.operations.adoption]

-----------------------------------------------------------------------------
(* prepare_bundle: the turns of a session with what the policy would hold.    *)
(* It refuses a plan without the gold.  replay[i] is the working set at task  *)
(* i, plans[i] the BM25 plan; tasks are one session's, in order.              *)
MayBundle(tasks, plans) == \A i \in DOMAIN tasks : tasks[i].required \subseteq plans[i]
BundleSession(tasks, replay, plans) ==
  [i \in DOMAIN tasks |->
    [resident |-> replay[i], policyHit |-> tasks[i].required \subseteq replay[i],
     prefixHit |-> tasks[i].required \subseteq replay[1], plan |-> plans[i]]]

(* tool_counts: calls of the MCP tools from the transcript, native attempts   *)
(* from the guard's log, where only a denied one in deny-managed mode counts. *)
ToolCounts(transcript, guard) ==
  LET calls(tool) == Len(SelectSeq(transcript, LAMBDA e : e.kind = "tool_use" /\ e.server = "karc"
                                                          /\ e.tool = tool))
      native == Len(SelectSeq(guard, LAMBDA e : /\ e.event = "PreToolUse" /\ e.server # "karc"
                                                /\ e.mode = "deny-managed" /\ e.denied))
  IN [search |-> calls("search"), get |-> calls("get"), native |-> native, denied |-> native]

(* materialize_session: what each arm of G1 finds in its directory.           *)
MaterializeArm(arm, manifest, initial) ==
  IF arm = "rag-bm25"
  THEN [hook |-> "deny-all", managed |-> {}, resident |-> {}, mcp |-> FALSE]
  ELSE [hook |-> "deny-managed", managed |-> manifest, resident |-> initial \cap manifest,
        mcp |-> TRUE]
-----------------------------------------------------------------------------
(* How E5's chunk canary cuts a document and shares its tokens among the      *)
(* pieces (src/src/karc/bench/e5_chunk_canary.py).  A line is a record        *)
(* [kind, ...]; an atom is the sequence of its lines; a token estimate of a   *)
(* text is its size, which for the bounds here is its number of lines.        *)

Estimate(text) == Max({1, Len(text)})

(* _paragraph_atoms: blank lines separate atoms outside a code fence; a fence *)
(* line ends the paragraph before it, and the closing one ends its own atom.  *)
Flush(acc) == IF acc.current = <<>> THEN acc
              ELSE [acc EXCEPT !.atoms = Append(@, acc.current), !.current = <<>>]
TakeLine(acc, line) ==
  CASE line.kind = "fence" ->
         LET open == IF acc.fenced THEN acc ELSE Flush(acc)
             taken == [open EXCEPT !.current = Append(@, line), !.fenced = ~@]
         IN IF acc.fenced THEN Flush(taken) ELSE taken
    [] line.kind = "blank" /\ ~acc.fenced -> Flush(acc)
    [] OTHER -> [acc EXCEPT !.current = Append(@, line)]
ParagraphAtoms(lines) ==
  LET end == Flush(FoldLeft(TakeLine, [atoms |-> <<>>, current |-> <<>>, fenced |-> FALSE], lines))
  IN SelectSeq(end.atoms, LAMBDA atom : \E i \in DOMAIN atom : atom[i].kind # "blank")

(* _pack_atoms: a chunk takes the next atom unless that would pass the soft   *)
(* maximum; the heading is where the first chunk starts.                      *)
PackAtoms(prefix, atoms, softMax) ==
  LET end == FoldLeft(LAMBDA acc, atom :
                 IF acc.current # <<>> /\ Estimate(acc.current \o atom) > softMax
                 THEN [packed |-> Append(acc.packed, acc.current), current |-> atom]
                 ELSE [acc EXCEPT !.current = @ \o atom],
               [packed |-> <<>>, current |-> prefix], atoms)
  IN IF end.current = <<>> THEN end.packed ELSE Append(end.packed, end.current)

ProseUnits(lines, softMax) ==
  [i \in DOMAIN PackAtoms(<<>>, ParagraphAtoms(lines), softMax) |->
     [path |-> <<>>, text |-> PackAtoms(<<>>, ParagraphAtoms(lines), softMax)[i]]]

(* _markdown_units: a heading outside a fence opens a section; its path is    *)
(* the headings above it.  A section is kept if it has a heading or a line.   *)
\* Mutant of CloseSection: what comes before the first heading is no section.
CloseHeaded(acc) ==
  [acc EXCEPT !.heading = <<>>, !.body = <<>>,
              !.sections = IF acc.heading = <<>> THEN @
                           ELSE Append(@, [path |-> acc.stack, heading |-> acc.heading, body |-> acc.body])]
CloseSection(acc) ==
  [acc EXCEPT !.heading = <<>>, !.body = <<>>,
              !.sections = IF acc.heading # <<>> \/ \E i \in DOMAIN acc.body : acc.body[i].kind # "blank"
                           THEN Append(@, [path |-> acc.stack, heading |-> acc.heading, body |-> acc.body])
                           ELSE @]
TakeMarkdown(acc, line) ==
  LET fenced == IF line.kind = "fence" THEN ~acc.fenced ELSE acc.fenced
      closed == CloseSection(acc)
  IN IF line.kind = "heading" /\ ~fenced
     THEN [closed EXCEPT !.heading = <<line>>,
                         !.stack = Append(SubSeq(@, 1, Min({line.level - 1, Len(@)})), line.slug)]
     ELSE [acc EXCEPT !.body = Append(@, line), !.fenced = fenced]
MarkdownUnits(lines, softMax) ==
  LET end == CloseSection(FoldLeft(TakeMarkdown,
               [sections |-> <<>>, stack |-> <<>>, heading |-> <<>>, body |-> <<>>, fenced |-> FALSE],
               lines))
      sections == IF end.sections # <<>> THEN end.sections
                  ELSE <<[path |-> <<>>, heading |-> <<>>, body |-> lines]>>
      units(s) == LET texts == PackAtoms(s.heading, ParagraphAtoms(s.body), softMax)
                  IN [i \in DOMAIN texts |-> [path |-> s.path, text |-> texts[i]]]
  IN FlattenSeq([i \in DOMAIN sections |-> units(sections[i])])

(* _python_units: the top-level definitions, decorators included, and what    *)
(* lies between them.  nodes are the definitions' line ranges, in order.      *)
PythonUnits(lines, nodes, softMax) ==
  LET code(a, b) == SubSeq(lines, a, b)
      matters(text) == \E i \in DOMAIN text : text[i].kind # "blank"
      named(text) == IF matters(text) THEN <<[path |-> <<>>, text |-> text]>> ELSE <<>>
      end == FoldLeft(LAMBDA acc, node :
                LET start == Min({node.first} \cup node.decorators)
                IN [cursor |-> node.last,
                    units |-> acc.units
                       \o (IF start > acc.cursor + 1 THEN named(code(acc.cursor + 1, start - 1)) ELSE <<>>)
                       \o named(code(start, node.last))],
               [cursor |-> 0, units |-> <<>>], nodes)
  IN IF nodes = <<>> THEN ProseUnits(lines, softMax)
     ELSE end.units \o named(code(end.cursor + 1, Len(lines)))

(* semantic_split by suffix, and the assertion it ends on: the words of the   *)
(* units, in order, are the words of the document.                            *)
SemanticSplit(kind, lines, nodes, softMax) ==
  CASE kind = "markdown" -> MarkdownUnits(lines, softMax)
    [] kind = "python" -> PythonUnits(lines, nodes, softMax)
    [] OTHER -> ProseUnits(lines, softMax)
Words(lines) == SelectSeq(lines, LAMBDA line : line.kind # "blank")
KeepsContent(units, lines) ==
  units # <<>> /\ Words(FlattenSeq([i \in DOMAIN units |-> units[i].text])) = Words(lines)

-----------------------------------------------------------------------------
(* _allocate_tokens: one token each, the rest in proportion to the bytes, by  *)
(* largest remainder with ties to the earlier chunk.                          *)
SumSeq(s) == FoldLeft(LAMBDA a, b : a + b, 0, s)
\* Mutant of AllocateTokens: the remainders are lost.
AllocateFloors(total, bytes) ==
  LET n == Len(bytes)
  IN [i \in DOMAIN bytes |-> 1 + ((total - n) * bytes[i]) \div SumSeq(bytes)]
AllocateTokens(total, bytes) ==
  LET n == Len(bytes)
      weight == IF SumSeq(bytes) = 0 THEN n ELSE SumSeq(bytes)
      exact(i) == (total - n) * bytes[i]
      floor(i) == exact(i) \div weight
      rest(i) == exact(i) % weight
      left == (total - n) - SumSeq([i \in DOMAIN bytes |-> floor(i)])
      before(i) == {j \in DOMAIN bytes : rest(j) > rest(i) \/ (rest(j) = rest(i) /\ j < i)}
  IN [i \in DOMAIN bytes |-> 1 + floor(i) + (IF Cardinality(before(i)) < left THEN 1 ELSE 0)]
=============================================================================
