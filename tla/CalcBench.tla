------------------------------ MODULE CalcBench -----------------------------
(* The calculations of E5, E10 and E11 over bounded inputs: a state is one    *)
(* input, and every property compares what the code computes for it with a    *)
(* definition of what it should be.                                           *)
EXTENDS Integers, Sequences, FiniteSets, FiniteSetsExt, SequencesExt

(* The frame of the modules that check calculations: a state is one input,    *)
(* picked from the empty case; a property speaks of the cases of one kind.    *)
VARIABLE case

Waiting == case.kind = "none"
Init == \E topic \in {"bench", "pi", "readout", "replay", "e4", "arms"} : case = [kind |-> "none", topic |-> topic]
IsAbout(topic) == Waiting => case.topic = topic
-----------------------------------------------------------------------------

Acc == INSTANCE Accounts
\* The bootstrap stays within the values; the interval is the widest it can be.
MinOf(s) == Min({s[i] : i \in DOMAIN s})
MaxOf(s) == Max({s[i] : i \in DOMAIN s})
Can == INSTANCE Canary WITH SessionLength <- 2, Lower <- MinOf,
                            Deviation <- LAMBDA s : MaxOf(s) - MinOf(s)
Hor == INSTANCE Horizon WITH SessionCount <- 2, SessionLength <- 3, Window <- 1,
         Horizons <- {1, 3}, Weights <- {0, 1, 10}, SpendCap <- 20, InfraCap <- 4, CallCap <- 22,
         PerTurnCap <- 3, QualityMargin <- 5, Interval <- LAMBDA s : <<MinOf(s), MaxOf(s)>>

-----------------------------------------------------------------------------
Versions == 1 .. 3
Uniform == [size |-> [v \in Versions |-> 1], validFrom |-> [v \in Versions |-> 1],
            supersededAt |-> [v \in Versions |-> 0]]
GoldTask(v, gone) == [required |-> v, invalidated |-> gone]

\* Five questions, of which one may invalidate a version nothing asks for again.
PickBelady ==
  /\ Waiting
  /\ \E asked \in [1 .. 5 -> Versions], at \in 1 .. 5, gone \in Versions, budget \in 1 .. 2 :
       /\ \A i \in at .. 5 : asked[i] # gone
       /\ case' = [kind |-> "belady", budget |-> budget,
                   tasks |-> [i \in 1 .. 5 |-> GoldTask(asked[i], IF i = at THEN {gone} ELSE {})]]

\* The best any cache of that size can do, by trying every choice of what to keep.
BestContainment(tasks, budget) ==
  LET best[i \in 1 .. Len(tasks) + 1, held \in SUBSET Versions] ==
        IF i > Len(tasks) THEN 0
        ELSE LET cache == held \ tasks[i].invalidated
             IN (IF tasks[i].required \in cache THEN 1 ELSE 0)
                + Max({best[i + 1, kept] : kept \in {k \in SUBSET (cache \cup {tasks[i].required}) :
                                                       Cardinality(k) <= budget}})
  IN best[1, {}]

(* With documents of one size, the clairvoyant cache is what its name says:   *)
(* no cache of the same capacity answers more questions.  F-K3 condemns the   *)
(* policy by its distance from this bound (e5_killgate.py:576-608, 860-883).  *)
BeladyIsOptimal ==
  case.kind = "belady" =>
    Acc!BeladyContainment(case.tasks, Uniform, case.budget) = BestContainment(case.tasks, case.budget)

-----------------------------------------------------------------------------
Sized == [size |-> <<1, 2>>, validFrom |-> <<1, 1>>, supersededAt |-> <<2, 0>>]
SessionOf == <<1, 1, 2>>

PickAccount ==
  /\ Waiting
  /\ \E asked, others \in [1 .. 3 -> 1 .. 2], held \in [1 .. 3 -> SUBSET (1 .. 2)] :
       case' = [kind |-> "account", residents |-> held, plans |-> [i \in 1 .. 3 |-> {asked[i], others[i]}],
                tasks |-> [i \in 1 .. 3 |-> [seq |-> i, session |-> SessionOf[i], required |-> asked[i],
                                             invalidated |-> {}]]]

\* What each session ever holds, summed over the sessions.
PerSession(context) ==
  MapThenSumSet(LAMBDA s : Acc!Tokens(Sized, UNION {context[i] : i \in {j \in 1 .. 3 : SessionOf[j] = s}}),
                {1, 2})

(* Within a session a document is paid for once, however often the working    *)
(* set drops it and takes it back, and in the next session again; and the     *)
(* bracketing accounts do bracket the binding one (e5_killgate.py:414-573).   *)
AccountsMatchUnions ==
  case.kind = "account" =>
    LET cell == Acc!EvaluateCell(case.tasks, Sized, 2,
                  [karc |-> case.residents, classic |-> case.plans], case.plans, <<1, 2>>)
        account == cell.costs["karc"]
        withGold == [i \in 1 .. 3 |-> case.residents[i] \cup {case.tasks[i].required}]
    IN /\ account.fresh = PerSession(case.residents)
       /\ account.goldOnly = PerSession(withGold)
       /\ cell.rag.symmetric = PerSession(case.plans)
       /\ account.goldOnly <= Acc!CachePrimary(account)
       /\ 10 * Acc!CachePrimary(account) <= Acc!CacheW01(account)
       /\ Acc!CacheW01(account) <= 10 * Acc!CacheW1(account)
       /\ cell.stale["karc"] = account.stale
       /\ cell.rag.contained = 3

-----------------------------------------------------------------------------
Grid == [{"s0", "s1"} -> [0 .. 4 -> {-1, 0, 2}]]
\* As in the code's reports, the classic arm crosses at one half and nothing else is wrong.
Facts == [belady |-> [r \in 0 .. 4 |-> 4], karc |-> [r \in 0 .. 4 |-> 3],
          divergent |-> [r \in 0 .. 4 |-> 1], staleClassic |-> 2, staleKarc |-> 1]
ClassicGap == [s \in {"s0"} |-> [r \in 0 .. 4 |-> IF r < 2 THEN 1 ELSE 0]]

PickGrid ==
  /\ Waiting
  /\ \E gap \in Grid : case' = [kind |-> "grid", gap |-> gap]

StaysCrossed(curve) == \A r \in 0 .. 3 : curve[r] <= 0 => curve[r + 1] <= 0

(* A binding status is that of every seed by itself, as long as no seed's     *)
(* curve crosses back; and a pass is never earned without any reuse: the      *)
(* control at r = 0 has already voided it (e5_killgate.py:808-922).           *)
SeedsSpeakForThePool ==
  case.kind = "grid" =>
    LET verdict == Acc!Verdict([primary |-> case.gap, symmetric |-> case.gap, classic |-> ClassicGap], Facts)
    IN /\ (verdict.status # "VOID" /\ \A s \in DOMAIN case.gap : StaysCrossed(case.gap[s])) =>
            \A s \in DOMAIN case.gap : Acc!Category(Acc!Crossing(case.gap[s])) = verdict.status
       /\ verdict.status \in {"PASS", "PASS-NARROW"} => verdict.rStar > 0
       /\ verdict.stage2 => verdict.falsified \cap {0, 1, 2, 3, 5} = {}

-----------------------------------------------------------------------------
LineOf(kind, n) == IF kind = "heading" THEN [kind |-> kind, n |-> n, level |-> 1 + (n % 2), slug |-> n]
                   ELSE [kind |-> kind, n |-> n]
DocumentOf(kinds) == [n \in DOMAIN kinds |-> LineOf(kinds[n], n)]

PickDocument ==
  /\ Waiting
  /\ \E kinds \in [1 .. 5 -> {"text", "blank", "fence", "heading"}], type \in {"markdown", "prose"} :
       case' = [kind |-> "document", type |-> type, lines |-> DocumentOf(kinds), nodes |-> <<>>]

\* Python: one or two definitions, the second of them decorated.
PickSource ==
  /\ Waiting
  /\ \E kinds \in [1 .. 5 -> {"text", "blank"}], a, b, c, d \in 1 .. 5 :
       /\ a <= b /\ b < c /\ c <= d
       /\ case' = [kind |-> "document", type |-> "python", lines |-> DocumentOf(kinds),
                   nodes |-> <<[first |-> a, last |-> b, decorators |-> {}],
                               [first |-> d, last |-> d, decorators |-> {c}]>>]

SoftMax == 2

(* Splitting loses, repeats and reorders nothing of a document that says      *)
(* anything, so its closing assertion never stops a bundle; and only a piece  *)
(* that cannot be cut is longer than the soft maximum                         *)
(* (e5_chunk_canary.py:80-237).                                               *)
SplitKeepsContent ==
  case.kind = "document" =>
    LET units == Can!SemanticSplit(case.type, case.lines, case.nodes, SoftMax)
        body == {i \in DOMAIN case.lines : case.lines[i].kind # "blank"}
        cuttable(text) == \E i \in 2 .. Len(text) - 1 : text[i].kind = "blank" /\ text[1].kind = "text"
                                                        /\ \A j \in DOMAIN text : text[j].kind # "fence"
    IN /\ body # {} => Can!KeepsContent(units, case.lines)
       /\ case.type # "python" =>
            \A i \in DOMAIN units : Len(units[i].text) > SoftMax => ~cuttable(units[i].text)

PickShares ==
  /\ Waiting
  /\ \E n \in 1 .. 3 : \E bytes \in [1 .. n -> 1 .. 4], total \in n .. 9 :
       case' = [kind |-> "shares", bytes |-> bytes, total |-> total]

(* A document's tokens are all given out, one at least to every chunk, a      *)
(* longer chunk never has fewer, and no chunk is a whole token away from its  *)
(* exact share (e5_chunk_canary.py:240-254).                                  *)
TokensAreShared ==
  case.kind = "shares" =>
    LET tokens == Can!AllocateTokens(case.total, case.bytes)
        n == Len(case.bytes)
        weight == Can!SumSeq(case.bytes)
    IN /\ Can!SumSeq(tokens) = case.total
       /\ \A i \in 1 .. n :
            /\ tokens[i] >= 1
            /\ \A j \in 1 .. n : case.bytes[i] > case.bytes[j] => tokens[i] >= tokens[j]
            /\ LET off == (tokens[i] - 1) * weight - (case.total - n) * case.bytes[i]
               IN off < weight /\ -off < weight

-----------------------------------------------------------------------------
LogRow(arm, attempt, position, class, fresh) ==
  [arm |-> arm, session |-> 1, attempt |-> attempt, position |-> position, class |-> class,
   fresh |-> fresh, gross |-> fresh + 1, cached |-> 1, reuse |-> position = 2, passed |-> TRUE,
   policyHit |-> position = 2, prefixHit |-> FALSE, search |-> 1, get |-> 0, native |-> 0, denied |-> 0]
Finished == <<LogRow("rag-bm25", 0, 1, "ok", 4), LogRow("karc-full", 0, 1, "ok", 2),
              LogRow("rag-bm25", 0, 2, "task", 4), LogRow("karc-full", 0, 2, "ok", 3)>>

\* Both arms finished their session; then rows of later attempts come, in any order.
PickLog ==
  /\ Waiting
  /\ \E more \in SeqOf({LogRow(arm, a, p, class, 9) : arm \in {"karc-full", "rag-bm25"},
                          a \in {1, 2}, p \in {1, 2}, class \in {"ok", "infra"}}, 3), margin \in {20, 30} :
       case' = [kind |-> "log", more |-> more, margin |-> margin]

ALaterAttemptIsWhole(more) ==
  \E i, j \in DOMAIN more : /\ more[i].arm = more[j].arm /\ more[i].attempt = more[j].attempt
                            /\ more[i].class = "ok" /\ more[j].class = "ok"
                            /\ more[i].position # more[j].position

Contract(margin) == [margin |-> margin, accuracyMargin |-> 10]
Parity == [contained |-> 100, utilization |-> 90, rankOrder |-> TRUE]
\* Fresh tokens of an attempt that answered each of its turns.
Spends(log, arm, fresh) ==
  \E first, second \in DOMAIN log :
    /\ log[first].attempt = log[second].attempt
    /\ \A i \in {first, second} : log[i].arm = arm /\ log[i].class \in {"ok", "task"}
    /\ log[first].position = 1 /\ log[second].position = 2
    /\ fresh = <<log[first].fresh, log[second].fresh>>

(* A session that was started again and not finished changes nothing of what  *)
(* its finished attempt says: neither the pairs, nor any mean, nor how often  *)
(* the tools were used.  A canary is confirmed only on attempts that answered *)
(* all their turns and saved the margin, whatever was appended to the log;    *)
(* never while a session is missing; and by G2 only where G1 would            *)
(* (e5_cache_canary.py:344-493, 568-620, e5_chunk_canary.py:879-938).         *)
ReportIsStable ==
  case.kind = "log" =>
    LET log == Finished \o case.more
        summary == Can!Summarize(log, 1)
        cost == Can!CanaryVerdict(summary, Contract(case.margin), Parity)
        chunk == Can!ChunkVerdict(summary, Contract(case.margin), Parity)
    IN /\ ~ALaterAttemptIsWhole(case.more) => summary = Can!Summarize(Finished, 1)
       /\ cost.strong
       /\ cost.status = "CONFIRM" =>
            \E karc, rag \in {2, 3, 4, 9} \X {2, 3, 4, 9} :
              /\ Spends(log, "karc-full", karc) /\ Spends(log, "rag-bm25", rag)
              /\ 100 * karc[2] <= (100 - case.margin) * rag[2]
              /\ karc[1] + karc[2] <= rag[1] + rag[2]
       /\ Can!CanaryVerdict(Can!Summarize(log, 2), Contract(case.margin), Parity).status = "INCOMPLETE"
       /\ chunk.status = "CONFIRM" => cost.status = "CONFIRM"

PickSmoke ==
  /\ Waiting
  /\ \E reuse, amortized \in {-10, 0, 5, 10, 19, 20, 40}, sd1, sd2, sd3 \in {0, 2, 5, 12, 40} :
       case' = [kind |-> "smoke",
                smoke |-> [complete |-> TRUE, reuse |-> [point |-> reuse, sd |-> sd1],
                           amortized |-> [point |-> amortized, sd |-> sd2],
                           accuracy |-> [point |-> 0, sd |-> sd3]]]

(* The canary frozen from a smoke test is large enough for each of its        *)
(* conjuncts or says that its cap binds; the accuracy conjunct alone never    *)
(* makes it bind while a wider margin would fit; and the attempts allowed     *)
(* leave room for a quarter of the turns to fail                              *)
(* (e5_cache_canary.py:496-565, e5_chunk_canary.py:796-876).                  *)
FreezeHasPower ==
  case.kind = "smoke" =>
    LET freeze == Can!ChooseChunkFreeze(case.smoke)
        cost == Can!ChooseCanaryFreeze(case.smoke)
        needs == Can!CostNeeds(case.smoke, freeze.margin)
        accuracy == Can!Required(case.smoke.accuracy.sd, freeze.accuracyMargin)
    IN /\ freeze.size.capBinding \/ \A n \in needs \cup {accuracy} : n <= freeze.size.sessions
       /\ freeze.size.capBinding => freeze.size.sessions = 12
       /\ accuracy > 12 => Can!Required(case.smoke.accuracy.sd, 10) > 12
       /\ cost.size.sessions <= freeze.size.sessions /\ cost.margin = freeze.margin
       /\ 4 * freeze.size.attemptCap >= 5 * freeze.size.planned

-----------------------------------------------------------------------------
TaskOf == [s \in 1 .. 2, p \in 1 .. 3 |-> <<s, p>>]
Turn(arm, s, p, thread) ==
  [arm |-> arm, session |-> s, position |-> p, attempt |-> 0, class |-> "ok",
   fresh |-> IF arm = "full-history" THEN 1 ELSE 4, cached |-> 0,
   gross |-> IF arm = "full-history" THEN 1 ELSE 4, passed |-> TRUE, calls |-> 0, spend |-> 1,
   infra |-> 0, local |-> 0, task |-> TaskOf[s, p], thread |-> thread,
   state |-> IF arm \in Hor!BaselineArms THEN Hor!ExpectedState(arm, p) ELSE "None"]
RunOf(arms, thread(_, _, _)) ==
  [k \in 1 .. 6 * Len(arms) |->
     LET arm == arms[1 + ((k - 1) \div 6)]
         s == 1 + (((k - 1) \div 3) % 2)
         p == 1 + ((k - 1) % 3)
     IN Turn(arm, s, p, thread(arm, s, p))]
\* An honest runner opens a thread exactly when the state contract says nothing is carried on.
Honest(arm, s, p) == IF arm = "full-history" THEN 1 ELSE p
Reference == RunOf(<<"karc-full", "rag-bm25">>, Honest)
Baselines == <<"full-history", "sliding-window-compaction", "stateless-rag">>

Defects == {"none", "lost", "state", "task", "tokens", "mcp", "local", "spend", "unanswered"}
Broken(row, defect) ==
  CASE defect = "state" -> [row EXCEPT !.state.supplied = @ + 1]
    [] defect = "task" -> [row EXCEPT !.task = <<0, 0>>]
    [] defect = "tokens" -> [row EXCEPT !.cached = @ + 1]
    [] defect = "mcp" -> [row EXCEPT !.calls = 1]
    [] defect = "local" -> [row EXCEPT !.local = 1]
    [] defect = "spend" -> [row EXCEPT !.spend = 4]
    [] defect = "unanswered" -> [row EXCEPT !.class = "infra"]
    [] OTHER -> row

\* One session's threads are what they may be, and one row of the log has a defect.
PickRun ==
  /\ Waiting
  /\ \E arm \in Hor!BaselineArms, used \in [1 .. 3 -> 1 .. 3], defect \in Defects, at \in 1 .. 18 :
       LET threadOf(a, s, p) == IF a = arm /\ s = 1 THEN used[p] ELSE Honest(a, s, p)
           log == RunOf(Baselines, threadOf)
       IN case' = [kind |-> "run", arm |-> arm, used |-> used, defect |-> defect,
                   rows |-> IF defect = "lost" THEN RemoveAt(log, at)
                            ELSE [log EXCEPT ![at] = Broken(@, defect)]]

CarriedOn(used, p) == \E q \in 1 .. p - 1 : used[q] = used[p]

(* The rows decide about the paper's premise exactly when all of them are     *)
(* there, none has a defect, and every arm carried a provider thread on where *)
(* its state contract, kept in another file, says so (e11_baseline3.py:       *)
(* 119-152, 668-772; e11_baseline3_execution.py:253-278, 371-377).            *)
DefectsBlockDecisions ==
  case.kind = "run" =>
    LET summary == Hor!SummarizeBaselines(case.rows, Reference, TaskOf)
        honest == \A p \in 1 .. 3 : CarriedOn(case.used, p) <=> Hor!ExpectedState(case.arm, p).reused
    IN /\ summary.complete <=> (case.defect = "none" /\ honest)
       /\ summary.rewritePremise <=> summary.complete
       /\ ~summary.removeNecessity

-----------------------------------------------------------------------------
(* The rows of E10: prices of the turns by position, sessions that were not   *)
(* finished, and one row with a defect.                                       *)
H16 == Hor!H16Arms
GrossOf(price, arm, p) == price[arm][p]
HorizonRows(price) ==
  [i \in 1 .. 12 |->
     [Reference[i] EXCEPT !.fresh = GrossOf(price, Reference[i].arm, Reference[i].position),
                          !.gross = GrossOf(price, Reference[i].arm, Reference[i].position)]]
PickHorizon ==
  /\ Waiting
  /\ \E karc \in [1 .. 3 -> {1, 3, 6}], rag \in [1 .. 3 -> {2, 4}], open \in SUBSET (H16 \X {1, 2}),
        defect \in {"none", "tokens", "mcp"}, at \in {2, 11} :
       LET price == [arm \in H16 |-> IF arm = "karc-full" THEN karc ELSE rag]
           log == [HorizonRows(price) EXCEPT ![at] = Broken(@, defect)]
       IN case' = [kind |-> "horizon", price |-> price, open |-> open, defect |-> defect,
                   rows |-> SelectSeq(log, LAMBDA row : ~(<<row.arm, row.session>> \in open /\ row.position = 3))]

(* E10's summary reads finished sessions and nothing else: it fails outright  *)
(* when only K-ARC finished one; K-ARC's turns get cheaper no later than its  *)
(* total does; each pair of finished sessions is a difference at every        *)
(* horizon and weight; and over a whole run it finds a defect exactly when    *)
(* the audit of the runner refuses the rows (e10_horizon_execution.py:        *)
(* 190-328, e10_horizon_canary.py:435-487).                                   *)
HorizonIsRead ==
  case.kind = "horizon" =>
    LET summary == Hor!SummarizeHorizon(case.rows)
        finished(arm) == {s \in 1 .. 2 : <<arm, s>> \notin case.open}
        both == finished("karc-full") \cap finished("rag-bm25")
    IN /\ summary.complete <=> case.open = {}
       /\ summary.raises <=> (finished("karc-full") # {} /\ finished("rag-bm25") = {})
       /\ \A p \in summary.cumulative : \E q \in summary.perTurn : q <= p
       /\ summary.cumulative # {} => \A arm \in H16 : finished(arm) # {}
       /\ \A h \in {1, 3}, w \in {0, 1, 10} : Len(summary.paired[h, w]) = Cardinality(both)
       /\ summary.complete => (summary.audit <=> Hor!AuditHorizonRows(case.rows, TRUE))
       /\ ~summary.audit => case.defect # "none"
       /\ Hor!AuditHorizonRows(case.rows, TRUE) => case.open = {}

-----------------------------------------------------------------------------
(* Schedules of two sessions of four turns; a flag of reuse may be wrong.     *)
Reg4 == INSTANCE Horizon WITH SessionCount <- 2, SessionLength <- 4, Window <- 1,
          Horizons <- {}, Weights <- {}, SpendCap <- 20, InfraCap <- 4, CallCap <- 22,
          PerTurnCap <- 3, QualityMargin <- 5, Interval <- LAMBDA s : <<0, 0>>
Planned(gold, wrong) ==
  [i \in 1 .. 8 |->
     LET s == 1 + ((i - 1) \div 4)
         p == 1 + ((i - 1) % 4)
         seen == \E q \in 1 .. p - 1 : gold[s][q] = gold[s][p]
     IN [session |-> s, position |-> p, artifact |-> gold[s][p],
         reuse |-> IF i = wrong THEN ~seen ELSE seen]]
PickContract ==
  /\ Waiting
  /\ \E first \in [1 .. 4 -> 1 .. 2], second \in [1 .. 4 -> 1 .. 4], wrong \in {0, 7} :
       case' = [kind |-> "contract", gold |-> <<first, second>>, wrong |-> wrong,
                assignments |-> Planned(<<first, second>>, wrong)]

\* Documents a session asks for, each counted once.
Distinct(asked) == Cardinality(ToSet(asked))

Differences == {"none", "schedule", "arms", "calls"}

(* A contract is frozen only of a schedule in which half of what is asked     *)
(* again was asked before and no session has more of it than the others, and  *)
(* only with the flags the pairs are read by; and a cell starts on the        *)
(* contract as it was written, for its own arms and its own schedule          *)
(* (e10_horizon_canary.py:78-139, 236-403, e11_baseline3.py:91-116, 599-656). *)
ContractsAreFrozen ==
  case.kind = "contract" =>
    LET valid == Reg4!ValidateBundle(case.assignments, TRUE, 90)
        bundle == [assignments |-> case.assignments, contained |-> TRUE, utilization |-> 90,
                   schedule |-> case.gold, corpus |-> 1]
    IN /\ valid <=> (case.wrong = 0 /\ {Distinct(case.gold[1]), Distinct(case.gold[2])} = {2, 3})
       /\ \A other \in Differences :
            LET frozen == [schedule |-> IF other = "schedule" THEN <<>> ELSE case.gold, corpus |-> 1]
                config == Reg4!BuildConfig(bundle, Reg4!ValidateBaselineBundle(bundle, frozen),
                                           IF other = "arms" THEN H16 ELSE Reg4!BaselineArms)
                later(c) == IF other = "calls" THEN [c EXCEPT !.calls = 1] ELSE c
            IN /\ (config # {}) <=> (valid /\ other # "schedule")
               /\ \A c \in config : Reg4!ValidateConfig(later(c), c, Reg4!BaselineArms) <=> other = "none"

-----------------------------------------------------------------------------
(* Two turns of a Codex session as its driver reads them, both streams of any *)
(* events: see Harness.                                                       *)
Drv == INSTANCE Harness WITH Order <- <<1>>, Replies <- {}, Grades <- {"ok"}, Pin <- "m", MaxRetries <- 0,
         Concurrency <- 1, MaxWindows <- 1, Cap <- 1, Processes <- 1, CutOff <- 0, Mangled <- 1,
         mode <- "grid", pc <- "over", queue <- <<>>, task <- <<>>, out <- 0, outcomes <- <<>>, hits <- <<>>, stop <- FALSE,
         givenUp <- "", window <- 1, probes <- 0, lines <- <<>>, process <- 0
None == "none"
Said(text) == [type |-> "agent_message", text |-> text]
Closed(input, cached, write) ==
  [type |-> "turn.completed", usage |-> [input |-> input, cached |-> cached, write |-> write, output |-> 1]]
Opened(id) == IF id = None THEN <<>> ELSE <<[type |-> "thread.started", id |-> id]>>
Broke(type, text) == [type |-> type, text |-> text]
Heard == {Said("said"), Said(""), Closed(5, 2, 1), Closed(4, 2, Drv!Absent), Closed(2, 2, 1),
          Broke("error", "limit"), Broke("turn.failed", "lost"), [type |-> "new in 0.146"]}
NextTurn == <<Said("said"), Closed(6, 1, 1)>>
Exit(id, code, events, models) ==
  [end |-> "exit", code |-> code, events |-> Opened(id) \o events, malformed |-> FALSE, stderr |-> "", models |-> models]

PickTurn ==
  /\ Waiting
  /\ \E id \in {None, "t1"}, again \in {None, "t1", "t2"}, first \in SeqOf(Heard, 3), code \in {0, 1},
        models \in {{"m"}, {"m", "n"}} :
       case' = [kind |-> "turns", id |-> id, again |-> again,
                calls |-> <<Exit(id, code, first, models), Exit(again, 0, NextTurn, {"m"})>>]

LastOf(events, types) ==
  LET at == {i \in DOMAIN events : events[i].type \in types}
  IN IF at = {} THEN [type |-> "nothing"] ELSE events[Max(at)]
IsAnswer(result) == result.class = None

(* An answer is counted only of a turn that ended well, by one model, and in  *)
(* the thread the session's first answer came from; its buckets are its       *)
(* input, each token in one of them, whether or not the CLI tells what was    *)
(* written; and a usage limit is heard as one, so that a loop waits for it    *)
(* instead of spending its retries (driver.py:97-117, 409-663, 788-841).      *)
AnswersAreOfOneThread ==
  case.kind = "turns" =>
    LET told == case.calls[1].events
        failed == LastOf(told, {"turn.failed", "error"})
        one == Drv!CodexRun(case.calls[1])
        first == Drv!SessionTurn(None, one)
        second == Drv!SessionTurn(first.thread, Drv!CodexRun(case.calls[2]))
    IN /\ IsAnswer(one) =>
            LET usage == LastOf(told, {"turn.completed"}).usage
            IN /\ failed.type = "nothing" /\ case.calls[1].models # {"m", "n"} /\ case.calls[1].code = 0
               /\ Drv!TotalInput(one.usage, TRUE) = usage.input
               /\ Drv!TotalInput(one.usage, FALSE) \in 0 .. usage.input - usage.cached
               /\ (Drv!TotalInput(one.usage, FALSE) = usage.input - usage.cached)
                    <=> (Drv!UsageSchema(usage) = "v1: uncached+cache_write")
       /\ failed.type # "nothing" /\ failed.text = "limit" /\ case.calls[1].models # {"m", "n"}
            /\ LastOf(told, {"new in 0.146"}).type = "nothing" => one.class = "usage_limit"
       /\ (first.thread # None) <=> IsAnswer(first.result)
       /\ IsAnswer(first.result) /\ IsAnswer(second.result) =>
            case.id # None /\ case.again \in {None, case.id} /\ second.thread = case.id

PickBench == PickBelady \/ PickAccount \/ PickGrid \/ PickDocument \/ PickSource \/ PickShares
             \/ PickLog \/ PickSmoke \/ PickRun \/ PickHorizon \/ PickContract \/ PickTurn
-----------------------------------------------------------------------------
(* The calculations of the cells that run pi, over bounded inputs, and the    *)
(* pacer of their turns, which is stepped.                                    *)

\* Three ticks of the clock to the minute, and turns of up to three tokens.
\* The cells as they are configured; budgets in percent of 200 tokens.
Cel == INSTANCE PiCells WITH SessionCount <- 24, SessionLength <- 8, WarmupStart <- 8, WarmupMax <- 12,
         MeasureSessions <- 12, BudgetTokens <- LAMBDA b : 2 * b,
         Minute <- 3, TokensPerMinute <- 6, FirstPeak <- 2, CacheMinPrefix <- 3
\* The same code on bundles of two sessions.
Few == INSTANCE PiCells WITH SessionCount <- 2, SessionLength <- 2, WarmupStart <- 1, WarmupMax <- 2,
         MeasureSessions <- 1, BudgetTokens <- LAMBDA b : 2 * b,
         Minute <- 3, TokensPerMinute <- 6, FirstPeak <- 2, CacheMinPrefix <- 3

-----------------------------------------------------------------------------
Usage(input, output, read, write, write1h, total) ==
  [input |-> input, output |-> output, cacheRead |-> read, cacheWrite |-> write,
   cacheWrite1h |-> write1h, totalTokens |-> total]
Usages == {Usage(1, 1, 2, 1, 1, 5), Usage(2, 1, 0, 3, 2, 6), Usage(2, 1, 2, 0, 0, 3),
           Usage(0, 0, 0, 0, 0, 0), [input |-> 1, output |-> 1]}
Message(type, role, usage, stop) ==
  [type |-> type, role |-> role, usage |-> usage, stop |-> stop, error |-> stop = "error",
   blocks |-> 1, text |-> "t", refused |-> FALSE]
Ended == {Message("message_end", "assistant", u, "end") : u \in Usages}
         \cup {Message("message_end", "assistant", Usage(1, 1, 0, 0, 0, 2), "error")}
Others == {Message(type, role, Usage(1, 1, 0, 0, 0, 2), "end") :
             <<type, role>> \in {<<"message_end", "user">>, <<"message_update", "assistant">>}}
          \cup {[type |-> "unparsable"], [type |-> "tool_execution_start"],
                [type |-> "tool_execution_end", isError |-> TRUE]}
Streams == SeqOf(Ended \cup Others, 2)

\* Two turns of a unit; a stray exit code may go with any stream.
PickUnit ==
  /\ Waiting
  /\ \E first, second \in Streams, code \in {0, 1}, provider \in {"anthropic", "openai"} :
       LET turns == <<[events |-> first, code |-> 0, audit |-> 1],
                      [events |-> second, code |-> code, audit |-> 3]>>
       IN case' = [kind |-> "unit", provider |-> provider, turns |-> turns,
                   unit |-> Cel!Unit(turns, provider)]

AnswersOf(turn) == SelectSeq(turn.events, LAMBDA e : e \in Ended)
Sound(turn) == turn.code = 0 /\ \A i \in DOMAIN AnswersOf(turn) :
                 ~AnswersOf(turn)[i].error /\ Cel!Tokens(AnswersOf(turn)[i].usage, "totalTokens") > 0

(* A unit is kept only when every answer of every turn was metered, and fails *)
(* at the first turn that was not; whatever the stream says besides, each     *)
(* answer is counted once, and the tokens the pacer is told are those the     *)
(* provider totals when its buckets add up.  The dollars the guard sees are   *)
(* never fewer than pi's own, which is why a ceiling on them bounds what is   *)
(* charged (run_e28.py:131-134).                                              *)
TurnsAreMetered ==
  case.kind = "unit" =>
    LET unit == case.unit
        bad == {n \in 1 .. 2 : ~Sound(case.turns[n])}
        rows == unit.rows
    IN /\ unit.failed <=> bad # {}
       /\ Len(rows) = Min(bad \cup {2})
       /\ \A n \in DOMAIN rows :
            /\ Len(rows[n].calls) = Len(AnswersOf(case.turns[n]))
            /\ (\A i \in DOMAIN rows[n].calls : rows[n].calls[i].closes) =>
                 Cel!Recorded(rows[n]) = rows[n].usage["totalTokens"]
       /\ unit.paths.bridge = Cel!SumOf(LAMBDA r : r.audited, rows)
       /\ (\A n \in DOMAIN rows : \A i \in DOMAIN rows[n].calls : rows[n].calls[i].write1hFits) =>
            Cel!SumOf(LAMBDA r : Cel!SumOf(LAMBDA c : c.modelled, r.calls), rows)
              <= Cel!StandardPriced(case.provider, rows)

-----------------------------------------------------------------------------
Threads == 1 .. 2
MaxTurn == 3
LastTick == 9            \* bound of the clock
NoTurns == [t \in Threads |-> FALSE]

StartPacer ==
  /\ Waiting
  /\ case' = [kind |-> "pacer", pacer |-> Cel!NewPacer, now |-> 0, running |-> NoTurns]
Tick ==
  /\ case.kind = "pacer" /\ case.now < LastTick
  /\ case' = [case EXCEPT !.now = @ + 1]
Pass(t) ==
  /\ case.kind = "pacer" /\ ~case.running[t] /\ Cel!MayPass(case.pacer, case.now)
  /\ case' = [case EXCEPT !.running[t] = TRUE]
Finish(t) ==
  /\ case.kind = "pacer" /\ case.running[t]
  /\ \E tokens \in 1 .. MaxTurn :
       case' = [case EXCEPT !.running[t] = FALSE,
                            !.pacer = Cel!Record(case.pacer, case.now, tokens)]

(* In no minute do the turns record more than the limit and what every thread *)
(* may have been let through with at once: nothing is reserved when a thread  *)
(* passes, only the largest turn so far is kept free                          *)
(* (run_e19_steady_state.py:214-247).                                         *)
PaceIsBounded ==
  case.kind = "pacer" =>
    Cel!InWindow(case.pacer, case.now) <= 6 - 2 + Cardinality(Threads) * MaxTurn

-----------------------------------------------------------------------------
\* Residents of twelve sessions: only the last six differ, around 190 of 200 tokens.
PickRamp ==
  /\ Waiting
  /\ \E tail \in [7 .. 12 -> {0, 180, 190, 199}], executed \in {7, 8} :
       case' = [kind |-> "ramp", ramp |-> [i \in 1 .. 12 |-> IF i < 7 THEN 0 ELSE tail[i]],
                executed |-> [i \in 1 .. 12 |-> executed]]

IsSteady(ramp, n) == /\ 190 <= ramp[n] /\ ramp[n - 1] > 0
                     /\ 20 * (ramp[n] - ramp[n - 1]) <= ramp[n - 1]
                     /\ 20 * (ramp[n - 1] - ramp[n]) <= ramp[n - 1]

(* A window is measured only behind the shortest warm-up that arrived, it     *)
(* lies in the schedule and shares no session with the warm-up, and E19's     *)
(* verdict on that warm-up, once executed, is the one E23 foretold            *)
(* (run_e23_reuse_density.py:713-790, run_e19_steady_state.py:952-1073).      *)
WindowIsSteady ==
  case.kind = "ramp" =>
    LET steady == Cel!PhaseSteady(case.ramp, 200)
        measured == Cel!WindowFor({}, 0, steady)
        after == Cel!SteadyAfter(case.ramp, steady.warmup, 200, case.executed)
        slices == Cel!Slices(steady.warmup)
    IN /\ Cel!IsWarmup(steady.warmup) /\ ~Cel!Overruns(steady.warmup)
       /\ measured # {} => /\ IsSteady(case.ramp, steady.warmup)
                           /\ \A n \in 8 .. steady.warmup - 1 : ~IsSteady(case.ramp, n)
                           /\ measured = slices.measured /\ Cardinality(measured) = 12
       /\ measured = {} => \A n \in 8 .. 12 : ~IsSteady(case.ramp, n)
       /\ after.reached = steady.reached /\ after.fired = (measured = {})
       /\ after.allTurns <=> case.executed[1] = 8
       /\ UNION {slices.warm, slices.measured, slices.unused} = 1 .. 24
       /\ slices.warm \cap slices.measured = {} /\ slices.measured \subseteq 1 .. 24

-----------------------------------------------------------------------------
\* Four tasks of two sessions: what each requires is fixed, what is resident is not.
Listing == {<<1, 2, 3, 4>>, <<1, 3, 2, 4>>, <<2, 1, 4, 3>>, <<3, 4, 1, 2>>, <<4, 1, 2, 3>>}
Required == <<{1}, {2}, {1, 2}, {3}>>
TaskOfBundle(k, resident, plan) ==
  [session |-> (k + 1) \div 2, position |-> 2 - (k % 2), required |-> Required[k], plan |-> plan,
   resident |-> resident, reuse |-> k = 3]
TasksIn(listing, resident, plan) == [i \in 1 .. 4 |-> TaskOfBundle(listing[i], resident[listing[i]], plan)]
Structure == [reuse |-> 50, reused |-> 1, superseded |-> 1, sigmaDefined |-> TRUE]
SizeOfVersion == <<1, 2, 3>>
Residents == [1 .. 4 -> {{1}, {2}, {1, 2}, {3}}]
\* The control keeps version 1 throughout; the whole-percent bundle keeps {1, 2}.
Same(set) == [k \in 1 .. 4 |-> set]

PickBundle ==
  /\ Waiting
  /\ \E listing, other \in Listing, resident \in Residents, plan \in {{1, 2}, {1, 2, 3}},
        fractional \in BOOLEAN :
       case' = [kind |-> "bundle", listing |-> listing, other |-> other, resident |-> resident,
                plan |-> plan, fractional |-> fractional]

(* Whatever order the tasks are listed in, session i of a bundle opens with   *)
(* what was resident at its first task and holds its own tasks in order; and  *)
(* a budget cell is built only on a bundle that asks the control's questions, *)
(* in the control's places, with other residents, which at a fractional       *)
(* budget are not those of its whole part (run_e23_reuse_density.py:315-458,  *)
(* run_e27.py:232-405, run_e28.py:437-612).                                   *)
BundlesAreSound ==
  case.kind = "bundle" =>
    LET tasks == TasksIn(case.listing, case.resident, case.plan)
        bundle == Few!PrepareBundle(tasks, 7, Structure)
        control == Few!PrepareBundle(TasksIn(case.other, Same({1}), case.plan), 5, Structure)
        whole == Few!PrepareBundle(TasksIn(case.listing, Same({1, 2}), case.plan), 6, Structure)
        built == Few!BuildE28(bundle, Few!Identity(bundle), control, Few!Identity(control), 14, 50,
                              case.fractional, whole, SizeOfVersion)
    IN /\ Few!Prepared(tasks) <=> case.plan = {1, 2, 3}
       /\ \A i \in 1 .. 2 :
            LET s == bundle.sessions[i]
            IN /\ s.initial = case.resident[2 * s.id - 1]
               /\ \A p \in 1 .. 2 : s.tasks[p].required = Required[2 * (s.id - 1) + p]
               /\ Few!ResidentOf(bundle, i, SizeOfVersion).tokens =
                    SumSet({SizeOfVersion[v] : v \in case.resident[2 * s.id - 1]})
       /\ MapThenSumSet(LAMBDA i : Few!ReuseProfile(bundle)[i].reuse, 1 .. 2) = 1
       /\ Few!SliceVersions(bundle, 1 .. 2) = 1 .. 3
       /\ built => /\ Few!Prepared(tasks)
                   /\ \A i, p \in 1 .. 2 : bundle.sessions[i].tasks[p].required
                                           = control.sessions[i].tasks[p].required
                   /\ \E k \in 1 .. 4 : case.resident[k] # {1}
                   /\ case.fractional => \E s \in 1 .. 2 : case.resident[2 * s - 1] \notin {{1, 2}, {3}}
       /\ Few!BuildE27(bundle, Few!Identity(bundle), control, Few!Identity(control), 14, 50)
            <=> case.plan = {1, 2, 3} /\ case.listing = case.other

-----------------------------------------------------------------------------
\* An earlier start left a file or none; each of the two new starts may fail to write its own.
PickProbe ==
  /\ Waiting
  /\ \E files \in [1 .. 2 -> 0 .. 2], writes \in [1 .. 2 -> BOOLEAN], keySet \in BOOLEAN :
       case' = [kind |-> "probe", files |-> files, writes |-> writes, keySet |-> keySet]

(* What the registry phase reports of a start is of that start, and it tells  *)
(* the injection only when both starts reported                               *)
(* (run_e23_reuse_density.py:795-822, 947-1037).                              *)
ProbesAreFresh ==
  case.kind = "probe" =>
    LET registry == Cel!PhaseRegistry(case.files, case.writes)
    IN /\ \A k \in 1 .. 2 : registry.reports[k] = IF case.writes[k] THEN 2 + k ELSE 0
       /\ registry.injection.known <=> (case.writes[1] /\ case.writes[2])
       /\ (Cel!PhaseAuth(case.keySet, [without |-> "no", with |-> "yes"]).withKey = "yes") <=> case.keySet

(* Before a model is called, everything a wave of a pi cell starts from is    *)
(* what the cell says of it: the window, the bundle and the registry.         *)
SetUpIsSound == WindowIsSteady /\ BundlesAreSound /\ ProbesAreFresh

-----------------------------------------------------------------------------
(* What the cells make of the units they kept: two sessions of two turns in   *)
(* two arms, any of which may be missing, and a warm-up.                      *)
Rd == INSTANCE Readout WITH SessionLength <- 2, Matrix <- <<<<1, 1>>, <<1, 2>>, <<2, 1>>, <<2, 2>>>>,
                            CacheMinPrefix <- 3, BudgetCap <- 6000
MeasuredWindow == <<"s1", "s2">>
Measured12 == Rd!Arms \X {"s1", "s2"}

Writing == Usage(1, 1, 0, 4, 4, 6)
Growing == Usage(1, 1, 4, 1, 1, 7)
Resident == Usage(0, 1, 6, 0, 0, 7)
Unstored == [input |-> 4, output |-> 1, totalTokens |-> 5]     \* keys are missing
Kept == {<<Writing, Growing>>, <<Resident, Growing>>, <<Unstored, Resident>>}
Provider(leg) == IF leg = "A" THEN "anthropic" ELSE "openai"
KeptUnit(leg, arm, usages) ==
  LET turns == [n \in DOMAIN usages |-> [events |-> <<Message("message_end", "assistant", usages[n], "end")>>,
                                          code |-> 0, audit |-> 0]]
  IN [rows |-> Cel!Unit(turns, Provider(leg)).rows, named |-> TRUE,
      paths |-> [starts |-> 0, bridge |-> 0, db |-> IF arm = "karc-full" THEN <<0>> ELSE <<>>]]

\* Every unit the runner may have kept.
KeptUnits == [leg \in Rd!Legs, arm \in Rd!Arms, usages \in Kept |-> KeptUnit(leg, arm, usages)]

OtherLeg(leg) == IF leg = "A" THEN "B" ELSE "A"
OnLeg(leg, files) == [l \in Rd!Legs |-> IF l = leg THEN files ELSE <<>>]
CellOn(leg) == IF leg = "A" THEN "a10" ELSE "o20"
SteadyReport(fired) == <<[reached |-> ~fired, fired |-> fired, window |-> MeasuredWindow]>>

\* A leg's unit files, and what each cell's main writes for them.
Readings(leg, files, fired) ==
  [e18 |-> Rd!Main18(OnLeg(leg, files), MeasuredWindow),
   e19 |-> Rd!Main19(OnLeg(leg, files), <<"s0">>, MeasuredWindow, OnLeg(leg, SteadyReport(fired))),
   e23 |-> Rd!Main23([low |-> files, high |-> files],
                     [low |-> SteadyReport(fired), high |-> SteadyReport(FALSE)], <<>>),
   e27 |-> Rd!Main27(files, SteadyReport(fired), <<>>),
   e28 |-> Rd!Main28([tag \in DOMAIN Rd!LegOf |-> IF tag = CellOn(leg) THEN files ELSE <<>>],
                     MeasuredWindow)]

PickReadout ==
  /\ Waiting
  /\ \E leg \in Rd!Legs, usages \in [Measured12 -> Kept \cup {<<>>}], fired \in BOOLEAN :
       LET there == {k \in Measured12 : usages[k] # <<>>}
           files == [k \in there \cup {<<"karc-full", "s0">>} |->
                       KeptUnits[leg, k[1], IF k[2] = "s0" THEN <<Writing, Growing>> ELSE usages[k]]]
       IN /\ Cardinality(there) \in {0, 3, 4}
          /\ case' = [kind |-> "kept", leg |-> leg, fired |-> fired, there |-> there, files |-> files]
\* The analyses are run on what a wave has left.
Analyze ==
  /\ case.kind = "kept"
  /\ case' = [case EXCEPT !.kind = "readout"] @@ [read |-> Readings(case.leg, case.files, case.fired)]

(* A cell is judged when its whole window is there and not otherwise: E18 and *)
(* E19 leave the leg out, E23 withholds its overall verdict, E27 and E28      *)
(* write nothing; and E23 and E27 read no unit where no steady state was      *)
(* found (main and judge of analyze_e18.py, _e19, _e23, _e27, _e28).          *)
OnlyWholeIsJudged ==
  case.kind = "readout" =>
    LET whole == case.there = Measured12
        e18 == case.read.e18  e19 == case.read.e19  e23 == case.read.e23
    IN /\ (Rd!VerdictOn(e18, case.leg).status = "judged") <=> whole
       /\ (Rd!VerdictOn(e19, case.leg).status = "judged") <=> whole
       /\ Rd!VerdictOn(e18, OtherLeg(case.leg)) = Rd!NotRun
       /\ Rd!Written(e18) /\ Rd!Written(e19)
       /\ whole => "H5" \notin e18[case.leg].check.fired
       /\ (e23 = <<>>) <=> case.fired
       /\ (~case.fired /\ e23[1].judged.overall = "HELD") => whole
       /\ (case.read.e27 # <<>>) <=> (whole /\ ~case.fired)
       /\ Rd!Written28(case.read.e28) <=> (whole \/ case.there = {})

SpentOn(c, keys) == MapThenSumSet(LAMBDA k : Cel!StandardPriced(Provider(c.leg), c.files[k].rows), keys)
(* What an analysis says a leg cost is what the guard of the wave saw of its  *)
(* units, E19's with the warm-up; the arms' totals, taken from sums of each   *)
(* component, are the same money; and what is said of unmeasured reads agrees *)
(* with the condition that fired (crosscheck and leg_statistics of            *)
(* analyze_e18.py, _e19, _e23; run_e19_steady_state.py:932-947).              *)
MoneyIsCountedOnce ==
  case.kind = "readout" /\ case.there # {} =>
    LET leg == case.leg  e18 == case.read.e18  e19 == case.read.e19
        check == e19[leg].check  spent == SpentOn(case, case.there)
        e28 == Rd!Budget28(case.read.e28)
    IN /\ Rd!Budget18(e18).total = spent
       /\ Rd!Budget19(e19).total = SpentOn(case, DOMAIN case.files)
       /\ e28.standard = spent /\ e28.charged <= spent
       /\ e18[leg].stats.complete =>
            e18[leg].stats.totals["karc-full"] + e18[leg].stats.totals["rag-bm25"] = spent
       /\ (\E arm \in Rd!Arms : check.misread[arm] > 0) <=> "H11" \in check.fired
       /\ "H4cold" \in check.fired => "H8" \in check.fired
       /\ "H10" \in check.fired <=> case.fired

(* The verdicts of the cells are of one piece.  A reversal is a larger gross  *)
(* total at a smaller price, and E18's two predictions are E19's one; the     *)
(* break-even price says of the totals which arm is the cheaper, when each    *)
(* write was paid at the one price it is compared with; and where every       *)
(* session is cheaper the interval is (judge of analyze_e18.py, _e19, _e23,   *)
(* _e28; leg_statistics).                                                     *)
VerdictsAgree ==
  case.kind = "readout" /\ case.there = Measured12 =>
    LET leg == case.leg  e18 == case.read.e18[leg].judged  e19 == case.read.e19[leg].judged
        stats == case.read.e19[leg].stats
        cells == Rd!JudgedCells(case.read.e28)  b == cells[CellOn(leg)]
        questions == Rd!BatchQuestions(cells, <<<<50, "control">>>>)
        karc == stats.totals["karc-full"]  rag == stats.totals["rag-bm25"]
        profile == Rd!WindowProfile(stats.sessions)
    IN /\ e19.reversal = "ESTABLISHED" => stats.delta.gross > 0 /\ karc < rag
       /\ leg = "A" => (e19.reversal = "ESTABLISHED" <=> (e18.p1 = "PASS" /\ e18.p2 = "PASS"))
       /\ e19.q3 = e18.component /\ e19.q3 = b.b3
       /\ leg = "B" /\ ~case.fired =>
            /\ case.read.e27[1].judged.s1 = e19.q3 /\ case.read.e27[1].judged.b4 = b.b4
            /\ case.read.e23[1].judged.overall = IF e19.q3 = "PASS" THEN "HELD" ELSE "NOT HELD"
       /\ stats.delta.creation < 0 => (Rd!Predicted(stats) = "reversal" <=> karc < rag)
       /\ profile.pricedBelow = {1, 2} => stats.priced.below
       /\ profile.grossAbove = {1, 2} => stats.gross.above
       /\ stats.priced.below => profile.pricedBelow # {}
       /\ leg = "B" => questions.sweep = <<<<50, "control">>, <<200, "o20">>>> /\ questions.at20 = <<b.b1>>

\* The messages of pi's own session file, all of them or all but the last.
StoredOf(unit) ==
  [i \in DOMAIN Rd!CallsOf(unit) |-> [role |-> "assistant", reports |-> TRUE, usage |-> Rd!CallsOf(unit)[i].usage,
                                      stop |-> Rd!CallsOf(unit)[i].stop]]
(* The second acquisition route confirms a unit only if it saw the same calls *)
(* with the same counters: a file that ends early, an earlier file, or none   *)
(* disagrees; and so does a counter the provider left out, which one route    *)
(* reads as nothing and the other as zero (session_store_usage of             *)
(* analyze_e19.py:169-196).                                                   *)
StoreIsAWitness ==
  case.kind = "readout" =>
    \A k \in DOMAIN case.files :
      LET unit == case.files[k]  stored == StoredOf(unit)
      IN /\ Rd!StoreAgrees(unit, <<<<>>, stored>>) <=>
              \A i \in DOMAIN stored : {"cacheRead", "cacheWrite"} \subseteq DOMAIN stored[i].usage
         /\ ~Rd!StoreAgrees(unit, <<stored, Front(stored)>>)
         /\ ~Rd!StoreAgrees(unit, <<>>)

-----------------------------------------------------------------------------
(* The units of the metered cell: threads of two turns, as CodexCell keeps    *)
(* them, whose requests may have been answered from an entry somebody else    *)
(* wrote, or from none.                                                       *)
Cdx == INSTANCE CodexCell WITH Units <- {1}, Turns <- 2, CallUsages <- {}, MaxCalls <- 2, Workers <- 1,
         Retries <- 0, Stop <- 0, MaxWaves <- 1, Varied <- {}, proc <- 0, job <- 0, results <- 0,
         failed <- {}, driven <- {}, observed <- 0, ledger <- 0
Asks(input, cached, write) == [input |-> input, cached |-> cached, write |-> write, output |-> 1]
Starting == Asks(4, 0, 4)
Going == Asks(6, 4, 2)
Warmed == Asks(6, 5, 1)
Elsewhere == Asks(4, 3, 0)
Uncached == Asks(4, 0, 0)
Apart == Asks(1, 4, 0)          \* what an exclusive report would look like
Threads21 == {<<<<Starting>>, <<Going, Going>>>>, <<<<Warmed, Going>>, <<Warmed>>>>,
              <<<<Elsewhere>>, <<Uncached>>>>, <<<<Apart>>, <<Apart>>>>}

\* A thread's rows, each from two of its totals and its slice of the rollout.
RowsOf21(requests) ==
  LET first == Cdx!SumUsage(requests[1])
      rows == <<Cdx!TurnRow(first, Cdx!Zero, requests[1], 0),
                Cdx!TurnRow(Cdx!Plus(first, Cdx!SumUsage(requests[2])), first, requests[2], Len(requests[2]) - 1)>>
  IN [n \in 1 .. 2 |-> rows[n] @@ [requests |-> requests[n], refused |-> FALSE]]
ThreadRows == [requests \in Threads21 |-> RowsOf21(requests)]
Unit21(key, requests) ==
  [rows |-> ThreadRows[requests], thread |-> key, placed |-> TRUE,
   paths |-> IF key[1] = "karc-full" THEN [items |-> 1, guard |-> 1, db |-> <<1>>] ELSE [items |-> 0, guard |-> 0, db |-> <<>>]]

PickThreads ==
  /\ Waiting
  /\ \E requests \in [Measured12 -> Threads21 \cup {<<>>}], proved \in BOOLEAN :
       LET there == {k \in Measured12 : requests[k] # <<>>}
           files == [k \in there |-> Unit21(k, requests[k])]
       IN /\ Cardinality(there) \in {0, 3, 4}
          /\ case' = [kind |-> "driven", there |-> there, files |-> files, proved |-> proved, requests |-> requests]
AnalyzeThreads ==
  /\ case.kind = "driven"
  /\ case' = [case EXCEPT !.kind = "threads"] @@
                [read |-> Rd!Main21(case.files, <<"s0">>, MeasuredWindow, <<>>, <<case.proved>>, <<>>, <<2>>)]

Requests(c) == UNION {{c.requests[k][n][i] : i \in DOMAIN c.requests[k][n]} : <<k, n>> \in c.there \X {1, 2}}
(* What E21 reads from its threads.  Nothing is judged unless all is there,   *)
(* and nothing at all is written without a unit.  The reading of input that   *)
(* the prices rest on is confirmed only when no request and no turn speaks    *)
(* against it, and refused when every request does; the price of the turns is *)
(* the price of their totals, and of what CodexCell booked; differences of    *)
(* totals never fire H3; and on confirmed units a threshold below the card's  *)
(* with fewer written tokens is a karc arm that costs less                    *)
(* (analyze_e21.py:152-222, 227-411, 565-673, 863-918).                       *)
ThreadsAreRead ==
  case.kind = "threads" =>
    LET whole == case.there = Measured12
        inside == \A r \in Requests(case) : r.cached + r.write <= r.input
        check == case.read[1].check  judged == case.read[1].judged  stats == case.read[1].stats
    IN /\ (case.read = <<>>) <=> (case.there = {})
       /\ case.read # <<>> =>
            /\ (judged.status = "judged") <=> whole
            /\ (check.inclusion = "inclusive") <=> inside
            /\ (check.inclusion = "exclusive") <=> (Requests(case) = {Apart})
            /\ check.cost = check.oneShot
            /\ check.cost = MapThenSumSet(LAMBDA k : Cdx!Total([n \in 1 .. 2 |-> Cdx!Priced(case.files[k].rows[n].delta)]),
                                          case.there)
            /\ check.agreeing = 2 * Cardinality(case.there)
            /\ "H3" \notin check.fired /\ "H10" \notin check.fired
            /\ "H11" \in check.fired <=> ~case.proved
            /\ "H9" \in check.fired <=> (\E r \in Requests(case) : r = Elsewhere)
            /\ whole => /\ stats.totals["karc-full"] + stats.totals["rag-bm25"] = check.cost
                        /\ judged.r1 = "PASS" => (judged.r3 = "PASS" <=> stats.totals["karc-full"] < stats.totals["rag-bm25"])
                        /\ judged.r2 = "PASS" => stats.totals["karc-full"] < stats.totals["rag-bm25"]

PickReadings == PickReadout \/ Analyze \/ PickThreads \/ AnalyzeThreads
ReadoutIsHonest ==
  OnlyWholeIsJudged /\ MoneyIsCountedOnce /\ VerdictsAgree /\ StoreIsAWitness /\ ThreadsAreRead

PickPi == PickUnit \/ StartPacer \/ Tick \/ (\E t \in Threads : Pass(t) \/ Finish(t))
          \/ PickRamp \/ PickBundle \/ PickProbe
=============================================================================
