------------------------------- MODULE Stage2 -------------------------------
(* The frozen fixture of stage 2: what each document says                     *)
(* (bench/corpus_text.py, nonce.py), the sixty tasks that ask for it          *)
(* (bench/tasks.py), and the plan of what a policy supplies for each of them  *)
(* (bench/working_set.py).  Policies and outcomes are arguments.              *)
EXTENDS Workload, FiniteSetsExt, TLC

CONSTANTS
  Low, High,            \* the range of a fact's values, of at least two
  Value(_, _, _),       \* the value drawn for a document's fact, by its salt
  Start(_, _),          \* make_policy
  Step(_, _),           \* on_event
  Held(_),              \* working_set
  Events(_, _),         \* outcome_events of a task and what was held before it
  Broken(_)             \* on_event has raised an InvariantViolation

\* The groups by project; conflict_pairs are adjacent: the ratified one is even.
Role(d) ==
  LET group == d[1] IN
  CASE group \in {"hotA", "hotB", "sharedHot"} -> "hot"
    [] group \in {"criticalA", "criticalB"} -> "critical"
    [] group \in {"oldA", "oldB"} -> "superseded_v1"
    [] group \in {"newA", "newB"} -> "superseded_v2"
    [] group \in {"conflictA", "conflictB"} -> IF d[2] % 2 = 0 THEN "conflict_x" ELSE "conflict_y"
    [] group \in {"chainA", "chainB"} -> "chain"
    [] group = "long" -> "oversize"
    [] group = "useless" -> "useless_preload"
    [] OTHER -> "distractor"
\* superseded_by of a first version, ratified of a draft
Twin(d) ==
  CASE d[1] = "oldA" -> <<"newA", d[2]>>
    [] d[1] = "oldB" -> <<"newB", d[2]>>
    [] OTHER -> <<d[1], d[2] - 1>>

\* alt_value: a value of the range that is not the one it replaces.
\* Mutant of Other: whatever was drawn.
OtherDrawn(value, draw) == draw
Other(value, draw) == IF draw # value THEN draw ELSE Low + ((value - Low + 1) % (High - Low + 1))
FactOf(d, i) == [key |-> <<d, i>>, value |-> Value(d, i, "own")]
\* Mutant of Facts: what a twin says is drawn as if it were another document's.
FactsDrawn(d) ==
  IF Role(d) \in {"superseded_v1", "conflict_y"}
  THEN [i \in {0, 1} |-> [key |-> <<Twin(d), i>>, value |-> Value(d, i, "own")]]
  ELSE [i \in {0, 1} |-> FactOf(d, i)]
Facts(d) ==
  IF Role(d) \in {"superseded_v1", "conflict_y"}
  THEN [i \in {0, 1} |->
          LET base == FactOf(Twin(d), i)
          IN [base EXCEPT !.value = Other(@, Value(d, i, Role(d)))]]
  ELSE [i \in {0, 1} |-> FactOf(d, i)]

-----------------------------------------------------------------------------
(* generate_tasks: a task without its number is [art, fact, required,         *)
(* forbidden, phase].                                                         *)
Ask(phase, d) == [art |-> d, fact |-> 0, required |-> <<d>>, forbidden |-> {}, phase |-> phase]
AskAll(phase, group, from, n) == [i \in 1 .. n |-> Ask(phase, <<group, from + i - 1>>)]
AskChains(phase, group) ==
  [i \in 1 .. GroupSize[group] \div 3 |->
     [Ask(phase, <<group, 3 * i - 1>>) EXCEPT !.required = [j \in 1 .. 3 |-> <<group, 3 * (i - 1) + j - 1>>]]]
AskNew(phase, old, new) ==
  [i \in 1 .. 4 |-> [Ask(phase, <<new, i - 1>>) EXCEPT !.forbidden = {<<old, i - 1>>}]]
Second(tasks) == [i \in DOMAIN tasks |-> [tasks[i] EXCEPT !.fact = 1]]

PhaseA == AskAll("A", "hotA", 0, 10) \o AskChains("A", "chainA") \o AskAll("A", "criticalA", 0, 4)
          \o AskAll("A", "long", 0, 2) \o AskNew("A", "oldA", "newA") \o AskAll("A", "conflictA", 0, 1)
PhaseB == AskAll("B", "hotB", 0, 10) \o AskChains("B", "chainB") \o AskAll("B", "criticalB", 0, 4)
          \o AskAll("B", "long", 2, 2) \o AskNew("B", "oldB", "newB") \o AskAll("B", "conflictB", 0, 1)
          \o AskAll("B", "sharedHot", 0, 1)
Return == AskAll("A-return", "hotA", 10, 5) \o Second(AskAll("A-return", "hotA", 0, 3))
          \o AskAll("A-return", "conflictA", 2, 1) \o AskAll("A-return", "conflictB", 2, 1)
          \o AskAll("A-return", "sharedHot", 1, 2)
Tasks == PhaseA \o PhaseB \o Return
Main(seq) == seq % 3 # 0
Expected(task) == Facts(task.art)[task.fact]

-----------------------------------------------------------------------------
(* stage2_task_specs and derive_working_sets.                                 *)
Preloads == PreloadSet
StreamEvent(seq, j, type, cls, d) ==
  [id |-> <<"s2", seq, j, type>>, type |-> type, cls |-> cls, art |-> d, task |-> seq]
Spec2(seq) ==
  LET task == Tasks[seq]
      loads == IF (seq - 1) % SessionTasks # 0 THEN <<>>
               ELSE [j \in DOMAIN Preloads |-> StreamEvent(seq, j, "loaded", "preload", Preloads[j])]
      reads == [j \in DOMAIN task.required |-> StreamEvent(seq, j, "read", "none", task.required[j])]
  IN [id |-> seq, required |-> ToSet(task.required), forbidden |-> task.forbidden,
      refs |-> [j \in DOMAIN task.required |-> <<"read", task.required[j]>>], events |-> loads \o reads]

\* The fold stops for good when the policy raises.
StepUnlessBroken(pol, e) == IF Broken(pol) THEN pol ELSE Step(pol, e)
\* Mutant of PlanTask: what is supplied for a task is looked up after its reads.
PlanTaskLate(plan, spec) ==
  LET read == FoldLeft(StepUnlessBroken, plan.policy, spec.events)
      held == Held(read)
      outcome == Events(spec, held)
  IN [policy |-> FoldLeft(StepUnlessBroken, read, outcome), supply |-> Append(plan.supply, held),
      outcomes |-> Append(plan.outcomes, outcome)]
PlanTask(plan, spec) ==
  LET held == Held(plan.policy)
      read == FoldLeft(StepUnlessBroken, plan.policy, spec.events)
      outcome == IF Broken(read) THEN <<>> ELSE Events(spec, held)
  IN IF Broken(plan.policy) THEN plan
     ELSE [policy |-> FoldLeft(StepUnlessBroken, read, outcome), supply |-> Append(plan.supply, held),
           outcomes |-> Append(plan.outcomes, outcome)]
NoPlan(name, budget) == [policy |-> Start(name, budget), supply |-> <<>>, outcomes |-> <<>>]
-----------------------------------------------------------------------------
(* The working directory of a benchmark run (bench/materialize.py,            *)
(* mcp_index.py), its isolated Codex home (environment.py), and what is made  *)
(* of an answer (grade.py).  A document is known by its id; where it is and   *)
(* who may read it there is all that matters of it.                          *)

CONSTANTS Docs,       \* the manifest's artifacts, each with a file in the fixture's repository
          Preload,    \* those with preload
          Size        \* size_tok

NoSet == <<-1>>   \* ws_artifact_ids is None
Known(ids) == SelectSeq(ids, LAMBDA d : d \in Docs)
Tokens(ids) == FoldLeft(LAMBDA n, d : n + Size[d], 0, ids)

-----------------------------------------------------------------------------
(* The per-run index.  A row of versions that is live is unique for its       *)
(* artifact; an error rolls all of it back.                                   *)
NoIndex == [arts |-> {}, scope |-> "none"]
\* Mutant of BuildIndex: what was managed but is not in its place is indexed too.
BuildIndexBlind(index, scope, ids, placed) ==
  [ok |-> IsInjective(ids), index |-> [arts |-> index.arts \cup ToSet(ids), scope |-> scope]]
BuildIndex(index, scope, ids, placed) ==
  LET found == SelectSeq(ids, LAMBDA d : d \in Docs /\ d \in placed)
  IN IF ~IsInjective(found) \/ index.arts \cap ToSet(found) # {}
     THEN [ok |-> FALSE, index |-> index]
     ELSE [ok |-> TRUE, index |-> [arts |-> index.arts \cup ToSet(found), scope |-> scope]]

-----------------------------------------------------------------------------
(* materialize.  repo: the documents at their own paths; managed: those under *)
(* .karc/managed; injected: what the session starts with; deny: what keeps    *)
(* the session off the files.                                                *)
Empty == [ok |-> TRUE, repo |-> {}, managed |-> {}, injected |-> {}, tokens |-> 0,
          index |-> NoIndex, deny |-> "nothing", told |-> FALSE]
Refused(dir) == [dir EXCEPT !.ok = FALSE]
Copied == [Empty EXCEPT !.repo = Docs]
Injecting(dir, ids) == [dir EXCEPT !.injected = ToSet(ids), !.tokens = Tokens(ids)]

\* The subset is moved; a second mention finds its file gone and moves nothing.
Relocated(ids) ==
  LET known == Known(ids)
      moved == [Copied EXCEPT !.repo = @ \ ToSet(known), !.managed = ToSet(known)]
      built == BuildIndex(NoIndex, "workdir", known, moved.managed)
  IN [moved EXCEPT !.ok = built.ok, !.index = built.index]

McpDir(ids, condition, deny) ==
  LET moved == Relocated(ids)
  IN IF ~moved.ok THEN moved
     ELSE [moved EXCEPT !.told = condition \in {"c1", "c2"},
                        !.deny = IF condition = "c2" THEN deny ELSE "nothing"]

ClaudeDir(arm, ws, managed, condition) ==
  CASE arm = "closed-book" -> Empty
    [] arm = "static-full" -> Injecting(Copied, SetToSeq(Preload))
    [] arm \in {"classic", "karc"} -> IF ws = NoSet THEN Refused(Copied) ELSE Injecting(Copied, Known(ws))
    [] arm = "mcp" -> McpDir(managed, condition, "reads")
    [] OTHER -> Refused(Copied)

\* Mutant of CodexDir: a closed context gets the whole repository.
CodexDirOpen(arm, ws, managed, condition) ==
  CASE arm = "closed-book" -> [Empty EXCEPT !.deny = "all"]
    [] arm = "closed-context" -> IF ws = NoSet THEN Refused(Empty) ELSE Injecting(Copied, Known(ws))
    [] arm = "static-full" -> Injecting(Copied, SetToSeq(Preload))
    [] arm = "mcp" -> McpDir(managed, condition, "managed")
    [] arm = "search-only" -> Copied
    [] OTHER -> IF ws = NoSet THEN Refused(Copied) ELSE Injecting(Copied, Known(ws))
CodexDir(arm, ws, managed, condition) ==
  CASE arm = "closed-book" -> [Empty EXCEPT !.deny = "all"]
    [] arm = "closed-context" ->
         IF ws = NoSet THEN Refused(Empty)
         ELSE Injecting([Empty EXCEPT !.repo = ToSet(Known(ws))], Known(ws))
    [] arm = "static-full" -> Injecting(Copied, SetToSeq(Preload))
    [] arm = "search-only" -> Copied
    [] arm \in {"classic", "karc", "rag-bm25", "rag-embed", "recency"} ->
         IF ws = NoSet THEN Refused(Copied) ELSE Injecting(Copied, Known(ws))
    [] arm = "mcp" -> McpDir(managed, condition, "managed")
    [] OTHER -> Refused(Copied)

\* What a session can read with a tool of its runtime.
Readable(dir, tool) ==
  CASE dir.deny = "all" -> {}
    [] tool = "karc" -> dir.index.arts
    [] dir.deny = "managed" \/ (dir.deny = "reads" /\ tool \in {"Read", "Grep"}) -> dir.repo
    [] OTHER -> dir.repo \cup dir.managed

-----------------------------------------------------------------------------
(* ControlledCodexHome: an environment is a function of the variables set.    *)
Allowed == {"PATH", "LANG"}   \* stands for the allow-list
Over(env, more) ==
  [k \in DOMAIN env \cup DOMAIN more |-> IF k \in DOMAIN more THEN more[k] ELSE env[k]]
\* Mutant of ChildEnvironment: the run's own variables are set first.
ChildEnvironmentEarly(host, extra, overrides) ==
  Over(Over(Over([k \in {"HOME", "LOG"} |-> "own"] @@ [k \in {"MODE"} |-> "observe"],
                 [k \in DOMAIN host \cap Allowed |-> host[k]]), extra), overrides)
ChildEnvironment(host, extra, overrides) ==
  LET child == Over(Over([k \in DOMAIN host \cap Allowed |-> host[k]], extra), overrides)
      forced == Over(child, [k \in {"HOME", "LOG"} |-> "own"])
  IN Over([k \in {"MODE"} |-> "observe"], forced)
\* A torn line of the audit log is passed over.
AuditEvents(lines) == SelectSeq(lines, LAMBDA l : l = "row")

-----------------------------------------------------------------------------
(* Grading.  A text is a set of statements <<key, digits>>, digits a sequence; *)
(* the regex of an answer ends where the digits end.                          *)
\* Mutant of Matches: without the look-ahead a prefix will do.
MatchesPrefix(answer, text) == \E s \in text : s[1] = answer[1] /\ IsPrefix(answer[2], s[2])
Matches(answer, text) == \E s \in text : s[1] = answer[1] /\ s[2] = answer[2]
NoAnswer == <<<<<<"none", 0>>, 0>>, <<>>>>
Classify(expected, stale, text) ==
  IF Matches(expected, text) THEN "correct"
  ELSE IF stale # NoAnswer /\ Matches(stale, text) THEN "stale" ELSE "other-wrong"
Leaked(canaries, output, transcript) ==
  canaries \cap (output \cup UNION {e.text : e \in {e \in ToSet(transcript) : e.kind = "text"}})

\* mcp_adoption: how a tool use counts; an event of another kind does not.
UseClass(e) ==
  CASE e.kind = "guard_denied" -> "denied"
    [] e.kind # "tool_use" -> "none"
    [] e.karc -> "mcp"
    [] ~e.native \/ e.failed -> "none"
    [] e.managed -> "managed"
    [] OTHER -> "other"
Uses(transcript, class) == Cardinality({i \in DOMAIN transcript : UseClass(transcript[i]) = class})
AdoptionRate(transcript) ==
  LET mcp == Uses(transcript, "mcp")  all == mcp + Uses(transcript, "managed")
  IN IF all = 0 THEN <<>> ELSE <<mcp, all>>
=============================================================================
