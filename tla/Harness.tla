------------------------------- MODULE Harness ------------------------------
(* A benchmark execution: bench/harness.py runs the units of a schedule on   *)
(* a few threads, each with retries, and writes them when all are done;      *)
(* RunLoop of bench/checkpoint.py hands each outcome to its caller, waits    *)
(* for usage limits to pass, and starts from the rows an earlier process      *)
(* left. The caller's sink (external) appends a row per outcome.             *)
EXTENDS Integers, Sequences, SequencesExt, FiniteSets

(* What the drivers of the benchmark make of one run of a CLI, from          *)
(* bench/driver.py. A run is an exit code and the events its output holds;   *)
(* texts are "" (none), "limit" (matches USAGE_LIMIT_RE) or "said", and a    *)
(* count of tokens stands for a usage record where its parts play no role.   *)

None == "none"
Result(class, model, usage, text, thread) ==
    [class |-> class, model |-> model, usage |-> usage, text |-> text, thread |-> thread]
Failure(class, model, thread) == Result(class, model, 0, "", thread)

-----------------------------------------------------------------------------
(* ClaudeCliDriver                                                           *)
NothingRead == [text |-> "", usage |-> 0, model |-> None, error |-> "", refused |-> FALSE]

(* An assistant event: its usage is added. A result event: its text and      *)
(* usage replace what was gathered, unless it has none; modelUsage names a   *)
(* model only when no message did.                                           *)
ReadClaudeEvent(r, ev) ==
    IF ev.type = "assistant"
    THEN [r EXCEPT !.model = IF ev.model # None THEN ev.model ELSE @,
                   !.usage = @ + ev.usage]
    ELSE LET bad == ev.isError \/ ev.subtype \notin {"", "success"} IN
         [text    |-> IF ev.text # "" THEN ev.text ELSE r.text,
          usage   |-> IF ev.usage # 0 THEN ev.usage ELSE r.usage,
          model   |-> IF r.model = None THEN ev.model ELSE r.model,
          error   |-> IF ~bad THEN r.error ELSE IF ev.subtype # "" THEN ev.subtype ELSE "result_error",
          refused |-> IF bad THEN ev.isError \/ r.refused ELSE r.refused]

(* Reaching the turn limit is an outcome of the task. Any other error is a   *)
(* usage limit if its text says so, or if it says nothing at all under the   *)
(* signature such refusals have. A failed call carries no usage.             *)
ClaudeResult(code, events) ==
    LET r == FoldLeft(ReadClaudeEvent, NothingRead, events)
        limit == r.text = "limit" \/ (r.refused /\ r.error = "success" /\ r.text = "")
    IN IF code # 0 /\ events = <<>> THEN Failure("api_error", None, None)
       ELSE IF r.error \notin {"", "error_max_turns"}
            THEN Failure(IF limit THEN "usage_limit" ELSE "api_error", None, None)
       ELSE Result(None, r.model, r.usage, r.text, None)

(* run: a call that times out or cannot be spawned has no output to read.    *)
ClaudeRun(call) ==
    IF call.end = "timeout" THEN Failure("api_error", None, None)
    ELSE IF call.end = "spawn" THEN Failure("harness_error", None, None)
    ELSE ClaudeResult(call.code, call.events)

-----------------------------------------------------------------------------
(* CodexCliDriver                                                            *)
Absent == -1       \* a usage record of a CLI that reports no cache writes
NoUsage == [input |-> 0, cached |-> 0, write |-> Absent, output |-> 0]
NothingSeen == [text |-> "", usage |-> NoUsage, thread |-> None, failed |-> "", unknown |-> FALSE]

(* An event is of a type of the schema or unknown; items count when they     *)
(* complete, and the last message is the answer.                             *)
ReadCodexEvent(r, ev) ==
    CASE ev.type = "thread.started" -> [r EXCEPT !.thread = ev.id]
      [] ev.type \in {"turn.started", "item.started", "item.updated", "tool", "error item"} -> r
      [] ev.type = "agent_message" -> [r EXCEPT !.text = ev.text]
      [] ev.type = "turn.completed" -> [r EXCEPT !.usage = IF ev.usage # NoUsage THEN ev.usage ELSE @]
      [] ev.type \in {"turn.failed", "error"} -> [r EXCEPT !.failed = ev.text]
      [] OTHER -> [r EXCEPT !.unknown = TRUE]

(* Fresh input is what is neither read from the cache nor, where the schema  *)
(* tells, written to it.                                                     *)
NormalizedKeepingWrites(u) ==
    LET write == IF u.write = Absent THEN 0 ELSE u.write IN
    [fresh |-> u.input - u.cached, read |-> u.cached, write |-> write, output |-> u.output]
Normalized(u) ==
    LET write == IF u.write = Absent THEN 0 ELSE u.write IN
    [fresh |-> u.input - u.cached - write, read |-> u.cached, write |-> write, output |-> u.output]
BucketsClose(u) == u.cached + (IF u.write = Absent THEN 0 ELSE u.write) <= u.input
(* usage_schema, and what "fresh" means under it *)
UsageSchema(u) == IF u.write = Absent THEN "v1: uncached+cache_write" ELSE "v2: uncached"

(* models: those the hooks of the call reported.                             *)
CodexResult(code, events, malformed, stderr, models) ==
    LET r == FoldLeft(ReadCodexEvent, NothingSeen, events)
        model == IF models # {} THEN CHOOSE m \in models : TRUE ELSE None
        text == IF r.failed # "" THEN r.failed ELSE stderr
    IN IF \E m, n \in models : m # n THEN Failure("harness_error", None, r.thread)
       ELSE IF malformed \/ r.unknown THEN Failure("harness_error", model, r.thread)
       ELSE IF r.failed # "" \/ code # 0
            THEN Failure(IF text = "limit" THEN "usage_limit" ELSE "api_error", model, r.thread)
       ELSE IF r.text = "" \/ r.usage = NoUsage \/ ~BucketsClose(r.usage)
            THEN Failure("harness_error", model, r.thread)
       ELSE Result(None, model, Normalized(r.usage), r.text, r.thread)

CodexRun(call) ==
    IF call.end = "timeout" THEN Failure("api_error", None, None)
    ELSE IF call.end = "spawn" THEN Failure("harness_error", None, None)
    ELSE CodexResult(call.code, call.events, call.malformed, call.stderr, call.models)

(* CodexPersistentSession.run_turn: the first turn that succeeds gives the   *)
(* thread later turns resume; a turn of another thread is refused.           *)
SessionTurn(thread, result) ==
    IF thread = None /\ result.class = None
    THEN IF result.thread = None
         THEN [thread |-> None, result |-> Failure("harness_error", result.model, None)]
         ELSE [thread |-> result.thread, result |-> result]
    ELSE IF thread # None /\ result.thread \notin {None, thread}
         THEN [thread |-> thread, result |-> Failure("harness_error", result.model, result.thread)]
         ELSE [thread |-> thread, result |-> result]

(* DriverResult.total_input_tokens, of a normalized record                   *)
TotalInput(u, withCache) == u.fresh + (IF withCache THEN u.read + u.write ELSE 0)
-----------------------------------------------------------------------------

CONSTANTS Order,        \* schedule(spec): the units in their shuffled order
          Replies,      \* results the driver may give: class and model
          Grades,       \* what grading a clean answer may say: ok, task
          Pin,          \* spec.model
          MaxRetries, Concurrency, MaxWindows,
          Cap,          \* the sink says stop when the file has that many rows
          Processes,    \* bound: processes started
          CutOff,         \* a line cut off by a crash, without a newline
          Mangled       \* such a line and the row appended to it

RunIds == Range(Order)
Class == {"ok", "task", "api_error", "harness_error", "usage_limit"}
Complete == {"ok", "task"}                    \* VALID_COMPLETE
Retryable == {"api_error", "harness_error"}
Probes == 3

ASSUME HarnessAssumption ==
    /\ Order \in Seq(RunIds) /\ RunIds # {} /\ IsInjective(Order)
    /\ Replies \subseteq [class : {None} \cup (Class \ Complete), model : {None, Pin, "other"}]
    /\ Grades \subseteq Complete /\ Grades # {}
    /\ {MaxRetries, Cap, Processes} \subseteq Nat
    /\ {Concurrency, MaxWindows} \subseteq Nat \ {0}
    /\ CutOff # Mangled /\ {CutOff, Mangled} \cap [unit : RunIds, class : Class] = {}

VARIABLES
    mode,       \* Harness.run ("grid") or RunLoop.run ("windows")
    pc,         \* of the main thread
    queue,      \* units not submitted
    task,       \* the threads' run_unit calls
    out,        \* how many outcomes this process has collected
    outcomes,   \* those of a grid, which are kept until its end
    hits,       \* limit_hits of this window
    stop,       \* stop, stop_submitting
    givenUp,    \* why the loop gave up
    window, probes,
    lines,      \* the file of rows: sequence of rows and CutOff
    process     \* processes started

harnessVars == <<mode, pc, queue, task, out, outcomes, hits, stop, givenUp, window, probes,
          lines, process>>
loop == <<mode, pc, queue, out, outcomes, hits, stop, givenUp, window, probes, process>>

NoTask == [phase |-> "absent", n |-> 0, class |-> None]
InPhase(phases) == {u \in RunIds : task[u].phase \in phases}
Running == InPhase({"attempt"})
Futures == Running \cup InPhase({"returned", "raised"})

-----------------------------------------------------------------------------
(* The rows: load_rows skips a line it cannot parse (here: the numbers of    *)
(* the others), the latest row of a unit counts, and a unit is done when      *)
(* that row is ok or a failed task.                                          *)
LoadRows(file) == {i \in DOMAIN file : file[i] \notin {CutOff, Mangled}}
LatestByRunId(file) ==
    LET read == LoadRows(file) IN
    [u \in {file[i].unit : i \in read} |->
        file[CHOOSE i \in read : file[i].unit = u /\ \A j \in read : file[j].unit = u => j <= i]]
CompletedRunIds(file) ==
    LET latest == LatestByRunId(file) IN {u \in DOMAIN latest : latest[u].class \in Complete}

(* Some units in the order of the schedule; those that are not done.         *)
Scheduled(units) ==
    LET left == {i \in DOMAIN Order : Order[i] \in units}
        place(i) == Cardinality({j \in left : j <= i})
    IN [k \in 1 .. Cardinality(left) |-> Order[CHOOSE i \in left : place(i) = k]]
PendingAll(file) == Order                                           \* mutant
PendingUnits(file) == Scheduled(RunIds \ CompletedRunIds(file))

(* The sink. A row appended after a torn line is glued to it, and neither    *)
(* can be read again.                                                        *)
Appended(row) ==
    IF lines = <<>> \/ Last(lines) # CutOff THEN Append(lines, row)
    ELSE IF row = CutOff THEN lines ELSE Append(Front(lines), Mangled)

-----------------------------------------------------------------------------
(* run_unit                                                                  *)
(* What run_unit does with an attempt that gave result:                      *)
(* a reported model that is not the pin raises; a clean or a limited attempt *)
(* is the last; another one is retried.                                      *)
RetriesEverything(class) == class # None                            \* mutant
IsRetryable(class) == class \in Retryable
OneRetryMore(n) == n <= MaxRetries                                  \* mutant
RetriesLeft(n) == n < MaxRetries
(* _finalize: an error is reported as it is, an answer graded.               *)
Outcomes(class) == IF class = None THEN Grades ELSE {class}
Judge(u, result) ==
    IF result.model \notin {None, Pin}
    THEN task' = [task EXCEPT ![u] = [NoTask EXCEPT !.phase = "raised"]]
    ELSE IF IsRetryable(result.class) /\ RetriesLeft(task[u].n)
    THEN task' = [task EXCEPT ![u].n = @ + 1, ![u].class = result.class]
    ELSE \E class \in Outcomes(result.class) :
           task' = [task EXCEPT ![u] = [NoTask EXCEPT !.phase = "returned", !.class = class]]

(* _attempt: a fault of the materializer is an error of the harness, and     *)
(* otherwise the driver runs in the tree made.                               *)
RunUnit(u) ==
    /\ task[u].phase = "attempt"
    /\ \/ Judge(u, [class |-> "harness_error", model |-> None])
       \/ \E reply \in Replies : Judge(u, reply)
    /\ UNCHANGED <<loop, lines>>

-----------------------------------------------------------------------------
(* The main thread                                                           *)
NoOutcomes == [u \in RunIds |-> None]
Begin(units) ==
    /\ pc = "over" /\ process < Processes
    /\ pc' = "submit" /\ process' = process + 1
    /\ queue' = units
    /\ task' = [u \in RunIds |-> NoTask]
    /\ out' = 0 /\ outcomes' = NoOutcomes /\ hits' = <<>> /\ stop' = FALSE /\ givenUp' = ""
    /\ window' = 1 /\ probes' = 0
    /\ UNCHANGED lines
StartGrid == mode' = "grid" /\ Begin(Order)
StartLoop == mode' = "windows" /\ Begin(PendingUnits(lines))

(* submit_next, until there are as many futures as threads.                  *)
AllAtOnce == Len(queue)                                             \* mutant
Room == Concurrency - Cardinality(Futures)
Submit ==
    LET n == IF stop THEN 0 ELSE IF Room < Len(queue) THEN Room ELSE Len(queue)
        next == {queue[i] : i \in 1 .. n}
    IN /\ pc = "submit"
       /\ task' = [u \in RunIds |-> IF u \in next THEN [NoTask EXCEPT !.phase = "attempt"] ELSE task[u]]
       /\ queue' = SubSeq(queue, n + 1, Len(queue))
       /\ pc' = IF Futures = {} /\ n = 0 THEN "close" ELSE "wait"
       /\ UNCHANGED <<mode, out, outcomes, hits, stop, givenUp, window, probes, process, lines>>

(* wait(FIRST_COMPLETED) gives the futures done by then, one after another.  *)
Collect(u) ==
    LET more == InPhase({"returned"}) \ {u} IN
    /\ pc = "wait" /\ task[u].phase = "returned"
    /\ task' = [task EXCEPT ![u] = NoTask]
    /\ out' = out + 1
    /\ pc' \in IF more = {} THEN {"submit"} ELSE {"submit", "wait"}
    /\ UNCHANGED <<mode, queue, window, probes, process>>
Limited(u) == task[u].class = "usage_limit"

CollectGrid(u) ==
    /\ mode = "grid" /\ Collect(u)
    /\ stop' = (stop \/ Limited(u))
    /\ outcomes' = [outcomes EXCEPT ![u] = task[u].class]
    /\ UNCHANGED <<lines, hits, givenUp>>

CollectLoop(u) ==
    /\ mode = "windows" /\ Collect(u)
    /\ lines' = Appended([unit |-> u, class |-> task[u].class])
    /\ LET over == Len(lines') >= Cap IN
       /\ stop' = (stop \/ over \/ Limited(u))
       /\ givenUp' = IF over /\ givenUp = "" THEN "caller_stop" ELSE givenUp
    /\ hits' = IF Limited(u) THEN Append(hits, u) ELSE hits
    /\ UNCHANGED outcomes

(* f.result() raises what run_unit raised. The pool is left when its threads *)
(* have finished, and what they return is not looked at.                     *)
Break(u) ==
    /\ pc = "wait" /\ task[u].phase = "raised"
    /\ pc' = "broken" /\ givenUp' = "mismatch"
    /\ UNCHANGED <<mode, queue, task, out, outcomes, hits, stop, window, probes, process, lines>>
Leave ==
    /\ pc = "broken" /\ Running = {}
    /\ pc' = "over" /\ task' = [u \in RunIds |-> NoTask] /\ outcomes' = NoOutcomes
    /\ UNCHANGED <<mode, queue, out, hits, stop, givenUp, window, probes, process, lines>>

(* The outcomes of a grid are written all together, at its end, over the     *)
(* rows that are there. They are in the order of their names, for which the  *)
(* schedule stands.                                                          *)
Packaged ==
    LET units == Scheduled({u \in RunIds : outcomes[u] # None})
    IN [i \in DOMAIN units |-> [unit |-> units[i], class |-> outcomes[units[i]]]]
Packaging == pc = "close" /\ mode = "grid"
Package ==
    /\ Packaging
    /\ pc' = "over" /\ lines' = Packaged /\ outcomes' = NoOutcomes
    /\ UNCHANGED <<mode, queue, task, out, hits, stop, givenUp, window, probes, process>>

(* The pool of a window is empty: drained, given up, or limited.             *)
CloseWindow ==
    /\ pc = "close" /\ mode = "windows"
    /\ IF givenUp # "" \/ hits = <<>> THEN pc' = "over" /\ UNCHANGED givenUp
       ELSE IF window >= MaxWindows THEN pc' = "over" /\ givenUp' = "max_windows"
       ELSE pc' = "probe" /\ UNCHANGED givenUp
    /\ UNCHANGED <<mode, queue, task, out, outcomes, hits, stop, window, probes, process, lines>>

(* After the wait: probe_fn, three times at most, then the next window with  *)
(* the units that hit the limit in front.                                    *)
RequeuedNothing == queue                                            \* mutant
Requeued == hits \o queue
ProbesForever(n) == FALSE                                           \* mutant
GivesUp(n) == n >= Probes
Probe ==
    /\ pc = "probe"
    /\ \/ /\ queue' = Requeued /\ hits' = <<>> /\ stop' = FALSE
          /\ window' = window + 1 /\ probes' = 0 /\ pc' = "submit"
          /\ UNCHANGED givenUp
       \/ /\ probes' = (probes + 1) % (Probes + 1)
          /\ IF GivesUp(probes') THEN pc' = "over" /\ givenUp' = "probe_never_recovered"
                                  ELSE UNCHANGED <<pc, givenUp>>
          /\ UNCHANGED <<queue, hits, stop, window>>
    /\ UNCHANGED <<mode, task, out, outcomes, process, lines>>

(* The process dies, while it writes a row or packages a grid perhaps.       *)
Partial == {SubSeq(Packaged, 1, n) : n \in 0 .. Len(Packaged)}
           \cup {Append(SubSeq(Packaged, 1, n - 1), CutOff) : n \in 1 .. Len(Packaged)}
Killed ==
    /\ pc # "over"
    /\ pc' = "over" /\ givenUp' = "crash" /\ task' = [u \in RunIds |-> NoTask]
    /\ queue' = <<>> /\ hits' = <<>> /\ outcomes' = NoOutcomes
    /\ lines' \in {lines} \cup (IF mode = "windows" /\ InPhase({"returned"}) # {}
                              THEN {Appended(CutOff)} ELSE {})
                         \cup (IF Packaging THEN Partial ELSE {})
    /\ UNCHANGED <<mode, out, stop, window, probes, process>>

-----------------------------------------------------------------------------
HarnessInit ==
    /\ mode = "windows" /\ pc = "over" /\ queue = <<>> /\ out = 0 /\ outcomes = NoOutcomes /\ hits = <<>>
    /\ task = [u \in RunIds |-> NoTask] /\ stop = FALSE /\ givenUp = "" /\ window = 1
    /\ probes = 0 /\ lines = <<>> /\ process = 0

Main == Submit \/ (\E u \in RunIds : CollectGrid(u) \/ CollectLoop(u) \/ Break(u)) \/ Leave \/ Package \/ CloseWindow \/ Probe

HarnessNext ==
    \/ StartGrid \/ StartLoop
    \/ \E u \in RunIds : RunUnit(u)
    \/ Main
    \/ Killed

HarnessSpec == HarnessInit /\ [][HarnessNext]_harnessVars
(* A call of the driver ends by its timeout, and waiting threads run.        *)
FairHarness == HarnessSpec /\ WF_harnessVars(Main) /\ WF_harnessVars(\E u \in RunIds : RunUnit(u))
-----------------------------------------------------------------------------
Row == [unit : RunIds, class : Class]
HarnessTypeOK ==
    /\ mode \in {"grid", "windows"}
    /\ pc \in {"over", "submit", "wait", "broken", "close", "probe"}
    /\ queue \in Seq(RunIds) /\ hits \in Seq(RunIds) /\ stop \in BOOLEAN
    /\ task \in [RunIds -> [phase : {"absent", "attempt", "returned", "raised"},
                          n : 0 .. MaxRetries, class : {None} \cup Class]]
    /\ out \in Nat /\ outcomes \in [RunIds -> {None} \cup Class] /\ lines \in Seq(Row \cup {CutOff, Mangled})
    /\ window \in 1 .. MaxWindows /\ probes \in 0 .. Probes /\ process \in 0 .. Processes

(* What is done stays done, over windows, limits, deaths and torn lines: no  *)
(* later row of a unit takes its valid row back. Only a grid that packages   *)
(* its outcomes does, which writes the file anew (harness.py:433-435): what  *)
(* it did not run, or did not get to write, is done no more.                 *)
CompletedStays ==
    [][~Packaging => CompletedRunIds(lines) \subseteq CompletedRunIds(lines')]_harnessVars

(* The same of every step, which no grid keeps.                              *)
AllCompletedStays == [][CompletedRunIds(lines) \subseteq CompletedRunIds(lines')]_harnessVars

(* A limit burns one call of each unit in flight and no more ("120 runs x 3  *)
(* attempts lost" is what this is for): a limited unit is not retried, and   *)
(* from the first hit to the end of its window nothing is submitted.         *)
LimitPauses ==
    /\ hits # <<>> => Len(hits) + Cardinality(Futures) <= Concurrency
    /\ \A u \in RunIds : task[u].phase = "attempt" => task[u].class # "usage_limit"

(* A loop that drains leaves a row of each unit that tells its end, and not  *)
(* that it was limited, but for rows glued to a line a crash had cut off.     *)
DrainedMeansReported ==
    pc = "over" /\ mode = "windows" /\ process > 0 /\ givenUp = "" =>
       LET latest == LatestByRunId(lines)
           untold == {u \in RunIds : u \notin DOMAIN latest \/ latest[u].class = "usage_limit"}
       IN Cardinality(untold) <= Cardinality({i \in DOMAIN lines : lines[i] = Mangled})

(* The sink's cap is passed by the units in flight, and no further.          *)
CapOvershoot ==
    mode = "windows" => \/ out <= Concurrency
                        \/ Len(lines) < Cap + Concurrency

(* What a run may lose and what it may not, and how far it passes a limit.   *)
HarnessIsSound == LimitPauses /\ DrainedMeansReported /\ CapOvershoot /\ HarnessTypeOK

(* "a cap check runs before every submission".                               *)
SubmittedUnderCap ==
    [][mode = "windows" /\ lines' = lines =>
         \A u \in RunIds : task[u].phase = "absent" /\ task'[u].phase = "attempt" => Len(lines) < Cap]_harnessVars
=============================================================================
