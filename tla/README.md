# K-ARC: a verification project

TLA+ models of the K-ARC context accounting artifact, checked with TLC and, where it says so, proved with TLAPS. Paths below are relative to the repository unless they start with `src/karc`, which is `src/src/karc` here.

1. [The system](#1-the-system): what its parts are and what makes them correct
2. [What is modelled](#2-what-is-modelled): modules, and how they correspond to the code
3. [The runs](#3-the-runs): what each checks, its bounds, and the fairness assumed
4. [The proofs](#4-the-proofs)
5. [Where the code and its documents disagree](#5-where-the-code-and-its-documents-disagree)
6. [What is left, and the plan](#6-what-is-left-and-the-plan)

`PROJECT.json` holds the same in tables: components, runs, mutants of the mapped definitions, the map from definitions to source lines, hazards, findings and theorems.

## 1. The system

The repository releases the recorded measurements of a paper on the cost of persistent context for coding agents, with the program that made them. K-ARC decides which documents (instructions, notes, references) of a project an agent keeps in its context under a token budget.

### 1.1 Parts, state, operations, and what makes them correct

| Part | State | Operations | Correct when |
|---|---|---|---|
| Policy engine `policy/karc.py` | lists T1 T2 (resident) and B1 B2 (ghosts) as ordered dicts of tokens, target `p`, budget `c`, quality counters, validity, oversize table, cold tags, pending recommendations | one handler per event: reference (hit, ghost revival, miss), preload, discovered, validated, corrected, conflicted, validity change, budget change, cold-transition approval | the lists are disjoint, the resident set fits the budget, ghosts stay within their bounds, the protected list keeps nothing stale or harmful, nothing critical is forgotten unannounced, every handler ends |
| Baselines `policy/baselines.py` | a resident dict | the same events, without quality | the resident set fits the budget |
| Replay `replay/*` | a trace, a policy, counters | order events, attribute tasks, inject outcomes, feed the policy | the order is total, a task is attributed once |
| Snapshot store `snapshot/*` | objects by content hash (rows, and files for large ones), snapshots, lifecycle of artifacts, the documents on disk | archive, restore, cold, pin, unpin, fsck | nothing is deleted; what is archived can be restored; a restore saves what it overwrites |
| Live state and queue `live/*` | rows of recommendations | fold the telemetry, refresh the rows, decide one | a decision sticks, is not asked again, and is applied when accepted |
| Transcript ingestion `ingest/*` | observations, canonical events, sessions, tasks, scopes, artifacts, versions | parse transcript files, then promote in one transaction | idempotent, complete, each call once, each event under its task |
| Hooks `hooks/*` | the same tables | one short process per tool call or load | meets the transcript's row on the key; never disturbs the agent |
| MCP server `mcp/*` | the same tables | search and get, recorded as discovered and read | every answer recorded once |
| Database `db/*` | SQLite schema | connect, migrate | a migration applies once and wholly |
| Command line `cli*.py`, `scan.py`, `runtimes.py` | configuration files of the runtimes, the registry | init (scan), status, review, gate, install | what it edits it can put back |
| Benchmark harness `bench/harness.py`, `checkpoint.py`, `driver.py` | an append-only file of rows, the pending units, windows | run a unit with retries, run a schedule, pause at a usage limit, resume | every unit ends with one row that counts; the caps hold |
| Execution guards `bench/e10_*`, `e11_*`, `e5_runtime_accounting.py`, `codex_guard.py` | attempts, reservations, spend, tool-call numbers | reserve and settle an attempt, number and deny a tool call | no cap is passed, no attempt is mixed with another |
| Experiment cells `docs/experiments/E*/scripts` | result files, failure markers, a spend ledger, the session store of a runtime, the cache of a provider | run a wave of units on threads, retry, resume, force, change the namespace | a result reports one whole attempt, the ledger misses nothing, the stop is not passed by more than what is in flight |
| Fixtures, simulations, analyses, diagnostics | files | generate, replay, sum | deterministic |
| Verifier and checks `scripts/*`, `tests/*` | none | recompute printed numbers, compare hashes | agrees with the accounting contract |

### 1.2 How they interact

* Agents call tools. Each call is appended to a **transcript file**, starts a **hook process**, and, for K-ARC's own tools, is answered by the **MCP server**. Hook, server and the later **batch ingestion** write to one SQLite database; they never talk to each other and meet on `INSERT OR IGNORE` under deduplication keys.
* The **scan** registers a project's documents; ingestion and hooks register others as they are seen. Ingestion follows the contents of the documents as versions.
* `karc status` and `karc review` **fold** the telemetry into the policy engine (a replay of events through `KArc`), and `refresh` reconciles the recommendations with the rows of the **queue**. Accepting a row calls the **mutation core** of the store in the transaction that marks it.
* The **mutation core** works on the documents themselves, which editors and agents write whenever they like.
* The **benchmark** builds environments, calls runtimes through drivers, and appends rows. Experiment cells replay the policy engine to select what each session holds, then run waves of sessions against a provider, whose prompt cache outlives the process that filled it.

### 1.3 What is hard

Processes meet in SQLite and in the file system with no other coordination (hooks, ingestion, `karc review`, archive and restore); files are not part of a database transaction; parsing runs outside the transaction that writes its results; a crash leaves files and rows behind that the next process believes; threads of a wave share a ledger and an abort flag; retries reuse names a provider still knows; and the policy engine's handlers are long loops over variable token sizes whose bounds were proved, in the original ARC, for units. `PROJECT.json` lists each at its line, under `hazards`, with the property that watches it or the reason there is none.

## 2. What is modelled

### 2.1 Modules

State machines, one action per operation, handler or step:

| Module | Models | State and actions |
|---|---|---|
| `KArc` | `policy/karc.py` with `config.py`, `model.py`, `base.py` | one action per event handler; each iteration of a loop (trim B1, delete from T1, trim B2, evict, enforce the ghost bounds) is a step under `pc`, in the order of the code. Lists are sets and `age` ranks artifacts by last touch: every insertion and refresh of the code goes to the MRU end, so this is the order of the lists |
| `ResidentSet` | the interface of `policy/base.py` | the abstract specification that `KArc` implements (`KeepsPromise`): admit one artifact that fits, lose some, change the budget, tag cold what is not supplied |
| `Store` | `snapshot/cas.py`, `store.py`, `fsck.py`, the versions of `ingest/pipeline.py` | the committed database is a record, an open mutation a private copy that commits or is dropped; each file operation and each read of a file is a step. Editors write documents, processes die |
| `ReviewQueue` | `live/queue.py`, the gates of `live/state.py` | `refresh` statement by statement (it runs outside any transaction), `decide` inside one; one `desk` per process |
| `Review` | `queue._apply_accept` and the five actions of `live/state.py`; composes `Store` and `ReviewQueue` | an acceptance of `archive`, `cold_transition` or `invalidate_or_correct` is a mutation of the store that marks its row at its commit; `pin` and `split` are one step |
| `Ingest` | `ingest/claude_code.py`, `ingest/pipeline.py`, `hooks/adapter.py`, `mcp/ingest.py`, `scan.py` | agents append lines to a log; hook, MCP call and scan are transactions; an ingestion parses its files one by one and then commits |
| `CodexChannel` | `ingest/codex.py`, `hooks/codex.py`, `hooks/canonical.py` | hooks and two passes of the parser over one thread's calls |
| `CodexGuard` | `bench/codex_guard.py` | a hook process per event: number itself, decide, log, answer; it may fail at each |
| `McpServer` | `mcp/server.py` | start (find or make the scope), read a line, wait for the lock, answer, notify |
| `Migrations` | `db/connection.py` and the two migration scripts | each opener works off a list of statements that commit one by one |
| `Setup` | `cli_product.py` (init), `runtimes.py` | look at, read and write the six shared files, each a step of its own, so that an owner's edit may come between a read and its write; a write is in one piece or cut off |
| `Harness` | `bench/harness.py`, `checkpoint.py`, `driver.py` | `run_unit` and its retries on threads, the grid and the window loop, probes, aborts, a file of rows that a kill cuts off, resumption from it, and the grid's package, which writes that file anew |
| `Wave` | `phase_wave`, `phase_unit`, ledger, ABBA order and names of `run_e23_reuse_density.py` | a job per unit: taken, turns, mistake, save, account. Results, markers, session store, provider cache and ledger outlive the process |
| `Batch` | `run_e18_pi_reversal.py` and the cells of `run_e28.py` | waves, units, preparation and the batch ledger; an attempt is one step |
| `CodexCell` | `run_e21_codex_component.py` | waves of units in persistent threads, both routes to a turn's usage, preparation, authentication |
| `Ledger` | `e10_horizon_execution.py`, `e5_runtime_accounting.py` | reserve, call, settle, record; crash and rebuild from the rows |
| `Chunks` | `e5_killgate.py` (schedules), `e5_chunk_canary.py` | a schedule is drawn task by task; then a session runs over the live chunk index |

Calculations, as operators that runs compare with independent definitions over bounded inputs:

| Module | Models |
|---|---|
| `Accounts` | what E5 charges for a schedule, Belady's and retrieval's plans, the verdict over the grid |
| `Canary` | the turns of the canaries that count, splitting of documents, the contracts frozen from a smoke test |
| `Horizon` | E10's and E11's frozen contracts, the audits of a row, the decisions |
| `PiCells` | E23's bundle, gates, steady-state window and pacer; E19's prices, slices and verdict; E27's and E28's builds |
| `Replay`, `Workload` | FIFO, LRU, LFU, static preload and no memory; the runner's fold, metrics, outcome injection and traces; the scripted workloads |
| `Registry`, `Looks`, `CellReplay` | E4's versions and schedules, retrieval filters and admission; sequential looks and gates; the replay of a cell |
| `Stage2` | the fixture's facts and tasks, plans, directories per arm, isolated homes, grading |
| `Readout` | what the analyses of E18, E19, E21, E23, E27 and E28 make of the units that are kept: held-back conditions, the second route, paired intervals, the break-even price of a write, verdicts, budgets |
| `CalcBench`, `MCCalc` | the bounded inputs, the reference definitions and the properties of the modules above |

`MCKArc`, `MCReview`, `MCIngest`, `MCLoops`, `MCBench`, `MCCalc`, `MCBatch`, `MCCodex` and `MCInstall` hold the definitions the configurations use. Where a run holds two machines that share nothing, a variable says which of them runs and the other rests as it starts; that keeps the number of runs small without multiplying their states. A definition marked as a mutant, beside the one it changes, is used by no specification: `PROJECT.json` names the run and the property that refute it, which shows that the property would notice that bug.

### 2.2 Abstractions, and what they lose

* `KArc`: token counts and `p` are exact integers (`p` in units of 1/`PScale`, which 2·3·4·5·7 divides, so that the ratios of small instances are exact; the code uses a float). The posterior of quality is compared through its counters. `MaxQuality` caps the counters, `Menu` the events. The answer to "did this task count already" is nondeterministic.
* `Store`: contents are identified with their hashes; compression, which changes no hash, is left out. Two mutations cannot be open at once (`BEGIN IMMEDIATE`).
* `ReviewQueue`: what the fold recommends is any set of keys the gates admit: the policy in it is `KArc`'s business.
* `Ingest`: a line's number is its time, an artifact its path (rename by inode is left out), scope roots are not nested. A session's scope is fixed by the hook or line that is first to tell of it (`adapter.py:242`).
* `Harness`: a reply is the class and the model the driver makes of a run of the CLI; `ClaudeRun` translates that for one driver, `CodexRun` and `SessionTurn` for the other, whose streams of events `calc` reads. A row glued to a cut-off line is unreadable (`Mangled`), as `json.loads` makes it.
* `Wave`: prices are turns times a constant per arm; what an answer says is left out.
* `Batch`, `CodexCell`: the contents of rows, preflight and modification times are left out. `CodexCell` is checked with one worker.
* `CellReplay`, `Stage2`: the policies they replay are parameters. Bootstrap quantiles are constant operators.
* `Readout`: money is exact, in cents per million tokens; a fraction is a pair of integers. The resampling is a constant, the same for every quantity, as `resample_matrix` is: here all four draws of two sessions, so an interval runs from the smallest draw to the largest. The contrasts with recorded cells, which read released files, are left out.
* Seeded draws (`random.Random`, hashes used as draws) are arguments or `\E`.

E17B has no threads and is left out, and so are the waves of E24 to E26, which set another window or driver and run the waves of E21 and E23. What each component leaves out is in its note in `PROJECT.json`.

## 3. The runs

| Run | Asks | Distinct states | Bounds |
|---|---|---|---|
| `karc_budget` | References while the operator moves the budget: it fits, oversize, cold and critical rules hold, `KArc` implements `ResidentSet`, every handler ends | 530 647 | 4 artifacts of 1, 2, 2, 3 tokens, budgets 2 and 4 |
| `karc_quality` | Quality and validity events at a fixed budget, a pin, the switches of the ablations: disjoint lists, a sound directory, what turns stale or harmful leaves in that step | 828 420 | 4 artifacts, c = 2, counters up to 2 |
| `review` | The store beside editors and dying processes, alone or with one review process that offers any of the five actions | 1 507 530 | 1 artifact, 2 contents, one of them large, 2 rows, 2 recommendations a fold; a split, which changes no artifact, next to pins only |
| `ingest` | Hooks, transcripts, MCP calls and scans of two sessions in two projects, in every order | 525 406 | 3 log lines of 7 kinds, 3 files, buckets of 2 |
| `codex` | Two waves of the metered cell; or three hooks of a guarded turn; or four calls told by two channels | 2 451 392 | 2 units of 2 turns, up to 2 requests each; 1 failing hook; 2 parses |
| `loops` | Grids and resumable loops of the harness; or a pilot and the wave that resumes it, forces it or moves to another namespace | 335 002 | 3 units on 2 threads, 1 retry, 2 windows, 2 processes, a grid over a file of 2 lines at most; 3 of 4 units of 2 turns, 2 threads, 1 retry |
| `batch` | Two waves over two cells of E28, resumed, or narrowed and forced, and a unit run apart, with `--force` too | 4 908 864 | 2 units a cell, 2 threads, 1 retry |
| `bench` | Two threads under E10's or E5's budget, with a kill; or every schedule of E5's sessions over the chunk index | 137 762 | 2 sessions of 2 turns, 2 attempts; 4 sessions of 4 tasks |
| `install` | Two runs of `init` among two edits, also between a read and its write, and a kill; or three openers of one database; or two MCP servers among other writers | 728 603 | 3 openers, 1 death; 2 servers, 2 lines, 1 lock retry |
| `calc` | The calculations of the benchmark, one state for each input | 552 229 | per calculation, in `CalcBench` and `MCCalc`; an analysis reads 2 sessions of 2 turns in 2 arms, all, none or all but one of them kept |

Two more runs check one statement each that the code does not meet (section 5).

Why the bounds are enough. With sizes 1, 2, 2, 3 and c of 2 and 4 every loop of every handler runs zero, one and several times, the oversize threshold separates artifacts and moves with the budget, and both ghost floors are reached. One artifact is enough for the store because a mutation reads and writes one artifact's rows and objects are shared by content. Two rows let a candidate be decided and offered again. Three log lines hold a turn, a read and its competitor on the same key or bucket, or a turn between two reads; hooks, scans and ingestions are not bounded. Two processes of two threads hold a pilot and its resumption, a retry, and the units in flight when a stop is passed; a third unit waits while two are at work. Two attempts at a session give the rows of a discarded attempt and of the next. Three openers are a leader, one that meets its half-made schema, and one that comes after both.

There is a mutant for every property of every passing run, which TLC refutes under the run's own configuration: the bounds reach the cases the properties are about.

**Fairness**, stated only where the scheduling gives it:

* `KArc`: `WF_vars(Loop)`. A handler is a synchronous call and nothing runs between its iterations; nothing obliges events to arrive. `HandlerEnds` does not use it: it says that each step of a handler ends it or leaves less to do, which is stronger.
* `Harness` and `Wave` (`LoopsSpec`): the main thread runs and some thread of the pool does; a call ends by an answer, an error or the timeout that `subprocess.run` enforces. Nobody is obliged to start a process or a wave, and no fairness is assumed of kills. `ExecutionsEnd` needs it.
* `Ledger`: `WF` of each thread, for the same reason; `WaitersReturn` needs that each thread is scheduled, since a thread waits for what another settles.
* `McpServer`: `WF` of each server's step; `ClientsAreAnswered` speaks of requests a server has read, and a lock is waited for a bounded number of times, so it needs no fairness of other writers.
* `Store`, `Review`, `Ingest`, `Migrations`, `Setup`, `CodexCell`, `Batch` claim safety only: nothing in the code promises that an operator answers or that an ingestion runs.

**Deadlock** is checked in `karc_budget`, `karc_quality`, `review` and `ingest`, where there is always something that may happen. In the others it is right to stop: the requests, processes, inputs or lines are finitely many.

## 4. The proofs

TLAPS proves these for all values of the constants that satisfy the `ASSUME`s of the module, which TLC evaluates in the runs. Theorems marked * have one more hypothesis, named below.

| Module | Theorem | States | Checked in |
|---|---|---|---|
| `KArcProofs` | `TypeCorrect` | `TypeOK` | `karc_budget` |
| | `ListsAreDisjoint` | `ListsDisjoint` (I1) | `karc_quality` |
| | `ResidentsFit` | `ResidentWithinBudget` (I2) | `karc_budget` |
| | `ListsHoldTheirOwn` | `NoOversizeListed`, `T2Clean`, `ColdOutsideDirectory`, budget changes included | `karc_quality`, as parts |
| | `CriticalStaysWarm` | `CriticalNeverCold` (I8) | `karc_quality`, as a part |
| | `DirectoryIsAlwaysSound`* | `DirectoryIsSound`, with the bounds of I4 | `karc_quality` |
| | `StepsAlwaysKeepTheirWord` | `StepsKeepTheirWord`: the engine implements `ResidentSet`, dirt leaves in the step that makes it, critical drops are announced | `karc_budget`, `karc_quality` |
| | `EveryHandlerEnds` | `HandlerEnds` | `karc_budget` |
| `ReviewProofs` | `StoreTypeCorrect` | `StoreTypeOK` | `review` |
| | `SnapshotsAlwaysLoad` | `SnapshotsLoad` | `review` |
| | `NothingIsEverDeleted` | no object, snapshot row or audit entry goes | `review`, as a part |
| | `RestorableMeansStored`* | `RestorableIsTrue` | `review` |
| | `RestoreSavesFirst`* | `OverwrittenIsSavedOrTorn` | `review` |
| | `MutationsKeepContents`* | `MovesKeepContents` | `review` |
| | `ReviewTypeCorrect`, `ReviewKeepsObjects`, `ReviewKeepsContents`* | the statements above for the store with the queue on top | `review` |
| | `AcceptancesAreApplied` | a row becomes accepted only with what it asks for in force, and what a row's transaction moves is its artifact, in the step that accepts this one row; for any number of desks | `review`, as a part |
| | `QueueIsAlwaysTrue`* | `QueueIsTrue` | `review` |
| | `DecisionsAreAlwaysReal`* | `DecisionsAreReal` | `review` |
| `IngestProofs` | `KeysAreUnique`, `CallsCountOnce` | `OneEventPerCall`, of calls with an id | `ingest` |
| | `TelemetryIsAlwaysTrue` | `TelemetryIsTrue` | `ingest` |
| | `IngestIsAlwaysComplete` | `IngestIsComplete` | `ingest` |
| | `IngestIsAlwaysIdempotent` | `IngestIsIdempotent` | `ingest` |
| `LoopProofs` | `LoopsAreSound` | `HarnessIsSound` | `loops` |
| | `DoneIsForever` | `CompletedStays`, of every step but a grid's packaging | `loops` |
| | `WaveTypeCorrect` | the shape of a wave's state, its attempts and threads bounded (`WaveTypeOK`) | |
| | `ResultsTrue` | `ResultsAreTrue` | `loops` |
| | `SummariesAreComplete` | `SummaryIsComplete` | `loops` |
| | `BooksAreAlwaysSound` | `BooksAreSound`: no result goes unaccounted, and the ledger passes the stop by a unit per thread at most | `loops` |
| `BenchProofs` | `CapsAlwaysHold` | `CapsHold` | `bench` |
| | `SlotsNeverLeak` | `NoSlotLeaks` | `bench` |
| | `LedgerIsAlwaysTrue` | `LedgerIsTrue`: what was paid for, kills included, and that a paired session is read from the same rows for ever | `bench` |
| | `SessionsAlwaysConsistent` | `SessionsAreConsistent`: what is asked, graded and served is the same version at every turn, and exactly the requested number of tasks repeats | `bench` |
| `BatchProofs` | `BatchIsAlwaysSound` | `BatchIsSound`: streams beside results, whole waves booked once, first waves within the stop but for a unit per thread | `batch` |
| `CellProofs` | `CellIsAlwaysTrue` | `CellIsTrue`: a result is the account of one thread by both routes, and a whole wave has booked every result | `codex` |
| `InstallProofs` | `InstallIsAlwaysSafe`* | `InstallIsSafe`: `InitIsIdempotent`, `UpgradeIsSafe` (whoever gets to work finds both versions recorded; not that a half-applied schema is finished), `StartsAgree`, `AnswersMatchRecords` | `install` |

Hypotheses beyond the modules' `ASSUME`s:

* `~EditsDuringTx` (`RestorableMeansStored`, `RestoreSavesFirst`, `MutationsKeepContents`, `ReviewKeepsContents`): nobody writes a document while a mutation is open. The mutation core hashes and copies a file in separate steps, and an editor between them makes it store one content and record another. That is an assumption about the operator; the code does not enforce it, and the other theorems do without it. The runs make the same assumption.
* `OneDesk` (`QueueIsAlwaysTrue`, `DecisionsAreAlwaysReal`): one review process. With two a decision need not stick (section 5).
* `<<"set_budget", None>> \notin Menu` (`DirectoryIsAlwaysSound`): the budget is not changed. After a cut the directory may exceed 2c (section 5).
* `Environments = {"plain"}` (`InstallIsAlwaysSafe`): the paths that `init` writes into the files need no quoting and no escaping. With others `InitIsIdempotent` fails (section 5). `Openers # {}` and `{"no_one", "other"} \cap Servers = {}` only say that somebody opens the database and that no server has the name of the two other holders of the lock.

`LedgerIsAlwaysTrue` rests on `HistoriesAssumption`: the file a budget is rebuilt from names its rows by session, attempt and position as the code that writes it does. `CodexAssumption` says that no request reports more cached and written tokens than input tokens, which the cell's docstring (line 44) takes from E20's measurements; it keeps prices from being negative. The theorems without a mark have no hypothesis but such `ASSUME`s.

The arguments:

* **KArc.** A handler holds one artifact (`job.art`) that is in no list; a list gains only that artifact and loses what moves to another. The budget (`Room`): `evict_until_fits` leaves its loop only when the newcomer fits, and what a handler still inserts after it is that newcomer, so the invariant carries, for each `pc`, the room that is left. What is in a list fits the current budget (`Fits`, `Accounted`), and T2 is clean but for the artifact whose handler runs (`TidyT2`), which is why dirt leaves in one step. The bound on the directory (`Ceiling`) says which loops have still to run, and holds up to the floor that the ghost bounds leave. `WorkLeft` counts resident artifacts twice and ghosts once: an eviction moves an artifact from the one to the other, a trim takes one out, so every iteration lowers it. Token sums are cardinalities of sets of pairs, which the finite-set library can reason about; sums by recursion could not be.
* **Store.** Objects and snapshot rows only grow, in the committed database and in an open copy of it, and an external file is written before its row.
* **Review.** Whoever writes a row holds the write lock, so a row that an open acceptance will mark is pending until it commits. The code looks for the latest row of a key only, so the invariant says that no earlier one is in force; and that a refresh under way knows only rows that are still as it read them. `supersede` overwrites whatever it finds and `ensure` looks and inserts in two statements, which is where a second desk would break it.
* **Ingest.** The first component of a key says what kind of call it stands for and the second, for calls with an id, which call; so no two keys stand for one call, and keys an insertion does not look up cannot be there. A pass over a main file sees a prefix of the session's turns, and counting in a prefix is counting in the session; what a row says of a line stays true while the log grows. Of the calls that share a key one was parsed first, and its event is the one the others find. A second pass over what is committed meets each of its keys: it is at a fixed point.
* **Harness.** Each unit is in one place at most: in the queue, with a thread, or among the hits of this window; in a resumable loop none of these is done by the file, so that no row that is appended takes a valid one back (`CompletedStays`). Nothing is claimed of a grid's packaging, which writes the file anew: what it writes are the outcomes collected, each unit once (`Packaged`), or, when it is killed there, the first of them and perhaps half a row more. Where a window is drained, units in no place are either told by a valid row or lost in a row glued to a torn line, and those are counted against the mangled lines, of which a kill makes one at most. The limit and the cap are counted against the futures of the pool: after the stop nothing is submitted, so at most `Concurrency` calls are under way. TLC checked this invariant on the instance of `loops`, and on a smaller cap, before it was proved.
* **Wave.** The statements are about units that ended; what makes them inductive is what holds of a unit at work: its session holds exactly this attempt's turns, and a cache alive for its name means it was tried before. A step of one unit changes files of its own name only. For the ledger (`BooksAreAlwaysSound`), a wave that meets the stop sets its abort flag, after which no unit is taken: so the ledger stands at most at the stop (or at what the wave found, if that is more) plus one unit for each thread that has become idle since the flag, and the threads still at work have their own unit to add. Sums of prices are cardinalities of sets of pairs, as token sums are in `KArc`.
* **Batch.** What the running wave has spent is the price of the units it is done with, so a wave that returned every unit books the price of them all, however often it was resumed; a whole result is written with its streams, and only making a unit anew takes them. For the stop (`Ahead`, in `FirstWaves`): while every cell is waved once and nothing is thrown away, what was paid is what is booked, plus what the running wave has spent and the units on their way to its account. The wave's spend stands at most at its allowance (what the batch has left) plus a unit for each thread that became idle since, and each unit on its way to the account is in the hands of a thread. Sums are cardinalities here too (`Total`); TLC checked the invariant on the instance of `batch` before it was proved.
* **Ledger.** What is spent and what is reserved is within each cap; a reservation is held by exactly the calls in flight, so a settlement replaces a reserve that was at least as large. For the money (`LedgerIsAlwaysTrue`), what the budget knows is what the rows say plus what each thread has spent on the turn it is at; a kill forgets the latter, at most `MaxResumes + 1` attempts a thread. For the pairs, threads at work are at different sessions, none of them complete, and the rows of their attempt are those before the turn they are at; so what is appended never belongs to a paired session, and the choice of the latest complete attempt stays.
* **Chunks.** Two invariants, one on top of the other. Of the schedule (`ScheduleInv`): the open session is the end of the tasks, it remembers every document it asked for in the version that is valid now, only the anchors of sessions begun are replaced, by an event of the task they are replaced at, and what a task says of its own moment (`Truthful`) no later replacement changes, since that is valid from a later task on. `ReuseIsExact` is counted: the tasks that repeat are those the allocation gave to the sessions that are over, plus the flags the open one has passed; that the new questions never run out of stable documents (`NewQuestions`) follows from no session having more repeats than questions after its first, which is where `Repeats <= Opportunities` is used. Of the index (`IndexInv`): it serves one version of every document, that of the turn, or, before the turn's updates, that of the turn before. An activation exchanges the chunks of one document (`Activated`), the second versions are only inserted and the first only retired, so the updates of a task lead from either of the two to that of the turn, and a retry that applies them again changes nothing. TLC checked `ScheduleInv` on the instance of `bench` before it was proved.
* **Codex cell.** An attempt under way has read its rollout to the end and has lost no turn, and its rows tell its story (`Metered`, `Tell`): the differences of the reports make up what was metered, the events make up all of it but what is late, and the rows under the attempt's path are its tool calls. A turn keeps that: what it finds in the rollout and what is late after it are together what was late before it and its own requests. An attempt starts with it because its directory was emptied, whoever had used it. For the book, the units a wave is done with are covered; a unit booked twice only covers more. Usages are summed key by key, and a sum is a cardinality (`Total`), so the lemmas (a sum splits over disjoint sets, does not depend on names, grows by what is appended) come from the finite-set library. TLC ran the invariant on the instance of `codex` with two workers before it was proved.
* **Installation.** Three machines that share no variable, an invariant each. *Database*: of the fourteen statements of the two scripts, what is on disk determines who can go on. While nobody was killed one process is on the way to the last record, with the schema just as its place expects it, and every other fails at its next statement or has not begun (`UnderWay`); so the last one to end leaves both versions. After a kill nothing is claimed of progress: whoever gets to work still finds both versions recorded, and contents are where snapshots look for them, but the schema may stay half applied (section 5). *Servers*: the write lock keeps transactions apart, so a scope looked for in vain is still missing when it is inserted; and in each phase a server's replies and rows stand in the relation `Told`, with what is about to be told in `Telling`. *Files*: a file written without a conflict is settled, which means that the plan made from it is the file itself. It is proved for each of the four: one block between its two markers, groups of handlers refreshed in place, an entry, and lines that are there. What a run has read of a file it is about to write is what is there, unless an edit came since it began, and a file it is done with is settled. The owner's edits of one file leave the others settled, and a run that an edit overtakes claims nothing. TLC checked the last invariant before it was proved.

Only model-checked:

* liveness (`ExecutionsEnd`, `WaitersReturn`, `ClientsAreAnswered`), which needs fairness and `ENABLED`;
* the calculations of `calc`, which are folds and recursions over bounded inputs, so that a proof would be by induction over data;
* `ObserversAgree`, and `OwnersContentKept`, whose statement filters sequences (`SelectSeq`): what a filter of a concatenation is needs induction too.

## 5. Where the code and its documents disagree

Two have a run whose counterexample TLC finds:

| Run | Violated | What happens |
|---|---|---|
| `karc_rules` | `CheckInvariants` | An artifact too large for a budget of 2 is referenced, the budget is raised to 4, and referenced again the artifact is in T1 and still in the oversize table: `check_invariants` (`karc.py:795`), on by default, raises I1 |
| `store_guarantee` | `ArchivedContentKept` | A document is archived and its content stored; its owner edits the file, and the next ingestion makes the new content, which nobody stored, the current version of the archived artifact |

Others, and how to see them:

* `L1Bound` in a configuration of `KArc`: a ghost of B2 that fails the gate is revived into T1 after the ghost bounds were enforced, which did not count it, so L1 exceeds c with B1 above its floor. The demotion from T2 to T1 does the same. Random events against the engine with `debug_invariants=True` also raise I3 (quality events), I4 (a smaller budget, then a ghost hit) and I7.
* `Desk = {d1, d2}` in `ReviewDesk.cfg` violates `DecisionsStick`: `refresh` runs outside a transaction and overwrites with `superseded` a row that another process decided meanwhile.
* `ReadsAttributed` in `Ingest`: the event of a hook has no task, and the ingestion's row that names it is ignored because the key is taken.
* `ResultsAreCold` in `Wave`: a retried unit reuses the session id of the attempt it discards, whose prompt cache is alive. Of the released rows, E28-O-20's `karc-full--S11` took two attempts, and `E28-BUDGET-SWEEP/README.md:9` says it was measured again; all others report one.
* `BatchBoundsSpend` in `Batch`: a resumed wave overwrites what its cell had booked, and `PathsNeverReused` in `CodexCell`: a later wave takes an abandoned attempt's path.
* `SubmittedUnderCap` in `Harness`: the loop checks its cap when an outcome arrives, not before each submission; `HarnessIsSound` bounds the excess by the threads.
* `Environments = {"quoted"}` or `{"escaped"}` in `Install.cfg` violates `InitIsIdempotent`: a handler is recognised by a substring of a command that is quoted for a shell, and a path with a backslash is written as JSON and looked for as text.
* `AllCompletedStays` in `Harness`: `package` opens `runs.jsonl`, the file that resumption reads, with "w" (`harness.py:433`). A grid started over the rows of an earlier process replaces them by its own outcomes: the valid rows of units it did not run, since a limit stopped it, are gone, and so are all that were not written when it is killed there.
* `SchemaEndsWhole` in `Migrations`: a script is not one transaction (`connection.py:135`), so after a process dies in the middle of one, every later start executes it again from its first statement and fails there; nothing finishes the schema. Without a death, a process that found 002 pending and runs late drops the trigger that forbids deletes from `cas_objects`, fails at `DROP TABLE` because a snapshot refers to a row, and leaves the database without the trigger and with a second table, both versions recorded.
* `OwnersMatchersKept` in `Setup`: where a group of `hooks.json` holds a handler of K-ARC and one of the owner, `init` overwrites the group's matcher (`runtimes.py:325-327`), so the owner's handler runs for other events, against "user content preserved" (`runtimes.py:167`).
* `EditsSurvive` in `Setup`: a file is read and written whole, without a lock or a second look, so what the owner writes in between is lost; an `AGENTS.md` or `CLAUDE.md` that appears after `init` looked is overwritten whole.
* `LoopSurvives` in `McpServer`: a line that is a JSON list ends `serve()` (`server.py:137` is outside the `try`), against "never crash the loop on a single bad call" at line 164.

Confirmed by reading, of interest to whoever maintains the code:

* Store and queue: two more ways break the guarantee of `store_guarantee`: an artifact whose file is missing is archived although its content was never stored (`store.py:332-337`, "best-effort"), and a file edited since the last ingestion is archived with its new content while the current version names the old one. Accepting an `invalidate_or_correct` archives whatever it names, a critical artifact too, without the gate that holds back `archive` and `cold_transition` (`queue.py:124-127`). A process that dies between a restore's rename and its commit loses the content it overwrote, although `store.py:12-13` promises a snapshot first (`OverwrittenIsSavedOrTorn` is what holds).
* Ingestion: the event of a subagent's file may be given to an earlier task, since the files of a session are read at different times. The hook's observation of an MCP `get` is never linked: the call id is in plain text where the adapter expects JSON. Codex's channel matches relative names across scopes, and is modelled with `tool_use_id` equal to the item's id.
* MCP: `get` serves a chunk that was invalidated; a registered artifact with neither file nor object answers with an empty body and `isError` false; a `ping` or `tools/call` without an id is answered with id null. `bench/mcp_index.py:71-72` expects an insert that `uq_versions_live` (`001_initial.sql:116`) refuses.
* Init: a broken `.mcp.json` is overwritten (against "safe merge", `runtimes.py:18`); `{"mcpServers": null}` or a list raises; a killed write leaves an empty file; the branch marked `pragma: no cover` at `runtimes.py:249` can be reached. At a first start all openers may fail while the schema ends whole; a re-run of 002 races a write of contents.
* Guard: a hook cut off between truncating and writing resets the count, and any exception lets the call through.
* Harness: `run_unit` leaks its temporary tree when the driver raises (`harness.py:216-219`); the Claude driver takes a nonzero exit without an error result as ok; an answer that is an error gets no usage (`driver.py:285`), so the rule that charges failed calls which used the model never applies; `ControlledCodexHome.__enter__` leaks its directory when the login is missing.
* Waves: the ledger of E23 counts a unit again when a wave resumes it and never counts a failed attempt, and so does E21's; the unit phase spends outside any guard. The pacer lets threads through together, and none at a rate below its peak of 40 000. A pi turn with no assistant message and exit code 0 is accepted. The condition of E23's gate H12 cannot fire after the assertion in `_prepare_bundle`. `standard` prices bound `catalog` prices only while the hourly write price is at most the write price.
* E5, E10, E11: an E11 session whole by count but failing the identity audit blocks `complete` for ever, and cap audits see only complete latest attempts; E10's interim summary raises a `TypeError`; a pooled curve may differ from seeds that agree; Belady's plan is no bound when sizes differ.
* E4: verdict files given to `freeze_fixture` are not bound to the draft; a freeze that died leaves a directory that blocks a retry; the guard's log is keyed by run id, so a cut-off attempt's fetches count for its retry; `_latest_graded` takes the latest row and then filters where `e4_instrument._load_latest_runs` filters first; a look with no stale task can never stop early with a pass; `e4_budget` raises `StopIteration` when nothing fits at 100 %; a plan that meets an `InvariantViolation` stops early.
* Workloads: `trace.py` says residency "when the task started" and tests it at the first reference; interleaved tasks give several rows; the no-locality segment has 15 fresh documents for 13 tasks, so tasks 49–57 read nothing. What the Claude arm c2 denies is `Read` and `Grep` only, and the Codex materializer raises on an injected document without a file where Claude's counts its tokens.

## 6. What is left, and the plan

Not modelled is every component of `PROJECT.json` with status `not_modelled`, with its reason there. Analyses, figures, fixtures and generators are sequential computations over data that keep no state: a model of them would be a copy. Provider probes are one-off scripts.

Every invariant and action property of the runs over state machines has its theorem, but for those of section 4's list. What a proof would need there is induction over sequences, which the installed provers cannot do with the library's induction theorems.
