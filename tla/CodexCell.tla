------------------------------ MODULE CodexCell ------------------------------
(* The metered Codex cell (E21, run_e21_codex_component.py): units of turns   *)
(* in one persistent thread, each attempt in a home and a work directory of   *)
(* its own.  Codex reports the thread's total after every turn and writes one *)
(* event per request into its rollout; the cell takes differences of the one  *)
(* and slices of the other.  Waves book what their units cost.                *)
EXTENDS Integers, Sequences, FiniteSets, FiniteSetsExt, SequencesExt

CONSTANTS Units,          \* numbered in submission order
          Turns,          \* SESSION_LENGTH
          CallUsages,     \* what one request may use: [Keys -> Nat]
          MaxCalls,       \* bound: requests of a turn
          Workers, Retries, Stop,
          MaxWaves,       \* bound: waves ever started
          Varied          \* bound: units whose requests, refusals and rollouts vary

ASSUME CodexAssumption ==
    /\ Units \subseteq Nat /\ IsFiniteSet(Units) /\ Varied \subseteq Units
    /\ {Turns, MaxCalls, Workers} \subseteq Nat \ {0} /\ {Retries, Stop, MaxWaves} \subseteq Nat
    /\ CallUsages \subseteq [{"input", "cached", "write", "output"} -> Nat]
    \* what E20 observed of every call and the cell's docstring (:44) builds on
    /\ \A call \in CallUsages : call.cached + call.write <= call.input

VARIABLES
    proc,      \* the running wave: --force, spent, aborted, waves so far
    job,       \* per unit: phase, attempts, and the attempt's thread
    results,   \* units/<arm>--<sid>.json
    failed,    \* units with a .failed.json
    driven,    \* work directories some turn has run in
    observed,  \* per work directory: rows of ingest_observations
    ledger     \* spend-ledger.json

vars == <<proc, job, results, failed, driven, observed, ledger>>

-----------------------------------------------------------------------------
Keys == {"input", "cached", "write", "output"}
Zero == [k \in Keys |-> 0]
Plus(a, b) == [k \in Keys |-> a[k] + b[k]]
\* The sum of a finite family of amounts.
Total(amounts) == Cardinality(UNION {{i} \X (1 .. amounts[i]) : i \in DOMAIN amounts})
SumUsage(s) == [k \in Keys |-> Total([i \in DOMAIN s |-> s[i][k]])]

(* turn_accounting: what a turn used is the difference of two reports.       *)
Delta(report, previous) == [k \in Keys |-> report[k] - previous[k]]
Monotone(delta) == \A k \in Keys : delta[k] >= 0
Fresh(u) == u.input - u.cached - u.write
Priced(u) == 20 * Fresh(u) + 25 * u.write + 2 * u.cached + 120 * u.output    \* RATES, cents per million

(* The row of a turn: both routes to its usage.                              *)
TurnRow(report, previous, events, tools) ==
    LET delta == Delta(report, previous)
        calls == SumUsage(events)
    IN [delta |-> delta, calls |-> calls, tools |-> tools, agrees |-> events # <<>> /\ calls = delta]

\* The turn is fatal: no answer, a refusal by any signal, nothing metered, or a total that fell.
Fatal(ok, signal, delta) == ~ok \/ signal \/ delta.input <= 0 \/ ~Monotone(delta)

-----------------------------------------------------------------------------
None == [rows |-> <<>>]
NoThread == [previous |-> Zero, metered |-> Zero, seen |-> 0, rollout |-> <<>>, late |-> <<>>, rows |-> <<>>]
Idle == [phase |-> "absent", attempt |-> 0, new |-> TRUE, thread |-> NoThread]
At(phase) == {u \in Units : job[u].phase = phase}
Busy == {u \in Units : job[u].phase \in {"turns", "mistake", "account"}}
SetJob(u, j) == job' = [job EXCEPT ![u] = j]
MoveTo(u, phase) == job' = [job EXCEPT ![u].phase = phase]
Path(u, attempt) == <<u, attempt>>                 \* unit_workroot
Probe == Path(Min(Units), 90)

(* _materialize_unit: an earlier tree under the path is removed.             *)
\* Mutant of Materialize: the tree is written over what is there.
MaterializeOver(paths) == UNCHANGED observed
Materialize(paths) == observed' = [p \in DOMAIN observed |-> IF p \in paths THEN 0 ELSE observed[p]]

(* phase_prepare: the first attempt's directories of every unit.             *)
Prepare ==
    /\ ~proc.running
    /\ Materialize({Path(u, 1) : u \in Units})
    /\ UNCHANGED <<proc, job, results, failed, driven, ledger>>

(* phase_authproof: one turn without a credential, which must fail, and one   *)
(* with it, in a directory no unit uses.                                     *)
AuthProof ==
    /\ ~proc.running
    /\ Materialize({Probe})
    /\ driven' = driven \cup {Probe}
    /\ UNCHANGED <<proc, job, results, failed, ledger>>

-----------------------------------------------------------------------------
(* phase_wave: the units of a stage are submitted in order.                  *)
Start(force, only) ==
    /\ ~proc.running /\ proc.waves < MaxWaves
    /\ proc' = [running |-> TRUE, force |-> force, aborted |-> FALSE, whole |-> FALSE,
                lost |-> FALSE, waves |-> proc.waves + 1]
    /\ job' = [u \in Units |-> IF u \in only THEN [Idle EXCEPT !.phase = "queued"] ELSE Idle]
    /\ UNCHANGED <<results, failed, driven, observed, ledger>>

(* phase_unit up to its turns: a result on disk is returned as it is; else a  *)
(* directory named for the attempt, an empty home and a login, which may not  *)
(* report an API key and then ends the process.                              *)
Enter(u) ==
    LET attempt == job[u].attempt + 1
    IN IF results[u] # None /\ ~proc.force
       THEN SetJob(u, [job[u] EXCEPT !.phase = "account", !.attempt = attempt])
            /\ UNCHANGED <<failed, observed>>
       ELSE /\ \E phase \in {"turns", "raised"} :
                 SetJob(u, [phase |-> phase, attempt |-> attempt, thread |-> NoThread,
                            new |-> Path(u, attempt) \notin driven])
            /\ failed' = failed \ {u}
            /\ Materialize({Path(u, attempt)})

Take(u) ==
    /\ proc.running /\ job[u].phase = "queued" /\ Cardinality(Busy) < Workers
    /\ \A v \in At("queued") : u <= v
    /\ IF proc.aborted THEN MoveTo(u, "skipped") /\ UNCHANGED <<failed, observed>> ELSE Enter(u)
    /\ UNCHANGED <<proc, results, driven, ledger>>

(* One turn.  Every request is metered and, but the first, follows a tool     *)
(* call that the server records; the last event may be written to the rollout *)
(* only after it was read.  A silent turn reports nothing (a timeout, a       *)
(* failed process), a refused one reports its usage.                         *)
TurnWith(u, calls, how, slow) ==
    LET t == job[u].thread
        arrived == t.late \o calls
        metered == Plus(t.metered, SumUsage(calls))
        rollout == t.rollout \o (IF slow THEN Front(arrived) ELSE arrived)
        tools == Len(calls) - 1
        row == TurnRow(IF how = "silent" THEN Zero ELSE metered, t.previous,
                       SubSeq(rollout, t.seen + 1, Len(rollout)), tools)
        after == [previous |-> IF how = "silent" THEN t.previous ELSE metered,
                  metered |-> metered, seen |-> Len(rollout), rollout |-> rollout,
                  late |-> IF slow THEN <<Last(arrived)>> ELSE <<>>, rows |-> Append(t.rows, row)]
    IN /\ observed' = [observed EXCEPT ![Path(u, job[u].attempt)] = @ + tools]
       /\ driven' = driven \cup {Path(u, job[u].attempt)}
       /\ IF Fatal(how # "silent", how = "refuses", row.delta)
          THEN MoveTo(u, "mistake") /\ failed' = failed \cup {u}
          ELSE SetJob(u, [job[u] EXCEPT !.thread = after]) /\ UNCHANGED failed

Turn(u) ==
    /\ proc.running /\ job[u].phase = "turns" /\ Len(job[u].thread.rows) < Turns
    /\ \E calls \in SeqOf(CallUsages, MaxCalls) \ {<<>>}, how \in {"answers", "refuses", "silent"},
          slow \in BOOLEAN :
       /\ u \in Varied \/ (Len(calls) = 1 /\ ~slow /\ how # "refuses")
       /\ TurnWith(u, calls, how, slow)
    /\ UNCHANGED <<proc, results, ledger>>

(* The turns are over: the home is left, the result written.                 *)
Save(u) ==
    /\ proc.running /\ job[u].phase = "turns" /\ Len(job[u].thread.rows) = Turns
    /\ results' = [results EXCEPT ![u] =
                     [rows |-> job[u].thread.rows, stdout |-> job[u].thread.previous,
                      metered |-> job[u].thread.metered, late |-> SumUsage(job[u].thread.late),
                      observations |-> observed[Path(u, job[u].attempt)]]]
    /\ MoveTo(u, "account")
    /\ UNCHANGED <<proc, failed, driven, observed, ledger>>

(* A failed attempt is discarded and the unit run again, Retries times; then  *)
(* the wave takes no further unit.                                           *)
Again(u) ==
    /\ proc.running /\ job[u].phase = "mistake"
    /\ IF job[u].attempt > Retries
       THEN /\ MoveTo(u, "failed")
            /\ proc' = [proc EXCEPT !.aborted = TRUE]
            /\ UNCHANGED <<failed, observed>>
       ELSE Enter(u) /\ UNCHANGED proc
    /\ UNCHANGED <<results, driven, ledger>>

PriceOf(u) == Total([i \in DOMAIN results[u].rows |-> Priced(results[u].rows[i].delta)])

\* Mutant of Booked: a result that lay on disk is not booked.
BookedIfRun(u) == ledger + IF job[u].thread = NoThread THEN 0 ELSE PriceOf(u)
Booked(u) == ledger + PriceOf(u)                    \* _ledger_add

Account(u) ==
    /\ proc.running /\ job[u].phase = "account"
    /\ ledger' = Booked(u)
    /\ proc' = [proc EXCEPT !.aborted = @ \/ ledger' > Stop]
    /\ MoveTo(u, "done")
    /\ UNCHANGED <<results, failed, driven, observed>>

(* list(pool.map(..)) meets SystemExit: what is queued is cancelled.         *)
Collapse ==
    /\ proc.running /\ ~proc.lost /\ At("raised") # {}
    /\ proc' = [proc EXCEPT !.lost = TRUE]
    /\ job' = [u \in Units |-> IF job[u].phase = "queued" THEN Idle ELSE job[u]]
    /\ UNCHANGED <<results, failed, driven, observed, ledger>>

End ==
    /\ proc.running /\ Busy \cup At("queued") = {} /\ (At("raised") # {} => proc.lost)
    /\ proc' = [proc EXCEPT !.running = FALSE, !.whole = At("done") = Units]
    /\ UNCHANGED <<job, results, failed, driven, observed, ledger>>

Crash ==
    /\ proc.running
    /\ proc' = [proc EXCEPT !.running = FALSE, !.lost = TRUE]
    /\ job' = [u \in Units |-> Idle]
    /\ UNCHANGED <<results, failed, driven, observed, ledger>>

-----------------------------------------------------------------------------
Init ==
    /\ proc = [running |-> FALSE, force |-> FALSE, aborted |-> FALSE, whole |-> FALSE,
               lost |-> FALSE, waves |-> 0]
    /\ job = [u \in Units |-> Idle]
    /\ results = [u \in Units |-> None]
    /\ failed = {} /\ driven = {} /\ ledger = 0
    /\ observed = [p \in (Units \X (1 .. Retries + 1)) \cup {Probe} |-> 0]

Work(u) == Take(u) \/ Turn(u) \/ Save(u) \/ Again(u) \/ Account(u)
Next == \/ Prepare \/ AuthProof
        \/ \E force \in BOOLEAN, only \in {Units, {Min(Units)}} : Start(force, only)
        \/ \E u \in Units : Work(u)
        \/ Collapse \/ End \/ Crash

Spec == Init /\ [][Next]_vars

-----------------------------------------------------------------------------
(* A saved unit is one thread, whatever attempts came before it: its rows add *)
(* up to the last report and to what the provider metered, no turn of it was  *)
(* refused or lost, the server's rows are the tool calls of its own turns,    *)
(* and the second route misses only events that came too late, which shows as *)
(* a row whose two routes disagree (run_e21_codex_component.py:1057-1313).    *)
ResultsAreOneThread ==
    \A u \in Units : results[u] # None =>
       LET r == results[u]
           reported == SumUsage([i \in 1 .. Turns |-> r.rows[i].delta])
           counted == SumUsage([i \in 1 .. Turns |-> r.rows[i].calls])
       IN /\ Len(r.rows) = Turns
          /\ reported = r.stdout /\ r.stdout = r.metered
          /\ Plus(counted, r.late) = r.metered
          /\ (\A i \in 1 .. Turns : r.rows[i].agrees) => r.late = Zero
          /\ r.observations = Total([i \in 1 .. Turns |-> r.rows[i].tools])

(* When a wave of all units came through, the book covers every result, also  *)
(* the ones an earlier process saved and did not live to book                 *)
(* (run_e21_codex_component.py:1366-1373).                                    *)
BookCoversResults ==
    ~proc.running /\ proc.whole => ledger >= Total([u \in Units |-> PriceOf(u)])

(* "A (re)run always starts from a freshly materialized unit under a workdir  *)
(* path this cell has never used" (run_e21_codex_component.py:1072-1073).     *)
PathsNeverReused == \A u \in Units : job[u].phase = "turns" => job[u].new

(* What a cell reports was measured on one thread, and was paid from its book. *)
CellIsTrue == ResultsAreOneThread /\ BookCoversResults
=============================================================================
