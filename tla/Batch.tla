-------------------------------- MODULE Batch --------------------------------
(* The four cells of E28 (run_e28.py) and the waves of E18's runner they      *)
(* call (run_e18_pi_reversal.py): a process prepares a cell, probes it or     *)
(* runs a wave of its units; what a wave spent is booked when it ends, and    *)
(* what the batch may still spend is the allowance of the next wave. A turn   *)
(* by turn model of a wave is in Wave; here a unit's attempt is one step.     *)
EXTENDS Integers, FiniteSets, FiniteSetsExt

CONSTANTS Cells,       \* CELLS: the tags o025, o10, o20, a10
          Units,       \* (arm, session) pairs of a wave, numbered in ABBA order
          Price,       \* Price[cell][unit]: standard-priced usd of its turns
          BatchStop, BatchCap,
          Workers,     \* --parallel
          Retries,     \* --unit-retries
          Requests,    \* bound: what the operator asks of a process:
                       \* cell, --force, and the units of --only
          MaxWaves     \* bound: waves ever started

ASSUME BatchAssumption ==
    /\ Units \subseteq Nat /\ Units # {} /\ Cells # {} /\ IsFiniteSet(Units) /\ IsFiniteSet(Cells)
    /\ Price \in [Cells -> [Units -> Nat \ {0}]]
    /\ {BatchStop, BatchCap, Retries, MaxWaves} \subseteq Nat /\ Workers \in Nat \ {0}
    /\ Requests \subseteq [cell : Cells, force : BOOLEAN, only : SUBSET Units]

VARIABLES
    proc,      \* the running wave: its request, allowance, spent, aborted, lost
    job,       \* its units: phase and attempts
    waves,     \* waves started
    files,     \* per cell and unit: work directory, turn streams, result
    probed,    \* cells with a registry.json
    book,      \* spend-ledger.json: what each cell's last wave reported
    charged,   \* what the provider was paid for each cell
    history    \* cells waved, cells whose last wave was whole;
               \* was a cell waved again, an attempt discarded, a unit run apart?

vars == <<proc, job, waves, files, probed, book, charged, history>>

-----------------------------------------------------------------------------
Untouched == [work |-> FALSE, streams |-> FALSE, result |-> "none"]
Idle == [phase |-> "absent", attempts |-> 0]
At(phase) == {u \in Units : job[u].phase = phase}
Busy == {u \in Units : job[u].phase \in {"turns", "mistake", "account"}}
Over == Busy \cup At("queued") = {}
Running == proc.running

\* The sum of a finite family of amounts.
Total(amounts) == Cardinality(UNION {{i} \X (1 .. amounts[i]) : i \in DOMAIN amounts})
Booked == Total(book)                                \* standard_priced_usd_total
UnitFile(u) == files[proc.cell][u]
SetFile(u, f) == files' = [files EXCEPT ![proc.cell][u] = f]
MoveTo(u, phase) == job' = [job EXCEPT ![u].phase = phase]

-----------------------------------------------------------------------------
(* phase_prepare: every unit is made anew; results lie beside the units.     *)
Materialized(f) == [work |-> TRUE, streams |-> FALSE, result |-> f.result]
Prepare(c) ==
    /\ ~Running
    /\ files' = [files EXCEPT ![c] = [u \in Units |-> Materialized(files[c][u])]]
    /\ history' = [history EXCEPT !.redone = @ \cup ({c} \X Units)]
    /\ UNCHANGED <<proc, job, waves, probed, book, charged>>

(* phase_registry: four starts of pi without a model, which need S01's units. *)
Registry(c) ==
    /\ ~Running /\ c \notin probed
    /\ \A u \in Units : files[c][u].work
    /\ probed' = probed \cup {c}
    /\ UNCHANGED <<proc, job, waves, files, book, charged, history>>

(* The unit phase: one unit outside any wave, which no guard sees; a result  *)
(* on disk is returned as it is unless --force is given, and stays there     *)
(* when the forced unit fails.                                               *)
RunUnit(c, u) ==
    /\ ~Running
    /\ ~history.apart                             \* bound: one unit
    /\ \E force, whole \in BOOLEAN :
         /\ force \/ files[c][u].result = "none"
         /\ files' = [files EXCEPT ![c][u] =
                        IF whole THEN [work |-> TRUE, streams |-> TRUE, result |-> "whole"] ELSE Materialized(@)]
         /\ \E usd \in IF whole THEN {Price[c][u]} ELSE {0, Price[c][u]} :
              charged' = [charged EXCEPT ![c] = @ + usd]
         /\ history' = [history EXCEPT !.apart = TRUE,
                           !.redone = IF whole THEN @ \ {<<c, u>>}
                                      ELSE @ \cup (IF files[c][u].result = "none" THEN {} ELSE {<<c, u>>})]
    /\ UNCHANGED <<proc, job, waves, probed, book>>

-----------------------------------------------------------------------------
\* Mutant of Allowance: every wave has the whole stop, as in E18.
AllowanceOfWave == BatchStop
Allowance == BatchStop - Booked

(* main, wave: no wave starts when the batch has nothing left to spend.      *)
Start(asked) ==
    /\ ~Running /\ waves < MaxWaves
    /\ Allowance > 0
    /\ waves' = waves + 1
    /\ proc' = [cell |-> asked.cell, force |-> asked.force, running |-> TRUE, lost |-> FALSE,
                allowance |-> Allowance, spent |-> 0, aborted |-> FALSE]
    /\ job' = [u \in Units |-> [Idle EXCEPT !.phase = IF u \in asked.only THEN "queued" ELSE "absent"]]
    /\ history' = [history EXCEPT !.waved = @ \cup {asked.cell},
                                  !.again = @ \/ asked.cell \in history.waved,
                                  !.whole = @ \ {asked.cell}]
    /\ UNCHANGED <<files, probed, book, charged>>

\* Mutant of Enter: the unit is materialized before its result is looked for.
EnterAnew(u) ==
    IF ~proc.force /\ UnitFile(u).result # "none"
    THEN /\ MoveTo(u, IF UnitFile(u).result = "whole" THEN "account" ELSE "raised")
         /\ SetFile(u, Materialized(UnitFile(u)))
         /\ UNCHANGED history
    ELSE /\ job' = [job EXCEPT ![u] = [phase |-> "turns", attempts |-> @.attempts + 1]]
         /\ SetFile(u, Materialized(UnitFile(u)))
         /\ history' = [history EXCEPT !.redone = @ \cup
                          (IF UnitFile(u).result = "none" THEN {} ELSE {<<proc.cell, u>>})]

(* phase_unit up to its turns: a result on disk is returned as it is.        *)
Enter(u) ==
    IF ~proc.force /\ UnitFile(u).result # "none"
    THEN /\ MoveTo(u, IF UnitFile(u).result = "whole" THEN "account" ELSE "raised")
         /\ UNCHANGED <<files, history>>
    ELSE /\ job' = [job EXCEPT ![u] = [phase |-> "turns", attempts |-> @.attempts + 1]]
         /\ SetFile(u, Materialized(UnitFile(u)))
         /\ history' = [history EXCEPT !.redone = @ \cup
                          (IF UnitFile(u).result = "none" THEN {} ELSE {<<proc.cell, u>>})]

(* An idle thread takes the next unit, unless the wave is aborted.           *)
Take(u) ==
    /\ Running /\ job[u].phase = "queued" /\ Cardinality(Busy) < Workers
    /\ \A v \in At("queued") : u <= v
    /\ IF proc.aborted THEN MoveTo(u, "skipped") /\ UNCHANGED <<files, history>> ELSE Enter(u)
    /\ UNCHANGED <<proc, waves, probed, book, charged>>

Pay(usd) == charged' = [charged EXCEPT ![proc.cell] = @ + usd]

(* All turns are answered; the result is written.                            *)
Answer(u) ==
    /\ Running /\ job[u].phase = "turns"
    /\ Pay(Price[proc.cell][u])
    /\ SetFile(u, [work |-> TRUE, streams |-> TRUE, result |-> "whole"])
    /\ history' = [history EXCEPT !.redone = @ \ {<<proc.cell, u>>}]
    /\ MoveTo(u, "account")
    /\ UNCHANGED <<proc, waves, probed, book>>

(* A turn fails, having cost nothing or what came before it; a TurnFailure is *)
(* retried, a TimeoutExpired ends the wave.                                  *)
Fail(u) ==
    /\ Running /\ job[u].phase = "turns"
    /\ \E usd \in {0, Price[proc.cell][u]} : Pay(usd)
    /\ \E phase \in {"mistake", "raised"} : MoveTo(u, phase)
    /\ history' = [history EXCEPT !.discarded = TRUE]
    /\ UNCHANGED <<proc, waves, files, probed, book>>

\* Mutant of Again: a unit is retried for ever.
AgainWithoutEnd(u) ==
    /\ Running /\ job[u].phase = "mistake"
    /\ Enter(u)
    /\ UNCHANGED <<proc, waves, probed, book, charged>>

(* A failed unit is run again, Retries times; then it aborts the wave.       *)
Again(u) ==
    /\ Running /\ job[u].phase = "mistake"
    /\ IF job[u].attempts > Retries
       THEN /\ MoveTo(u, "failed")
            /\ proc' = [proc EXCEPT !.aborted = TRUE]
            /\ UNCHANGED <<files, history>>
       ELSE Enter(u) /\ UNCHANGED proc
    /\ UNCHANGED <<waves, probed, book, charged>>

Spent(u) == proc.spent + Price[proc.cell][u]

(* Under the lock: the running spend of this wave, compared with its stop.   *)
Account(u) ==
    /\ Running /\ job[u].phase = "account"
    /\ proc' = [proc EXCEPT !.spent = Spent(u), !.aborted = @ \/ Spent(u) > proc.allowance]
    /\ MoveTo(u, "done")
    /\ UNCHANGED <<waves, files, probed, book, charged, history>>

(* list(pool.map(..)) meets the exception: what is queued is cancelled.      *)
Collapse ==
    /\ Running /\ ~proc.lost /\ At("raised") # {}
    /\ proc' = [proc EXCEPT !.lost = TRUE]
    /\ job' = [u \in Units |-> IF job[u].phase = "queued" THEN Idle ELSE job[u]]
    /\ UNCHANGED <<waves, files, probed, book, charged, history>>

\* Mutant of BookWritten: a resumed wave books its results a second time.
BookAdded == [book EXCEPT ![proc.cell] = @ + proc.spent]
BookWritten == [book EXCEPT ![proc.cell] = proc.spent]       \* _ledger_write

(* The wave ends; a wave that raised books nothing.                          *)
End ==
    /\ Running /\ Over /\ (At("raised") # {} => proc.lost)
    /\ proc' = [proc EXCEPT !.running = FALSE]
    /\ book' = IF proc.lost THEN book ELSE BookWritten
    /\ history' = [history EXCEPT !.whole = IF At("done") = Units THEN @ \cup {proc.cell} ELSE @]
    /\ UNCHANGED <<job, waves, files, probed, charged>>

(* The process dies, perhaps in the middle of the results it writes.         *)
Crash ==
    /\ Running
    /\ \E torn \in SUBSET At("turns") :
         /\ files' = [files EXCEPT ![proc.cell] =
                        [u \in Units |-> IF u \in torn THEN [@[u] EXCEPT !.result = "torn"] ELSE @[u]]]
         /\ charged' = [charged EXCEPT ![proc.cell] =
                          @ + Total([u \in torn |-> Price[proc.cell][u]])]
    /\ proc' = [proc EXCEPT !.running = FALSE, !.lost = TRUE]
    /\ job' = [u \in Units |-> Idle]
    /\ history' = [history EXCEPT !.discarded = TRUE]
    /\ UNCHANGED <<waves, probed, book>>

-----------------------------------------------------------------------------
Init ==
    /\ proc \in {[cell |-> c, force |-> FALSE, running |-> FALSE, lost |-> FALSE, allowance |-> 0,
                  spent |-> 0, aborted |-> FALSE] : c \in {CHOOSE c \in Cells : TRUE}}
    /\ job = [u \in Units |-> Idle] /\ waves = 0
    /\ files = [c \in Cells |-> [u \in Units |-> Untouched]]
    /\ probed = {} /\ book = [c \in Cells |-> 0] /\ charged = [c \in Cells |-> 0]
    /\ history = [waved |-> {}, again |-> FALSE, apart |-> FALSE, whole |-> {},
                discarded |-> FALSE, redone |-> {}]

Work(u) == Take(u) \/ Answer(u) \/ Fail(u) \/ Again(u) \/ Account(u)

Next == \/ \E c \in Cells : Prepare(c) \/ Registry(c)
        \/ \E c \in Cells, u \in Units : RunUnit(c, u)
        \/ \E asked \in Requests : Start(asked)
        \/ \E u \in Units : Work(u)
        \/ Collapse \/ End \/ Crash

Spec == Init /\ [][Next]_vars
-----------------------------------------------------------------------------
MaxPrice == Max({Price[c][u] : c \in Cells, u \in Units})

BatchTypeOK ==
    /\ job \in [Units -> [phase : {"absent", "queued", "turns", "mistake", "account", "done",
                                   "failed", "skipped", "raised"}, attempts : 0 .. Retries + 1]]
    /\ files \in [Cells -> [Units -> [work : BOOLEAN, streams : BOOLEAN,
                                      result : {"none", "torn", "whole"}]]]
    /\ book \in [Cells -> Nat] /\ charged \in [Cells -> Nat] /\ probed \subseteq Cells
    /\ waves \in 0 .. MaxWaves /\ Cardinality(Busy) <= Workers

(* The streams are kept "so a parser bug does not require paying twice":     *)
(* every whole result has the streams of its turns beside it until somebody  *)
(* prepares the cell again or forces the unit; resuming a wave destroys none. *)
ResultsHaveStreams ==
    \A c \in Cells, u \in Units :
       files[c][u].result = "whole" /\ <<c, u>> \notin history.redone => files[c][u].streams

(* A wave that returned every unit books the price of them all, and booking  *)
(* the same results again when it is resumed counts them once.               *)
WholeWavesAreBooked ==
    ~Running => \A c \in history.whole : book[c] = Total(Price[c])

(* While no cell is waved twice, no attempt thrown away and no unit run on its *)
(* own, the batch passes its stop by the units in flight and no more.        *)
FirstWavesAreBounded ==
    ~history.again /\ ~history.discarded /\ ~history.apart => Total(charged) <= BatchStop + Workers * MaxPrice

(* H6 as the module states it: the ceiling is for the batch, the guard reads *)
(* a cumulative ledger, and that bounds the real spend from above; claimed    *)
(* here as long as no attempt is thrown away, no process dies and every unit  *)
(* is run in a wave.                                                         *)
BatchBoundsSpend == ~history.discarded /\ ~history.apart => Total(charged) <= BatchCap

(* Files and books of a cell agree, and the first wave of a cell stays        *)
(* within what the batch has left.                                            *)
BatchIsSound == BatchTypeOK /\ ResultsHaveStreams /\ WholeWavesAreBooked /\ FirstWavesAreBounded
=============================================================================
