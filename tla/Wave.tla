-------------------------------- MODULE Wave --------------------------------
(* The measurement waves of an experiment cell, from run_e23_reuse_density.py *)
(* (run_e18, run_e19 and run_e21 hold earlier forms of the same code): a     *)
(* process runs the units of a schedule, one (arm, session) pair each, on a   *)
(* few threads, retries the failing ones, and adds what a unit cost to a     *)
(* ledger file that stops the wave. The operator starts waves again, in the  *)
(* same namespace or in another, and a process may die at any moment.        *)
EXTENDS Integers, FiniteSets, SequencesExt

CONSTANTS Karc, Rag,    \* the two arms
          Sessions,     \* sequence of the sessions measured
          Turns,        \* turns of a session
          Tok,          \* Tok[arm]: tokens, and price, of a turn
          Workers,      \* --parallel
          Retries,      \* --unit-retries
          Stop,         \* BUDGET_STOP_USD
          Namespaces,   \* values of --ns the operator uses
          Requests,     \* bound: what the operator may ask of the first, the
                        \* second .. process: --ns, --force and --only
          NoResult, Torn

Arm == {Karc, Rag}
Unit == Arm \X Range(Sessions)
Name == Namespaces \X Unit

ASSUME WaveAssumption ==
    /\ Karc # Rag /\ Turns \in Nat \ {0} /\ Tok \in [Arm -> Nat \ {0}]
    /\ Workers \in Nat \ {0} /\ {Retries, Stop} \subseteq Nat
    /\ Requests \in Seq(SUBSET [ns : Namespaces, force : BOOLEAN, only : SUBSET Unit])
    /\ Sessions \in Seq(Range(Sessions)) /\ Namespaces # {}
    /\ NoResult # Torn /\ Torn \notin Nat
    /\ {NoResult, Torn} \cap [turns : Nat, served : BOOLEAN] = {}

VARIABLES
    job,        \* the units of the running wave: phase, attempts, rows, served
    wave,       \* the running process: its namespace, --force, results lost?
    aborted,    \* the list of that name is not empty
    runs,       \* processes started
    results,    \* the units' result files
    marked,     \* the units that have a .failed.json
    store,      \* turns in the pi session store, per session name
    warm,       \* session names the provider holds a prompt cache for
    ledger,     \* spend-ledger.json
    tries,      \* attempts ever made per unit and namespace; 2 is any more
    counted     \* the results whose price is in the ledger

files == <<results, marked, store>>
vars == <<job, wave, aborted, runs, files, warm, ledger, tries, counted>>

-----------------------------------------------------------------------------
(* abba_order: karc rag rag karc karc rag ... *)
Abba == [i \in 1 .. 2 * Len(Sessions) |->
           LET s == (i + 1) \div 2
           IN <<IF s % 2 = i % 2 THEN Karc ELSE Rag, Sessions[s]>>]
Before(u, v) == \E i, j \in DOMAIN Abba : Abba[i] = u /\ Abba[j] = v /\ i < j

Idle == [phase |-> "absent", attempts |-> 0, rows |-> 0, served |-> FALSE]
Working == {"turns", "mistake", "save", "account"}
Reported == {"done", "failed", "skipped"}
At(phase) == {u \in Unit : job[u].phase = phase}
Active == {u \in Unit : job[u].phase \in Working}
Over == \A u \in Unit : job[u].phase \notin Working \cup {"queued"}

UnitName(u) == <<wave.ns, u>>                 \* unit_dir and the result files
SessionNameBare(u) == <<CHOOSE ns \in Namespaces : TRUE, u>>
SessionName(u) == <<wave.ns, u>>              \* pi_session_name
Price(u) == Turns * Tok[u[1]]                 \* _standard_priced_usd
\* The sum of a finite family of prices.
Total(prices) == Cardinality(UNION {{i} \X (1 .. prices[i]) : i \in DOMAIN prices})
Spent == Total([u \in At("done") |-> Price(u)])
Whole(n) == results[n] \notin {NoResult, Torn}

MoveTo(u, phase) == job' = [job EXCEPT ![u].phase = phase]
End(u, phase) == job' = [job EXCEPT ![u] = [Idle EXCEPT !.phase = phase]]

-----------------------------------------------------------------------------
(* main: a process starts. The files are what they are.                      *)
Start ==
    /\ Over /\ (At("raised") = {} \/ wave.lost) /\ runs < Len(Requests)
    /\ runs' = runs + 1
    /\ \E asked \in Requests[runs + 1] :
         /\ wave' = [ns |-> asked.ns, force |-> asked.force, lost |-> FALSE]
         /\ job' = [u \in Unit |->
                      [Idle EXCEPT !.phase = IF u \in asked.only THEN "queued" ELSE "absent"]]
    /\ aborted' = FALSE
    /\ UNCHANGED <<files, warm, ledger, tries, counted>>

AttemptUncounted(u) == [phase |-> "turns", attempts |-> 1, rows |-> 0, served |-> FALSE]
Attempt(u) == [phase |-> "turns", attempts |-> job[u].attempts + 1, rows |-> 0, served |-> FALSE]
ClearedNot(n) == store
Cleared(n) == [store EXCEPT ![n] = 0]

(* phase_unit, up to its first turn. A result on disk is returned, and will  *)
(* be accounted for again; without one, or with --force, the unit is made    *)
(* anew: no failure marker, an empty session store.                          *)
Enter(u) ==
    LET n == UnitName(u) IN
    \/ /\ ~wave.force /\ results[n] # NoResult
       /\ End(u, IF Whole(n) THEN "account" ELSE "raised")
       /\ UNCHANGED <<marked, store, tries>>
    \/ /\ wave.force \/ results[n] = NoResult
       /\ job' = [job EXCEPT ![u] = Attempt(u)]
       /\ marked' = marked \ {n}
       /\ store' = Cleared(SessionName(u))
       /\ tries' = [tries EXCEPT ![n] = IF @ = 0 THEN 1 ELSE 2]

(* An idle thread pops the first job left and then looks at aborted; of      *)
(* several idle threads, the one that popped last may look first.            *)
ReachableAtOnce(u) == TRUE
Reachable(u) == Cardinality({v \in At("queued") : Before(v, u)}) < Workers - Cardinality(Active)

TakeAnyway(u) ==
    /\ job[u].phase = "queued" /\ Reachable(u)
    /\ Enter(u)
    /\ UNCHANGED <<wave, aborted, runs, results, warm, ledger, counted>>
Take(u) ==
    /\ job[u].phase = "queued" /\ Reachable(u)
    /\ IF aborted
       THEN End(u, "skipped") /\ UNCHANGED <<marked, store, tries>>
       ELSE Enter(u)
    /\ UNCHANGED <<wave, aborted, runs, results, warm, ledger, counted>>

(* The provider works on a turn: the session grows and its prefix is cached. *)
Prompted(u, worked) ==
    LET n == SessionName(u) IN
    /\ store' = IF worked THEN [store EXCEPT ![n] = @ + 1] ELSE store
    /\ warm' = IF worked THEN warm \cup {n} ELSE warm

(* A turn is answered; the first may be served from a cache still alive.     *)
Answer(u) ==
    /\ job[u].phase = "turns"
    /\ Prompted(u, TRUE)
    /\ \E served \in BOOLEAN :
         /\ served => job[u].rows = 0 /\ SessionName(u) \in warm
         /\ job' = [job EXCEPT ![u].rows = @ + 1, ![u].served = @ \/ served,
                               ![u].phase = IF job[u].rows + 1 = Turns THEN "save" ELSE "turns"]
    /\ UNCHANGED <<wave, aborted, runs, results, marked, ledger, tries, counted>>

(* An error stop, a zero-usage call or an exit code: TurnFailure.            *)
Fatal(u) ==
    /\ job[u].phase = "turns"
    /\ \E worked \in BOOLEAN : Prompted(u, worked)
    /\ marked' = marked \cup {UnitName(u)}
    /\ MoveTo(u, "mistake")
    /\ UNCHANGED <<wave, aborted, runs, results, ledger, tries, counted>>

(* subprocess.TimeoutExpired is no TurnFailure: it leaves work.              *)
TimesOut(u) ==
    /\ job[u].phase = "turns"
    /\ \E worked \in BOOLEAN : Prompted(u, worked)
    /\ End(u, "raised")
    /\ UNCHANGED <<wave, aborted, runs, results, marked, ledger, tries, counted>>

Again(u) ==
    /\ job[u].phase = "mistake" /\ job[u].attempts <= Retries
    /\ Enter(u)
    /\ UNCHANGED <<wave, aborted, runs, results, warm, ledger, counted>>

GiveUpSilently(u) ==
    /\ job[u].phase = "mistake" /\ job[u].attempts > Retries
    /\ End(u, "failed")
    /\ UNCHANGED <<aborted, wave, runs, files, warm, ledger, tries, counted>>
GiveUp(u) ==
    /\ job[u].phase = "mistake" /\ job[u].attempts > Retries
    /\ End(u, "failed")
    /\ aborted' = TRUE
    /\ UNCHANGED <<wave, runs, files, warm, ledger, tries, counted>>

Save(u) ==
    /\ job[u].phase = "save"
    /\ results' = [results EXCEPT ![UnitName(u)] =
                     [turns |-> store[SessionName(u)], served |-> job[u].served]]
    /\ MoveTo(u, "account")
    /\ UNCHANGED <<wave, aborted, runs, marked, store, warm, ledger, tries, counted>>

AddedToWave(usd) == Spent + usd
Added(usd) == ledger + usd                    \* _ledger_add

(* Under the lock: the price goes to the ledger, which may stop the wave. *)
Account(u) ==
    /\ job[u].phase = "account"
    /\ IF ledger = Torn
       THEN End(u, "raised") /\ UNCHANGED <<ledger, aborted, counted>>
       ELSE /\ ledger' = Added(Price(u))
            /\ aborted' = (aborted \/ ledger' > Stop)
            /\ counted' = counted \cup {UnitName(u)}
            /\ End(u, "done")
    /\ UNCHANGED <<wave, runs, files, warm, tries>>

(* list(pool.map(..)) meets an exception: jobs not taken are cancelled, the  *)
(* threads at work finish, and no summary is written.                        *)
Collapse(u) ==
    /\ job[u].phase = "raised" /\ ~wave.lost
    /\ \A v \in Unit : Before(v, u) => job[v].phase \in Reported \cup {"absent"}
    /\ wave' = [wave EXCEPT !.lost = TRUE]
    /\ job' = [v \in Unit |-> IF job[v].phase = "queued" THEN Idle ELSE job[v]]
    /\ UNCHANGED <<aborted, runs, files, warm, ledger, tries, counted>>

(* The process dies, in the middle of a file it writes perhaps; calls it had *)
(* made may reach the provider all the same.                                 *)
Crash ==
    /\ ~Over
    /\ \E torn \in SUBSET At("save") :
         results' = [n \in Name |-> IF n[1] = wave.ns /\ n[2] \in torn THEN Torn ELSE results[n]]
    /\ ledger' \in {ledger} \cup (IF At("account") = {} THEN {} ELSE {Torn})
    /\ \E reached \in SUBSET At("turns") : warm' = warm \cup {SessionName(u) : u \in reached}
    /\ job' = [u \in Unit |-> Idle]
    /\ wave' = [wave EXCEPT !.lost = TRUE]
    /\ UNCHANGED <<aborted, runs, marked, store, tries, counted>>

-----------------------------------------------------------------------------
Init ==
    /\ job = [u \in Unit |-> Idle] /\ aborted = FALSE /\ runs = 0
    /\ wave = [ns |-> CHOOSE ns \in Namespaces : TRUE, force |-> FALSE, lost |-> TRUE]
    /\ results = [n \in Name |-> NoResult] /\ marked = {}
    /\ store = [n \in Name |-> 0] /\ warm = {}
    /\ ledger = 0 /\ tries = [n \in Name |-> 0] /\ counted = {}

Work(u) == \/ Take(u) \/ Answer(u) \/ Fatal(u) \/ TimesOut(u)
           \/ Again(u) \/ GiveUp(u) \/ Save(u) \/ Account(u) \/ Collapse(u)

Next == \/ Start
        \/ \E u \in Unit : Work(u)
        \/ Crash

Spec == Init /\ [][Next]_vars
(* The threads run, and the provider answers or the call times out.          *)
FairSpec == Spec /\ WF_vars(\E u \in Unit : Work(u))
-----------------------------------------------------------------------------
Largest(S) == CHOOSE n \in S : \A m \in S : m <= n
MaxTok == Largest({Tok[arm] : arm \in Arm})

WaveTypeOK ==
    /\ job \in [Unit -> [phase : Working \cup Reported \cup {"absent", "queued", "raised"},
                         attempts : 0 .. Retries + 1, rows : 0 .. Turns, served : BOOLEAN]]
    /\ wave \in [ns : Namespaces, force : BOOLEAN, lost : BOOLEAN]
    /\ aborted \in BOOLEAN /\ runs \in 0 .. Len(Requests)
    /\ results \in [Name -> {NoResult, Torn} \cup [turns : Nat, served : BOOLEAN]]
    /\ marked \subseteq Name /\ warm \subseteq Name /\ counted \subseteq Name
    /\ store \in [Name -> 0 .. Turns] /\ tries \in [Name -> 0 .. 2]
    /\ ledger \in Nat \cup {Torn}
    /\ Cardinality(Active) <= Workers

(* "A (re)run always starts from a freshly materialized unit and an empty    *)
(* session store": what a result reports was said in a session that holds    *)
(* the turns of that attempt and no others, whatever failed before.          *)
ResultsAreWhole == \A n \in Name : Whole(n) => results[n].turns = Turns

(* The ledger is cell-global: no result a wave has accounted for is missing  *)
(* from it, over all waves, namespaces and deaths of the process.            *)
LedgerCovers ==
    ledger # Torn => ledger >= Total([n \in counted |-> Price(n[2])])

(* A wave that ends with a summary either has a whole, accounted result for  *)
(* every unit asked for, or it says that it was aborted and which units      *)
(* failed, with their marker on disk, or were skipped.                       *)
SummaryIsComplete ==
    Over /\ ~wave.lost /\ At("raised") = {} =>
       \A u \in Unit :
          \/ job[u].phase = "absent"
          \/ job[u].phase = "done" /\ Whole(UnitName(u)) /\ UnitName(u) \in counted
          \/ job[u].phase = "failed" /\ aborted /\ UnitName(u) \in marked
          \/ job[u].phase = "skipped" /\ aborted

(* The guard looks at the ledger when a unit ends: a process takes it past   *)
(* the stop, or further past it, by the units in flight and no more.         *)
OvershootIsBounded ==
    ledger # Torn =>
       LET start == ledger - Spent
       IN ledger <= Largest({Stop, start}) + Workers * Turns * MaxTok

(* H10: a unit of a namespace never run before is served no cache.           *)
NamespaceIsolates ==
    \A n \in Name : Whole(n) => (results[n].served => tries[n] = 2)

(* A result can be believed: it is of one whole attempt, and cold if its     *)
(* namespace is new.                                                         *)
ResultsAreTrue == ResultsAreWhole /\ NamespaceIsolates

(* The stop can be believed: what was accounted for is in the ledger, and    *)
(* the ledger passes the stop by the units in flight only.                   *)
BooksAreSound == LedgerCovers /\ OvershootIsBounded

(* H10 as the module states it: a re-run is not served the cache a discarded *)
(* execution left behind.                                                    *)
ResultsAreCold == \A n \in Name : Whole(n) => ~results[n].served
=============================================================================
