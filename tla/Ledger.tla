------------------------------- MODULE Ledger -------------------------------
(* What paid runs may spend.  E10 and E11 guard every call with a             *)
(* HardAttemptBudget (three caps, checked against what is in flight), E5 with *)
(* a ModelSpendBudget that refunds calls the provider never worked on and     *)
(* lets threads wait for a slot.  A restart rebuilds either from the rows on  *)
(* disk, and a session counts only when one attempt at it holds every turn.   *)
(* The loop that uses them is not in the repository: Take, Call and Record    *)
(* follow the contract frozen in e11_baseline3.py (attempts append only,      *)
(* complete sessions are not run again, a cap stops the run).                 *)
EXTENDS Integers, FiniteSetsExt, SequencesExt

CONSTANTS Arms, Sessions,
          Schedule,         \* the pairs of an arm and a session, in the order they are run
          Length,           \* turns of a session
          Workers,          \* threads that run sessions
          SpendCap, InfraCap, CallCap,
          MaxResumes,       \* max_auto_resumes
          Failures,         \* error classes a call may end with
          Histories,        \* the rows files a run may start from
          MaxAttempts,      \* bound: attempts at one session
          MaxCrashes        \* bound: kills of the process

ASSUME CapsAssumption == SpendCap \in Nat \ {0} /\ InfraCap \in Nat /\ CallCap \in Nat
ASSUME LengthAssumption == Length \in Nat \ {0} /\ MaxResumes \in Nat

ASSUME WorkersAssumption == IsFiniteSet(Workers)
ASSUME SessionsAssumption == Schedule \in Seq(Arms \X Sessions)

VARIABLES kind,     \* "hard" or "refund": the budget this run uses
          budget,   \* [spend, infra, calls, inFlight]
          rows,     \* the append-only file, one row per turn
          run,      \* what each worker is doing
          paid,     \* model-spend attempts ever made, whoever remembers them
          crashes

vars == <<kind, budget, rows, run, paid, crashes>>

-----------------------------------------------------------------------------
(* What a call costs. *)

Results == [class : {"none"} \cup Failures, used : BOOLEAN]

IsModelSpend(r) == r.class = "none" \/ r.used

(* A row says what it cost, or (an older file) is judged by its class and     *)
(* the usage it carries; what it does not account for is infrastructure.      *)
RowAccounting(r) ==
  IF r.explicit
  THEN [calls |-> r.calls, spend |-> r.spend, infra |-> r.calls - r.spend]
  ELSE LET s == IF r.valid \/ r.used THEN 1 ELSE 0
       IN  [calls |-> r.calls, spend |-> s, infra |-> IF r.calls > s THEN r.calls - s ELSE 0]

(* The sum of a finite family of counts. *)
Total(counts) == Cardinality(UNION {{i} \X (1..counts[i]) : i \in DOMAIN counts})

LedgerFromRows(rs) ==
  [spend |-> Total([i \in DOMAIN rs |-> RowAccounting(rs[i]).spend]),
   infra |-> Total([i \in DOMAIN rs |-> RowAccounting(rs[i]).infra]),
   calls |-> Total([i \in DOMAIN rs |-> RowAccounting(rs[i]).calls]),
   inFlight |-> 0]

(* A row whose costs are numbers, and a file of such rows. *)
Costed(r) == /\ RowAccounting(r).spend \in Int
             /\ RowAccounting(r).infra \in Int
             /\ RowAccounting(r).calls \in Int

IsFile(rs) == /\ rs \in Seq({rs[i] : i \in DOMAIN rs})
              /\ \A i \in DOMAIN rs : Costed(rs[i])

(* An attempt and a position name a row.                                      *)
Named(rs) == \A i, j \in DOMAIN rs :
  rs[i].arm = rs[j].arm /\ rs[i].sid = rs[j].sid /\ rs[i].att = rs[j].att /\ rs[i].pos = rs[j].pos => i = j

(* A run starts from a file that an earlier run left.                         *)
ASSUME HistoriesAssumption ==
  \A rs \in Histories : IsFile(rs) /\ Named(rs) /\ \A i \in DOMAIN rs : rs[i].att \in Nat

WithinCaps(b) == b.spend <= SpendCap /\ b.infra <= InfraCap /\ b.calls <= CallCap

(* What the constructors demand of the history; they raise otherwise. *)
Admitted(k, b) == IF k = "hard" THEN WithinCaps(b) ELSE b.spend <= SpendCap

HardRefusesOnSettled(b) == b.spend >= SpendCap \/ b.infra >= InfraCap \/ b.calls >= CallCap

HardRefuses(b) == \/ b.spend + b.inFlight >= SpendCap
                  \/ b.infra + b.inFlight >= InfraCap
                  \/ b.calls + b.inFlight >= CallCap

HardReserved(b) == [b EXCEPT !.inFlight = @ + 1]

HardSettled(b, r) ==
  LET s == IF IsModelSpend(r) THEN 1 ELSE 0
  IN  [inFlight |-> b.inFlight - 1, calls |-> b.calls + 1, spend |-> b.spend + s, infra |-> b.infra + (1 - s)]

SlotIsFree(b) == b.spend + b.inFlight < SpendCap

SpendReserved(b) == [spend |-> b.spend, infra |-> b.infra, calls |-> b.calls + 1, inFlight |-> b.inFlight + 1]

SettledWithoutRelease(b, r) == IF IsModelSpend(r) THEN [b EXCEPT !.inFlight = @ - 1, !.spend = @ + 1]
                                                  ELSE [b EXCEPT !.infra = @ + 1]
RefundedFailures(b, r) == IF r.class = "none" THEN [b EXCEPT !.inFlight = @ - 1, !.spend = @ + 1]
                                              ELSE [b EXCEPT !.inFlight = @ - 1, !.infra = @ + 1]

SpendSettled(b, r) ==
  LET s == IF IsModelSpend(r) THEN 1 ELSE 0
  IN  [inFlight |-> b.inFlight - 1, calls |-> b.calls, spend |-> b.spend + s, infra |-> b.infra + (1 - s)]

(* Whether a failed turn is tried again by itself (InfraResumePolicy). *)
Resumes(class, retry) == retry < MaxResumes /\ class \in {"api_error", "usage_limit"}

-----------------------------------------------------------------------------
(* Which attempt at a session counts. *)

(* The rows of an attempt, and those of them that count, by their place in    *)
(* the file.                                                                  *)
UnitOf(rs, a, s, n) == {i \in DOMAIN rs : rs[i].arm = a /\ rs[i].sid = s /\ rs[i].att = n}
Valid(rs, unit) == {i \in unit : rs[i].valid}
AttemptsAt(rs, a, s) == {rs[i].att : i \in {j \in DOMAIN rs : rs[j].arm = a /\ rs[j].sid = s}}

WholeWhenBegun(rs, unit) == Valid(rs, unit) # {}

Whole(rs, unit) == /\ Cardinality(Valid(rs, unit)) = Length
                   /\ {rs[i].pos : i \in Valid(rs, unit)} = 1..Length

CompleteAttempts(rs, a, s) == {n \in AttemptsAt(rs, a, s) : Whole(rs, UnitOf(rs, a, s, n))}

(* The rows of the session that the analyses read: none, or those of the      *)
(* latest attempt that is whole.                                              *)
LatestComplete(rs, a, s) ==
  LET done == CompleteAttempts(rs, a, s)
  IN  IF done = {} THEN <<>> ELSE [i \in Valid(rs, UnitOf(rs, a, s, Max(done))) |-> rs[i]]

CompleteSessionKeys(rs) == {k \in Arms \X Sessions : LatestComplete(rs, k[1], k[2]) # <<>>}

LastSessionAttempt(rs, a, s) == IF AttemptsAt(rs, a, s) = {} THEN 0 ELSE Max(AttemptsAt(rs, a, s))
NextSessionAttempt(rs, a, s) == IF AttemptsAt(rs, a, s) = {} THEN 0 ELSE Max(AttemptsAt(rs, a, s)) + 1

(* A comparison is over the sessions both arms have complete. *)
PairedSessions(rs) == {s \in Sessions : \A a \in Arms : <<a, s>> \in CompleteSessionKeys(rs)}

-----------------------------------------------------------------------------
(* The run. *)

NoSession == <<>>
Idle == [pc |-> "idle", key |-> NoSession, att |-> 0, pos |-> 0, retry |-> 0, spend |-> 0, calls |-> 0]
Stopped == [Idle EXCEPT !.pc = "stopped"]
Begun(k, n, p) == [pc |-> "reserve", key |-> k, att |-> n, pos |-> p, retry |-> 0, spend |-> 0, calls |-> 0]
Tried(job, s, pc) == [pc |-> pc, key |-> job.key, att |-> job.att, pos |-> job.pos,
                      retry |-> job.retry + 1, spend |-> job.spend + s, calls |-> job.calls + 1]
Busy == {w \in Workers : run[w].pc \notin {"idle", "stopped"}}
Goto(w, pc) == run' = [run EXCEPT ![w].pc = pc]

Init == /\ kind \in {"hard", "refund"}
        /\ rows \in Histories
        /\ budget = LedgerFromRows(rows)
        /\ Admitted(kind, budget)
        /\ run = [w \in Workers |-> Idle]
        /\ paid = budget.spend
        /\ crashes = 0

(* A worker takes the next session nobody is at and no attempt has completed. *)
Takeable == {i \in DOMAIN Schedule : /\ Schedule[i] \notin CompleteSessionKeys(rows)
                                     /\ \A v \in Busy : run[v].key # Schedule[i]
                                     /\ NextSessionAttempt(rows, Schedule[i][1], Schedule[i][2]) < MaxAttempts}

Take(w) ==
  /\ run[w].pc = "idle" /\ Takeable # {}
  /\ LET k == Schedule[Min(Takeable)]
         n == NextSessionAttempt(rows, k[1], k[2])
     IN  run' = [run EXCEPT ![w] = Begun(k, n, 1)]
  /\ UNCHANGED <<kind, budget, rows, paid, crashes>>

ReserveHard(w) ==
  /\ run[w].pc = "reserve" /\ kind = "hard"
  /\ IF HardRefuses(budget)
     THEN run' = [run EXCEPT ![w] = Stopped] /\ UNCHANGED budget
     ELSE budget' = HardReserved(budget) /\ Goto(w, "call")
  /\ UNCHANGED <<kind, rows, paid, crashes>>

(* reserve_when_available: the thread waits while the cap is only             *)
(* provisionally reached, and gives up once it really is.                     *)
ReserveWhenAvailable(w) ==
  /\ run[w].pc = "reserve" /\ kind = "refund"
  /\ IF budget.spend >= SpendCap
     THEN run' = [run EXCEPT ![w] = Stopped] /\ UNCHANGED budget
     ELSE IF SlotIsFree(budget)
          THEN budget' = SpendReserved(budget) /\ Goto(w, "call")
          ELSE Goto(w, "waiting") /\ UNCHANGED budget
  /\ UNCHANGED <<kind, rows, paid, crashes>>

Unnotified == {}

(* The threads a settlement wakes: all that wait, each to look again. *)
Woken == {w \in Workers : run[w].pc = "waiting"}

(* The call returns and is settled; a thread that waits is woken.  A turn     *)
(* that failed is tried again, or it is recorded as it is.                    *)
Settle(w) ==
  /\ run[w].pc = "call"
  /\ \E r \in Results :
       LET again == r.class # "none" /\ Resumes(r.class, run[w].retry)
           s == IF IsModelSpend(r) THEN 1 ELSE 0
       IN  /\ budget' = IF kind = "hard" THEN HardSettled(budget, r) ELSE SpendSettled(budget, r)
           /\ paid' = paid + s
           /\ run' = [v \in Workers |->
                       IF v = w
                       THEN Tried(run[w], s, IF again THEN "reserve" ELSE IF r.class = "none" THEN "record_ok" ELSE "record_failed")
                       ELSE IF v \in Woken THEN [run[v] EXCEPT !.pc = "reserve"] ELSE run[v]]
  /\ UNCHANGED <<kind, rows, crashes>>

(* The turn's row is appended; a failed turn abandons the attempt. *)
Record(w) ==
  /\ run[w].pc \in {"record_ok", "record_failed"}
  /\ LET ok == run[w].pc = "record_ok"
     IN  /\ rows' = Append(rows, [arm |-> run[w].key[1], sid |-> run[w].key[2], att |-> run[w].att, pos |-> run[w].pos,
                                  valid |-> ok, used |-> ok,
                                  explicit |-> TRUE, calls |-> run[w].calls, spend |-> run[w].spend])
         /\ run' = [run EXCEPT ![w] = IF ok /\ run[w].pos < Length
                                      THEN Begun(run[w].key, run[w].att, run[w].pos + 1)
                                      ELSE Idle]
  /\ UNCHANGED <<kind, budget, paid, crashes>>

(* The process is killed and started again: what was not appended is          *)
(* forgotten, and the budget is what the rows say.                            *)
Crash == /\ crashes < MaxCrashes
         /\ crashes' = crashes + 1
         /\ budget' = LedgerFromRows(rows)
         /\ Admitted(kind, budget')
         /\ run' = [w \in Workers |-> Idle]
         /\ UNCHANGED <<kind, rows, paid>>

Thread(w) == Take(w) \/ ReserveHard(w) \/ ReserveWhenAvailable(w) \/ Settle(w) \/ Record(w)

Next == (\E w \in Workers : Thread(w)) \/ Crash

Spec == Init /\ [][Next]_vars

(* Threads run, and every call comes back (the drivers run with a timeout). *)
FairSpec == Spec /\ \A w \in Workers : WF_vars(Thread(w))

-----------------------------------------------------------------------------
(* Properties. *)

(* A reservation is held by exactly the calls in flight: no way a call may    *)
(* end leaks its slot, which would starve every later thread.                 *)
NoSlotLeaks == budget.inFlight = Cardinality({w \in Workers : run[w].pc = "call"})

(* Whatever the calls in flight turn out to be, settling them breaks no cap:  *)
(* the RuntimeError of HardAttemptBudget.settle is never raised, and a        *)
(* ModelSpendBudget never spends beyond its cap.                              *)
CapsHold ==
  /\ budget.spend + budget.inFlight <= SpendCap
  /\ kind = "hard" => /\ budget.infra + budget.inFlight <= InfraCap
                      /\ budget.calls + budget.inFlight <= CallCap

(* What was really paid for exceeds the cap by no more than what each kill    *)
(* forgot: the unrecorded attempts of one turn per thread.                    *)
PaidWithinCap == paid <= SpendCap + crashes * Cardinality(Workers) * (MaxResumes + 1)

(* The attempts of a session never share rows: a row's attempt and position   *)
(* name it, so whether an attempt is whole cannot be spoilt by another one,   *)
(* also after a kill.                                                         *)
RowsAreNamed == Named(rows)

(* A session once paired stays paired, on the same rows, so a difference that *)
(* was reported is never revised by what runs later.                          *)
ReportedIsFinal == [][\A s \in PairedSessions(rows) : \A a \in Arms :
                        LatestComplete(rows', a, s) = LatestComplete(rows, a, s)]_vars

(* What the file says of the money and of the sessions is true and stays so.  *)
LedgerIsTrue == [](PaidWithinCap /\ RowsAreNamed) /\ ReportedIsFinal

(* No thread waits for a slot for ever: it calls, or learns that the cap is   *)
(* really reached (reserve_when_available, notify_all).                       *)
WaitersReturn == \A w \in Workers : (run[w].pc = "waiting") ~> (run[w].pc # "waiting")
=============================================================================
