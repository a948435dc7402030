----------------------------- MODULE BenchProofs -----------------------------
(***************************************************************************)
(* Theorems about two machines of a measured execution: the budgets of     *)
(* Ledger that paid runs ask before each call, and the sessions of Chunks  *)
(* with their schedule and their index.                                    *)
(***************************************************************************)
EXTENDS Ledger, Chunks, FiniteSetTheorems, SequenceTheorems, WellFoundedInduction, TLAPS

LEMMA Least ==
  ASSUME NEW S \in SUBSET Nat, S # {}
  PROVE  \E m \in S : \A x \in S : m <= x
<1>1. PICK m \in S : \A x \in S : ~(<<x, m>> \in OpToRel(<, Nat))
  BY NatLessThanWellFounded, WFMin
<1>2. \A x \in S : ~(x < m)
  BY <1>1 DEF OpToRel
<1>3. QED
  BY <1>2

-----------------------------------------------------------------------------
(* The budgets: the caps hold, no slot leaks, what was paid for exceeds the   *)
(* cap by what the kills forgot only, and a paired session is never revised,  *)
(* whatever the caps, the histories, the threads and the moments at which the *)
(* process is killed.                                                         *)
Calling == {w \in Workers : run[w].pc = "call"}
BudgetCounts == [spend : Int, infra : Int, calls : Int, inFlight : Int]
Steps == {"idle", "stopped", "reserve", "waiting", "call", "record_ok", "record_failed"}

RunType == /\ DOMAIN run = Workers
           /\ \A w \in Workers :
                /\ run[w].pc \in Steps /\ run[w].spend \in Int /\ run[w].calls \in Int
                /\ run[w] = [pc |-> run[w].pc, key |-> run[w].key, att |-> run[w].att, pos |-> run[w].pos,
                             retry |-> run[w].retry, spend |-> run[w].spend, calls |-> run[w].calls]

(* What every step keeps: the costs are numbers, the slots are the calls in   *)
(* flight, and what is in flight is still within every cap.                   *)
LedgerInv == /\ kind \in {"hard", "refund"}
             /\ budget \in BudgetCounts
             /\ IsFile(rows)
             /\ RunType
             /\ NoSlotLeaks
             /\ CapsHold

LEMMA CallingFinite == IsFiniteSet(Calling)
  BY WorkersAssumption, FS_Subset DEF Calling

Pairs(counts) == UNION {{i} \X (1..counts[i]) : i \in DOMAIN counts}

(* The sum of counts over a finite domain is a number: the pairs it counts    *)
(* are a finite union of finite sets.                                         *)
LEMMA TotalIsNat ==
  ASSUME NEW counts, IsFiniteSet(DOMAIN counts), \A i \in DOMAIN counts : counts[i] \in Int
  PROVE  Total(counts) \in Nat /\ IsFiniteSet(Pairs(counts))
<1> DEFINE part == [i \in DOMAIN counts |-> {i} \X (1..counts[i])]
           parts == {part[i] : i \in DOMAIN counts}
<1>1. part \in Surjection(DOMAIN counts, parts)
  BY DEF Surjection
<1>0. IsFiniteSet(DOMAIN counts)
  OBVIOUS
<1>2. IsFiniteSet(parts)
  <2> HIDE DEF part, parts
  <2> QED BY <1>0, <1>1, FS_Surjection, Zenon
<1>3. ASSUME NEW i \in DOMAIN counts PROVE IsFiniteSet(part[i])
  <2>0. 1 \in Int /\ counts[i] \in Int
    OBVIOUS
  <2>1. IsFiniteSet(1..counts[i])
    <3> HIDE DEF part, parts
    <3> QED BY <2>0, FS_Interval
  <2>3. IsFiniteSet({i})
    BY FS_Singleton
  <2>2. IsFiniteSet({i} \X (1..counts[i]))
    BY <2>1, <2>3, FS_Product
  <2> QED BY <2>2
<1>4. \A p \in parts : IsFiniteSet(p)
  BY <1>3
<1>5. IsFiniteSet(UNION parts)
  <2> HIDE DEF parts
  <2> QED BY <1>2, <1>4, FS_UNION
<1>6. UNION parts = UNION {{i} \X (1..counts[i]) : i \in DOMAIN counts}
  OBVIOUS
<1> QED
  BY <1>5, <1>6, FS_CardinalityType DEF Total, Pairs

(* So a budget rebuilt from rows is a budget. *)
LEMMA LedgerIsCounts ==
  ASSUME NEW rs, IsFile(rs)
  PROVE  LedgerFromRows(rs) \in BudgetCounts /\ LedgerFromRows(rs).inFlight = 0
<1>1. IsFiniteSet(DOMAIN rs)
  <2>1. DOMAIN rs = 1..Len(rs) /\ Len(rs) \in Nat
    BY DEF IsFile
  <2> QED BY <2>1, FS_Interval
<1>2. ASSUME NEW counts, DOMAIN counts = DOMAIN rs, \A i \in DOMAIN counts : counts[i] \in Int
      PROVE  Total(counts) \in Int
  BY <1>1, <1>2, TotalIsNat
<1>3. Total([i \in DOMAIN rs |-> RowAccounting(rs[i]).spend]) \in Int
  BY <1>2 DEF IsFile, Costed
<1>4. Total([i \in DOMAIN rs |-> RowAccounting(rs[i]).infra]) \in Int
  BY <1>2 DEF IsFile, Costed
<1>5. Total([i \in DOMAIN rs |-> RowAccounting(rs[i]).calls]) \in Int
  BY <1>2 DEF IsFile, Costed
<1> QED
  BY <1>3, <1>4, <1>5 DEF LedgerFromRows, BudgetCounts

LEMMA AppendIsFile ==
  ASSUME NEW rs, IsFile(rs), NEW e, Costed(e)
  PROVE  IsFile(Append(rs, e))
<1> DEFINE S == {rs[i] : i \in DOMAIN rs} \cup {e}
           T == Append(rs, e)
<1>1. rs \in Seq(S) /\ e \in S
  BY DEF IsFile
<1>2. /\ Len(T) = Len(rs) + 1 /\ DOMAIN T = 1..Len(rs) + 1 /\ Len(rs) \in Nat
      /\ \A i \in 1..Len(rs) : T[i] = rs[i]
      /\ T[Len(rs) + 1] = e
      /\ DOMAIN rs = 1..Len(rs)
      /\ T \in Seq(S)
  BY <1>1
<1>3. \A i \in DOMAIN T : Costed(T[i])
  BY <1>2 DEF IsFile
<1>4. T \in Seq({T[i] : i \in DOMAIN T})
  BY <1>2
<1> QED
  BY <1>3, <1>4 DEF IsFile

(* Nothing that leaves the calls in flight, the budget and the rows alone can *)
(* break the invariant.                                                       *)
LEMMA QuietStep ==
  ASSUME LedgerInv, kind' = kind, budget' = budget, rows' = rows, RunType', Calling' = Calling
  PROVE  LedgerInv'
<1>1. NoSlotLeaks'
  BY DEF LedgerInv, NoSlotLeaks, Calling
<1> QED
  BY <1>1 DEF LedgerInv, CapsHold, IsFile, Costed, RowAccounting

(* Entering a call adds one to the calls in flight, leaving one takes it off. *)
LEMMA CallingCount ==
  ASSUME NEW w \in Workers
  PROVE  /\ Cardinality(Calling) \in Nat
         /\ w \notin Calling => Cardinality(Calling \cup {w}) = Cardinality(Calling) + 1
         /\ w \in Calling => /\ Cardinality(Calling \ {w}) = Cardinality(Calling) - 1
                             /\ Cardinality(Calling) >= 1
<1>1. IsFiniteSet(Calling \ {w}) /\ Cardinality(Calling \ {w}) \in Nat
  BY CallingFinite, FS_RemoveElement, FS_CardinalityType
<1>2. Cardinality(Calling) \in Nat
  BY CallingFinite, FS_CardinalityType
<1>3. w \notin Calling => Cardinality(Calling \cup {w}) = Cardinality(Calling) + 1
  BY CallingFinite, FS_AddElement
<1>4. w \in Calling => Cardinality(Calling \ {w}) = Cardinality(Calling) - 1
  BY CallingFinite, FS_RemoveElement
<1> QED
  BY <1>1, <1>2, <1>3, <1>4

LEMMA InitInv == Init => LedgerInv
<1> SUFFICES ASSUME Init PROVE LedgerInv
  OBVIOUS
<1>1. IsFile(rows)
  BY HistoriesAssumption DEF Init
<1>2. budget \in BudgetCounts /\ budget.inFlight = 0
  BY <1>1, LedgerIsCounts DEF Init
<1>3. RunType
  BY DEF Init, RunType, Idle, Steps
<1>4. Calling = {}
  BY DEF Init, Calling, Idle
<1>5. NoSlotLeaks
  BY <1>2, <1>4, FS_EmptySet DEF NoSlotLeaks, Calling
<1>6. CapsHold
  BY <1>2 DEF Init, Admitted, WithinCaps, CapsHold, BudgetCounts
<1> QED
  BY <1>1, <1>2, <1>3, <1>5, <1>6 DEF LedgerInv, Init

LEMMA TakeInv == ASSUME LedgerInv, NEW w \in Workers, Take(w) PROVE LedgerInv'
<1>0. PICK k, n : /\ run[w].pc = "idle"
                  /\ run' = [run EXCEPT ![w] = [pc |-> "reserve", key |-> k, att |-> n, pos |-> 1, retry |-> 0, spend |-> 0, calls |-> 0]]
  BY DEF Take, Begun
<1>1. RunType'
  BY <1>0 DEF LedgerInv, RunType, Steps
<1>2. Calling' = Calling
  BY <1>0 DEF LedgerInv, RunType, Calling
<1> QED
  BY <1>1, <1>2, QuietStep DEF Take

LEMMA CrashInv == ASSUME LedgerInv, Crash PROVE LedgerInv'
<1>1. budget' \in BudgetCounts /\ budget'.inFlight = 0
  BY LedgerIsCounts DEF LedgerInv, Crash
<1>2. RunType'
  BY DEF Crash, RunType, Idle, Steps
<1>3. Calling' = {}
  BY DEF Crash, Calling, Idle
<1>4. NoSlotLeaks'
  BY <1>1, <1>3, FS_EmptySet DEF NoSlotLeaks, Calling
<1>5. CapsHold'
  BY <1>1 DEF Crash, Admitted, WithinCaps, CapsHold, BudgetCounts
<1>6. IsFile(rows)'
  BY DEF LedgerInv, Crash, IsFile, Costed, RowAccounting
<1> QED
  BY <1>1, <1>2, <1>4, <1>5, <1>6 DEF LedgerInv, Crash

(* A reservation: one more call, and room for it under the caps. *)
LEMMA ReserveStep ==
  ASSUME LedgerInv, NEW w \in Workers, run[w].pc = "reserve", Goto(w, "call"), kind' = kind, rows' = rows,
         budget' \in BudgetCounts, budget'.inFlight = budget.inFlight + 1, CapsHold'
  PROVE  LedgerInv'
<1>1. RunType'
  BY DEF LedgerInv, RunType, Goto, Steps
<1>2. Calling' = Calling \cup {w} /\ w \notin Calling
  BY DEF LedgerInv, RunType, Goto, Calling
<1>3. NoSlotLeaks'
  BY <1>2, CallingCount DEF LedgerInv, NoSlotLeaks, Calling
<1> QED
  BY <1>1, <1>3 DEF LedgerInv, IsFile, Costed, RowAccounting

LEMMA ReserveHardInv == ASSUME LedgerInv, NEW w \in Workers, ReserveHard(w) PROVE LedgerInv'
<1>1. CASE HardRefuses(budget)
  <2>1. RunType'
    BY <1>1 DEF LedgerInv, RunType, ReserveHard, Stopped, Idle, Steps
  <2>2. Calling' = Calling
    BY <1>1 DEF LedgerInv, RunType, ReserveHard, Stopped, Idle, Calling
  <2> QED
    BY <1>1, <2>1, <2>2, QuietStep DEF ReserveHard
<1>2. CASE ~HardRefuses(budget)
  <2>1. budget' \in BudgetCounts /\ budget'.inFlight = budget.inFlight + 1
    BY <1>2 DEF LedgerInv, BudgetCounts, ReserveHard, HardReserved
  <2>2. CapsHold'
    BY <1>2, CapsAssumption DEF LedgerInv, BudgetCounts, ReserveHard, HardReserved, HardRefuses, CapsHold
  <2> QED
    BY <1>2, <2>1, <2>2, ReserveStep DEF ReserveHard
<1> QED
  BY <1>1, <1>2

LEMMA ReserveWhenAvailableInv == ASSUME LedgerInv, NEW w \in Workers, ReserveWhenAvailable(w) PROVE LedgerInv'
<1>1. CASE ~(budget.spend >= SpendCap) /\ SlotIsFree(budget)
  <2>0. budget' = SpendReserved(budget) /\ kind = "refund" /\ kind' = kind
    BY <1>1 DEF ReserveWhenAvailable
  <2>1. budget' \in BudgetCounts /\ budget'.inFlight = budget.inFlight + 1 /\ budget'.spend = budget.spend
    BY <2>0 DEF LedgerInv, BudgetCounts, SpendReserved
  <2>2. CapsHold'
    BY <1>1, <2>0, <2>1, CapsAssumption DEF LedgerInv, BudgetCounts, SlotIsFree, CapsHold
  <2> QED
    BY <1>1, <2>1, <2>2, ReserveStep DEF ReserveWhenAvailable
<1>2. CASE budget.spend >= SpendCap \/ ~SlotIsFree(budget)
  <2>1. RunType'
    BY <1>2 DEF LedgerInv, RunType, ReserveWhenAvailable, Stopped, Idle, Steps, Goto
  <2>2. Calling' = Calling
    BY <1>2 DEF LedgerInv, RunType, ReserveWhenAvailable, Stopped, Idle, Calling, Goto
  <2> QED
    BY <1>2, <2>1, <2>2, QuietStep DEF ReserveWhenAvailable
<1> QED
  BY <1>1, <1>2

LEMMA SettleInv == ASSUME LedgerInv, NEW w \in Workers, Settle(w) PROVE LedgerInv'
<1> PICK r \in Results :
      LET again == r.class # "none" /\ Resumes(r.class, run[w].retry)
          s == IF IsModelSpend(r) THEN 1 ELSE 0
      IN  /\ budget' = IF kind = "hard" THEN HardSettled(budget, r) ELSE SpendSettled(budget, r)
          /\ run' = [v \in Workers |->
                      IF v = w
                      THEN Tried(run[w], s, IF again THEN "reserve" ELSE IF r.class = "none" THEN "record_ok" ELSE "record_failed")
                      ELSE IF v \in Woken THEN [run[v] EXCEPT !.pc = "reserve"] ELSE run[v]]
  BY DEF Settle
<1>1. RunType'
  <2>1. DOMAIN run' = Workers
    OBVIOUS
  <2>2. ASSUME NEW v \in Workers
        PROVE  /\ run'[v].pc \in Steps /\ run'[v].spend \in Int /\ run'[v].calls \in Int
               /\ run'[v] = [pc |-> run'[v].pc, key |-> run'[v].key, att |-> run'[v].att, pos |-> run'[v].pos,
                             retry |-> run'[v].retry, spend |-> run'[v].spend, calls |-> run'[v].calls]
    <3>1. CASE v = w
      BY <3>1 DEF LedgerInv, RunType, Steps, Tried
    <3>2. CASE v # w /\ v \in Woken
      BY <3>2 DEF LedgerInv, RunType, Steps
    <3>3. CASE v # w /\ v \notin Woken
      BY <3>3 DEF LedgerInv, RunType, Steps
    <3> QED BY <3>1, <3>2, <3>3
  <2> QED BY <2>1, <2>2 DEF RunType
<1>2. Calling' = Calling \ {w} /\ w \in Calling
  BY DEF LedgerInv, RunType, Settle, Woken, Calling, Tried
<1>3. /\ budget' \in BudgetCounts /\ budget'.inFlight = budget.inFlight - 1
      /\ budget.inFlight >= 1
  <2>1. budget.inFlight >= 1 /\ budget \in BudgetCounts
    BY <1>2, CallingCount DEF LedgerInv, BudgetCounts, NoSlotLeaks, Calling
  <2>2. CASE kind = "hard"
    BY <2>1, <2>2 DEF BudgetCounts, HardSettled
  <2>3. CASE kind # "hard"
    BY <2>1, <2>3 DEF BudgetCounts, SpendSettled
  <2> QED BY <2>1, <2>2, <2>3
<1>4. NoSlotLeaks'
  BY <1>2, <1>3, CallingCount DEF LedgerInv, NoSlotLeaks, Calling
<1>5. CapsHold'
  BY <1>3, CapsAssumption DEF LedgerInv, BudgetCounts, Settle, HardSettled, SpendSettled, CapsHold
<1>6. IsFile(rows)' /\ kind' = kind
  BY DEF LedgerInv, Settle, IsFile, Costed, RowAccounting
<1> QED
  BY <1>1, <1>3, <1>4, <1>5, <1>6 DEF LedgerInv

LEMMA RecordInv == ASSUME LedgerInv, NEW w \in Workers, Record(w) PROVE LedgerInv'
<1>0. \E k, n, p : \E to \in {"reserve", "idle"} :
        run' = [run EXCEPT ![w] = [pc |-> to, key |-> k, att |-> n, pos |-> p, retry |-> 0, spend |-> 0, calls |-> 0]]
  <2>1. CASE run[w].pc = "record_ok" /\ run[w].pos < Length
    <3>1. run' = [run EXCEPT ![w] = Begun(run[w].key, run[w].att, run[w].pos + 1)]
      BY <2>1 DEF Record
    <3> QED BY <3>1 DEF Begun
  <2>2. CASE ~(run[w].pc = "record_ok" /\ run[w].pos < Length)
    <3>1. run' = [run EXCEPT ![w] = Idle]
      BY <2>2 DEF Record
    <3> QED BY <3>1 DEF Idle
  <2> QED BY <2>1, <2>2
<1>00. run[w].pc # "call"
  BY DEF Record
<1>1. RunType'
  BY <1>0 DEF LedgerInv, RunType, Steps
<1>2. Calling' = Calling
  BY <1>0, <1>00 DEF LedgerInv, RunType, Calling
<1>3. PICK e : rows' = Append(rows, e) /\ e.explicit = TRUE /\ e.calls = run[w].calls /\ e.spend = run[w].spend
  BY DEF Record
<1>4. Costed(e)
  BY <1>3 DEF Costed, RowAccounting, LedgerInv, RunType
<1>5. IsFile(rows)'
  <2>1. IsFile(Append(rows, e))
    BY <1>4, AppendIsFile DEF LedgerInv
  <2> QED BY <1>3, <2>1 DEF IsFile, Costed, RowAccounting
<1>6. budget' = budget /\ kind' = kind
  BY DEF Record
<1>7. NoSlotLeaks'
  BY <1>2, <1>6 DEF LedgerInv, NoSlotLeaks, Calling
<1> QED
  BY <1>1, <1>5, <1>6, <1>7 DEF LedgerInv, CapsHold

LEMMA StepInv == LedgerInv /\ [Next]_vars => LedgerInv'
<1> SUFFICES ASSUME LedgerInv, [Next]_vars PROVE LedgerInv'
  OBVIOUS
<1>1. ASSUME NEW w \in Workers, Thread(w) PROVE LedgerInv'
  BY <1>1, TakeInv, ReserveHardInv, ReserveWhenAvailableInv, SettleInv, RecordInv DEF Thread
<1>2. CASE Crash
  BY <1>2, CrashInv
<1>3. CASE UNCHANGED vars
  BY <1>3 DEF vars, LedgerInv, RunType, NoSlotLeaks, CapsHold, IsFile, Costed, RowAccounting
<1> QED
  BY <1>1, <1>2, <1>3 DEF Next

-----------------------------------------------------------------------------
(* Sums of counts.                                                            *)

LEMMA TotalGrows ==
  ASSUME NEW counts, IsFiniteSet(DOMAIN counts), \A i \in DOMAIN counts : counts[i] \in Int,
         NEW more, NEW x, x \notin DOMAIN counts, DOMAIN more = DOMAIN counts \cup {x},
         \A i \in DOMAIN counts : more[i] = counts[i], more[x] \in Nat
  PROVE  Total(more) = Total(counts) + more[x]
<1> DEFINE Old == UNION {{i} \X (1..counts[i]) : i \in DOMAIN counts}
           New == {x} \X (1..more[x])
           All == UNION {{i} \X (1..more[i]) : i \in DOMAIN more}
<1>1. All = Old \cup New
  <2>1. ASSUME NEW e \in All PROVE e \in Old \cup New
    <3>1. PICK i \in DOMAIN more : e \in {i} \X (1..more[i])
      OBVIOUS
    <3>2. CASE i = x
      BY <3>1, <3>2
    <3>3. CASE i \in DOMAIN counts
      BY <3>1, <3>3
    <3> QED BY <3>2, <3>3
  <2>2. ASSUME NEW e \in Old \cup New PROVE e \in All
    <3>1. CASE e \in New
      <4>1. x \in DOMAIN more
        OBVIOUS
      <4> QED BY <3>1, <4>1
    <3>2. CASE e \in Old
      <4>1. PICK i \in DOMAIN counts : e \in {i} \X (1..counts[i])
        BY <3>2
      <4>2. i \in DOMAIN more /\ more[i] = counts[i]
        OBVIOUS
      <4> QED BY <4>1, <4>2
    <3> QED BY <3>1, <3>2
  <2> QED BY <2>1, <2>2
<1>2. Old \cap New = {}
  OBVIOUS
<1>3. IsFiniteSet(Old) /\ Cardinality(Old) = Total(counts) /\ Total(counts) \in Nat
  <2>1. IsFiniteSet(Pairs(counts)) /\ Total(counts) \in Nat
    BY TotalIsNat
  <2> QED BY <2>1 DEF Total, Pairs
<1>4. IsFiniteSet(New) /\ Cardinality(New) = more[x]
  <2>1. IsFiniteSet({x}) /\ Cardinality({x}) = 1
    BY FS_Singleton
  <2>2. IsFiniteSet(1..more[x]) /\ Cardinality(1..more[x]) = more[x]
    BY FS_Interval
  <2>3. IsFiniteSet(New) /\ Cardinality(New) = Cardinality({x}) * Cardinality(1..more[x])
    BY <2>1, <2>2, FS_Product
  <2>4. 1 * more[x] = more[x]
    OBVIOUS
  <2> QED BY <2>1, <2>2, <2>3, <2>4
<1>5. Total(more) = Cardinality(All)
  BY DEF Total
<1>6. Cardinality(Old \cup New) = Cardinality(Old) + Cardinality(New) - Cardinality(Old \cap New)
  <2> HIDE DEF Old, New
  <2> QED BY <1>3, <1>4, FS_Union
<1>7. Cardinality(Old \cap New) = 0
  BY <1>2, FS_EmptySet
<1> HIDE DEF Old, New, All
<1> QED BY <1>1, <1>3, <1>4, <1>5, <1>6, <1>7

(* One count of several changes. *)
LEMMA TotalMoves ==
  ASSUME NEW S, IsFiniteSet(S), NEW x \in S,
         NEW old, DOMAIN old = S, \A i \in S : old[i] \in Nat,
         NEW new, DOMAIN new = S, \A i \in S : i # x => new[i] = old[i], new[x] \in Nat
  PROVE  /\ Total(old) \in Nat /\ Total(new) \in Nat
         /\ Total(new) + old[x] = Total(old) + new[x]
<1> DEFINE rest == [i \in S \ {x} |-> old[i]]
<1>1. IsFiniteSet(S \ {x})
  BY FS_RemoveElement
<1>2. /\ DOMAIN rest = S \ {x} /\ x \notin DOMAIN rest /\ S = DOMAIN rest \cup {x}
      /\ \A i \in DOMAIN rest : rest[i] \in Int
      /\ \A i \in DOMAIN rest : old[i] = rest[i] /\ new[i] = rest[i]
      /\ old[x] \in Nat
  OBVIOUS
<1> HIDE DEF rest
<1>3. Total(rest) \in Nat
  BY <1>1, <1>2, TotalIsNat
<1>4. Total(old) = Total(rest) + old[x]
  BY <1>1, <1>2, TotalGrows
<1>5. Total(new) = Total(rest) + new[x]
  BY <1>1, <1>2, TotalGrows
<1> QED BY <1>2, <1>3, <1>4, <1>5

(* BudgetCounts up to a bound add up to that bound for each.  *)
LEMMA TotalIsBounded ==
  ASSUME NEW S, IsFiniteSet(S), NEW counts, DOMAIN counts = S, NEW most \in Nat,
         \A i \in S : counts[i] \in Nat /\ counts[i] <= most
  PROVE  Total(counts) \in Nat /\ Total(counts) <= Cardinality(S) * most
<1> DEFINE part == UNION {{i} \X (1..counts[i]) : i \in DOMAIN counts}
<1>1. part \subseteq S \X (1..most)
  <2> SUFFICES ASSUME NEW i \in S, NEW n \in 1..counts[i]
               PROVE  <<i, n>> \in S \X (1..most)
    OBVIOUS
  <2>1. n \in 1..most
    OBVIOUS
  <2> QED BY <2>1
<1>2. IsFiniteSet(1..most) /\ Cardinality(1..most) = most
  BY FS_Interval
<1>3. IsFiniteSet(S \X (1..most)) /\ Cardinality(S \X (1..most)) = Cardinality(S) * most
  BY <1>2, FS_Product
<1>4. Cardinality(part) <= Cardinality(S) * most
  <2> HIDE DEF part
  <2> QED BY <1>1, <1>3, FS_Subset
<1>5. Total(counts) \in Nat
  BY TotalIsNat
<1> QED BY <1>4, <1>5 DEF Total

-----------------------------------------------------------------------------
(* The money.  What the budget knows is what the rows say and what the        *)
(* threads have spent since; a kill forgets no more than the latter.          *)

OneTurn == MaxResumes + 1                  \* what a thread may have to forget
Debt(w) == IF run[w].pc = "stopped" THEN OneTurn ELSE run[w].spend
Debts == [w \in Workers |-> Debt(w)]
AtRisk == Cardinality(Workers) * OneTurn
Written == LedgerFromRows(rows).spend

Trying == {"reserve", "waiting", "call"}
Tries(w) == /\ run[w].retry \in Nat /\ run[w].spend \in Nat
            /\ run[w].spend <= run[w].retry /\ run[w].retry <= OneTurn
            /\ run[w].pc \in Trying => run[w].retry <= MaxResumes
            /\ run[w].pc = "idle" => run[w].spend = 0

MoneyInv == /\ crashes \in Nat /\ paid \in Int
            /\ \A w \in Workers : Tries(w)
            /\ budget.spend <= Written + Total(Debts)
            /\ paid <= budget.spend + crashes * AtRisk

LEMMA RiskIsNat ==
  /\ OneTurn \in Nat /\ AtRisk \in Nat /\ MaxResumes \in Nat
  /\ \A c \in Nat : c * AtRisk \in Nat /\ (c + 1) * AtRisk = c * AtRisk + AtRisk
<1>1. Cardinality(Workers) \in Nat /\ MaxResumes \in Nat
  BY WorkersAssumption, FS_CardinalityType, LengthAssumption
<1>2. ASSUME NEW a \in Nat, NEW b \in Nat
      PROVE  a * b \in Nat /\ (a + 1) * b = a * b + b
  OBVIOUS
<1>3. OneTurn \in Nat
  BY <1>1 DEF OneTurn
<1>4. AtRisk \in Nat
  BY <1>1, <1>2, <1>3 DEF AtRisk
<1> QED BY <1>1, <1>2, <1>3, <1>4

LEMMA DebtsAreNat ==
  ASSUME \A w \in Workers : Tries(w)
  PROVE  /\ DOMAIN Debts = Workers
         /\ \A w \in Workers : Debts[w] \in Nat /\ Debts[w] <= OneTurn
         /\ Total(Debts) \in Nat /\ Total(Debts) <= AtRisk
<1>1. DOMAIN Debts = Workers
  BY DEF Debts
<1>2. ASSUME NEW w \in Workers PROVE Debts[w] \in Nat /\ Debts[w] <= OneTurn
  BY RiskIsNat DEF Debts, Debt, Tries
<1> HIDE DEF Debts
<1>3. Total(Debts) \in Nat /\ Total(Debts) <= Cardinality(Workers) * OneTurn
  BY <1>1, <1>2, RiskIsNat, WorkersAssumption, TotalIsBounded
<1> QED BY <1>1, <1>2, <1>3 DEF AtRisk

(* The rows' total after one more row. *)
LEMMA WrittenGrows ==
  ASSUME LedgerInv, NEW e, e.explicit = TRUE, e.spend \in Nat, rows' = Append(rows, e)
  PROVE  Written \in Int /\ Written' = Written + e.spend
<1> DEFINE S == {rows[i] : i \in DOMAIN rows} \cup {e}
           old == [i \in DOMAIN rows |-> RowAccounting(rows[i]).spend]
           new == [i \in DOMAIN rows' |-> RowAccounting(rows'[i]).spend]
           x == Len(rows) + 1
<1>1. rows \in Seq(S) /\ e \in S
  BY DEF LedgerInv, IsFile
<1>2. /\ Len(rows) \in Nat /\ DOMAIN rows = 1..Len(rows)
      /\ DOMAIN rows' = DOMAIN rows \cup {x} /\ x \notin DOMAIN rows
      /\ \A i \in DOMAIN rows : rows'[i] = rows[i]
      /\ rows'[x] = e
  BY <1>1
<1>3. IsFiniteSet(DOMAIN rows)
  BY <1>2, FS_Interval
<1>4. /\ DOMAIN old = DOMAIN rows /\ DOMAIN new = DOMAIN rows \cup {x}
      /\ \A i \in DOMAIN old : old[i] \in Int
      /\ \A i \in DOMAIN old : new[i] = old[i]
      /\ new[x] = e.spend
  <2>1. \A i \in DOMAIN rows : RowAccounting(rows[i]).spend \in Int
    BY DEF LedgerInv, IsFile, Costed
  <2>2. RowAccounting(e).spend = e.spend
    BY DEF RowAccounting
  <2>3. RowAccounting(rows'[x]).spend = e.spend
    BY <1>2, <2>2
  <2> QED BY <1>2, <2>1, <2>3
<1>5. Written = Total(old) /\ Written' = Total(new)
  BY DEF Written, LedgerFromRows
<1> HIDE DEF old, new, x
<1>6. Total(old) \in Nat
  BY <1>3, <1>4, TotalIsNat
<1>7. Total(new) = Total(old) + new[x]
  BY <1>2, <1>3, <1>4, TotalGrows
<1> QED BY <1>4, <1>5, <1>6, <1>7

LEMMA WrittenIsInt == LedgerInv => Written \in Int /\ budget.spend \in Int
BY LedgerIsCounts DEF LedgerInv, Written, BudgetCounts

(* A step of one thread: what it spends is written, or becomes its debt.      *)
LEMMA MoneyMoves ==
  ASSUME LedgerInv, LedgerInv', MoneyInv, NEW w \in Workers, \A v \in Workers : Tries(v)',
         \A v \in Workers : v # w => Debt(v)' = Debt(v),
         crashes' = crashes, NEW k \in Int,
         paid' = paid + k, budget'.spend = budget.spend + k,
         Written + Debt(w) + k <= Written' + Debt(w)'
  PROVE  MoneyInv'
<1>1. Written \in Int /\ Written' \in Int /\ budget.spend \in Int /\ budget'.spend \in Int
  <2>1. IsFile(rows') /\ budget' \in BudgetCounts
    BY DEF LedgerInv, IsFile, Costed, RowAccounting
  <2>2. LedgerFromRows(rows') \in BudgetCounts
    BY <2>1, LedgerIsCounts
  <2> QED BY <2>1, <2>2, WrittenIsInt DEF BudgetCounts, Written
<1>2. /\ DOMAIN Debts = Workers /\ \A v \in Workers : Debts[v] \in Nat
      /\ Debts[w] = Debt(w)
  BY DebtsAreNat DEF MoneyInv, Debts
<1>3. /\ DOMAIN Debts' = Workers /\ \A v \in Workers : v # w => Debts'[v] = Debts[v]
      /\ Debts'[w] = Debt(w)' /\ Debt(w)' \in Nat
  <2>1. Debt(w)' \in Nat
    BY RiskIsNat DEF Debt, Tries
  <2> QED BY <2>1 DEF Debts
<1>4. /\ Total(Debts) \in Nat /\ Total(Debts') \in Nat
      /\ Total(Debts') + Debts[w] = Total(Debts) + Debts'[w]
  <2> HIDE DEF Debts
  <2> QED BY <1>2, <1>3, WorkersAssumption, TotalMoves
<1>5. /\ paid \in Int /\ crashes \in Nat /\ crashes * AtRisk \in Nat
      /\ budget.spend <= Written + Total(Debts)
      /\ paid <= budget.spend + crashes * AtRisk
  BY RiskIsNat DEF MoneyInv
<1>6. budget'.spend <= Written' + Total(Debts')
  <2>1. Debt(w) \in Nat
    BY <1>2
  <2>2. Total(Debts') + Debt(w) = Total(Debts) + Debt(w)'
    BY <1>2, <1>3, <1>4
  <2> HIDE DEF Debts, Debt, Written
  <2> QED BY <1>1, <1>3, <1>4, <1>5, <2>1, <2>2
<1>7. /\ paid' \in Int /\ crashes' \in Nat /\ paid' <= budget'.spend + crashes' * AtRisk
  BY <1>1, <1>5
<1> QED BY <1>6, <1>7 DEF MoneyInv

LEMMA MoneyInit == Init => MoneyInv
<1> SUFFICES ASSUME Init PROVE MoneyInv
  OBVIOUS
<1>1. LedgerInv
  BY InitInv
<1>2. \A w \in Workers : Tries(w)
  BY RiskIsNat DEF Init, Idle, Tries, Trying
<1>3. Total(Debts) \in Nat
  BY <1>2, DebtsAreNat
<1>4. budget.spend = Written /\ Written \in Int /\ paid = Written /\ crashes = 0
  BY <1>1, WrittenIsInt DEF Init, Written
<1>5. budget.spend <= Written + Total(Debts) /\ paid \in Int
  BY <1>3, <1>4
<1>6. 0 * AtRisk = 0
  BY RiskIsNat
<1>7. crashes \in Nat /\ paid <= budget.spend + crashes * AtRisk
  BY <1>4, <1>6
<1> QED BY <1>2, <1>5, <1>7 DEF MoneyInv

LEMMA TakeMoney ==
  ASSUME LedgerInv, LedgerInv', MoneyInv, NEW w \in Workers, Take(w)
  PROVE  MoneyInv'
<1>1. PICK k, n : /\ run[w].pc = "idle"
                  /\ run' = [run EXCEPT ![w] = [pc |-> "reserve", key |-> k, att |-> n, pos |-> 1, retry |-> 0, spend |-> 0, calls |-> 0]]
  BY DEF Take, Begun
<1>2. /\ run'[w].spend = 0 /\ run'[w].retry = 0 /\ run'[w].pc = "reserve"
      /\ \A v \in Workers : v # w => run'[v] = run[v]
  BY <1>1 DEF LedgerInv, RunType
<1>3. \A v \in Workers : Tries(v)'
  BY <1>2, RiskIsNat DEF MoneyInv, Tries
<1>4. /\ Debt(w) = 0 /\ Debt(w)' = 0 /\ \A v \in Workers : v # w => Debt(v)' = Debt(v)
  BY <1>1, <1>2 DEF Debt, MoneyInv, Tries
<1>5. Written' = Written /\ Written \in Int /\ budget' = budget /\ paid' = paid /\ crashes' = crashes
  BY WrittenIsInt DEF Take, Written
<1>6. /\ paid' = paid + 0 /\ budget'.spend = budget.spend + 0
      /\ Written + Debt(w) + 0 <= Written' + Debt(w)'
  BY <1>4, <1>5, WrittenIsInt DEF MoneyInv
<1> QED BY <1>3, <1>4, <1>5, <1>6, MoneyMoves

(* A thread reserves, waits or stops: its debt does not fall. *)
LEMMA ReserveMoney ==
  ASSUME LedgerInv, LedgerInv', MoneyInv, NEW w \in Workers, ReserveHard(w) \/ ReserveWhenAvailable(w)
  PROVE  MoneyInv'
<1>0. run[w].pc = "reserve" /\ run[w].pc \in Trying
  BY DEF ReserveHard, ReserveWhenAvailable, Trying
<1>1. \/ run' = [run EXCEPT ![w] = Stopped]
      \/ \E to \in {"call", "waiting"} : run' = [run EXCEPT ![w].pc = to]
  BY DEF ReserveHard, ReserveWhenAvailable, Goto
<1>2. /\ \/ run'[w].pc = "stopped" /\ run'[w].spend = 0 /\ run'[w].retry = 0
         \/ run'[w].pc \in {"call", "waiting"} /\ run'[w].spend = run[w].spend /\ run'[w].retry = run[w].retry
      /\ \A v \in Workers : v # w => run'[v] = run[v]
  <2>1. CASE run' = [run EXCEPT ![w] = Stopped]
    BY <2>1 DEF LedgerInv, RunType, Stopped, Idle
  <2>2. ASSUME NEW to \in {"call", "waiting"}, run' = [run EXCEPT ![w].pc = to]
        PROVE  /\ run'[w].pc = to /\ run'[w].spend = run[w].spend /\ run'[w].retry = run[w].retry
               /\ \A v \in Workers : v # w => run'[v] = run[v]
    BY <2>2 DEF LedgerInv, RunType
  <2> QED BY <1>1, <2>1, <2>2
<1>3. Tries(w)'
  <2>1. /\ run[w].retry \in Nat /\ run[w].spend \in Nat /\ run[w].spend <= run[w].retry
        /\ run[w].retry <= OneTurn /\ run[w].retry <= MaxResumes
    BY <1>0 DEF MoneyInv, Tries
  <2>2. OneTurn \in Nat /\ MaxResumes \in Nat
    BY RiskIsNat
  <2>3. CASE run'[w].pc = "stopped" /\ run'[w].spend = 0 /\ run'[w].retry = 0
    BY <2>2, <2>3 DEF Tries
  <2>4. CASE run'[w].pc \in {"call", "waiting"} /\ run'[w].spend = run[w].spend /\ run'[w].retry = run[w].retry
    BY <2>1, <2>4 DEF Tries
  <2> QED BY <1>2, <2>3, <2>4
<1>4. \A v \in Workers : Tries(v)'
  BY <1>2, <1>3 DEF MoneyInv, Tries
<1>5. /\ Debt(w) \in Nat /\ Debt(w)' \in Nat /\ Debt(w) <= Debt(w)'
      /\ \A v \in Workers : v # w => Debt(v)' = Debt(v)
  BY <1>0, <1>2, RiskIsNat DEF Debt, MoneyInv, Tries
<1>6. /\ Written' = Written /\ Written \in Int /\ paid' = paid /\ crashes' = crashes
      /\ budget'.spend = budget.spend
  <2>1. budget'.spend = budget.spend
    BY DEF LedgerInv, BudgetCounts, ReserveHard, ReserveWhenAvailable, HardReserved, SpendReserved
  <2> QED BY <2>1, WrittenIsInt DEF ReserveHard, ReserveWhenAvailable, Written
<1>7. /\ paid' = paid + 0 /\ budget'.spend = budget.spend + 0
      /\ Written + Debt(w) + 0 <= Written' + Debt(w)'
  BY <1>5, <1>6, WrittenIsInt DEF MoneyInv
<1> QED BY <1>4, <1>5, <1>6, <1>7, MoneyMoves

LEMMA SettleMoney ==
  ASSUME LedgerInv, LedgerInv', MoneyInv, NEW w \in Workers, Settle(w)
  PROVE  MoneyInv'
<1> PICK r \in Results :
      LET again == r.class # "none" /\ Resumes(r.class, run[w].retry)
          s == IF IsModelSpend(r) THEN 1 ELSE 0
      IN  /\ budget' = IF kind = "hard" THEN HardSettled(budget, r) ELSE SpendSettled(budget, r)
          /\ paid' = paid + s
          /\ run' = [v \in Workers |->
                      IF v = w
                      THEN Tried(run[w], s, IF again THEN "reserve" ELSE IF r.class = "none" THEN "record_ok" ELSE "record_failed")
                      ELSE IF v \in Woken THEN [run[v] EXCEPT !.pc = "reserve"] ELSE run[v]]
  BY DEF Settle
<1> DEFINE s == IF IsModelSpend(r) THEN 1 ELSE 0
           again == r.class # "none" /\ Resumes(r.class, run[w].retry)
<1>0. s \in {0, 1} /\ run[w].pc = "call"
  BY DEF Settle
<1>1. budget'.spend = budget.spend + s
  BY DEF HardSettled, SpendSettled
<1>2. /\ run'[w].spend = run[w].spend + s /\ run'[w].retry = run[w].retry + 1
      /\ run'[w].pc = IF again THEN "reserve" ELSE IF r.class = "none" THEN "record_ok" ELSE "record_failed"
  BY DEF Tried
<1>3. ASSUME NEW v \in Workers, v # w
      PROVE  /\ run'[v].spend = run[v].spend /\ run'[v].retry = run[v].retry
             /\ \/ run'[v].pc = run[v].pc
                \/ run[v].pc = "waiting" /\ run'[v].pc = "reserve"
  <2>1. CASE v \in Woken
    <3>1. run'[v] = [run[v] EXCEPT !.pc = "reserve"]
      BY <1>3, <2>1
    <3>2. run[v].pc = "waiting"
      BY <2>1 DEF Woken
    <3> QED BY <3>1, <3>2 DEF LedgerInv, RunType
  <2>2. CASE v \notin Woken
    BY <1>3, <2>2
  <2> QED BY <2>1, <2>2
<1> HIDE DEF s
<1>4. Tries(w)'
  <2>1. /\ run[w].retry \in Nat /\ run[w].spend \in Nat /\ run[w].spend <= run[w].retry
        /\ run[w].retry <= MaxResumes
    BY <1>0 DEF MoneyInv, Tries, Trying
  <2>2. /\ run'[w].retry \in Nat /\ run'[w].spend \in Nat /\ run'[w].spend <= run'[w].retry
        /\ run'[w].retry <= OneTurn
    BY <1>0, <1>2, <2>1, RiskIsNat DEF OneTurn
  <2>3. run'[w].pc \in Trying => run'[w].retry <= MaxResumes
    <3>1. ASSUME again PROVE run'[w].retry <= MaxResumes
      BY <1>2, <2>1, <3>1, RiskIsNat DEF Resumes
    <3>2. ASSUME ~again PROVE run'[w].pc \notin Trying
      BY <1>2, <3>2 DEF Trying
    <3> QED BY <3>1, <3>2
  <2>4. run'[w].pc # "idle"
    BY <1>2
  <2> QED BY <2>2, <2>3, <2>4 DEF Tries
<1>5. ASSUME NEW v \in Workers, v # w PROVE Tries(v)' /\ Debt(v)' = Debt(v)
  <2>1. Tries(v)
    BY DEF MoneyInv
  <2> QED BY <1>3, <1>5, <2>1 DEF Tries, Trying, Debt
<1>6. \A v \in Workers : Tries(v)'
  BY <1>4, <1>5
<1>7. Debt(w) = run[w].spend /\ Debt(w)' = run[w].spend + s /\ run[w].spend \in Nat
  BY <1>0, <1>2 DEF Debt, MoneyInv, Tries
<1>8. /\ Written' = Written /\ Written \in Int /\ crashes' = crashes
      /\ s \in Int /\ paid' = paid + s
  BY <1>0, WrittenIsInt DEF Settle, Written, s
<1>9. Written + Debt(w) + s <= Written' + Debt(w)'
  BY <1>7, <1>8
<1> QED BY <1>1, <1>5, <1>6, <1>8, <1>9, MoneyMoves

LEMMA RecordMoney ==
  ASSUME LedgerInv, LedgerInv', MoneyInv, NEW w \in Workers, Record(w)
  PROVE  MoneyInv'
<1>1. /\ run'[w].spend = 0 /\ run'[w].retry = 0 /\ run'[w].pc \in {"reserve", "idle"}
      /\ \A v \in Workers : v # w => run'[v] = run[v]
  <2>1. CASE run[w].pc = "record_ok" /\ run[w].pos < Length
    <3>1. run' = [run EXCEPT ![w] = Begun(run[w].key, run[w].att, run[w].pos + 1)]
      BY <2>1 DEF Record
    <3> QED BY <3>1 DEF Begun, LedgerInv, RunType
  <2>2. CASE ~(run[w].pc = "record_ok" /\ run[w].pos < Length)
    <3>1. run' = [run EXCEPT ![w] = Idle]
      BY <2>2 DEF Record
    <3> QED BY <3>1 DEF Idle, LedgerInv, RunType
  <2> QED BY <2>1, <2>2
<1>2. \A v \in Workers : Tries(v)'
  BY <1>1, RiskIsNat DEF MoneyInv, Tries
<1>3. /\ Debt(w) = run[w].spend /\ run[w].spend \in Nat /\ Debt(w)' = 0
      /\ \A v \in Workers : v # w => Debt(v)' = Debt(v)
  BY <1>1 DEF Debt, MoneyInv, Tries, Record
<1>4. PICK e : rows' = Append(rows, e) /\ e.explicit = TRUE /\ e.spend = run[w].spend
  BY DEF Record
<1>5. Written \in Int /\ Written' = Written + run[w].spend
  BY <1>3, <1>4, WrittenGrows
<1>6. paid' = paid + 0 /\ budget'.spend = budget.spend + 0 /\ crashes' = crashes
  BY WrittenIsInt DEF Record, MoneyInv
<1>7. Written + Debt(w) + 0 <= Written' + Debt(w)'
  BY <1>3, <1>5
<1> QED BY <1>2, <1>3, <1>6, <1>7, MoneyMoves

(* A kill: what was paid for and not written is forgotten. *)
LEMMA CrashMoney ==
  ASSUME LedgerInv, LedgerInv', MoneyInv, Crash
  PROVE  MoneyInv'
<1>1. \A w \in Workers : Tries(w)'
  BY RiskIsNat DEF Crash, Idle, Tries, Trying
<1>2. Total(Debts') \in Nat
  <2>1. DOMAIN Debts' = Workers
    BY DEF Debts
  <2>2. \A w \in Workers : Debts'[w] \in Int
    BY <1>1, RiskIsNat DEF Debts, Debt, Tries
  <2> QED BY <2>1, <2>2, WorkersAssumption, TotalIsNat
<1>3. budget'.spend = Written /\ Written' = Written /\ Written \in Int /\ budget.spend \in Int
  BY WrittenIsInt DEF Crash, Written
<1>4. crashes' = crashes + 1 /\ paid' = paid
  BY DEF Crash
<1>5. /\ paid \in Int /\ crashes \in Nat /\ budget.spend <= Written + Total(Debts)
      /\ paid <= budget.spend + crashes * AtRisk
      /\ Total(Debts) \in Nat /\ Total(Debts) <= AtRisk
  BY DebtsAreNat DEF MoneyInv
<1>6. /\ AtRisk \in Nat /\ crashes * AtRisk \in Nat
      /\ (crashes + 1) * AtRisk = crashes * AtRisk + AtRisk
  BY <1>5, RiskIsNat
<1>7. paid' <= budget'.spend + crashes' * AtRisk
  <2>1. paid <= Written + crashes * AtRisk + AtRisk
    BY <1>3, <1>5, <1>6
  <2>2. crashes' * AtRisk = crashes * AtRisk + AtRisk
    BY <1>4, <1>6
  <2> QED BY <1>3, <1>4, <1>5, <1>6, <2>1, <2>2
<1>8. budget'.spend <= Written' + Total(Debts') /\ paid' \in Int /\ crashes' \in Nat
  BY <1>2, <1>3, <1>4, <1>5
<1> QED BY <1>1, <1>7, <1>8 DEF MoneyInv

LEMMA MoneyStep == LedgerInv /\ LedgerInv' /\ MoneyInv /\ [Next]_vars => MoneyInv'
<1> SUFFICES ASSUME LedgerInv, LedgerInv', MoneyInv, [Next]_vars PROVE MoneyInv'
  OBVIOUS
<1>1. ASSUME NEW w \in Workers, Thread(w) PROVE MoneyInv'
  BY <1>1, TakeMoney, ReserveMoney, SettleMoney, RecordMoney DEF Thread
<1>2. CASE Crash
  BY <1>2, CrashMoney
<1>3. CASE UNCHANGED vars
  BY <1>3 DEF vars, MoneyInv, Tries, Debts, Debt, Written
<1> QED BY <1>1, <1>2, <1>3 DEF Next

LEMMA MoneySafe == LedgerInv /\ MoneyInv => PaidWithinCap
<1> SUFFICES ASSUME LedgerInv, MoneyInv PROVE PaidWithinCap
  OBVIOUS
<1>1. budget.inFlight \in Nat /\ budget.spend \in Int /\ SpendCap \in Nat
  BY CallingFinite, FS_CardinalityType, CapsAssumption DEF LedgerInv, NoSlotLeaks, Calling, BudgetCounts
<1>2. budget.spend <= SpendCap
  BY <1>1 DEF LedgerInv, CapsHold
<1>3. crashes * AtRisk = crashes * Cardinality(Workers) * OneTurn
  <2>1. ASSUME NEW a \in Nat, NEW b \in Nat, NEW c \in Nat PROVE a * (b * c) = a * b * c
    OBVIOUS
  <2>2. crashes \in Nat /\ Cardinality(Workers) \in Nat /\ OneTurn \in Nat
    BY WorkersAssumption, FS_CardinalityType, RiskIsNat DEF MoneyInv
  <2> QED BY <2>1, <2>2 DEF AtRisk
<1>4. crashes * AtRisk \in Nat /\ paid \in Int /\ paid <= budget.spend + crashes * AtRisk
  BY RiskIsNat DEF MoneyInv
<1>5. paid <= SpendCap + crashes * AtRisk
  BY <1>1, <1>2, <1>4
<1> QED BY <1>3, <1>5 DEF PaidWithinCap, OneTurn

-----------------------------------------------------------------------------
(* The sessions.  The threads are at different sessions, none of which any    *)
(* attempt has completed, and a thread's rows of its attempt are those of the *)
(* turns before the one it is at: so its next row has a name of its own, and  *)
(* completes no session but its own.                                          *)

Of(rs, k) == {i \in DOMAIN rs : rs[i].arm = k[1] /\ rs[i].sid = k[2]}
KeyOf(r) == <<r.arm, r.sid>>

AtWork(w) ==
  /\ run[w].key \in Arms \X Sessions /\ run[w].att \in Nat /\ run[w].pos \in 1..Length
  /\ run[w].key \notin CompleteSessionKeys(rows)
  /\ \A i \in Of(rows, run[w].key) :
        /\ rows[i].att <= run[w].att
        /\ rows[i].att = run[w].att => rows[i].pos \in Int /\ rows[i].pos < run[w].pos
  /\ \A v \in Busy : v # w => run[v].key # run[w].key

SessionsInv == /\ \A i \in DOMAIN rows : rows[i].att \in Nat
               /\ Named(rows)
               /\ \A w \in Busy : AtWork(w)

LEMMA HasMin ==
  ASSUME NEW S \in SUBSET Nat, S # {}
  PROVE  Min(S) \in S
BY Least DEF Min

LEMMA HasMax ==
  ASSUME NEW S \in SUBSET Nat, S # {}, NEW n \in Nat, \A x \in S : x <= n
  PROVE  Max(S) \in S /\ \A x \in S : x <= Max(S)
<1> DEFINE Bounds == {b \in Nat : \A x \in S : x <= b}
<1>1. PICK b \in Bounds : \A c \in Bounds : b <= c
  <2>1. Bounds \in SUBSET Nat /\ Bounds # {}
    OBVIOUS
  <2> HIDE DEF Bounds
  <2> QED BY <2>1, Least
<1>2. b \in S
  <2> SUFFICES ASSUME b \notin S PROVE FALSE
    OBVIOUS
  <2>1. PICK x \in S : TRUE
    OBVIOUS
  <2>2. \A y \in S : y \in Nat /\ y <= b /\ y # b
    OBVIOUS
  <2>3. b - 1 \in Nat /\ \A y \in S : y <= b - 1
    BY <2>1, <2>2
  <2>4. b - 1 \in Bounds
    BY <2>3
  <2> QED BY <1>1, <2>4
<1>3. \E x \in S : \A y \in S : x >= y
  BY <1>2
<1> QED BY <1>3 DEF Max

(* The attempts at a session have a largest one: a file is finite. *)
LEMMA FileIsBounded ==
  ASSUME NEW rs, IsFile(rs), \A i \in DOMAIN rs : rs[i].att \in Nat
  PROVE  \E n \in Nat : \A i \in DOMAIN rs : rs[i].att <= n
<1> DEFINE Reached(m) == \E n \in Nat : \A i \in DOMAIN rs : i <= m => rs[i].att <= n
           Bad == {m \in Nat : ~Reached(m)}
<1>1. DOMAIN rs = 1..Len(rs) /\ Len(rs) \in Nat
  BY DEF IsFile
<1>2. Bad = {}
  <2> SUFFICES ASSUME Bad # {} PROVE FALSE
    OBVIOUS
  <2>1. PICK m \in Bad : \A c \in Bad : m <= c
    <3>1. Bad \in SUBSET Nat
      OBVIOUS
    <3> HIDE DEF Bad
    <3> QED BY <3>1, Least
  <2>2. m # 0
    <3>1. \A i \in DOMAIN rs : i <= 0 => rs[i].att <= 0
      BY <1>1
    <3>2. Reached(0)
      BY <3>1
    <3> QED BY <3>2
  <2>3. m - 1 \in Nat /\ m - 1 \notin Bad
    <3>1. m \in Nat /\ m - 1 \in Nat
      BY <2>2
    <3> HIDE DEF Bad
    <3> QED BY <2>1, <3>1
  <2>4. PICK n \in Nat : \A i \in DOMAIN rs : i <= m - 1 => rs[i].att <= n
    BY <2>3
  <2>5. PICK top \in Nat : n <= top /\ (m \in DOMAIN rs => rs[m].att <= top)
    <3> DEFINE large(top) == n <= top /\ (m \in DOMAIN rs => rs[m].att <= top)
    <3>1. CASE m \in DOMAIN rs /\ rs[m].att > n
      <4>1. rs[m].att \in Nat
        BY <3>1
      <4>2. large(rs[m].att)
        BY <3>1, <4>1
      <4> QED BY <4>1, <4>2
    <3>2. CASE ~(m \in DOMAIN rs /\ rs[m].att > n)
      <4>1. n <= n /\ (m \in DOMAIN rs => rs[m].att \in Nat)
        OBVIOUS
      <4>2. large(n)
        BY <3>2, <4>1
      <4> QED BY <4>2
    <3> QED BY <3>1, <3>2
  <2>6. ASSUME NEW i \in DOMAIN rs, i <= m PROVE rs[i].att <= top
    <3>1. CASE i = m
      BY <2>5, <3>1
    <3>2. CASE i # m
      <4>1. i <= m - 1
        BY <1>1, <2>6, <3>2
      <4>2. rs[i].att <= n /\ rs[i].att \in Nat
        BY <2>4, <4>1
      <4> QED BY <2>5, <4>2
    <3> QED BY <3>1, <3>2
  <2>7. Reached(m)
    BY <2>5, <2>6
  <2> QED BY <2>7
<1>3. Reached(Len(rs))
  BY <1>1, <1>2
<1>4. PICK n \in Nat : \A i \in DOMAIN rs : i <= Len(rs) => rs[i].att <= n
  BY <1>3
<1> QED BY <1>1, <1>4

(* The next attempt at a session is after all that were made. *)
LEMMA NextIsLater ==
  ASSUME NEW rs, IsFile(rs), \A i \in DOMAIN rs : rs[i].att \in Nat, NEW a, NEW s
  PROVE  /\ NextSessionAttempt(rs, a, s) \in Nat
         /\ \A i \in DOMAIN rs : rs[i].arm = a /\ rs[i].sid = s => rs[i].att < NextSessionAttempt(rs, a, s)
<1> DEFINE made == AttemptsAt(rs, a, s)
<1>1. made \in SUBSET Nat /\ \A i \in DOMAIN rs : rs[i].arm = a /\ rs[i].sid = s => rs[i].att \in made
  BY DEF AttemptsAt
<1>2. CASE made = {}
  <2>1. NextSessionAttempt(rs, a, s) = 0
    BY <1>2 DEF NextSessionAttempt
  <2> QED BY <1>1, <1>2, <2>1
<1>3. CASE made # {}
  <2>1. PICK n \in Nat : \A i \in DOMAIN rs : rs[i].att <= n
    BY FileIsBounded
  <2>2. \A x \in made : x <= n
    BY <2>1 DEF AttemptsAt
  <2>3. NextSessionAttempt(rs, a, s) = Max(made) + 1
    BY <1>3 DEF NextSessionAttempt
  <2> HIDE DEF made
  <2>4. Max(made) \in made /\ \A x \in made : x <= Max(made)
    BY <1>1, <1>3, <2>2, HasMax
  <2>5. Max(made) \in Nat /\ \A x \in made : x \in Nat
    BY <1>1, <2>4
  <2>6. \A x \in made : x < Max(made) + 1
    BY <2>4, <2>5
  <2>7. \A i \in DOMAIN rs : rs[i].arm = a /\ rs[i].sid = s => rs[i].att < Max(made) + 1
    BY <1>1, <2>6
  <2> QED BY <2>3, <2>5, <2>7
<1> QED BY <1>2, <1>3

LEMMA OneMoreRow ==
  ASSUME NEW rs, IsFile(rs), NEW e
  PROVE  LET T == Append(rs, e)
             x == Len(rs) + 1
         IN  /\ DOMAIN T = DOMAIN rs \cup {x} /\ x \notin DOMAIN rs
             /\ T[x] = e /\ \A i \in DOMAIN rs : T[i] = rs[i]
<1> DEFINE S == {rs[i] : i \in DOMAIN rs} \cup {e}
<1>1. rs \in Seq(S) /\ e \in S
  BY DEF IsFile
<1> HIDE DEF S
<1> QED BY <1>1

(* Of an attempt that is whole some row counts, and so the analyses read some *)
(* row of a session exactly if an attempt at it is whole.                     *)
LEMMA WholeHasRow ==
  ASSUME NEW rs, NEW unit, Whole(rs, unit)
  PROVE  \A p \in 1..Length : \E i \in Valid(rs, unit) : rs[i].pos = p
BY DEF Whole

LEMMA CompleteKeys ==
  ASSUME NEW rs, IsFile(rs), \A i \in DOMAIN rs : rs[i].att \in Nat, NEW a \in Arms, NEW s \in Sessions
  PROVE  <<a, s>> \in CompleteSessionKeys(rs) <=> CompleteAttempts(rs, a, s) # {}
<1> DEFINE done == CompleteAttempts(rs, a, s)
<1>1. <<a, s>> \in CompleteSessionKeys(rs) <=> LatestComplete(rs, a, s) # <<>>
  BY DEF CompleteSessionKeys
<1>2. ASSUME done = {} PROVE LatestComplete(rs, a, s) = <<>>
  BY <1>2 DEF LatestComplete
<1>3. ASSUME done # {} PROVE LatestComplete(rs, a, s) # <<>>
  <2> DEFINE last == Max(done)
             read == Valid(rs, UnitOf(rs, a, s, last))
  <2>1. PICK n \in Nat : \A i \in DOMAIN rs : rs[i].att <= n
    BY FileIsBounded
  <2>2. done \in SUBSET Nat /\ \A x \in done : x <= n
    BY <2>1 DEF CompleteAttempts, AttemptsAt
  <2>3. last \in done
    <3> HIDE DEF done
    <3> QED BY <1>3, <2>2, HasMax
  <2>4. Whole(rs, UnitOf(rs, a, s, last))
    BY <2>3 DEF CompleteAttempts
  <2>5. read # {}
    <3>1. 1 \in 1..Length
      BY LengthAssumption
    <3> QED BY <2>4, <3>1, WholeHasRow
  <2>6. LatestComplete(rs, a, s) = [i \in read |-> rs[i]]
    BY <1>3 DEF LatestComplete
  <2> HIDE DEF read
  <2>7. DOMAIN LatestComplete(rs, a, s) # {}
    BY <2>5, <2>6
  <2> QED BY <2>7
<1> QED BY <1>1, <1>2, <1>3

(* A row of another session changes nothing of what is read of this one. *)
LEMMA ElsewhereSame ==
  ASSUME NEW rs, IsFile(rs), NEW e, NEW a, NEW s, KeyOf(e) # <<a, s>>
  PROVE  LET T == Append(rs, e)
         IN  /\ CompleteAttempts(T, a, s) = CompleteAttempts(rs, a, s)
             /\ LatestComplete(T, a, s) = LatestComplete(rs, a, s)
<1> DEFINE T == Append(rs, e)
           x == Len(rs) + 1
<1>1. /\ DOMAIN T = DOMAIN rs \cup {x} /\ x \notin DOMAIN rs
      /\ T[x] = e /\ \A i \in DOMAIN rs : T[i] = rs[i]
  BY OneMoreRow
<1>2. ~(T[x].arm = a /\ T[x].sid = s)
  BY <1>1 DEF KeyOf
<1> HIDE DEF T, x
<1>3. AttemptsAt(T, a, s) = AttemptsAt(rs, a, s)
  BY <1>1, <1>2 DEF AttemptsAt
<1>4. ASSUME NEW n
      PROVE  /\ UnitOf(T, a, s, n) = UnitOf(rs, a, s, n)
             /\ UnitOf(rs, a, s, n) \subseteq DOMAIN rs
  BY <1>1, <1>2 DEF UnitOf
<1>5. ASSUME NEW unit \in SUBSET DOMAIN rs
      PROVE  /\ Valid(T, unit) = Valid(rs, unit)
             /\ {T[i].pos : i \in Valid(T, unit)} = {rs[i].pos : i \in Valid(rs, unit)}
             /\ Whole(T, unit) <=> Whole(rs, unit)
             /\ [i \in Valid(T, unit) |-> T[i]] = [i \in Valid(rs, unit) |-> rs[i]]
  <2>1. Valid(T, unit) = Valid(rs, unit)
    BY <1>1 DEF Valid
  <2>2. \A i \in Valid(rs, unit) : T[i] = rs[i]
    BY <1>1 DEF Valid
  <2>3. {T[i].pos : i \in Valid(T, unit)} = {rs[i].pos : i \in Valid(rs, unit)}
    BY <2>1, <2>2
  <2>4. Whole(T, unit) <=> Whole(rs, unit)
    BY <2>1, <2>3 DEF Whole
  <2>5. [i \in Valid(T, unit) |-> T[i]] = [i \in Valid(rs, unit) |-> rs[i]]
    BY <2>1, <2>2
  <2> QED BY <2>1, <2>3, <2>4, <2>5
<1>6. CompleteAttempts(T, a, s) = CompleteAttempts(rs, a, s)
  <2>1. \A n : Whole(T, UnitOf(T, a, s, n)) <=> Whole(rs, UnitOf(rs, a, s, n))
    BY <1>4, <1>5
  <2> QED BY <1>3, <2>1 DEF CompleteAttempts
<1>7. LatestComplete(T, a, s) = LatestComplete(rs, a, s)
  <2> DEFINE last == Max(CompleteAttempts(rs, a, s))
  <2>1. [i \in Valid(T, UnitOf(T, a, s, last)) |-> T[i]] = [i \in Valid(rs, UnitOf(rs, a, s, last)) |-> rs[i]]
    <3> HIDE DEF last
    <3> QED BY <1>4, <1>5
  <2> QED BY <1>6, <2>1 DEF LatestComplete
<1> QED BY <1>6, <1>7 DEF T

(* A row of a session that no attempt has completed completes none, unless it *)
(* is the row of the last turn.                                               *)
LEMMA NotYetComplete ==
  ASSUME NEW rs, IsFile(rs), NEW a, NEW s, CompleteAttempts(rs, a, s) = {},
         NEW e, KeyOf(e) = <<a, s>>, e.pos \in Int, e.pos < Length,
         \A i \in DOMAIN rs : KeyOf(rs[i]) = <<a, s>> /\ rs[i].att = e.att => rs[i].pos \in Int /\ rs[i].pos < e.pos
  PROVE  CompleteAttempts(Append(rs, e), a, s) = {}
<1> DEFINE T == Append(rs, e)
           x == Len(rs) + 1
<1>1. /\ DOMAIN T = DOMAIN rs \cup {x} /\ x \notin DOMAIN rs
      /\ T[x] = e /\ \A i \in DOMAIN rs : T[i] = rs[i]
  BY OneMoreRow
<1>2. e.arm = a /\ e.sid = s
  BY DEF KeyOf
<1> HIDE DEF T, x
<1> SUFFICES ASSUME NEW n \in AttemptsAt(T, a, s), Whole(T, UnitOf(T, a, s, n)) PROVE FALSE
  BY DEF CompleteAttempts, T
<1>3. CASE n = e.att
  <2>1. Length \in 1..Length
    BY LengthAssumption
  <2>2. PICK i \in Valid(T, UnitOf(T, a, s, n)) : T[i].pos = Length
    BY <2>1, WholeHasRow
  <2>3. i \in DOMAIN T /\ T[i].arm = a /\ T[i].sid = s /\ T[i].att = n
    BY DEF Valid, UnitOf
  <2>4. CASE i = x
    BY <1>1, <2>2, <2>4, LengthAssumption
  <2>5. CASE i \in DOMAIN rs
    <3>1. rs[i].pos \in Int /\ rs[i].pos < e.pos
      BY <1>1, <1>3, <2>3, <2>5 DEF KeyOf
    <3>2. rs[i].pos = Length
      BY <1>1, <2>2, <2>5
    <3> QED BY <3>1, <3>2, LengthAssumption
  <2> QED BY <1>1, <2>3, <2>4, <2>5
<1>4. CASE n # e.att
  <2>1. UnitOf(T, a, s, n) = UnitOf(rs, a, s, n) /\ UnitOf(rs, a, s, n) \subseteq DOMAIN rs
    BY <1>1, <1>4 DEF UnitOf
  <2>2. n \in AttemptsAt(rs, a, s)
    BY <1>1, <1>4 DEF AttemptsAt
  <2> DEFINE unit == UnitOf(rs, a, s, n)
  <2>3. Valid(T, unit) = Valid(rs, unit) /\ \A i \in Valid(rs, unit) : T[i] = rs[i]
    BY <1>1, <2>1 DEF Valid
  <2>4. {T[i].pos : i \in Valid(T, unit)} = {rs[i].pos : i \in Valid(rs, unit)}
    BY <2>3
  <2>5. Whole(rs, unit)
    BY <2>1, <2>3, <2>4 DEF Whole
  <2> QED BY <2>2, <2>5 DEF CompleteAttempts
<1> QED BY <1>3, <1>4

LEMMA SessionsInit == Init => SessionsInv
<1> SUFFICES ASSUME Init PROVE SessionsInv
  OBVIOUS
<1>1. Named(rows) /\ \A i \in DOMAIN rows : rows[i].att \in Nat
  BY HistoriesAssumption DEF Init
<1>2. Busy = {}
  BY DEF Init, Busy, Idle
<1> QED BY <1>1, <1>2 DEF SessionsInv

(* What a thread is at does not change while it calls, waits or stops.        *)
LEMMA SessionsFrame ==
  ASSUME SessionsInv, rows' = rows, Busy' \subseteq Busy,
         \A w \in Busy' : /\ run'[w].key = run[w].key /\ run'[w].att = run[w].att
                          /\ run'[w].pos = run[w].pos
  PROVE  SessionsInv'
<1>1. Named(rows)' /\ \A i \in DOMAIN rows' : rows'[i].att \in Nat
  BY DEF SessionsInv, Named
<1>2. ASSUME NEW w \in Busy' PROVE AtWork(w)'
  <2>1. AtWork(w)
    BY DEF SessionsInv
  <2>2. CompleteSessionKeys(rows') = CompleteSessionKeys(rows) /\ Of(rows', run'[w].key) = Of(rows, run[w].key)
    OBVIOUS
  <2> QED BY <2>1, <2>2 DEF AtWork
<1> QED BY <1>1, <1>2 DEF SessionsInv

LEMMA TakeSessions ==
  ASSUME LedgerInv, SessionsInv, NEW w \in Workers, Take(w)
  PROVE  SessionsInv'
<1> DEFINE i == Min(Takeable)
           k == Schedule[i]
           n == NextSessionAttempt(rows, k[1], k[2])
<1>1. /\ Takeable # {} /\ run[w].pc = "idle" /\ rows' = rows
      /\ run' = [run EXCEPT ![w] = Begun(k, n, 1)]
  BY DEF Take
<1>2. i \in Takeable
  <2>1. Takeable \in SUBSET Nat
    BY SessionsAssumption DEF Takeable
  <2> QED BY <1>1, <2>1, HasMin
<1>3. /\ k \in Arms \X Sessions /\ k \notin CompleteSessionKeys(rows)
      /\ \A v \in Busy : run[v].key # k
  BY <1>2, SessionsAssumption DEF Takeable
<1>4. /\ n \in Nat
      /\ \A j \in DOMAIN rows : rows[j].arm = k[1] /\ rows[j].sid = k[2] => rows[j].att < n
  BY NextIsLater DEF LedgerInv, SessionsInv
<1> HIDE DEF i, k, n
<1>5. /\ run'[w].pc = "reserve" /\ run'[w].key = k /\ run'[w].att = n /\ run'[w].pos = 1
      /\ \A v \in Workers : v # w => run'[v] = run[v]
  BY <1>1 DEF Begun, LedgerInv, RunType
<1>6. Busy' = Busy \cup {w} /\ w \notin Busy
  BY <1>1, <1>5 DEF Busy
<1>7. \A j \in DOMAIN rows : rows[j].att \in Nat
  BY DEF SessionsInv
<1>8. AtWork(w)'
  <2>1. 1 \in 1..Length
    BY LengthAssumption
  <2>2. \A j \in Of(rows', k) : rows'[j].att < n /\ rows'[j].att \in Nat
    BY <1>1, <1>4, <1>7 DEF Of
  <2>3. \A j \in Of(rows', k) : rows'[j].att <= n /\ rows'[j].att # n
    BY <1>4, <2>2
  <2>4. \A v \in Busy' : v # w => run'[v].key # run'[w].key
    BY <1>3, <1>5, <1>6 DEF Busy
  <2>5. k \notin CompleteSessionKeys(rows')
    BY <1>1, <1>3
  <2> QED BY <1>3, <1>4, <1>5, <2>1, <2>3, <2>4, <2>5 DEF AtWork
<1>9. ASSUME NEW v \in Busy PROVE AtWork(v)'
  <2>1. AtWork(v) /\ run'[v] = run[v] /\ v # w
    BY <1>5, <1>6 DEF SessionsInv, Busy
  <2>2. \A u \in Busy' : u # v => run'[u].key # run'[v].key
    <3> SUFFICES ASSUME NEW u \in Busy', u # v PROVE run'[u].key # run'[v].key
      OBVIOUS
    <3>1. CASE u = w
      BY <1>3, <1>5, <2>1, <3>1
    <3>2. CASE u # w
      <4>1. u \in Busy /\ run'[u] = run[u]
        BY <1>5, <1>6, <3>2 DEF Busy
      <4> QED BY <2>1, <4>1 DEF AtWork
    <3> QED BY <3>1, <3>2
  <2>3. CompleteSessionKeys(rows') = CompleteSessionKeys(rows) /\ Of(rows', run'[v].key) = Of(rows, run[v].key)
    BY <1>1, <2>1
  <2> QED BY <1>1, <2>1, <2>2, <2>3 DEF AtWork
<1>10. Named(rows)'
  BY <1>1 DEF SessionsInv, Named
<1> QED BY <1>1, <1>6, <1>7, <1>8, <1>9, <1>10 DEF SessionsInv

LEMMA ReserveSessions ==
  ASSUME LedgerInv, SessionsInv, NEW w \in Workers, ReserveHard(w) \/ ReserveWhenAvailable(w)
  PROVE  SessionsInv'
<1>0. run[w].pc = "reserve" /\ rows' = rows
  BY DEF ReserveHard, ReserveWhenAvailable
<1>1. CASE run' = [run EXCEPT ![w] = Stopped]
  <2>1. run'[w].pc = "stopped" /\ \A v \in Workers : v # w => run'[v] = run[v]
    BY <1>1 DEF LedgerInv, RunType, Stopped, Idle
  <2>2. Busy' \subseteq Busy /\ \A v \in Busy' : run'[v] = run[v]
    BY <2>1 DEF Busy
  <2> QED BY <1>0, <2>2, SessionsFrame
<1>2. ASSUME NEW to \in {"call", "waiting"}, run' = [run EXCEPT ![w].pc = to]
      PROVE  SessionsInv'
  <2>1. /\ run'[w].key = run[w].key /\ run'[w].att = run[w].att /\ run'[w].pos = run[w].pos
        /\ \A v \in Workers : v # w => run'[v] = run[v]
    BY <1>2 DEF LedgerInv, RunType
  <2>2. Busy' \subseteq Busy
    BY <1>0, <2>1 DEF Busy
  <2>3. \A v \in Busy' : run'[v].key = run[v].key /\ run'[v].att = run[v].att /\ run'[v].pos = run[v].pos
    BY <2>1 DEF Busy
  <2> QED BY <1>0, <2>2, <2>3, SessionsFrame
<1>3. \/ run' = [run EXCEPT ![w] = Stopped]
      \/ \E to \in {"call", "waiting"} : run' = [run EXCEPT ![w].pc = to]
  BY DEF ReserveHard, ReserveWhenAvailable, Goto
<1> QED BY <1>1, <1>2, <1>3

LEMMA SettleSessions ==
  ASSUME LedgerInv, SessionsInv, NEW w \in Workers, Settle(w)
  PROVE  SessionsInv'
<1>1. PICK s, to :
        run' = [v \in Workers |->
                  IF v = w THEN Tried(run[w], s, to)
                  ELSE IF v \in Woken THEN [run[v] EXCEPT !.pc = "reserve"] ELSE run[v]]
  BY DEF Settle
<1>2. run[w].pc = "call" /\ rows' = rows
  BY DEF Settle
<1>3. ASSUME NEW v \in Workers
      PROVE  /\ run'[v].key = run[v].key /\ run'[v].att = run[v].att /\ run'[v].pos = run[v].pos
             /\ v \in Busy \/ run'[v].pc = run[v].pc
  <2>1. CASE v = w
    BY <1>1, <1>2, <2>1 DEF Tried, Busy
  <2>2. CASE v # w /\ v \in Woken
    <3>1. run'[v] = [run[v] EXCEPT !.pc = "reserve"] /\ run[v].pc = "waiting"
      BY <1>1, <2>2 DEF Woken
    <3> QED BY <3>1 DEF LedgerInv, RunType, Busy
  <2>3. CASE v # w /\ v \notin Woken
    BY <1>1, <2>3
  <2> QED BY <2>1, <2>2, <2>3
<1>4. Busy' \subseteq Busy /\ Busy' \subseteq Workers
  BY <1>3 DEF Busy
<1> QED BY <1>2, <1>3, <1>4, SessionsFrame

(* What Record appends, and what the thread does next. *)
LEMMA RecordedRow ==
  ASSUME LedgerInv, NEW w \in Workers, Record(w)
  PROVE  /\ \E e : /\ rows' = Append(rows, e)
                   /\ e.arm = run[w].key[1] /\ e.sid = run[w].key[2]
                   /\ e.att = run[w].att /\ e.pos = run[w].pos
         /\ w \in Busy /\ \A v \in Workers : v # w => run'[v] = run[v]
         /\ \/ run'[w].pc = "idle"
            \/ /\ run'[w].pc = "reserve" /\ run[w].pos < Length
               /\ run'[w].key = run[w].key /\ run'[w].att = run[w].att /\ run'[w].pos = run[w].pos + 1
<1>1. \E e : /\ rows' = Append(rows, e)
             /\ e.arm = run[w].key[1] /\ e.sid = run[w].key[2]
             /\ e.att = run[w].att /\ e.pos = run[w].pos
  BY DEF Record
<1>2. w \in Busy
  BY DEF Record, Busy
<1>3. CASE run[w].pc = "record_ok" /\ run[w].pos < Length
  <2>1. run' = [run EXCEPT ![w] = Begun(run[w].key, run[w].att, run[w].pos + 1)]
    BY <1>3 DEF Record
  <2>2. /\ run'[w] = Begun(run[w].key, run[w].att, run[w].pos + 1)
        /\ \A v \in Workers : v # w => run'[v] = run[v]
    BY <2>1 DEF LedgerInv, RunType
  <2> QED BY <1>1, <1>2, <1>3, <2>2 DEF Begun
<1>4. CASE ~(run[w].pc = "record_ok" /\ run[w].pos < Length)
  <2>1. run' = [run EXCEPT ![w] = Idle]
    BY <1>4 DEF Record
  <2> QED BY <1>1, <1>2, <2>1 DEF Idle, LedgerInv, RunType
<1> QED BY <1>3, <1>4

LEMMA RecordSessions ==
  ASSUME LedgerInv, SessionsInv, NEW w \in Workers, Record(w)
  PROVE  SessionsInv'
<1> DEFINE k == run[w].key
           n == run[w].att
           p == run[w].pos
           x == Len(rows) + 1
<1>1. PICK e : /\ rows' = Append(rows, e)
               /\ e.arm = k[1] /\ e.sid = k[2] /\ e.att = n /\ e.pos = p
  BY RecordedRow
<1>2. /\ w \in Busy /\ \A v \in Workers : v # w => run'[v] = run[v]
      /\ \/ run'[w].pc = "idle"
         \/ /\ run'[w].pc = "reserve" /\ p < Length
            /\ run'[w].key = k /\ run'[w].att = n /\ run'[w].pos = p + 1
  BY RecordedRow
<1>3. AtWork(w)
  BY <1>2 DEF SessionsInv
<1>4. /\ DOMAIN rows' = DOMAIN rows \cup {x} /\ x \notin DOMAIN rows
      /\ rows'[x] = e /\ \A i \in DOMAIN rows : rows'[i] = rows[i]
  <2>1. IsFile(rows)
    BY DEF LedgerInv
  <2> QED BY <1>1, <2>1, OneMoreRow
<1>5. PICK a \in Arms, s \in Sessions : k = <<a, s>>
  BY <1>3 DEF AtWork
<1>6. n \in Nat /\ p \in 1..Length /\ Length \in Nat /\ k[1] = a /\ k[2] = s
  BY <1>3, <1>5, LengthAssumption DEF AtWork
<1>7. \A i \in DOMAIN rows : KeyOf(rows[i]) = k =>
        /\ rows[i].att <= n
        /\ rows[i].att = n => rows[i].pos \in Int /\ rows[i].pos < p
  BY <1>3, <1>5, <1>6 DEF AtWork, Of, KeyOf
<1>8. KeyOf(e) = k
  BY <1>1, <1>5, <1>6 DEF KeyOf
<1>9. k \notin CompleteSessionKeys(rows)
  BY <1>3 DEF AtWork
<1> HIDE DEF k, n, p, x
<1>10. \A i \in DOMAIN rows' : rows'[i].att \in Nat
  BY <1>1, <1>4, <1>6 DEF SessionsInv
<1>11. Named(rows')
  <2> SUFFICES ASSUME NEW i \in DOMAIN rows', NEW j \in DOMAIN rows',
                      rows'[i].arm = rows'[j].arm, rows'[i].sid = rows'[j].sid,
                      rows'[i].att = rows'[j].att, rows'[i].pos = rows'[j].pos
               PROVE  i = j
    BY DEF Named
  <2>1. ASSUME NEW m \in DOMAIN rows, KeyOf(rows[m]) = k, rows[m].att = n, rows[m].pos = p PROVE FALSE
    <3>1. rows[m].pos < p /\ p \in Int
      BY <1>6, <1>7, <2>1
    <3> QED BY <2>1, <3>1
  <2>2. CASE i \in DOMAIN rows /\ j \in DOMAIN rows
    BY <1>4, <2>2 DEF SessionsInv, Named
  <2>3. CASE i = x /\ j \in DOMAIN rows
    BY <1>1, <1>4, <1>8, <2>1, <2>3 DEF KeyOf
  <2>4. CASE i \in DOMAIN rows /\ j = x
    BY <1>1, <1>4, <1>8, <2>1, <2>4 DEF KeyOf
  <2> QED BY <1>4, <2>2, <2>3, <2>4
<1>12. IsFile(rows') /\ IsFile(rows) /\ \A i \in DOMAIN rows : rows[i].att \in Nat
  <2>1. LedgerInv'
    BY RecordInv
  <2> QED BY <2>1 DEF LedgerInv, SessionsInv, IsFile, Costed, RowAccounting
<1>13. ASSUME NEW v \in Busy', v # w PROVE AtWork(v)'
  <2>1. v \in Busy /\ run'[v] = run[v] /\ AtWork(v) /\ v \in Workers
    BY <1>2, <1>13 DEF Busy, SessionsInv
  <2>2. PICK b \in Arms, t \in Sessions : run[v].key = <<b, t>>
    BY <2>1 DEF AtWork
  <2>3. run[v].key # k
    BY <1>2, <1>13, <2>1 DEF AtWork, k
  <2>4. KeyOf(e) # <<b, t>>
    BY <1>8, <2>2, <2>3
  <2>5. CompleteAttempts(rows', b, t) = CompleteAttempts(rows, b, t)
    BY <1>1, <1>12, <2>4, ElsewhereSame
  <2>6. <<b, t>> \notin CompleteSessionKeys(rows')
    <3>1. <<b, t>> \notin CompleteSessionKeys(rows)
      BY <2>1, <2>2 DEF AtWork
    <3>2. CompleteAttempts(rows, b, t) = {}
      BY <1>12, <3>1, CompleteKeys
    <3> QED BY <1>10, <1>12, <2>5, <3>2, CompleteKeys
  <2>7. Of(rows', run'[v].key) = Of(rows, run[v].key) /\ Of(rows, run[v].key) \subseteq DOMAIN rows
    <3>1. ~(e.arm = b /\ e.sid = t) /\ run[v].key[1] = b /\ run[v].key[2] = t
      BY <2>2, <2>4 DEF KeyOf
    <3> QED BY <1>4, <2>1, <3>1 DEF Of
  <2>8. \A u \in Busy' : u # v => run'[u].key # run'[v].key
    <3> SUFFICES ASSUME NEW u \in Busy', u # v PROVE run'[u].key # run'[v].key
      OBVIOUS
    <3>1. CASE u = w
      BY <1>2, <2>1, <2>3, <3>1 DEF Busy
    <3>2. CASE u # w
      <4>1. u \in Busy /\ run'[u] = run[u]
        BY <1>2, <3>2 DEF Busy
      <4> QED BY <2>1, <4>1 DEF AtWork
    <3> QED BY <3>1, <3>2
  <2>9. \A i \in Of(rows, run[v].key) : rows'[i] = rows[i]
    BY <1>4, <2>7
  <2>10. run'[v].key \notin CompleteSessionKeys(rows')
    BY <2>1, <2>2, <2>6
  <2> QED BY <2>1, <2>7, <2>8, <2>9, <2>10 DEF AtWork
<1>14. ASSUME w \in Busy' PROVE AtWork(w)'
  <2>1. /\ p < Length /\ run'[w].key = k /\ run'[w].att = n /\ run'[w].pos = p + 1
    BY <1>2, <1>14 DEF Busy
  <2>2. p + 1 \in 1..Length
    BY <1>6, <2>1
  <2>3. k \notin CompleteSessionKeys(rows')
    <3>1. CompleteAttempts(rows, a, s) = {}
      BY <1>5, <1>9, <1>12, CompleteKeys
    <3>2. /\ KeyOf(e) = <<a, s>> /\ e.pos \in Int /\ e.pos < Length
          /\ \A i \in DOMAIN rows : KeyOf(rows[i]) = <<a, s>> /\ rows[i].att = e.att
                                      => rows[i].pos \in Int /\ rows[i].pos < e.pos
      BY <1>1, <1>5, <1>6, <1>7, <1>8, <2>1
    <3>3. CompleteAttempts(rows', a, s) = {}
      BY <1>1, <1>12, <3>1, <3>2, NotYetComplete
    <3> QED BY <1>5, <1>10, <1>12, <3>3, CompleteKeys
  <2>4. ASSUME NEW i \in Of(rows', k)
        PROVE  /\ rows'[i].att <= n
               /\ rows'[i].att = n => rows'[i].pos \in Int /\ rows'[i].pos < p + 1
    <3>1. CASE i = x
      BY <1>1, <1>4, <1>6, <3>1
    <3>2. CASE i \in DOMAIN rows
      <4>1. KeyOf(rows[i]) = k /\ rows'[i] = rows[i]
        BY <1>4, <1>5, <1>6, <3>2 DEF Of, KeyOf
      <4> QED BY <1>6, <1>7, <3>2, <4>1
    <3> QED BY <1>4, <3>1, <3>2 DEF Of
  <2>5. \A v \in Busy' : v # w => run'[v].key # run'[w].key
    <3> SUFFICES ASSUME NEW v \in Busy', v # w PROVE run'[v].key # run'[w].key
      OBVIOUS
    <3>1. v \in Busy /\ run'[v] = run[v]
      BY <1>2 DEF Busy
    <3> QED BY <1>3, <2>1, <3>1 DEF AtWork, k
  <2>6. k \in Arms \X Sessions
    BY <1>5
  <2> QED BY <1>6, <2>1, <2>2, <2>3, <2>4, <2>5, <2>6 DEF AtWork
<1>15. \A v \in Busy' : AtWork(v)'
  BY <1>13, <1>14
<1> QED BY <1>10, <1>11, <1>15 DEF SessionsInv

LEMMA SessionsStep == LedgerInv /\ SessionsInv /\ [Next]_vars => SessionsInv'
<1> SUFFICES ASSUME LedgerInv, SessionsInv, [Next]_vars PROVE SessionsInv'
  OBVIOUS
<1>1. ASSUME NEW w \in Workers, Thread(w) PROVE SessionsInv'
  BY <1>1, TakeSessions, ReserveSessions, SettleSessions, RecordSessions DEF Thread
<1>2. CASE Crash
  <2>1. Busy' = {} /\ rows' = rows
    BY <1>2 DEF Crash, Busy, Idle
  <2> QED BY <2>1, SessionsFrame
<1>3. CASE UNCHANGED vars
  <2>1. Busy' = Busy /\ rows' = rows /\ run' = run
    BY <1>3 DEF vars, Busy
  <2> QED BY <2>1, SessionsFrame
<1> QED BY <1>1, <1>2, <1>3 DEF Next

(* A row is appended at a session that is not paired. *)
LEMMA FinalStep ==
  ASSUME LedgerInv, SessionsInv, [Next]_vars, NEW s \in PairedSessions(rows), NEW a \in Arms
  PROVE  LatestComplete(rows', a, s) = LatestComplete(rows, a, s)
<1>1. CASE rows' = rows
  BY <1>1
<1>2. ASSUME NEW w \in Workers, Record(w) PROVE LatestComplete(rows', a, s) = LatestComplete(rows, a, s)
  <2>1. PICK e : /\ rows' = Append(rows, e)
                 /\ e.arm = run[w].key[1] /\ e.sid = run[w].key[2]
    BY <1>2, RecordedRow
  <2>2. AtWork(w)
    BY <1>2, RecordedRow DEF SessionsInv
  <2>3. KeyOf(e) = run[w].key /\ run[w].key \notin CompleteSessionKeys(rows)
    BY <2>1, <2>2 DEF AtWork, KeyOf
  <2>4. <<a, s>> \in CompleteSessionKeys(rows)
    BY DEF PairedSessions
  <2>5. KeyOf(e) # <<a, s>> /\ IsFile(rows)
    BY <2>3, <2>4 DEF LedgerInv
  <2> QED BY <2>1, <2>5, ElsewhereSame
<1>3. ASSUME NEW w \in Workers, Thread(w) PROVE rows' = rows \/ Record(w)
  BY <1>3 DEF Thread, Take, ReserveHard, ReserveWhenAvailable, Settle
<1>4. (\E w \in Workers : Record(w)) \/ rows' = rows
  BY <1>3 DEF Next, vars, Crash
<1> QED BY <1>1, <1>2, <1>4

(* However the attempts of any number of threads interleave and whenever the  *)
(* process is killed, what is spent plus what is in flight stays within every *)
(* cap the budget guards (HardAttemptBudget, ModelSpendBudget).               *)
THEOREM CapsAlwaysHold == Spec => []CapsHold
<1>1. LedgerInv => CapsHold
  BY DEF LedgerInv
<1> QED
  BY InitInv, StepInv, <1>1, PTL DEF Spec

(* A reservation is held by exactly the calls in flight.                      *)
THEOREM SlotsNeverLeak == Spec => []NoSlotLeaks
<1>1. LedgerInv => NoSlotLeaks
  BY DEF LedgerInv
<1> QED
  BY InitInv, StepInv, <1>1, PTL DEF Spec

(* What was paid for exceeds the cap by what the kills forgot and no more; an *)
(* attempt and a position name a row for ever; and a session once paired is   *)
(* read from the same rows from then on (HardAttemptBudget, ModelSpendBudget, *)
(* latest_complete, next_session_attempt).                                    *)
THEOREM LedgerIsAlwaysTrue == Spec => LedgerIsTrue
<1>1. LedgerInv /\ MoneyInv /\ SessionsInv => PaidWithinCap /\ RowsAreNamed
  BY MoneySafe DEF SessionsInv, RowsAreNamed
<1>2. LedgerInv /\ SessionsInv /\ [Next]_vars =>
        [\A s \in PairedSessions(rows) : \A a \in Arms :
            LatestComplete(rows', a, s) = LatestComplete(rows, a, s)]_vars
  BY FinalStep
<1> QED
  BY InitInv, StepInv, MoneyInit, MoneyStep, SessionsInit, SessionsStep, <1>1, <1>2, PTL
     DEF Spec, LedgerIsTrue, ReportedIsFinal

-----------------------------------------------------------------------------
(***************************************************************************)
(* That sessions are consistent (src/karc/bench/e5_killgate.py and         *)
(* e5_chunk_canary.py), for every corpus, number and length of sessions,   *)
(* number of repeats and order of turns, retries and sessions started over.*)
(*                                                                         *)
(* The invariant of the schedule follows the session that is open: its     *)
(* tasks are the last ones, what it remembers of a document is the version *)
(* that is valid now, every replacement is an event of the task it happens *)
(* at, and the repeats made are those the allocation gave to the sessions  *)
(* so far.  That of the index says of which task the versions are valid    *)
(* that it serves: the one being run, or, before its updates, the one      *)
(* before.  Updates applied again by a retry then change nothing, and a    *)
(* session started over finds the versions of its first task.              *)
(***************************************************************************)
(***************************************************************************)
(* How many repeats the first sessions take together.                      *)
(***************************************************************************)
Share == Repeats \div SessionCount
Rest == Repeats % SessionCount
Allotted(n) == n * Share + (IF n <= Rest THEN n ELSE Rest)

LEMMA Shares ==
  /\ SessionCount \in Nat \ {0} /\ SessionLength \in Nat \ {0} /\ Repeats \in Nat
  /\ Share \in Nat /\ Rest \in 0 .. SessionCount - 1
  /\ SessionCount * Share + Rest = Repeats
  /\ Repeats <= SessionCount * (SessionLength - 1)
<1>1. SessionCount \in Nat \ {0} /\ SessionLength \in Nat \ {0} /\ Repeats \in 0 .. Opportunities
  BY ScheduleAssumption
<1>2. Opportunities \in Int /\ Opportunities = SessionCount * (SessionLength - 1)
  BY <1>1 DEF Opportunities
<1>3. Repeats \in Nat /\ Repeats <= SessionCount * (SessionLength - 1)
  BY <1>1, <1>2
<1>4. Repeats \div SessionCount \in Int /\ Repeats % SessionCount \in 0 .. SessionCount - 1
      /\ Repeats = SessionCount * (Repeats \div SessionCount) + (Repeats % SessionCount)
  BY <1>1, <1>3
<1>5. Repeats \div SessionCount >= 0
  <2> DEFINE q == Repeats \div SessionCount
             r == Repeats % SessionCount
  <2>1. q \in Int /\ r \in 0 .. SessionCount - 1 /\ Repeats = SessionCount * q + r
    BY <1>4
  <2> HIDE DEF q, r
  <2>2. ASSUME q <= -1 PROVE FALSE
    <3>1. SessionCount * q <= -SessionCount
      BY <1>1, <2>1, <2>2
    <3>2. QED
      BY <1>1, <1>3, <2>1, <3>1
  <2>3. q >= 0
    BY <2>1, <2>2
  <2>4. QED
    BY <2>3 DEF q
<1>6. QED
  BY <1>1, <1>3, <1>4, <1>5 DEF Share, Rest

LEMMA Allotments ==
  /\ Allotted(0) = 0 /\ Allotted(SessionCount) = Repeats
  /\ \A n \in Nat : /\ Allotted(n) \in Nat
                    /\ Allotted(n + 1) = Allotted(n) + RepeatAllocation(n + 1)
                    /\ RepeatAllocation(n + 1) \in Nat
<1> DEFINE S == SessionCount
           q == Share
           r == Rest
<1>1. S \in Nat \ {0} /\ q \in Nat /\ r \in 0 .. S - 1 /\ S * q + r = Repeats
  BY Shares
<1>2. \A n \in Nat : Allotted(n) = n * q + (IF n <= r THEN n ELSE r)
                     /\ RepeatAllocation(n) = q + (IF n <= r THEN 1 ELSE 0)
  BY DEF Allotted, RepeatAllocation, Share, Rest
<1> HIDE DEF S, q, r
<1>3. Allotted(0) = 0 /\ Allotted(S) = Repeats
  BY <1>1, <1>2
<1>4. ASSUME NEW n \in Nat PROVE Allotted(n) \in Nat /\ Allotted(n + 1) = Allotted(n) + RepeatAllocation(n + 1)
                                 /\ RepeatAllocation(n + 1) \in Nat
  <2>1. n * q \in Nat /\ (n + 1) * q = n * q + q
    BY <1>1
  <2>2. n + 1 \in Nat /\ n * q \in Nat /\ (n + 1) * q \in Nat
    BY <1>1
  <2>3. Allotted(n) = n * q + (IF n <= r THEN n ELSE r)
        /\ Allotted(n + 1) = n * q + q + (IF n + 1 <= r THEN n + 1 ELSE r)
        /\ RepeatAllocation(n + 1) = q + (IF n + 1 <= r THEN 1 ELSE 0)
    BY <1>2, <2>1, <2>2
  <2>4. QED
    BY <1>1, <2>1, <2>2, <2>3
<1>5. QED
  BY <1>3, <1>4 DEF S

\* No session has to repeat more than it has questions, so the new questions
\* of the first sessions are among those of them all.
LEMMA NewQuestions ==
  \A n \in 1 .. SessionCount :
    n * (SessionLength - 1) - Allotted(n) <= SessionCount * (SessionLength - 1) - Repeats
<1> DEFINE S == SessionCount
           q == Share
           r == Rest
           t == SessionLength - 1
<1>1. S \in Nat \ {0} /\ q \in Nat /\ r \in 0 .. S - 1 /\ S * q + r = Repeats /\ t \in Nat /\ Repeats <= S * t
  BY Shares
<1>2. \A n \in Nat : Allotted(n) = n * q + (IF n <= r THEN n ELSE r)
  BY DEF Allotted
<1> HIDE DEF S, q, r, t
<1>3. q <= t /\ (r > 0 => q < t)
  <2>1. S * t - S * q = S * (t - q) /\ S * (t - q) >= r
    BY <1>1
  <2>2. ASSUME t - q <= -1 PROVE FALSE
    <3>1. S * (t - q) <= -S
      BY <1>1, <2>2
    <3>2. QED
      BY <1>1, <2>1, <3>1
  <2>3. t - q = 0 => S * (t - q) = 0
    BY <1>1
  <2>4. QED
    BY <1>1, <2>1, <2>2, <2>3
<1>4. ASSUME NEW n \in 1 .. S PROVE n * t - Allotted(n) <= S * t - Repeats
  <2> DEFINE d == t - q
             m == S - n
  <2>1. d \in Nat /\ m \in Nat /\ (r > 0 => d >= 1)
    BY <1>1, <1>3
  <2>2. n * t - n * q = n * d /\ S * t - S * q = S * d /\ S * d = n * d + m * d
    BY <1>1
  <2>3. m * d >= 0 /\ (d >= 1 => m * d >= m)
    <3> HIDE DEF d, m
    <3>1. QED
      BY <2>1
  <2>4. n * d \in Int /\ m * d \in Int /\ n * t \in Int /\ n * q \in Int /\ S * t \in Int /\ S * q \in Int
    BY <1>1, <2>1
  <2>5. m * d >= r - (IF n <= r THEN n ELSE r)
    BY <1>1, <2>1, <2>3, <2>4
  <2>6. n * t - Allotted(n) = n * d - (IF n <= r THEN n ELSE r)
    BY <1>1, <1>2, <2>2, <2>4
  <2>7. S * t - Repeats = n * d + m * d - r
    BY <1>1, <2>2, <2>4
  <2>8. QED
    BY <1>1, <2>4, <2>5, <2>6, <2>7
<1>5. QED
  BY <1>4 DEF S, t

(***************************************************************************)
(* The schedule while it is built.                                         *)
(***************************************************************************)
Event == [type : {"corrected", "validity_changed"}, version : Versions]
TaskRow == [seq : Nat, session : Nat, position : Nat, required : Versions,
            forbidden : SUBSET Versions, reuse : BOOLEAN, events : Seq(Event)]

Asked == {history[k][1] : k \in DOMAIN history}
Base == Len(tasks) - Len(history)        \* tasks of the sessions before the open one
Replaced(d) == supersededAt[Version(d, 1)] # Never
Reused == {i \in DOMAIN tasks : tasks[i].reuse}
Started == IF history = <<>> THEN session - 1 ELSE session    \* sessions with a first task

Shape ==
  /\ tasks \in Seq(TaskRow) /\ session \in 0 .. SessionCount /\ flags \in SUBSET (2 .. SessionLength)
  /\ history \in Seq(Versions) /\ Len(history) <= SessionLength /\ Len(history) <= Len(tasks)
  /\ current \in [Asked -> {1, 2}]
  /\ stableCursor \in Nat
  /\ validFrom \in [Versions -> Nat] /\ supersededAt \in [Versions -> Nat]
  /\ session = 0 => tasks = <<>> /\ history = <<>> /\ stableCursor = 0

\* The open session is the end of the tasks; each session starts with its first.
InPlace ==
  /\ \A i \in DOMAIN tasks : tasks[i].seq = i
  /\ \A i \in 1 .. Base : tasks[i].session < session
  /\ \A i \in Base + 1 .. Len(tasks) :
       /\ tasks[i].session = session /\ tasks[i].position = i - Base
       /\ tasks[i].required = history[i - Base]
  /\ \A i \in DOMAIN tasks : \E j \in DOMAIN tasks :
       tasks[j].session = tasks[i].session /\ tasks[j].position = 1

\* Only anchors are replaced, each in its own session, by their second version.
Validity ==
  /\ \A d \in Docs : /\ validFrom[Version(d, 1)] = 1 /\ supersededAt[Version(d, 2)] = Never
                     /\ validFrom[Version(d, 2)] = supersededAt[Version(d, 1)]
                     /\ supersededAt[Version(d, 1)] <= Len(tasks)
  /\ \A j \in DOMAIN Anchors : Replaced(Anchors[j]) => j < session \/ (j = session /\ history # <<>>)
  /\ \A j \in DOMAIN Stable : ~Replaced(Stable[j])

\* The session remembers what it asked, in the version that is valid now.
Remembered ==
  /\ history # <<>> => Anchor \in Asked
  /\ \A d \in Asked : current[d] = IF Replaced(d) THEN 2 ELSE 1
  /\ \A d \in Asked : d = Anchor \/ \E j \in 1 .. stableCursor : j \in DOMAIN Stable /\ d = Stable[j]

\* What a task says of its own moment, whatever is scheduled after it.
Truthful(i) ==
  /\ ActiveAt(tasks[i].required, i)
  /\ \A v \in tasks[i].forbidden : ~ActiveAt(v, i)
  /\ Len(tasks[i].events) <= 2
  /\ \A k \in DOMAIN tasks[i].events :
       LET event == tasks[i].events[k]
       IN /\ event.type = "corrected" => ActiveAt(event.version, i)
          /\ event.type = "validity_changed" =>
               event.version[2] = 1 /\ supersededAt[event.version] = i
  /\ tasks[i].reuse <=> AskedBefore(i)

\* Every replacement is an event of the task it happens at.
Announced ==
  \A d \in Docs : Replaced(d) =>
    \E k \in DOMAIN tasks[supersededAt[Version(d, 1)]].events :
      LET event == tasks[supersededAt[Version(d, 1)]].events[k]
      IN event.type = "validity_changed" /\ event.version = Version(d, 1)

Counted ==
  session > 0 =>
    /\ Len(tasks) = (session - 1) * SessionLength + Len(history)
    /\ Cardinality(flags) = RepeatAllocation(session)
    /\ Cardinality(Reused) = Allotted(session - 1) + Cardinality(flags \cap (1 .. Len(history)))
    /\ stableCursor + Cardinality(Reused) + Started = Len(tasks)

ScheduleInv ==
  /\ Shape /\ InPlace /\ Validity /\ Remembered
  /\ \A i \in DOMAIN tasks : Truthful(i)
  /\ Announced /\ Counted

(***************************************************************************)
(* What the invariant says of the schedule.                                *)
(***************************************************************************)
LEMMA Domains ==
  ASSUME Shape
  PROVE  /\ DOMAIN tasks = 1 .. Len(tasks) /\ Len(tasks) \in Nat
         /\ DOMAIN history = 1 .. Len(history) /\ Len(history) \in Nat
         /\ Base \in Nat /\ Reused \in SUBSET (1 .. Len(tasks))
         /\ IsFiniteSet(Reused) /\ Cardinality(Reused) \in Nat
<1>1. DOMAIN tasks = 1 .. Len(tasks) /\ Len(tasks) \in Nat
      /\ DOMAIN history = 1 .. Len(history) /\ Len(history) \in Nat
  BY LenProperties DEF Shape
<1>2. Base \in Nat
  BY <1>1 DEF Shape, Base
<1>3. Reused \in SUBSET (1 .. Len(tasks))
  BY <1>1 DEF Reused
<1>4. IsFiniteSet(1 .. Len(tasks))
  BY <1>1, FS_Interval
<1>5. IsFiniteSet(Reused) /\ Cardinality(Reused) \in Nat
  BY <1>3, <1>4, FS_Subset, FS_CardinalityType
<1>6. QED
  BY <1>1, <1>2, <1>3, <1>5

LEMMA FlagsFinite ==
  ASSUME flags \in SUBSET (2 .. SessionLength), NEW n \in Nat
  PROVE  /\ IsFiniteSet(flags) /\ Cardinality(flags) \in Nat
         /\ IsFiniteSet(flags \cap (1 .. n)) /\ Cardinality(flags \cap (1 .. n)) \in Nat
<1>1. SessionLength \in Int
  BY Shares
<1>2. IsFiniteSet(2 .. SessionLength)
  BY <1>1, FS_Interval
<1>3. IsFiniteSet(flags) /\ IsFiniteSet(flags \cap (1 .. n))
  BY <1>2, FS_Subset
<1>4. QED
  BY <1>3, FS_CardinalityType

LEMMA ScheduleSound ==
  ASSUME ScheduleInv
  PROVE  GoldIsLive /\ CorrectionsAreLive /\ ReuseIsExact
<1>1. DOMAIN tasks = 1 .. Len(tasks) /\ DOMAIN history = 1 .. Len(history)
  BY Domains DEF ScheduleInv
<1>2. ASSUME NEW i \in DOMAIN tasks
      PROVE  /\ ActiveAt(tasks[i].required, tasks[i].seq) /\ tasks[i].required \notin tasks[i].forbidden
             /\ tasks[i].reuse <=> AskedBefore(i)
  <2>1. Truthful(i) /\ tasks[i].seq = i
    BY DEF ScheduleInv, InPlace
  <2>2. QED
    BY <2>1 DEF Truthful
<1>3. ASSUME NEW i \in DOMAIN tasks, NEW k \in DOMAIN tasks[i].events, tasks[i].events[k].type = "corrected"
      PROVE  ActiveAt(tasks[i].events[k].version, tasks[i].seq)
  <2>1. Truthful(i) /\ tasks[i].seq = i
    BY DEF ScheduleInv, InPlace
  <2>2. QED
    BY <1>3, <2>1 DEF Truthful
<1>4. ASSUME ScheduleDone PROVE Cardinality(Reused) = Repeats
  <2>1. session = SessionCount /\ Len(history) = SessionLength /\ SessionCount \in Nat \ {0} /\ SessionLength \in Nat
    BY <1>4, Shares DEF ScheduleDone, SessionFull
  <2>2. flags \cap (1 .. Len(history)) = flags
    <3>1. flags \in SUBSET (2 .. SessionLength)
      BY DEF ScheduleInv, Shape
    <3>2. \A x \in flags : x \in 2 .. SessionLength
      BY <3>1
    <3>3. \A x \in flags : x \in 1 .. Len(history)
      BY <2>1, <3>2
    <3>4. QED
      BY <3>3
  <2>3. Cardinality(Reused) = Allotted(session - 1) + RepeatAllocation(session)
    <3>1. session > 0
      BY <2>1
    <3>2. /\ Cardinality(flags) = RepeatAllocation(session)
          /\ Cardinality(Reused) = Allotted(session - 1) + Cardinality(flags \cap (1 .. Len(history)))
      BY <3>1 DEF ScheduleInv, Counted
    <3>3. Cardinality(flags \cap (1 .. Len(history))) = Cardinality(flags)
      BY <2>2
    <3>4. QED
      BY <3>2, <3>3
  <2>4. SessionCount - 1 \in Nat /\ (SessionCount - 1) + 1 = SessionCount
    BY <2>1
  <2>5. Allotted((SessionCount - 1) + 1) = Allotted(SessionCount - 1) + RepeatAllocation((SessionCount - 1) + 1)
    BY <2>4, Allotments
  <2>6. QED
    BY <2>1, <2>3, <2>4, <2>5, Allotments
<1>5. QED
  BY <1>2, <1>3, <1>4 DEF GoldIsLive, CorrectionsAreLive, ReuseIsExact, Reused

(***************************************************************************)
(* A task is added.                                                        *)
(***************************************************************************)
LEMMA Corrects ==
  ASSUME Shape, NEW known \in [Asked -> {1, 2}]
  PROVE  /\ Correction(known) \in Seq(Event) /\ Len(Correction(known)) <= 1
         /\ \A k \in DOMAIN Correction(known) :
              /\ Correction(known)[k].type = "corrected"
              /\ \E d \in Asked : Correction(known)[k].version = Version(d, known[d])
<1>1. DOMAIN history = 1 .. Len(history) /\ Len(history) \in Nat /\ history \in Seq(Versions)
  BY Domains DEF Shape
<1>2. CASE Position # CorrectionAt \/ history = <<>>
  <2>1. Correction(known) = <<>>
    BY <1>2 DEF Correction
  <2>2. QED
    BY <2>1
<1>3. CASE ~(Position # CorrectionAt \/ history = <<>>)
  <2>1. Len(history) > 0
    BY <1>1, <1>3
  <2> DEFINE n == IF Len(history) > 1 THEN 2 ELSE 1
             d == history[n][1]
             e == [type |-> "corrected", version |-> Version(d, known[d])]
  <2>2. n \in DOMAIN history
    BY <1>1, <2>1
  <2>3. d \in Asked /\ history[n] \in Versions
    BY <1>1, <2>2 DEF Asked
  <2>4. d \in Docs /\ known[d] \in {1, 2}
    BY <2>3 DEF Versions
  <2>5. Version(d, known[d]) \in Versions
    BY <2>4 DEF Version, Versions
  <2>6. e \in Event /\ e.type = "corrected" /\ e.version = Version(d, known[d])
    BY <2>5 DEF Event
  <2>7. Correction(known) = <<e>>
    BY <1>3 DEF Correction
  <2> HIDE DEF e, d
  <2>8. <<e>> \in Seq(Event) /\ Len(<<e>>) = 1 /\ DOMAIN <<e>> = {1} /\ <<e>>[1] = e
    BY <2>6
  <2>9. QED
    BY <2>3, <2>6, <2>7, <2>8
<1>4. QED
  BY <1>2, <1>3

LEMMA Appended ==
  ASSUME NEW S, NEW s \in Seq(S), NEW e \in S
  PROVE  /\ Append(s, e) \in Seq(S) /\ Len(Append(s, e)) = Len(s) + 1
         /\ DOMAIN Append(s, e) = 1 .. Len(s) + 1 /\ DOMAIN s = 1 .. Len(s) /\ Len(s) \in Nat
         /\ \A i \in DOMAIN s : Append(s, e)[i] = s[i]
         /\ Append(s, e)[Len(s) + 1] = e
OBVIOUS

LEMMA Joined ==
  ASSUME NEW S, NEW s \in Seq(S), NEW t \in Seq(S), Len(s) <= 1, Len(t) <= 1
  PROVE  /\ s \o t \in Seq(S) /\ Len(s \o t) <= 2
         /\ \A k \in DOMAIN (s \o t) : (\E i \in DOMAIN s : (s \o t)[k] = s[i])
                                       \/ \E i \in DOMAIN t : (s \o t)[k] = t[i]
         /\ \A i \in DOMAIN s : i \in DOMAIN (s \o t) /\ (s \o t)[i] = s[i]
<1>1. /\ s \o t \in Seq(S) /\ Len(s \o t) = Len(s) + Len(t) /\ Len(s) \in Nat /\ Len(t) \in Nat
      /\ DOMAIN s = 1 .. Len(s) /\ DOMAIN t = 1 .. Len(t) /\ DOMAIN (s \o t) = 1 .. Len(s) + Len(t)
      /\ \A i \in 1 .. Len(s) + Len(t) : (s \o t)[i] = IF i <= Len(s) THEN s[i] ELSE t[i - Len(s)]
  OBVIOUS
<1>2. ASSUME NEW k \in DOMAIN (s \o t)
      PROVE (\E i \in DOMAIN s : (s \o t)[k] = s[i]) \/ \E i \in DOMAIN t : (s \o t)[k] = t[i]
  <2>1. CASE k <= Len(s)
    <3>1. k \in DOMAIN s /\ (s \o t)[k] = s[k]
      BY <1>1, <2>1
    <3>2. QED
      BY <3>1
  <2>2. CASE ~(k <= Len(s))
    <3>1. k - Len(s) \in DOMAIN t /\ (s \o t)[k] = t[k - Len(s)]
      BY <1>1, <2>2
    <3>2. QED
      BY <3>1
  <2>3. QED
    BY <2>1, <2>2
<1>3. \A i \in DOMAIN s : i \in DOMAIN (s \o t) /\ (s \o t)[i] = s[i]
  BY <1>1
<1>4. Len(s \o t) <= 2
  BY <1>1
<1>5. QED
  BY <1>1, <1>2, <1>3, <1>4

\* What adding a task makes of the rows and of what the session remembers.
Row(req, reuse, forb, evs) ==
  [seq |-> Len(tasks) + 1, session |-> session, position |-> Position,
   required |-> req, forbidden |-> forb, reuse |-> reuse, events |-> evs]

Added(req, reuse, forb, events, known) ==
  /\ session' = session /\ flags' = flags
  /\ tasks' \in Seq(TaskRow) /\ Len(tasks') = Len(tasks) + 1
  /\ DOMAIN tasks' = 1 .. Len(tasks) + 1
  /\ \A i \in DOMAIN tasks : tasks'[i] = tasks[i]
  /\ tasks'[Len(tasks) + 1] = Row(req, reuse, forb, events)
  /\ history' \in Seq(Versions) /\ Len(history') = Len(history) + 1
  /\ DOMAIN history' = 1 .. Len(history) + 1
  /\ \A k \in DOMAIN history : history'[k] = history[k]
  /\ history'[Len(history) + 1] = req
  /\ Asked' = Asked \cup {req[1]} /\ Base' = Base
  /\ current' \in [Asked' -> {1, 2}] /\ current'[req[1]] = req[2]
  /\ \A d \in Asked : d # req[1] => current'[d] = known[d]

LEMMA Adding ==
  ASSUME Shape,
         NEW req \in Versions, NEW reuse \in BOOLEAN, NEW forb \in SUBSET Versions,
         NEW evs \in Seq(Event), NEW known \in [Asked -> {1, 2}],
         AddTask(req, reuse, forb, evs, known), Len(evs) <= 1
  PROVE  Added(req, reuse, forb, evs \o Correction(known), known)
<1> DEFINE all == evs \o Correction(known)
           row == Row(req, reuse, forb, all)
<1>0. tasks \in Seq(TaskRow) /\ history \in Seq(Versions) /\ session \in Nat
  BY Shares DEF Shape
<1>1. all \in Seq(Event)
  BY Corrects, Joined
<1>2. Len(tasks) + 1 \in Nat /\ Position \in Nat
  BY Domains DEF Position
<1>3. row \in TaskRow
  BY <1>0, <1>1, <1>2 DEF Row, TaskRow
<1>4. /\ tasks' = Append(tasks, row) /\ history' = Append(history, req)
      /\ current' = Updated(known, [d \in {req[1]} |-> req[2]])
      /\ session' = session /\ flags' = flags
  BY DEF AddTask, Row
<1> HIDE DEF row
<1>5. /\ tasks' \in Seq(TaskRow) /\ Len(tasks') = Len(tasks) + 1
      /\ DOMAIN tasks' = 1 .. Len(tasks) + 1
      /\ \A i \in DOMAIN tasks : tasks'[i] = tasks[i]
      /\ tasks'[Len(tasks) + 1] = row
  BY <1>0, <1>3, <1>4, Appended
<1>6. /\ history' \in Seq(Versions) /\ Len(history') = Len(history) + 1
      /\ DOMAIN history' = 1 .. Len(history) + 1
      /\ \A k \in DOMAIN history : history'[k] = history[k]
      /\ history'[Len(history) + 1] = req
  BY <1>0, <1>4, Appended
<1>7. Asked' = Asked \cup {req[1]}
  <2>1. DOMAIN history = 1 .. Len(history) /\ Len(history) \in Nat
    BY Domains
  <2>2. ASSUME NEW k \in DOMAIN history' PROVE history'[k][1] \in Asked \cup {req[1]}
    <3>1. k \in DOMAIN history \/ k = Len(history) + 1
      BY <1>6, <2>1
    <3>2. QED
      BY <1>6, <3>1 DEF Asked
  <2>3. ASSUME NEW k \in DOMAIN history PROVE k \in DOMAIN history' /\ history[k][1] = history'[k][1]
    BY <1>6, <2>1
  <2>4. Len(history) + 1 \in DOMAIN history'
    BY <1>6, <2>1
  <2>5. Asked' = {history'[k][1] : k \in DOMAIN history'}
    BY DEF Asked
  <2>6. QED
    BY <1>6, <2>2, <2>3, <2>4, <2>5 DEF Asked
<1>8. Base' = Base
  BY <1>5, <1>6, Domains DEF Base
<1>9. /\ current' \in [Asked' -> {1, 2}] /\ current'[req[1]] = req[2]
      /\ \A d \in Asked : d # req[1] => current'[d] = known[d]
  <2>1. req[2] \in {1, 2}
    BY DEF Versions
  <2>2. current' = [d \in {req[1]} \cup Asked |-> IF d = req[1] THEN req[2] ELSE known[d]]
    BY <1>4 DEF Updated
  <2>3. QED
    BY <1>7, <2>1, <2>2
<1>10. QED
  BY <1>4, <1>5, <1>6, <1>7, <1>8, <1>9 DEF row, Added

LEMMA AddedShape ==
  ASSUME Shape, InSession,
         NEW req \in Versions, NEW reuse \in BOOLEAN, NEW forb \in SUBSET Versions,
         NEW events, NEW known,
         Added(req, reuse, forb, events, known),
         stableCursor' \in Nat, validFrom' \in [Versions -> Nat], supersededAt' \in [Versions -> Nat]
  PROVE  Shape'
<1>1. session > 0 /\ Len(history) # SessionLength /\ Len(history) <= SessionLength /\ session \in Nat
  BY Shares DEF InSession, SessionFull, Shape
<1>2. Len(history) \in Nat /\ Len(tasks) \in Nat /\ SessionLength \in Nat
  BY Domains, Shares
<1>3. /\ session' = session /\ flags' = flags
      /\ tasks' \in Seq(TaskRow) /\ Len(tasks') = Len(tasks) + 1
      /\ history' \in Seq(Versions) /\ Len(history') = Len(history) + 1
      /\ current' \in [Asked' -> {1, 2}]
  BY DEF Added
<1>4. Len(history') <= SessionLength /\ Len(history') <= Len(tasks')
  BY <1>1, <1>2, <1>3 DEF Shape
<1>5. session' \in 0 .. SessionCount /\ flags' \in SUBSET (2 .. SessionLength) /\ session' # 0
  <2>1. session \in 0 .. SessionCount /\ flags \in SUBSET (2 .. SessionLength)
    BY DEF Shape
  <2>2. QED
    BY <1>1, <1>3, <2>1
<1>6. QED
  BY <1>3, <1>4, <1>5 DEF Shape

LEMMA AddedPlace ==
  ASSUME Shape, InPlace, InSession,
         NEW req \in Versions, NEW reuse \in BOOLEAN, NEW forb \in SUBSET Versions,
         NEW events, NEW known,
         Added(req, reuse, forb, events, known)
  PROVE  InPlace'
<1> DEFINE n == Len(tasks) + 1
           row == Row(req, reuse, forb, events)
<1>1. /\ session' = session /\ DOMAIN tasks' = 1 .. n /\ Len(tasks') = n
      /\ \A i \in DOMAIN tasks : tasks'[i] = tasks[i]
      /\ tasks'[n] = row
      /\ \A k \in DOMAIN history : history'[k] = history[k]
      /\ history'[Len(history) + 1] = req /\ Base' = Base
  BY DEF Added
<1>2. row.seq = n /\ row.session = session /\ row.position = Len(history) + 1 /\ row.required = req
  BY DEF Row, Position
<1>3. /\ DOMAIN tasks = 1 .. Len(tasks) /\ DOMAIN history = 1 .. Len(history) /\ Base \in Nat
      /\ Len(tasks) \in Nat /\ Len(history) \in Nat /\ Base = Len(tasks) - Len(history)
  BY Domains DEF Base
<1> HIDE DEF row
<1>4. ASSUME NEW i \in DOMAIN tasks' PROVE tasks'[i].seq = i
  <2>1. i \in DOMAIN tasks \/ i = n
    BY <1>1, <1>3
  <2>2. QED
    BY <1>1, <1>2, <2>1 DEF InPlace
<1>5. ASSUME NEW i \in 1 .. Base PROVE tasks'[i].session < session
  <2>1. i \in DOMAIN tasks
    BY <1>3
  <2>2. QED
    BY <1>1, <2>1 DEF InPlace
<1>6. ASSUME NEW i \in Base + 1 .. n
      PROVE  /\ tasks'[i].session = session /\ tasks'[i].position = i - Base
             /\ tasks'[i].required = history'[i - Base]
  <2>1. CASE i = n
    BY <1>1, <1>2, <1>3, <2>1
  <2>2. CASE i # n
    <3>1. i \in Base + 1 .. Len(tasks) /\ i \in DOMAIN tasks /\ i - Base \in DOMAIN history
      BY <1>3, <2>2
    <3>2. QED
      BY <1>1, <3>1 DEF InPlace
  <2>3. QED
    BY <2>1, <2>2
<1>7. ASSUME NEW i \in DOMAIN tasks'
      PROVE  \E j \in DOMAIN tasks' : tasks'[j].session = tasks'[i].session /\ tasks'[j].position = 1
  <2>1. CASE i \in DOMAIN tasks
    <3>1. PICK j \in DOMAIN tasks : tasks[j].session = tasks[i].session /\ tasks[j].position = 1
      BY <2>1 DEF InPlace
    <3>2. j \in DOMAIN tasks'
      BY <1>1, <1>3
    <3>3. QED
      BY <1>1, <2>1, <3>1, <3>2
  <2>2. CASE i \notin DOMAIN tasks
    <3>1. i = n
      BY <1>1, <1>3, <2>2
    <3>2. Base + 1 \in Base + 1 .. n /\ Base + 1 \in DOMAIN tasks'
      BY <1>1, <1>3
    <3>3. tasks'[Base + 1].session = session /\ tasks'[Base + 1].position = 1
      BY <1>3, <1>6, <3>2
    <3>4. QED
      BY <1>1, <1>2, <3>1, <3>2, <3>3
  <2>3. QED
    BY <2>1, <2>2
<1>8. QED
  BY <1>1, <1>4, <1>5, <1>6, <1>7 DEF InPlace

\* Anchors and stable documents are all different.
LEMMA Distinct ==
  /\ \A i, j \in DOMAIN Anchors : Anchors[i] = Anchors[j] => i = j
  /\ \A i, j \in DOMAIN Stable : Stable[i] = Stable[j] => i = j
  /\ \A i \in DOMAIN Anchors : \A j \in DOMAIN Stable : Anchors[i] # Stable[j]
<1> DEFINE all == Anchors \o Stable
<1>1. Anchors \in Seq(Docs) /\ Stable \in Seq(Docs)
  BY ScheduleAssumption
<1>2. IsInjective(all)
  BY ScheduleAssumption
<1>3. /\ DOMAIN Anchors = 1 .. Len(Anchors) /\ Len(Anchors) \in Nat
      /\ DOMAIN Stable = 1 .. Len(Stable) /\ Len(Stable) \in Nat
      /\ DOMAIN all = 1 .. Len(Anchors) + Len(Stable)
      /\ \A i \in 1 .. Len(Anchors) + Len(Stable) :
           all[i] = IF i <= Len(Anchors) THEN Anchors[i] ELSE Stable[i - Len(Anchors)]
  BY <1>1
<1> HIDE DEF all
<1>4. \A a, b \in DOMAIN all : all[a] = all[b] => a = b
  BY <1>2 DEF IsInjective
<1>5. \A i \in DOMAIN Anchors : i \in DOMAIN all /\ all[i] = Anchors[i]
  BY <1>3
<1>6. \A j \in DOMAIN Stable : Len(Anchors) + j \in DOMAIN all /\ all[Len(Anchors) + j] = Stable[j]
  BY <1>3
<1>7. ASSUME NEW i \in DOMAIN Anchors, NEW j \in DOMAIN Stable, Anchors[i] = Stable[j] PROVE FALSE
  <2>1. i = Len(Anchors) + j
    BY <1>4, <1>5, <1>6, <1>7
  <2>2. QED
    BY <1>3, <2>1
<1>8. ASSUME NEW i \in DOMAIN Stable, NEW j \in DOMAIN Stable, Stable[i] = Stable[j] PROVE i = j
  <2>1. Len(Anchors) + i = Len(Anchors) + j
    BY <1>4, <1>6, <1>8
  <2>2. QED
    BY <1>3, <2>1
<1>9. \A i, j \in DOMAIN Anchors : Anchors[i] = Anchors[j] => i = j
  BY <1>4, <1>5
<1>10. QED
  BY <1>7, <1>8, <1>9

LEMMA AddedMemory ==
  ASSUME Shape, Remembered, InSession,
         NEW req \in Versions, NEW reuse \in BOOLEAN, NEW forb \in SUBSET Versions,
         NEW events, NEW known,
         Added(req, reuse, forb, events, known),
         stableCursor' \in Nat, stableCursor <= stableCursor',
         history = <<>> => req[1] = Anchor,
         req[1] = Anchor \/ req[1] \in Asked
           \/ \E j \in 1 .. stableCursor' : j \in DOMAIN Stable /\ req[1] = Stable[j],
         req[2] = IF Replaced(req[1])' THEN 2 ELSE 1,
         \A d \in Asked : d # req[1] => known[d] = IF Replaced(d)' THEN 2 ELSE 1
  PROVE  Remembered'
<1>1. /\ session' = session /\ Asked' = Asked \cup {req[1]}
      /\ current'[req[1]] = req[2]
      /\ \A d \in Asked : d # req[1] => current'[d] = known[d]
  BY DEF Added
<1>2. Anchor' = Anchor
  BY <1>1 DEF Anchor
<1>3. Anchor \in Asked'
  BY <1>1 DEF Remembered
<1>4. \A d \in Asked' : current'[d] = IF Replaced(d)' THEN 2 ELSE 1
  BY <1>1
<1>5. \A d \in Asked : d = Anchor \/ \E j \in 1 .. stableCursor' : j \in DOMAIN Stable /\ d = Stable[j]
  BY DEF Remembered, Shape
<1>6. \A d \in Asked' : d = Anchor \/ \E j \in 1 .. stableCursor' : j \in DOMAIN Stable /\ d = Stable[j]
  BY <1>1, <1>5
<1>7. QED
  BY <1>2, <1>3, <1>4, <1>6 DEF Remembered

\* The rows keep what they say, and the new one says it of its own moment.
LEMMA AskedBeforeIs ==
  ASSUME Shape, InPlace,
         NEW req \in Versions, NEW reuse \in BOOLEAN, NEW forb \in SUBSET Versions,
         NEW events, NEW known,
         Added(req, reuse, forb, events, known), NEW n, n = Len(tasks) + 1
  PROVE  /\ \A i \in DOMAIN tasks : AskedBefore(i)' <=> AskedBefore(i)
         /\ AskedBefore(n)' <=> req[1] \in Asked
<1> DEFINE row == Row(req, reuse, forb, events)
<1>1. /\ \A i \in DOMAIN tasks : tasks'[i] = tasks[i]
      /\ tasks'[n] = row
  BY DEF Added
<1>2. row.session = session /\ row.required = req
  BY DEF Row
<1>3. /\ DOMAIN tasks = 1 .. Len(tasks) /\ DOMAIN history = 1 .. Len(history) /\ Base \in Nat
      /\ Len(tasks) \in Nat /\ Len(history) \in Nat /\ Base = Len(tasks) - Len(history)
  BY Domains DEF Base
<1> HIDE DEF row
<1>4. ASSUME NEW i \in DOMAIN tasks PROVE AskedBefore(i)' <=> AskedBefore(i)
  <2>1. \A j \in 1 .. i - 1 : tasks'[j] = tasks[j]
    BY <1>1, <1>3
  <2>2. QED
    BY <1>1, <2>1 DEF AskedBefore
<1>5. AskedBefore(n)' <=> \E j \in 1 .. Len(tasks) : tasks[j].session = session /\ tasks[j].required[1] = req[1]
  <2>1. AskedBefore(n)' <=> \E j \in 1 .. n - 1 : tasks'[j].session = tasks'[n].session /\ tasks'[j].required[1] = tasks'[n].required[1]
    BY DEF AskedBefore
  <2>2. n - 1 = Len(tasks)
    BY <1>3
  <2>3. \A j \in 1 .. Len(tasks) : tasks'[j] = tasks[j]
    BY <1>1, <1>3
  <2>4. QED
    BY <1>1, <1>2, <2>1, <2>2, <2>3
<1>6. ASSUME NEW j \in 1 .. Len(tasks), tasks[j].session = session, tasks[j].required[1] = req[1]
      PROVE req[1] \in Asked
  <2>1. session \in Nat
    BY Shares DEF Shape
  <2>2. ~(j \in 1 .. Base)
    BY <1>6, <2>1 DEF InPlace
  <2>3. j \in Base + 1 .. Len(tasks) /\ j - Base \in DOMAIN history
    BY <1>3, <2>2
  <2>4. tasks[j].required = history[j - Base]
    BY <2>3 DEF InPlace
  <2>5. QED
    BY <1>6, <2>3, <2>4 DEF Asked
<1>7. ASSUME req[1] \in Asked
      PROVE \E j \in 1 .. Len(tasks) : tasks[j].session = session /\ tasks[j].required[1] = req[1]
  <2>1. PICK k \in DOMAIN history : req[1] = history[k][1]
    BY <1>7 DEF Asked
  <2>2. Base + k \in Base + 1 .. Len(tasks) /\ Base + k \in 1 .. Len(tasks) /\ (Base + k) - Base = k
    BY <1>3
  <2>3. tasks[Base + k].session = session /\ tasks[Base + k].required = history[k]
    BY <2>2 DEF InPlace
  <2>4. QED
    BY <2>1, <2>2, <2>3
<1>8. QED
  BY <1>4, <1>5, <1>6, <1>7

LEMMA AddedTruth ==
  ASSUME Shape, InPlace, \A i \in DOMAIN tasks : Truthful(i),
         NEW req \in Versions, NEW reuse \in BOOLEAN, NEW forb \in SUBSET Versions,
         NEW events \in Seq(Event), NEW known,
         Added(req, reuse, forb, events, known), NEW n, n = Len(tasks) + 1,
         \A v \in Versions : \A i \in DOMAIN tasks :
           (ActiveAt(v, i)' <=> ActiveAt(v, i)) /\ (supersededAt[v] = i => supersededAt'[v] = i),
         reuse <=> req[1] \in Asked,
         ActiveAt(req, n)',
         \A v \in forb : ~ActiveAt(v, n)',
         Len(events) <= 2,
         \A k \in DOMAIN events :
           /\ events[k].type = "corrected" => ActiveAt(events[k].version, n)'
           /\ events[k].type = "validity_changed" =>
                events[k].version[2] = 1 /\ supersededAt'[events[k].version] = n
  PROVE  \A i \in DOMAIN tasks' : Truthful(i)'
<1> DEFINE row == Row(req, reuse, forb, events)
<1>1. /\ \A i \in DOMAIN tasks : tasks'[i] = tasks[i]
      /\ tasks'[n] = row /\ DOMAIN tasks' = 1 .. n
  BY DEF Added
<1>2. row.forbidden = forb /\ row.required = req /\ row.reuse = reuse /\ row.events = events
  BY DEF Row
<1>3. DOMAIN tasks = 1 .. Len(tasks) /\ Len(tasks) \in Nat
  BY Domains
<1> HIDE DEF row
<1>4. /\ \A i \in DOMAIN tasks : AskedBefore(i)' <=> AskedBefore(i)
      /\ AskedBefore(n)' <=> req[1] \in Asked
  BY AskedBeforeIs
<1>5. ASSUME NEW i \in DOMAIN tasks PROVE Truthful(i)'
  <2>0. PICK r : r = tasks[i]
    OBVIOUS
  <2>1. Truthful(i) /\ tasks'[i] = r /\ tasks[i] = r
    BY <1>1, <2>0
  <2>2. /\ r.required \in Versions /\ r.forbidden \in SUBSET Versions
        /\ \A k \in DOMAIN r.events : r.events[k].version \in Versions
    <3>1. r \in TaskRow
      BY <1>3, <2>0 DEF Shape
    <3>2. r.events \in Seq(Event) /\ r.required \in Versions /\ r.forbidden \in SUBSET Versions
      BY <3>1 DEF TaskRow
    <3>3. \A k \in DOMAIN r.events : r.events[k] \in Event
      BY <3>2
    <3>4. QED
      BY <3>2, <3>3 DEF Event
  <2>3. ActiveAt(r.required, i)' /\ \A v \in r.forbidden : ~ActiveAt(v, i)'
    BY <2>1, <2>2 DEF Truthful
  <2>4. ASSUME NEW k \in DOMAIN r.events
        PROVE  /\ r.events[k].type = "corrected" => ActiveAt(r.events[k].version, i)'
               /\ r.events[k].type = "validity_changed" =>
                    r.events[k].version[2] = 1 /\ supersededAt'[r.events[k].version] = i
    BY <2>1, <2>2 DEF Truthful
  <2>5. Len(r.events) <= 2 /\ (r.reuse <=> AskedBefore(i)')
    BY <1>4, <2>1 DEF Truthful
  <2>6. QED
    BY <2>1, <2>3, <2>4, <2>5 DEF Truthful
<1>6. Truthful(n)'
  BY <1>1, <1>2, <1>4 DEF Truthful
<1>7. \A i \in DOMAIN tasks' : i \in DOMAIN tasks \/ i = n
  BY <1>1, <1>3
<1>8. QED
  BY <1>5, <1>6, <1>7

\* What is replaced by the task numbered n is among its events.
Notified(events, n) ==
  /\ \A d \in Docs : Replaced(d) => supersededAt'[Version(d, 1)] = supersededAt[Version(d, 1)]
  /\ \A d \in Docs : Replaced(d)' /\ ~Replaced(d) =>
       /\ supersededAt'[Version(d, 1)] = n
       /\ \E k \in DOMAIN events : events[k].type = "validity_changed" /\ events[k].version = Version(d, 1)

LEMMA AddedNotice ==
  ASSUME Shape, Validity, Announced,
         NEW req \in Versions, NEW reuse \in BOOLEAN, NEW forb \in SUBSET Versions,
         NEW events, NEW known,
         Added(req, reuse, forb, events, known), NEW n, n = Len(tasks) + 1,
         Notified(events, n)
  PROVE  Announced'
<1> DEFINE row == Row(req, reuse, forb, events)
<1>1. (\A i \in DOMAIN tasks : tasks'[i] = tasks[i]) /\ tasks'[n] = row
  BY DEF Added
<1>2. row.events = events
  BY DEF Row
<1>3. DOMAIN tasks = 1 .. Len(tasks) /\ Len(tasks) \in Nat
  BY Domains
<1> HIDE DEF row
<1>4. SUFFICES ASSUME NEW d \in Docs, Replaced(d)'
               PROVE  \E k \in DOMAIN tasks'[supersededAt'[Version(d, 1)]].events :
                        LET event == tasks'[supersededAt'[Version(d, 1)]].events[k]
                        IN event.type = "validity_changed" /\ event.version = Version(d, 1)
  BY DEF Announced, Version
<1>5. CASE Replaced(d)
  <2>1. PICK i : i = supersededAt[Version(d, 1)]
    OBVIOUS
  <2>2. Version(d, 1) \in Versions
    BY DEF Version, Versions
  <2>3. i \in Nat /\ i # 0 /\ i <= Len(tasks)
    BY <1>5, <2>1, <2>2 DEF Shape, Validity, Replaced, Never
  <2>4. i \in DOMAIN tasks /\ supersededAt'[Version(d, 1)] = i
    BY <1>3, <1>5, <2>1, <2>3 DEF Notified
  <2>5. PICK k \in DOMAIN tasks[i].events :
          tasks[i].events[k].type = "validity_changed" /\ tasks[i].events[k].version = Version(d, 1)
    BY <1>5, <2>1 DEF Announced
  <2>6. QED
    BY <1>1, <2>4, <2>5
<1>6. CASE ~Replaced(d)
  <2>1. supersededAt'[Version(d, 1)] = n
        /\ \E k \in DOMAIN events : events[k].type = "validity_changed" /\ events[k].version = Version(d, 1)
    BY <1>4, <1>6 DEF Notified
  <2>2. QED
    BY <1>1, <1>2, <2>1
<1>7. QED
  BY <1>5, <1>6

LEMMA OneMore ==
  ASSUME NEW S, IsFiniteSet(S), NEW x, x \notin S
  PROVE  Cardinality(S \cup {x}) = Cardinality(S) + 1 /\ Cardinality(S) \in Nat
BY FS_AddElement, FS_CardinalityType

LEMMA AddedCounts ==
  ASSUME Shape, Counted, InSession,
         NEW req \in Versions, NEW reuse \in BOOLEAN, NEW forb \in SUBSET Versions,
         NEW events, NEW known,
         Added(req, reuse, forb, events, known),
         reuse <=> Position \in flags,
         stableCursor' = stableCursor + (IF reuse \/ history = <<>> THEN 0 ELSE 1)
  PROVE  Counted'
<1> DEFINE n == Len(tasks) + 1
           p == Len(history) + 1
           row == Row(req, reuse, forb, events)
           one == IF reuse THEN 1 ELSE 0
<1>1. /\ \A i \in DOMAIN tasks : tasks'[i] = tasks[i]
      /\ tasks'[n] = row /\ DOMAIN tasks' = 1 .. n /\ Len(tasks') = n
      /\ Len(history') = p /\ session' = session /\ flags' = flags
  BY DEF Added
<1>2. row.reuse = reuse
  BY DEF Row
<1>3. /\ DOMAIN tasks = 1 .. Len(tasks) /\ Len(tasks) \in Nat /\ Len(history) \in Nat
      /\ Reused \in SUBSET (1 .. Len(tasks)) /\ IsFiniteSet(Reused) /\ Cardinality(Reused) \in Nat
  BY Domains
<1>4. session > 0 /\ session \in Nat /\ Position = p
  BY Shares DEF Shape, InSession, Position
<1> HIDE DEF row
<1>5. Cardinality(Reused') = Cardinality(Reused) + one
  <2>1. \A i \in DOMAIN tasks' : i \in DOMAIN tasks \/ i = n
    BY <1>1, <1>3
  <2>2. Reused' = {i \in DOMAIN tasks' : tasks'[i].reuse}
    BY DEF Reused
  <2>3. CASE reuse
    <3>0. ASSUME NEW i \in DOMAIN tasks' PROVE tasks'[i].reuse <=> i \in Reused \/ i = n
      <4>1. CASE i = n
        BY <1>1, <1>2, <2>3, <4>1
      <4>2. CASE i \in DOMAIN tasks /\ i # n
        BY <1>1, <4>2 DEF Reused
      <4>3. QED
        BY <2>1, <4>1, <4>2
    <3>1. Reused' = Reused \cup {n}
      <4>1. Reused \subseteq DOMAIN tasks' /\ n \in DOMAIN tasks'
        BY <1>1, <1>3
      <4>2. QED
        BY <2>2, <3>0, <4>1
    <3>2. n \notin Reused
      BY <1>3
    <3>3. Cardinality(Reused \cup {n}) = Cardinality(Reused) + 1
      BY <1>3, <3>2, OneMore
    <3>4. QED
      BY <2>3, <3>1, <3>3
  <2>4. CASE ~reuse
    <3>0. ASSUME NEW i \in DOMAIN tasks' PROVE tasks'[i].reuse <=> i \in Reused
      <4>1. CASE i = n
        BY <1>1, <1>2, <1>3, <2>4, <4>1
      <4>2. CASE i \in DOMAIN tasks /\ i # n
        BY <1>1, <4>2 DEF Reused
      <4>3. QED
        BY <2>1, <4>1, <4>2
    <3>1. Reused' = Reused
      <4>1. Reused \subseteq DOMAIN tasks'
        BY <1>1, <1>3
      <4>2. QED
        BY <2>2, <3>0, <4>1
    <3>2. QED
      BY <1>3, <2>4, <3>1
  <2>5. QED
    BY <2>3, <2>4
<1>6. Cardinality(flags \cap (1 .. p)) = Cardinality(flags \cap (1 .. Len(history))) + one
      /\ Cardinality(flags \cap (1 .. Len(history))) \in Nat
  <2>0. flags \in SUBSET (2 .. SessionLength)
    BY DEF Shape
  <2>1. IsFiniteSet(flags \cap (1 .. Len(history))) /\ Cardinality(flags \cap (1 .. Len(history))) \in Nat
    BY <1>3, <2>0, FlagsFinite
  <2>2. \A x \in flags : x \in Int
    BY <2>0, Shares
  <2>3. CASE reuse
    <3>1. p \in flags
      BY <1>4, <2>3
    <3>2. flags \cap (1 .. p) = (flags \cap (1 .. Len(history))) \cup {p}
      BY <1>3, <2>2, <3>1
    <3>3. p \notin flags \cap (1 .. Len(history))
      BY <1>3
    <3>4. Cardinality((flags \cap (1 .. Len(history))) \cup {p}) = Cardinality(flags \cap (1 .. Len(history))) + 1
      BY <2>1, <3>3, OneMore
    <3>5. QED
      BY <2>1, <2>3, <3>2, <3>4
  <2>4. CASE ~reuse
    <3>1. p \notin flags
      BY <1>4, <2>4
    <3>2. flags \cap (1 .. p) = flags \cap (1 .. Len(history))
      BY <1>3, <2>2, <3>1
    <3>3. Cardinality(flags \cap (1 .. p)) = Cardinality(flags \cap (1 .. Len(history)))
      BY <3>2
    <3>4. one = 0
      BY <2>4
    <3>5. QED
      BY <2>1, <3>3, <3>4
  <2>5. QED
    BY <2>3, <2>4
<1>7. /\ Len(tasks) = (session - 1) * SessionLength + Len(history)
      /\ Cardinality(flags) = RepeatAllocation(session)
      /\ Cardinality(Reused) = Allotted(session - 1) + Cardinality(flags \cap (1 .. Len(history)))
      /\ stableCursor + Cardinality(Reused) + Started = Len(tasks)
  BY <1>4 DEF Counted
<1>8. stableCursor \in Nat /\ SessionLength \in Nat /\ Allotted(session - 1) \in Nat
      /\ (session - 1) * SessionLength \in Nat
  <2>1. session - 1 \in Nat
    BY <1>4
  <2>2. Allotted(session - 1) \in Nat /\ SessionLength \in Nat
    BY <2>1, Shares, Allotments
  <2>3. stableCursor \in Nat
    BY DEF Shape
  <2>4. QED
    BY <2>1, <2>2, <2>3
<1>9. Started' = session /\ Started = (IF history = <<>> THEN session - 1 ELSE session)
  <2>1. history' # <<>>
    BY <1>1, <1>3
  <2>2. QED
    BY <1>1, <2>1 DEF Started
<1>10. history = <<>> => ~reuse
  <2>1. history = <<>> => Position = 1
    BY DEF Position
  <2>2. 1 \notin flags
    BY Shares DEF Shape
  <2>3. QED
    BY <2>1, <2>2
<1>11. Len(tasks') = (session - 1) * SessionLength + Len(history')
  BY <1>1, <1>3, <1>7, <1>8
<1>12. Cardinality(Reused') = Allotted(session - 1) + Cardinality(flags \cap (1 .. p))
  BY <1>3, <1>5, <1>6, <1>7, <1>8
<1>13. stableCursor' + Cardinality(Reused') + Started' = Len(tasks')
  <2> DEFINE c == Cardinality(Reused)
  <2>1. c \in Nat
    BY <1>3
  <2>2. CASE reuse
    <3>1. Cardinality(Reused') = c + 1 /\ stableCursor' = stableCursor /\ Started = session
      BY <1>5, <1>8, <1>9, <1>10, <2>2
    <3>2. Started' = session /\ Len(tasks') = Len(tasks) + 1 /\ stableCursor + c + Started = Len(tasks)
      BY <1>1, <1>7, <1>9
    <3> HIDE DEF c
    <3>3. QED
      BY <1>3, <1>4, <1>8, <2>1, <3>1, <3>2
  <2>3. CASE ~reuse /\ history = <<>>
    <3>1. Cardinality(Reused') = c /\ stableCursor' = stableCursor /\ Started = session - 1
      BY <1>5, <1>8, <1>9, <2>1, <2>3
    <3>2. Started' = session /\ Len(tasks') = Len(tasks) + 1 /\ stableCursor + c + Started = Len(tasks)
      BY <1>1, <1>7, <1>9
    <3> HIDE DEF c
    <3>3. QED
      BY <1>3, <1>4, <1>8, <2>1, <3>1, <3>2
  <2>4. CASE ~reuse /\ history # <<>>
    <3>1. Cardinality(Reused') = c /\ stableCursor' = stableCursor + 1 /\ Started = session
      BY <1>5, <1>8, <1>9, <2>1, <2>4
    <3>2. Started' = session /\ Len(tasks') = Len(tasks) + 1 /\ stableCursor + c + Started = Len(tasks)
      BY <1>1, <1>7, <1>9
    <3> HIDE DEF c
    <3>3. QED
      BY <1>3, <1>4, <1>8, <2>1, <3>1, <3>2
  <2>5. QED
    BY <2>2, <2>3, <2>4
<1>14. Cardinality(flags') = RepeatAllocation(session)
       /\ Cardinality((flags \cap (1 .. Len(history)))') = Cardinality(flags \cap (1 .. p))
  BY <1>1, <1>7
<1>15. QED
  BY <1>1, <1>11, <1>12, <1>13, <1>14 DEF Counted, RepeatAllocation, Allotted, Share, Rest

(***************************************************************************)
(* The steps of the schedule keep the invariant.                           *)
(***************************************************************************)
LEMMA VersionPairs ==
  /\ \A d \in Docs : Version(d, 1) \in Versions /\ Version(d, 2) \in Versions
  /\ \A v \in Versions : /\ v[1] \in Docs /\ v[2] \in {1, 2} /\ v = Version(v[1], v[2])
                         /\ v = Version(v[1], 1) \/ v = Version(v[1], 2)
  /\ \A d, e : \A m, n : Version(d, m) = Version(e, n) <=> d = e /\ m = n
  /\ \A d : \A n : Version(d, n)[1] = d /\ Version(d, n)[2] = n
BY DEF Version, Versions

Latest(d) == IF Replaced(d) THEN 2 ELSE 1

LEMMA LatestIsActive ==
  ASSUME Shape, Validity, NEW d \in Docs
  PROVE  ActiveAt(Version(d, Latest(d)), Len(tasks) + 1)
<1>1. Version(d, 1) \in Versions /\ Version(d, 2) \in Versions /\ Len(tasks) \in Nat
  BY VersionPairs, Domains
<1>2. /\ validFrom[Version(d, 1)] = 1 /\ supersededAt[Version(d, 2)] = Never
      /\ validFrom[Version(d, 2)] = supersededAt[Version(d, 1)]
      /\ supersededAt[Version(d, 1)] <= Len(tasks) /\ supersededAt[Version(d, 1)] \in Nat
  BY <1>1 DEF Validity, Shape
<1>3. CASE Replaced(d)
  BY <1>1, <1>2, <1>3 DEF ActiveAt, Latest, Replaced, Never
<1>4. CASE ~Replaced(d)
  BY <1>1, <1>2, <1>4 DEF ActiveAt, Latest, Replaced, Never
<1>5. QED
  BY <1>3, <1>4

LEMMA AskedIsDocs ==
  ASSUME Shape
  PROVE  Asked \subseteq Docs
<1>1. history \in Seq(Versions) /\ DOMAIN history = 1 .. Len(history) /\ Len(history) \in Nat
  BY Domains DEF Shape
<1>2. \A k \in DOMAIN history : history[k] \in Versions
  BY <1>1
<1>3. QED
  BY <1>2, VersionPairs DEF Asked

LEMMA QuietTask ==
  ASSUME ScheduleInv, InSession, NEW req \in Versions, NEW reuse \in BOOLEAN,
         AddTask(req, reuse, {}, <<>>, current), validFrom' = validFrom, supersededAt' = supersededAt,
         stableCursor' = stableCursor + (IF reuse \/ history = <<>> THEN 0 ELSE 1),
         reuse <=> Position \in flags, reuse <=> req[1] \in Asked,
         history = <<>> => req[1] = Anchor,
         req[1] = Anchor \/ req[1] \in Asked
           \/ \E j \in 1 .. stableCursor' : j \in DOMAIN Stable /\ req[1] = Stable[j],
         req[2] = Latest(req[1])
  PROVE  ScheduleInv'
<1> DEFINE events == <<>> \o Correction(current)
<1>0. Shape /\ InPlace /\ Validity /\ Remembered /\ Announced /\ Counted /\ (\A i \in DOMAIN tasks : Truthful(i))
  BY DEF ScheduleInv
<1>1. current \in [Asked -> {1, 2}] /\ stableCursor \in Nat /\ stableCursor' \in Nat /\ stableCursor <= stableCursor'
      /\ validFrom' \in [Versions -> Nat] /\ supersededAt' \in [Versions -> Nat]
  BY <1>0 DEF Shape
<1>2. <<>> \in Seq(Event) /\ Len(<<>>) <= 1 /\ {} \in SUBSET Versions
  OBVIOUS
<1>3. PICK known : known = current
  OBVIOUS
<1>4. PICK evs : evs = events
  OBVIOUS
<1>5. evs \in Seq(Event) /\ Len(evs) <= 2
      /\ \A k \in DOMAIN evs : /\ evs[k].type = "corrected"
                               /\ \E d \in Asked : evs[k].version = Version(d, current[d])
  <2>1. Correction(current) \in Seq(Event)
    BY <1>0, <1>1, Corrects
  <2>2. evs = Correction(current)
    BY <1>4, <2>1
  <2>3. /\ Correction(current) \in Seq(Event) /\ Len(Correction(current)) <= 1
        /\ \A k \in DOMAIN Correction(current) :
             /\ Correction(current)[k].type = "corrected"
             /\ \E d \in Asked : Correction(current)[k].version = Version(d, current[d])
    BY <1>0, <1>1, Corrects
  <2>4. Len(evs) \in Nat
    BY <2>1, <2>2
  <2>5. QED
    BY <2>2, <2>3, <2>4
<1>6. Added(req, reuse, {}, evs, known)
  <2>1. Added(req, reuse, {}, <<>> \o Correction(known), known)
    BY <1>0, <1>1, <1>2, <1>3, Adding
  <2>2. QED
    BY <1>3, <1>4, <2>1
<1>7. Shape'
  BY <1>0, <1>1, <1>2, <1>6, AddedShape
<1>8. InPlace'
  BY <1>0, <1>2, <1>6, AddedPlace
<1>9. \A d : Replaced(d)' <=> Replaced(d)
  BY DEF Replaced
<1>10. Remembered'
  <2>1. req[2] = IF Replaced(req[1])' THEN 2 ELSE 1
    BY <1>9 DEF Latest
  <2>2. \A d \in Asked : d # req[1] => known[d] = IF Replaced(d)' THEN 2 ELSE 1
    BY <1>0, <1>3, <1>9 DEF Remembered
  <2>3. QED
    BY <1>0, <1>1, <1>2, <1>6, <2>1, <2>2, AddedMemory
<1>11. PICK n : n = Len(tasks) + 1
  OBVIOUS
<1>12. \A v, i : ActiveAt(v, i)' <=> ActiveAt(v, i)
  BY DEF ActiveAt
<1>13. \A d \in Docs : ActiveAt(Version(d, Latest(d)), n)
  BY <1>0, <1>11, LatestIsActive
<1>14. Asked \subseteq Docs
  BY <1>0, AskedIsDocs
<1>15. ActiveAt(req, n)
  BY <1>13, VersionPairs
<1>16. \A k \in DOMAIN evs : evs[k].type = "corrected" /\ ActiveAt(evs[k].version, n)
  <2>1. \A d \in Asked : current[d] = Latest(d)
    BY <1>0 DEF Remembered, Latest
  <2>2. QED
    BY <1>5, <1>13, <1>14, <2>1
<1>17. \A i \in DOMAIN tasks' : Truthful(i)'
  <2>1. \A v \in Versions : \A i \in DOMAIN tasks :
          (ActiveAt(v, i)' <=> ActiveAt(v, i)) /\ (supersededAt[v] = i => supersededAt'[v] = i)
    BY <1>12
  <2>2. ActiveAt(req, n)' /\ \A v \in {} : ~ActiveAt(v, n)'
    BY <1>12, <1>15
  <2>3. \A k \in DOMAIN evs :
           /\ evs[k].type = "corrected" => ActiveAt(evs[k].version, n)'
           /\ evs[k].type = "validity_changed" =>
                evs[k].version[2] = 1 /\ supersededAt'[evs[k].version] = n
    BY <1>12, <1>16
  <2>4. QED
    BY <1>0, <1>2, <1>5, <1>6, <1>11, <2>1, <2>2, <2>3, AddedTruth
<1>18. Announced'
  <2>1. \A d \in Docs : Replaced(d) => supersededAt'[Version(d, 1)] = supersededAt[Version(d, 1)]
    OBVIOUS
  <2>2. \A d \in Docs : Replaced(d)' /\ ~Replaced(d) =>
           /\ supersededAt'[Version(d, 1)] = n
           /\ \E k \in DOMAIN evs : evs[k].type = "validity_changed" /\ evs[k].version = Version(d, 1)
    BY <1>9
  <2>3. QED
    BY <1>0, <1>2, <1>6, <1>11, <2>1, <2>2, AddedNotice DEF Notified
<1>19. Counted'
  BY <1>0, <1>2, <1>6, AddedCounts
<1>20. Validity'
  <2>1. Len(tasks') = Len(tasks) + 1 /\ Len(tasks) \in Nat /\ Len(history') = Len(history) + 1 /\ session' = session
        /\ Len(history) \in Nat
    BY <1>0, <1>6, Domains DEF Added
  <2>2. history' # <<>>
    BY <2>1
  <2>3. \A d \in Docs : supersededAt[Version(d, 1)] \in Nat /\ supersededAt[Version(d, 1)] <= Len(tasks)
    BY <1>0, VersionPairs DEF Shape, Validity
  <2>4. \A d \in Docs : supersededAt'[Version(d, 1)] <= Len(tasks')
    BY <2>1, <2>3
  <2>5. \A j \in DOMAIN Anchors : Replaced(Anchors[j])' => j < session \/ j = session
    BY <1>0, <1>9 DEF Validity
  <2>6. QED
    BY <1>0, <1>9, <2>1, <2>2, <2>4, <2>5 DEF Validity
<1>21. QED
  BY <1>7, <1>8, <1>10, <1>17, <1>18, <1>19, <1>20 DEF ScheduleInv

LEMMA StartsOrGoesOn ==
  ASSUME ScheduleInv, InSession
  PROVE  /\ session \in 1 .. SessionCount /\ session \in DOMAIN Anchors /\ Anchor \in Docs
         /\ Position = Len(history) + 1 /\ Len(history) \in Nat /\ Len(history) < SessionLength
         /\ history = <<>> <=> Position = 1
         /\ 1 \notin flags
<1>1. session \in 1 .. SessionCount /\ Len(history) \in Nat /\ Len(history) <= SessionLength /\ Len(history) # SessionLength
  BY Shares, Domains DEF ScheduleInv, Shape, InSession, SessionFull
<1>2. session \in DOMAIN Anchors
  <2>1. SessionCount <= Len(Anchors) /\ Len(Anchors) \in Nat /\ DOMAIN Anchors = 1 .. Len(Anchors)
    BY ScheduleAssumption
  <2>2. QED
    BY <1>1, <2>1, Shares
<1>3. Anchor \in Docs
  BY <1>2 DEF Anchor, Docs
<1>4. 1 \notin flags
  BY Shares DEF ScheduleInv, Shape
<1>5. history = <<>> <=> Position = 1
  <2>1. history \in Seq(Versions)
    BY DEF ScheduleInv, Shape
  <2>2. QED
    BY <1>1, <2>1 DEF Position
<1>6. QED
  BY <1>1, <1>2, <1>3, <1>4, <1>5, Shares DEF Position

LEMMA FirstTaskKeeps == ScheduleInv /\ FirstTask => ScheduleInv'
<1> SUFFICES ASSUME ScheduleInv, FirstTask PROVE ScheduleInv'
  OBVIOUS
<1>1. InSession /\ Position = 1
  BY DEF FirstTask
<1>2. history = <<>> /\ Position \notin flags /\ Anchor \in Docs /\ session \in DOMAIN Anchors /\ session \in Nat
  BY <1>1, StartsOrGoesOn
<1>3. PICK req : req = Version(Anchor, 1)
  OBVIOUS
<1>4. req \in Versions /\ req[1] = Anchor /\ req[2] = 1
  BY <1>2, <1>3, VersionPairs
<1>5. ~Replaced(Anchor)
  BY <1>2 DEF ScheduleInv, Validity, Anchor
<1>6. Asked = {}
  BY <1>2 DEF Asked
<1>7. AddTask(req, FALSE, {}, <<>>, current) /\ validFrom' = validFrom /\ supersededAt' = supersededAt
      /\ stableCursor' = stableCursor
  BY <1>3 DEF FirstTask
<1>8. stableCursor' = stableCursor + (IF FALSE \/ history = <<>> THEN 0 ELSE 1)
  BY <1>2, <1>7 DEF ScheduleInv, Shape
<1>9. FALSE <=> Position \in flags
  BY <1>2
<1>10. FALSE <=> req[1] \in Asked
  BY <1>6
<1>11. req[2] = Latest(req[1])
  BY <1>4, <1>5 DEF Latest
<1>12. QED
  BY <1>1, <1>4, <1>7, <1>8, <1>9, <1>10, <1>11, QuietTask

LEMMA RepeatTaskKeeps == ScheduleInv /\ RepeatTask => ScheduleInv'
<1> SUFFICES ASSUME ScheduleInv, RepeatTask PROVE ScheduleInv'
  OBVIOUS
<1>1. InSession /\ Position \in flags
  BY DEF RepeatTask
<1>2. history # <<>>
  BY <1>1, StartsOrGoesOn
<1>3. DOMAIN current = Asked /\ Shape
  BY DEF ScheduleInv, Shape
<1>4. PICK doc \in Asked : AddTask(Version(doc, current[doc]), TRUE, {}, <<>>, current)
  BY <1>3 DEF RepeatTask
<1>5. PICK req : req = Version(doc, current[doc])
  OBVIOUS
<1>6. doc \in Docs
  BY <1>3, AskedIsDocs
<1>7. current[doc] = Latest(doc)
  BY DEF ScheduleInv, Remembered, Latest
<1>8. req \in Versions /\ req[1] = doc /\ req[2] = Latest(req[1])
  BY <1>5, <1>6, <1>7, VersionPairs DEF Latest
<1>9. validFrom' = validFrom /\ supersededAt' = supersededAt /\ stableCursor' = stableCursor
  BY DEF RepeatTask
<1>10. stableCursor' = stableCursor + (IF TRUE \/ history = <<>> THEN 0 ELSE 1)
  BY <1>9 DEF ScheduleInv, Shape
<1>11. AddTask(req, TRUE, {}, <<>>, current)
  BY <1>4, <1>5
<1>12. QED
  BY <1>1, <1>2, <1>8, <1>9, <1>10, <1>11, QuietTask

\* There is a stable document left for every new question.
LEMMA RoomForNew ==
  ASSUME ScheduleInv, InSession, history # <<>>, Position \notin flags
  PROVE  stableCursor + 1 \in DOMAIN Stable
<1> DEFINE h == Len(history)
           F == flags \cap (1 .. h)
           L == SessionLength
           s == session
<1>1. s \in 1 .. SessionCount /\ h \in Nat /\ h < L /\ h >= 1 /\ Position = h + 1 /\ L \in Nat /\ SessionCount \in Nat
  BY StartsOrGoesOn, Shares
<1>2. flags \in SUBSET (2 .. L) /\ stableCursor \in Nat
  BY DEF ScheduleInv, Shape
<1>3. /\ IsFiniteSet(flags) /\ Cardinality(flags) \in Nat
      /\ IsFiniteSet(F) /\ Cardinality(F) \in Nat
  BY <1>1, <1>2, FlagsFinite
<1>4. flags \subseteq F \cup (h + 2 .. L)
  BY <1>1, <1>2
<1>5. Cardinality(flags) <= Cardinality(F) + (L - h - 1)
  <2>1. IsFiniteSet(h + 2 .. L) /\ Cardinality(h + 2 .. L) = L - h - 1
    <3>1. h + 2 \in Int /\ L \in Int
      BY <1>1
    <3>2. IsFiniteSet(h + 2 .. L) /\ Cardinality(h + 2 .. L) = (IF h + 2 > L THEN 0 ELSE L - (h + 2) + 1)
      BY <3>1, FS_Interval
    <3>3. QED
      BY <1>1, <3>2
  <2>2. F \cap (h + 2 .. L) = {}
    BY <1>1
  <2>3. IsFiniteSet(F \cup (h + 2 .. L))
    BY <1>3, <2>1, FS_Union
  <2>4. Cardinality(F \cup (h + 2 .. L)) = Cardinality(F) + Cardinality(h + 2 .. L)
    <3>1. Cardinality(F \cup (h + 2 .. L)) = Cardinality(F) + Cardinality(h + 2 .. L) - Cardinality(F \cap (h + 2 .. L))
      BY <1>3, <2>1, FS_Union
    <3>2. Cardinality(F \cap (h + 2 .. L)) = 0
      BY <2>2, FS_EmptySet
    <3>3. QED
      BY <1>3, <2>1, <3>1, <3>2, <1>1
  <2>5. Cardinality(flags) <= Cardinality(F \cup (h + 2 .. L))
    BY <1>4, <2>3, FS_Subset
  <2>6. QED
    BY <2>1, <2>4, <2>5
<1>6. /\ Len(tasks) = (s - 1) * L + h /\ Cardinality(flags) = RepeatAllocation(s)
      /\ Cardinality(Reused) = Allotted(s - 1) + Cardinality(F)
      /\ stableCursor + Cardinality(Reused) + s = Len(tasks)
  <2>1. Started = s
    BY DEF Started
  <2>2. s > 0
    BY <1>1
  <2>3. QED
    BY <2>1, <2>2 DEF ScheduleInv, Counted
<1>7. Allotted(s) = Allotted(s - 1) + RepeatAllocation(s) /\ Allotted(s - 1) \in Nat /\ Allotted(s) \in Nat
      /\ RepeatAllocation(s) \in Nat
  <2>1. s - 1 \in Nat /\ (s - 1) + 1 = s
    BY <1>1
  <2>2. s \in Nat
    BY <1>1
  <2>3. QED
    BY <2>1, <2>2, Allotments
<1>8. s * (L - 1) - Allotted(s) <= SessionCount * (L - 1) - Repeats
  BY <1>1, NewQuestions
<1>9. (s - 1) * L = s * L - L /\ s * (L - 1) = s * L - s /\ s * L \in Nat
  BY <1>1
<1>10. SessionCount * (L - 1) - Repeats <= Len(Stable) /\ Len(Stable) \in Nat /\ DOMAIN Stable = 1 .. Len(Stable)
       /\ SessionCount * (L - 1) \in Int /\ Repeats \in Int
  BY ScheduleAssumption, Shares DEF Opportunities
<1> HIDE DEF h, F, L, s
<1>11. stableCursor + 1 <= s * L - s - Allotted(s)
  <2>1. Cardinality(Reused) \in Nat
    BY Domains DEF ScheduleInv
  <2> DEFINE all == s * L
             first == Allotted(s - 1)
             mine == RepeatAllocation(s)
             done == Cardinality(F)
             c == stableCursor
             r == Cardinality(Reused)
             n == Len(tasks)
             f == Cardinality(flags)
  <2>2. n = all - L + h /\ f = mine /\ r = first + done /\ c + r + s = n /\ f <= done + (L - h - 1)
    BY <1>5, <1>6, <1>9
  <2>3. Allotted(s) = first + mine /\ first \in Nat /\ mine \in Nat /\ done \in Nat /\ c \in Nat /\ r \in Nat
        /\ all \in Nat /\ h \in Nat /\ L \in Nat /\ s \in Nat /\ f \in Nat
    BY <1>1, <1>2, <1>3, <1>7, <1>9, <2>1
  <2> HIDE DEF all, first, mine, done, c, r, n, f
  <2>4. c + 1 <= all - s - (first + mine)
    BY <2>2, <2>3
  <2>5. QED
    BY <2>3, <2>4 DEF all, c
<1>12. stableCursor + 1 <= Len(Stable)
  BY <1>1, <1>2, <1>7, <1>8, <1>9, <1>10, <1>11
<1>13. QED
  BY <1>2, <1>10, <1>12

LEMMA NewTaskKeeps == ScheduleInv /\ NewTask => ScheduleInv'
<1> SUFFICES ASSUME ScheduleInv, NewTask PROVE ScheduleInv'
  OBVIOUS
<1>1. InSession /\ Position > 1 /\ Position \notin flags
  BY DEF NewTask
<1>2. history # <<>> /\ session \in DOMAIN Anchors
  BY <1>1, StartsOrGoesOn
<1>3. stableCursor + 1 \in DOMAIN Stable /\ stableCursor \in Nat
  BY <1>1, <1>2, RoomForNew DEF ScheduleInv, Shape
<1>4. PICK doc : doc = Stable[stableCursor + 1]
  OBVIOUS
<1>5. doc \in Docs
  BY <1>3, <1>4 DEF Docs
<1>6. doc # Anchor
  BY <1>2, <1>3, <1>4, Distinct DEF Anchor
<1>7. \A j \in 1 .. stableCursor : j \in DOMAIN Stable => doc # Stable[j]
  BY <1>3, <1>4, Distinct
<1>8. doc \notin Asked
  BY <1>6, <1>7 DEF ScheduleInv, Remembered
<1>9. ~Replaced(doc)
  BY <1>3, <1>4 DEF ScheduleInv, Validity
<1>10. PICK req : req = Version(doc, 1)
  OBVIOUS
<1>11. req \in Versions /\ req[1] = doc /\ req[2] = Latest(req[1])
  BY <1>5, <1>9, <1>10, VersionPairs DEF Latest
<1>12. AddTask(req, FALSE, {}, <<>>, current) /\ validFrom' = validFrom /\ supersededAt' = supersededAt
       /\ stableCursor' = stableCursor + 1
  BY <1>4, <1>10 DEF NewTask
<1>13. stableCursor' = stableCursor + (IF FALSE \/ history = <<>> THEN 0 ELSE 1)
  BY <1>2, <1>12
<1>14. \E j \in 1 .. stableCursor' : j \in DOMAIN Stable /\ req[1] = Stable[j]
  <2>1. stableCursor + 1 \in 1 .. stableCursor'
    BY <1>3, <1>12
  <2>2. QED
    BY <1>3, <1>4, <1>11, <2>1
<1>15. (FALSE <=> Position \in flags) /\ (FALSE <=> req[1] \in Asked)
  BY <1>1, <1>8, <1>11
<1>16. QED
  BY <1>1, <1>2, <1>11, <1>12, <1>13, <1>14, <1>15, QuietTask

LEMMA SupersedeKeeps == ScheduleInv /\ SupersedeAnchor => ScheduleInv'
<1> SUFFICES ASSUME ScheduleInv, SupersedeAnchor PROVE ScheduleInv'
  OBVIOUS
<1>0. Shape /\ InPlace /\ Validity /\ Remembered /\ Announced /\ Counted /\ (\A i \in DOMAIN tasks : Truthful(i))
  BY DEF ScheduleInv
<1>1. InSession /\ Position \in flags
  BY DEF SupersedeAnchor
<1>2. history # <<>> /\ Anchor \in Docs /\ session \in DOMAIN Anchors /\ session \in Nat
  BY <1>1, StartsOrGoesOn
<1>3. PICK n : n = Len(tasks) + 1
  OBVIOUS
<1>4. PICK doc : doc = Anchor
  OBVIOUS
<1>5. PICK old, new : old = Version(doc, 1) /\ new = Version(doc, 2)
  OBVIOUS
<1>6. PICK known : known = [current EXCEPT ![doc] = 2]
  OBVIOUS
<1>7. PICK e : e = [type |-> "validity_changed", version |-> old]
  OBVIOUS
<1>8. Len(tasks) \in Nat /\ DOMAIN tasks = 1 .. Len(tasks) /\ n \in Nat /\ n # 0
  BY <1>0, <1>3, Domains
<1>9. doc \in Docs /\ old \in Versions /\ new \in Versions /\ new[1] = doc /\ new[2] = 2 /\ old # new
      /\ old[1] = doc /\ old[2] = 1
  BY <1>2, <1>4, <1>5, VersionPairs
<1>10. /\ ~Replaced(doc) /\ doc \in Asked
  BY <1>0, <1>2, <1>4 DEF SupersedeAnchor, AnchorSuperseded, Replaced, Remembered
<1>11. /\ supersededAt' = [supersededAt EXCEPT ![old] = n]
       /\ validFrom' = [validFrom EXCEPT ![new] = n]
       /\ stableCursor' = stableCursor
       /\ AddTask(new, TRUE, {old}, <<e>>, known)
  BY <1>3, <1>4, <1>5, <1>6, <1>7 DEF SupersedeAnchor
<1>12. /\ validFrom \in [Versions -> Nat] /\ supersededAt \in [Versions -> Nat] /\ current \in [Asked -> {1, 2}]
       /\ stableCursor \in Nat
  BY <1>0 DEF Shape
<1>13. /\ validFrom' \in [Versions -> Nat] /\ supersededAt' \in [Versions -> Nat] /\ stableCursor' \in Nat
       /\ stableCursor <= stableCursor'
  BY <1>8, <1>9, <1>11, <1>12
<1>14. known \in [Asked -> {1, 2}] /\ known[doc] = 2 /\ \A d \in Asked : d # doc => known[d] = current[d]
  BY <1>6, <1>10, <1>12
<1>15. e \in Event /\ e.type = "validity_changed" /\ e.version = old
  BY <1>7, <1>9 DEF Event
<1>16. <<e>> \in Seq(Event) /\ Len(<<e>>) <= 1 /\ DOMAIN <<e>> = {1} /\ <<e>>[1] = e
  BY <1>15
<1>17. PICK evs : evs = <<e>> \o Correction(known)
  OBVIOUS
<1>18. /\ Correction(known) \in Seq(Event) /\ Len(Correction(known)) <= 1
       /\ \A k \in DOMAIN Correction(known) :
            /\ Correction(known)[k].type = "corrected"
            /\ \E d \in Asked : Correction(known)[k].version = Version(d, known[d])
  BY <1>0, <1>14, Corrects
<1>19. /\ evs \in Seq(Event) /\ Len(evs) <= 2
       /\ 1 \in DOMAIN evs /\ evs[1] = e
       /\ \A k \in DOMAIN evs : evs[k] = e \/ /\ evs[k].type = "corrected"
                                              /\ \E d \in Asked : evs[k].version = Version(d, known[d])
  <2>1. /\ evs \in Seq(Event) /\ Len(evs) <= 2
        /\ \A k \in DOMAIN evs : (\E i \in DOMAIN <<e>> : evs[k] = <<e>>[i])
                                       \/ \E i \in DOMAIN Correction(known) : evs[k] = Correction(known)[i]
        /\ \A i \in DOMAIN <<e>> : i \in DOMAIN evs /\ evs[i] = <<e>>[i]
    BY <1>16, <1>17, <1>18, Joined
  <2>2. QED
    BY <1>16, <1>18, <2>1
<1>20. PICK again, forb : again = TRUE /\ again \in BOOLEAN /\ forb = {old} /\ forb \in SUBSET Versions
  BY <1>9
<1>21. Added(new, again, forb, evs, known)
  <2>0. AddTask(new, again, forb, <<e>>, known)
    BY <1>11, <1>20
  <2>1. Added(new, again, forb, <<e>> \o Correction(known), known)
    BY <1>0, <1>9, <1>14, <1>16, <1>20, <2>0, Adding
  <2>2. QED
    BY <1>17, <2>1
<1>22. Shape'
  BY <1>0, <1>1, <1>9, <1>13, <1>20, <1>21, AddedShape
<1>23. InPlace'
  BY <1>0, <1>1, <1>9, <1>20, <1>21, AddedPlace
<1>24. /\ supersededAt'[old] = n /\ validFrom'[new] = n
       /\ \A v \in Versions : (v # old => supersededAt'[v] = supersededAt[v]) /\ (v # new => validFrom'[v] = validFrom[v])
  BY <1>9, <1>11, <1>12
<1>25. supersededAt[old] = Never /\ validFrom[new] = Never /\ validFrom[old] = 1 /\ supersededAt[new] = Never
  BY <1>0, <1>5, <1>9, <1>10 DEF Validity, Replaced
<1>26. /\ Replaced(doc)'
       /\ \A d \in Docs : d # doc => /\ supersededAt'[Version(d, 1)] = supersededAt[Version(d, 1)]
                                     /\ supersededAt'[Version(d, 2)] = supersededAt[Version(d, 2)]
                                     /\ validFrom'[Version(d, 1)] = validFrom[Version(d, 1)]
                                     /\ validFrom'[Version(d, 2)] = validFrom[Version(d, 2)]
                                     /\ Replaced(d)' <=> Replaced(d)
  <2>1. supersededAt'[Version(doc, 1)] = n
    BY <1>5, <1>24
  <2>2. Replaced(doc)'
    BY <1>8, <2>1 DEF Replaced, Never
  <2>3. ASSUME NEW d \in Docs, d # doc
        PROVE /\ Version(d, 1) \in Versions /\ Version(d, 2) \in Versions
              /\ Version(d, 1) # old /\ Version(d, 2) # new /\ Version(d, 1) # new /\ Version(d, 2) # old
    BY <1>5, <2>3, VersionPairs
  <2>4. QED
    BY <1>24, <2>2, <2>3 DEF Replaced
<1>27. Asked \subseteq Docs
  BY <1>0, AskedIsDocs
<1>28. \A d \in Asked : known[d] = IF Replaced(d)' THEN 2 ELSE 1
  BY <1>0, <1>14, <1>26, <1>27 DEF Remembered
<1>29. Remembered'
  <2>1. new[1] \in Asked /\ (history = <<>> => new[1] = Anchor)
    BY <1>2, <1>9, <1>10
  <2>2. new[2] = IF Replaced(new[1])' THEN 2 ELSE 1
    BY <1>9, <1>26
  <2>3. \A d \in Asked : d # new[1] => known[d] = IF Replaced(d)' THEN 2 ELSE 1
    BY <1>28
  <2>4. QED
    BY <1>0, <1>1, <1>9, <1>13, <1>20, <1>21, <2>1, <2>2, <2>3, AddedMemory
<1>30. Validity'
  <2>1. Len(tasks') = n /\ Len(history') = Len(history) + 1 /\ Len(history) \in Nat /\ session' = session
    BY <1>0, <1>3, <1>21, Domains DEF Added
  <2>2. history' # <<>>
    BY <2>1
  <2>3. ASSUME NEW d \in Docs
        PROVE  /\ validFrom'[Version(d, 1)] = 1 /\ supersededAt'[Version(d, 2)] = Never
               /\ validFrom'[Version(d, 2)] = supersededAt'[Version(d, 1)]
               /\ supersededAt'[Version(d, 1)] <= n
    <3>1. CASE d = doc
      BY <1>5, <1>8, <1>9, <1>24, <1>25, <3>1
    <3>2. CASE d # doc
      <4>1. /\ validFrom[Version(d, 1)] = 1 /\ supersededAt[Version(d, 2)] = Never
            /\ validFrom[Version(d, 2)] = supersededAt[Version(d, 1)]
            /\ supersededAt[Version(d, 1)] <= Len(tasks) /\ supersededAt[Version(d, 1)] \in Nat
        BY <1>0, <1>12, VersionPairs DEF Validity
      <4>2. QED
        BY <1>3, <1>8, <1>26, <3>2, <4>1
    <3>3. QED
      BY <3>1, <3>2
  <2>4. ASSUME NEW j \in DOMAIN Anchors, Replaced(Anchors[j])' PROVE j < session \/ j = session
    <3>1. Anchors[j] \in Docs
      BY DEF Docs
    <3>2. CASE Anchors[j] = doc
      BY <1>2, <1>4, <3>2, Distinct DEF Anchor
    <3>3. CASE Anchors[j] # doc
      BY <1>0, <1>26, <2>4, <3>1, <3>3 DEF Validity
    <3>4. QED
      BY <3>2, <3>3
  <2>5. ASSUME NEW j \in DOMAIN Stable PROVE ~Replaced(Stable[j])'
    <3>1. Stable[j] \in Docs /\ Stable[j] # doc
      BY <1>2, <1>4, Distinct DEF Docs, Anchor
    <3>2. QED
      BY <1>0, <1>26, <3>1 DEF Validity
  <2>6. QED
    BY <2>1, <2>2, <2>3, <2>4, <2>5 DEF Validity
<1>31. \A v \in Versions : \A i \in DOMAIN tasks :
         (ActiveAt(v, i)' <=> ActiveAt(v, i)) /\ (supersededAt[v] = i => supersededAt'[v] = i)
  <2>1. SUFFICES ASSUME NEW v \in Versions, NEW i \in DOMAIN tasks
                 PROVE  (ActiveAt(v, i)' <=> ActiveAt(v, i)) /\ (supersededAt[v] = i => supersededAt'[v] = i)
    OBVIOUS
  <2>2. i \in Nat /\ i < n /\ i # Never
    BY <1>3, <1>8 DEF Never
  <2>3. CASE v = old
    BY <1>9, <1>24, <1>25, <2>2, <2>3 DEF ActiveAt, Never
  <2>4. CASE v = new
    <3>1. ~ActiveAt(v, i)
      BY <1>25, <2>4 DEF ActiveAt
    <3>2. ~ActiveAt(v, i)'
      BY <1>8, <1>24, <2>2, <2>4 DEF ActiveAt
    <3>3. supersededAt[v] # i
      BY <1>25, <2>2, <2>4
    <3>4. QED
      BY <3>1, <3>2, <3>3
  <2>5. CASE v # old /\ v # new
    BY <1>24, <2>5 DEF ActiveAt
  <2>6. QED
    BY <2>3, <2>4, <2>5
<1>32. \A d \in Docs : \A m \in {1, 2} : m = (IF Replaced(d)' THEN 2 ELSE 1) => ActiveAt(Version(d, m), n)'
  <2>1. SUFFICES ASSUME NEW d \in Docs, NEW m \in {1, 2}, m = (IF Replaced(d)' THEN 2 ELSE 1)
                 PROVE  ActiveAt(Version(d, m), n)'
    OBVIOUS
  <2>2. Len(tasks') = n
    BY <1>3, <1>21 DEF Added
  <2>3. /\ validFrom'[Version(d, 1)] = 1 /\ supersededAt'[Version(d, 2)] = Never
        /\ validFrom'[Version(d, 2)] = supersededAt'[Version(d, 1)]
        /\ supersededAt'[Version(d, 1)] <= n /\ supersededAt'[Version(d, 1)] \in Nat
    BY <1>13, <1>30, <2>2, VersionPairs DEF Validity, Version
  <2>4. CASE d = doc
    BY <1>5, <1>8, <1>24, <1>26, <2>1, <2>3, <2>4 DEF ActiveAt, Never, Version
  <2>5. CASE d # doc
    <3>1. ActiveAt(Version(d, Latest(d)), Len(tasks) + 1)
      BY <1>0, LatestIsActive
    <3>2. m = Latest(d) /\ (m = 1 \/ m = 2)
      BY <1>26, <2>1, <2>5 DEF Latest
    <3>3. ActiveAt(Version(d, m), n)
      BY <1>3, <3>1, <3>2
    <3>4. QED
      BY <1>26, <2>5, <3>2, <3>3 DEF ActiveAt, Version
  <2>6. QED
    BY <2>4, <2>5
<1>33. \A i \in DOMAIN tasks' : Truthful(i)'
  <2>1. ActiveAt(new, n)'
    <3>1. ActiveAt(Version(doc, 2), n)'
      BY <1>9, <1>26, <1>32
    <3>2. QED
      BY <1>5, <3>1 DEF ActiveAt, Version
  <2>2. \A v \in forb : ~ActiveAt(v, n)'
    BY <1>8, <1>20, <1>24 DEF ActiveAt, Never
  <2>3. ASSUME NEW k \in DOMAIN evs
        PROVE  /\ evs[k].type = "corrected" => ActiveAt(evs[k].version, n)'
               /\ evs[k].type = "validity_changed" =>
                    evs[k].version[2] = 1 /\ supersededAt'[evs[k].version] = n
    <3>1. CASE evs[k] = e
      BY <1>9, <1>15, <1>24, <3>1
    <3>2. CASE evs[k] # e
      <4>1. evs[k].type = "corrected"
        BY <1>19, <3>2
      <4>2. PICK d \in Asked : evs[k].version = Version(d, known[d])
        BY <1>19, <3>2
      <4>3. ActiveAt(Version(d, known[d]), n)'
        BY <1>14, <1>27, <1>28, <1>32
      <4>4. QED
        BY <4>1, <4>2, <4>3 DEF ActiveAt, Version
    <3>3. QED
      BY <3>1, <3>2
  <2>4. again <=> new[1] \in Asked
    BY <1>9, <1>10, <1>20
  <2>5. new \in Versions /\ again \in BOOLEAN /\ forb \in SUBSET Versions /\ evs \in Seq(Event) /\ Len(evs) <= 2
    BY <1>9, <1>19, <1>20
  <2>6. Shape /\ InPlace /\ \A i \in DOMAIN tasks : Truthful(i)
    BY <1>0
  <2>7. \A k \in DOMAIN evs :
          /\ evs[k].type = "corrected" => ActiveAt(evs[k].version, n)'
          /\ evs[k].type = "validity_changed" =>
               evs[k].version[2] = 1 /\ supersededAt'[evs[k].version] = n
    BY <2>3
  <2>8. QED
    BY <1>3, <1>21, <1>31, <2>1, <2>2, <2>4, <2>5, <2>6, <2>7, AddedTruth
<1>34. Announced'
  <2>1. \A d \in Docs : Replaced(d) => supersededAt'[Version(d, 1)] = supersededAt[Version(d, 1)]
    BY <1>10, <1>26
  <2>2. ASSUME NEW d \in Docs, Replaced(d)', ~Replaced(d)
        PROVE  /\ supersededAt'[Version(d, 1)] = n
               /\ \E k \in DOMAIN evs : evs[k].type = "validity_changed" /\ evs[k].version = Version(d, 1)
    <3>1. d = doc
      BY <1>26, <2>2
    <3>2. QED
      BY <1>5, <1>15, <1>19, <1>24, <3>1
  <2>3. \A d \in Docs : Replaced(d)' /\ ~Replaced(d) =>
          /\ supersededAt'[Version(d, 1)] = n
          /\ \E k \in DOMAIN evs : evs[k].type = "validity_changed" /\ evs[k].version = Version(d, 1)
    BY <2>2
  <2>4. new \in Versions /\ again \in BOOLEAN /\ forb \in SUBSET Versions
    BY <1>9, <1>20
  <2>5. Shape /\ Validity /\ Announced
    BY <1>0
  <2>6. Notified(evs, n)
    BY <2>1, <2>3 DEF Notified
  <2>7. QED
    BY <1>3, <1>21, <2>4, <2>5, <2>6, AddedNotice
<1>35. Counted'
  <2>1. stableCursor' = stableCursor + (IF again \/ history = <<>> THEN 0 ELSE 1)
    BY <1>11, <1>12, <1>20
  <2>2. again <=> Position \in flags
    BY <1>1, <1>20
  <2>3. QED
    BY <1>0, <1>1, <1>9, <1>20, <1>21, <2>1, <2>2, AddedCounts
<1>36. QED
  BY <1>22, <1>23, <1>29, <1>30, <1>33, <1>34, <1>35 DEF ScheduleInv

(***************************************************************************)
(* A session is opened, and the schedule as a whole.                       *)
(***************************************************************************)
LEMMA OpenSessionKeeps == ScheduleInv /\ OpenSession => ScheduleInv'
<1> SUFFICES ASSUME ScheduleInv, OpenSession PROVE ScheduleInv'
  OBVIOUS
<1>0. Shape /\ InPlace /\ Validity /\ Remembered /\ Announced /\ Counted /\ (\A i \in DOMAIN tasks : Truthful(i))
  BY DEF ScheduleInv
<1>1. /\ SessionCount \in Nat \ {0} /\ SessionLength \in Nat \ {0}
  BY Shares
<1>2. /\ session \in 0 .. SessionCount - 1 /\ session' = session + 1 /\ current' = NoDocs /\ history' = <<>>
      /\ tasks' = tasks /\ stableCursor' = stableCursor /\ validFrom' = validFrom /\ supersededAt' = supersededAt
      /\ flags' \in SUBSET (2 .. SessionLength) /\ Cardinality(flags') = RepeatAllocation(session + 1)
  BY <1>0, <1>1 DEF OpenSession, Shape, kSubset
<1>3. DOMAIN tasks = 1 .. Len(tasks) /\ Len(tasks) \in Nat /\ DOMAIN history = 1 .. Len(history) /\ Len(history) \in Nat
      /\ Base \in Nat /\ Reused \in SUBSET (1 .. Len(tasks))
  BY <1>0, Domains
<1>4. Len(history') = 0 /\ DOMAIN history' = {} /\ Asked' = {} /\ Base' = Len(tasks) /\ Reused' = Reused
  <2>1. Len(history') = 0 /\ DOMAIN history' = {}
    BY <1>2
  <2>2. QED
    BY <1>2, <1>3, <2>1 DEF Asked, Base, Reused
<1>5. /\ (session = 0 => tasks = <<>> /\ stableCursor = 0)
      /\ (session # 0 => Len(history) = SessionLength)
      /\ stableCursor \in Nat
  BY <1>0 DEF OpenSession, Shape, SessionFull
<1>6. Shape'
  <2>1. session' \in 0 .. SessionCount /\ session' # 0
    BY <1>1, <1>2
  <2>2. history' \in Seq(Versions) /\ Len(history') <= SessionLength /\ Len(history') <= Len(tasks')
    BY <1>1, <1>2, <1>3, <1>4
  <2>3. current' \in [Asked' -> {1, 2}]
    BY <1>2, <1>4 DEF NoDocs
  <2>4. QED
    BY <1>0, <1>2, <2>1, <2>2, <2>3 DEF Shape
<1>7. \A i \in DOMAIN tasks : tasks[i].session < session + 1
  <2>1. ASSUME NEW i \in DOMAIN tasks PROVE tasks[i].session < session + 1
    <3>1. CASE i <= Base
      <4>1. tasks[i] \in TaskRow
        BY <1>0 DEF Shape
      <4>2. tasks[i].session \in Nat
        BY <4>1 DEF TaskRow
      <4>3. tasks[i].session < session
        BY <1>0, <1>3, <3>1 DEF InPlace
      <4>4. QED
        BY <1>2, <4>2, <4>3
    <3>2. CASE ~(i <= Base)
      <4>1. tasks[i].session = session
        BY <1>0, <1>3, <3>2 DEF InPlace
      <4>2. QED
        BY <1>2, <4>1
    <3>3. QED
      BY <3>1, <3>2
  <2>2. QED
    BY <2>1
<1>8. InPlace'
  BY <1>0, <1>2, <1>3, <1>4, <1>7 DEF InPlace
<1>9. Validity'
  <2>1. \A j \in DOMAIN Anchors : Replaced(Anchors[j]) => j < session + 1
    <3>1. ASSUME NEW j \in DOMAIN Anchors, Replaced(Anchors[j]) PROVE j < session + 1
      <4>1. j < session \/ j = session
        BY <1>0, <3>1 DEF Validity
      <4>2. j \in Nat
        BY ScheduleAssumption, LenProperties
      <4>3. QED
        BY <1>2, <4>1, <4>2
    <3>2. QED
      BY <3>1
  <2>2. QED
    BY <1>0, <1>2, <2>1 DEF Validity, Replaced
<1>10. Remembered'
  BY <1>2, <1>4 DEF Remembered
<1>11. \A i \in DOMAIN tasks' : Truthful(i)'
  BY <1>0, <1>2 DEF Truthful, ActiveAt, AskedBefore
<1>12. Announced'
  BY <1>0, <1>2 DEF Announced, Replaced
<1>13. Counted'
  <2>1. flags' \cap (1 .. Len(history')) = {} /\ Cardinality(flags' \cap (1 .. Len(history'))) = 0
    <3>1. flags' \cap (1 .. Len(history')) = {}
      BY <1>4
    <3>2. QED
      BY <3>1, FS_EmptySet
  <2>2. Started' = session
    BY <1>2 DEF Started
  <2>3. CASE session = 0
    <3>1. Len(tasks) = 0 /\ Reused = {} /\ Cardinality(Reused) = 0
      <4>1. Len(tasks) = 0
        BY <1>5, <2>3
      <4>2. Reused = {}
        BY <1>3, <4>1
      <4>3. QED
        BY <4>1, <4>2, FS_EmptySet
    <3>2. (session' - 1) * SessionLength = 0 /\ session' - 1 = 0 /\ session' = 1
      BY <1>1, <1>2, <2>3
    <3>3. Allotted(session' - 1) = 0
      BY <3>2, Allotments
    <3>4. Len(tasks') = 0 /\ Cardinality(Reused') = 0 /\ Cardinality(flags') = RepeatAllocation(session')
          /\ stableCursor' = 0 /\ Started' = 0
      BY <1>2, <1>4, <1>5, <2>2, <2>3, <3>1
    <3>5. QED
      BY <1>4, <2>1, <3>2, <3>3, <3>4 DEF Counted
  <2>4. CASE session # 0
    <3>1. /\ Len(tasks) = (session - 1) * SessionLength + SessionLength
          /\ Cardinality(flags) = RepeatAllocation(session)
          /\ Cardinality(Reused) = Allotted(session - 1) + Cardinality(flags \cap (1 .. Len(history)))
          /\ stableCursor + Cardinality(Reused) + Started = Len(tasks)
      BY <1>0, <1>2, <1>5, <2>4 DEF Counted
    <3>2. Started = session
      BY <1>1, <1>3, <1>5, <2>4 DEF Started
    <3>3. flags \cap (1 .. Len(history)) = flags
      <4>1. \A x \in flags : x \in 2 .. SessionLength
        BY <1>0 DEF Shape
      <4>2. \A x \in flags : x \in 1 .. Len(history)
        BY <1>1, <1>5, <2>4, <4>1
      <4>3. QED
        BY <4>2
    <3>4. Cardinality(flags \cap (1 .. Len(history))) = RepeatAllocation(session)
      BY <3>1, <3>3
    <3>5. session - 1 \in Nat /\ (session - 1) + 1 = session
      BY <1>2, <2>4
    <3>6. Allotted((session - 1) + 1) = Allotted(session - 1) + RepeatAllocation((session - 1) + 1)
      BY <3>5, Allotments
    <3>7. Allotted(session) = Allotted(session - 1) + RepeatAllocation(session) /\ Allotted(session) \in Nat
      BY <1>2, <3>5, <3>6, Allotments
    <3>8. Cardinality(Reused) = Allotted(session)
      BY <3>1, <3>4, <3>7
    <3>9. (session - 1) * SessionLength + SessionLength = session * SessionLength
      BY <1>1, <1>2
    <3>10. session' - 1 = session
      BY <1>2
    <3>11. Allotted(session' - 1) = Allotted(session)
      BY <3>10
    <3>12. /\ Len(tasks') = (session' - 1) * SessionLength + Len(history')
      <4>1. session * SessionLength \in Int
        BY <1>1, <1>2
      <4>2. QED
        BY <1>2, <1>4, <3>1, <3>9, <3>10, <4>1
    <3>13. Cardinality(Reused') = Allotted(session' - 1) + Cardinality(flags' \cap (1 .. Len(history')))
      BY <1>4, <2>1, <3>7, <3>8, <3>11
    <3>14. stableCursor' + Cardinality(Reused') + Started' = Len(tasks') /\ Cardinality(flags') = RepeatAllocation(session')
      BY <1>2, <1>4, <2>2, <3>1, <3>2
    <3>15. QED
      BY <3>12, <3>13, <3>14 DEF Counted
  <2>5. QED
    BY <2>3, <2>4
<1>14. QED
  BY <1>6, <1>8, <1>9, <1>10, <1>11, <1>12, <1>13 DEF ScheduleInv

LEMMA ScheduleStarts == ScheduleInit => ScheduleInv
<1> SUFFICES ASSUME ScheduleInit PROVE ScheduleInv
  OBVIOUS
<1>1. /\ tasks = <<>> /\ session = 0 /\ flags = {} /\ current = NoDocs
      /\ history = <<>> /\ stableCursor = 0
      /\ validFrom = [v \in Versions |-> IF v[2] = 1 THEN 1 ELSE Never]
      /\ supersededAt = [v \in Versions |-> Never]
  BY DEF ScheduleInit
<1>2. Len(tasks) = 0 /\ DOMAIN tasks = {} /\ Len(history) = 0 /\ DOMAIN history = {} /\ Asked = {} /\ Base = 0
  BY <1>1 DEF Asked, Base
<1>3. Shape
  <2>1. tasks \in Seq(TaskRow) /\ history \in Seq(Versions)
    BY <1>1
  <2>2. current \in [Asked -> {1, 2}]
    BY <1>1, <1>2 DEF NoDocs
  <2>3. validFrom \in [Versions -> Nat] /\ supersededAt \in [Versions -> Nat]
    BY <1>1 DEF Never
  <2>4. session \in 0 .. SessionCount /\ Len(history) <= SessionLength
    BY <1>1, <1>2, Shares
  <2>5. QED
    BY <1>1, <1>2, <2>1, <2>2, <2>3, <2>4 DEF Shape
<1>4. InPlace
  BY <1>2 DEF InPlace
<1>5. \A d \in Docs : /\ validFrom[Version(d, 1)] = 1 /\ validFrom[Version(d, 2)] = Never
                      /\ supersededAt[Version(d, 1)] = Never /\ supersededAt[Version(d, 2)] = Never
  <2>1. ASSUME NEW d \in Docs
        PROVE  /\ validFrom[Version(d, 1)] = 1 /\ validFrom[Version(d, 2)] = Never
               /\ supersededAt[Version(d, 1)] = Never /\ supersededAt[Version(d, 2)] = Never
    <3>1. Version(d, 1) \in Versions /\ Version(d, 2) \in Versions /\ Version(d, 1)[2] = 1 /\ Version(d, 2)[2] = 2
      BY DEF Version, Versions
    <3>2. QED
      BY <1>1, <3>1
  <2>2. QED
    BY <2>1
<1>6. \A d \in Docs : ~Replaced(d)
  BY <1>5 DEF Replaced
<1>7. Validity
  BY <1>2, <1>5, <1>6 DEF Validity, Never, Docs
<1>8. QED
  BY <1>1, <1>2, <1>3, <1>4, <1>6, <1>7 DEF ScheduleInv, Remembered, Announced, Counted

LEMMA ScheduleKeeps == ScheduleInv /\ [ScheduleNext]_scheduleVars => ScheduleInv'
<1> SUFFICES ASSUME ScheduleInv, [ScheduleNext]_scheduleVars PROVE ScheduleInv'
  OBVIOUS
<1>1. CASE OpenSession
  BY <1>1, OpenSessionKeeps
<1>2. CASE FirstTask
  BY <1>2, FirstTaskKeeps
<1>3. CASE SupersedeAnchor
  BY <1>3, SupersedeKeeps
<1>4. CASE RepeatTask
  BY <1>4, RepeatTaskKeeps
<1>5. CASE NewTask
  BY <1>5, NewTaskKeeps
<1>6. CASE UNCHANGED scheduleVars
  BY <1>6 DEF scheduleVars, ScheduleInv, Shape, InPlace, Validity, Remembered, Truthful, Announced, Counted,
              Asked, Base, Replaced, Reused, Started, Anchor, ActiveAt, AskedBefore
<1>7. QED
  BY <1>1, <1>2, <1>3, <1>4, <1>5, <1>6 DEF ScheduleNext

\* A finished schedule stays as it is.
LEMMA NothingAfterDone == ScheduleInv /\ ScheduleDone => ~ScheduleNext
BY Shares DEF ScheduleDone, SessionFull, ScheduleInv, Shape, ScheduleNext, OpenSession, FirstTask,
              SupersedeAnchor, RepeatTask, NewTask, InSession

(***************************************************************************)
(* Chunks and their identities.                                            *)
(***************************************************************************)
AllChunks == UNION {ChunksOf(v) : v \in Versions}
SameChunk(c, e) == c.doc = e.doc /\ c.boundary = e.boundary

LEMMA ChunkFacts ==
  /\ \A v \in Versions : \A b \in Boundaries[v] : Chunk(v, b) \in ChunksOf(v)
  /\ \A v \in Versions : \A c \in ChunksOf(v) :
       c \in AllChunks /\ c.doc = v[1] /\ c.n = v[2] /\ c.boundary \in Boundaries[v]
  /\ \A c \in AllChunks :
       c.doc \in Docs /\ c.n \in {1, 2} /\ c.boundary \in Boundaries[Version(c.doc, c.n)] /\ c # Unserved
  /\ \A v \in Versions : \A c \in AllChunks : c.doc = v[1] /\ c.n = v[2] => c \in ChunksOf(v)
  /\ \A c, e \in AllChunks : Identity(c) = Identity(e) <=> SameChunk(c, e)
  /\ \A c, e \in AllChunks : SameChunk(c, e) /\ c.n = e.n => c = e
<1>1. ASSUME NEW v \in Versions, NEW b
      PROVE  /\ Chunk(v, b).doc = v[1] /\ Chunk(v, b).n = v[2] /\ Chunk(v, b).boundary = b
             /\ Chunk(v, b) # Unserved
  <2>1. DOMAIN Chunk(v, b) = {"doc", "n", "boundary"}
    BY DEF Chunk
  <2>2. DOMAIN Unserved = {"doc"}
    BY DEF Unserved
  <2>3. "n" \in DOMAIN Chunk(v, b) /\ "n" \notin DOMAIN Unserved
    BY <2>1, <2>2
  <2>4. Chunk(v, b).doc = v[1] /\ Chunk(v, b).n = v[2] /\ Chunk(v, b).boundary = b
    BY DEF Chunk
  <2>5. QED
    BY <2>3, <2>4
<1>2. \A v \in Versions : \A b \in Boundaries[v] : Chunk(v, b) \in ChunksOf(v)
  BY DEF ChunksOf
<1>3. ASSUME NEW v \in Versions, NEW c \in ChunksOf(v)
      PROVE  /\ c \in AllChunks /\ c.doc = v[1] /\ c.n = v[2] /\ c.boundary \in Boundaries[v] /\ c # Unserved
             /\ c = Chunk(v, c.boundary)
  <2>1. PICK b \in Boundaries[v] : c = Chunk(v, b)
    BY DEF ChunksOf
  <2>2. c \in AllChunks
    BY DEF AllChunks
  <2>3. QED
    BY <1>1, <2>1, <2>2
<1>4. ASSUME NEW c \in AllChunks
      PROVE  /\ c.doc \in Docs /\ c.n \in {1, 2} /\ c.boundary \in Boundaries[Version(c.doc, c.n)] /\ c # Unserved
             /\ Version(c.doc, c.n) \in Versions /\ c = Chunk(Version(c.doc, c.n), c.boundary)
  <2>1. PICK v \in Versions : c \in ChunksOf(v)
    BY DEF AllChunks
  <2>2. PICK d \in Docs, m \in {1, 2} : v = <<d, m>>
    BY DEF Versions
  <2>3. v[1] = d /\ v[2] = m
    BY <2>2
  <2>4. c.doc = d /\ c.n = m /\ c.boundary \in Boundaries[v] /\ c # Unserved /\ c = Chunk(v, c.boundary)
    BY <1>3, <2>1, <2>3
  <2>5. Version(c.doc, c.n) = v
    BY <2>2, <2>4 DEF Version
  <2>6. QED
    BY <2>4, <2>5
<1>5. ASSUME NEW v \in Versions, NEW c \in AllChunks, c.doc = v[1], c.n = v[2] PROVE c \in ChunksOf(v)
  <2>1. Version(c.doc, c.n) = v
    BY <1>5 DEF Version, Versions
  <2>2. c.boundary \in Boundaries[v] /\ c = Chunk(v, c.boundary)
    BY <1>4, <2>1
  <2>3. QED
    BY <1>2, <2>2
<1>6. \A c, e \in AllChunks : Identity(c) = Identity(e) <=> SameChunk(c, e)
  BY DEF Identity, SameChunk
<1>7. ASSUME NEW c \in AllChunks, NEW e \in AllChunks, SameChunk(c, e), c.n = e.n PROVE c = e
  BY <1>4, <1>7 DEF SameChunk
<1>8. QED
  BY <1>2, <1>3, <1>4, <1>5, <1>6, <1>7

(***************************************************************************)
(* What an index is at every commit, and what of it a search can reach.    *)
(***************************************************************************)
Kept(ix) ==
  /\ DOMAIN ix = {"current", "rows", "invalidated", "supersededBy"}
  /\ \A i \in DOMAIN ix.current :
       ix.current[i] = Unserved \/ (ix.current[i] \in AllChunks /\ Identity(ix.current[i]) = i)
  /\ ix.rows = Searchable(ix) \cup ix.invalidated
  /\ ix.invalidated \in SUBSET AllChunks
  /\ \A c \in ix.invalidated : c.n = 1
  /\ Searchable(ix) \cap ix.invalidated = {}
  /\ \A link \in ix.supersededBy :
       link[1] \in ix.invalidated /\ Identity(link[1]) = Identity(link[2]) /\ link[1].n < link[2].n

LEMMA Reached ==
  ASSUME NEW ix, Kept(ix)
  PROVE  /\ Searchable(ix) \in SUBSET AllChunks
         /\ \A c \in Searchable(ix) : Current(ix, Identity(c)) = c
         /\ \A i : Current(ix, i) = Unserved
                   \/ (Current(ix, i) \in Searchable(ix) /\ Identity(Current(ix, i)) = i)
<1>1. \A i \in DOMAIN ix.current :
        ix.current[i] = Unserved \/ (ix.current[i] \in AllChunks /\ Identity(ix.current[i]) = i)
  BY DEF Kept
<1>2. \A c : c \in Searchable(ix) <=> c # Unserved /\ \E i \in DOMAIN ix.current : c = ix.current[i]
  BY DEF Searchable
<1>3. QED
  BY <1>1, <1>2 DEF Current

\* The part of a set of chunks that other chunks do not replace.
Beside(served, chunks) == {c \in served : \A e \in chunks : ~SameChunk(c, e)}

LEMMA Inserted ==
  ASSUME NEW ix, Kept(ix), NEW chunks \in SUBSET AllChunks,
         \A c, e \in chunks : SameChunk(c, e) => c = e,
         \A c \in Searchable(ix) : \A e \in chunks : SameChunk(c, e) => c = e \/ (c.n = 1 /\ e.n = 2),
         chunks \cap ix.invalidated = {}
  PROVE  /\ Kept(InsertLiveChunks(ix, chunks))
         /\ Searchable(InsertLiveChunks(ix, chunks)) = Beside(Searchable(ix), chunks) \cup chunks
<1> DEFINE old(chunk) == Current(ix, Identity(chunk))
           newer == {chunk \in chunks : old(chunk) \notin {Unserved, chunk}}
           retired == {old(chunk) : chunk \in newer}
           here == {Identity(chunk) : chunk \in chunks}
           live == [i \in here |-> CHOOSE c \in chunks : Identity(c) = i]
<1>1. PICK new : new = InsertLiveChunks(ix, chunks)
  OBVIOUS
<1>2. /\ new.current = Updated(ix.current, live)
      /\ new.rows = ix.rows \cup chunks
      /\ new.invalidated = ix.invalidated \cup retired
      /\ new.supersededBy = {link \in ix.supersededBy : link[1] \notin retired}
                            \cup {<<old(chunk), chunk>> : chunk \in newer}
      /\ DOMAIN new = {"current", "rows", "invalidated", "supersededBy"}
  BY <1>1 DEF InsertLiveChunks
<1>3. /\ \A c \in chunks : Identity(c) \in here
      /\ \A i \in here : live[i] \in chunks /\ Identity(live[i]) = i
      /\ DOMAIN live = here
  OBVIOUS
<1>4. \A c \in chunks : live[Identity(c)] = c
  BY <1>3, ChunkFacts
<1>5. /\ DOMAIN new.current = DOMAIN ix.current \cup here
      /\ \A i \in here : new.current[i] = live[i]
      /\ \A i \in DOMAIN ix.current : i \notin here => new.current[i] = ix.current[i]
  BY <1>2, <1>3 DEF Updated
<1>6. /\ Searchable(ix) \in SUBSET AllChunks
      /\ \A c \in Searchable(ix) : old(c) = c
      /\ \A c : old(c) = Unserved \/ (old(c) \in Searchable(ix) /\ Identity(old(c)) = Identity(c))
  BY Reached
<1>7. \A c \in AllChunks : Identity(c) \in here <=> \E e \in chunks : SameChunk(c, e)
  BY ChunkFacts
<1>8. /\ \A c : c \in Searchable(ix) <=> c # Unserved /\ \E i \in DOMAIN ix.current : c = ix.current[i]
      /\ \A c : c \in Searchable(new) <=> c # Unserved /\ \E i \in DOMAIN new.current : c = new.current[i]
  BY DEF Searchable
<1>9. /\ \A i \in DOMAIN ix.current :
           ix.current[i] = Unserved \/ (ix.current[i] \in AllChunks /\ Identity(ix.current[i]) = i)
      /\ ix.rows = Searchable(ix) \cup ix.invalidated
      /\ ix.invalidated \in SUBSET AllChunks /\ \A c \in ix.invalidated : c.n = 1
      /\ Searchable(ix) \cap ix.invalidated = {}
      /\ \A link \in ix.supersededBy :
           link[1] \in ix.invalidated /\ Identity(link[1]) = Identity(link[2]) /\ link[1].n < link[2].n
  BY DEF Kept
<1>10. /\ \A c \in newer : c \in chunks /\ old(c) \in Searchable(ix) /\ SameChunk(old(c), c) /\ old(c).n = 1 /\ c.n = 2
                           /\ Identity(old(c)) = Identity(c)
       /\ \A c \in chunks : c \notin newer => old(c) = Unserved \/ old(c) = c
  BY <1>6, ChunkFacts
<1>11. \A r \in retired : r \in Searchable(ix) /\ r.n = 1 /\ \E c \in chunks : SameChunk(r, c) /\ r # c
  BY <1>10
<1>12. \A c \in Searchable(ix) : c \in Beside(Searchable(ix), chunks) \/ c \in chunks \/ c \in retired
  <2>1. ASSUME NEW c \in Searchable(ix), NEW e \in chunks, SameChunk(c, e), c # e PROVE c \in retired
    <3>1. Identity(c) = Identity(e)
      BY <1>6, <2>1, ChunkFacts
    <3>2. old(e) = c
      BY <1>6, <3>1
    <3>3. e \in newer
      BY <1>6, <2>1, <3>2, ChunkFacts
    <3>4. QED
      BY <3>2, <3>3
  <2>2. QED
    BY <2>1 DEF Beside
<1> HIDE DEF live, here, newer, retired, old
<1>13. ASSUME NEW c PROVE c \in Searchable(new) <=> c \in Beside(Searchable(ix), chunks) \/ c \in chunks
  <2>1. ASSUME c \in Searchable(new) PROVE c \in Beside(Searchable(ix), chunks) \/ c \in chunks
    <3>1. PICK i \in DOMAIN new.current : c = new.current[i] /\ c # Unserved
      BY <1>8, <2>1
    <3>2. CASE i \in here
      BY <1>3, <1>5, <3>1, <3>2
    <3>3. CASE i \notin here
      <4>1. i \in DOMAIN ix.current /\ c = ix.current[i]
        BY <1>5, <3>1, <3>3
      <4>2. c \in Searchable(ix) /\ Identity(c) = i /\ c \in AllChunks
        BY <1>8, <1>9, <3>1, <4>1
      <4>3. QED
        BY <1>7, <3>3, <4>2 DEF Beside
    <3>4. QED
      BY <3>2, <3>3
  <2>2. ASSUME c \in chunks PROVE c \in Searchable(new)
    <3>1. Identity(c) \in here /\ live[Identity(c)] = c /\ c # Unserved
      BY <1>3, <1>4, <2>2, ChunkFacts
    <3>2. QED
      BY <1>5, <1>8, <3>1
  <2>3. ASSUME c \in Beside(Searchable(ix), chunks) PROVE c \in Searchable(new)
    <3>1. c \in Searchable(ix) /\ c \in AllChunks /\ Identity(c) \notin here
      BY <1>6, <1>7, <2>3 DEF Beside
    <3>2. PICK i \in DOMAIN ix.current : c = ix.current[i] /\ c # Unserved
      BY <1>8, <3>1
    <3>3. i \notin here
      BY <1>9, <3>1, <3>2
    <3>4. QED
      BY <1>5, <1>8, <3>2, <3>3
  <2>4. QED
    BY <2>1, <2>2, <2>3
<1>14. Searchable(new) = Beside(Searchable(ix), chunks) \cup chunks
  BY <1>13
<1>15. \A i \in DOMAIN new.current :
         new.current[i] = Unserved \/ (new.current[i] \in AllChunks /\ Identity(new.current[i]) = i)
  BY <1>3, <1>5, <1>9
<1>16. new.rows = Searchable(new) \cup new.invalidated
  <2>1. \A c : c \in new.rows <=> c \in Searchable(ix) \/ c \in ix.invalidated \/ c \in chunks
    BY <1>2, <1>9
  <2>2. \A c : c \in Searchable(new) \/ c \in new.invalidated
              <=> c \in Beside(Searchable(ix), chunks) \/ c \in chunks \/ c \in ix.invalidated \/ c \in retired
    BY <1>2, <1>14
  <2>3. \A c \in Beside(Searchable(ix), chunks) : c \in Searchable(ix)
    BY DEF Beside
  <2>4. \A c : c \in new.rows <=> c \in Searchable(new) \/ c \in new.invalidated
    BY <1>11, <1>12, <2>1, <2>2, <2>3
  <2>5. QED
    BY <2>4
<1>17. new.invalidated \in SUBSET AllChunks /\ \A c \in new.invalidated : c.n = 1
  BY <1>2, <1>6, <1>9, <1>11
<1>18. Searchable(new) \cap new.invalidated = {}
  <2>1. ASSUME NEW c \in Searchable(new), c \in new.invalidated PROVE FALSE
    <3>1. CASE c \in chunks
      <4>1. c \in retired
        BY <1>2, <2>1, <3>1
      <4>2. PICK e \in chunks : SameChunk(c, e) /\ c # e
        BY <1>11, <4>1
      <4>3. QED
        BY <3>1, <4>2
    <3>2. CASE c \in Beside(Searchable(ix), chunks)
      <4>1. c \in Searchable(ix) /\ \A e \in chunks : ~SameChunk(c, e)
        BY <3>2 DEF Beside
      <4>2. c \in retired
        BY <1>2, <1>9, <2>1, <4>1
      <4>3. QED
        BY <1>11, <4>1, <4>2
    <3>3. QED
      BY <1>14, <3>1, <3>2
  <2>2. QED
    BY <2>1
<1>19. ASSUME NEW link \in new.supersededBy
       PROVE  link[1] \in new.invalidated /\ Identity(link[1]) = Identity(link[2]) /\ link[1].n < link[2].n
  <2>1. CASE link \in ix.supersededBy
    BY <1>2, <1>9, <2>1
  <2>2. CASE \E c \in newer : link = <<old(c), c>>
    <3>1. PICK c \in newer : link = <<old(c), c>>
      BY <2>2
    <3>2. link[1] = old(c) /\ link[2] = c
      BY <3>1
    <3>3. old(c) \in retired
      BY DEF retired
    <3>4. old(c).n = 1 /\ c.n = 2 /\ Identity(old(c)) = Identity(c)
      BY <1>10
    <3>5. QED
      BY <1>2, <3>2, <3>3, <3>4
  <2>3. QED
    BY <1>2, <2>1, <2>2
<1>20. Kept(new)
  BY <1>2, <1>15, <1>16, <1>17, <1>18, <1>19 DEF Kept
<1>21. QED
  BY <1>1, <1>14, <1>20

LEMMA NothingKept == Kept(EmptyIndex) /\ Searchable(EmptyIndex) = {}
<1>1. PICK ix : ix = EmptyIndex
  OBVIOUS
<1>2. DOMAIN ix.current = {} /\ ix.rows = {} /\ ix.invalidated = {} /\ ix.supersededBy = {}
      /\ DOMAIN ix = {"current", "rows", "invalidated", "supersededBy"}
  BY <1>1 DEF EmptyIndex
<1>3. Searchable(ix) = {}
  BY <1>2 DEF Searchable
<1>4. Kept(ix)
  BY <1>2, <1>3 DEF Kept
<1>5. QED
  BY <1>1, <1>3, <1>4

LEMMA Dropped ==
  ASSUME NEW ix, Kept(ix), NEW v \in Versions, v[2] = 2
  PROVE  /\ Kept(DropMissing(ix, v))
         /\ Searchable(DropMissing(ix, v)) =
              {c \in Searchable(ix) : ~(c.doc = v[1] /\ c.boundary \notin Boundaries[v])}
<1> DEFINE gone == {i \in DOMAIN ix.current : i[1] = v[1] /\ i[2] \notin Boundaries[v]}
           lost == {ix.current[i] : i \in gone} \ {Unserved}
<1>1. PICK new : new = DropMissing(ix, v)
  OBVIOUS
<1>2. PICK cur : cur = [i \in DOMAIN ix.current |-> IF i \in gone THEN Unserved ELSE ix.current[i]]
  OBVIOUS
<1>3. new = [ix EXCEPT !.current = cur, !.invalidated = @ \cup lost]
  BY <1>1, <1>2 DEF DropMissing
<1>4. /\ \A i \in DOMAIN ix.current :
           ix.current[i] = Unserved \/ (ix.current[i] \in AllChunks /\ Identity(ix.current[i]) = i)
      /\ ix.rows = Searchable(ix) \cup ix.invalidated
      /\ ix.invalidated \in SUBSET AllChunks /\ \A c \in ix.invalidated : c.n = 1
      /\ Searchable(ix) \cap ix.invalidated = {}
      /\ \A link \in ix.supersededBy :
           link[1] \in ix.invalidated /\ Identity(link[1]) = Identity(link[2]) /\ link[1].n < link[2].n
      /\ DOMAIN ix = {"current", "rows", "invalidated", "supersededBy"}
  BY DEF Kept
<1>5. /\ new.current = cur /\ new.invalidated = ix.invalidated \cup lost
      /\ new.rows = ix.rows /\ new.supersededBy = ix.supersededBy
      /\ DOMAIN new = {"current", "rows", "invalidated", "supersededBy"}
  BY <1>3, <1>4
<1>6. /\ DOMAIN cur = DOMAIN ix.current
      /\ \A i \in DOMAIN ix.current : cur[i] = IF i \in gone THEN Unserved ELSE ix.current[i]
  BY <1>2
<1>7. /\ \A c : c \in Searchable(ix) <=> c # Unserved /\ \E i \in DOMAIN ix.current : c = ix.current[i]
      /\ \A c : c \in Searchable(new) <=> c # Unserved /\ \E i \in DOMAIN new.current : c = new.current[i]
  BY DEF Searchable
<1>8. \A c \in Searchable(ix) :
        c \in AllChunks /\ Identity(c) \in DOMAIN ix.current /\ ix.current[Identity(c)] = c
  BY <1>4, <1>7
<1>9. \A c : Identity(c)[1] = c.doc /\ Identity(c)[2] = c.boundary
  BY DEF Identity
<1>10. \A c \in Searchable(ix) : Identity(c) \in gone <=> c.doc = v[1] /\ c.boundary \notin Boundaries[v]
  BY <1>8, <1>9
<1>11. \A c : c \in lost <=> c \in Searchable(ix) /\ Identity(c) \in gone
  BY <1>4, <1>7, <1>8
<1> HIDE DEF gone, lost
<1>12. \A c : c \in Searchable(new) <=> c \in Searchable(ix) /\ Identity(c) \notin gone
  <2>1. ASSUME NEW c \in Searchable(new) PROVE c \in Searchable(ix) /\ Identity(c) \notin gone
    <3>1. PICK i \in DOMAIN ix.current : c = cur[i] /\ c # Unserved
      BY <1>5, <1>6, <1>7
    <3>2. i \notin gone /\ c = ix.current[i]
      BY <1>6, <3>1
    <3>3. QED
      BY <1>4, <1>7, <3>1, <3>2
  <2>2. ASSUME NEW c \in Searchable(ix), Identity(c) \notin gone PROVE c \in Searchable(new)
    BY <1>5, <1>6, <1>7, <1>8, <2>2
  <2>3. QED
    BY <2>1, <2>2
<1>13. \A i \in DOMAIN new.current :
         new.current[i] = Unserved \/ (new.current[i] \in AllChunks /\ Identity(new.current[i]) = i)
  BY <1>4, <1>5, <1>6
<1>14. \A c : c \in new.rows <=> c \in Searchable(new) \/ c \in new.invalidated
  BY <1>4, <1>5, <1>11, <1>12
<1>15. \A c \in lost : c \in AllChunks /\ c.n = 1
  <2>1. ASSUME NEW c \in lost PROVE c \in AllChunks /\ c.n = 1
    <3>1. c \in AllChunks /\ c.doc = v[1] /\ c.boundary \notin Boundaries[v]
      BY <1>8, <1>10, <1>11
    <3>2. v = Version(v[1], v[2])
      BY VersionPairs
    <3>3. c.n # 2
      BY <3>1, <3>2, ChunkFacts
    <3>4. QED
      BY <3>1, <3>3, ChunkFacts
  <2>2. QED
    BY <2>1
<1>16. Kept(new)
  <2>1. new.rows = Searchable(new) \cup new.invalidated
    BY <1>14
  <2>2. new.invalidated \in SUBSET AllChunks /\ \A c \in new.invalidated : c.n = 1
    BY <1>4, <1>5, <1>15
  <2>3. Searchable(new) \cap new.invalidated = {}
    BY <1>4, <1>5, <1>11, <1>12
  <2>4. \A link \in new.supersededBy :
          link[1] \in new.invalidated /\ Identity(link[1]) = Identity(link[2]) /\ link[1].n < link[2].n
    BY <1>4, <1>5
  <2>5. QED
    BY <1>5, <1>13, <2>1, <2>2, <2>3, <2>4 DEF Kept
<1>17. QED
  BY <1>1, <1>10, <1>12, <1>16

LEMMA Activated ==
  ASSUME NEW ix, Kept(ix), NEW v \in Versions, v[2] = 2
  PROVE  /\ Kept(ActivateDocumentVersion(ix, v))
         /\ Searchable(ActivateDocumentVersion(ix, v)) =
              {c \in Searchable(ix) : c.doc # v[1]} \cup ChunksOf(v)
<1>1. PICK mid : mid = DropMissing(ix, v)
  OBVIOUS
<1>2. Kept(mid) /\ Searchable(mid) = {c \in Searchable(ix) : ~(c.doc = v[1] /\ c.boundary \notin Boundaries[v])}
  BY <1>1, Dropped
<1>3. Searchable(mid) \in SUBSET AllChunks
  BY <1>2, Reached
<1>4. PICK chunks : chunks = ChunksOf(v)
  OBVIOUS
<1>5. \A c : c \in chunks <=> c \in AllChunks /\ c.doc = v[1] /\ c.n = 2
  BY <1>4, ChunkFacts
<1>6. chunks \in SUBSET AllChunks /\ \A c, e \in chunks : SameChunk(c, e) => c = e
  BY <1>5, ChunkFacts
<1>7. \A c \in Searchable(mid) : \A e \in chunks : SameChunk(c, e) => c = e \/ (c.n = 1 /\ e.n = 2)
  BY <1>3, <1>5, ChunkFacts
<1>8. chunks \cap mid.invalidated = {}
  BY <1>2, <1>5 DEF Kept
<1>9. /\ Kept(InsertLiveChunks(mid, chunks))
      /\ Searchable(InsertLiveChunks(mid, chunks)) = Beside(Searchable(mid), chunks) \cup chunks
  BY <1>2, <1>6, <1>7, <1>8, Inserted
<1>10. \A c : c \in Beside(Searchable(mid), chunks) <=> c \in Searchable(ix) /\ c.doc # v[1]
  <2>1. ASSUME NEW c \in Searchable(mid), c.doc = v[1] PROVE c \notin Beside(Searchable(mid), chunks)
    <3>1. c.boundary \in Boundaries[v]
      BY <1>2, <2>1
    <3>2. Chunk(v, c.boundary) \in chunks
      BY <1>4, <3>1, ChunkFacts
    <3>3. SameChunk(c, Chunk(v, c.boundary))
      BY <2>1 DEF SameChunk, Chunk
    <3>4. QED
      BY <3>2, <3>3 DEF Beside
  <2>2. ASSUME NEW c \in Searchable(ix), c.doc # v[1] PROVE c \in Beside(Searchable(mid), chunks)
    BY <1>2, <1>5, <2>2 DEF Beside, SameChunk
  <2>3. \A c \in Beside(Searchable(mid), chunks) : c \in Searchable(mid) /\ c \in Searchable(ix)
    BY <1>2 DEF Beside
  <2>4. QED
    BY <2>1, <2>2, <2>3
<1>11. Beside(Searchable(mid), chunks) = {c \in Searchable(ix) : c.doc # v[1]}
  BY <1>10
<1>12. QED
  BY <1>1, <1>4, <1>9, <1>11 DEF ActivateDocumentVersion

(***************************************************************************)
(* What an index serves: one version of every document.                    *)
(***************************************************************************)
Serving(f) == {c \in AllChunks : c.n = f[c.doc]}

\* The version of each document that is valid at a task.
ValidAt(q) == [d \in Docs |-> IF Replaced(d) /\ supersededAt[Version(d, 1)] <= q THEN 2 ELSE 1]

LEMMA OneIsActive ==
  ASSUME Shape, Validity, NEW q \in Nat \ {0}
  PROVE  /\ ValidAt(q) \in [Docs -> {1, 2}]
         /\ \A v \in Versions : ActiveAt(v, q) <=> v[2] = ValidAt(q)[v[1]]
<1>1. ValidAt(q) \in [Docs -> {1, 2}]
  BY DEF ValidAt
<1>2. ASSUME NEW v \in Versions PROVE ActiveAt(v, q) <=> v[2] = ValidAt(q)[v[1]]
  <2>1. PICK d \in Docs : d = v[1]
    BY VersionPairs
  <2>2. Version(d, 1) \in Versions /\ Version(d, 2) \in Versions /\ (v = Version(d, 1) \/ v = Version(d, 2))
        /\ Version(d, 1)[2] = 1 /\ Version(d, 2)[2] = 2
    BY <2>1, VersionPairs
  <2>3. /\ validFrom[Version(d, 1)] = 1 /\ supersededAt[Version(d, 2)] = Never
        /\ validFrom[Version(d, 2)] = supersededAt[Version(d, 1)]
        /\ supersededAt[Version(d, 1)] \in Nat
    BY <2>2 DEF Validity, Shape
  <2>4. ValidAt(q)[d] = IF supersededAt[Version(d, 1)] # Never /\ supersededAt[Version(d, 1)] <= q THEN 2 ELSE 1
    BY DEF ValidAt, Replaced
  <2>5. CASE v = Version(d, 1)
    BY <2>1, <2>2, <2>3, <2>4, <2>5 DEF ActiveAt, Never
  <2>6. CASE v = Version(d, 2)
    BY <2>1, <2>2, <2>3, <2>4, <2>6 DEF ActiveAt, Never
  <2>7. QED
    BY <2>2, <2>5, <2>6
<1>3. QED
  BY <1>1, <1>2

LEMMA Built ==
  ASSUME Shape, Validity, NEW q \in Nat \ {0}
  PROVE  Kept(BuildChunkIndex(q)) /\ Searchable(BuildChunkIndex(q)) = Serving(ValidAt(q))
<1>1. PICK chunks : chunks = UNION {ChunksOf(v) : v \in ActiveSourceVersions(q)}
  OBVIOUS
<1>2. PICK f : f = ValidAt(q)
  OBVIOUS
<1>3. f \in [Docs -> {1, 2}] /\ \A v \in Versions : ActiveAt(v, q) <=> v[2] = f[v[1]]
  BY <1>2, OneIsActive
<1>4. ASSUME NEW c PROVE c \in chunks <=> c \in Serving(f)
  <2>1. ASSUME c \in chunks PROVE c \in Serving(f)
    <3>1. PICK v \in ActiveSourceVersions(q) : c \in ChunksOf(v)
      BY <1>1, <2>1
    <3>2. v \in Versions /\ v[2] = f[v[1]]
      BY <1>3, <3>1 DEF ActiveSourceVersions
    <3>3. c \in AllChunks /\ c.doc = v[1] /\ c.n = v[2]
      BY <3>1, <3>2, ChunkFacts
    <3>4. QED
      BY <3>2, <3>3 DEF Serving
  <2>2. ASSUME c \in Serving(f) PROVE c \in chunks
    <3>1. c \in AllChunks /\ c.n = f[c.doc] /\ c.doc \in Docs /\ c.n \in {1, 2}
      BY <2>2, ChunkFacts DEF Serving
    <3>2. PICK v : v = Version(c.doc, c.n)
      OBVIOUS
    <3>3. v \in Versions /\ v[1] = c.doc /\ v[2] = c.n
      BY <3>1, <3>2, VersionPairs
    <3>4. v \in ActiveSourceVersions(q)
      BY <1>3, <3>1, <3>3 DEF ActiveSourceVersions
    <3>5. c \in ChunksOf(v)
      BY <3>1, <3>3, ChunkFacts
    <3>6. QED
      BY <1>1, <3>4, <3>5
  <2>3. QED
    BY <2>1, <2>2
<1>5. chunks = Serving(f)
  BY <1>4
<1>6. chunks \in SUBSET AllChunks /\ \A c, e \in chunks : SameChunk(c, e) => c = e
  BY <1>5, ChunkFacts DEF Serving, SameChunk
<1>7. PICK ix : ix = EmptyIndex
  OBVIOUS
<1>8. Kept(ix) /\ Searchable(ix) = {} /\ ix.invalidated = {}
  BY <1>7, NothingKept DEF EmptyIndex
<1>9. /\ Kept(InsertLiveChunks(ix, chunks))
      /\ Searchable(InsertLiveChunks(ix, chunks)) = Beside(Searchable(ix), chunks) \cup chunks
  BY <1>6, <1>8, Inserted
<1>10. Beside(Searchable(ix), chunks) = {}
  BY <1>8 DEF Beside
<1>11. QED
  BY <1>1, <1>2, <1>5, <1>7, <1>9, <1>10 DEF BuildChunkIndex

\* What an event makes of what is served.
Turned(f, events, k) ==
  IF k \in DOMAIN events /\ events[k].type = "validity_changed" /\ events[k].version[2] = 1
  THEN [f EXCEPT ![events[k].version[1]] = 2] ELSE f

LEMMA EventApplied ==
  ASSUME NEW ix, Kept(ix), NEW f \in [Docs -> {1, 2}], Searchable(ix) = Serving(f),
         NEW events \in Seq(Event), NEW k
  PROVE  /\ Kept(ApplyEvent(ix, events, k)) /\ Turned(f, events, k) \in [Docs -> {1, 2}]
         /\ Searchable(ApplyEvent(ix, events, k)) = Serving(Turned(f, events, k))
<1>1. CASE k \in DOMAIN events /\ events[k].type = "validity_changed" /\ events[k].version[2] = 1
  <2>1. events[k] \in Event
    BY <1>1
  <2>2. events[k].version \in Versions
    BY <2>1 DEF Event
  <2>3. PICK d \in Docs : d = events[k].version[1]
    BY <2>2, VersionPairs
  <2>4. PICK v : v = Version(d, 2)
    OBVIOUS
  <2>5. v \in Versions /\ v[1] = d /\ v[2] = 2
    BY <2>4, VersionPairs
  <2>6. PICK g : g = [f EXCEPT ![d] = 2]
    OBVIOUS
  <2>7. g \in [Docs -> {1, 2}] /\ g[d] = 2 /\ \A e \in Docs : e # d => g[e] = f[e]
    BY <2>6
  <2>8. /\ Kept(ActivateDocumentVersion(ix, v))
        /\ Searchable(ActivateDocumentVersion(ix, v)) = {c \in Searchable(ix) : c.doc # v[1]} \cup ChunksOf(v)
    BY <2>5, Activated
  <2>9. ASSUME NEW c
        PROVE (c \in Searchable(ix) /\ c.doc # v[1]) \/ c \in ChunksOf(v) <=> c \in Serving(g)
    <3>1. ASSUME c \in Searchable(ix), c.doc # v[1] PROVE c \in Serving(g)
      <4>1. c \in AllChunks /\ c.n = f[c.doc] /\ c.doc \in Docs
        BY <3>1, ChunkFacts DEF Serving
      <4>2. QED
        BY <2>5, <2>7, <3>1, <4>1 DEF Serving
    <3>2. ASSUME c \in ChunksOf(v) PROVE c \in Serving(g)
      <4>1. c \in AllChunks /\ c.n = 2 /\ c.doc = d
        BY <2>5, <3>2, ChunkFacts
      <4>2. QED
        BY <2>7, <4>1 DEF Serving
    <3>3. ASSUME c \in Serving(g) PROVE (c \in Searchable(ix) /\ c.doc # v[1]) \/ c \in ChunksOf(v)
      <4>1. c \in AllChunks /\ c.n = g[c.doc] /\ c.doc \in Docs
        BY <3>3, ChunkFacts DEF Serving
      <4>2. CASE c.doc = d
        BY <2>5, <2>7, <4>1, <4>2, ChunkFacts
      <4>3. CASE c.doc # d
        BY <2>5, <2>7, <4>1, <4>3 DEF Serving
      <4>4. QED
        BY <4>2, <4>3
    <3>4. QED
      BY <3>1, <3>2, <3>3
  <2>10. Searchable(ActivateDocumentVersion(ix, v)) = Serving(g)
    BY <2>8, <2>9
  <2>11. ApplyEvent(ix, events, k) = ActivateDocumentVersion(ix, v)
    BY <1>1, <2>3, <2>4 DEF ApplyEvent
  <2>12. Turned(f, events, k) = g
    BY <1>1, <2>3, <2>6 DEF Turned
  <2>13. QED
    BY <2>7, <2>8, <2>10, <2>11, <2>12
<1>2. CASE ~(k \in DOMAIN events /\ events[k].type = "validity_changed" /\ events[k].version[2] = 1)
  BY <1>2 DEF ApplyEvent, Turned
<1>3. QED
  BY <1>1, <1>2

\* The updates of a task bring the index to the versions that are valid at it,
\* from those of the task before and from those of the task itself.
LEMMA UpdatesApplied ==
  ASSUME ScheduleInv, NEW q \in DOMAIN tasks, NEW ix, Kept(ix),
         Searchable(ix) = Serving(ValidAt(q)) \/ (q > 1 /\ Searchable(ix) = Serving(ValidAt(q - 1)))
  PROVE  /\ Kept(ApplyTaskVersionUpdates(ix, tasks[q]))
         /\ Searchable(ApplyTaskVersionUpdates(ix, tasks[q])) = Serving(ValidAt(q))
<1>1. Shape /\ Validity /\ Announced /\ Truthful(q)
  BY DEF ScheduleInv
<1>2. q \in Nat \ {0} /\ (q > 1 => q - 1 \in Nat \ {0})
  BY <1>1, Domains
<1>3. PICK row : row = tasks[q]
  OBVIOUS
<1>4. row \in TaskRow
  BY <1>1, <1>3 DEF Shape
<1>5. PICK evs : evs = row.events
  OBVIOUS
<1>6. evs \in Seq(Event) /\ Len(evs) <= 2
  BY <1>1, <1>3, <1>4, <1>5 DEF TaskRow, Truthful
<1>7. DOMAIN evs \subseteq {1, 2}
  <2>1. DOMAIN evs = 1 .. Len(evs) /\ Len(evs) \in Nat
    BY <1>6
  <2>2. QED
    BY <1>6, <2>1
<1>8. \A k \in DOMAIN evs : evs[k].type = "validity_changed" =>
        evs[k].version \in Versions /\ evs[k].version[2] = 1 /\ supersededAt[evs[k].version] = q
  <2>1. ASSUME NEW k \in DOMAIN evs, evs[k].type = "validity_changed"
        PROVE  evs[k].version \in Versions /\ evs[k].version[2] = 1 /\ supersededAt[evs[k].version] = q
    <3>1. evs[k] \in Event
      BY <1>6, <2>1
    <3>2. evs[k].version \in Versions
      BY <3>1 DEF Event
    <3>3. QED
      BY <1>1, <1>3, <1>5, <2>1, <3>2 DEF Truthful
  <2>2. QED
    BY <2>1
<1>9. PICK now : now = ValidAt(q)
  OBVIOUS
<1>10. now \in [Docs -> {1, 2}]
  BY <1>1, <1>2, <1>9, OneIsActive
<1>11. PICK f \in [Docs -> {1, 2}] :
         /\ Searchable(ix) = Serving(f)
         /\ \A d \in Docs : f[d] = now[d] \/ (f[d] = 1 /\ now[d] = 2 /\ Replaced(d) /\ supersededAt[Version(d, 1)] = q)
  <2>1. CASE Searchable(ix) = Serving(ValidAt(q))
    BY <1>9, <1>10, <2>1
  <2>2. CASE q > 1 /\ Searchable(ix) = Serving(ValidAt(q - 1))
    <3>1. PICK g : g = ValidAt(q - 1)
      OBVIOUS
    <3>2. g \in [Docs -> {1, 2}]
      BY <1>1, <1>2, <2>2, <3>1, OneIsActive
    <3>3. ASSUME NEW d \in Docs
          PROVE  g[d] = now[d] \/ (g[d] = 1 /\ now[d] = 2 /\ Replaced(d) /\ supersededAt[Version(d, 1)] = q)
      <4>1. supersededAt[Version(d, 1)] \in Nat
        BY <1>1, VersionPairs DEF Shape
      <4>2. g[d] = IF Replaced(d) /\ supersededAt[Version(d, 1)] <= q - 1 THEN 2 ELSE 1
        BY <3>1 DEF ValidAt
      <4>3. now[d] = IF Replaced(d) /\ supersededAt[Version(d, 1)] <= q THEN 2 ELSE 1
        BY <1>9 DEF ValidAt
      <4>4. QED
        BY <1>2, <4>1, <4>2, <4>3
    <3>4. QED
      BY <2>2, <3>1, <3>2, <3>3
  <2>3. QED
    BY <2>1, <2>2
<1>12. PICK f1, f2 : f1 = Turned(f, evs, 1) /\ f2 = Turned(f1, evs, 2)
  OBVIOUS
<1>13. PICK ix1 : ix1 = ApplyEvent(ix, evs, 1)
  OBVIOUS
<1>14. Kept(ix1) /\ f1 \in [Docs -> {1, 2}] /\ Searchable(ix1) = Serving(f1)
  BY <1>6, <1>11, <1>12, <1>13, EventApplied
<1>15. /\ Kept(ApplyEvent(ix1, evs, 2)) /\ f2 \in [Docs -> {1, 2}]
       /\ Searchable(ApplyEvent(ix1, evs, 2)) = Serving(f2)
  BY <1>6, <1>12, <1>14, EventApplied
<1>16. \A k \in DOMAIN evs : evs[k].type = "validity_changed" =>
         evs[k].version[1] \in Docs /\ now[evs[k].version[1]] = 2
  <2>1. ASSUME NEW k \in DOMAIN evs, evs[k].type = "validity_changed"
        PROVE  evs[k].version[1] \in Docs /\ now[evs[k].version[1]] = 2
    <3>1. PICK v \in Versions : v = evs[k].version
      BY <1>8, <2>1
    <3>2. v[1] \in Docs /\ v = Version(v[1], 1) /\ supersededAt[v] = q
      BY <1>8, <2>1, <3>1, VersionPairs
    <3>3. Replaced(v[1])
      BY <1>2, <3>2 DEF Replaced, Never
    <3>4. now[v[1]] = 2
      BY <1>2, <1>9, <3>2, <3>3 DEF ValidAt
    <3>5. QED
      BY <3>1, <3>2, <3>4
  <2>2. QED
    BY <2>1
<1>17. \A d \in Docs : /\ f1[d] = f[d] \/ (f1[d] = 2 /\ now[d] = 2)
                       /\ f2[d] = f1[d] \/ (f2[d] = 2 /\ now[d] = 2)
                       /\ f1[d] = 2 => f2[d] = 2
                       /\ f[d] = 2 => f1[d] = 2
  <2>1. ASSUME NEW d \in Docs
        PROVE  /\ f1[d] = f[d] \/ (f1[d] = 2 /\ now[d] = 2)
               /\ f[d] = 2 => f1[d] = 2
    BY <1>11, <1>12, <1>16 DEF Turned
  <2>2. ASSUME NEW d \in Docs
        PROVE  /\ f2[d] = f1[d] \/ (f2[d] = 2 /\ now[d] = 2)
               /\ f1[d] = 2 => f2[d] = 2
    BY <1>12, <1>14, <1>16 DEF Turned
  <2>3. QED
    BY <2>1, <2>2
<1>18. \A d \in Docs : Replaced(d) /\ supersededAt[Version(d, 1)] = q => f2[d] = 2
  <2>1. ASSUME NEW d \in Docs, Replaced(d), supersededAt[Version(d, 1)] = q PROVE f2[d] = 2
    <3>1. PICK k \in DOMAIN evs : evs[k].type = "validity_changed" /\ evs[k].version = Version(d, 1)
      BY <1>1, <1>3, <1>5, <2>1 DEF Announced
    <3>2. evs[k].version[1] = d /\ evs[k].version[2] = 1
      BY <3>1, VersionPairs
    <3>3. CASE k = 1
      <4>1. f1 = [f EXCEPT ![d] = 2]
        BY <1>12, <3>1, <3>2, <3>3 DEF Turned
      <4>2. f1[d] = 2
        BY <1>11, <4>1
      <4>3. QED
        BY <1>17, <4>2
    <3>4. CASE k = 2
      <4>1. f2 = [f1 EXCEPT ![d] = 2]
        BY <1>12, <3>1, <3>2, <3>4 DEF Turned
      <4>2. QED
        BY <1>14, <4>1
    <3>5. QED
      BY <1>7, <3>1, <3>3, <3>4
  <2>2. QED
    BY <2>1
<1>19. f2 = now
  <2>1. ASSUME NEW d \in Docs PROVE f2[d] = now[d]
    <3>1. f[d] \in {1, 2} /\ now[d] \in {1, 2} /\ f1[d] \in {1, 2} /\ f2[d] \in {1, 2}
      BY <1>10, <1>11, <1>14, <1>15
    <3>2. CASE f[d] = now[d]
      BY <1>17, <3>1, <3>2
    <3>3. CASE f[d] # now[d]
      BY <1>11, <1>18, <3>3
    <3>4. QED
      BY <3>2, <3>3
  <2>2. QED
    BY <1>10, <1>15, <2>1
<1>20. ApplyTaskVersionUpdates(ix, tasks[q]) = ApplyEvent(ix1, evs, 2)
  BY <1>3, <1>5, <1>13 DEF ApplyTaskVersionUpdates
<1>21. QED
  BY <1>9, <1>15, <1>19, <1>20

(***************************************************************************)
(* The inductive invariant: between two turns the index serves the versions *)
(* of the turn that is over, and a turn that starts over the ones it left.  *)
(***************************************************************************)
IndexInv ==
  /\ Kept(index)
  /\ turn = 0 => turnState = "fresh" /\ index = EmptyIndex
  /\ turn # 0 =>
       /\ ScheduleDone /\ turn \in DOMAIN tasks
       /\ turnState \in {"fresh", "updated", "answered"}
       /\ \/ Searchable(index) = Serving(ValidAt(turn))
          \/ turnState = "fresh" /\ turn > 1 /\ Searchable(index) = Serving(ValidAt(turn - 1))

SessionInv == ScheduleInv /\ IndexInv

LEMMA SessionSound == SessionInv => SessionsAreConsistent
<1> SUFFICES ASSUME SessionInv PROVE SessionsAreConsistent
  OBVIOUS
<1>1. ScheduleInv /\ IndexInv /\ Kept(index) /\ Shape /\ Validity
  BY DEF SessionInv, IndexInv, ScheduleInv
<1>2. GoldIsLive /\ CorrectionsAreLive /\ ReuseIsExact
  BY <1>1, ScheduleSound
<1>3. IndexServesTheGold
  <2>1. SUFFICES ASSUME turnState = "updated"
                 PROVE  /\ ChunkTask(Task).required \subseteq Searchable(index)
                        /\ ChunkTask(Task).forbidden \cap Searchable(index) = {}
    BY DEF IndexServesTheGold
  <2>2. turn \in DOMAIN tasks /\ Searchable(index) = Serving(ValidAt(turn))
    BY <1>1, <2>1 DEF IndexInv
  <2>3. turn \in Nat \ {0}
    BY <1>1, <2>2, Domains
  <2>4. PICK f : f = ValidAt(turn)
    OBVIOUS
  <2>5. f \in [Docs -> {1, 2}] /\ \A v \in Versions : ActiveAt(v, turn) <=> v[2] = f[v[1]]
    BY <1>1, <2>3, <2>4, OneIsActive
  <2>6. PICK row : row = tasks[turn]
    OBVIOUS
  <2>7. row \in TaskRow
    BY <1>1, <2>2, <2>6 DEF Shape
  <2>8. row.required \in Versions /\ row.forbidden \in SUBSET Versions
    BY <2>7 DEF TaskRow
  <2>9. Truthful(turn)
    BY <1>1, <2>2 DEF ScheduleInv
  <2>10. ActiveAt(row.required, turn) /\ \A v \in row.forbidden : ~ActiveAt(v, turn)
    BY <2>6, <2>9 DEF Truthful
  <2>11. Task = row
    BY <2>6 DEF Task
  <2>12. ChunkTask(row).required = {GoldChunk(row.required)}
         /\ ChunkTask(row).forbidden = UNION {ChunksOf(v) : v \in row.forbidden}
    BY DEF ChunkTask
  <2>13. GoldChunk(row.required) \in Serving(f)
    <3>1. PICK v \in Versions : v = row.required
      BY <2>8
    <3>2. Gold[v] \in Boundaries[v]
      BY ChunksAssumption
    <3>3. GoldChunk(v) \in ChunksOf(v)
      BY <3>2, ChunkFacts DEF GoldChunk
    <3>4. v[2] = f[v[1]]
      BY <2>5, <2>10, <3>1
    <3>5. QED
      BY <3>1, <3>3, <3>4, ChunkFacts DEF Serving
  <2>14. ASSUME NEW c \in ChunkTask(row).forbidden PROVE c \notin Serving(f)
    <3>1. PICK v \in row.forbidden : c \in ChunksOf(v)
      BY <2>12
    <3>2. v \in Versions /\ v[2] # f[v[1]]
      BY <2>5, <2>8, <2>10
    <3>3. c.doc = v[1] /\ c.n = v[2]
      BY <3>1, <3>2, ChunkFacts
    <3>4. QED
      BY <3>2, <3>3 DEF Serving
  <2>15. QED
    BY <2>2, <2>4, <2>11, <2>12, <2>13, <2>14
<1>4. \E f \in [Docs -> {1, 2}] : Searchable(index) \in {{}, Serving(f)}
  <2>1. CASE turn = 0
    <3>1. Searchable(index) = {}
      BY <1>1, <2>1, NothingKept DEF IndexInv
    <3>2. [d \in Docs |-> 1] \in [Docs -> {1, 2}]
      OBVIOUS
    <3>3. QED
      BY <3>1, <3>2
  <2>2. CASE turn # 0
    <3>1. turn \in Nat \ {0}
      BY <1>1, <2>2, Domains DEF IndexInv
    <3>2. CASE Searchable(index) = Serving(ValidAt(turn))
      BY <1>1, <3>1, <3>2, OneIsActive
    <3>3. CASE turn > 1 /\ Searchable(index) = Serving(ValidAt(turn - 1))
      <4>1. turn - 1 \in Nat \ {0}
        BY <3>1, <3>3
      <4>2. ValidAt(turn - 1) \in [Docs -> {1, 2}]
        BY <1>1, <4>1, OneIsActive
      <4>3. QED
        BY <3>3, <4>2
    <3>4. QED
      BY <1>1, <2>2, <3>2, <3>3 DEF IndexInv
  <2>3. QED
    BY <2>1, <2>2
<1>5. OneVersionServed
  <2>1. PICK f \in [Docs -> {1, 2}] : Searchable(index) = {} \/ Searchable(index) = Serving(f)
    BY <1>4
  <2>2. ASSUME NEW c \in Searchable(index)
        PROVE  /\ c \in AllChunks /\ c.n = f[c.doc]
               /\ ChunksOf(Version(c.doc, c.n)) \subseteq Searchable(index)
    <3>1. Searchable(index) = Serving(f) /\ c \in AllChunks /\ c.n = f[c.doc] /\ c.doc \in Docs /\ c.n \in {1, 2}
      BY <2>1, ChunkFacts DEF Serving
    <3>2. PICK v \in Versions : v = Version(c.doc, c.n) /\ v[1] = c.doc /\ v[2] = c.n
      BY <3>1, VersionPairs
    <3>3. \A e \in ChunksOf(v) : e \in Serving(f)
      BY <3>1, <3>2, ChunkFacts DEF Serving
    <3>4. QED
      BY <3>1, <3>2, <3>3
  <2>3. Searchable(index) \cap index.invalidated = {}
    BY <1>1 DEF Kept
  <2>4. QED
    BY <2>2, <2>3 DEF OneVersionServed
<1>6. RowsAreAccounted
  BY <1>1 DEF Kept, RowsAreAccounted
<1>7. QED
  BY <1>2, <1>3, <1>5, <1>6 DEF SessionsAreConsistent

LEMMA SessionStarts == ChunksInit => SessionInv
<1> SUFFICES ASSUME ChunksInit PROVE SessionInv
  OBVIOUS
<1>1. ScheduleInv
  BY ScheduleStarts DEF ChunksInit
<1>2. turn = 0 /\ turnState = "fresh" /\ index = EmptyIndex
  BY DEF ChunksInit
<1>3. Kept(index)
  BY <1>2, NothingKept
<1>4. QED
  BY <1>1, <1>2, <1>3 DEF SessionInv, IndexInv

\* An index that is built or left alone, for a turn of the finished schedule.
LEMMA TurnKept ==
  ASSUME SessionInv, UNCHANGED scheduleVars, ScheduleDone,
         turn' \in DOMAIN tasks, turnState' \in {"fresh", "updated", "answered"}, Kept(index'),
         \/ Searchable(index') = Serving(ValidAt(turn'))
         \/ turnState' = "fresh" /\ turn' > 1 /\ Searchable(index') = Serving(ValidAt(turn' - 1))
  PROVE  SessionInv'
<1>1. ScheduleInv' /\ ScheduleDone'
  <2>1. ScheduleInv'
    BY ScheduleKeeps DEF SessionInv
  <2>2. ScheduleDone'
    BY DEF scheduleVars, ScheduleDone, SessionFull
  <2>3. QED
    BY <2>1, <2>2
<1>2. turn' # 0
  BY Domains DEF SessionInv, ScheduleInv
<1>3. tasks' = tasks /\ supersededAt' = supersededAt
  BY DEF scheduleVars
<1>4. Kept(index)' /\ turn' \in DOMAIN tasks'
  BY <1>3 DEF Kept, Searchable
<1>5. \/ Searchable(index)' = Serving(ValidAt(turn))'
      \/ turnState' = "fresh" /\ turn' > 1 /\ Searchable(index)' = Serving(ValidAt(turn - 1))'
  BY <1>3 DEF ValidAt, Replaced, Serving, Searchable
<1>6. IndexInv'
  BY <1>1, <1>2, <1>4, <1>5 DEF IndexInv
<1>7. QED
  BY <1>1, <1>6 DEF SessionInv

LEMMA SessionKeeps == SessionInv /\ [ChunksNext]_chunksVars => SessionInv'
<1> SUFFICES ASSUME SessionInv, [ChunksNext]_chunksVars PROVE SessionInv'
  OBVIOUS
<1>1. ScheduleInv /\ IndexInv /\ Kept(index) /\ Shape /\ Validity /\ InPlace
  BY DEF SessionInv, IndexInv, ScheduleInv
<1>2. DOMAIN tasks = 1 .. Len(tasks) /\ Len(tasks) \in Nat
  BY <1>1, Domains
<1>3. /\ \A i \in DOMAIN tasks : tasks[i].seq = i
      /\ \A i \in DOMAIN tasks : \E j \in DOMAIN tasks :
           tasks[j].session = tasks[i].session /\ tasks[j].position = 1
  BY <1>1 DEF InPlace
<1>4. ASSUME NEW i \in DOMAIN tasks
      PROVE  Kept(BuildChunkIndex(tasks[i].seq)) /\ Searchable(BuildChunkIndex(tasks[i].seq)) = Serving(ValidAt(i))
  <2>1. i \in Nat \ {0} /\ tasks[i].seq = i
    BY <1>2, <1>3
  <2>2. QED
    BY <1>1, <2>1, Built
<1>5. turn # 0 => turn \in DOMAIN tasks /\ turn \in Nat \ {0} /\ ScheduleDone
                  /\ turnState \in {"fresh", "updated", "answered"}
  BY <1>1, <1>2 DEF IndexInv
<1>6. turn # 0 => \/ Searchable(index) = Serving(ValidAt(turn))
                  \/ turnState = "fresh" /\ turn > 1 /\ Searchable(index) = Serving(ValidAt(turn - 1))
  BY <1>1 DEF IndexInv
<1>7. CASE BuildSchedule
  <2>1. ScheduleNext /\ UNCHANGED chunkVars
    BY <1>7 DEF BuildSchedule
  <2>2. turn = 0
    BY <1>1, <1>5, <2>1, NothingAfterDone
  <2>3. ScheduleInv'
    BY <1>1, <2>1, ScheduleKeeps
  <2>4. turn' = turn /\ turnState' = turnState /\ index' = index
    BY <2>1 DEF chunkVars
  <2>5. Kept(index)'
    BY <1>1, <2>4 DEF Kept, Searchable
  <2>6. IndexInv'
    BY <1>1, <2>2, <2>4, <2>5 DEF IndexInv
  <2>7. QED
    BY <2>3, <2>6 DEF SessionInv
<1>8. CASE MaterializeSession
  <2>1. /\ ScheduleDone /\ turn < Len(tasks) /\ turn' = turn + 1 /\ turnState' = "fresh"
        /\ index' = BuildChunkIndex(tasks[turn + 1].seq) /\ UNCHANGED scheduleVars
    BY <1>8 DEF MaterializeSession
  <2>2. turn \in Nat
    BY <1>5
  <2>3. turn + 1 \in DOMAIN tasks /\ turn' \in DOMAIN tasks
    BY <1>2, <2>1, <2>2
  <2>4. Kept(index') /\ Searchable(index') = Serving(ValidAt(turn'))
    BY <1>4, <2>1, <2>3
  <2>5. QED
    BY <2>1, <2>3, <2>4, TurnKept
<1>9. CASE UpdateIndex
  <2>1. /\ turn > 0 /\ turnState = "fresh" /\ index' = ApplyTaskVersionUpdates(index, Task)
        /\ turnState' = "updated" /\ turn' = turn /\ UNCHANGED scheduleVars
    BY <1>9 DEF UpdateIndex
  <2>2. turn # 0 /\ turn \in DOMAIN tasks /\ ScheduleDone
    BY <1>5, <2>1
  <2>3. Searchable(index) = Serving(ValidAt(turn)) \/ (turn > 1 /\ Searchable(index) = Serving(ValidAt(turn - 1)))
    BY <1>6, <2>2
  <2>4. Kept(index') /\ Searchable(index') = Serving(ValidAt(turn))
    BY <1>1, <2>1, <2>2, <2>3, UpdatesApplied DEF Task
  <2>5. Searchable(index') = Serving(ValidAt(turn'))
    BY <2>1, <2>4
  <2>6. QED
    BY <2>1, <2>2, <2>4, <2>5, TurnKept
<1>10. CASE RetryTurn \/ AnswerTurn
  <2>1. /\ turnState = "updated" /\ turnState' \in {"fresh", "answered"}
        /\ turn' = turn /\ index' = index /\ UNCHANGED scheduleVars
    BY <1>10 DEF RetryTurn, AnswerTurn
  <2>2. turn # 0
    BY <1>1, <2>1 DEF IndexInv
  <2>3. Searchable(index') = Serving(ValidAt(turn')) /\ Kept(index')
    BY <1>1, <1>6, <2>1, <2>2
  <2>4. turn' \in DOMAIN tasks /\ ScheduleDone /\ turnState' \in {"fresh", "updated", "answered"}
    BY <1>5, <2>1, <2>2
  <2>5. QED
    BY <2>1, <2>3, <2>4, TurnKept
<1>11. CASE NextTurn
  <2>1. /\ turnState = "answered" /\ turn < Len(tasks) /\ turn' = turn + 1 /\ turnState' = "fresh"
        /\ index' = index /\ UNCHANGED scheduleVars
    BY <1>11 DEF NextTurn
  <2>2. turn # 0
    BY <1>1, <2>1 DEF IndexInv
  <2>3. turn \in Nat \ {0} /\ ScheduleDone /\ Searchable(index) = Serving(ValidAt(turn))
    BY <1>5, <1>6, <2>1, <2>2
  <2>4. turn' \in DOMAIN tasks /\ turn' > 1 /\ turn' - 1 = turn
    BY <1>2, <2>1, <2>3
  <2>5. Searchable(index') = Serving(ValidAt(turn' - 1)) /\ Kept(index')
    BY <1>1, <2>1, <2>3, <2>4
  <2>6. QED
    BY <2>1, <2>3, <2>4, <2>5, TurnKept
<1>12. CASE RestartSession
  <2>1. /\ turn > 0 /\ turn' = FirstTurnOf(Task.session) /\ turnState' = "fresh"
        /\ index' = BuildChunkIndex(tasks[FirstTurnOf(Task.session)].seq) /\ UNCHANGED scheduleVars
    BY <1>12 DEF RestartSession
  <2>2. turn \in DOMAIN tasks /\ ScheduleDone
    BY <1>5, <2>1
  <2>3. \E i \in DOMAIN tasks : tasks[i].session = Task.session /\ tasks[i].position = 1
    BY <1>3, <2>2 DEF Task
  <2>4. FirstTurnOf(Task.session) \in DOMAIN tasks
    BY <2>3 DEF FirstTurnOf
  <2>5. Kept(index') /\ Searchable(index') = Serving(ValidAt(turn'))
    BY <1>4, <2>1, <2>4
  <2>6. QED
    BY <2>1, <2>2, <2>4, <2>5, TurnKept
<1>13. CASE UNCHANGED chunksVars
  <2>1. UNCHANGED scheduleVars /\ turn' = turn /\ turnState' = turnState /\ index' = index
    BY <1>13 DEF chunksVars, chunkVars
  <2>2. ScheduleInv'
    BY <1>1, <2>1, ScheduleKeeps
  <2>3. CASE turn = 0
    <3>1. Kept(index)'
      BY <1>1, <2>1 DEF Kept, Searchable
    <3>2. IndexInv'
      BY <1>1, <2>1, <2>3, <3>1 DEF IndexInv
    <3>3. QED
      BY <2>2, <3>2 DEF SessionInv
  <2>4. CASE turn # 0
    <3>1. /\ turn' \in DOMAIN tasks /\ ScheduleDone /\ turnState' \in {"fresh", "updated", "answered"} /\ Kept(index')
          /\ \/ Searchable(index') = Serving(ValidAt(turn'))
             \/ turnState' = "fresh" /\ turn' > 1 /\ Searchable(index') = Serving(ValidAt(turn' - 1))
      BY <1>1, <1>5, <1>6, <2>1, <2>4
    <3>2. QED
      BY <2>1, <3>1, TurnKept
  <2>5. QED
    BY <2>3, <2>4
<1>14. QED
  BY <1>7, <1>8, <1>9, <1>10, <1>11, <1>12, <1>13 DEF ChunksNext

(***************************************************************************)
(* Whatever the corpus, its boundaries, the number and length of sessions  *)
(* and the number of repeats, in every order of turns, retries and sessions *)
(* started over: what is asked, what is graded and what the index serves   *)
(* are the same version (e5_killgate.py:205-279, e5_chunk_canary.py:555-    *)
(* 729).                                                                   *)
(***************************************************************************)
THEOREM SessionsAlwaysConsistent == ChunksSpec => []SessionsAreConsistent
<1>1. ChunksInit => SessionInv
  BY SessionStarts
<1>2. SessionInv /\ [ChunksNext]_chunksVars => SessionInv'
  BY SessionKeeps
<1>3. SessionInv => SessionsAreConsistent
  BY SessionSound
<1>4. QED
  BY <1>1, <1>2, <1>3, PTL DEF ChunksSpec
=============================================================================
