----------------------------- MODULE BatchProofs -----------------------------
(* Proofs about the batch of cells (Batch): whatever waves, resumptions,      *)
(* failures and deaths there are, files and book of a cell agree, and first   *)
(* waves keep the batch within its stop but for the units in flight.          *)
EXTENDS Batch, FiniteSetTheorems, WellFoundedInduction, TLAPS

Phases == {"absent", "queued", "turns", "mistake", "account", "done", "failed", "skipped", "raised"}
Jobs == [phase : Phases, attempts : 0 .. Retries + 1]
File == [work : BOOLEAN, streams : BOOLEAN, result : {"none", "torn", "whole"}]
Process == [cell : Cells, force : BOOLEAN, running : BOOLEAN, lost : BOOLEAN, allowance : Nat, spent : Nat,
            aborted : BOOLEAN]
Past == [waved : SUBSET Cells, again : BOOLEAN, apart : BOOLEAN, whole : SUBSET Cells, discarded : BOOLEAN,
         redone : SUBSET (Cells \X Units)]

(* The types, with the threads and retries that a wave allows itself.         *)
Shape ==
    /\ proc \in Process /\ job \in [Units -> Jobs] /\ waves \in 0 .. MaxWaves
    /\ files \in [Cells -> [Units -> File]] /\ probed \subseteq Cells
    /\ book \in [Cells -> Nat] /\ charged \in [Cells -> Nat] /\ history \in Past
    /\ Cardinality(Busy) <= Workers
    /\ \A u \in Units : job[u].phase = "queued" => job[u].attempts = 0

(* What a wave has spent is the price of the units it is done with, so that   *)
(* one that is done with all of them books them all.                          *)
Due(c, units) == Total([u \in units |-> Price[c][u]])
Bill(units) == Due(proc.cell, units)
Booking ==
    /\ Running => /\ proc.spent = Bill(At("done"))
                  /\ proc.cell \notin history.whole
                  /\ proc.lost => At("raised") # {}
    /\ \A c \in history.whole : book[c] = Total(Price[c])

(* In first waves that lose nothing, what was paid for a cell is what it has  *)
(* booked; for the cell of the running wave, what the wave has accounted for  *)
(* and is about to.  Threads that are idle after the stop took none over it.  *)
Flight(n) == n * MaxPrice
Alone == ~history.again /\ ~history.discarded /\ ~history.apart
Ahead ==
    /\ proc.cell \in history.waved /\ ~proc.lost /\ book[proc.cell] = 0
    /\ proc.allowance = BatchStop - Booked
    /\ charged = [book EXCEPT ![proc.cell] = proc.spent + Bill(At("account"))]
    /\ \A u \in Units : /\ job[u].phase \in Phases \ {"mistake", "failed", "raised"}
                        /\ job[u].phase = "queued" => UnitFile(u).result = "none"
    /\ proc.aborted \/ proc.spent <= proc.allowance
    /\ proc.spent + Flight(Cardinality(Busy)) <= proc.allowance + Flight(Workers)
FirstWaves ==
    Alone =>
       /\ \A c \in Cells \ history.waved :
             book[c] = 0 /\ charged[c] = 0 /\ \A u \in Units : files[c][u].result = "none"
       /\ Running => Ahead
       /\ ~Running => charged = book /\ Booked <= BatchStop + Flight(Workers)

BatchInv == Shape /\ ResultsHaveStreams /\ Booking /\ FirstWaves
-----------------------------------------------------------------------------
(* A sum is the number of pairs of a summand and a place below its amount.    *)
Pairs(f) == UNION {{i} \X (1 .. f[i]) : i \in DOMAIN f}

LEMMA PairsAre ==
  ASSUME NEW S, NEW f \in [S -> Nat]
  PROVE  /\ Total(f) = Cardinality(Pairs(f))
         /\ \A e : e \in Pairs(f) <=> \E i \in S : e \in {i} \X (1 .. f[i])
BY DEF Total, Pairs

(* One more summand adds its amount.                                          *)
LEMMA SumGrows ==
  ASSUME NEW S, NEW f \in [S -> Nat], NEW x, x \notin S, NEW g \in [S \cup {x} -> Nat],
         \A i \in S : g[i] = f[i], IsFiniteSet(Pairs(f))
  PROVE  IsFiniteSet(Pairs(g)) /\ Total(g) = Total(f) + g[x]
<1> DEFINE New == {x} \X (1 .. g[x])
<1>1. g[x] \in Nat OBVIOUS
<1>2. Pairs(g) = Pairs(f) \cup New
  <2>1. ASSUME NEW e PROVE e \in Pairs(g) <=> e \in Pairs(f) \/ e \in New
    <3>1. e \in Pairs(g) <=> \E i \in S \cup {x} : e \in {i} \X (1 .. g[i]) BY PairsAre
    <3>2. e \in Pairs(f) <=> \E i \in S : e \in {i} \X (1 .. f[i]) BY PairsAre
    <3> QED BY <3>1, <3>2
  <2> QED BY <2>1
<1>3. Pairs(f) \cap New = {}
  <2> SUFFICES ASSUME NEW e \in Pairs(f), e \in New PROVE FALSE OBVIOUS
  <2>1. PICK i \in S : e \in {i} \X (1 .. f[i]) BY PairsAre
  <2> QED BY <2>1
<1>4. IsFiniteSet(New) /\ Cardinality(New) = g[x]
  <2>1. IsFiniteSet({x}) /\ Cardinality({x}) = 1 BY FS_Singleton
  <2>2. IsFiniteSet(1 .. g[x]) /\ Cardinality(1 .. g[x]) = g[x] BY <1>1, FS_Interval
  <2>3. IsFiniteSet(New) /\ Cardinality(New) = Cardinality({x}) * Cardinality(1 .. g[x])
    BY <2>1, <2>2, FS_Product
  <2>4. 1 * g[x] = g[x] BY <1>1
  <2> QED BY <2>1, <2>2, <2>3, <2>4
<1>5. /\ IsFiniteSet(Pairs(f) \cup New)
      /\ Cardinality(Pairs(f) \cup New) = Cardinality(Pairs(f)) + Cardinality(New) - Cardinality(Pairs(f) \cap New)
  <2> HIDE DEF New
  <2> QED BY <1>4, FS_Union
<1>6. Cardinality(Pairs(f) \cap New) = 0 BY <1>3, FS_EmptySet
<1>7. Cardinality(Pairs(f)) \in Nat BY FS_CardinalityType
<1>8. Total(g) = Cardinality(Pairs(g)) /\ Total(f) = Cardinality(Pairs(f)) BY PairsAre
<1> HIDE DEF New
<1> QED BY <1>1, <1>2, <1>4, <1>5, <1>6, <1>7, <1>8

(* A sum over a finite set is a number, and at most the bound of its summands *)
(* times their number.                                                        *)
LEMMA SumIsNat ==
  ASSUME NEW S, IsFiniteSet(S), NEW f \in [S -> Nat]
  PROVE  IsFiniteSet(Pairs(f)) /\ Total(f) \in Nat
<1> DEFINE part == [i \in S |-> {i} \X (1 .. f[i])]
           parts == {part[i] : i \in S}
<1>1. part \in Surjection(S, parts) BY DEF Surjection
<1>2. IsFiniteSet(parts)
  <2> HIDE DEF part, parts
  <2> QED BY <1>1, FS_Surjection, Zenon
<1>3. ASSUME NEW i \in S PROVE IsFiniteSet(part[i])
  <2>1. f[i] \in Int /\ 1 \in Int OBVIOUS
  <2>2. IsFiniteSet(1 .. f[i])
    <3> HIDE DEF part, parts
    <3> QED BY <2>1, FS_Interval
  <2>3. IsFiniteSet({i} \X (1 .. f[i])) BY <2>2, FS_Singleton, FS_Product
  <2> QED BY <2>3
<1>4. \A p \in parts : IsFiniteSet(p) BY <1>3
<1>5. IsFiniteSet(UNION parts)
  <2> HIDE DEF parts
  <2> QED BY <1>2, <1>4, FS_UNION
<1>6. UNION parts = Pairs(f) BY DEF Pairs
<1>7. Total(f) = Cardinality(Pairs(f)) BY PairsAre
<1> HIDE DEF parts
<1> QED BY <1>5, <1>6, <1>7, FS_CardinalityType

LEMMA SumBound ==
  ASSUME NEW S, IsFiniteSet(S), NEW f \in [S -> Nat], NEW m \in Nat, \A i \in S : f[i] <= m
  PROVE  Total(f) <= Cardinality(S) * m
<1>1. IsFiniteSet(1 .. m) /\ Cardinality(1 .. m) = m BY FS_Interval
<1>2. IsFiniteSet(S \X (1 .. m)) /\ Cardinality(S \X (1 .. m)) = Cardinality(S) * Cardinality(1 .. m)
  BY <1>1, FS_Product
<1>3. Pairs(f) \subseteq S \X (1 .. m)
  <2> SUFFICES ASSUME NEW e \in Pairs(f) PROVE e \in S \X (1 .. m) OBVIOUS
  <2>1. PICK i \in S : e \in {i} \X (1 .. f[i]) BY PairsAre
  <2>2. f[i] \in Nat /\ f[i] <= m OBVIOUS
  <2> QED BY <2>1, <2>2
<1>4. Cardinality(Pairs(f)) <= Cardinality(S \X (1 .. m)) BY <1>2, <1>3, FS_Subset
<1> QED BY <1>1, <1>2, <1>4, PairsAre

LEMMA SumOfNone == ASSUME NEW f \in [{} -> Nat] PROVE Total(f) = 0
<1>1. Pairs(f) = {} BY PairsAre
<1> QED BY <1>1, PairsAre, FS_EmptySet

LEMMA SumOfZeros == ASSUME NEW S, NEW f \in [S -> Nat], \A i \in S : f[i] = 0 PROVE Total(f) = 0
<1>1. Pairs(f) = {}
  <2> SUFFICES ASSUME NEW e \in Pairs(f) PROVE FALSE OBVIOUS
  <2>1. PICK i \in S : e \in {i} \X (1 .. f[i]) BY PairsAre
  <2> QED BY <2>1
<1> QED BY <1>1, PairsAre, FS_EmptySet

(* Changing one summand changes the sum by the difference.                    *)
LEMMA SumChanges ==
  ASSUME NEW S, IsFiniteSet(S), NEW f \in [S -> Nat], NEW x \in S, NEW n \in Nat
  PROVE  /\ Total([f EXCEPT ![x] = n]) = Total(f) - f[x] + n
         /\ f[x] <= Total(f)
<1> DEFINE r == [i \in S \ {x} |-> f[i]]
           g == [f EXCEPT ![x] = n]
<1>1. r \in [S \ {x} -> Nat] /\ IsFiniteSet(S \ {x}) /\ S = (S \ {x}) \cup {x} BY FS_RemoveElement
<1>2. g \in [S -> Nat] /\ g[x] = n /\ \A i \in S \ {x} : g[i] = r[i] /\ f[i] = r[i] OBVIOUS
<1>3. IsFiniteSet(Pairs(r)) /\ Total(r) \in Nat
  <2> HIDE DEF r
  <2> QED BY <1>1, SumIsNat
<1>6. f \in [(S \ {x}) \cup {x} -> Nat] /\ g \in [(S \ {x}) \cup {x} -> Nat] BY <1>1, <1>2
<1>4. Total(f) = Total(r) + f[x]
  <2> HIDE DEF r, g
  <2> QED BY <1>1, <1>2, <1>3, <1>6, SumGrows
<1>5. Total(g) = Total(r) + n
  <2> HIDE DEF r, g
  <2> QED BY <1>1, <1>2, <1>3, <1>6, SumGrows
<1> HIDE DEF r
<1> QED BY <1>3, <1>4, <1>5

LEMMA SumOfCells ==
  \A f \in [Cells -> Nat], x \in Cells, n \in Nat :
     Total([f EXCEPT ![x] = n]) = Total(f) - f[x] + n /\ f[x] <= Total(f)
BY SumChanges, BatchAssumption

(* The dearest price: a finite set of numbers has a largest one.              *)
LEMMA HasLargest ==
  ASSUME NEW S \in SUBSET Nat, S # {}, NEW n \in Nat, \A x \in S : x <= n
  PROVE  Max(S) \in S /\ \A x \in S : x <= Max(S)
<1> DEFINE Bounds == {b \in Nat : \A x \in S : x <= b}
<1>1. PICK b \in Bounds : \A c \in Bounds : b <= c
  <2>1. Bounds \in SUBSET Nat /\ Bounds # {} OBVIOUS
  <2>2. PICK m \in Bounds : \A x \in Bounds : ~(<<x, m>> \in OpToRel(<, Nat))
    <3> HIDE DEF Bounds
    <3> QED BY <2>1, NatLessThanWellFounded, WFMin
  <2>3. \A x \in Bounds : ~(x < m) BY <2>1, <2>2 DEF OpToRel
  <2> QED BY <2>1, <2>3
<1>2. b \in S
  <2> SUFFICES ASSUME b \notin S PROVE FALSE OBVIOUS
  <2>1. \A y \in S : y \in Nat /\ y <= b - 1 BY <1>1
  <2>3. b \in Nat /\ b - 1 \in Nat
    <3>1. PICK y \in S : TRUE OBVIOUS
    <3> QED BY <2>1, <3>1
  <2>2. b - 1 \in Bounds BY <2>1, <2>3
  <2> QED BY <1>1, <2>2
<1>3. \E x \in S : \A y \in S : x >= y BY <1>1, <1>2
<1> QED BY <1>3 DEF Max

LEMMA Prices ==
  /\ \A c \in Cells : Price[c] \in [Units -> Nat] /\ Total(Price[c]) \in Nat
  /\ \A c \in Cells, u \in Units : Price[c][u] \in Nat /\ Price[c][u] <= MaxPrice
  /\ MaxPrice \in Nat
<1> DEFINE sums == [c \in Cells |-> Total(Price[c])]
           all == {Price[c][u] : c \in Cells, u \in Units}
<1>1. IsFiniteSet(Units) /\ IsFiniteSet(Cells) /\ Cells # {} /\ Units # {} BY BatchAssumption
<1>2. \A c \in Cells : Price[c] \in [Units -> Nat] BY BatchAssumption
<1>3. \A c \in Cells : Total(Price[c]) \in Nat BY <1>1, <1>2, SumIsNat
<1>4. \A c \in Cells, u \in Units : Price[c][u] <= Total(Price[c]) BY <1>1, <1>2, SumChanges
<1>5. sums \in [Cells -> Nat] BY <1>3
<1>6. Total(sums) \in Nat /\ \A c \in Cells : sums[c] <= Total(sums)
  <2> HIDE DEF sums
  <2> QED BY <1>1, <1>5, SumIsNat, SumChanges
<1>7. all \in SUBSET Nat /\ all # {}
  <2>1. \A c \in Cells, u \in Units : Price[c][u] \in Nat BY <1>2
  <2>2. PICK c \in Cells, u \in Units : TRUE BY <1>1
  <2>3. Price[c][u] \in all OBVIOUS
  <2>4. all \in SUBSET Nat BY <2>1
  <2> HIDE DEF all
  <2> QED BY <2>3, <2>4
<1>8. \A x \in all : x <= Total(sums)
  <2> SUFFICES ASSUME NEW c \in Cells, NEW u \in Units PROVE Price[c][u] <= Total(sums) OBVIOUS
  <2>1. Price[c][u] \in Nat /\ sums[c] = Total(Price[c]) BY <1>2
  <2> HIDE DEF sums
  <2> QED BY <2>1, <1>3, <1>4, <1>6
<1>9. Max(all) \in all /\ \A x \in all : x <= Max(all)
  <2> HIDE DEF all, sums
  <2> QED BY <1>6, <1>7, <1>8, HasLargest
<1>10. MaxPrice = Max(all) BY DEF MaxPrice
<1> QED BY <1>2, <1>3, <1>7, <1>9, <1>10
(* What a set of units is due, and what some threads may have in flight.      *)
LEMMA Dues ==
  \A c \in Cells :
    /\ Due(c, {}) = 0 /\ Due(c, Units) = Total(Price[c])
    /\ \A A \in SUBSET Units : Due(c, A) \in Nat /\ Due(c, A) <= Flight(Cardinality(A))
    /\ \A A \in SUBSET Units : \A u \in Units \ A : Due(c, A \cup {u}) = Due(c, A) + Price[c][u]
<1> SUFFICES ASSUME NEW c \in Cells
             PROVE  /\ Due(c, {}) = 0 /\ Due(c, Units) = Total(Price[c])
                    /\ \A A \in SUBSET Units : Due(c, A) \in Nat /\ Due(c, A) <= Flight(Cardinality(A))
                    /\ \A A \in SUBSET Units : \A u \in Units \ A : Due(c, A \cup {u}) = Due(c, A) + Price[c][u]
  OBVIOUS
<1> DEFINE bill(A) == [u \in A |-> Price[c][u]]
<1>1. IsFiniteSet(Units) /\ Price[c] \in [Units -> Nat] /\ \A u \in Units : Price[c][u] \in Nat /\ Price[c][u] <= MaxPrice
  BY Prices, BatchAssumption
<1>2. MaxPrice \in Nat BY Prices
<1>3. ASSUME NEW A \in SUBSET Units PROVE bill(A) \in [A -> Nat] /\ IsFiniteSet(A) BY <1>1, FS_Subset
<1>4. Due(c, {}) = 0
  <2>1. bill({}) \in [{} -> Nat] BY <1>3
  <2> QED BY <2>1, SumOfNone DEF Due
<1>5. Due(c, Units) = Total(Price[c])
  <2>1. bill(Units) = Price[c] BY <1>1
  <2> QED BY <2>1 DEF Due
<1>6. ASSUME NEW A \in SUBSET Units
      PROVE  IsFiniteSet(Pairs(bill(A))) /\ Due(c, A) \in Nat /\ Due(c, A) <= Flight(Cardinality(A))
  <2>1. \A u \in A : bill(A)[u] <= MaxPrice BY <1>1
  <2>2. Due(c, A) = Total(bill(A)) BY DEF Due
  <2>3. bill(A) \in [A -> Nat] /\ IsFiniteSet(A) BY <1>3
  <2> HIDE DEF bill
  <2>4. IsFiniteSet(Pairs(bill(A))) /\ Total(bill(A)) \in Nat BY <2>3, SumIsNat
  <2>5. Total(bill(A)) <= Cardinality(A) * MaxPrice BY <1>2, <2>1, <2>3, SumBound
  <2> QED BY <2>2, <2>4, <2>5 DEF Flight
<1>7. ASSUME NEW A \in SUBSET Units, NEW u \in Units \ A PROVE Due(c, A \cup {u}) = Due(c, A) + Price[c][u]
  <2>1. Due(c, A) = Total(bill(A)) /\ Due(c, A \cup {u}) = Total(bill(A \cup {u})) BY DEF Due
  <2>2. bill(A \cup {u})[u] = Price[c][u] /\ \A v \in A : bill(A \cup {u})[v] = bill(A)[v] OBVIOUS
  <2>3. bill(A) \in [A -> Nat] /\ bill(A \cup {u}) \in [A \cup {u} -> Nat] BY <1>3
  <2>4. IsFiniteSet(Pairs(bill(A))) BY <1>6
  <2> HIDE DEF bill
  <2>5. Total(bill(A \cup {u})) = Total(bill(A)) + bill(A \cup {u})[u] BY <2>2, <2>3, <2>4, SumGrows
  <2> QED BY <2>1, <2>2, <2>5
<1> QED BY <1>4, <1>5, <1>6, <1>7

LEMMA Flights ==
  /\ \A n \in Nat : Flight(n) \in Nat /\ Flight(n + 1) = Flight(n) + MaxPrice
  /\ \A m, n \in Nat : m <= n => Flight(m) <= Flight(n)
<1>1. MaxPrice \in Nat BY Prices
<1>2. \A n \in Nat : Flight(n) \in Nat /\ Flight(n + 1) = Flight(n) + MaxPrice BY <1>1 DEF Flight
<1>3. ASSUME NEW m \in Nat, NEW n \in Nat, m <= n PROVE Flight(m) <= Flight(n)
  <2>1. n - m \in Nat /\ n * MaxPrice = m * MaxPrice + (n - m) * MaxPrice BY <1>1, <1>3
  <2>2. (n - m) * MaxPrice \in Nat BY <1>1, <2>1
  <2> QED BY <1>1, <2>1, <2>2 DEF Flight
<1> QED BY <1>2, <1>3

LEMMA UnitSets == \A A \in SUBSET Units : IsFiniteSet(A) /\ Cardinality(A) \in Nat
BY FS_Subset, FS_CardinalityType, BatchAssumption
-----------------------------------------------------------------------------
(* A step that moves one unit: who is busy, and who is at which phase.        *)
LEMMA PhaseMoves ==
  ASSUME job \in [Units -> Jobs], NEW u \in Units, job' \in [Units -> Jobs],
         \A v \in Units \ {u} : job'[v] = job[v]
  PROVE  /\ \A phase : At(phase)' = IF job'[u].phase = phase THEN At(phase) \cup {u} ELSE At(phase) \ {u}
         /\ Busy' = IF job'[u].phase \in {"turns", "mistake", "account"} THEN Busy \cup {u} ELSE Busy \ {u}
         /\ u \notin Busy => Cardinality(Busy \cup {u}) = Cardinality(Busy) + 1
         /\ u \in Busy => Busy \cup {u} = Busy /\ Cardinality(Busy \ {u}) = Cardinality(Busy) - 1
         /\ u \notin Busy => Busy \ {u} = Busy
<1>1. \A phase : At(phase)' = IF job'[u].phase = phase THEN At(phase) \cup {u} ELSE At(phase) \ {u} BY DEF At
<1>2. Busy' = IF job'[u].phase \in {"turns", "mistake", "account"} THEN Busy \cup {u} ELSE Busy \ {u} BY DEF Busy
<1>3. IsFiniteSet(Busy) BY UnitSets DEF Busy
<1>4. /\ Cardinality(Busy \cup {u}) = IF u \in Busy THEN Cardinality(Busy) ELSE Cardinality(Busy) + 1
      /\ Cardinality(Busy \ {u}) = IF u \in Busy THEN Cardinality(Busy) - 1 ELSE Cardinality(Busy)
  BY <1>3, FS_AddElement, FS_RemoveElement
<1> QED BY <1>1, <1>2, <1>4

LEMMA Moved ==
  ASSUME job \in [Units -> Jobs], NEW u \in Units, NEW phase \in Phases, MoveTo(u, phase)
  PROVE  /\ job' \in [Units -> Jobs] /\ \A v \in Units \ {u} : job'[v] = job[v]
         /\ job'[u].phase = phase /\ job'[u].attempts = job[u].attempts
<1>1. job[u] \in Jobs OBVIOUS
<1>2. [job[u] EXCEPT !.phase = phase] \in Jobs BY <1>1 DEF Jobs
<1>3. job' = [job EXCEPT ![u] = [job[u] EXCEPT !.phase = phase]] BY DEF MoveTo
<1>4. job'[u] = [job[u] EXCEPT !.phase = phase] BY <1>3
<1>5. job'[u].phase = phase /\ job'[u].attempts = job[u].attempts BY <1>1, <1>4 DEF Jobs
<1> QED BY <1>2, <1>3, <1>5

LEMMA FileSet ==
  ASSUME Shape, Running, NEW u \in Units, NEW f \in File, SetFile(u, f)
  PROVE  /\ files' \in [Cells -> [Units -> File]] /\ files'[proc.cell][u] = f
         /\ \A c \in Cells, v \in Units : <<c, v>> # <<proc.cell, u>> => files'[c][v] = files[c][v]
         /\ \A c \in Cells \ {proc.cell} : files'[c] = files[c]
<1>1. proc.cell \in Cells /\ files \in [Cells -> [Units -> File]] BY DEF Shape, Process
<1>2. files' = [files EXCEPT ![proc.cell] = [files[proc.cell] EXCEPT ![u] = f]] BY DEF SetFile
<1> QED BY <1>1, <1>2

LEMMA MaterializedIs ==
  ASSUME NEW f \in File
  PROVE  Materialized(f) \in File /\ Materialized(f).result = f.result
BY DEF File, Materialized

(* Enter: a result on disk is taken as it is; without one the unit is made    *)
(* anew, or with --force beside its result.                                   *)
LEMMA Entered ==
  ASSUME Shape, Running, NEW u \in Units, job[u].phase \in {"queued", "mistake"}, job[u].attempts <= Retries, Enter(u)
  PROVE  /\ job' \in [Units -> Jobs] /\ \A v \in Units \ {u} : job'[v] = job[v]
         /\ job'[u].phase \in {"account", "raised", "turns"}
         /\ UnitFile(u).result = "none" => job'[u].phase = "turns"
         /\ files' \in [Cells -> [Units -> File]]
         /\ \A c \in Cells \ {proc.cell} : files'[c] = files[c]
         /\ \A v \in Units \ {u} : files'[proc.cell][v] = files[proc.cell][v]
         /\ files'[proc.cell][u].result = files[proc.cell][u].result
         /\ history' \in Past /\ \A c \in Cells, v \in Units : <<c, v>> \in history.redone => <<c, v>> \in history'.redone
         /\ \/ files' = files
            \/ files[proc.cell][u].result # "none" => <<proc.cell, u>> \in history'.redone
         /\ history' = [history EXCEPT !.redone = history'.redone]
<1>1. /\ proc.cell \in Cells /\ files \in [Cells -> [Units -> File]] /\ files[proc.cell][u] \in File
      /\ job \in [Units -> Jobs] /\ job[u] \in Jobs /\ history \in Past /\ Retries \in Nat
  BY BatchAssumption DEF Shape, Process
<1>2. CASE ~proc.force /\ UnitFile(u).result # "none"
  <2>1. /\ MoveTo(u, IF UnitFile(u).result = "whole" THEN "account" ELSE "raised")
        /\ files' = files /\ history' = history
    BY <1>2 DEF Enter
  <2>2. PICK phase \in {"account", "raised"} : MoveTo(u, phase) BY <2>1
  <2>3. /\ job' \in [Units -> Jobs] /\ \A v \in Units \ {u} : job'[v] = job[v]
        /\ job'[u].phase = phase
    BY <1>1, <2>2, Moved DEF Phases
  <2>4. history' = [history EXCEPT !.redone = history'.redone] BY <1>1, <2>1 DEF Past
  <2> QED BY <1>1, <1>2, <2>1, <2>2, <2>3, <2>4
<1>3. CASE ~(~proc.force /\ UnitFile(u).result # "none")
  <2>1. /\ job' = [job EXCEPT ![u] = [phase |-> "turns", attempts |-> @.attempts + 1]]
        /\ SetFile(u, Materialized(UnitFile(u)))
        /\ history' = [history EXCEPT !.redone = @ \cup (IF UnitFile(u).result = "none" THEN {} ELSE {<<proc.cell, u>>})]
    BY <1>3 DEF Enter
  <2>2. [phase |-> "turns", attempts |-> job[u].attempts + 1] \in Jobs BY <1>1 DEF Jobs, Phases
  <2>3. job' \in [Units -> Jobs] /\ job'[u].phase = "turns" /\ \A v \in Units \ {u} : job'[v] = job[v]
    BY <1>1, <2>1, <2>2
  <2>4. Materialized(UnitFile(u)) \in File /\ Materialized(UnitFile(u)).result = files[proc.cell][u].result
    BY <1>1, MaterializedIs DEF UnitFile
  <2>5. /\ files' \in [Cells -> [Units -> File]] /\ files'[proc.cell][u] = Materialized(UnitFile(u))
        /\ \A c \in Cells, v \in Units : <<c, v>> # <<proc.cell, u>> => files'[c][v] = files[c][v]
        /\ \A c \in Cells \ {proc.cell} : files'[c] = files[c]
    BY <2>1, <2>4, FileSet
  <2>6. history' \in Past /\ history'.redone = history.redone \cup (IF UnitFile(u).result = "none" THEN {} ELSE {<<proc.cell, u>>})
    BY <1>1, <2>1 DEF Past
  <2>7. history' = [history EXCEPT !.redone = history'.redone] BY <1>1, <2>1, <2>6
  <2>8. \A v \in Units \ {u} : files'[proc.cell][v] = files[proc.cell][v] BY <1>1, <2>5
  <2>9. files[proc.cell][u].result # "none" => <<proc.cell, u>> \in history'.redone BY <2>6 DEF UnitFile
  <2>10. files'[proc.cell][u].result = files[proc.cell][u].result BY <2>4, <2>5
  <2>11. \A c \in Cells, v \in Units : <<c, v>> \in history.redone => <<c, v>> \in history'.redone BY <2>6
  <2> QED BY <2>3, <2>5, <2>6, <2>7, <2>8, <2>9, <2>10, <2>11
<1> QED BY <1>2, <1>3
LEMMA Fields ==
  ASSUME Shape
  PROVE  /\ proc.cell \in Cells /\ proc.spent \in Nat /\ proc.allowance \in Nat
         /\ proc.running \in BOOLEAN /\ proc.lost \in BOOLEAN /\ proc.aborted \in BOOLEAN
         /\ history.waved \in SUBSET Cells /\ history.whole \in SUBSET Cells
         /\ history.redone \in SUBSET (Cells \X Units)
         /\ Busy \in SUBSET Units /\ Cardinality(Busy) \in Nat /\ Workers \in Nat /\ Retries \in Nat
         /\ \A phase : At(phase) \in SUBSET Units
         /\ Booked \in Nat /\ BatchStop \in Nat
<1>1. Busy \in SUBSET Units /\ \A phase : At(phase) \in SUBSET Units BY DEF Busy, At
<1>2. Booked \in Nat BY SumIsNat, BatchAssumption DEF Shape, Booked
<1>3. Cardinality(Busy) \in Nat BY <1>1, UnitSets
<1> QED BY <1>1, <1>2, <1>3, BatchAssumption DEF Shape, Process, Past

-----------------------------------------------------------------------------
(* What is between the waves: nothing is paid or booked by preparing a cell.  *)
LEMMA PrepareKeeps == ASSUME BatchInv, NEW c \in Cells, Prepare(c) PROVE BatchInv'
<1>1. /\ ~Running /\ proc' = proc /\ job' = job /\ waves' = waves /\ probed' = probed /\ book' = book /\ charged' = charged
      /\ files' = [files EXCEPT ![c] = [u \in Units |-> Materialized(files[c][u])]]
      /\ history' = [history EXCEPT !.redone = @ \cup ({c} \X Units)]
  BY DEF Prepare
<1>2. Shape BY DEF BatchInv
<1>3. ASSUME NEW u \in Units PROVE Materialized(files[c][u]) \in File /\ Materialized(files[c][u]).result = files[c][u].result
  <2>1. files[c][u] \in File BY <1>2 DEF Shape
  <2> QED BY <2>1, MaterializedIs
<1>4. /\ files' \in [Cells -> [Units -> File]]
      /\ \A d \in Cells \ {c} : files'[d] = files[d]
      /\ \A d \in Cells, u \in Units : files'[d][u].result = files[d][u].result
  <2>1. files \in [Cells -> [Units -> File]] BY <1>2 DEF Shape
  <2>2. [u \in Units |-> Materialized(files[c][u])] \in [Units -> File] BY <1>3
  <2>3. \A u \in Units : files'[c][u] = Materialized(files[c][u]) BY <1>1, <2>1
  <2> QED BY <1>1, <1>3, <2>1, <2>2, <2>3
<1>5. /\ history' \in Past /\ history'.redone = history.redone \cup ({c} \X Units)
      /\ history'.waved = history.waved /\ history'.whole = history.whole
      /\ history'.again = history.again /\ history'.discarded = history.discarded /\ history'.apart = history.apart
  BY <1>1, <1>2 DEF Shape, Past
<1>6. Shape' BY <1>1, <1>2, <1>4, <1>5 DEF Shape, Busy
<1>7. ResultsHaveStreams'
  <2> SUFFICES ASSUME NEW d \in Cells, NEW u \in Units, files'[d][u].result = "whole", <<d, u>> \notin history'.redone
               PROVE  files'[d][u].streams
    BY DEF ResultsHaveStreams
  <2>1. d # c /\ <<d, u>> \notin history.redone BY <1>5
  <2>2. files'[d][u] = files[d][u] BY <1>4, <2>1
  <2> QED BY <2>1, <2>2 DEF BatchInv, ResultsHaveStreams
<1>8. Booking' BY <1>1, <1>5 DEF BatchInv, Booking, Bill, Due, At, Running
<1>9. FirstWaves'
  <2>1. Alone' <=> Alone BY <1>5 DEF Alone
  <2>2. Booked' = Booked /\ (Running' <=> Running) BY <1>1 DEF Booked, Running
  <2> QED BY <1>1, <1>4, <1>5, <2>1, <2>2 DEF BatchInv, FirstWaves
<1> QED BY <1>6, <1>7, <1>8, <1>9 DEF BatchInv

(* A unit run apart is outside what is claimed of first waves.                *)
LEMMA RunUnitKeeps == ASSUME BatchInv, NEW c \in Cells, NEW u \in Units, RunUnit(c, u) PROVE BatchInv'
<1>1. /\ ~Running /\ proc' = proc /\ job' = job /\ waves' = waves /\ probed' = probed /\ book' = book
  BY DEF RunUnit
<1> DEFINE Made(whole) == IF whole THEN [work |-> TRUE, streams |-> TRUE, result |-> "whole"] ELSE Materialized(files[c][u])
<1>2. PICK whole \in BOOLEAN, usd \in {0, Price[c][u]} :
        /\ files' = [files EXCEPT ![c][u] = Made(whole)]
        /\ charged' = [charged EXCEPT ![c] = @ + usd]
        /\ history' = [history EXCEPT !.apart = TRUE,
                          !.redone = IF whole THEN @ \ {<<c, u>>}
                                     ELSE @ \cup (IF files[c][u].result = "none" THEN {} ELSE {<<c, u>>})]
  BY DEF RunUnit
<1>3. Shape BY DEF BatchInv
<1>4. charged' \in [Cells -> Nat] BY <1>2, <1>3, Prices DEF Shape
<1>5. /\ files' \in [Cells -> [Units -> File]] /\ files'[c][u] = Made(whole)
      /\ \A d \in Cells, v \in Units : <<d, v>> # <<c, u>> => files'[d][v] = files[d][v]
  <2>1. files \in [Cells -> [Units -> File]] /\ files[c][u] \in File BY <1>3 DEF Shape
  <2>2. Made(whole) \in File BY <2>1 DEF File, Materialized
  <2>3. files' = [files EXCEPT ![c] = [files[c] EXCEPT ![u] = Made(whole)]] BY <1>2
  <2> HIDE DEF Made
  <2> QED BY <2>1, <2>2, <2>3
<1>6. /\ history' \in Past /\ history'.whole = history.whole /\ history'.apart
      /\ \A d \in Cells, v \in Units : <<d, v>> # <<c, u>> => (<<d, v>> \in history'.redone <=> <<d, v>> \in history.redone)
  <2>1. history \in Past BY <1>3 DEF Shape
  <2> DEFINE R == IF whole THEN history.redone \ {<<c, u>>}
                  ELSE history.redone \cup (IF files[c][u].result = "none" THEN {} ELSE {<<c, u>>})
  <2>2. history' = [history EXCEPT !.apart = TRUE, !.redone = R] BY <1>2, <2>1 DEF Past
  <2>3. /\ R \subseteq Cells \X Units
        /\ \A d \in Cells, v \in Units : <<d, v>> # <<c, u>> => (<<d, v>> \in R <=> <<d, v>> \in history.redone)
    BY <2>1 DEF Past
  <2> HIDE DEF R
  <2> QED BY <2>1, <2>2, <2>3 DEF Past
<1>7. Shape' BY <1>1, <1>3, <1>4, <1>5, <1>6 DEF Shape, Busy
<1>8. files'[c][u].result = "whole" /\ <<c, u>> \notin history'.redone => files'[c][u].streams
  <2>1. CASE whole BY <1>5, <2>1
  <2>2. CASE ~whole
    <3>1. files'[c][u].result = files[c][u].result BY <1>5, <2>2 DEF Materialized
    <3>2. files[c][u].result # "none" => <<c, u>> \in history'.redone BY <1>2, <1>3, <2>2 DEF Shape, Past
    <3> QED BY <3>1, <3>2
  <2> QED BY <2>1, <2>2
<1>9. ResultsHaveStreams' BY <1>5, <1>6, <1>8 DEF BatchInv, ResultsHaveStreams
<1>10. Booking' BY <1>1, <1>6 DEF BatchInv, Booking, Bill, Due, At, Running
<1>11. FirstWaves' BY <1>6 DEF FirstWaves, Alone
<1> QED BY <1>7, <1>9, <1>10, <1>11 DEF BatchInv

(* A wave starts with what the batch has left.                                *)
LEMMA StartKeeps == ASSUME BatchInv, NEW asked \in Requests, Start(asked) PROVE BatchInv'
<1>1. /\ ~Running /\ waves < MaxWaves /\ Allowance > 0 /\ waves' = waves + 1
      /\ proc' = [cell |-> asked.cell, force |-> asked.force, running |-> TRUE, lost |-> FALSE,
                  allowance |-> Allowance, spent |-> 0, aborted |-> FALSE]
      /\ job' = [u \in Units |-> [Idle EXCEPT !.phase = IF u \in asked.only THEN "queued" ELSE "absent"]]
      /\ history' = [history EXCEPT !.waved = @ \cup {asked.cell}, !.again = @ \/ asked.cell \in history.waved,
                                    !.whole = @ \ {asked.cell}]
      /\ files' = files /\ probed' = probed /\ book' = book /\ charged' = charged
  BY DEF Start
<1>2. Shape BY DEF BatchInv
<1>3. asked.cell \in Cells /\ asked.force \in BOOLEAN /\ asked.only \subseteq Units BY BatchAssumption
<1>4. Allowance \in Nat /\ Allowance = BatchStop - Booked BY <1>1, <1>2, Fields DEF Allowance
<1>5. proc' \in Process /\ proc'.cell = asked.cell /\ proc'.spent = 0 /\ proc'.allowance = Allowance /\ ~proc'.lost
      /\ ~proc'.aborted /\ Running'
  BY <1>1, <1>3, <1>4 DEF Process, Running
<1>6. \A u \in Units : job'[u] = [phase |-> IF u \in asked.only THEN "queued" ELSE "absent", attempts |-> 0]
  BY <1>1 DEF Idle
<1>7. job' \in [Units -> Jobs] /\ \A u \in Units : job'[u].phase \in {"queued", "absent"} /\ job'[u].attempts = 0
  <2>1. 0 \in 0 .. Retries + 1 BY <1>2, Fields
  <2>2. ASSUME NEW u \in Units PROVE job'[u] \in Jobs /\ job'[u].phase \in {"queued", "absent"} /\ job'[u].attempts = 0
    <3>1. PICK phase \in {"queued", "absent"} : job'[u] = [phase |-> phase, attempts |-> 0] BY <1>6
    <3>2. [phase |-> phase, attempts |-> 0] \in Jobs BY <2>1 DEF Jobs, Phases
    <3> QED BY <3>1, <3>2
  <2> QED BY <1>1, <2>2
<1>8. /\ history' \in Past /\ history'.waved = history.waved \cup {asked.cell} /\ history'.whole = history.whole \ {asked.cell}
      /\ history'.redone = history.redone /\ history'.discarded = history.discarded /\ history'.apart = history.apart
      /\ history'.again = (history.again \/ asked.cell \in history.waved)
  BY <1>1, <1>2, <1>3 DEF Shape, Past
<1>9. Busy' = {} /\ At("done")' = {} /\ At("account")' = {} /\ Cardinality(Busy)' = 0
  <2>1. Busy' = {} BY <1>7 DEF Busy
  <2>2. At("done")' = {} /\ At("account")' = {} BY <1>7 DEF At
  <2> QED BY <2>1, <2>2, FS_EmptySet
<1>10. Shape'
  <2>1. waves' \in 0 .. MaxWaves BY <1>1, <1>2, BatchAssumption DEF Shape
  <2>2. Cardinality(Busy)' <= Workers BY <1>2, <1>9, Fields
  <2> QED BY <1>1, <1>2, <1>5, <1>7, <1>8, <2>1, <2>2 DEF Shape
<1>11. ResultsHaveStreams' BY <1>1, <1>8 DEF BatchInv, ResultsHaveStreams
<1>12. Bill(At("done"))' = 0 /\ Bill(At("account"))' = 0 BY <1>3, <1>5, <1>9, Dues DEF Bill
<1>13. Booking'
  <2>1. \A c \in history'.whole : c \in history.whole /\ book'[c] = book[c] BY <1>1, <1>8
  <2> QED BY <1>5, <1>8, <1>12, <2>1 DEF BatchInv, Booking
<1>14. FirstWaves'
  <2> SUFFICES ASSUME Alone'
               PROVE  /\ \A c \in Cells \ history'.waved :
                            book'[c] = 0 /\ charged'[c] = 0 /\ \A u \in Units : files'[c][u].result = "none"
                      /\ Ahead'
    BY <1>5 DEF FirstWaves
  <2>1. Alone /\ asked.cell \notin history.waved BY <1>8 DEF Alone
  <2>2. /\ \A c \in Cells \ history.waved :
             book[c] = 0 /\ charged[c] = 0 /\ \A u \in Units : files[c][u].result = "none"
        /\ charged = book
    BY <1>1, <2>1 DEF BatchInv, FirstWaves
  <2>3. Ahead'
    <3>1. book'[proc'.cell] = 0 /\ proc'.cell \in history'.waved BY <1>1, <1>3, <1>5, <1>8, <2>1, <2>2
    <3>2. proc'.allowance = BatchStop - Booked' BY <1>1, <1>4, <1>5 DEF Booked
    <3>3. charged' = [book' EXCEPT ![proc'.cell] = proc'.spent + Bill(At("account"))']
      <4>1. book \in [Cells -> Nat] BY <1>2 DEF Shape
      <4>2. book = [book EXCEPT ![asked.cell] = 0] BY <1>3, <2>1, <2>2, <4>1
      <4>3. proc'.spent + Bill(At("account"))' = 0 BY <1>5, <1>12
      <4> QED BY <1>1, <1>5, <2>2, <4>2, <4>3
    <3>4. \A u \in Units : /\ job'[u].phase \in Phases \ {"mistake", "failed", "raised"}
                           /\ UnitFile(u)'.result = "none"
      <4>1. ASSUME NEW u \in Units PROVE UnitFile(u)'.result = "none" BY <1>1, <1>3, <1>5, <2>1, <2>2 DEF UnitFile
      <4> QED BY <1>7, <4>1 DEF Phases
    <3>5. proc'.spent <= proc'.allowance BY <1>4, <1>5
    <3>6. proc'.spent + Flight(Cardinality(Busy))' <= proc'.allowance + Flight(Workers)
      <4>1. Flight(0) <= Flight(Workers) /\ Flight(0) \in Nat /\ Flight(Workers) \in Nat BY <1>2, Flights, Fields
      <4>2. Flight(Cardinality(Busy))' = Flight(0) BY <1>9 DEF Flight
      <4> QED BY <1>4, <1>5, <4>1, <4>2
    <3> QED BY <1>5, <3>1, <3>2, <3>3, <3>4, <3>5, <3>6 DEF Ahead
  <2> QED BY <1>1, <1>8, <2>2, <2>3
<1> QED BY <1>10, <1>11, <1>13, <1>14 DEF BatchInv
-----------------------------------------------------------------------------
(* A unit is run: none of it is booked yet, and the stop is passed by nobody  *)
(* who was not at work when it was met.                                       *)
LEMMA EnterKeeps ==
  ASSUME BatchInv, Running, NEW u \in Units, job[u].phase \in {"queued", "mistake"}, job[u].attempts <= Retries,
         job[u].phase = "queued" => Cardinality(Busy) < Workers /\ ~proc.aborted,
         Enter(u), UNCHANGED <<proc, waves, probed, book, charged>>
  PROVE  BatchInv'
<1>1. Shape BY DEF BatchInv
<1>2. /\ job' \in [Units -> Jobs] /\ \A v \in Units \ {u} : job'[v] = job[v]
      /\ job'[u].phase \in {"account", "raised", "turns"}
      /\ UnitFile(u).result = "none" => job'[u].phase = "turns"
  BY <1>1, Entered
<1>3. /\ files' \in [Cells -> [Units -> File]]
      /\ \A c \in Cells \ {proc.cell} : files'[c] = files[c]
      /\ \A v \in Units \ {u} : files'[proc.cell][v] = files[proc.cell][v]
      /\ files'[proc.cell][u].result = files[proc.cell][u].result
      /\ files' = files \/ (files[proc.cell][u].result # "none" => <<proc.cell, u>> \in history'.redone)
  BY <1>1, Entered
<1>4. /\ history' \in Past /\ history' = [history EXCEPT !.redone = history'.redone]
      /\ \A c \in Cells, v \in Units : <<c, v>> \in history.redone => <<c, v>> \in history'.redone
  BY <1>1, Entered
<1>5. /\ history'.waved = history.waved /\ history'.whole = history.whole
      /\ history'.again = history.again /\ history'.discarded = history.discarded /\ history'.apart = history.apart
  BY <1>1, <1>4 DEF Shape, Past
<1>6. job \in [Units -> Jobs] BY <1>1 DEF Shape
<1>7. /\ \A phase : At(phase)' = IF job'[u].phase = phase THEN At(phase) \cup {u} ELSE At(phase) \ {u}
      /\ Busy' = IF job'[u].phase \in {"turns", "mistake", "account"} THEN Busy \cup {u} ELSE Busy \ {u}
      /\ u \notin Busy => Cardinality(Busy \cup {u}) = Cardinality(Busy) + 1
      /\ u \in Busy => Busy \cup {u} = Busy /\ Cardinality(Busy \ {u}) = Cardinality(Busy) - 1
      /\ u \notin Busy => Busy \ {u} = Busy
  BY <1>2, <1>6, PhaseMoves
<1>8. u \in Busy <=> job[u].phase = "mistake" BY DEF Busy
<1>9. Cardinality(Busy)' <= Workers
  <2>1. Cardinality(Busy) \in Nat /\ Workers \in Nat /\ Cardinality(Busy) <= Workers BY <1>1, Fields DEF Shape
  <2>2. CASE u \in Busy
    <3>1. Busy' = Busy \/ Busy' = Busy \ {u} BY <1>7, <2>2
    <3>2. Cardinality(Busy)' = Cardinality(Busy) \/ Cardinality(Busy)' = Cardinality(Busy) - 1 BY <1>7, <2>2, <3>1
    <3> QED BY <2>1, <3>2
  <2>3. CASE u \notin Busy
    <3>1. Cardinality(Busy) < Workers BY <1>8, <2>3
    <3>2. Busy' = Busy \/ Busy' = Busy \cup {u} BY <1>7, <2>3
    <3>3. Cardinality(Busy)' = Cardinality(Busy) \/ Cardinality(Busy)' = Cardinality(Busy) + 1 BY <1>7, <2>3, <3>2
    <3> QED BY <2>1, <3>1, <3>3
  <2> QED BY <2>2, <2>3
<1>10. At("done")' = At("done") /\ (At("raised") # {} => At("raised")' # {})
  <2>1. u \notin At("done") /\ u \notin At("raised") BY DEF At
  <2> QED BY <1>2, <1>7, <2>1
<1>11. Shape' BY <1>1, <1>2, <1>3, <1>4, <1>9 DEF Shape
<1>12. ResultsHaveStreams'
  <2> SUFFICES ASSUME NEW c \in Cells, NEW v \in Units, files'[c][v].result = "whole", <<c, v>> \notin history'.redone
               PROVE  files'[c][v].streams
    BY DEF ResultsHaveStreams
  <2>1. files'[c][v] = files[c][v]
    <3>1. CASE files' = files BY <3>1
    <3>2. CASE files' # files
      <4>1. <<c, v>> # <<proc.cell, u>> BY <1>3, <3>2
      <4>2. c # proc.cell \/ v # u BY <4>1
      <4> QED BY <1>3, <4>2
    <3> QED BY <3>1, <3>2
  <2> QED BY <1>4, <2>1 DEF BatchInv, ResultsHaveStreams
<1>13. Booking'
  <2>1. Bill(At("done"))' = Bill(At("done")) BY <1>10 DEF Bill, Due
  <2> QED BY <1>5, <1>10, <2>1 DEF BatchInv, Booking, Running
<1>14. FirstWaves'
  <2> SUFFICES ASSUME Alone'
               PROVE  /\ \A c \in Cells \ history'.waved :
                            book'[c] = 0 /\ charged'[c] = 0 /\ \A v \in Units : files'[c][v].result = "none"
                      /\ Ahead'
    BY DEF FirstWaves, Running
  <2>1. Alone BY <1>5 DEF Alone
  <2>2. /\ \A c \in Cells \ history.waved :
             book[c] = 0 /\ charged[c] = 0 /\ \A v \in Units : files[c][v].result = "none"
        /\ Ahead
    BY <2>1 DEF BatchInv, FirstWaves
  <2>3. proc.cell \in history.waved BY <2>2 DEF Ahead
  <2>4. \A c \in Cells \ history'.waved : files'[c] = files[c] BY <1>3, <1>5, <2>3
  <2>5. job[u].phase = "queued" /\ job'[u].phase = "turns" BY <1>2, <2>2 DEF Ahead
  <2>6. u \notin Busy /\ Busy' = Busy \cup {u} /\ Cardinality(Busy)' = Cardinality(Busy) + 1 /\ Cardinality(Busy) + 1 <= Workers
    BY <1>1, <1>7, <1>8, <2>5, Fields
  <2>7. At("account")' = At("account")
    <3>1. u \notin At("account") BY <2>5 DEF At
    <3> QED BY <1>7, <2>5, <3>1
  <2>8. Bill(At("account"))' = Bill(At("account")) BY <2>7 DEF Bill, Due
  <2>9. proc.spent + Flight(Cardinality(Busy))' <= proc.allowance + Flight(Workers)
    <3>1. proc.spent <= proc.allowance BY <2>2, <2>5 DEF Ahead
    <3>2. Flight(Cardinality(Busy) + 1) <= Flight(Workers) /\ Flight(Cardinality(Busy) + 1) \in Nat /\ Flight(Workers) \in Nat
      BY <1>1, <2>6, Flights, Fields
    <3>3. Flight(Cardinality(Busy))' = Flight(Cardinality(Busy) + 1) BY <2>6 DEF Flight
    <3> QED BY <1>1, <3>1, <3>2, <3>3, Fields
  <2>10. \A v \in Units : /\ job'[v].phase \in Phases \ {"mistake", "failed", "raised"}
                          /\ job'[v].phase = "queued" => UnitFile(v)'.result = "none"
    <3> SUFFICES ASSUME NEW v \in Units
                 PROVE  /\ job'[v].phase \in Phases \ {"mistake", "failed", "raised"}
                        /\ job'[v].phase = "queued" => UnitFile(v)'.result = "none"
      OBVIOUS
    <3>1. CASE v = u BY <2>5, <3>1 DEF Phases
    <3>2. CASE v # u
      <4>1. job'[v] = job[v] /\ UnitFile(v)' = UnitFile(v) BY <1>2, <1>3, <3>2 DEF UnitFile
      <4> QED BY <2>2, <4>1 DEF Ahead
    <3> QED BY <3>1, <3>2
  <2>11. Ahead' BY <1>5, <2>2, <2>8, <2>9, <2>10 DEF Ahead, Booked
  <2> QED BY <1>5, <2>2, <2>4, <2>11
<1> QED BY <1>11, <1>12, <1>13, <1>14 DEF BatchInv

(* A step that moves a unit to a phase where nothing is accounted for, and    *)
(* leaves the files: the abort only ends what might be taken.                 *)
LEMMA MoveKeeps ==
  ASSUME BatchInv, Running, NEW u \in Units, NEW phase \in {"skipped", "failed"}, MoveTo(u, phase),
         job[u].phase \in {"queued", "mistake"}, phase = "failed" => job[u].phase = "mistake",
         proc' = proc \/ proc' = [proc EXCEPT !.aborted = TRUE],
         UNCHANGED <<waves, files, probed, book, charged, history>>
  PROVE  BatchInv'
<1>1. Shape BY DEF BatchInv
<1>2. /\ proc' \in Process /\ proc'.cell = proc.cell /\ proc'.running = proc.running /\ proc'.lost = proc.lost
      /\ proc'.allowance = proc.allowance /\ proc'.spent = proc.spent /\ (proc.aborted => proc'.aborted)
  BY <1>1 DEF Shape, Process
<1>3. /\ job' \in [Units -> Jobs] /\ \A v \in Units \ {u} : job'[v] = job[v]
      /\ job'[u].phase = phase
  BY <1>1, Moved DEF Shape, Phases
<1>4. job \in [Units -> Jobs] BY <1>1 DEF Shape
<1>5. /\ \A ph : At(ph)' = IF job'[u].phase = ph THEN At(ph) \cup {u} ELSE At(ph) \ {u}
      /\ Busy' = IF job'[u].phase \in {"turns", "mistake", "account"} THEN Busy \cup {u} ELSE Busy \ {u}
      /\ u \in Busy => Cardinality(Busy \ {u}) = Cardinality(Busy) - 1
      /\ u \notin Busy => Busy \ {u} = Busy
  BY <1>3, <1>4, PhaseMoves
<1>6. Busy' = Busy \ {u} BY <1>3, <1>5
<1>7. Cardinality(Busy)' \in Nat /\ Cardinality(Busy)' <= Cardinality(Busy)
  <2>1. Busy \ {u} \in SUBSET Units BY <1>1, Fields
  <2>2. Cardinality(Busy \ {u}) \in Nat /\ Cardinality(Busy) \in Nat BY <1>1, <2>1, UnitSets, Fields
  <2>3. Cardinality(Busy)' = Cardinality(Busy \ {u}) BY <1>6
  <2>4. Cardinality(Busy \ {u}) <= Cardinality(Busy)
    <3>1. CASE u \in Busy BY <1>5, <2>2, <3>1
    <3>2. CASE u \notin Busy
      <4>1. Busy \ {u} = Busy BY <3>2
      <4> QED BY <2>2, <4>1
    <3> QED BY <3>1, <3>2
  <2> QED BY <2>2, <2>3, <2>4
<1>8. Shape' BY <1>1, <1>2, <1>3, <1>7, Fields DEF Shape
<1>9. At("done")' = At("done") /\ At("account")' = At("account") /\ At("raised")' = At("raised")
  <2>1. u \notin At("done") /\ u \notin At("account") /\ u \notin At("raised") BY DEF At
  <2> QED BY <1>3, <1>5, <2>1
<1>10. Bill(At("done"))' = Bill(At("done")) /\ Bill(At("account"))' = Bill(At("account")) BY <1>2, <1>9 DEF Bill, Due
<1>11. Booking' BY <1>2, <1>9, <1>10 DEF BatchInv, Booking, Running
<1>12. FirstWaves'
  <2> SUFFICES ASSUME Alone' PROVE Ahead' /\ Alone
    BY <1>2 DEF BatchInv, FirstWaves, Running, Alone
  <2>1. Alone BY DEF Alone
  <2>2. Ahead BY <2>1 DEF BatchInv, FirstWaves
  <2>3. phase = "skipped" BY <2>2 DEF Ahead
  <2>4. \A v \in Units : /\ job'[v].phase \in Phases \ {"mistake", "failed", "raised"}
                         /\ job'[v].phase = "queued" => UnitFile(v)'.result = "none"
    <3> SUFFICES ASSUME NEW v \in Units
                 PROVE  /\ job'[v].phase \in Phases \ {"mistake", "failed", "raised"}
                        /\ job'[v].phase = "queued" => UnitFile(v)'.result = "none"
      OBVIOUS
    <3>1. CASE v = u BY <1>3, <2>3, <3>1 DEF Phases
    <3>2. CASE v # u
      <4>1. job'[v] = job[v] /\ UnitFile(v)' = UnitFile(v) BY <1>2, <1>3, <3>2 DEF UnitFile
      <4> QED BY <2>2, <4>1 DEF Ahead
    <3> QED BY <3>1, <3>2
  <2>5. proc.spent + Flight(Cardinality(Busy))' <= proc.allowance + Flight(Workers)
    <3>1. PICK n \in Nat : n = Cardinality(Busy)' BY <1>7
    <3>2. Flight(n) <= Flight(Cardinality(Busy)) /\ Flight(n) \in Nat /\ Flight(Cardinality(Busy)) \in Nat /\ Flight(Workers) \in Nat
      BY <1>1, <1>7, <3>1, Flights, Fields
    <3>3. Flight(Cardinality(Busy))' = Flight(n) BY <3>1 DEF Flight
    <3> QED BY <1>1, <2>2, <3>2, <3>3, Fields DEF Ahead
  <2>6. Ahead' BY <1>2, <1>10, <2>2, <2>4, <2>5 DEF Ahead, Booked
  <2> QED BY <2>1, <2>6
<1>13. ResultsHaveStreams' BY DEF BatchInv, ResultsHaveStreams
<1> QED BY <1>8, <1>11, <1>12, <1>13 DEF BatchInv

LEMMA TakeKeeps == ASSUME BatchInv, NEW u \in Units, Take(u) PROVE BatchInv'
<1>1. /\ Running /\ job[u].phase = "queued" /\ Cardinality(Busy) < Workers
      /\ UNCHANGED <<proc, waves, probed, book, charged>>
  BY DEF Take
<1>2. CASE proc.aborted BY <1>1, <1>2, MoveKeeps DEF Take
<1>3. CASE ~proc.aborted
  <2>1. Enter(u) BY <1>3 DEF Take
  <2>2. job[u].attempts <= Retries BY <1>1, BatchAssumption DEF BatchInv, Shape
  <2> QED BY <1>1, <1>3, <2>1, <2>2, EnterKeeps
<1> QED BY <1>2, <1>3

LEMMA AgainKeeps == ASSUME BatchInv, NEW u \in Units, Again(u) PROVE BatchInv'
<1>1. Running /\ job[u].phase = "mistake" /\ UNCHANGED <<waves, probed, book, charged>> BY DEF Again
<1>2. CASE job[u].attempts > Retries
  <2>1. MoveTo(u, "failed") /\ proc' = [proc EXCEPT !.aborted = TRUE] /\ UNCHANGED <<files, history>> BY <1>2 DEF Again
  <2> QED BY <1>1, <2>1, MoveKeeps
<1>3. CASE ~(job[u].attempts > Retries)
  <2>1. Enter(u) /\ UNCHANGED proc BY <1>3 DEF Again
  <2>2. job[u].attempts <= Retries
    <3>1. job[u] \in Jobs /\ Retries \in Nat BY BatchAssumption DEF BatchInv, Shape
    <3>2. job[u].attempts \in Nat BY <3>1 DEF Jobs
    <3> QED BY <1>3, <3>1, <3>2
  <2> QED BY <1>1, <2>1, <2>2, EnterKeeps
<1> QED BY <1>2, <1>3
(* A unit whose turns are over moves on; the units in flight stay as many.    *)
LEMMA TurnMoves ==
  ASSUME Shape, Running, NEW u \in Units, job[u].phase = "turns", NEW phase \in {"account", "mistake", "raised"},
         MoveTo(u, phase)
  PROVE  /\ job' \in [Units -> Jobs] /\ job'[u].phase = phase /\ \A v \in Units \ {u} : job'[v] = job[v]
         /\ \A ph : At(ph)' = IF phase = ph THEN At(ph) \cup {u} ELSE At(ph) \ {u}
         /\ Cardinality(Busy)' \in Nat /\ Cardinality(Busy)' <= Cardinality(Busy)
         /\ phase = "account" => Busy' = Busy
         /\ At("done")' = At("done") /\ (At("raised") # {} => At("raised")' # {})
<1>1. job \in [Units -> Jobs] BY DEF Shape
<1>2. /\ job' \in [Units -> Jobs] /\ \A v \in Units \ {u} : job'[v] = job[v]
      /\ job'[u].phase = phase
  BY <1>1, Moved DEF Phases
<1>3. /\ \A ph : At(ph)' = IF phase = ph THEN At(ph) \cup {u} ELSE At(ph) \ {u}
      /\ Busy' = IF phase \in {"turns", "mistake", "account"} THEN Busy \cup {u} ELSE Busy \ {u}
      /\ u \in Busy => Busy \cup {u} = Busy /\ Cardinality(Busy \ {u}) = Cardinality(Busy) - 1
  BY <1>1, <1>2, PhaseMoves
<1>4. u \in Busy BY DEF Busy
<1>5. Busy' = Busy \/ Busy' = Busy \ {u} BY <1>3, <1>4
<1>6. Cardinality(Busy)' \in Nat /\ Cardinality(Busy)' <= Cardinality(Busy)
  <2>1. Busy \ {u} \in SUBSET Units BY Fields
  <2>2. Cardinality(Busy \ {u}) \in Nat /\ Cardinality(Busy) \in Nat BY <2>1, UnitSets, Fields
  <2>3. CASE Busy' = Busy BY <2>2, <2>3
  <2>4. CASE Busy' = Busy \ {u}
    <3>1. Cardinality(Busy)' = Cardinality(Busy) - 1 BY <1>3, <1>4, <2>4
    <3>2. Cardinality(Busy)' = Cardinality(Busy \ {u}) BY <2>4
    <3> QED BY <2>2, <3>1, <3>2
  <2> QED BY <1>5, <2>3, <2>4
<1>7. phase = "account" => Busy' = Busy BY <1>3, <1>4
<1>8. At("done")' = At("done") /\ (At("raised") # {} => At("raised")' # {})
  <2>1. u \notin At("done") /\ u \notin At("raised") BY DEF At
  <2> QED BY <1>3, <2>1
<1> QED BY <1>2, <1>3, <1>6, <1>7, <1>8

LEMMA Paid ==
  ASSUME Shape, NEW usd \in Nat, Pay(usd)
  PROVE  /\ charged' \in [Cells -> Nat] /\ charged'[proc.cell] = charged[proc.cell] + usd
         /\ \A c \in Cells \ {proc.cell} : charged'[c] = charged[c]
<1>1. proc.cell \in Cells /\ charged \in [Cells -> Nat] /\ charged[proc.cell] \in Nat BY DEF Shape, Process
<1>2. charged[proc.cell] + usd \in Nat BY <1>1
<1> QED BY <1>1, <1>2 DEF Pay

(* Answer: what is paid for the unit is what the wave is about to account for. *)
LEMMA AnswerKeeps == ASSUME BatchInv, NEW u \in Units, Answer(u) PROVE BatchInv'
<1>1. /\ Running /\ job[u].phase = "turns" /\ Pay(Price[proc.cell][u]) /\ MoveTo(u, "account")
      /\ SetFile(u, [work |-> TRUE, streams |-> TRUE, result |-> "whole"])
      /\ history' = [history EXCEPT !.redone = @ \ {<<proc.cell, u>>}]
      /\ proc' = proc /\ waves' = waves /\ probed' = probed /\ book' = book
  BY DEF Answer
<1>2. Shape BY DEF BatchInv
<1>3. proc.cell \in Cells /\ Price[proc.cell][u] \in Nat BY <1>2, Prices, Fields
<1>4. /\ job' \in [Units -> Jobs] /\ job'[u].phase = "account" /\ \A v \in Units \ {u} : job'[v] = job[v]
      /\ \A ph : At(ph)' = IF "account" = ph THEN At(ph) \cup {u} ELSE At(ph) \ {u}
      /\ Busy' = Busy
      /\ At("done")' = At("done") /\ (At("raised") # {} => At("raised")' # {})
  BY <1>1, <1>2, TurnMoves
<1>5. /\ charged' \in [Cells -> Nat] /\ charged'[proc.cell] = charged[proc.cell] + Price[proc.cell][u]
      /\ \A c \in Cells \ {proc.cell} : charged'[c] = charged[c]
  BY <1>1, <1>2, <1>3, Paid
<1>6. /\ files' \in [Cells -> [Units -> File]] /\ files'[proc.cell][u].streams
      /\ \A c \in Cells, v \in Units : <<c, v>> # <<proc.cell, u>> => files'[c][v] = files[c][v]
      /\ \A c \in Cells \ {proc.cell} : files'[c] = files[c]
  <2> DEFINE f == [work |-> TRUE, streams |-> TRUE, result |-> "whole"]
  <2>1. f \in File /\ f.streams BY DEF File
  <2> HIDE DEF f
  <2> QED BY <1>1, <1>2, <2>1, FileSet DEF f
<1>7. /\ history' \in Past /\ history'.redone = history.redone \ {<<proc.cell, u>>}
      /\ history'.waved = history.waved /\ history'.whole = history.whole
      /\ history'.again = history.again /\ history'.discarded = history.discarded /\ history'.apart = history.apart
  BY <1>1, <1>2 DEF Shape, Past
<1>8. Shape' BY <1>1, <1>2, <1>4, <1>5, <1>6, <1>7 DEF Shape
<1>9. ResultsHaveStreams'
  <2> SUFFICES ASSUME NEW c \in Cells, NEW v \in Units, files'[c][v].result = "whole", <<c, v>> \notin history'.redone
               PROVE  files'[c][v].streams
    BY DEF ResultsHaveStreams
  <2>1. CASE <<c, v>> = <<proc.cell, u>> BY <1>6, <2>1
  <2>2. CASE <<c, v>> # <<proc.cell, u>> BY <1>6, <1>7, <2>2 DEF BatchInv, ResultsHaveStreams
  <2> QED BY <2>1, <2>2
<1>10. Bill(At("done"))' = Bill(At("done")) BY <1>1, <1>4 DEF Bill, Due
<1>11. Booking' BY <1>1, <1>4, <1>7, <1>10 DEF BatchInv, Booking, Running
<1>12. FirstWaves'
  <2> SUFFICES ASSUME Alone'
               PROVE  /\ \A c \in Cells \ history'.waved :
                            book'[c] = 0 /\ charged'[c] = 0 /\ \A v \in Units : files'[c][v].result = "none"
                      /\ Ahead'
    BY <1>1 DEF FirstWaves, Running
  <2>1. Alone BY <1>7 DEF Alone
  <2>2. /\ \A c \in Cells \ history.waved :
             book[c] = 0 /\ charged[c] = 0 /\ \A v \in Units : files[c][v].result = "none"
        /\ Ahead
    BY <1>1, <2>1 DEF BatchInv, FirstWaves
  <2>3. proc.cell \in history.waved BY <2>2 DEF Ahead
  <2>4. Bill(At("account"))' = Bill(At("account")) + Price[proc.cell][u] /\ Bill(At("account")) \in Nat
    <3>1. At("account") \in SUBSET Units /\ u \in Units \ At("account") BY <1>1, <1>2, Fields DEF At
    <3>2. At("account")' = At("account") \cup {u} BY <1>4
    <3>3. Bill(At("account"))' = Due(proc.cell, At("account") \cup {u}) BY <1>1, <3>2 DEF Bill
    <3> QED BY <1>3, <3>1, <3>3, Dues DEF Bill
  <2>5. charged' = [book EXCEPT ![proc.cell] = proc.spent + Bill(At("account"))']
    <3>1. charged = [book EXCEPT ![proc.cell] = proc.spent + Bill(At("account"))] BY <2>2 DEF Ahead
    <3>2. proc.spent \in Nat /\ book \in [Cells -> Nat] BY <1>2, Fields DEF Shape
    <3>3. charged'[proc.cell] = proc.spent + Bill(At("account"))' BY <1>3, <1>5, <2>4, <3>1, <3>2
    <3> QED BY <1>3, <1>5, <3>1, <3>2, <3>3
  <2>6. \A v \in Units : /\ job'[v].phase \in Phases \ {"mistake", "failed", "raised"}
                         /\ job'[v].phase = "queued" => UnitFile(v)'.result = "none"
    <3> SUFFICES ASSUME NEW v \in Units
                 PROVE  /\ job'[v].phase \in Phases \ {"mistake", "failed", "raised"}
                        /\ job'[v].phase = "queued" => UnitFile(v)'.result = "none"
      OBVIOUS
    <3>1. CASE v = u BY <1>4, <3>1 DEF Phases
    <3>2. CASE v # u
      <4>1. job'[v] = job[v] /\ UnitFile(v)' = UnitFile(v) BY <1>1, <1>3, <1>4, <1>6, <3>2 DEF UnitFile
      <4> QED BY <2>2, <4>1 DEF Ahead
    <3> QED BY <3>1, <3>2
  <2>7. Flight(Cardinality(Busy))' = Flight(Cardinality(Busy)) BY <1>4 DEF Flight
  <2>8. Ahead' BY <1>1, <1>7, <2>2, <2>5, <2>6, <2>7 DEF Ahead, Booked
  <2> QED BY <1>1, <1>5, <1>6, <1>7, <2>2, <2>3, <2>8
<1> QED BY <1>8, <1>9, <1>11, <1>12 DEF BatchInv

(* Fail: an attempt is thrown away.                                           *)
LEMMA FailKeeps == ASSUME BatchInv, NEW u \in Units, Fail(u) PROVE BatchInv'
<1>1. /\ Running /\ job[u].phase = "turns"
      /\ history' = [history EXCEPT !.discarded = TRUE]
      /\ proc' = proc /\ waves' = waves /\ probed' = probed /\ book' = book /\ files' = files
  BY DEF Fail
<1>2. PICK phase \in {"mistake", "raised"} : MoveTo(u, phase) BY DEF Fail
<1>3. Shape BY DEF BatchInv
<1>4. charged' \in [Cells -> Nat]
  <2>1. proc.cell \in Cells /\ Price[proc.cell][u] \in Nat BY <1>3, Prices, Fields
  <2>2. PICK usd \in {0, Price[proc.cell][u]} : Pay(usd) BY DEF Fail
  <2> QED BY <1>3, <2>1, <2>2, Paid
<1>5. /\ job' \in [Units -> Jobs] /\ job'[u].phase = phase /\ \A v \in Units \ {u} : job'[v] = job[v]
      /\ Cardinality(Busy)' \in Nat /\ Cardinality(Busy)' <= Cardinality(Busy)
      /\ At("done")' = At("done") /\ (At("raised") # {} => At("raised")' # {})
  BY <1>1, <1>2, <1>3, TurnMoves
<1>6. history' \in Past /\ history'.redone = history.redone /\ history'.whole = history.whole /\ history'.discarded
  BY <1>1, <1>3 DEF Shape, Past
<1>7. Shape' BY <1>1, <1>3, <1>4, <1>5, <1>6, Fields DEF Shape
<1>8. ResultsHaveStreams' BY <1>1, <1>6 DEF BatchInv, ResultsHaveStreams
<1>9. Bill(At("done"))' = Bill(At("done")) BY <1>1, <1>5 DEF Bill, Due
<1>10. Booking' BY <1>1, <1>5, <1>6, <1>9 DEF BatchInv, Booking, Running
<1>11. FirstWaves' BY <1>6 DEF FirstWaves, Alone
<1> QED BY <1>7, <1>8, <1>10, <1>11 DEF BatchInv
(* Account: a unit's price goes from what the wave is about to account for to *)
(* what it has, and its thread is free.                                       *)
LEMMA AccountKeeps == ASSUME BatchInv, NEW u \in Units, Account(u) PROVE BatchInv'
<1>1. /\ Running /\ job[u].phase = "account" /\ MoveTo(u, "done")
      /\ proc' = [proc EXCEPT !.spent = Spent(u), !.aborted = @ \/ Spent(u) > proc.allowance]
      /\ waves' = waves /\ files' = files /\ probed' = probed /\ book' = book /\ charged' = charged /\ history' = history
  BY DEF Account
<1>2. Shape BY DEF BatchInv
<1>3. /\ proc.cell \in Cells /\ Price[proc.cell][u] \in Nat /\ Price[proc.cell][u] <= MaxPrice /\ MaxPrice \in Nat
      /\ proc.spent \in Nat /\ proc.allowance \in Nat /\ Spent(u) = proc.spent + Price[proc.cell][u]
  BY <1>2, Prices, Fields DEF Spent
<1>4. /\ proc' \in Process /\ proc'.cell = proc.cell /\ proc'.running = proc.running /\ proc'.lost = proc.lost
      /\ proc'.allowance = proc.allowance /\ proc'.spent = Spent(u)
      /\ proc'.aborted \/ Spent(u) <= proc.allowance
  <2> DEFINE over == Spent(u) > proc.allowance
             stops == proc.aborted \/ over
  <2>1. Spent(u) \in Nat BY <1>3
  <2>2. proc \in Process BY <1>2 DEF Shape
  <2>3. proc' = [proc EXCEPT !.spent = Spent(u), !.aborted = stops] BY <1>1, <2>2 DEF Process
  <2>4. over \/ Spent(u) <= proc.allowance BY <1>3, <2>1
  <2>5. stops \in BOOLEAN /\ (stops \/ Spent(u) <= proc.allowance)
    <3> HIDE DEF over
    <3> QED BY <2>2, <2>4, Zenon DEF Process
  <2> HIDE DEF stops
  <2>6. /\ proc' \in Process /\ proc'.cell = proc.cell /\ proc'.running = proc.running /\ proc'.lost = proc.lost
        /\ proc'.allowance = proc.allowance /\ proc'.spent = Spent(u)
    BY <2>1, <2>2, <2>3, <2>5 DEF Process
  <2>7. proc'.aborted = stops BY <2>2, <2>3 DEF Process
  <2> QED BY <2>5, <2>6, <2>7, Zenon
<1>5. job \in [Units -> Jobs] BY <1>2 DEF Shape
<1>6. /\ job' \in [Units -> Jobs] /\ \A v \in Units \ {u} : job'[v] = job[v]
      /\ job'[u].phase = "done"
  BY <1>1, <1>5, Moved DEF Phases
<1>7. /\ \A ph : At(ph)' = IF "done" = ph THEN At(ph) \cup {u} ELSE At(ph) \ {u}
      /\ Busy' = Busy \ {u} /\ Cardinality(Busy \ {u}) = Cardinality(Busy) - 1
  <2>1. u \in Busy BY <1>1 DEF Busy
  <2> QED BY <1>5, <1>6, <2>1, PhaseMoves
<1>8. PICK n \in Nat : n = Cardinality(Busy)' /\ Cardinality(Busy) = n + 1
  <2>1. Busy \ {u} \in SUBSET Units BY <1>2, Fields
  <2>2. Cardinality(Busy \ {u}) \in Nat /\ Cardinality(Busy) \in Nat BY <1>2, <2>1, UnitSets, Fields
  <2>3. Cardinality(Busy)' = Cardinality(Busy \ {u}) BY <1>7
  <2> QED BY <1>7, <2>2, <2>3
<1>9. Shape'
  <2>1. Cardinality(Busy)' <= Workers BY <1>2, <1>8, Fields DEF Shape
  <2> QED BY <1>1, <1>2, <1>4, <1>6, <2>1 DEF Shape
<1>10. ResultsHaveStreams' BY <1>1 DEF BatchInv, ResultsHaveStreams
<1>11. Bill(At("done"))' = Bill(At("done")) + Price[proc.cell][u]
  <2>1. At("done") \in SUBSET Units /\ u \in Units \ At("done") BY <1>1, <1>2, Fields DEF At
  <2>2. At("done")' = At("done") \cup {u} BY <1>7
  <2>3. Bill(At("done"))' = Due(proc.cell, At("done") \cup {u}) BY <1>4, <2>2 DEF Bill, Due
  <2> QED BY <1>3, <2>1, <2>3, Dues DEF Bill
<1>12. Bill(At("account")) = Bill(At("account"))' + Price[proc.cell][u] /\ Bill(At("account"))' \in Nat
  <2>1. At("account") \in SUBSET Units /\ u \in At("account") BY <1>1, <1>2, Fields DEF At
  <2>2. At("account")' = At("account") \ {u} BY <1>7
  <2>3. Bill(At("account"))' = Due(proc.cell, At("account") \ {u}) BY <1>4, <2>2 DEF Bill, Due
  <2>4. At("account") = (At("account") \ {u}) \cup {u} /\ At("account") \ {u} \in SUBSET Units BY <2>1
  <2>5. Due(proc.cell, (At("account") \ {u}) \cup {u}) = Due(proc.cell, At("account") \ {u}) + Price[proc.cell][u]
    BY <1>3, <2>4, Dues
  <2>6. Due(proc.cell, At("account") \ {u}) \in Nat BY <1>3, <2>4, Dues
  <2>7. Bill(At("account")) = Due(proc.cell, (At("account") \ {u}) \cup {u}) BY <2>4 DEF Bill
  <2> QED BY <2>3, <2>5, <2>6, <2>7
<1>13. Booking'
  <2>1. At("raised") # {} => At("raised")' # {}
    <3>1. u \notin At("raised") BY <1>1 DEF At
    <3> QED BY <1>7, <3>1
  <2>2. Running => proc.spent = Bill(At("done")) /\ proc.cell \notin history.whole /\ (proc.lost => At("raised") # {})
    BY DEF BatchInv, Booking
  <2>3. \A c \in history.whole : book[c] = Total(Price[c]) BY DEF BatchInv, Booking
  <2>4. proc'.spent = Bill(At("done"))' BY <1>1, <1>3, <1>4, <1>11, <2>2
  <2> QED BY <1>1, <1>4, <2>1, <2>2, <2>3, <2>4 DEF Booking
<1>14. FirstWaves'
  <2> SUFFICES ASSUME Alone' PROVE Ahead' /\ Alone
    BY <1>1, <1>4 DEF BatchInv, FirstWaves, Running, Alone
  <2>1. Alone BY <1>1 DEF Alone
  <2>2. Ahead BY <1>1, <2>1 DEF BatchInv, FirstWaves
  <2>3. charged = [book EXCEPT ![proc.cell] = proc'.spent + Bill(At("account"))']
    <3>1. proc'.spent + Bill(At("account"))' = proc.spent + Bill(At("account")) BY <1>3, <1>4, <1>12
    <3> QED BY <2>2, <3>1 DEF Ahead
  <2>4. \A v \in Units : /\ job'[v].phase \in Phases \ {"mistake", "failed", "raised"}
                         /\ job'[v].phase = "queued" => UnitFile(v)'.result = "none"
    <3> SUFFICES ASSUME NEW v \in Units
                 PROVE  /\ job'[v].phase \in Phases \ {"mistake", "failed", "raised"}
                        /\ job'[v].phase = "queued" => UnitFile(v)'.result = "none"
      OBVIOUS
    <3>1. CASE v = u BY <1>6, <3>1 DEF Phases
    <3>2. CASE v # u
      <4>1. job'[v] = job[v] /\ UnitFile(v)' = UnitFile(v) BY <1>1, <1>4, <1>6, <3>2 DEF UnitFile
      <4> QED BY <2>2, <4>1 DEF Ahead
    <3> QED BY <3>1, <3>2
  <2>5. proc'.spent + Flight(Cardinality(Busy))' <= proc'.allowance + Flight(Workers)
    <3>1. Flight(n + 1) = Flight(n) + MaxPrice /\ Flight(n) \in Nat /\ Flight(Workers) \in Nat
      BY <1>2, Flights, Fields
    <3>2. proc.spent + Flight(n + 1) <= proc.allowance + Flight(Workers) BY <1>8, <2>2 DEF Ahead
    <3>3. Flight(Cardinality(Busy))' = Flight(n) BY <1>8 DEF Flight
    <3> QED BY <1>3, <1>4, <3>1, <3>2, <3>3
  <2>6. proc'.aborted \/ proc'.spent <= proc'.allowance BY <1>4
  <2>7. Booked' = Booked BY <1>1 DEF Booked
  <2>8. /\ proc'.cell \in history'.waved /\ ~proc'.lost /\ book'[proc'.cell] = 0
        /\ proc'.allowance = BatchStop - Booked'
    BY <1>1, <1>4, <2>2, <2>7 DEF Ahead
  <2>9. charged' = [book' EXCEPT ![proc'.cell] = proc'.spent + Bill(At("account"))'] BY <1>1, <1>4, <2>3
  <2>10. Ahead' BY <2>4, <2>5, <2>6, <2>8, <2>9 DEF Ahead
  <2> QED BY <2>1, <2>10
<1> QED BY <1>9, <1>10, <1>13, <1>14 DEF BatchInv

(* Collapse: the wave is lost, which no first wave without a failure is.      *)
LEMMA CollapseKeeps == ASSUME BatchInv, Collapse PROVE BatchInv'
<1>1. /\ Running /\ At("raised") # {} /\ proc' = [proc EXCEPT !.lost = TRUE]
      /\ job' = [u \in Units |-> IF job[u].phase = "queued" THEN Idle ELSE job[u]]
      /\ waves' = waves /\ files' = files /\ probed' = probed /\ book' = book /\ charged' = charged /\ history' = history
  BY DEF Collapse
<1>2. Shape BY DEF BatchInv
<1>3. /\ proc' \in Process /\ proc'.cell = proc.cell /\ proc'.running = proc.running /\ proc'.spent = proc.spent
  BY <1>1, <1>2 DEF Shape, Process
<1>4. Idle \in Jobs /\ Idle.phase = "absent"
  <2>1. 0 \in 0 .. Retries + 1 BY <1>2, Fields
  <2> QED BY <2>1 DEF Idle, Jobs, Phases
<1>5. /\ job' \in [Units -> Jobs]
      /\ \A u \in Units : job'[u] = job[u] \/ (job[u].phase = "queued" /\ job'[u].phase = "absent")
  BY <1>1, <1>2, <1>4 DEF Shape
<1>6. Busy' = Busy /\ At("done")' = At("done") /\ At("raised")' = At("raised")
  <2>1. Busy' = Busy BY <1>5 DEF Busy
  <2>2. At("done")' = At("done") /\ At("raised")' = At("raised") BY <1>5 DEF At
  <2> QED BY <2>1, <2>2
<1>7. Shape'
  <2>1. \A u \in Units : job'[u].phase = "queued" => job'[u].attempts = 0 BY <1>2, <1>5 DEF Shape
  <2> QED BY <1>1, <1>2, <1>3, <1>5, <1>6, <2>1 DEF Shape
<1>8. ResultsHaveStreams' BY <1>1 DEF BatchInv, ResultsHaveStreams
<1>9. Bill(At("done"))' = Bill(At("done")) BY <1>3, <1>6 DEF Bill, Due
<1>10. Booking' BY <1>1, <1>3, <1>6, <1>9 DEF BatchInv, Booking, Running
<1>11. FirstWaves'
  <2>1. ~Alone
    <3>1. PICK u \in Units : job[u].phase = "raised" BY <1>1 DEF At
    <3> QED BY <1>1, <3>1 DEF BatchInv, FirstWaves, Ahead
  <2> QED BY <1>1, <2>1 DEF FirstWaves, Alone
<1> QED BY <1>7, <1>8, <1>10, <1>11 DEF BatchInv

(* End: what the wave has spent is booked, unless it is lost.                 *)
LEMMA EndKeeps == ASSUME BatchInv, End PROVE BatchInv'
<1>1. /\ Running /\ Over /\ proc' = [proc EXCEPT !.running = FALSE]
      /\ book' = (IF proc.lost THEN book ELSE BookWritten)
      /\ history' = [history EXCEPT !.whole = IF At("done") = Units THEN @ \cup {proc.cell} ELSE @]
      /\ job' = job /\ waves' = waves /\ files' = files /\ probed' = probed /\ charged' = charged
  BY DEF End
<1>2. Shape BY DEF BatchInv
<1>3. proc' \in Process /\ ~Running' /\ proc'.cell = proc.cell BY <1>1, <1>2 DEF Shape, Process, Running
<1>4. proc.cell \in Cells /\ proc.spent \in Nat /\ proc.allowance \in Nat /\ book \in [Cells -> Nat] BY <1>2, Fields DEF Shape
<1>5. book' \in [Cells -> Nat] /\ \A c \in Cells \ {proc.cell} : book'[c] = book[c] BY <1>1, <1>4 DEF BookWritten
<1>6. /\ history' \in Past /\ history'.redone = history.redone /\ history'.waved = history.waved
      /\ history'.again = history.again /\ history'.discarded = history.discarded /\ history'.apart = history.apart
      /\ history'.whole = IF At("done") = Units THEN history.whole \cup {proc.cell} ELSE history.whole
  BY <1>1, <1>2, <1>4 DEF Shape, Past
<1>7. Shape' BY <1>1, <1>2, <1>3, <1>5, <1>6 DEF Shape, Busy
<1>8. ResultsHaveStreams' BY <1>1, <1>6 DEF BatchInv, ResultsHaveStreams
<1>9. /\ proc.spent = Bill(At("done")) /\ proc.cell \notin history.whole /\ (proc.lost => At("raised") # {})
      /\ \A c \in history.whole : book[c] = Total(Price[c])
  BY <1>1 DEF BatchInv, Booking
<1>10. Booking'
  <2>1. ASSUME At("done") = Units PROVE book'[proc.cell] = Total(Price[proc.cell])
    <3>1. ~proc.lost
      <4> SUFFICES ASSUME At("raised") # {} PROVE FALSE BY <1>9
      <4>1. PICK u \in Units : job[u].phase = "raised" BY DEF At
      <4>2. u \in At("done") BY <2>1
      <4> QED BY <4>1, <4>2 DEF At
    <3>2. book'[proc.cell] = proc.spent BY <1>1, <1>4, <3>1 DEF BookWritten
    <3>3. proc.spent = Due(proc.cell, Units) BY <1>9, <2>1 DEF Bill
    <3> QED BY <1>4, <3>2, <3>3, Dues
  <2>2. ASSUME NEW c \in history'.whole PROVE book'[c] = Total(Price[c])
    <3>1. CASE c = proc.cell
      <4>1. At("done") = Units BY <1>6, <1>9, <3>1
      <4> QED BY <2>1, <3>1, <4>1
    <3>2. CASE c # proc.cell
      <4>1. c \in history.whole BY <1>6, <3>2
      <4>2. c \in Cells BY <1>2, <4>1, Fields
      <4> QED BY <1>5, <1>9, <3>2, <4>1, <4>2
    <3> QED BY <3>1, <3>2
  <2> QED BY <1>3, <2>2 DEF Booking
<1>11. FirstWaves'
  <2> SUFFICES ASSUME Alone'
               PROVE  /\ \A c \in Cells \ history'.waved :
                            book'[c] = 0 /\ charged'[c] = 0 /\ \A v \in Units : files'[c][v].result = "none"
                      /\ charged' = book' /\ Booked' <= BatchStop + Workers * MaxPrice
    BY <1>3 DEF FirstWaves, Flight
  <2>1. Alone BY <1>6 DEF Alone
  <2>2. /\ \A c \in Cells \ history.waved :
             book[c] = 0 /\ charged[c] = 0 /\ \A v \in Units : files[c][v].result = "none"
        /\ Ahead
    BY <1>1, <2>1 DEF BatchInv, FirstWaves
  <2>3. /\ proc.cell \in history.waved /\ ~proc.lost /\ book[proc.cell] = 0 /\ proc.allowance = BatchStop - Booked
        /\ charged = [book EXCEPT ![proc.cell] = proc.spent + Bill(At("account"))]
        /\ proc.spent + Flight(Cardinality(Busy)) <= proc.allowance + Flight(Workers)
    BY <2>2 DEF Ahead
  <2>4. At("account") = {} /\ Busy = {}
    <3>1. Busy = {} BY <1>1 DEF Over
    <3>2. At("account") \subseteq Busy BY DEF At, Busy
    <3> QED BY <3>1, <3>2
  <2>5. book' = [book EXCEPT ![proc.cell] = proc.spent] BY <1>1, <2>3 DEF BookWritten
  <2>6. charged' = book'
    <3>1. Bill(At("account")) = 0 BY <1>4, <2>4, Dues DEF Bill
    <3> QED BY <1>1, <1>4, <2>3, <2>5, <3>1
  <2>7. Booked' <= BatchStop + Workers * MaxPrice
    <3>1. Total([book EXCEPT ![proc.cell] = proc.spent]) = Total(book) - book[proc.cell] + proc.spent
      <4>1. book \in [Cells -> Nat] /\ proc.cell \in Cells /\ proc.spent \in Nat
        BY <1>2, Fields DEF Shape
      <4> QED BY <4>1, SumOfCells
    <3>2. Booked' = Booked + proc.spent /\ Booked \in Nat /\ BatchStop \in Nat BY <1>2, <1>4, <2>3, <2>5, <3>1, Fields DEF Booked
    <3>3. Cardinality(Busy) = 0 BY <2>4, FS_EmptySet
    <3>4. Flight(0) \in Nat /\ Flight(Workers) \in Nat /\ proc.spent + Flight(0) <= proc.allowance + Flight(Workers)
      BY <1>2, <2>3, <3>3, Flights, Fields
    <3>5. Booked' <= BatchStop + Flight(Workers) BY <1>4, <2>3, <3>2, <3>4
    <3> QED BY <3>5 DEF Flight
  <2>8. \A c \in Cells \ history'.waved : book'[c] = book[c] BY <1>5, <1>6, <2>3
  <2> QED BY <1>1, <1>6, <2>2, <2>6, <2>7, <2>8
<1> QED BY <1>7, <1>8, <1>10, <1>11 DEF BatchInv

(* Crash: results may be cut off in the writing, and nothing is booked.       *)
LEMMA CrashKeeps == ASSUME BatchInv, Crash PROVE BatchInv'
<1>1. /\ Running /\ proc' = [proc EXCEPT !.running = FALSE, !.lost = TRUE]
      /\ job' = [u \in Units |-> Idle] /\ history' = [history EXCEPT !.discarded = TRUE]
      /\ waves' = waves /\ probed' = probed /\ book' = book
  BY DEF Crash
<1>2. PICK torn \in SUBSET At("turns") :
        /\ files' = [files EXCEPT ![proc.cell] =
                       [u \in Units |-> IF u \in torn THEN [@[u] EXCEPT !.result = "torn"] ELSE @[u]]]
        /\ charged' = [charged EXCEPT ![proc.cell] = @ + Total([u \in torn |-> Price[proc.cell][u]])]
  BY DEF Crash
<1>3. Shape BY DEF BatchInv
<1>4. proc.cell \in Cells /\ files \in [Cells -> [Units -> File]] /\ charged \in [Cells -> Nat] BY <1>3, Fields DEF Shape
<1>5. charged' \in [Cells -> Nat]
  <2>1. torn \in SUBSET Units BY <1>3, Fields
  <2>2. Total([u \in torn |-> Price[proc.cell][u]]) \in Nat BY <1>4, <2>1, Dues DEF Due
  <2> QED BY <1>2, <1>4, <2>2
<1>6. /\ files' \in [Cells -> [Units -> File]]
      /\ \A c \in Cells, u \in Units : files'[c][u].result = "whole" => files'[c][u] = files[c][u]
  <2> DEFINE new == [u \in Units |-> IF u \in torn THEN [files[proc.cell][u] EXCEPT !.result = "torn"] ELSE files[proc.cell][u]]
  <2>1. ASSUME NEW u \in Units
        PROVE  /\ [files[proc.cell][u] EXCEPT !.result = "torn"] \in File
               /\ [files[proc.cell][u] EXCEPT !.result = "torn"].result = "torn"
    <3>1. files[proc.cell][u] \in File BY <1>4
    <3> QED BY <3>1 DEF File
  <2>2. new \in [Units -> File] /\ \A u \in Units : new[u].result = "whole" => new[u] = files[proc.cell][u]
    BY <1>4, <2>1
  <2>3. files' = [files EXCEPT ![proc.cell] = new] BY <1>2
  <2> HIDE DEF new
  <2> QED BY <1>4, <2>2, <2>3
<1>7. proc' \in Process /\ ~Running' BY <1>1, <1>3 DEF Shape, Process, Running
<1>8. history' \in Past /\ history'.redone = history.redone /\ history'.whole = history.whole /\ history'.discarded
  BY <1>1, <1>3 DEF Shape, Past
<1>9. job' \in [Units -> Jobs] /\ \A u \in Units : job'[u].phase = "absent"
  <2>1. 0 \in 0 .. Retries + 1 BY <1>3, Fields
  <2>2. Idle \in Jobs /\ Idle.phase = "absent" BY <2>1 DEF Idle, Jobs, Phases
  <2> QED BY <1>1, <2>2
<1>10. Shape'
  <2>1. Busy' = {} BY <1>9 DEF Busy
  <2>2. Cardinality(Busy)' <= Workers
    <3>1. Cardinality(Busy)' = 0 BY <2>1, FS_EmptySet
    <3> QED BY <1>3, <3>1, Fields
  <2> QED BY <1>1, <1>3, <1>5, <1>6, <1>7, <1>8, <1>9, <2>2 DEF Shape
<1>11. ResultsHaveStreams' BY <1>6, <1>8 DEF BatchInv, ResultsHaveStreams
<1>12. Booking' BY <1>1, <1>7, <1>8 DEF BatchInv, Booking
<1>13. FirstWaves' BY <1>8 DEF FirstWaves, Alone
<1> QED BY <1>10, <1>11, <1>12, <1>13 DEF BatchInv
(* Registry: a probe of the cell leaves units, books and payments alone.      *)
LEMMA RegistryKeeps == ASSUME BatchInv, NEW c \in Cells, Registry(c) PROVE BatchInv'
<1>1. /\ probed' = probed \cup {c} /\ proc' = proc /\ job' = job /\ waves' = waves /\ files' = files
      /\ book' = book /\ charged' = charged /\ history' = history
  BY DEF Registry
<1>2. Busy' = Busy /\ \A phase : At(phase)' = At(phase) BY <1>1 DEF Busy, At
<1>3. Shape' BY <1>1, <1>2 DEF BatchInv, Shape
<1>4. ResultsHaveStreams' BY <1>1 DEF BatchInv, ResultsHaveStreams
<1>5. Booking' BY <1>1, <1>2 DEF BatchInv, Booking, Running, Bill, Due
<1>6. FirstWaves' BY <1>1, <1>2 DEF BatchInv, FirstWaves, Alone, Ahead, Running, Booked, UnitFile, Bill, Due
<1> QED BY <1>3, <1>4, <1>5, <1>6 DEF BatchInv

(* A step that changes nothing.                                               *)
LEMMA StillKeeps == ASSUME BatchInv, UNCHANGED vars PROVE BatchInv'
<1>1. /\ probed' = probed /\ proc' = proc /\ job' = job /\ waves' = waves /\ files' = files
      /\ book' = book /\ charged' = charged /\ history' = history
  BY DEF vars
<1>2. Busy' = Busy /\ \A phase : At(phase)' = At(phase) BY <1>1 DEF Busy, At
<1>3. Shape' BY <1>1, <1>2 DEF BatchInv, Shape
<1>4. ResultsHaveStreams' BY <1>1 DEF BatchInv, ResultsHaveStreams
<1>5. Booking' BY <1>1, <1>2 DEF BatchInv, Booking, Running, Bill, Due
<1>6. FirstWaves' BY <1>1, <1>2 DEF BatchInv, FirstWaves, Alone, Ahead, Running, Booked, UnitFile, Bill, Due
<1> QED BY <1>3, <1>4, <1>5, <1>6 DEF BatchInv

(* At first nothing is booked, paid for or on disk.                           *)
LEMMA InitHolds == ASSUME Init PROVE BatchInv
<1>1. /\ proc \in Process /\ proc.running = FALSE
      /\ job = [u \in Units |-> Idle] /\ waves = 0 /\ probed = {}
      /\ files = [c \in Cells |-> [u \in Units |-> Untouched]]
      /\ book = [c \in Cells |-> 0] /\ charged = [c \in Cells |-> 0]
      /\ history = [waved |-> {}, again |-> FALSE, apart |-> FALSE, whole |-> {},
                    discarded |-> FALSE, redone |-> {}]
  <2>1. (CHOOSE c \in Cells : TRUE) \in Cells BY BatchAssumption
  <2>2. proc = [cell |-> CHOOSE c \in Cells : TRUE, force |-> FALSE, running |-> FALSE, lost |-> FALSE,
                allowance |-> 0, spent |-> 0, aborted |-> FALSE]
    BY Zenon DEF Init
  <2>3. proc \in Process /\ proc.running = FALSE BY <2>1, <2>2 DEF Process
  <2> QED BY <2>3, Zenon DEF Init
<1>2. Idle \in Jobs /\ Idle.phase = "absent" BY BatchAssumption DEF Idle, Jobs, Phases
<1>3. Busy = {} BY <1>1, <1>2 DEF Busy
<1>4. Cardinality(Busy) = 0 /\ Workers \in Nat /\ MaxWaves \in Nat BY <1>3, FS_EmptySet, BatchAssumption
<1>5. Untouched \in File /\ Untouched.result = "none" BY DEF Untouched, File
<1>6. history \in Past /\ history.whole = {} /\ history.waved = {} BY <1>1 DEF Past
<1>7. Shape
  <2>1. \A u \in Units : job[u].phase # "queued" BY <1>1, <1>2
  <2> HIDE DEF Process, Past
  <2> QED BY <1>1, <1>2, <1>4, <1>5, <1>6, <2>1 DEF Shape
<1>8. ResultsHaveStreams BY <1>1, <1>5 DEF ResultsHaveStreams
<1>9. Booking BY <1>1, <1>6 DEF Booking, Running
<1>10. FirstWaves
  <2>1. Booked = 0
    <3>1. book \in [Cells -> Nat] /\ \A c \in Cells : book[c] = 0 BY <1>1
    <3> QED BY <3>1, SumOfZeros DEF Booked
  <2>2. BatchStop \in Nat /\ Flight(Workers) \in Nat BY <1>4, Flights, BatchAssumption
  <2> QED BY <1>1, <1>5, <2>1, <2>2 DEF FirstWaves, Running
<1> QED BY <1>7, <1>8, <1>9, <1>10 DEF BatchInv

(* Every step keeps the invariant.                                            *)
LEMMA NextKeeps == ASSUME BatchInv, [Next]_vars PROVE BatchInv'
<1>1. ASSUME NEW c \in Cells, Prepare(c) PROVE BatchInv' BY <1>1, PrepareKeeps
<1>2. ASSUME NEW c \in Cells, Registry(c) PROVE BatchInv' BY <1>2, RegistryKeeps
<1>3. ASSUME NEW c \in Cells, NEW u \in Units, RunUnit(c, u) PROVE BatchInv' BY <1>3, RunUnitKeeps
<1>4. ASSUME NEW asked \in Requests, Start(asked) PROVE BatchInv' BY <1>4, StartKeeps
<1>5. ASSUME NEW u \in Units, Work(u) PROVE BatchInv'
  <2>1. ASSUME Take(u) PROVE BatchInv' BY <2>1, TakeKeeps
  <2>2. ASSUME Answer(u) PROVE BatchInv' BY <2>2, AnswerKeeps
  <2>3. ASSUME Fail(u) PROVE BatchInv' BY <2>3, FailKeeps
  <2>4. ASSUME Again(u) PROVE BatchInv' BY <2>4, AgainKeeps
  <2>5. ASSUME Account(u) PROVE BatchInv' BY <2>5, AccountKeeps
  <2> QED BY <1>5, <2>1, <2>2, <2>3, <2>4, <2>5 DEF Work
<1>6. ASSUME Collapse PROVE BatchInv' BY <1>6, CollapseKeeps
<1>7. ASSUME End PROVE BatchInv' BY <1>7, EndKeeps
<1>8. ASSUME Crash PROVE BatchInv' BY <1>8, CrashKeeps
<1>9. ASSUME UNCHANGED vars PROVE BatchInv' BY <1>9, StillKeeps
<1> QED BY <1>1, <1>2, <1>3, <1>4, <1>5, <1>6, <1>7, <1>8, <1>9 DEF Next

(* While a first wave runs, what was paid above the books is its own spend    *)
(* and the units on their way to it, each of them in the hands of a thread.   *)
LEMMA InvBounds == ASSUME BatchInv PROVE FirstWavesAreBounded
<1> SUFFICES ASSUME Alone PROVE Total(charged) <= BatchStop + Flight(Workers)
  BY DEF FirstWavesAreBounded, Alone, Flight
<1>1. Shape /\ Booking BY DEF BatchInv
<1>2. Booked \in Nat /\ BatchStop \in Nat /\ Workers \in Nat /\ Flight(Workers) \in Nat BY <1>1, Fields, Flights
<1>3. CASE ~Running BY <1>3 DEF BatchInv, FirstWaves, Booked
<1>4. CASE Running
  <2>1. /\ book[proc.cell] = 0 /\ proc.allowance = BatchStop - Booked
        /\ charged = [book EXCEPT ![proc.cell] = proc.spent + Bill(At("account"))]
        /\ proc.spent + Flight(Cardinality(Busy)) <= proc.allowance + Flight(Workers)
    BY <1>4 DEF BatchInv, FirstWaves, Ahead
  <2>2. /\ book \in [Cells -> Nat] /\ proc.cell \in Cells /\ proc.spent \in Nat /\ proc.allowance \in Nat
        /\ Busy \in SUBSET Units /\ At("account") \in SUBSET Units
    BY <1>1, Fields DEF Shape
  <2>3. Bill(At("account")) \in Nat /\ Bill(At("account")) <= Flight(Cardinality(At("account")))
    BY <2>2, Dues DEF Bill
  <2>4. Flight(Cardinality(At("account"))) <= Flight(Cardinality(Busy))
        /\ Flight(Cardinality(Busy)) \in Nat /\ Flight(Cardinality(At("account"))) \in Nat
    <3>1. At("account") \subseteq Busy BY DEF At, Busy
    <3>2. /\ IsFiniteSet(Busy) /\ Cardinality(Busy) \in Nat
          /\ Cardinality(At("account")) \in Nat /\ Cardinality(At("account")) <= Cardinality(Busy)
      BY <2>2, <3>1, UnitSets, FS_Subset
    <3> QED BY <3>2, Flights
  <2>5. Total(charged) = Booked - book[proc.cell] + (proc.spent + Bill(At("account")))
    <3>1. proc.spent + Bill(At("account")) \in Nat BY <2>2, <2>3
    <3> QED BY <2>1, <2>2, <3>1, SumOfCells DEF Booked
  <2> QED BY <1>2, <2>1, <2>2, <2>3, <2>4, <2>5
<1> QED BY <1>3, <1>4

LEMMA InvIsEnough == ASSUME BatchInv PROVE BatchIsSound
<1>1. BatchTypeOK BY DEF BatchInv, Shape, BatchTypeOK, Jobs, Phases, File
<1>2. WholeWavesAreBooked BY DEF BatchInv, Booking, WholeWavesAreBooked
<1>3. FirstWavesAreBounded BY InvBounds
<1> QED BY <1>1, <1>2, <1>3 DEF BatchIsSound, BatchInv

(* BatchIsSound, for any cells, prices, stop, threads and retries: every      *)
(* whole result keeps the streams of its turns until it is redone, a wave     *)
(* that returned every unit books each of them once however often it was      *)
(* resumed, and, while each cell is waved once and nothing is thrown away,    *)
(* the batch passes its stop by at most one unit per thread (run_e28.py,      *)
(* _allowance and _ledger_write; run_e18_pi_reversal.py, phase_wave).         *)
THEOREM BatchIsAlwaysSound == Spec => []BatchIsSound
<1>1. Init => BatchInv BY InitHolds
<1>2. BatchInv /\ [Next]_vars => BatchInv' BY NextKeeps
<1>3. BatchInv => BatchIsSound BY InvIsEnough
<1> QED BY <1>1, <1>2, <1>3, PTL DEF Spec
=============================================================================
