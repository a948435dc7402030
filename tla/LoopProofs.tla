------------------------------ MODULE LoopProofs -----------------------------
(***************************************************************************)
(* Theorems about the loops that run an experiment's units: the grids and  *)
(* resumable loops of Harness, and the waves of Wave.                      *)
(***************************************************************************)
EXTENDS Harness, Wave, FunctionTheorems, FiniteSetTheorems, SequenceTheorems, WellFoundedInduction, TLAPS

(***************************************************************************)
(* That grids and resumable loops are sound, whatever the schedule, the    *)
(* replies of the driver, the number of threads, windows, retries and      *)
(* processes, where kills cut off rows (src/karc/bench/harness.py and      *)
(* checkpoint.py).                                                         *)
(*                                                                         *)
(* The invariant follows each unit: it waits in the queue, is with a       *)
(* thread, or hit a limit of this window, in one of these at most; in a    *)
(* resumable loop none of those units is done by the file.  So nothing     *)
(* that is appended takes a valid row back, and when the loop drains the   *)
(* units that no place holds are those whose row was glued to a torn line. *)
(* The limit, the cap and the ways a window ends are counted against the   *)
(* futures of the pool.                                                    *)
(***************************************************************************)
-----------------------------------------------------------------------------
(***************************************************************************)
(* Counting and the greatest element.                                      *)
(***************************************************************************)
UpTo(S, t) == {i \in S : i <= t}
Place(S, t) == Cardinality({i \in S : i <= t})

LEMMA Least ==
  ASSUME NEW S \in SUBSET Nat, S # {}
  PROVE  \E m \in S : \A x \in S : m <= x
<1>1. PICK m \in S : \A x \in S : ~(<<x, m>> \in OpToRel(<, Nat))
  BY NatLessThanWellFounded, WFMin
<1>2. \A x \in S : ~(x < m)
  BY <1>1 DEF OpToRel
<1>3. QED
  BY <1>2

LEMMA Greatest ==
  ASSUME NEW n \in Nat, NEW S \in SUBSET (1 .. n), S # {}
  PROVE  \E m \in S : \A x \in S : x <= m
<1> DEFINE D == {n - x : x \in S}
<1>0. \A x \in S : x \in Nat /\ n - x \in Nat
  OBVIOUS
<1>1. D \in SUBSET Nat /\ D # {}
  BY <1>0
<1>2. PICK d \in D : \A y \in D : d <= y
  <2> HIDE DEF D
  <2>1. QED
    BY <1>1, Least
<1>3. PICK m \in S : d = n - m
  BY <1>2
<1>4. \A x \in S : n - m <= n - x
  BY <1>2, <1>3
<1>5. QED
  BY <1>0, <1>3, <1>4

LEMMA UpToFinite ==
  ASSUME NEW S \in SUBSET Nat, NEW t \in Nat
  PROVE  IsFiniteSet(UpTo(S, t)) /\ Cardinality(UpTo(S, t)) \in Nat
<1>0. \A i \in S : i <= t => i \in 0 .. t
  <2>1. \A i \in S : i \in Nat
    OBVIOUS
  <2>2. QED
    BY <2>1
<1>1. UpTo(S, t) \in SUBSET (0 .. t)
  BY <1>0 DEF UpTo
<1>2. IsFiniteSet(0 .. t)
  BY FS_Interval
<1>3. QED
  BY <1>1, <1>2, FS_Subset, FS_CardinalityType

\* One more number counts for one at most, and only if it belongs to the set.
LEMMA PlaceStep ==
  ASSUME NEW S \in SUBSET Nat, NEW t \in Nat
  PROVE  /\ t + 1 \in S => Place(S, t + 1) = Place(S, t) + 1
         /\ t + 1 \notin S => Place(S, t + 1) = Place(S, t)
         /\ Place(S, t) \in Nat
<1>0. \A i \in S : i \in Nat /\ (i <= t + 1 <=> i <= t \/ i = t + 1)
  <2>1. \A i \in S : i \in Nat
    OBVIOUS
  <2>2. QED
    BY <2>1
<1>1. t + 1 \in S => UpTo(S, t + 1) = UpTo(S, t) \cup {t + 1}
  BY <1>0 DEF UpTo
<1>2. t + 1 \notin S => UpTo(S, t + 1) = UpTo(S, t)
  BY <1>0 DEF UpTo
<1>3. IsFiniteSet(UpTo(S, t)) /\ t + 1 \notin UpTo(S, t) /\ Cardinality(UpTo(S, t)) \in Nat
  <2>1. IsFiniteSet(UpTo(S, t)) /\ Cardinality(UpTo(S, t)) \in Nat
    BY UpToFinite
  <2>2. t + 1 \notin UpTo(S, t)
    BY <1>0 DEF UpTo
  <2>3. QED
    BY <2>1, <2>2
<1>4. QED
  BY <1>1, <1>2, <1>3, FS_AddElement DEF Place, UpTo

\* A finite set of numbers has a k-th element for each k up to its size.
LEMMA KthExists ==
  ASSUME NEW m \in Nat, NEW S \in SUBSET (1 .. m), NEW k \in 1 .. Cardinality(S)
  PROVE  \E i \in S : Place(S, i) = k
<1> DEFINE D == {t \in Nat : Place(S, t) >= k}
<1>0. S \in SUBSET Nat /\ k \in Nat \ {0} /\ \A t \in Nat : Place(S, t) \in Nat
  <2>1. S \in SUBSET Nat
    OBVIOUS
  <2>2. IsFiniteSet(1 .. m)
    BY FS_Interval
  <2>3. Cardinality(S) \in Nat
    BY <2>2, FS_Subset, FS_CardinalityType
  <2>4. QED
    BY <2>1, <2>3, PlaceStep
<1>1. m \in D
  <2>0. \A i \in S : i <= m
    OBVIOUS
  <2>1. UpTo(S, m) = S
    BY <2>0 DEF UpTo
  <2>2. Place(S, m) = Cardinality(S)
    BY <2>1 DEF Place, UpTo
  <2>3. QED
    BY <1>0, <2>2
<1>2. PICK t \in D : \A x \in D : t <= x
  <2>1. D \in SUBSET Nat /\ D # {}
    BY <1>1
  <2> HIDE DEF D
  <2>2. QED
    BY <2>1, Least
<1>3. t # 0
  <2>0. \A i \in S : ~(i <= 0)
    OBVIOUS
  <2>1. UpTo(S, 0) = {}
    BY <2>0 DEF UpTo
  <2>2. Place(S, 0) = 0
    BY <2>1, FS_EmptySet DEF Place, UpTo
  <2>3. QED
    BY <1>0, <2>2
<1>4. t \in Nat /\ t - 1 \in Nat /\ (t - 1) + 1 = t
  BY <1>3
<1>5. Place(S, t - 1) < k
  <2>1. ~(t <= t - 1)
    BY <1>4
  <2>2. t - 1 \notin D
    BY <1>2, <2>1
  <2>3. QED
    BY <1>0, <1>4, <2>2
<1>6. Place(S, t) >= k
  OBVIOUS
<1>7. /\ t \in S => Place(S, t) = Place(S, t - 1) + 1
      /\ t \notin S => Place(S, t) = Place(S, t - 1)
  BY <1>0, <1>4, PlaceStep
<1>8. t \in S /\ Place(S, t) = k
  <2> HIDE DEF D
  <2>1. Place(S, t - 1) \in Nat
    BY <1>0, <1>4
  <2>2. QED
    BY <1>0, <1>5, <1>6, <1>7, <2>1
<1>9. QED
  BY <1>8

\* Two elements have different places.
LEMMA PlaceGrows ==
  ASSUME NEW S \in SUBSET Nat, NEW a \in S, NEW b \in S, Place(S, a) = Place(S, b)
  PROVE  a = b
<1>1. ASSUME NEW x \in S, NEW y \in S, x < y
      PROVE  Place(S, x) < Place(S, y)
  <2>0. x \in Nat /\ y \in Nat /\ \A i \in S : i \in Nat
    OBVIOUS
  <2>a. \A i \in S : i <= x => i <= y
    BY <1>1, <2>0
  <2>b. y <= y /\ ~(y <= x)
    BY <1>1, <2>0
  <2>1. UpTo(S, x) \cup {y} \in SUBSET UpTo(S, y) /\ y \notin UpTo(S, x)
    BY <2>a, <2>b DEF UpTo
  <2>2. IsFiniteSet(UpTo(S, x)) /\ Cardinality(UpTo(S, x)) \in Nat
    BY <2>0, UpToFinite
  <2>3. IsFiniteSet(UpTo(S, y)) /\ Cardinality(UpTo(S, y)) \in Nat
    BY <2>0, UpToFinite
  <2>4. Cardinality(UpTo(S, x) \cup {y}) = Cardinality(UpTo(S, x)) + 1
    BY <2>1, <2>2, FS_AddElement
  <2>5. Cardinality(UpTo(S, x) \cup {y}) <= Cardinality(UpTo(S, y))
    BY <2>1, <2>3, FS_Subset
  <2>6. QED
    BY <2>2, <2>3, <2>4, <2>5 DEF Place, UpTo
<1>2. a \in Nat /\ b \in Nat
  OBVIOUS
<1>3. ~(Place(S, a) < Place(S, b)) /\ ~(Place(S, b) < Place(S, a))
  <2>1. Place(S, a) \in Nat
    BY <1>2, PlaceStep
  <2>2. QED
    BY <2>1
<1>4. ~(a < b) /\ ~(b < a)
  BY <1>1, <1>3
<1>5. QED
  BY <1>2, <1>4
(***************************************************************************)
(* The file of rows.  A unit's latest row is the readable one with the     *)
(* greatest number; the file is only ever appended to, a row or a line a   *)
(* crash cut off, or its torn end is glued to the row that follows.        *)
(***************************************************************************)
Files == Seq(Row \cup {CutOff, Mangled})
RowsOf(file, u) == {i \in LoadRows(file) : file[i].unit = u}
Newest(file, u, i) == i \in RowsOf(file, u) /\ \A j \in RowsOf(file, u) : j <= i
Told(file, u) == u \in DOMAIN LatestByRunId(file)
Untold(file, u) == ~Told(file, u) \/ LatestByRunId(file)[u].class = "usage_limit"
SameOf(f, g, u) == /\ Told(f, u) <=> Told(g, u)
                   /\ Told(f, u) => LatestByRunId(f)[u] = LatestByRunId(g)[u]
GluedAt(file) == {i \in DOMAIN file : file[i] = Mangled}

LEMMA LatestRow ==
  ASSUME NEW file \in Files, NEW u
  PROVE  /\ Told(file, u) <=> RowsOf(file, u) # {}
         /\ Told(file, u) => \E i : Newest(file, u, i)
         /\ \A i : Newest(file, u, i) => Told(file, u) /\ LatestByRunId(file)[u] = file[i]
<1> DEFINE mine(v, i) == /\ file[i].unit = v
                         /\ \A j \in LoadRows(file) : file[j].unit = v => j <= i
           units == {file[i].unit : i \in LoadRows(file)}
           pick(v) == CHOOSE i \in LoadRows(file) : mine(v, i)
<1>0. LatestByRunId(file) = [v \in units |-> file[pick(v)]]
  BY DEF LatestByRunId
<1>1. DOMAIN LatestByRunId(file) = units
  BY <1>0
<1>2. Told(file, u) <=> RowsOf(file, u) # {}
  BY <1>1 DEF Told, RowsOf
<1>3. RowsOf(file, u) \in SUBSET (1 .. Len(file)) /\ Len(file) \in Nat
  BY DEF RowsOf, LoadRows, Files
<1>4. Told(file, u) => \E i : Newest(file, u, i)
  BY <1>2, <1>3, Greatest DEF Newest
<1>5. ASSUME NEW i, Newest(file, u, i)
      PROVE  Told(file, u) /\ LatestByRunId(file)[u] = file[i]
  <2>1. i \in LoadRows(file) /\ mine(u, i)
    BY <1>5 DEF Newest, RowsOf
  <2>2. pick(u) \in LoadRows(file) /\ mine(u, pick(u))
    BY <2>1
  <2>3. \A j \in LoadRows(file) : j \in Nat
    BY DEF LoadRows, Files
  <2>4. i <= pick(u) /\ pick(u) <= i
    BY <2>1, <2>2
  <2>5. pick(u) = i
    <3> HIDE DEF pick, mine
    <3>1. i \in Nat /\ pick(u) \in Nat
      BY <2>1, <2>2, <2>3
    <3>2. QED
      BY <3>1, <2>4
  <2>6. Told(file, u)
    BY <1>2, <1>5 DEF Newest
  <2>7. u \in units
    BY <2>6, <1>1 DEF Told
  <2>8. LatestByRunId(file)[u] = file[pick(u)]
    <3> HIDE DEF pick, units
    <3>1. QED
      BY <1>0, <2>7
  <2>9. QED
    BY <2>5, <2>6, <2>8
<1>6. QED
  BY <1>2, <1>4, <1>5

\* Two files with the same readable rows of a unit tell the same of it.
LEMMA SameRows ==
  ASSUME NEW f \in Files, NEW g \in Files, NEW u,
         RowsOf(f, u) = RowsOf(g, u), \A i \in RowsOf(f, u) : f[i] = g[i]
  PROVE  SameOf(f, g, u)
<1>1. Told(f, u) <=> Told(g, u)
  BY LatestRow
<1>2. ASSUME Told(f, u)
      PROVE  LatestByRunId(f)[u] = LatestByRunId(g)[u]
  <2>1. PICK i : Newest(f, u, i)
    BY <1>2, LatestRow
  <2>2. Newest(g, u, i) /\ f[i] = g[i]
    BY <2>1 DEF Newest
  <2>3. LatestByRunId(f)[u] = f[i] /\ LatestByRunId(g)[u] = g[i]
    BY <2>1, <2>2, LatestRow
  <2>4. QED
    BY <2>2, <2>3
<1>3. QED
  BY <1>1, <1>2 DEF SameOf

LEMMA SameMeans ==
  ASSUME NEW f, NEW g, NEW u, SameOf(f, g, u)
  PROVE  /\ u \in CompletedRunIds(f) <=> u \in CompletedRunIds(g)
         /\ Untold(f, u) <=> Untold(g, u)
BY DEF SameOf, Told, Untold, CompletedRunIds

\* A row is the last word on its unit, and says nothing of another.
LEMMA AppendRow ==
  ASSUME NEW file \in Files, NEW row \in Row
  PROVE  LET g == Append(file, row) IN
         /\ g \in Files /\ Len(g) = Len(file) + 1
         /\ \A v : v # row.unit => SameOf(file, g, v)
         /\ Told(g, row.unit) /\ LatestByRunId(g)[row.unit] = row
         /\ GluedAt(g) = GluedAt(file)
<1> DEFINE g == Append(file, row)
           n == Len(file)
<1>0. row \notin {CutOff, Mangled}
  BY HarnessAssumption DEF Row
<1>1. g \in Files /\ Len(g) = n + 1 /\ n \in Nat
  BY DEF Files
<1>2. DOMAIN g = 1 .. n + 1 /\ DOMAIN file = 1 .. n /\ g[n + 1] = row /\ \A i \in 1 .. n : g[i] = file[i]
  BY DEF Files
<1> HIDE DEF g
<1>3. LoadRows(g) = LoadRows(file) \cup {n + 1} /\ n + 1 \notin LoadRows(file)
  BY <1>0, <1>1, <1>2 DEF LoadRows
<1>4. \A i \in LoadRows(file) : g[i] = file[i] /\ i \in 1 .. n
  BY <1>2 DEF LoadRows
<1>5. ASSUME NEW v, v # row.unit
      PROVE  SameOf(file, g, v)
  <2>1. RowsOf(g, v) = RowsOf(file, v)
    BY <1>2, <1>3, <1>4, <1>5 DEF RowsOf
  <2>2. \A i \in RowsOf(file, v) : file[i] = g[i]
    BY <1>4 DEF RowsOf
  <2>3. QED
    BY <1>1, <2>1, <2>2, SameRows
<1>6. Newest(g, row.unit, n + 1)
  <2>1. n + 1 \in RowsOf(g, row.unit)
    BY <1>2, <1>3 DEF RowsOf
  <2>2. \A j \in RowsOf(g, row.unit) : j <= n + 1
    BY <1>1, <1>3, <1>4 DEF RowsOf
  <2>3. QED
    BY <2>1, <2>2 DEF Newest
<1>7. Told(g, row.unit) /\ LatestByRunId(g)[row.unit] = row
  BY <1>1, <1>2, <1>6, LatestRow
<1>8. GluedAt(g) = GluedAt(file)
  BY <1>0, <1>1, <1>2 DEF GluedAt
<1>9. QED
  BY <1>1, <1>5, <1>7, <1>8 DEF g

\* A torn line is not read.
LEMMA AppendTorn ==
  ASSUME NEW file \in Files
  PROVE  LET g == Append(file, CutOff) IN
         /\ g \in Files /\ Len(g) = Len(file) + 1
         /\ \A v : SameOf(file, g, v)
<1> DEFINE g == Append(file, CutOff)
           n == Len(file)
<1>1. g \in Files /\ Len(g) = n + 1 /\ n \in Nat
  BY DEF Files
<1>2. DOMAIN g = 1 .. n + 1 /\ DOMAIN file = 1 .. n /\ g[n + 1] = CutOff /\ \A i \in 1 .. n : g[i] = file[i]
  BY DEF Files
<1> HIDE DEF g
<1>3. LoadRows(g) = LoadRows(file)
  BY <1>1, <1>2 DEF LoadRows
<1>4. \A i \in LoadRows(file) : g[i] = file[i]
  BY <1>2 DEF LoadRows
<1>5. ASSUME NEW v
      PROVE  SameOf(file, g, v)
  <2>1. RowsOf(g, v) = RowsOf(file, v)
    BY <1>3, <1>4 DEF RowsOf
  <2>2. \A i \in RowsOf(file, v) : file[i] = g[i]
    BY <1>4 DEF RowsOf
  <2>3. QED
    BY <1>1, <2>1, <2>2, SameRows
<1>6. QED
  BY <1>1, <1>5 DEF g

\* Nor is the row that is glued to one.
LEMMA Glue ==
  ASSUME NEW file \in Files, file # <<>>, Last(file) = CutOff
  PROVE  LET g == Append(Front(file), Mangled) IN
         /\ g \in Files /\ Len(g) = Len(file)
         /\ \A v : SameOf(file, g, v)
         /\ GluedAt(g) = GluedAt(file) \cup {Len(file)} /\ Len(file) \notin GluedAt(file)
<1> DEFINE g == Append(Front(file), Mangled)
           n == Len(file)
<1>0. n \in Nat \ {0} /\ file[n] = CutOff /\ DOMAIN file = 1 .. n
  BY DEF Files, Last
<1>1. Front(file) \in Files /\ Len(Front(file)) = n - 1 /\ \A i \in 1 .. n - 1 : Front(file)[i] = file[i]
  <2>1. Front(file) = SubSeq(file, 1, n - 1)
    BY DEF Front
  <2>2. \A i \in 1 .. n - 1 : file[i] \in Row \cup {CutOff, Mangled}
    BY <1>0 DEF Files
  <2>3. QED
    BY <1>0, <2>1, <2>2, SubSeqProperties DEF Files
<1>2. /\ g \in Files /\ Len(g) = n
      /\ DOMAIN g = 1 .. n /\ g[n] = Mangled /\ \A i \in 1 .. n - 1 : g[i] = file[i]
  <2> DEFINE h == Front(file)
  <2>0. g = Append(h, Mangled)
    OBVIOUS
  <2>1. h \in Seq(Row \cup {CutOff, Mangled}) /\ Len(h) = n - 1 /\ \A i \in 1 .. n - 1 : h[i] = file[i]
    BY <1>1 DEF Files
  <2> HIDE DEF h, g, n
  <2>2. QED
    BY <1>0, <2>0, <2>1 DEF Files
<1>3. DOMAIN g = 1 .. n /\ g[n] = Mangled /\ \A i \in 1 .. n - 1 : g[i] = file[i]
  BY <1>2
<1> HIDE DEF g
<1>4. LoadRows(g) = LoadRows(file)
  BY <1>0, <1>3 DEF LoadRows
<1>5. \A i \in LoadRows(file) : g[i] = file[i]
  BY <1>0, <1>3 DEF LoadRows
<1>6. ASSUME NEW v
      PROVE  SameOf(file, g, v)
  <2>1. RowsOf(g, v) = RowsOf(file, v)
    BY <1>4, <1>5 DEF RowsOf
  <2>2. \A i \in RowsOf(file, v) : file[i] = g[i]
    BY <1>5 DEF RowsOf
  <2>3. QED
    BY <1>2, <2>1, <2>2, SameRows
<1>7. GluedAt(g) = GluedAt(file) \cup {n} /\ n \notin GluedAt(file)
  BY <1>0, <1>3, HarnessAssumption DEF GluedAt
<1>8. QED
  BY <1>2, <1>6, <1>7 DEF g

\* What the sink makes of the file, whether its end is torn or not.
LEMMA AppendedRow ==
  ASSUME lines \in Files, NEW row \in Row
  PROVE  LET g == Appended(row) IN
         /\ g \in Files /\ Len(g) \in {Len(lines), Len(lines) + 1}
         /\ \A v : v # row.unit => SameOf(lines, g, v)
         /\ \/ /\ Told(g, row.unit) /\ LatestByRunId(g)[row.unit] = row
               /\ GluedAt(g) = GluedAt(lines)
            \/ /\ SameOf(lines, g, row.unit)
               /\ GluedAt(g) = GluedAt(lines) \cup {Len(lines)} /\ Len(lines) \notin GluedAt(lines)
<1>0. row # CutOff
  BY HarnessAssumption DEF Row
<1>1. CASE lines = <<>> \/ Last(lines) # CutOff
  <2>1. Appended(row) = Append(lines, row)
    BY <1>1 DEF Appended
  <2>2. QED
    BY <2>1, AppendRow
<1>2. CASE lines # <<>> /\ Last(lines) = CutOff
  <2>1. Appended(row) = Append(Front(lines), Mangled)
    BY <1>0, <1>2 DEF Appended
  <2>2. QED
    BY <1>2, <2>1, Glue
<1>3. QED
  BY <1>1, <1>2

LEMMA AppendedTorn ==
  ASSUME lines \in Files
  PROVE  LET g == Appended(CutOff) IN
         /\ g \in Files /\ Len(g) \in {Len(lines), Len(lines) + 1}
         /\ \A v : SameOf(lines, g, v)
<1>1. CASE lines = <<>> \/ Last(lines) # CutOff
  <2>1. Appended(CutOff) = Append(lines, CutOff)
    BY <1>1 DEF Appended
  <2>2. QED
    BY <2>1, AppendTorn
<1>2. CASE lines # <<>> /\ Last(lines) = CutOff
  <2>1. Appended(CutOff) = lines
    BY <1>2 DEF Appended
  <2>2. \A v : SameOf(lines, lines, v)
    BY DEF SameOf
  <2>3. QED
    BY <2>1, <2>2
<1>3. QED
  BY <1>1, <1>2

\* Units are scheduled each once.
LEMMA EachOnce ==
  ASSUME NEW units \in SUBSET RunIds
  PROVE  /\ Scheduled(units) \in Seq(RunIds) /\ IsInjective(Scheduled(units))
         /\ Range(Scheduled(units)) = units
<1> DEFINE left == {i \in DOMAIN Order : Order[i] \in units}
           at(k) == CHOOSE i \in left : Place(left, i) = k
           n == Cardinality(left)
           queued == [k \in 1 .. n |-> Order[at(k)]]
<1>0. Scheduled(units) = queued
  BY DEF Scheduled, Place
<1>1. Order \in Seq(RunIds) /\ IsInjective(Order) /\ RunIds = {Order[i] : i \in DOMAIN Order}
  BY HarnessAssumption DEF RunIds, Range
<1>2. Len(Order) \in Nat /\ DOMAIN Order = 1 .. Len(Order) /\ left \in SUBSET (1 .. Len(Order))
  BY <1>1
<1>3. IsFiniteSet(left) /\ n \in Nat
  <2> HIDE DEF left
  <2>1. IsFiniteSet(1 .. Len(Order))
    BY <1>2, FS_Interval
  <2>2. QED
    BY <1>2, <2>1, FS_Subset, FS_CardinalityType
<1>4. ASSUME NEW k \in 1 .. n
      PROVE  at(k) \in left /\ Place(left, at(k)) = k
  <2> HIDE DEF left
  <2>1. \E i \in left : Place(left, i) = k
    BY <1>2, <1>4, KthExists
  <2>2. QED
    BY <2>1
<1>5. ASSUME NEW k \in 1 .. n
      PROVE  queued[k] \in RunIds /\ queued[k] \in units
  <2>1. at(k) \in left
    BY <1>4
  <2>2. queued[k] = Order[at(k)]
    <3> HIDE DEF at
    <3>1. QED
      OBVIOUS
  <2>3. Order[at(k)] \in units /\ at(k) \in DOMAIN Order
    BY <2>1
  <2>4. QED
    <3> HIDE DEF at, queued
    <3>1. QED
      BY <1>1, <2>2, <2>3
<1>6. DOMAIN queued = 1 .. n
  OBVIOUS
<1>7. queued \in Seq(RunIds)
  <2> HIDE DEF at
  <2>1. queued \in [1 .. n -> RunIds]
    BY <1>5
  <2>2. QED
    BY <1>3, <2>1
<1>8. IsInjective(queued)
  <2>1. SUFFICES ASSUME NEW a \in 1 .. n, NEW b \in 1 .. n, queued[a] = queued[b]
                 PROVE  a = b
    BY <1>6 DEF IsInjective
  <2>2. Order[at(a)] = Order[at(b)]
    <3> HIDE DEF at
    <3>1. QED
      BY <2>1
  <2>3. at(a) = at(b)
    <3>1. at(a) \in DOMAIN Order /\ at(b) \in DOMAIN Order
      BY <1>4
    <3> HIDE DEF at
    <3>2. QED
      BY <1>1, <2>2, <3>1 DEF IsInjective
  <2>4. QED
    BY <1>4, <2>3
<1>9. ASSUME NEW u \in units
      PROVE  \E k \in 1 .. n : queued[k] = u
  <2>1. PICK i \in DOMAIN Order : Order[i] = u
    BY <1>1
  <2>2. i \in left
    BY <1>9, <2>1
  <2>3. Place(left, i) \in 1 .. n
    <3> HIDE DEF left
    <3>0. i \in Nat /\ left \in SUBSET Nat
      BY <1>2, <2>2
    <3>1. UpTo(left, i) \in SUBSET left /\ i \in UpTo(left, i)
      BY <2>2, <3>0 DEF UpTo
    <3>2. IsFiniteSet(UpTo(left, i)) /\ Cardinality(UpTo(left, i)) <= n /\ Cardinality(UpTo(left, i)) \in Nat
      BY <1>3, <3>1, FS_Subset, FS_CardinalityType
    <3>3. Cardinality(UpTo(left, i)) # 0
      BY <3>1, <3>2, FS_EmptySet
    <3>4. QED
      BY <3>2, <3>3, <1>3 DEF UpTo, Place
  <2> DEFINE k == Place(left, i)
  <2>4. at(k) \in left /\ Place(left, at(k)) = Place(left, i)
    BY <1>4, <2>3
  <2>5. at(k) = i
    <3> HIDE DEF left
    <3>1. at(k) \in Nat /\ i \in Nat /\ left \in SUBSET Nat
      BY <1>2, <2>2, <2>4
    <3>2. QED
      BY <2>2, <2>4, <3>1, PlaceGrows
  <2>6. queued[k] = Order[at(k)]
    <3> HIDE DEF at
    <3>1. QED
      BY <2>3
  <2>7. QED
    BY <2>1, <2>3, <2>5, <2>6
<1>10. Range(queued) = units
  <2> HIDE DEF queued
  <2>1. Range(queued) = {queued[k] : k \in 1 .. n}
    BY <1>6 DEF Range
  <2>2. QED
    BY <1>5, <1>9, <2>1
<1>11. QED
  BY <1>0, <1>7, <1>8, <1>10

\* What is pending is what is not done.
LEMMA Pending ==
  ASSUME NEW file \in Files
  PROVE  /\ PendingUnits(file) \in Seq(RunIds) /\ IsInjective(PendingUnits(file))
         /\ Range(PendingUnits(file)) = RunIds \ CompletedRunIds(file)
<1>1. RunIds \ CompletedRunIds(file) \in SUBSET RunIds
  OBVIOUS
<1> QED BY <1>1, EachOnce DEF PendingUnits

(***************************************************************************)
(* The inductive invariant.  A unit is in one place at most: it waits, a   *)
(* thread has it or is done with it, or it hit a limit of this window; and *)
(* in a resumable loop none of those is done by the file.                  *)
(***************************************************************************)
Placed == Range(queue) \cup Futures \cup Range(hits)

Threads == \A u \in RunIds :
           /\ task[u].phase = "returned" => task[u].class \in Class
           /\ task[u].phase = "attempt" => task[u].class # "usage_limit"

Apart == /\ IsInjective(queue) /\ IsInjective(hits)
         /\ Range(queue) \cap Futures = {} /\ Range(hits) \cap Futures = {}
         /\ Range(queue) \cap Range(hits) = {}

Undone == mode = "windows" => Placed \cap CompletedRunIds(lines) = {}

\* A hit stops the submission, and took the place of a thread.
Few == /\ Cardinality(Futures) <= Concurrency
       /\ hits # <<>> => stop /\ Len(hits) + Cardinality(Futures) <= Concurrency

\* The pool is empty where the main thread does not wait for it.
Still == /\ pc \in {"close", "probe", "over"} => Futures = {}
         /\ pc = "probe" => mode = "windows" /\ givenUp = "" /\ window < MaxWindows
         /\ pc = "broken" => givenUp # ""

\* From the cap on, nothing is submitted; what was in flight may be added.
Capped ==
    mode = "windows" =>
      /\ pc # "over" /\ out > 0 /\ Len(lines) >= Cap => stop /\ givenUp # ""
      /\ \/ out + Cardinality(Futures) <= Concurrency
         \/ Len(lines) + Cardinality(Futures) < Cap + Concurrency

\* A window stops for a limit or because the loop gave up, and ends drained
\* if it did neither.
Drains ==
    mode = "windows" =>
      /\ stop => hits # <<>> \/ givenUp # ""
      /\ pc = "close" /\ hits = <<>> /\ givenUp = "" => queue = <<>>
      /\ pc = "over" /\ process > 0 /\ givenUp = "" => queue = <<>> /\ hits = <<>>

\* The units nobody has and the file says nothing of: one per glued line.
Lost == {u \in RunIds : Untold(lines, u) /\ u \notin Placed}
FewLost == mode = "windows" /\ process > 0 /\ givenUp = "" => Cardinality(Lost) <= Cardinality(GluedAt(lines))

LoopInv == HarnessTypeOK /\ Threads /\ Apart /\ Undone /\ Few /\ Still /\ Capped /\ Drains /\ FewLost

LEMMA Finites ==
  /\ IsFiniteSet(RunIds)
  /\ \A S \in SUBSET RunIds : IsFiniteSet(S) /\ Cardinality(S) \in Nat
<1>1. Order \in [1 .. Len(Order) -> RunIds] /\ Len(Order) \in Nat
  BY HarnessAssumption
<1>2. \A u \in RunIds : \E i \in 1 .. Len(Order) : Order[i] = u
  BY <1>1 DEF RunIds, Range
<1>3. Order \in Surjection(1 .. Len(Order), RunIds)
  BY <1>1, <1>2 DEF Surjection
<1>4. IsFiniteSet(1 .. Len(Order))
  BY <1>1, FS_Interval
<1>5. IsFiniteSet(RunIds)
  BY <1>3, <1>4, FS_Surjection
<1>6. QED
  BY <1>5, FS_Subset, FS_CardinalityType

LEMMA Numbers ==
  /\ MaxRetries \in Nat /\ Cap \in Nat /\ Processes \in Nat
  /\ Concurrency \in Nat \ {0} /\ MaxWindows \in Nat \ {0}
BY HarnessAssumption

\* The parts of the type invariant.
Tasks == [RunIds -> [phase : {"absent", "attempt", "returned", "raised"},
                     n : 0 .. MaxRetries, class : {None} \cup Class]]
Control == /\ mode \in {"grid", "windows"} /\ stop \in BOOLEAN
           /\ pc \in {"over", "submit", "wait", "broken", "close", "probe"}
Units == queue \in Seq(RunIds) /\ hits \in Seq(RunIds)
Kept == [RunIds -> {None} \cup Class]
Counts == /\ out \in Nat /\ window \in 1 .. MaxWindows /\ probes \in 0 .. Probes
          /\ process \in 0 .. Processes /\ outcomes \in Kept

LEMMA TypeParts ==
  /\ HarnessTypeOK <=> Control /\ Units /\ Counts /\ task \in Tasks /\ lines \in Files
  /\ HarnessTypeOK' <=> Control' /\ Units' /\ Counts' /\ task' \in Tasks /\ lines' \in Files
BY DEF HarnessTypeOK, Control, Units, Counts, Tasks, Files, Kept

LEMMA GluedFinite ==
  ASSUME NEW file \in Files
  PROVE  IsFiniteSet(GluedAt(file)) /\ Cardinality(GluedAt(file)) \in Nat
<1>1. GluedAt(file) \in SUBSET (1 .. Len(file)) /\ Len(file) \in Nat
  BY DEF Files, GluedAt
<1>2. IsFiniteSet(1 .. Len(file))
  BY <1>1, FS_Interval
<1>3. QED
  BY <1>1, <1>2, FS_Subset, FS_CardinalityType

LEMMA FuturesIn == Futures \in SUBSET RunIds /\ Lost \in SUBSET RunIds
BY DEF Futures, Running, InPhase, Lost

\* A sequence has at most as many members as it is long.
LEMMA FirstFew ==
  ASSUME NEW S, NEW seq \in Seq(S), NEW n \in 0 .. Len(seq)
  PROVE  IsFiniteSet({seq[i] : i \in 1 .. n}) /\ Cardinality({seq[i] : i \in 1 .. n}) <= n
<1> DEFINE T == {seq[i] : i \in 1 .. n}
           f == [i \in 1 .. n |-> seq[i]]
<1>1. f \in Surjection(1 .. n, T)
  BY DEF Surjection
<1>2. IsFiniteSet(1 .. n) /\ Cardinality(1 .. n) = n
  BY FS_Interval
<1>3. QED
  <2> HIDE DEF f, T
  <2>1. IsFiniteSet(T) /\ Cardinality(T) <= n
    BY <1>1, <1>2, FS_Surjection
  <2>2. QED
    BY <2>1 DEF T

(***************************************************************************)
(* Steps that leave units and rows alone, and those that start afresh.     *)
(***************************************************************************)
LEMMA SameSets ==
  ASSUME UNCHANGED <<queue, task, hits, lines>>
  PROVE  /\ Futures' = Futures /\ Placed' = Placed /\ Lost' = Lost
         /\ (Threads' <=> Threads) /\ (Apart' <=> Apart)
BY DEF Futures, Running, InPhase, Placed, Lost, Threads, Apart

LEMMA StutterKeeps == LoopInv /\ UNCHANGED harnessVars => LoopInv'
<1> SUFFICES ASSUME LoopInv, UNCHANGED harnessVars PROVE LoopInv'
  OBVIOUS
<1> USE DEF harnessVars
<1>1. /\ Futures' = Futures /\ Placed' = Placed /\ Lost' = Lost
      /\ (Threads' <=> Threads) /\ (Apart' <=> Apart)
  BY SameSets
<1>2. HarnessTypeOK' = HarnessTypeOK
  BY DEF HarnessTypeOK
<1>3. QED
  BY <1>1, <1>2 DEF LoopInv, Undone, Few, Still, Capped, Drains, FewLost

LEMMA QuietKeeps ==
  ASSUME LoopInv, \/ \E u \in RunIds : Break(u)
                  \/ CloseWindow
  PROVE  LoopInv'
<1>1. UNCHANGED <<mode, queue, task, out, outcomes, hits, stop, window, probes, process, lines>>
  BY DEF Break, CloseWindow
<1>2. /\ Futures' = Futures /\ Placed' = Placed /\ Lost' = Lost
      /\ (Threads' <=> Threads) /\ (Apart' <=> Apart)
  BY <1>1, SameSets
<1>3. pc' \in {"over", "probe", "broken"} /\ pc # "over" /\ (givenUp # "" => givenUp' # "")
  BY DEF Break, CloseWindow
<1>4. HarnessTypeOK' /\ Undone' /\ Few'
  BY <1>1, <1>2, <1>3 DEF LoopInv, HarnessTypeOK, Undone, Few
<1>5. Still'
  <2>0. window' = window /\ mode' = mode /\ Futures' = Futures /\ (pc = "close" => Futures = {})
    BY <1>1, <1>2 DEF LoopInv, Still
  <2>1. /\ pc' \in {"over", "probe"} => pc = "close"
        /\ pc' = "broken" => givenUp' # ""
        /\ pc' = "probe" => mode = "windows" /\ givenUp' = "" /\ ~(window >= MaxWindows)
    BY DEF Break, CloseWindow
  <2>2. window \in Nat /\ MaxWindows \in Nat
    BY Numbers, TypeParts DEF LoopInv, Counts
  <2>3. pc' = "probe" => window < MaxWindows
    <3>1. pc' = "probe" => ~(window >= MaxWindows)
      BY <2>1
    <3>2. ~(window >= MaxWindows) => window < MaxWindows
      BY <2>2
    <3>3. QED
      BY <3>1, <3>2
  <2>4. QED
    BY <1>3, <2>0, <2>1, <2>3 DEF Still
<1>6. Capped'
  BY <1>1, <1>2, <1>3 DEF LoopInv, Capped
<1>7. Drains'
  <2>1. pc' = "over" /\ mode = "windows" /\ givenUp' = "" => pc = "close" /\ hits = <<>> /\ givenUp = ""
    BY DEF Break, CloseWindow
  <2>2. QED
    BY <1>1, <1>3, <2>1 DEF LoopInv, Drains
<1>8. FewLost'
  BY <1>1, <1>2, <1>3 DEF LoopInv, FewLost
<1>9. QED
  BY <1>2, <1>4, <1>5, <1>6, <1>7, <1>8 DEF LoopInv

\* No thread has a unit.
LEMMA AllIdle ==
  ASSUME task' = [u \in RunIds |-> NoTask]
  PROVE  Futures' = {} /\ Cardinality(Futures') = 0 /\ Threads' /\ task' \in Tasks
<1>1. 0 \in 0 .. MaxRetries
  BY Numbers
<1>2. NoTask \in [phase : {"absent", "attempt", "returned", "raised"},
                  n : 0 .. MaxRetries, class : {None} \cup Class]
  BY <1>1 DEF NoTask
<1>3. \A u \in RunIds : task'[u].phase = "absent"
  BY DEF NoTask
<1>4. Futures' = {} /\ Threads' /\ task' \in Tasks
  BY <1>2, <1>3 DEF Futures, Running, InPhase, Threads, Tasks
<1>5. QED
  BY <1>4, FS_EmptySet

LEMMA NothingKept == NoOutcomes \in Kept
  BY DEF NoOutcomes, Kept

\* What a grid writes at its end, or a part of it, is a file.
LEMMA PackagedFile ==
  ASSUME outcomes \in Kept
  PROVE  Packaged \in Files /\ Partial \subseteq Files
<1> DEFINE kept == {u \in RunIds : outcomes[u] # None}
           units == Scheduled(kept)
<1>1. units \in Seq(RunIds) /\ Range(units) = kept
  BY EachOnce
<1>2. Packaged = [i \in DOMAIN units |-> [unit |-> units[i], class |-> outcomes[units[i]]]]
  BY DEF Packaged
<1> HIDE DEF units
<1>3. \A i \in DOMAIN units : units[i] \in RunIds /\ outcomes[units[i]] \in Class
  <2>1. \A i \in DOMAIN units : units[i] \in kept
    BY <1>1 DEF Range
  <2> QED BY <2>1 DEF Kept
<1>4. Packaged \in Seq(Row)
  <2>1. DOMAIN units = 1 .. Len(units) /\ Len(units) \in Nat
    BY <1>1
  <2>2. Packaged \in [1 .. Len(units) -> Row]
    BY <1>2, <1>3, <2>1 DEF Row
  <2> QED BY <2>1, <2>2
<1>5. Packaged \in Seq(Row \cup {CutOff, Mangled})
  BY <1>4
<1>6. ASSUME NEW n \in 0 .. Len(Packaged)
      PROVE  SubSeq(Packaged, 1, n) \in Files
  <2>1. n \in Int /\ 1 \in Int
    BY <1>5, <1>6
  <2> QED BY <1>5, <1>6, <2>1 DEF Files
<1>7. ASSUME NEW n \in 1 .. Len(Packaged)
      PROVE  Append(SubSeq(Packaged, 1, n - 1), CutOff) \in Files
  <2>1. n - 1 \in 0 .. Len(Packaged)
    BY <1>5, <1>7
  <2>2. SubSeq(Packaged, 1, n - 1) \in Files
    BY <1>6, <2>1
  <2> QED BY <2>2 DEF Files
<1> QED BY <1>5, <1>6, <1>7 DEF Partial, Files

LEMMA StartGridKeeps == LoopInv /\ StartGrid => LoopInv'
<1> SUFFICES ASSUME LoopInv, StartGrid PROVE LoopInv'
  OBVIOUS
<1>1. Futures' = {} /\ Cardinality(Futures') = 0 /\ Threads' /\ task' \in Tasks
  BY AllIdle DEF StartGrid, Begin
<1>2. Order \in Seq(RunIds) /\ IsInjective(Order) /\ IsInjective(<<>>) /\ Range(<<>>) = {} /\ <<>> \in Seq(RunIds)
  BY HarnessAssumption DEF IsInjective, Range
<1>3. HarnessTypeOK'
  <2>1. Control' /\ Units' /\ lines' \in Files
    BY <1>2, TypeParts DEF LoopInv, Control, Units, StartGrid, Begin
  <2>1a. Counts
    BY TypeParts DEF LoopInv
  <2>1b. out' = 0 /\ outcomes' \in Kept /\ window' = 1 /\ probes' = 0 /\ process' = process + 1 /\ process < Processes
    BY NothingKept DEF StartGrid, Begin
  <2>2. Counts'
    BY <2>1a, <2>1b, Numbers DEF Counts, Probes
  <2>3. QED
    BY <1>1, <2>1, <2>2, TypeParts
<1>4. Apart'
  BY <1>1, <1>2 DEF StartGrid, Begin, Apart
<1>5. Few'
  <2>1. Cardinality(Futures') <= Concurrency
    BY <1>1, Numbers
  <2>2. hits' = <<>>
    BY DEF StartGrid, Begin
  <2>3. QED
    BY <2>1, <2>2 DEF Few
<1>6. Undone' /\ Still' /\ Capped' /\ Drains' /\ FewLost'
  BY DEF Undone, Still, Capped, Drains, FewLost, StartGrid, Begin
<1>7. QED
  BY <1>1, <1>3, <1>4, <1>5, <1>6 DEF LoopInv

LEMMA StartLoopKeeps == LoopInv /\ StartLoop => LoopInv'
<1> SUFFICES ASSUME LoopInv, StartLoop PROVE LoopInv'
  OBVIOUS
<1> DEFINE units == PendingUnits(lines)
<1>0. lines \in Files
  BY TypeParts DEF LoopInv
<1>1. Futures' = {} /\ Cardinality(Futures') = 0 /\ Threads' /\ task' \in Tasks
  BY AllIdle DEF StartLoop, Begin
<1>2. /\ units \in Seq(RunIds) /\ IsInjective(units) /\ Range(units) = RunIds \ CompletedRunIds(lines)
      /\ IsInjective(<<>>) /\ Range(<<>>) = {} /\ <<>> \in Seq(RunIds)
  BY <1>0, Pending DEF IsInjective, Range
<1> HIDE DEF units
<1>3. /\ mode' = "windows" /\ queue' = units /\ hits' = <<>> /\ lines' = lines /\ pc' = "submit" /\ out' = 0 /\ outcomes' \in Kept
      /\ stop' = FALSE /\ givenUp' = "" /\ window' = 1 /\ probes' = 0
      /\ process' = process + 1 /\ process < Processes
  BY NothingKept DEF StartLoop, Begin, units
<1>4. HarnessTypeOK'
  <2>1. Control' /\ Units' /\ lines' \in Files
    BY <1>0, <1>2, <1>3 DEF Control, Units
  <2>1a. Counts
    BY TypeParts DEF LoopInv
  <2>1b. out' = 0 /\ outcomes' \in Kept /\ window' = 1 /\ probes' = 0 /\ process' = process + 1 /\ process < Processes
    BY <1>3
  <2>2. Counts'
    BY <2>1a, <2>1b, Numbers DEF Counts, Probes
  <2>3. QED
    BY <1>1, <2>1, <2>2, TypeParts
<1>5. Apart'
  BY <1>1, <1>2, <1>3 DEF Apart
<1>6. Placed' = RunIds \ CompletedRunIds(lines)
  BY <1>1, <1>2, <1>3 DEF Placed
<1>7. Undone'
  BY <1>3, <1>6 DEF Undone
<1>8. Few' /\ Still' /\ Capped' /\ Drains'
  <2>0. Cardinality(Futures') = 0 /\ out' = 0
    BY <1>1, <1>3
  <2>1. Cardinality(Futures') <= Concurrency /\ out' + Cardinality(Futures') <= Concurrency /\ ~(out' > 0)
    BY <2>0, Numbers
  <2>2. QED
    BY <1>1, <1>3, <2>1 DEF Few, Still, Capped, Drains
<1>9. FewLost'
  <2>1. \A u \in CompletedRunIds(lines) : ~Untold(lines, u)
    BY DEF CompletedRunIds, Untold, Told, Complete
  <2>2. Lost' = {}
    BY <1>3, <1>6, <2>1 DEF Lost
  <2>3. Cardinality(GluedAt(lines)) \in Nat /\ GluedAt(lines)' = GluedAt(lines)
    BY <1>0, <1>3, GluedFinite
  <2>4. Cardinality(Lost') = 0
    BY <2>2, FS_EmptySet
  <2>5. Cardinality(Lost') <= Cardinality(GluedAt(lines)')
    BY <2>3, <2>4
  <2>6. QED
    BY <2>5 DEF FewLost
<1>10. QED
  BY <1>1, <1>4, <1>5, <1>7, <1>8, <1>9 DEF LoopInv
(***************************************************************************)
(* Sequences without repetition.                                           *)
(***************************************************************************)
LEMMA Split ==
  ASSUME NEW S, NEW q \in Seq(S), IsInjective(q), NEW n \in 0 .. Len(q)
  PROVE  LET rest == SubSeq(q, n + 1, Len(q))
             first == {q[i] : i \in 1 .. n} IN
         /\ rest \in Seq(S) /\ IsInjective(rest) /\ Len(rest) = Len(q) - n
         /\ Range(q) = first \cup Range(rest) /\ first \cap Range(rest) = {}
<1> DEFINE rest == SubSeq(q, n + 1, Len(q))
           first == {q[i] : i \in 1 .. n}
           m == Len(q)
<1>0. m \in Nat /\ n \in Nat /\ n <= m /\ DOMAIN q = 1 .. m
  OBVIOUS
<1>1. /\ rest \in Seq(S) /\ Len(rest) = m - n
      /\ \A i \in 1 .. m - n : rest[i] = q[n + i]
  <2>1. \A i \in n + 1 .. m : q[i] \in S
    OBVIOUS
  <2>2. /\ rest \in Seq(S) /\ Len(rest) = IF n + 1 <= m THEN m - (n + 1) + 1 ELSE 0
        /\ \A i \in 1 .. m - (n + 1) + 1 : rest[i] = q[(n + 1) + i - 1]
    BY <1>0, <2>1, SubSeqProperties
  <2> HIDE DEF rest, m
  <2>3. (m - (n + 1) + 1 = m - n) /\ \A i \in 1 .. m - n : (n + 1) + i - 1 = n + i
    BY <1>0
  <2>4. QED
    BY <1>0, <2>2, <2>3
<1>2. DOMAIN rest = 1 .. m - n
  BY <1>1
<1> HIDE DEF rest, m
<1>3. IsInjective(rest)
  <2>1. ASSUME NEW a \in 1 .. m - n, NEW b \in 1 .. m - n, rest[a] = rest[b]
        PROVE  a = b
    <3>1. q[n + a] = q[n + b] /\ n + a \in 1 .. m /\ n + b \in 1 .. m
      BY <1>0, <1>1, <2>1
    <3>2. n + a = n + b
      BY <1>0, <3>1 DEF IsInjective
    <3>3. QED
      BY <1>0, <3>2
  <2>2. QED
    BY <1>2, <2>1 DEF IsInjective
<1>4. Range(rest) = {q[j] : j \in n + 1 .. m}
  <2>1. \A j \in n + 1 .. m : j - n \in 1 .. m - n /\ n + (j - n) = j
    BY <1>0
  <2>2. \A i \in 1 .. m - n : n + i \in n + 1 .. m
    BY <1>0
  <2>3. \A j \in n + 1 .. m : rest[j - n] = q[j]
    BY <1>1, <2>1
  <2>4. DOMAIN rest = 1 .. m - n
    BY <1>1, <1>2
  <2>5. ASSUME NEW e
        PROVE  e \in Range(rest) <=> \E j \in n + 1 .. m : e = q[j]
    <3> HIDE DEF rest
    <3> QED BY <2>1, <2>2, <2>3, <2>4, <1>2 DEF Range
  <2>6. QED
    BY <2>5
<1>5. Range(q) = first \cup Range(rest)
  <2>1. 1 .. m = (1 .. n) \cup (n + 1 .. m)
    BY <1>0
  <2>2. QED
    BY <1>0, <1>4, <2>1 DEF Range
<1>6. first \cap Range(rest) = {}
  <2>1. \A i \in 1 .. n, j \in n + 1 .. m : i \in 1 .. m /\ j \in 1 .. m /\ i # j
    BY <1>0
  <2>2. \A i \in 1 .. n, j \in n + 1 .. m : q[i] # q[j]
    BY <1>0, <2>1 DEF IsInjective
  <2>3. QED
    BY <1>4, <2>2
<1>7. QED
  BY <1>1, <1>3, <1>5, <1>6 DEF rest, m

LEMMA Join ==
  ASSUME NEW S, NEW p \in Seq(S), NEW q \in Seq(S), IsInjective(p), IsInjective(q),
         Range(p) \cap Range(q) = {}
  PROVE  p \o q \in Seq(S) /\ IsInjective(p \o q) /\ Range(p \o q) = Range(p) \cup Range(q)
<1> DEFINE m == Len(p)
           n == Len(q)
           r == p \o q
<1>1. /\ m \in Nat /\ n \in Nat /\ DOMAIN p = 1 .. m /\ DOMAIN q = 1 .. n
      /\ r \in Seq(S) /\ DOMAIN r = 1 .. m + n
  OBVIOUS
<1>2. \A i \in 1 .. m + n : r[i] = IF i <= m THEN p[i] ELSE q[i - m]
  OBVIOUS
<1> HIDE DEF m, n, r
<1>3. \A i \in 1 .. m + n : IF i <= m THEN i \in 1 .. m ELSE i - m \in 1 .. n /\ i - m + m = i
  BY <1>1
<1>4. \A i \in 1 .. m + n : r[i] \in IF i <= m THEN Range(p) ELSE Range(q)
  BY <1>1, <1>2, <1>3 DEF Range
<1>5. ASSUME NEW a \in 1 .. m + n, NEW b \in 1 .. m + n, r[a] = r[b]
      PROVE  a = b
  <2>1. (a <= m) <=> (b <= m)
    BY <1>4, <1>5
  <2>2. CASE a <= m
    BY <1>1, <1>2, <1>3, <1>5, <2>1, <2>2 DEF IsInjective
  <2>3. CASE ~(a <= m)
    <3>1. a - m = b - m
      BY <1>1, <1>2, <1>3, <1>5, <2>1, <2>3 DEF IsInjective
    <3>2. QED
      BY <1>1, <3>1
  <2>4. QED
    BY <2>2, <2>3
<1>6. Range(r) = Range(p) \cup Range(q)
  <2>1. \A i \in 1 .. m : i \in 1 .. m + n /\ r[i] = p[i]
    BY <1>1, <1>2
  <2>2. \A i \in 1 .. n : m + i \in 1 .. m + n /\ r[m + i] = q[i]
    <3>1. SUFFICES ASSUME NEW i \in 1 .. n
                   PROVE  m + i \in 1 .. m + n /\ r[m + i] = q[i]
      OBVIOUS
    <3>2. m + i \in 1 .. m + n /\ ~(m + i <= m) /\ m + i - m = i
      BY <1>1
    <3> DEFINE k == m + i
    <3>3. k \in 1 .. m + n /\ ~(k <= m) /\ k - m = i
      BY <1>1, <3>2
    <3> HIDE DEF k
    <3>4. r[k] = q[i]
      BY <1>2, <3>3
    <3>5. QED
      BY <3>3, <3>4 DEF k
  <2>3. Range(p) \cup Range(q) \subseteq Range(r)
    BY <1>1, <2>1, <2>2 DEF Range
  <2>4. Range(r) \subseteq Range(p) \cup Range(q)
    <3>1. ASSUME NEW x \in Range(r) PROVE x \in Range(p) \cup Range(q)
      <4>1. PICK i \in 1 .. m + n : r[i] = x
        BY <1>1 DEF Range
      <4>2. QED
        BY <1>4, <4>1
    <3>2. QED
      BY <3>1
  <2>5. QED
    BY <2>3, <2>4
<1>7. IsInjective(r)
  BY <1>1, <1>5 DEF IsInjective
<1>8. QED
  BY <1>1, <1>6, <1>7 DEF r

LEMMA AppendNew ==
  ASSUME NEW S, NEW q \in Seq(S), IsInjective(q), NEW x \in S, x \notin Range(q)
  PROVE  LET g == Append(q, x) IN
         g \in Seq(S) /\ g # <<>> /\ Len(g) = Len(q) + 1 /\ IsInjective(g) /\ Range(g) = Range(q) \cup {x}
<1> DEFINE g == Append(q, x)
           n == Len(q)
<1>1. g \in Seq(S) /\ Len(g) = n + 1 /\ n \in Nat /\ g # <<>>
  OBVIOUS
<1>2. DOMAIN g = 1 .. n + 1 /\ DOMAIN q = 1 .. n /\ g[n + 1] = x /\ \A i \in 1 .. n : g[i] = q[i]
  OBVIOUS
<1> HIDE DEF g, n
<1>3. 1 .. n + 1 = (1 .. n) \cup {n + 1}
  BY <1>1
<1>4. IsInjective(g)
  BY <1>2, <1>3 DEF IsInjective, Range
<1>5. Range(g) = Range(q) \cup {x}
  BY <1>2, <1>3 DEF Range
<1>6. QED
  BY <1>1, <1>4, <1>5 DEF g, n
(***************************************************************************)
(* The threads, the end of a pool, the probe and the kill.                 *)
(***************************************************************************)
LEMMA JudgeKeeps ==
  ASSUME task \in Tasks, Threads, NEW u \in RunIds, task[u].phase = "attempt",
         NEW r, r.class \in {None} \cup (Class \ Complete), Judge(u, r)
  PROVE  task' \in Tasks /\ Threads' /\ Futures' = Futures
<1> DEFINE Task == [phase : {"absent", "attempt", "returned", "raised"},
                    n : 0 .. MaxRetries, class : {None} \cup Class]
<1>0. /\ \A v \in RunIds : task[v] \in Task
      /\ MaxRetries \in Nat /\ DOMAIN task = RunIds /\ task[u].n \in 0 .. MaxRetries
  BY Numbers DEF Tasks
<1>1. /\ task' \in Tasks /\ \A v \in RunIds \ {u} : task'[v] = task[v]
      /\ task'[u].phase \in {"attempt", "returned", "raised"}
      /\ task'[u].phase = "returned" => task'[u].class \in Class
      /\ task'[u].phase = "attempt" => task'[u].class # "usage_limit"
  <2>1. CASE task' = [task EXCEPT ![u] = [NoTask EXCEPT !.phase = "raised"]]
    <3>1. [NoTask EXCEPT !.phase = "raised"] = [phase |-> "raised", n |-> 0, class |-> None]
      BY DEF NoTask
    <3>2. [phase |-> "raised", n |-> 0, class |-> None] \in Task
      BY <1>0
    <3>3. task'[u].phase = "raised"
      BY <1>0, <2>1, <3>1
    <3>4. QED
      BY <1>0, <2>1, <3>1, <3>2, <3>3 DEF Tasks
  <2>2. CASE /\ IsRetryable(r.class) /\ RetriesLeft(task[u].n)
             /\ task' = [task EXCEPT ![u].n = @ + 1, ![u].class = r.class]
    <3> DEFINE next == [task[u] EXCEPT !.n = @ + 1, !.class = r.class]
    <3>1. task' = [task EXCEPT ![u] = next]
      BY <1>0, <2>2
    <3>2. task[u].n + 1 \in 0 .. MaxRetries /\ r.class \in Class /\ r.class # "usage_limit"
      BY <1>0, <2>2 DEF IsRetryable, RetriesLeft, Retryable, Class
    <3>3. next \in Task /\ next.phase = "attempt" /\ next.class = r.class
      BY <1>0, <3>2
    <3> HIDE DEF next
    <3>4. QED
      BY <1>0, <3>1, <3>2, <3>3 DEF Tasks
  <2>3. CASE \E class \in Outcomes(r.class) :
               task' = [task EXCEPT ![u] = [NoTask EXCEPT !.phase = "returned", !.class = class]]
    <3>1. PICK class \in Outcomes(r.class) :
               task' = [task EXCEPT ![u] = [NoTask EXCEPT !.phase = "returned", !.class = class]]
      BY <2>3
    <3>2. class \in Class
      BY HarnessAssumption DEF Outcomes, Complete, Class
    <3> DEFINE next == [NoTask EXCEPT !.phase = "returned", !.class = class]
    <3>3. NoTask \in Task
      BY <1>0 DEF NoTask
    <3>4. next \in Task /\ next.phase = "returned" /\ next.class = class
      BY <3>2, <3>3
    <3>5. task' = [task EXCEPT ![u] = next]
      BY <3>1
    <3> HIDE DEF next
    <3>6. QED
      BY <1>0, <3>2, <3>4, <3>5 DEF Tasks
  <2>4. QED
    BY <2>1, <2>2, <2>3 DEF Judge
<1>2. Threads'
  BY <1>1 DEF Threads
<1>3. Futures' = Futures
  BY <1>1 DEF Futures, Running, InPhase
<1>4. QED
  BY <1>1, <1>2, <1>3

LEMMA RunUnitKeeps ==
  ASSUME LoopInv, NEW u \in RunIds, RunUnit(u)
  PROVE  LoopInv'
<1>1. /\ queue' = queue /\ hits' = hits /\ lines' = lines /\ mode' = mode /\ pc' = pc /\ out' = out /\ outcomes' = outcomes
      /\ (stop' <=> stop) /\ givenUp' = givenUp /\ window' = window /\ probes' = probes /\ process' = process
  BY DEF RunUnit, loop
<1>2. task \in Tasks /\ Threads
  BY TypeParts DEF LoopInv
<1>3. PICK r : r.class \in {None} \cup (Class \ Complete) /\ Judge(u, r)
  <2>1. CASE Judge(u, [class |-> "harness_error", model |-> None])
    BY <2>1 DEF Class, Complete
  <2>2. CASE \E reply \in Replies : Judge(u, reply)
    <3>1. PICK reply \in Replies : Judge(u, reply)
      BY <2>2
    <3>2. reply.class \in {None} \cup (Class \ Complete)
      BY HarnessAssumption
    <3>3. QED
      BY <3>1, <3>2
  <2>3. QED
    BY <2>1, <2>2 DEF RunUnit
<1>4. task' \in Tasks /\ Threads' /\ Futures' = Futures
  BY <1>2, <1>3, JudgeKeeps DEF RunUnit
<1>5. HarnessTypeOK'
  <2>1. Control' /\ Units' /\ Counts' /\ lines' \in Files
    <3>1. stop' \in BOOLEAN
      BY DEF RunUnit, loop, LoopInv, HarnessTypeOK
    <3>2. QED
      BY <1>1, <3>1, TypeParts DEF LoopInv, Control, Units, Counts
  <2>2. QED
    BY <1>4, <2>1, TypeParts
<1>6. Placed' = Placed
  BY <1>1, <1>4 DEF Placed
<1>7. Lost' = Lost
  BY <1>1, <1>6 DEF Lost
<1>8. Apart' /\ Undone' /\ Still' /\ FewLost'
  BY <1>1, <1>4, <1>6, <1>7 DEF LoopInv, Apart, Undone, Still, FewLost
<1>9. Few' /\ Capped' /\ Drains'
  BY <1>1, <1>4 DEF LoopInv, Few, Capped, Drains
<1>10. QED
  BY <1>4, <1>5, <1>8, <1>9 DEF LoopInv

LEMMA LeaveKeeps == LoopInv /\ Leave => LoopInv'
<1> SUFFICES ASSUME LoopInv, Leave PROVE LoopInv'
  OBVIOUS
<1>1. /\ queue' = queue /\ hits' = hits /\ lines' = lines /\ mode' = mode /\ out' = out /\ outcomes' \in Kept
      /\ (stop' <=> stop) /\ givenUp' = givenUp /\ window' = window /\ probes' = probes /\ process' = process
      /\ pc = "broken" /\ pc' = "over"
  BY NothingKept DEF Leave
<1>2. Futures' = {} /\ Cardinality(Futures') = 0 /\ Threads' /\ task' \in Tasks
  BY AllIdle DEF Leave
<1>3. givenUp # ""
  BY <1>1 DEF LoopInv, Still
<1>4. HarnessTypeOK'
  <2>1. Control' /\ Units' /\ Counts' /\ lines' \in Files
    <3>1. stop' \in BOOLEAN
      BY DEF Leave, LoopInv, HarnessTypeOK
    <3>2. QED
      BY <1>1, <3>1, TypeParts DEF LoopInv, Control, Units, Counts
  <2>2. QED
    BY <1>2, <2>1, TypeParts
<1>5. Cardinality(Futures) \in Nat /\ Len(hits) \in Nat /\ Len(lines) \in Nat /\ out \in Nat
  BY Finites, FuturesIn, TypeParts DEF LoopInv, Units, Files, Counts
<1>6. Placed' \subseteq Placed
  BY <1>1, <1>2 DEF Placed
<1>7. Apart' /\ Undone' /\ Still' /\ FewLost'
  BY <1>1, <1>2, <1>3, <1>6 DEF LoopInv, Apart, Undone, Still, FewLost
<1>8. Few'
  <2>1. Cardinality(Futures') <= Concurrency
    BY <1>2, Numbers
  <2>2. Len(hits) + Cardinality(Futures) <= Concurrency => Len(hits') + Cardinality(Futures') <= Concurrency
    BY <1>1, <1>2, <1>5, Numbers
  <2>3. QED
    BY <1>1, <2>1, <2>2 DEF LoopInv, Few
<1>9. Capped'
  <2>1. out + Cardinality(Futures) <= Concurrency => out' + Cardinality(Futures') <= Concurrency
    BY <1>1, <1>2, <1>5, Numbers
  <2>2. Len(lines) + Cardinality(Futures) < Cap + Concurrency => Len(lines') + Cardinality(Futures') < Cap + Concurrency
    BY <1>1, <1>2, <1>5, Numbers
  <2>3. QED
    BY <1>1, <2>1, <2>2 DEF LoopInv, Capped
<1>10. Drains'
  BY <1>1, <1>3 DEF LoopInv, Drains
<1>11. QED
  BY <1>2, <1>4, <1>7, <1>8, <1>9, <1>10 DEF LoopInv

LEMMA PackageKeeps == LoopInv /\ Package => LoopInv'
<1> SUFFICES ASSUME LoopInv, Package PROVE LoopInv'
  OBVIOUS
<1>1. /\ UNCHANGED <<mode, queue, task, out, hits, stop, givenUp, window, probes, process>>
      /\ mode = "grid" /\ pc = "close" /\ pc' = "over" /\ lines' = Packaged /\ outcomes' \in Kept
  BY NothingKept DEF Package, Packaging
<1>2. Control /\ Units /\ Counts /\ task \in Tasks
  BY TypeParts DEF LoopInv
<1>3. Futures' = Futures /\ (Threads' <=> Threads) /\ (Apart' <=> Apart)
  BY <1>1 DEF Futures, Running, InPhase, Threads, Apart
<1>4. HarnessTypeOK'
  <2>1. lines' \in Files
    BY <1>1, <1>2, PackagedFile DEF Counts
  <2>2. Control' /\ Units' /\ Counts' /\ task' \in Tasks
    BY <1>1, <1>2 DEF Control, Units, Counts
  <2> QED BY <2>1, <2>2, TypeParts
<1>5. Few' /\ Still'
  BY <1>1, <1>3 DEF LoopInv, Few, Still
<1>6. Undone' /\ Capped' /\ Drains' /\ FewLost'
  BY <1>1 DEF Undone, Capped, Drains, FewLost
<1> QED BY <1>3, <1>4, <1>5, <1>6 DEF LoopInv

LEMMA ProbeKeeps == LoopInv /\ Probe => LoopInv'
<1> SUFFICES ASSUME LoopInv, Probe PROVE LoopInv'
  OBVIOUS
<1>1. /\ task' = task /\ lines' = lines /\ mode' = mode /\ out' = out /\ outcomes' = outcomes /\ process' = process /\ pc = "probe"
  BY DEF Probe
<1>2. Futures' = Futures /\ (Threads' <=> Threads)
  BY <1>1 DEF Futures, Running, InPhase, Threads
<1>3. Futures = {} /\ Cardinality(Futures) = 0 /\ mode = "windows" /\ givenUp = "" /\ window < MaxWindows
  BY <1>1, FS_EmptySet DEF LoopInv, Still
<1>4. Control /\ Units /\ Counts /\ task \in Tasks /\ lines \in Files
  BY TypeParts DEF LoopInv
<1>5. CASE /\ queue' = Requeued /\ hits' = <<>> /\ stop' = FALSE
           /\ window' = window + 1 /\ probes' = 0 /\ pc' = "submit"
           /\ givenUp' = givenUp
  <2>1. /\ queue' \in Seq(RunIds) /\ IsInjective(queue') /\ Range(queue') = Range(hits) \cup Range(queue)
    BY <1>4, <1>5, Join DEF Requeued, Units, LoopInv, Apart
  <2>2. hits' = <<>> /\ hits' \in Seq(RunIds) /\ IsInjective(hits') /\ Range(hits') = {}
    BY <1>5 DEF IsInjective, Range
  <2>3. Placed' = Placed
    BY <1>2, <2>1, <2>2 DEF Placed
  <2>4. Lost' = Lost
    BY <1>1, <2>3 DEF Lost
  <2>5. HarnessTypeOK'
    <3>1. Control' /\ Units'
      BY <1>1, <1>4, <1>5, <2>1, <2>2 DEF Control, Units
    <3>2. window' = window + 1 /\ probes' = 0
      BY <1>5
    <3>3. Counts'
      <4>1. /\ window \in 1 .. MaxWindows /\ window < MaxWindows /\ out' \in Nat /\ process' \in 0 .. Processes
            /\ outcomes' \in Kept
        BY <1>1, <1>3, <1>4 DEF Counts
      <4>2. window + 1 \in 1 .. MaxWindows /\ 0 \in 0 .. Probes
        BY <4>1, Numbers DEF Probes
      <4>3. QED
        BY <3>2, <4>1, <4>2 DEF Counts
    <3>4. QED
      BY <1>1, <1>4, <3>1, <3>3, TypeParts
  <2>6. Apart'
    BY <1>2, <1>3, <2>1, <2>2 DEF Apart
  <2>7. Undone' /\ FewLost'
    BY <1>1, <1>5, <2>3, <2>4 DEF LoopInv, Undone, FewLost
  <2>8. Few'
    BY <1>2, <2>2 DEF LoopInv, Few
  <2>9. Still' /\ Drains'
    BY <1>5, <2>2 DEF Still, Drains
  <2>10. Capped'
    <3>1. ~(out > 0 /\ Len(lines) >= Cap)
      BY <1>1, <1>3 DEF LoopInv, Capped
    <3>2. ~(out' > 0 /\ Len(lines') >= Cap)
      BY <1>1, <3>1
    <3>3. \/ out' + Cardinality(Futures') <= Concurrency
          \/ Len(lines') + Cardinality(Futures') < Cap + Concurrency
      BY <1>1, <1>2, <1>3 DEF LoopInv, Capped
    <3>4. QED
      BY <3>2, <3>3 DEF Capped
  <2>11. QED
    BY <1>2, <2>5, <2>6, <2>7, <2>8, <2>9, <2>10 DEF LoopInv
<1>6. CASE /\ probes' = (probes + 1) % (Probes + 1)
           /\ IF GivesUp(probes') THEN pc' = "over" /\ givenUp' = "probe_never_recovered"
                                  ELSE UNCHANGED <<pc, givenUp>>
           /\ UNCHANGED <<queue, hits, stop, window>>
  <2>0. UNCHANGED <<queue, task, hits, lines>>
    BY <1>1, <1>6
  <2>1. /\ Futures' = Futures /\ Placed' = Placed /\ Lost' = Lost
        /\ (Threads' <=> Threads) /\ (Apart' <=> Apart)
    BY <2>0, SameSets
  <2>2. /\ queue' = queue /\ hits' = hits /\ (stop' <=> stop) /\ window' = window
        /\ \/ pc' = "probe" /\ givenUp' = givenUp
           \/ pc' = "over" /\ givenUp' # ""
    BY <1>1, <1>6
  <2>3. HarnessTypeOK'
    <3>1. Control' /\ Units'
      BY <1>1, <1>4, <1>6, <2>2 DEF Control, Units
    <3>2. probes' \in 0 .. Probes
      BY <1>4, <1>6 DEF Counts, Probes
    <3>3. Counts'
      BY <1>1, <1>4, <2>2, <3>2 DEF Counts
    <3>4. QED
      BY <1>1, <1>4, <3>1, <3>3, TypeParts
  <2>4. Undone' /\ FewLost' /\ Few' /\ Still'
    BY <1>1, <1>3, <2>1, <2>2 DEF LoopInv, Undone, FewLost, Few, Still
  <2>5. Capped' /\ Drains'
    BY <1>1, <2>1, <2>2 DEF LoopInv, Capped, Drains
  <2>6. QED
    BY <2>1, <2>3, <2>4, <2>5 DEF LoopInv
<1>7. QED
  BY <1>5, <1>6 DEF Probe

LEMMA KilledKeeps == LoopInv /\ Killed => LoopInv'
<1> SUFFICES ASSUME LoopInv, Killed PROVE LoopInv'
  OBVIOUS
<1>1. /\ mode' = mode /\ out' = out /\ outcomes' \in Kept /\ (stop' <=> stop) /\ window' = window /\ probes' = probes
      /\ process' = process /\ queue' = <<>> /\ hits' = <<>> /\ pc' = "over" /\ givenUp' = "crash"
  BY NothingKept DEF Killed
<1>2. Futures' = {} /\ Cardinality(Futures') = 0 /\ Threads' /\ task' \in Tasks
  BY AllIdle DEF Killed
<1>3. Control /\ Units /\ Counts /\ lines \in Files
  BY TypeParts DEF LoopInv
<1>4. /\ lines' \in Files
      /\ \/ lines' = lines
         \/ Len(lines') <= Len(lines) + 1 /\ Futures # {}
         \/ mode = "grid"
  <2>1. CASE lines' = lines
    BY <1>3, <2>1
  <2>2. CASE lines' = Appended(CutOff) /\ InPhase({"returned"}) # {}
    <3>1. lines' = Appended(CutOff) /\ InPhase({"returned"}) # {}
      BY <2>2
    <3>2. Futures # {}
      BY <3>1 DEF Futures, InPhase
    <3>3. lines' \in Files /\ Len(lines') \in {Len(lines), Len(lines) + 1} /\ Len(lines) \in Nat
      BY <1>3, <3>1, AppendedTorn DEF Files
    <3>4. QED
      BY <3>2, <3>3
  <2>3. CASE Packaging /\ lines' \in Partial
    BY <1>3, <2>3, PackagedFile DEF Counts, Packaging
  <2>4. QED
    BY <2>1, <2>2, <2>3 DEF Killed
<1>5. /\ <<>> \in Seq(RunIds) /\ IsInjective(<<>>) /\ Range(<<>>) = {}
  BY DEF IsInjective, Range
<1>6. HarnessTypeOK'
  <2>1. stop' \in BOOLEAN
    BY DEF Killed, LoopInv, HarnessTypeOK
  <2>2. Control' /\ Units' /\ Counts'
    BY <1>1, <1>3, <1>5, <2>1 DEF Control, Units, Counts
  <2>3. QED
    BY <1>2, <1>4, <2>2, TypeParts
<1>7. Apart' /\ Undone' /\ Still' /\ Drains' /\ FewLost'
  BY <1>1, <1>2, <1>5 DEF Apart, Undone, Still, Drains, FewLost, Placed
<1>8. Few'
  <2>1. Cardinality(Futures') <= Concurrency
    BY <1>2, Numbers
  <2>2. QED
    BY <1>1, <2>1 DEF Few
<1>9. Capped'
  <2>1. Cardinality(Futures) \in Nat /\ (Futures # {} => Cardinality(Futures) >= 1)
    BY Finites, FuturesIn, FS_EmptySet
  <2>2. Len(lines) \in Nat /\ Len(lines') \in Nat /\ out \in Nat
    BY <1>3, <1>4 DEF Files, Counts
  <2>3. out + Cardinality(Futures) <= Concurrency => out' + Cardinality(Futures') <= Concurrency
    BY <1>1, <1>2, <2>1, <2>2, Numbers
  <2>4. mode # "grid" /\ Len(lines) + Cardinality(Futures) < Cap + Concurrency
           => Len(lines') + Cardinality(Futures') < Cap + Concurrency
    <3>1. mode # "grid" => Len(lines') <= Len(lines) + Cardinality(Futures)
      BY <1>4, <2>1, <2>2
    <3>2. QED
      BY <1>2, <2>1, <2>2, <3>1, Numbers
  <2>5. QED
    BY <1>1, <2>3, <2>4 DEF LoopInv, Capped
<1>10. QED
  BY <1>2, <1>6, <1>7, <1>8, <1>9 DEF LoopInv

LEMMA SubmitKeeps == LoopInv /\ Submit => LoopInv'
<1> SUFFICES ASSUME LoopInv, Submit PROVE LoopInv'
  OBVIOUS
<1> DEFINE n == IF stop THEN 0 ELSE IF Room < Len(queue) THEN Room ELSE Len(queue)
           next == {queue[i] : i \in 1 .. n}
           rest == SubSeq(queue, n + 1, Len(queue))
<1>0. /\ hits' = hits /\ lines' = lines /\ mode' = mode /\ out' = out /\ outcomes' = outcomes /\ (stop' <=> stop)
      /\ givenUp' = givenUp /\ window' = window /\ probes' = probes /\ process' = process
  BY DEF Submit
<1>1. /\ task' = [u \in RunIds |-> IF u \in next THEN [NoTask EXCEPT !.phase = "attempt"] ELSE task[u]]
      /\ queue' = rest /\ pc = "submit"
      /\ pc' = IF Futures = {} /\ n = 0 THEN "close" ELSE "wait"
  BY DEF Submit
<1>2. Control /\ Units /\ Counts /\ task \in Tasks /\ lines \in Files
  BY TypeParts DEF LoopInv
<1>3. /\ Cardinality(Futures) \in Nat /\ Futures \in SUBSET RunIds /\ IsFiniteSet(Futures)
      /\ Cardinality(Futures) <= Concurrency /\ Len(queue) \in Nat
  BY <1>2, Finites, FuturesIn DEF LoopInv, Few, Units
<1>4. Room = Concurrency - Cardinality(Futures) /\ Room \in Nat
  BY <1>3, Numbers DEF Room
<1>5. n \in 0 .. Len(queue) /\ n <= Room /\ (stop => n = 0)
  BY <1>3, <1>4
<1>6. ~stop /\ n = 0 => Room = 0 \/ Len(queue) = 0
  BY <1>3, <1>4
<1> HIDE DEF n
<1>7. /\ queue \in Seq(RunIds) /\ IsInjective(queue)
  BY <1>2 DEF Units, LoopInv, Apart
<1>8. /\ rest \in Seq(RunIds) /\ IsInjective(rest) /\ Len(rest) = Len(queue) - n
      /\ Range(queue) = next \cup Range(rest) /\ next \cap Range(rest) = {}
  BY <1>5, <1>7, Split
<1>9. IsFiniteSet(next) /\ Cardinality(next) <= n
  BY <1>5, <1>7, FirstFew
<1>10. next \in SUBSET RunIds
  BY <1>7, <1>8 DEF Range
<1> HIDE DEF next, rest
<1>11. [NoTask EXCEPT !.phase = "attempt"] = [phase |-> "attempt", n |-> 0, class |-> None]
  BY DEF NoTask
<1>12. /\ \A u \in next : task'[u] = [phase |-> "attempt", n |-> 0, class |-> None]
       /\ \A u \in RunIds \ next : task'[u] = task[u]
       /\ DOMAIN task' = RunIds
  BY <1>1, <1>10, <1>11
<1>13. task' \in Tasks /\ Threads'
  <2>1. [phase |-> "attempt", n |-> 0, class |-> None] \in
           [phase : {"absent", "attempt", "returned", "raised"}, n : 0 .. MaxRetries, class : {None} \cup Class]
    BY Numbers
  <2>2. task' \in Tasks
    BY <1>1, <1>2, <1>11, <2>1 DEF Tasks
  <2>3. Threads
    BY DEF LoopInv
  <2>4. None # "usage_limit"
    BY DEF None
  <2>5. ASSUME NEW u \in RunIds
        PROVE  /\ task'[u].phase = "returned" => task'[u].class \in Class
               /\ task'[u].phase = "attempt" => task'[u].class # "usage_limit"
    <3>1. CASE u \in next
      BY <1>12, <2>4, <3>1
    <3>2. CASE u \notin next
      BY <1>12, <2>3, <3>2 DEF Threads
    <3>3. QED
      BY <3>1, <3>2
  <2>6. QED
    BY <2>2, <2>5 DEF Threads
<1>14. Futures' = Futures \cup next
  <2>1. \A u \in RunIds : u \in Futures' <=> task'[u].phase \in {"attempt", "returned", "raised"}
    BY DEF Futures, Running, InPhase
  <2>2. \A u \in RunIds : u \in Futures <=> task[u].phase \in {"attempt", "returned", "raised"}
    BY DEF Futures, Running, InPhase
  <2>3. \A u \in RunIds : u \in Futures' <=> u \in Futures \/ u \in next
    BY <1>12, <2>1, <2>2
  <2>4. Futures' \in SUBSET RunIds
    BY DEF Futures, Running, InPhase
  <2>5. QED
    BY <1>3, <1>10, <2>3, <2>4
<1>15. Cardinality(Futures') \in Nat /\ Cardinality(Futures') <= Cardinality(Futures) + n
  <2>1. Futures \cap next = {}
    BY <1>8 DEF LoopInv, Apart
  <2>2. Cardinality(Futures \cup next) = Cardinality(Futures) + Cardinality(next) - Cardinality(Futures \cap next)
    BY <1>3, <1>9, FS_Union
  <2>3. Cardinality(Futures \cap next) = 0 /\ Cardinality(next) \in Nat
    BY <1>9, <2>1, FS_EmptySet, FS_CardinalityType
  <2>4. Cardinality(Futures \cup next) = Cardinality(Futures) + Cardinality(next)
    BY <1>3, <2>2, <2>3
  <2>5. Cardinality(Futures \cup next) \in Nat /\ Cardinality(Futures \cup next) <= Cardinality(Futures) + n
    BY <1>3, <1>5, <1>9, <2>3, <2>4
  <2>6. QED
    BY <1>14, <2>5
<1>16. Placed' = Placed
  BY <1>0, <1>1, <1>8, <1>14 DEF Placed
<1>17. Lost' = Lost
  BY <1>0, <1>16 DEF Lost
<1>18. HarnessTypeOK'
  <2>1. stop' \in BOOLEAN
    BY DEF Submit, LoopInv, HarnessTypeOK
  <2>2. Control' /\ Units' /\ Counts'
    BY <1>0, <1>1, <1>2, <1>8, <2>1 DEF Control, Units, Counts
  <2>3. QED
    BY <1>0, <1>2, <1>13, <2>2, TypeParts
<1>19. Apart' /\ Undone' /\ FewLost'
  BY <1>0, <1>1, <1>8, <1>14, <1>16, <1>17 DEF LoopInv, Apart, Undone, FewLost
<1>20. Few'
  <2>1. Cardinality(Futures') <= Concurrency
    BY <1>3, <1>4, <1>5, <1>15, Numbers
  <2>2. ASSUME hits # <<>>
        PROVE  stop /\ Len(hits) + Cardinality(Futures') <= Concurrency
    <3>1. stop /\ Len(hits) + Cardinality(Futures) <= Concurrency
      BY <2>2 DEF LoopInv, Few
    <3>2. n = 0
      BY <1>5, <3>1
    <3>3. Len(hits) \in Nat
      BY <1>2 DEF Units
    <3>4. Len(hits) + Cardinality(Futures') <= Concurrency
      <4>1. Len(hits) + Cardinality(Futures) <= Concurrency
        BY <3>1
      <4>2. QED
        BY <1>3, <1>15, <3>2, <3>3, <4>1, Numbers
    <3>5. QED
      BY <3>1, <3>4
  <2>3. QED
    BY <1>0, <2>1, <2>2 DEF Few
<1>21. Still'
  <2>1. pc' = "close" => Futures' = {}
    <3>1. ASSUME pc' = "close" PROVE Futures = {} /\ n = 0
      BY <1>1, <3>1
    <3>2. n = 0 => next = {}
      <4>1. n = 0 => 1 .. n = {}
        OBVIOUS
      <4>2. QED
        BY <4>1 DEF next
    <3>3. QED
      BY <1>14, <3>1, <3>2
  <2>2. pc' \in {"close", "wait"}
    BY <1>1
  <2>3. QED
    BY <2>1, <2>2 DEF Still
<1>22. Capped'
  <2>1. ASSUME mode = "windows"
        PROVE  /\ out > 0 /\ Len(lines) >= Cap => stop /\ givenUp # ""
               /\ \/ out + Cardinality(Futures) <= Concurrency
                  \/ Len(lines) + Cardinality(Futures) < Cap + Concurrency
    BY <1>1, <2>1 DEF LoopInv, Capped
  <2>2. Len(lines) \in Nat /\ out \in Nat
    BY <1>2 DEF Files, Counts
  <2>3. ASSUME mode = "windows"
        PROVE  \/ out + Cardinality(Futures') <= Concurrency
               \/ Len(lines) + Cardinality(Futures') < Cap + Concurrency
    <3>1. CASE stop
      <4>1. n = 0
        BY <1>5, <3>1
      <4>2. Cardinality(Futures') <= Cardinality(Futures)
        BY <1>3, <1>15, <4>1
      <4>3. \/ out + Cardinality(Futures) <= Concurrency
            \/ Len(lines) + Cardinality(Futures) < Cap + Concurrency
        BY <2>1, <2>3
      <4>4. QED
        BY <1>3, <1>15, <2>2, <4>2, <4>3, Numbers
    <3>2. CASE ~stop
      <4>1. ~(out > 0) \/ ~(Len(lines) >= Cap)
        BY <2>1, <2>3, <3>2
      <4>2. Cardinality(Futures') <= Concurrency
        BY <1>3, <1>4, <1>5, <1>15, Numbers
      <4>3. QED
        BY <1>15, <2>2, <4>1, <4>2, Numbers
    <3>3. QED
      BY <3>1, <3>2
  <2>4. QED
    BY <1>0, <2>1, <2>3 DEF Capped
<1>23. Drains'
  <2>1. mode = "windows" /\ stop => hits # <<>> \/ givenUp # ""
    BY DEF LoopInv, Drains
  <2>2. ASSUME mode = "windows", pc' = "close", hits = <<>>, givenUp = ""
        PROVE  queue' = <<>>
    <3>1. Futures = {} /\ n = 0
      BY <1>1, <2>2
    <3>2. ~stop
      BY <2>1, <2>2
    <3>3. Cardinality(Futures) = 0
      BY <3>1, FS_EmptySet
    <3>4. Room # 0
      BY <1>4, <3>3, Numbers
    <3>5. Len(queue) = 0
      BY <1>6, <3>1, <3>2, <3>4
    <3>6. Len(rest) = 0
      BY <1>3, <1>8, <3>1, <3>5
    <3>7. QED
      BY <1>1, <1>8, <3>6, EmptySeq
  <2>3. pc' # "over"
    BY <1>1
  <2>4. QED
    BY <1>0, <2>1, <2>2, <2>3 DEF Drains
<1>24. QED
  BY <1>13, <1>18, <1>19, <1>20, <1>21, <1>22, <1>23 DEF LoopInv
(***************************************************************************)
(* A future is collected: its thread is free, and in a resumable loop its  *)
(* row is in the file and a limited unit among the hits.                   *)
(***************************************************************************)
LEMMA CollectFrees ==
  ASSUME task \in Tasks, Threads, NEW u \in RunIds, Collect(u)
  PROVE  /\ task' \in Tasks /\ Threads'
         /\ u \in Futures /\ Futures' = Futures \ {u}
         /\ Cardinality(Futures) \in Nat \ {0} /\ Cardinality(Futures') = Cardinality(Futures) - 1
         /\ task[u].class \in Class
<1>1. task' = [task EXCEPT ![u] = NoTask] /\ task[u].phase = "returned"
  BY DEF Collect
<1>2. NoTask \in [phase : {"absent", "attempt", "returned", "raised"}, n : 0 .. MaxRetries, class : {None} \cup Class]
  BY Numbers DEF NoTask
<1>3. task' \in Tasks
  BY <1>1, <1>2 DEF Tasks
<1>4. /\ task'[u] = NoTask /\ NoTask.phase = "absent"
      /\ \A v \in RunIds \ {u} : task'[v] = task[v]
  BY <1>1 DEF Tasks, NoTask
<1>5. Threads'
  BY <1>4 DEF Threads
<1>6. u \in Futures
  BY <1>1 DEF Futures, InPhase
<1>7. Futures' = Futures \ {u}
  BY <1>4 DEF Futures, Running, InPhase
<1>8. IsFiniteSet(Futures) /\ Cardinality(Futures) \in Nat
  BY Finites, FuturesIn
<1>9. Cardinality(Futures \ {u}) = Cardinality(Futures) - 1 /\ Cardinality(Futures) # 0
  BY <1>6, <1>8, FS_RemoveElement, FS_EmptySet
<1>10. QED
  BY <1>1, <1>3, <1>5, <1>6, <1>7, <1>8, <1>9 DEF Threads

LEMMA CollectGridKeeps == ASSUME LoopInv, NEW u \in RunIds, CollectGrid(u) PROVE LoopInv'
<1>1. /\ queue' = queue /\ hits' = hits /\ lines' = lines /\ mode' = "grid" /\ mode = "grid"
      /\ out' = out + 1 /\ window' = window /\ probes' = probes /\ process' = process
      /\ givenUp' = givenUp /\ pc' \in {"submit", "wait"} /\ (stop' <=> stop \/ Limited(u)) /\ stop' \in BOOLEAN
  BY DEF CollectGrid, Collect, LoopInv, HarnessTypeOK
<1>2. Control /\ Units /\ Counts /\ task \in Tasks /\ lines \in Files
  BY TypeParts DEF LoopInv
<1>3. /\ task' \in Tasks /\ Threads'
      /\ u \in Futures /\ Futures' = Futures \ {u}
      /\ Cardinality(Futures) \in Nat \ {0} /\ Cardinality(Futures') = Cardinality(Futures) - 1
  BY <1>2, CollectFrees DEF LoopInv, CollectGrid
<1>4. HarnessTypeOK'
  <2>0. outcomes' \in Kept
    <3>1. outcomes' = [outcomes EXCEPT ![u] = task[u].class]
      BY DEF CollectGrid
    <3>2. task[u].class \in Class /\ outcomes \in Kept
      BY <1>2, CollectFrees DEF LoopInv, CollectGrid, Counts
    <3> QED BY <3>1, <3>2 DEF Kept
  <2>1. Control' /\ Units' /\ Counts'
    BY <1>1, <1>2, <2>0 DEF Control, Units, Counts
  <2>2. QED
    BY <1>1, <1>2, <1>3, <2>1, TypeParts
<1>5. Apart'
  BY <1>1, <1>3 DEF LoopInv, Apart
<1>6. Few'
  <2>1. Len(hits) \in Nat
    BY <1>2 DEF Units
  <2>2. Cardinality(Futures) <= Concurrency
    BY DEF LoopInv, Few
  <2>3. Cardinality(Futures') <= Concurrency
    BY <1>3, <2>2, Numbers
  <2>4. Len(hits) + Cardinality(Futures) <= Concurrency => Len(hits) + Cardinality(Futures') <= Concurrency
    BY <1>3, <2>1, Numbers
  <2>5. QED
    BY <1>1, <2>3, <2>4 DEF LoopInv, Few
<1>7. Undone' /\ Still' /\ Capped' /\ Drains' /\ FewLost'
  <2>1. Undone' /\ Capped' /\ Drains' /\ FewLost'
    BY <1>1 DEF Undone, Capped, Drains, FewLost
  <2>2. pc = "wait" /\ pc' \notin {"close", "probe", "over", "broken"}
    BY <1>1 DEF CollectGrid, Collect
  <2>3. QED
    BY <2>1, <2>2 DEF Still
<1>8. QED
  BY <1>3, <1>4, <1>5, <1>6, <1>7 DEF LoopInv

LEMMA CollectLoopFile ==
  ASSUME LoopInv, NEW u \in RunIds, CollectLoop(u)
  PROVE  /\ lines \in Files /\ lines' \in Files /\ Len(lines) \in Nat /\ Len(lines') \in {Len(lines), Len(lines) + 1}
         /\ \A v : v # u => SameOf(lines, lines', v)
         /\ \/ /\ Told(lines', u) /\ LatestByRunId(lines')[u].class = task[u].class
               /\ GluedAt(lines') = GluedAt(lines)
            \/ /\ SameOf(lines, lines', u)
               /\ GluedAt(lines') = GluedAt(lines) \cup {Len(lines)} /\ Len(lines) \notin GluedAt(lines)
<1> DEFINE row == [unit |-> u, class |-> task[u].class]
<1>1. task \in Tasks /\ lines \in Files /\ Threads
  BY TypeParts DEF LoopInv
<1>2. row \in Row /\ row.unit = u /\ row.class = task[u].class
  BY <1>1, CollectFrees DEF Row, CollectLoop
<1>3. lines' = Appended(row)
  BY DEF CollectLoop
<1>4. Len(lines) \in Nat
  BY <1>1 DEF Files
<1> HIDE DEF row
<1>5. QED
  BY <1>1, <1>2, <1>3, <1>4, AppendedRow

LEMMA CollectLoopKeeps ==
  ASSUME LoopInv, NEW u \in RunIds, CollectLoop(u)
  PROVE  LoopInv' /\ CompletedRunIds(lines) \subseteq CompletedRunIds(lines')
<1> DEFINE over == Len(lines') >= Cap
<1>1. /\ queue' = queue /\ mode' = "windows" /\ mode = "windows" /\ pc = "wait"
      /\ out' = out + 1 /\ outcomes' = outcomes /\ window' = window /\ probes' = probes /\ process' = process
      /\ pc' \in {"submit", "wait"}
  BY DEF CollectLoop, Collect
<1>2. /\ stop' <=> stop \/ over \/ Limited(u)
      /\ stop' \in BOOLEAN
  BY DEF CollectLoop, LoopInv, HarnessTypeOK
<1>3. givenUp' = IF over /\ givenUp = "" THEN "caller_stop" ELSE givenUp
  BY DEF CollectLoop
<1>4. hits' = IF task[u].class = "usage_limit" THEN Append(hits, u) ELSE hits
  BY DEF CollectLoop, Limited
<1>5. Control /\ Units /\ Counts /\ task \in Tasks
  BY TypeParts DEF LoopInv
<1>6. /\ task' \in Tasks /\ Threads'
      /\ u \in Futures /\ Futures' = Futures \ {u}
      /\ Cardinality(Futures) \in Nat \ {0} /\ Cardinality(Futures') = Cardinality(Futures) - 1
      /\ task[u].class \in Class
  BY <1>5, CollectFrees DEF LoopInv, CollectLoop
<1>7. /\ lines \in Files /\ lines' \in Files /\ Len(lines) \in Nat /\ Len(lines') \in {Len(lines), Len(lines) + 1}
      /\ \A v : v # u => SameOf(lines, lines', v)
      /\ \/ /\ Told(lines', u) /\ LatestByRunId(lines')[u].class = task[u].class
            /\ GluedAt(lines') = GluedAt(lines)
         \/ /\ SameOf(lines, lines', u)
            /\ GluedAt(lines') = GluedAt(lines) \cup {Len(lines)} /\ Len(lines) \notin GluedAt(lines)
  BY CollectLoopFile
<1> HIDE DEF over
<1>8. u \notin Range(queue) /\ u \notin Range(hits)
  BY <1>6 DEF LoopInv, Apart
<1>9. /\ hits' \in Seq(RunIds) /\ IsInjective(hits')
      /\ Range(hits') = IF task[u].class = "usage_limit" THEN Range(hits) \cup {u} ELSE Range(hits)
      /\ Len(hits) \in Nat /\ Len(hits') = Len(hits) + (IF task[u].class = "usage_limit" THEN 1 ELSE 0)
      /\ task[u].class = "usage_limit" => hits' # <<>>
  <2>1. hits \in Seq(RunIds) /\ IsInjective(hits) /\ Len(hits) \in Nat
    BY <1>5 DEF Units, LoopInv, Apart
  <2>2. CASE task[u].class = "usage_limit"
    BY <1>4, <1>8, <2>1, <2>2, AppendNew
  <2>3. CASE task[u].class # "usage_limit"
    BY <1>4, <2>1, <2>3
  <2>4. QED
    BY <2>2, <2>3
<1>10. HarnessTypeOK'
  <2>1. Control' /\ Units' /\ Counts'
    BY <1>1, <1>2, <1>5, <1>9 DEF Control, Units, Counts
  <2>2. QED
    BY <1>6, <1>7, <2>1, TypeParts
<1>11. Apart'
  BY <1>1, <1>6, <1>8, <1>9 DEF LoopInv, Apart
<1>12. /\ u \notin CompletedRunIds(lines)
       /\ \A v : v # u => (v \in CompletedRunIds(lines') <=> v \in CompletedRunIds(lines))
       /\ \A v : v # u => (Untold(lines', v) <=> Untold(lines, v))
  <2>1. u \in Placed
    BY <1>6 DEF Placed
  <2>2. u \notin CompletedRunIds(lines)
    BY <1>1, <2>1 DEF LoopInv, Undone
  <2>3. QED
    BY <1>7, <2>2, SameMeans
<1>13. CompletedRunIds(lines) \subseteq CompletedRunIds(lines')
  BY <1>12
<1>14. Placed' = IF task[u].class = "usage_limit" THEN Placed ELSE Placed \ {u}
  <2>1. Placed' = Range(queue) \cup (Futures \ {u}) \cup Range(hits')
    BY <1>1, <1>6 DEF Placed
  <2>2. CASE task[u].class = "usage_limit"
    BY <1>6, <1>9, <2>1, <2>2 DEF Placed
  <2>3. CASE task[u].class # "usage_limit"
    BY <1>8, <1>9, <2>1, <2>3 DEF Placed
  <2>4. QED
    BY <2>2, <2>3
<1>15. Undone'
  <2>1. ASSUME NEW v \in Placed', v \in CompletedRunIds(lines') PROVE FALSE
    <3>1. v \in Placed
      BY <1>14, <2>1
    <3>2. v \notin CompletedRunIds(lines)
      BY <1>1, <3>1 DEF LoopInv, Undone
    <3>3. v = u
      BY <1>12, <2>1, <3>2
    <3>4. task[u].class = "usage_limit"
      BY <1>14, <2>1, <3>3
    <3>5. Told(lines', u) /\ LatestByRunId(lines')[u].class = task[u].class
      BY <1>7, <2>1, <3>2, <3>3, SameMeans
    <3>6. "usage_limit" \notin Complete
      BY DEF Complete
    <3>7. QED
      BY <2>1, <3>3, <3>4, <3>5, <3>6 DEF CompletedRunIds
  <2>2. QED
    BY <2>1 DEF Undone
<1>16. Few'
  <2>1. Cardinality(Futures) <= Concurrency
    BY DEF LoopInv, Few
  <2>2. Cardinality(Futures') <= Concurrency
    BY <1>6, <2>1, Numbers
  <2>3. ASSUME hits' # <<>>
        PROVE  stop' /\ Len(hits') + Cardinality(Futures') <= Concurrency
    <3>1. CASE task[u].class = "usage_limit"
      <4>1. stop'
        BY <1>2, <3>1 DEF Limited
      <4>2. Len(hits) + Cardinality(Futures) <= Concurrency
        <5>1. CASE hits = <<>>
          <6>1. Len(hits) = 0
            BY <5>1
          <6>2. QED
            BY <1>6, <2>1, <6>1, Numbers
        <5>2. CASE hits # <<>>
          BY <5>2 DEF LoopInv, Few
        <5>3. QED
          BY <5>1, <5>2
      <4>3. Len(hits') = Len(hits) + 1
        BY <1>9, <3>1
      <4>4. Len(hits') + Cardinality(Futures') <= Concurrency
        BY <1>6, <1>9, <4>2, <4>3, Numbers
      <4>5. QED
        BY <4>1, <4>4
    <3>2. CASE task[u].class # "usage_limit"
      <4>1. hits' = hits
        BY <1>4, <3>2
      <4>2. stop /\ Len(hits) + Cardinality(Futures) <= Concurrency
        BY <2>3, <4>1 DEF LoopInv, Few
      <4>3. Len(hits) + Cardinality(Futures) <= Concurrency
        BY <4>2
      <4>4. Len(hits') + Cardinality(Futures') <= Concurrency
        BY <1>6, <1>9, <4>1, <4>3, Numbers
      <4>5. QED
        BY <1>2, <4>2, <4>4
    <3>3. QED
      BY <3>1, <3>2
  <2>4. QED
    BY <2>2, <2>3 DEF Few
<1>17. Still'
  <2>1. pc' \notin {"close", "probe", "over", "broken"}
    BY <1>1
  <2>2. QED
    BY <2>1 DEF Still
<1>18. givenUp # "" => givenUp' # ""
  BY <1>3
<1>19. over => givenUp' # ""
  BY <1>3
<1>20. Capped'
  <2>1. \/ out + Cardinality(Futures) <= Concurrency
        \/ Len(lines) + Cardinality(Futures) < Cap + Concurrency
    BY <1>1 DEF LoopInv, Capped
  <2>2. \/ out' + Cardinality(Futures') <= Concurrency
        \/ Len(lines') + Cardinality(Futures') < Cap + Concurrency
    <3>1. out \in Nat /\ out' = out + 1
      BY <1>1, <1>5 DEF Counts
    <3>2. Len(lines) \in Nat /\ Len(lines') \in Nat /\ Len(lines') <= Len(lines) + 1
      BY <1>7
    <3>3. QED
      BY <1>6, <2>1, <3>1, <3>2, Numbers
  <2>3. Len(lines') >= Cap => stop' /\ givenUp' # ""
    BY <1>2, <1>19 DEF over
  <2>4. QED
    BY <2>2, <2>3 DEF Capped
<1>21. Drains'
  <2>1. stop => hits # <<>> \/ givenUp # ""
    BY <1>1 DEF LoopInv, Drains
  <2>2. hits # <<>> => hits' # <<>>
    <3>1. hits # <<>> => Len(hits) # 0
      BY <1>5, EmptySeq DEF Units
    <3>2. hits' = <<>> => Len(hits') = 0
      OBVIOUS
    <3>3. Len(hits) # 0 => Len(hits') # 0
      BY <1>9
    <3>4. QED
      BY <3>1, <3>2, <3>3
  <2>3. Limited(u) => hits' # <<>>
    BY <1>9 DEF Limited
  <2>4. stop' => hits' # <<>> \/ givenUp' # ""
    BY <1>2, <1>18, <1>19, <2>1, <2>2, <2>3
  <2>5. pc' \notin {"close", "over"}
    BY <1>1
  <2>6. QED
    BY <2>4, <2>5 DEF Drains
<1>22. FewLost'
  <2>1. SUFFICES ASSUME process' > 0, givenUp' = ""
                 PROVE  Cardinality(Lost') <= Cardinality(GluedAt(lines'))
    BY DEF FewLost
  <2>2. Cardinality(Lost) <= Cardinality(GluedAt(lines))
    <3>1. process > 0 /\ givenUp = "" /\ mode = "windows"
      BY <1>1, <1>18, <2>1
    <3>2. QED
      BY <3>1 DEF LoopInv, FewLost
  <2>3. /\ IsFiniteSet(Lost) /\ Cardinality(Lost) \in Nat
        /\ IsFiniteSet(GluedAt(lines)) /\ Cardinality(GluedAt(lines)) \in Nat
    BY <1>7, Finites, FuturesIn, GluedFinite
  <2>4. ASSUME NEW v \in Lost', v # u PROVE v \in Lost
    <3>1. v \in RunIds /\ Untold(lines', v) /\ v \notin Placed'
      BY DEF Lost
    <3>2. Untold(lines, v) /\ v \notin Placed
      BY <1>12, <1>14, <2>4, <3>1
    <3>3. QED
      BY <3>1, <3>2 DEF Lost
  <2>5. CASE Told(lines', u) /\ LatestByRunId(lines')[u].class = task[u].class /\ GluedAt(lines') = GluedAt(lines)
    <3>1. u \notin Lost'
      <4>1. CASE task[u].class = "usage_limit"
        <5>1. u \in Placed'
          BY <1>6, <1>14, <4>1 DEF Placed
        <5>2. QED
          BY <5>1 DEF Lost
      <4>2. CASE task[u].class # "usage_limit"
        <5>1. ~Untold(lines', u)
          BY <2>5, <4>2 DEF Untold
        <5>2. QED
          BY <5>1 DEF Lost
      <4>3. QED
        BY <4>1, <4>2
    <3>2. Lost' \in SUBSET Lost
      BY <2>4, <3>1
    <3>3. Cardinality(Lost') <= Cardinality(Lost) /\ Cardinality(Lost') \in Nat
      BY <2>3, <3>2, FS_Subset, FS_CardinalityType
    <3>4. QED
      BY <2>2, <2>3, <2>5, <3>3
  <2>6. CASE /\ GluedAt(lines') = GluedAt(lines) \cup {Len(lines)} /\ Len(lines) \notin GluedAt(lines)
    <3>1. Lost' \in SUBSET (Lost \cup {u})
      BY <2>4
    <3>2. IsFiniteSet(Lost \cup {u}) /\ Cardinality(Lost \cup {u}) <= Cardinality(Lost) + 1
          /\ Cardinality(Lost \cup {u}) \in Nat
      <4>1. /\ IsFiniteSet(Lost \cup {u})
            /\ Cardinality(Lost \cup {u}) = IF u \in Lost THEN Cardinality(Lost) ELSE Cardinality(Lost) + 1
        BY <2>3, FS_AddElement
      <4>2. QED
        BY <2>3, <4>1
    <3>3. Cardinality(Lost') <= Cardinality(Lost \cup {u}) /\ Cardinality(Lost') \in Nat
      BY <3>1, <3>2, FS_Subset, FS_CardinalityType
    <3>4. Cardinality(GluedAt(lines')) = Cardinality(GluedAt(lines)) + 1
      BY <2>3, <2>6, FS_AddElement
    <3>5. QED
      BY <2>2, <2>3, <3>2, <3>3, <3>4
  <2>7. QED
    BY <1>7, <2>5, <2>6
<1>23. QED
  BY <1>6, <1>10, <1>11, <1>13, <1>15, <1>16, <1>17, <1>20, <1>21, <1>22 DEF LoopInv
(***************************************************************************)
(* The theorems.                                                           *)
(***************************************************************************)
LEMMA InitHolds == HarnessInit => LoopInv
<1> SUFFICES ASSUME HarnessInit PROVE LoopInv
  OBVIOUS
<1>1. /\ mode = "windows" /\ pc = "over" /\ queue = <<>> /\ out = 0 /\ hits = <<>> /\ outcomes \in Kept
      /\ stop = FALSE /\ givenUp = "" /\ window = 1 /\ probes = 0 /\ lines = <<>> /\ process = 0
  BY NothingKept DEF HarnessInit
<1>2. task = [u \in RunIds |-> NoTask]
  BY DEF HarnessInit
<1>3. \A u \in RunIds : task[u].phase = "absent"
  BY <1>2 DEF NoTask
<1>4. Futures = {} /\ Cardinality(Futures) = 0 /\ Threads
  <2>1. Futures = {} /\ Threads
    BY <1>3 DEF Futures, Running, InPhase, Threads
  <2>2. QED
    BY <2>1, FS_EmptySet
<1>5. /\ IsInjective(<<>>) /\ Range(<<>>) = {} /\ <<>> \in Seq(RunIds) /\ <<>> \in Files
  BY DEF IsInjective, Range, Files
<1>6. HarnessTypeOK
  <2>1. task \in Tasks
    BY <1>2, Numbers DEF Tasks, NoTask
  <2>2. Control /\ Units /\ lines \in Files
    BY <1>1, <1>5 DEF Control, Units
  <2>3. Counts
    <3>1. 1 \in 1 .. MaxWindows /\ 0 \in 0 .. Probes /\ 0 \in 0 .. Processes
      BY Numbers DEF Probes
    <3>2. QED
      BY <1>1, <3>1 DEF Counts
  <2>4. QED
    BY <2>1, <2>2, <2>3, TypeParts
<1>7. Apart /\ Undone /\ Still /\ FewLost /\ Drains
  <2>0. process = 0 /\ pc \notin {"close", "probe", "broken"} /\ stop = FALSE
    BY <1>1
  <2>1. ~(process > 0) /\ pc \notin {"close", "probe", "broken"} /\ stop = FALSE
    <3>1. ~(process > 0)
      <4>1. process = 0
        BY <2>0
      <4>2. QED
        BY <4>1
    <3>2. QED
      BY <2>0, <3>1
  <2>2. Apart /\ Undone
    BY <1>1, <1>4, <1>5 DEF Apart, Undone, Placed
  <2>3. Still /\ FewLost /\ Drains
    BY <1>4, <2>1 DEF Still, FewLost, Drains
  <2>4. QED
    BY <2>2, <2>3
<1>8. Few /\ Capped
  <2>1. Cardinality(Futures) <= Concurrency /\ out + Cardinality(Futures) <= Concurrency
    <3>1. Cardinality(Futures) = 0 /\ out = 0
      BY <1>1, <1>4
    <3>2. QED
      BY <3>1, Numbers
  <2>2. QED
    BY <1>1, <2>1 DEF Few, Capped
<1>9. QED
  BY <1>4, <1>6, <1>7, <1>8 DEF LoopInv

LEMMA StepKeeps == LoopInv /\ [HarnessNext]_harnessVars => LoopInv'
<1> SUFFICES ASSUME LoopInv, [HarnessNext]_harnessVars PROVE LoopInv'
  OBVIOUS
<1>1. CASE StartGrid
  BY <1>1, StartGridKeeps
<1>2. CASE StartLoop
  BY <1>2, StartLoopKeeps
<1>3. CASE \E u \in RunIds : RunUnit(u)
  BY <1>3, RunUnitKeeps
<1>4. CASE Submit
  BY <1>4, SubmitKeeps
<1>5. CASE \E u \in RunIds : CollectGrid(u)
  BY <1>5, CollectGridKeeps
<1>6. CASE \E u \in RunIds : CollectLoop(u)
  BY <1>6, CollectLoopKeeps
<1>7. CASE (\E u \in RunIds : Break(u)) \/ CloseWindow
  BY <1>7, QuietKeeps
<1>13. CASE Package
  BY <1>13, PackageKeeps
<1>8. CASE Leave
  BY <1>8, LeaveKeeps
<1>9. CASE Probe
  BY <1>9, ProbeKeeps
<1>10. CASE Killed
  BY <1>10, KilledKeeps
<1>11. CASE UNCHANGED harnessVars
  BY <1>11, StutterKeeps
<1>12. QED
  BY <1>1, <1>2, <1>3, <1>4, <1>5, <1>6, <1>7, <1>8, <1>9, <1>10, <1>11, <1>13 DEF HarnessNext, Main

LEMMA InvIsSound == LoopInv => HarnessIsSound
<1> SUFFICES ASSUME LoopInv PROVE HarnessIsSound
  OBVIOUS
<1>1. LimitPauses
  BY DEF LoopInv, Few, Threads, LimitPauses
<1>2. DrainedMeansReported
  <2>1. SUFFICES ASSUME pc = "over", mode = "windows", process > 0, givenUp = ""
                 PROVE  Cardinality({u \in RunIds : \/ u \notin DOMAIN LatestByRunId(lines)
                                                    \/ LatestByRunId(lines)[u].class = "usage_limit"})
                          <= Cardinality({i \in DOMAIN lines : lines[i] = Mangled})
    BY DEF DrainedMeansReported
  <2>2. queue = <<>> /\ hits = <<>> /\ Futures = {}
    BY <2>1 DEF LoopInv, Drains, Still
  <2>3. Placed = {}
    BY <2>2 DEF Placed, Range
  <2>4. Lost = {u \in RunIds : \/ u \notin DOMAIN LatestByRunId(lines)
                               \/ LatestByRunId(lines)[u].class = "usage_limit"}
    BY <2>3 DEF Lost, Untold, Told
  <2>5. Cardinality(Lost) <= Cardinality(GluedAt(lines))
    BY <2>1 DEF LoopInv, FewLost
  <2>6. QED
    BY <2>4, <2>5 DEF GluedAt
<1>3. CapOvershoot
  <2>1. SUFFICES ASSUME mode = "windows" PROVE out <= Concurrency \/ Len(lines) < Cap + Concurrency
    BY DEF CapOvershoot
  <2>2. \/ out + Cardinality(Futures) <= Concurrency
        \/ Len(lines) + Cardinality(Futures) < Cap + Concurrency
    BY <2>1 DEF LoopInv, Capped
  <2>3. Cardinality(Futures) \in Nat /\ out \in Nat /\ Len(lines) \in Nat
    BY Finites, FuturesIn, TypeParts DEF LoopInv, Counts, Files
  <2>4. QED
    BY <2>2, <2>3, Numbers
<1>4. QED
  BY <1>1, <1>2, <1>3 DEF LoopInv, HarnessIsSound

\* Grids and resumable loops are sound, whatever the units and the replies of
\* the driver, the number of threads, windows, retries and processes: a usage
\* limit costs at most a call per thread and nothing is submitted after it, a
\* loop that drains has told the end of every unit but for rows glued to a
\* torn line, and the cap is passed by the units in flight at most.
THEOREM LoopsAreSound == HarnessSpec => []HarnessIsSound
<1>1. HarnessSpec => []LoopInv
  BY InitHolds, StepKeeps, PTL DEF HarnessSpec
<1>2. QED
  BY <1>1, InvIsSound, PTL

\* A unit done by the file is never given to a thread again in a loop, so no
\* later row takes its valid one back; a kill tears no row that was whole; and a
\* grid leaves the file alone until it packages, which is not claimed to keep it.
THEOREM DoneIsForever == HarnessSpec => CompletedStays
<1>1. HarnessSpec => []LoopInv
  BY InitHolds, StepKeeps, PTL DEF HarnessSpec
<1>2. LoopInv /\ [HarnessNext]_harnessVars
        => [~Packaging => CompletedRunIds(lines) \subseteq CompletedRunIds(lines')]_harnessVars
  <2> SUFFICES ASSUME LoopInv, [HarnessNext]_harnessVars, ~Packaging
               PROVE  CompletedRunIds(lines) \subseteq CompletedRunIds(lines')
    OBVIOUS
  <2>1. CASE \E u \in RunIds : CollectLoop(u)
    BY <2>1, CollectLoopKeeps
  <2>2. CASE Killed
    <3>1. CASE lines' = lines
      BY <3>1
    <3>2. CASE lines' # lines
      <4>1. lines' = Appended(CutOff) /\ lines \in Files
        BY <2>2, <3>2, TypeParts DEF Killed, LoopInv
      <4>2. \A v : SameOf(lines, lines', v)
        BY <4>1, AppendedTorn
      <4>3. QED
        BY <4>2, SameMeans
    <3>3. QED
      BY <3>1, <3>2
  <2>3. CASE lines' = lines
    BY <2>3
  <2>4. QED
    BY <2>1, <2>2, <2>3 DEF HarnessNext, Main, StartGrid, StartLoop, Begin, RunUnit, Submit, CollectGrid,
         Break, Leave, Package, Packaging, CloseWindow, Probe, harnessVars
<1>3. QED
  BY <1>1, <1>2, PTL DEF HarnessSpec, CompletedStays

-----------------------------------------------------------------------------
(***************************************************************************)
(* Proofs about Wave, for every schedule, number of threads, turns and     *)
(* retries: results are whole, a summary is complete, and a namespace that *)
(* was never run is cold.                                                  *)
(*                                                                         *)
(* The three statements are about units that have ended. What makes them   *)
(* inductive is what holds of a unit at work: its session holds the turns  *)
(* of this attempt (Fresh), a unit that has ended as `done', `failed' or   *)
(* `skipped' has left its file, its marker or the abort behind (WaveTold), *)
(* and a name the provider holds a cache for was tried before, more than   *)
(* once if the unit now at work is at its first turn (Cold). Units of a    *)
(* wave have names of their own, so a step of one leaves the others' alone.*)
(***************************************************************************)
Phases == Working \cup Reported \cup {"absent", "queued", "raised"}
Jobs == [phase : Phases, attempts : 0 .. Retries + 1, rows : 0 .. Turns, served : BOOLEAN]
WaveResult == [turns : Nat, served : BOOLEAN]

\* WaveTypeOK but for the number of threads
Shape ==
    /\ job \in [Unit -> Jobs]
    /\ wave \in [ns : Namespaces, force : BOOLEAN, lost : BOOLEAN]
    /\ aborted \in BOOLEAN /\ runs \in 0 .. Len(Requests)
    /\ results \in [Name -> {NoResult, Torn} \cup WaveResult]
    /\ marked \subseteq Name /\ warm \subseteq Name /\ counted \subseteq Name
    /\ store \in [Name -> 0 .. Turns] /\ tries \in [Name -> 0 .. 2]
    /\ ledger \in Nat \cup {Torn}

\* A unit at work has a session of its own, which holds this attempt's turns.
Fresh(u) ==
    /\ job[u].phase = "queued" => job[u].attempts = 0
    /\ job[u].phase = "turns" =>
          store[SessionName(u)] = job[u].rows /\ job[u].rows < Turns
    /\ job[u].phase = "save" => store[SessionName(u)] = Turns

\* A unit that has ended has said how.
WaveTold(u) ==
    /\ job[u].phase \in {"account", "done"} => Whole(UnitName(u))
    /\ job[u].phase = "done" => UnitName(u) \in counted
    /\ job[u].phase = "mistake" => UnitName(u) \in marked
    /\ job[u].phase = "failed" => aborted /\ UnitName(u) \in marked
    /\ job[u].phase = "skipped" => aborted

\* A cache is that of an earlier attempt.
Cold(u) ==
    LET n == SessionName(u) IN
    /\ job[u].phase \in {"turns", "save"} => tries[n] # 0
    /\ job[u].phase \in {"turns", "save"} /\ job[u].served => tries[n] = 2
    /\ job[u].phase = "turns" /\ job[u].rows = 0 /\ n \in warm => tries[n] = 2
WarmWereTried == \A n \in warm : tries[n] # 0

WaveInv ==
    /\ Shape
    /\ \A u \in Unit : Fresh(u) /\ WaveTold(u) /\ Cold(u)
    /\ WarmWereTried /\ ResultsAreWhole /\ NamespaceIsolates

-----------------------------------------------------------------------------
LEMMA Kinds ==
  /\ Karc # Rag /\ Turns \in Nat /\ Turns # 0 /\ Retries \in Nat
  /\ NoResult \notin WaveResult /\ Torn \notin WaveResult /\ NoResult # Torn
BY WaveAssumption DEF WaveResult

LEMMA Zero == 0 \in 0 .. Retries + 1 /\ 0 \in 0 .. Turns /\ 0 \in 0 .. 2
BY Kinds

LEMMA IdleAs ==
  ASSUME NEW phase \in Phases
  PROVE  LET j == [Idle EXCEPT !.phase = phase]
         IN  j \in Jobs /\ j.phase = phase /\ j.attempts = 0 /\ ~j.served
BY Zero DEF Idle, Jobs

LEMMA JobFields ==
  ASSUME Shape, NEW u \in Unit
  PROVE  /\ job[u] \in Jobs
         /\ job[u].phase \in Phases /\ job[u].served \in BOOLEAN
         /\ job[u].attempts \in 0 .. Retries + 1 /\ job[u].rows \in 0 .. Turns
<1>1. job[u] \in Jobs
  BY DEF Shape
<1> QED BY <1>1 DEF Jobs

LEMMA OwnName ==
  ASSUME Shape, NEW u \in Unit
  PROVE  /\ UnitName(u) = SessionName(u) /\ UnitName(u) \in Name
         /\ \A v \in Unit : v # u => UnitName(v) # UnitName(u)
BY DEF Shape, UnitName, SessionName, Name

\* A step of another unit leaves what is said of v alone.
LEMMA Frame ==
  ASSUME WaveInv, NEW v \in Unit, job'[v] = job[v], wave'.ns = wave.ns,
         aborted => aborted', counted \subseteq counted',
         results'[UnitName(v)] = results[UnitName(v)],
         store'[UnitName(v)] = store[UnitName(v)],
         tries'[UnitName(v)] = tries[UnitName(v)],
         UnitName(v) \in marked => UnitName(v) \in marked',
         UnitName(v) \in warm' => UnitName(v) \in warm
  PROVE  (Fresh(v) /\ WaveTold(v) /\ Cold(v))'
<1> USE DEF UnitName, SessionName
<1>1. Fresh(v)'
  BY DEF WaveInv, Fresh
<1>2. WaveTold(v)'
  BY DEF WaveInv, WaveTold, Whole
<1>3. Cold(v)'
  BY DEF WaveInv, Cold
<1> QED BY <1>1, <1>2, <1>3

-----------------------------------------------------------------------------
(* The operator and the process.                                           *)

LEMMA WaveInitHolds == Init => WaveInv
<1> SUFFICES ASSUME Init PROVE WaveInv
  OBVIOUS
<1> USE Kinds DEF Init
<1>1. Shape
  <2>1. wave \in [ns : Namespaces, force : BOOLEAN, lost : BOOLEAN]
    BY WaveAssumption
  <2>2. job \in [Unit -> Jobs]
    <3>1. Idle \in Jobs
      BY Zero DEF Idle, Jobs, Phases
    <3> QED BY <3>1
  <2>3. Len(Requests) \in Nat
    BY WaveAssumption
  <2>4. 0 \in 0 .. Len(Requests)
    BY <2>3
  <2>5. /\ results \in [Name -> {NoResult, Torn} \cup WaveResult]
        /\ store \in [Name -> 0 .. Turns] /\ tries \in [Name -> 0 .. 2]
    BY Zero
  <2> QED BY <2>1, <2>2, <2>4, <2>5 DEF Shape
<1>2. \A u \in Unit : Fresh(u) /\ WaveTold(u) /\ Cold(u)
  BY DEF Fresh, WaveTold, Cold, Idle
<1>3. WarmWereTried /\ ResultsAreWhole /\ NamespaceIsolates
  BY DEF WarmWereTried, ResultsAreWhole, NamespaceIsolates, Whole
<1> QED BY <1>1, <1>2, <1>3 DEF WaveInv

LEMMA StartHolds == WaveInv /\ Start => WaveInv'
<1> SUFFICES ASSUME WaveInv, Start PROVE WaveInv'
  OBVIOUS
<1> USE Kinds
<1>1. PICK asked \in Requests[runs + 1] :
        /\ wave' = [ns |-> asked.ns, force |-> asked.force, lost |-> FALSE]
        /\ job' = [u \in Unit |->
                     [Idle EXCEPT !.phase = IF u \in asked.only THEN "queued" ELSE "absent"]]
  BY DEF Start
<1>2. UNCHANGED <<files, warm, ledger, tries, counted>> /\ aborted' = FALSE /\ runs' = runs + 1
  BY DEF Start
<1>3. Requests \in Seq(SUBSET [ns : Namespaces, force : BOOLEAN, only : SUBSET Unit])
  BY WaveAssumption
<1>4. runs + 1 \in 1 .. Len(Requests)
  BY <1>3 DEF Start, WaveInv, Shape
<1>5. asked \in [ns : Namespaces, force : BOOLEAN, only : SUBSET Unit]
  BY <1>1, <1>3, <1>4
<1>6. job' \in [Unit -> Jobs] /\ \A u \in Unit : job'[u].phase \in {"queued", "absent"} /\ job'[u].attempts = 0
  <2>1. "queued" \in Phases /\ "absent" \in Phases
    BY DEF Phases
  <2>2. ASSUME NEW phase \in {"queued", "absent"}
        PROVE  LET j == [Idle EXCEPT !.phase = phase]
               IN  j \in Jobs /\ j.phase \in {"queued", "absent"} /\ j.attempts = 0
    BY <2>1, IdleAs
  <2>3. \A u \in Unit : (IF u \in asked.only THEN "queued" ELSE "absent") \in {"queued", "absent"}
    OBVIOUS
  <2> QED BY <1>1, <2>2, <2>3
<1>7. Shape'
  <2>1. wave' \in [ns : Namespaces, force : BOOLEAN, lost : BOOLEAN]
    BY <1>1, <1>5
  <2>2. runs' \in 0 .. Len(Requests)
    BY <1>2, <1>4
  <2> QED BY <1>2, <1>6, <2>1, <2>2 DEF WaveInv, Shape, files
<1>8. \A u \in Unit : (Fresh(u) /\ WaveTold(u) /\ Cold(u))'
  BY <1>6 DEF Fresh, WaveTold, Cold
<1>9. (WarmWereTried /\ ResultsAreWhole /\ NamespaceIsolates)'
  BY <1>2 DEF WaveInv, WarmWereTried, ResultsAreWhole, NamespaceIsolates, Whole, files
<1> QED BY <1>7, <1>8, <1>9 DEF WaveInv

LEMMA CrashHolds == WaveInv /\ Crash => WaveInv'
<1> SUFFICES ASSUME WaveInv, Crash PROVE WaveInv'
  OBVIOUS
<1> USE Kinds
<1>1. PICK torn \in SUBSET At("save") :
        results' = [n \in Name |-> IF n[1] = wave.ns /\ n[2] \in torn THEN Torn ELSE results[n]]
  BY DEF Crash
<1>2. PICK reached \in SUBSET At("turns") :
        warm' = warm \cup {SessionName(u) : u \in reached}
  BY DEF Crash
<1>3. /\ job' = [u \in Unit |-> Idle] /\ wave' = [wave EXCEPT !.lost = TRUE]
      /\ ledger' \in {ledger} \cup {Torn}
      /\ UNCHANGED <<aborted, runs, marked, store, tries, counted>>
  BY DEF Crash
<1>4. reached \subseteq Unit /\ \A u \in reached : job[u].phase = "turns"
  BY <1>2 DEF At
<1>5. \A u \in reached : SessionName(u) \in Name /\ tries[SessionName(u)] # 0
  BY <1>4, OwnName DEF WaveInv, Cold
<1>6. Shape'
  <2>1. job' \in [Unit -> Jobs]
    <3>1. Idle \in Jobs
      BY Zero DEF Idle, Jobs, Phases
    <3> QED BY <1>3, <3>1
  <2>2. results' \in [Name -> {NoResult, Torn} \cup WaveResult]
    BY <1>1 DEF WaveInv, Shape
  <2>3. warm' \subseteq Name
    BY <1>2, <1>5 DEF WaveInv, Shape
  <2> QED BY <1>3, <2>1, <2>2, <2>3 DEF WaveInv, Shape
<1>7. \A u \in Unit : (Fresh(u) /\ WaveTold(u) /\ Cold(u))'
  BY <1>3 DEF Fresh, WaveTold, Cold, Idle
<1>8. WarmWereTried'
  BY <1>2, <1>3, <1>5 DEF WaveInv, WarmWereTried
<1>9. (ResultsAreWhole /\ NamespaceIsolates)'
  BY <1>1, <1>3 DEF WaveInv, ResultsAreWhole, NamespaceIsolates, Whole
<1> QED BY <1>6, <1>7, <1>8, <1>9 DEF WaveInv

LEMMA CollapseHolds ==
  ASSUME WaveInv, NEW u \in Unit, Collapse(u) PROVE WaveInv'
<1> USE Kinds
<1>1. /\ wave' = [wave EXCEPT !.lost = TRUE]
      /\ job' = [v \in Unit |-> IF job[v].phase = "queued" THEN Idle ELSE job[v]]
      /\ UNCHANGED <<aborted, runs, files, warm, ledger, tries, counted>>
  BY DEF Collapse
<1>2. Shape'
  <2>1. Idle \in Jobs
    BY Zero DEF Idle, Jobs, Phases
  <2> QED BY <1>1, <2>1 DEF WaveInv, Shape, files
<1>3. ASSUME NEW v \in Unit PROVE (Fresh(v) /\ WaveTold(v) /\ Cold(v))'
  <2>1. CASE job[v].phase = "queued"
    BY <1>1, <2>1 DEF Fresh, WaveTold, Cold, Idle
  <2>2. CASE job[v].phase # "queued"
    <3>1. job'[v] = job[v] /\ wave'.ns = wave.ns
      BY <1>1, <2>2 DEF WaveInv, Shape
    <3> QED BY <1>1, <3>1, Frame DEF files
  <2> QED BY <2>1, <2>2
<1>4. (WarmWereTried /\ ResultsAreWhole /\ NamespaceIsolates)'
  BY <1>1 DEF WaveInv, WarmWereTried, ResultsAreWhole, NamespaceIsolates, Whole, files
<1> QED BY <1>2, <1>3, <1>4 DEF WaveInv

-----------------------------------------------------------------------------
(* A unit's own steps.                                                     *)

\* A unit is made anew: by the thread that takes it, and by a retry.
LEMMA EnterHolds ==
  ASSUME WaveInv, NEW u \in Unit, Enter(u), job[u].attempts <= Retries,
         UNCHANGED <<wave, aborted, runs, results, warm, ledger, counted>>
  PROVE  WaveInv'
<1> DEFINE n == <<wave.ns, u>>
<1> USE Kinds
<1>1. n = UnitName(u) /\ n = SessionName(u) /\ n \in Name
  BY OwnName DEF WaveInv, UnitName
<1>2. CASE /\ ~wave.force /\ results[n] # NoResult
           /\ End(u, IF Whole(n) THEN "account" ELSE "raised")
           /\ UNCHANGED <<marked, store, tries>>
  <2>1. job' = [job EXCEPT ![u] = [Idle EXCEPT !.phase = IF Whole(n) THEN "account" ELSE "raised"]]
    BY <1>2 DEF End
  <2>2. Shape'
    <3>1. [Idle EXCEPT !.phase = IF Whole(n) THEN "account" ELSE "raised"] \in Jobs
      <4>1. (IF Whole(n) THEN "account" ELSE "raised") \in Phases
        BY DEF Phases, Working
      <4> QED BY <4>1, IdleAs
    <3> QED BY <1>2, <2>1, <3>1 DEF WaveInv, Shape
  <2>3. (Fresh(u) /\ WaveTold(u) /\ Cold(u))'
    BY <1>1, <1>2, <2>1 DEF WaveInv, Shape, Fresh, WaveTold, Cold, Idle, Whole, UnitName, SessionName
  <2>4. \A v \in Unit : v # u => (Fresh(v) /\ WaveTold(v) /\ Cold(v))'
    BY <1>2, <2>1, Frame DEF WaveInv, Shape
  <2>5. (WarmWereTried /\ ResultsAreWhole /\ NamespaceIsolates)'
    BY <1>2 DEF WaveInv, WarmWereTried, ResultsAreWhole, NamespaceIsolates, Whole
  <2> QED BY <2>2, <2>3, <2>4, <2>5 DEF WaveInv
<1>3. CASE /\ wave.force \/ results[n] = NoResult
           /\ job' = [job EXCEPT ![u] = Attempt(u)]
           /\ marked' = marked \ {n}
           /\ store' = Cleared(n)
           /\ tries' = [tries EXCEPT ![n] = IF @ = 0 THEN 1 ELSE 2]
  <2>1. store' = [store EXCEPT ![n] = 0] /\ job'[u] = Attempt(u)
    BY <1>3 DEF Cleared, WaveInv, Shape
  <2>2. Attempt(u) \in Jobs
    <3>1. job[u].attempts + 1 \in 0 .. Retries + 1
      BY JobFields DEF WaveInv
    <3> QED BY <3>1, Zero DEF Attempt, Jobs, Phases, Working
  <2>3. Shape'
    <3>1. job' \in [Unit -> Jobs] /\ marked' \subseteq Name
      BY <1>3, <2>2 DEF WaveInv, Shape
    <3>2. store' \in [Name -> 0 .. Turns]
      BY <2>1, Zero DEF WaveInv, Shape
    <3>3. tries' \in [Name -> 0 .. 2]
      <4>1. (IF tries[n] = 0 THEN 1 ELSE 2) \in 0 .. 2
        OBVIOUS
      <4>2. tries \in [Name -> 0 .. 2]
        BY DEF WaveInv, Shape
      <4> QED BY <1>3, <4>1, <4>2
    <3> QED BY <3>1, <3>2, <3>3 DEF WaveInv, Shape
  <2>4. tries'[n] # 0 /\ (n \in warm => tries'[n] = 2)
    BY <1>1, <1>3 DEF WaveInv, Shape, WarmWereTried
  <2>5. (Fresh(u) /\ WaveTold(u) /\ Cold(u))'
    <3>1. store'[n] = 0
      BY <1>1, <2>1 DEF WaveInv, Shape
    <3> QED BY <1>1, <2>1, <2>4, <3>1 DEF Fresh, WaveTold, Cold, Attempt, SessionName, UnitName
  <2>6. \A v \in Unit : v # u => (Fresh(v) /\ WaveTold(v) /\ Cold(v))'
    <3>1. ASSUME NEW v \in Unit, v # u PROVE (Fresh(v) /\ WaveTold(v) /\ Cold(v))'
      <4>1. UnitName(v) # n /\ UnitName(v) \in Name
        BY <1>1, <3>1, OwnName DEF WaveInv
      <4> QED BY <1>3, <2>1, <3>1, <4>1, Frame DEF WaveInv, Shape
    <3> QED BY <3>1
  <2>7. WarmWereTried'
    BY <1>1, <1>3 DEF WaveInv, Shape, WarmWereTried
  <2>8. (ResultsAreWhole /\ NamespaceIsolates)'
    <3>1. ASSUME NEW m \in Name, tries[m] = 2 PROVE tries'[m] = 2
      <4>1. CASE m = n
        BY <1>3, <3>1, <4>1 DEF WaveInv, Shape
      <4>2. CASE m # n
        BY <1>3, <3>1, <4>2 DEF WaveInv, Shape
      <4> QED BY <4>1, <4>2
    <3>2. ResultsAreWhole'
      BY DEF WaveInv, ResultsAreWhole, Whole
    <3>3. NamespaceIsolates'
      BY <3>1 DEF WaveInv, NamespaceIsolates, Whole
    <3> QED BY <3>2, <3>3
  <2> QED BY <2>3, <2>5, <2>6, <2>7, <2>8 DEF WaveInv
<1> QED BY <1>1, <1>2, <1>3 DEF Enter

\* Steps that end a unit's part without a turn or a file
LEMMA EndHolds ==
  ASSUME WaveInv, NEW u \in Unit,
         NEW phase \in {"skipped", "failed", "raised", "done"}, End(u, phase),
         phase \in {"skipped", "failed"} => aborted',
         phase = "failed" => UnitName(u) \in marked,
         phase = "done" => Whole(UnitName(u)) /\ UnitName(u) \in counted',
         aborted' \in BOOLEAN, aborted => aborted', ledger' \in Nat \cup {Torn},
         counted' \in SUBSET Name, counted \subseteq counted',
         UNCHANGED <<wave, runs, files, warm, tries>>
  PROVE  WaveInv'
<1> USE Kinds
<1>1. job' = [job EXCEPT ![u] = [Idle EXCEPT !.phase = phase]]
  BY DEF End
<1>2. Shape'
  <2>1. [Idle EXCEPT !.phase = phase] \in Jobs
    BY IdleAs DEF Phases, Reported
  <2> QED BY <1>1, <2>1 DEF WaveInv, Shape, files
<1>3. (Fresh(u) /\ WaveTold(u) /\ Cold(u))'
  BY <1>1 DEF WaveInv, Shape, files, Fresh, WaveTold, Cold, Idle, Whole, UnitName, SessionName
<1>4. \A v \in Unit : v # u => (Fresh(v) /\ WaveTold(v) /\ Cold(v))'
  BY <1>1, Frame DEF WaveInv, Shape, files
<1>5. (WarmWereTried /\ ResultsAreWhole /\ NamespaceIsolates)'
  BY DEF WaveInv, files, WarmWereTried, ResultsAreWhole, NamespaceIsolates, Whole
<1> QED BY <1>2, <1>3, <1>4, <1>5 DEF WaveInv

\* The provider works on a turn of u, which is then in the phase of `now'.
LEMMA TurnHolds ==
  ASSUME WaveInv, NEW u \in Unit, job[u].phase = "turns",
         NEW worked \in BOOLEAN, Prompted(u, worked),
         NEW now \in Jobs, job' = [job EXCEPT ![u] = now],
         now.phase \in {"mistake", "raised"} \/
            /\ now.phase = IF job[u].rows + 1 = Turns THEN "save" ELSE "turns"
            /\ now.rows = job[u].rows + 1 /\ worked
            /\ now.served => job[u].served \/ (job[u].rows = 0 /\ SessionName(u) \in warm),
         now.phase = "mistake" => UnitName(u) \in marked',
         marked' \in SUBSET Name, marked \subseteq marked',
         UNCHANGED <<wave, aborted, runs, results, ledger, tries, counted>>
  PROVE  WaveInv'
<1> DEFINE n == <<wave.ns, u>>
<1> USE Kinds
<1>1. n = UnitName(u) /\ n = SessionName(u) /\ n \in Name
  BY OwnName DEF WaveInv, UnitName
<1>2. /\ store' = IF worked THEN [store EXCEPT ![n] = @ + 1] ELSE store
      /\ warm' = IF worked THEN warm \cup {n} ELSE warm
  BY <1>1 DEF Prompted
<1>3. store[n] = job[u].rows /\ job[u].rows < Turns /\ job[u].rows \in Nat /\ tries[n] # 0
  <2>1. job[u].rows \in Nat
    BY JobFields DEF WaveInv
  <2> QED BY <1>1, <2>1 DEF WaveInv, Fresh, Cold
<1>4. Shape'
  <2>1. store' \in [Name -> 0 .. Turns]
    BY <1>1, <1>2, <1>3 DEF WaveInv, Shape
  <2> QED BY <1>1, <1>2, <2>1 DEF WaveInv, Shape
<1>5. (Fresh(u) /\ WaveTold(u) /\ Cold(u))'
  <2>1. job'[u] = now /\ SessionName(u)' = n /\ UnitName(u)' = n /\ tries'[n] = tries[n]
    BY <1>1 DEF WaveInv, Shape, SessionName, UnitName
  <2>2. CASE now.phase \in {"mistake", "raised"}
    BY <1>1, <2>1, <2>2 DEF Fresh, WaveTold, Cold
  <2>3. CASE now.phase \in {"save", "turns"}
    <3>1. /\ now.phase = IF job[u].rows + 1 = Turns THEN "save" ELSE "turns"
          /\ now.rows = job[u].rows + 1 /\ worked
          /\ now.served => job[u].served \/ (job[u].rows = 0 /\ n \in warm)
      BY <1>1, <2>3
    <3>2. store'[n] = job[u].rows + 1
      BY <1>1, <1>2, <1>3, <3>1 DEF WaveInv, Shape
    <3>3. Fresh(u)'
      BY <1>3, <2>1, <3>1, <3>2 DEF Fresh
    <3>4. now.served => tries[n] = 2
      BY <1>1, <3>1 DEF WaveInv, Cold
    <3>5. now.rows # 0
      BY <1>3, <3>1
    <3> QED BY <1>3, <2>1, <2>3, <3>3, <3>4, <3>5 DEF WaveTold, Cold
  <2> QED BY <2>2, <2>3
<1>6. \A v \in Unit : v # u => (Fresh(v) /\ WaveTold(v) /\ Cold(v))'
  <2>1. ASSUME NEW v \in Unit, v # u PROVE (Fresh(v) /\ WaveTold(v) /\ Cold(v))'
    <3>1. UnitName(v) # n /\ UnitName(v) \in Name
      BY <1>1, <2>1, OwnName DEF WaveInv
    <3>2. job'[v] = job[v] /\ store'[UnitName(v)] = store[UnitName(v)]
      BY <1>1, <1>2, <2>1, <3>1 DEF WaveInv, Shape
    <3>3. UnitName(v) \in warm' => UnitName(v) \in warm
      BY <1>2, <3>1
    <3> QED BY <3>2, <3>3, Frame
  <2> QED BY <2>1
<1>7. WarmWereTried'
  BY <1>2, <1>3 DEF WaveInv, WarmWereTried
<1>8. (ResultsAreWhole /\ NamespaceIsolates)'
  BY DEF WaveInv, ResultsAreWhole, NamespaceIsolates, Whole
<1> QED BY <1>4, <1>5, <1>6, <1>7, <1>8 DEF WaveInv

LEMMA SaveHolds ==
  ASSUME WaveInv, NEW u \in Unit, Save(u) PROVE WaveInv'
<1> DEFINE n == <<wave.ns, u>>
           report == [turns |-> store[n], served |-> job[u].served]
<1> USE Kinds
<1>1. n = UnitName(u) /\ n = SessionName(u) /\ n \in Name
  BY OwnName DEF WaveInv, UnitName
<1>2. /\ job[u].phase = "save" /\ job' = [job EXCEPT ![u].phase = "account"]
      /\ results' = [results EXCEPT ![n] = report]
      /\ UNCHANGED <<wave, aborted, runs, marked, store, warm, ledger, tries, counted>>
  BY <1>1 DEF Save, MoveTo
<1>a. n = SessionName(u) /\ store[n] = Turns
  BY <1>1, <1>2 DEF WaveInv, Fresh
<1>3. report \in WaveResult /\ report.turns = Turns /\ (report.served => tries[n] = 2)
  BY <1>1, <1>2 DEF WaveInv, Shape, Jobs, Fresh, Cold, WaveResult
<1>4. report \notin {NoResult, Torn}
  <2>1. \A r \in WaveResult : r \notin {NoResult, Torn}
    OBVIOUS
  <2> QED BY <1>3, <2>1
<1>5. job' \in [Unit -> Jobs] /\ job'[u].phase = "account"
  <2>1. [job[u] EXCEPT !.phase = "account"] \in Jobs
    BY JobFields DEF WaveInv, Jobs, Phases, Working
  <2> QED BY <1>2, <2>1 DEF WaveInv, Shape
<1>6. results' \in [Name -> {NoResult, Torn} \cup WaveResult] /\ results'[n] = report
  BY <1>1, <1>2, <1>3 DEF WaveInv, Shape
<1>7. Shape'
  BY <1>2, <1>5, <1>6 DEF WaveInv, Shape
<1>8. (Fresh(u) /\ WaveTold(u) /\ Cold(u))'
  BY <1>2, <1>4, <1>5, <1>6 DEF Fresh, WaveTold, Cold, Whole, UnitName, SessionName
<1>9. \A v \in Unit : v # u => (Fresh(v) /\ WaveTold(v) /\ Cold(v))'
  <2>1. ASSUME NEW v \in Unit, v # u PROVE (Fresh(v) /\ WaveTold(v) /\ Cold(v))'
    <3>1. UnitName(v) # n /\ UnitName(v) \in Name
      BY <1>1, <2>1, OwnName DEF WaveInv
    <3>2. job'[v] = job[v] /\ results'[UnitName(v)] = results[UnitName(v)]
      BY <1>2, <2>1, <3>1 DEF WaveInv, Shape
    <3> QED BY <1>2, <3>2, Frame
  <2> QED BY <2>1
<1>10. \A m \in Name : m # n => results'[m] = results[m]
  BY <1>2 DEF WaveInv, Shape
<1>11. (ResultsAreWhole /\ NamespaceIsolates)'
  BY <1>2, <1>3, <1>6, <1>10 DEF WaveInv, ResultsAreWhole, NamespaceIsolates, Whole
<1>12. WarmWereTried'
  BY <1>2 DEF WaveInv, WarmWereTried
<1> QED BY <1>7, <1>8, <1>9, <1>11, <1>12 DEF WaveInv

LEMMA WorkHolds ==
  ASSUME WaveInv, NEW u \in Unit, Work(u) PROVE WaveInv'
<1> USE Kinds
<1>1. CASE Take(u)
  <2>1. CASE aborted
    <3>1. End(u, "skipped") /\ UNCHANGED <<wave, aborted, runs, files, warm, ledger, tries, counted>>
      BY <1>1, <2>1 DEF Take, files
    <3> QED BY <2>1, <3>1, EndHolds DEF WaveInv, Shape
  <2>2. CASE ~aborted
    <3>1. Enter(u) /\ job[u].attempts = 0
          /\ UNCHANGED <<wave, aborted, runs, results, warm, ledger, counted>>
      BY <1>1, <2>2 DEF Take, WaveInv, Fresh
    <3> QED BY <3>1, EnterHolds
  <2> QED BY <2>1, <2>2
<1>2. CASE Answer(u)
  <2>1. PICK served \in BOOLEAN :
          /\ served => job[u].rows = 0 /\ SessionName(u) \in warm
          /\ job' = [job EXCEPT ![u].rows = @ + 1, ![u].served = @ \/ served,
                                ![u].phase = IF job[u].rows + 1 = Turns THEN "save" ELSE "turns"]
    BY <1>2 DEF Answer
  <2> DEFINE now == [job[u] EXCEPT !.rows = @ + 1, !.served = @ \/ served,
                                   !.phase = IF job[u].rows + 1 = Turns THEN "save" ELSE "turns"]
  <2>2. job[u] \in Jobs /\ job[u].phase = "turns" /\ job[u].rows < Turns
    BY <1>2 DEF Answer, WaveInv, Shape, Fresh
  <2>3. now \in Jobs
    <3>1. job[u].rows + 1 \in 0 .. Turns
      BY <2>2, JobFields DEF WaveInv
    <3> QED BY <2>2, <3>1 DEF Jobs, Phases, Working
  <2>4. job' = [job EXCEPT ![u] = now]
    BY <2>1 DEF WaveInv, Shape
  <2>5. /\ now.phase = IF job[u].rows + 1 = Turns THEN "save" ELSE "turns"
        /\ now.rows = job[u].rows + 1
        /\ now.served => job[u].served \/ (job[u].rows = 0 /\ SessionName(u) \in warm)
    BY <2>1, <2>2 DEF Jobs
  <2>6. Prompted(u, TRUE) /\ UNCHANGED <<wave, aborted, runs, results, marked, ledger, tries, counted>>
    BY <1>2 DEF Answer
  <2>7. marked' \in SUBSET Name
    BY <2>6 DEF WaveInv, Shape
  <2> HIDE DEF now
  <2> QED BY <2>2, <2>3, <2>4, <2>5, <2>6, <2>7, TurnHolds
<1>3. CASE Fatal(u)
  <2>1. PICK worked \in BOOLEAN : Prompted(u, worked)
    BY <1>3 DEF Fatal
  <2> DEFINE now == [job[u] EXCEPT !.phase = "mistake"]
  <2>2. now \in Jobs /\ job' = [job EXCEPT ![u] = now] /\ now.phase = "mistake"
    <3>1. job[u] \in Jobs /\ "mistake" \in Phases
      BY JobFields DEF WaveInv, Phases, Working
    <3>2. now \in Jobs /\ now.phase = "mistake"
      BY <3>1 DEF Jobs
    <3> QED BY <1>3, <3>2 DEF Fatal, MoveTo
  <2>3. marked' = marked \cup {UnitName(u)} /\ UnitName(u) \in Name
    BY <1>3, OwnName DEF Fatal, WaveInv
  <2>4. job[u].phase = "turns" /\ UNCHANGED <<wave, aborted, runs, results, ledger, tries, counted>>
    BY <1>3 DEF Fatal
  <2>5. marked' \in SUBSET Name
    BY <2>3 DEF WaveInv, Shape
  <2> HIDE DEF now
  <2> QED BY <2>1, <2>2, <2>3, <2>4, <2>5, TurnHolds
<1>4. CASE TimesOut(u)
  <2>1. PICK worked \in BOOLEAN : Prompted(u, worked)
    BY <1>4 DEF TimesOut
  <2> DEFINE now == [Idle EXCEPT !.phase = "raised"]
  <2>2. now \in Jobs /\ job' = [job EXCEPT ![u] = now] /\ now.phase = "raised"
    <3>1. now \in Jobs /\ now.phase = "raised"
      BY IdleAs DEF Phases
    <3> QED BY <1>4, <3>1 DEF TimesOut, End
  <2>3. /\ job[u].phase = "turns"
        /\ UNCHANGED <<wave, aborted, runs, results, marked, ledger, tries, counted>>
    BY <1>4 DEF TimesOut
  <2>4. marked' \in SUBSET Name
    BY <2>3 DEF WaveInv, Shape
  <2> HIDE DEF now
  <2> QED BY <2>1, <2>2, <2>3, <2>4, TurnHolds
<1>5. CASE Again(u)
  BY <1>5, EnterHolds DEF Again
<1>6. CASE GiveUp(u)
  <2>1. /\ End(u, "failed") /\ aborted' = TRUE /\ UnitName(u) \in marked
        /\ UNCHANGED <<wave, runs, files, warm, ledger, tries, counted>>
    BY <1>6 DEF GiveUp, WaveInv, WaveTold
  <2>2. ledger' \in Nat \cup {Torn} /\ counted' \in SUBSET Name
    BY <2>1 DEF WaveInv, Shape
  <2> QED BY <2>1, <2>2, EndHolds
<1>7. CASE Save(u)
  BY <1>7, SaveHolds
<1>8. CASE Account(u)
  <2>1. job[u].phase = "account" /\ Whole(UnitName(u)) /\ UnitName(u) \in Name
        /\ UNCHANGED <<wave, runs, files, warm, tries>>
    BY <1>8, OwnName DEF Account, WaveInv, WaveTold
  <2>2. CASE ledger = Torn
    <3>1. End(u, "raised") /\ UNCHANGED <<ledger, aborted, counted>>
      BY <1>8, <2>2 DEF Account
    <3>2. ledger' \in Nat \cup {Torn} /\ counted' \in SUBSET Name /\ aborted' \in BOOLEAN
      BY <3>1 DEF WaveInv, Shape
    <3> QED BY <2>1, <3>1, <3>2, EndHolds
  <2>3. CASE ledger # Torn
    <3>1. /\ ledger' = Added(Price(u)) /\ aborted' = (aborted \/ ledger' > Stop)
          /\ counted' = counted \cup {UnitName(u)} /\ End(u, "done")
      BY <1>8, <2>3 DEF Account
    <3>2. Price(u) \in Nat
      <4>1. Tok[u[1]] \in Nat
        BY WaveAssumption DEF Unit
      <4> QED BY <4>1 DEF Price
    <3>3. ledger' \in Nat
      BY <2>3, <3>1, <3>2 DEF Added, WaveInv, Shape
    <3>4. counted' \in SUBSET Name /\ aborted' \in BOOLEAN /\ (aborted => aborted')
      BY <2>1, <3>1 DEF WaveInv, Shape
    <3> QED BY <2>1, <3>1, <3>3, <3>4, EndHolds
  <2> QED BY <2>2, <2>3
<1>9. CASE Collapse(u)
  BY <1>9, CollapseHolds
<1> QED BY <1>1, <1>2, <1>3, <1>4, <1>5, <1>6, <1>7, <1>8, <1>9 DEF Work

LEMMA StutterHolds == WaveInv /\ UNCHANGED vars => WaveInv'
<1> SUFFICES ASSUME WaveInv, UNCHANGED vars PROVE WaveInv'
  OBVIOUS
<1> USE DEF vars, files
<1>1. Shape'
  BY DEF WaveInv, Shape
<1>2. \A v \in Unit : (Fresh(v) /\ WaveTold(v) /\ Cold(v))'
  BY Frame
<1>3. (WarmWereTried /\ ResultsAreWhole /\ NamespaceIsolates)'
  BY DEF WaveInv, WarmWereTried, ResultsAreWhole, NamespaceIsolates, Whole
<1> QED BY <1>1, <1>2, <1>3 DEF WaveInv

LEMMA WaveInvHolds == Spec => []WaveInv
<1>1. WaveInv /\ [Next]_vars => WaveInv'
  BY StartHolds, WorkHolds, CrashHolds, StutterHolds DEF Next
<1> QED BY <1>1, WaveInitHolds, PTL DEF Spec

-----------------------------------------------------------------------------
(* The threads: only Take puts one more unit to work, and it takes none    *)
(* while all of them are.                                                  *)

LEMMA UnitsAreFinite == IsFiniteSet(Unit)
<1>1. Sessions \in Seq(Range(Sessions))
  BY WaveAssumption
<1>2. Len(Sessions) \in Nat /\ DOMAIN Sessions = 1 .. Len(Sessions)
  BY <1>1
<1>3. IsFiniteSet(DOMAIN Sessions)
  BY <1>2, FS_Interval
<1>4. Sessions \in Surjection(DOMAIN Sessions, Range(Sessions))
  BY <1>1, <1>2 DEF Surjection, Range
<1>5. IsFiniteSet(Range(Sessions))
  BY <1>3, <1>4, FS_Surjection
<1>6. IsFiniteSet(Arm)
  <2>1. IsFiniteSet({Karc})
    BY FS_Singleton
  <2>2. IsFiniteSet({Karc} \cup {Rag})
    BY <2>1, FS_AddElement
  <2>3. Arm = {Karc} \cup {Rag}
    BY DEF Arm
  <2> QED BY <2>2, <2>3
<1> QED BY <1>5, <1>6, FS_Product DEF Unit

WaveThreads == Cardinality(Active) <= Workers

LEMMA ThreadsHold == WaveInv /\ WaveThreads /\ [Next]_vars => WaveThreads'
<1> SUFFICES ASSUME WaveInv, WaveThreads, [Next]_vars PROVE WaveThreads'
  OBVIOUS
<1> USE UnitsAreFinite
<1>1. /\ Active \in SUBSET Unit /\ IsFiniteSet(Active) /\ Cardinality(Active) \in Nat
      /\ Workers \in Nat
  BY FS_Subset, FS_CardinalityType, WaveAssumption DEF Active
<1>2. ASSUME Active' \subseteq Active PROVE WaveThreads'
  BY <1>1, <1>2, FS_Subset, FS_CardinalityType DEF WaveThreads
<1>3. CASE UNCHANGED vars
  BY <1>2, <1>3 DEF vars, Active
<1>4. CASE Start
  <2>1. \A u \in Unit : job'[u].phase \in {"queued", "absent"}
    BY <1>4 DEF Start, Idle
  <2> QED BY <1>2, <2>1 DEF Active, Working
<1>5. CASE Crash
  BY <1>2, <1>5 DEF Crash, Active, Working, Idle
<1>6. ASSUME NEW u \in Unit, Work(u) PROVE WaveThreads'
  <2>1. CASE Take(u)
    <3>1. Cardinality(Active) + 1 <= Workers
      <4>1. LET S == {v \in At("queued") : Before(v, u)} IN Cardinality(S) \in Nat
        BY FS_Subset, FS_CardinalityType DEF At
      <4> QED BY <1>1, <2>1, <4>1 DEF Take, Reachable
    <3>2. \A v \in Unit : v # u => job'[v] = job[v]
      BY <2>1 DEF Take, Enter, End, WaveInv, Shape
    <3>3. Active' \subseteq Active \cup {u}
      BY <3>2 DEF Active
    <3>4. IsFiniteSet(Active \cup {u}) /\ Cardinality(Active \cup {u}) <= Cardinality(Active) + 1
      BY <1>1, FS_AddElement
    <3>5. Cardinality(Active') <= Cardinality(Active \cup {u}) /\ Cardinality(Active') \in Nat
          /\ Cardinality(Active \cup {u}) \in Nat
      BY <3>3, <3>4, FS_Subset, FS_CardinalityType
    <3> QED BY <1>1, <3>1, <3>4, <3>5 DEF WaveThreads
  <2>2. CASE u \in Active /\ \A v \in Unit : v # u => job'[v] = job[v]
    BY <1>2, <2>2 DEF Active
  <2>3. CASE Answer(u) \/ Fatal(u) \/ TimesOut(u) \/ Again(u) \/ GiveUp(u) \/ Save(u) \/ Account(u)
    <3>1. u \in Active
      BY <2>3 DEF Answer, Fatal, TimesOut, Again, GiveUp, Save, Account, Active, Working
    <3>2. \A v \in Unit : v # u => job'[v] = job[v]
      BY <2>3 DEF Answer, Fatal, TimesOut, Again, GiveUp, Save, Account,
                  Enter, End, MoveTo, WaveInv, Shape
    <3> QED BY <2>2, <3>1, <3>2
  <2>4. CASE Collapse(u)
    BY <1>2, <2>4 DEF Collapse, Active, Working, Idle
  <2> QED BY <1>6, <2>1, <2>3, <2>4 DEF Work
<1> QED BY <1>3, <1>4, <1>5, <1>6 DEF Next

LEMMA InitThreads == Init => WaveThreads
<1> SUFFICES ASSUME Init PROVE WaveThreads
  OBVIOUS
<1>1. Active = {}
  BY DEF Init, Active, Working, Idle
<1> QED BY <1>1, FS_EmptySet, WaveAssumption DEF WaveThreads

-----------------------------------------------------------------------------
(* Sums of prices are cardinalities, so adding a price adds to the sum.    *)

LEMMA TotalIsNat ==
  ASSUME NEW prices, IsFiniteSet(DOMAIN prices), \A i \in DOMAIN prices : prices[i] \in Nat
  PROVE  /\ IsFiniteSet(UNION {{i} \X (1 .. prices[i]) : i \in DOMAIN prices})
         /\ Total(prices) \in Nat
<1> DEFINE part == [i \in DOMAIN prices |-> {i} \X (1 .. prices[i])]
           parts == {part[i] : i \in DOMAIN prices}
<1>1. part \in Surjection(DOMAIN prices, parts)
  BY DEF Surjection
<1>2. IsFiniteSet(parts)
  <2>1. IsFiniteSet(DOMAIN prices)
    OBVIOUS
  <2> HIDE DEF part, parts
  <2> QED BY <1>1, <2>1, FS_Surjection, Zenon
<1>3. ASSUME NEW i \in DOMAIN prices PROVE IsFiniteSet(part[i])
  <2>1. 1 \in Int /\ prices[i] \in Int
    OBVIOUS
  <2>2. IsFiniteSet(1 .. prices[i])
    <3> HIDE DEF part, parts
    <3> QED BY <2>1, FS_Interval
  <2>3. IsFiniteSet({i} \X (1 .. prices[i]))
    BY <2>2, FS_Singleton, FS_Product
  <2> QED BY <2>3
<1>4. \A p \in parts : IsFiniteSet(p)
  BY <1>3
<1>5. IsFiniteSet(UNION parts)
  <2> HIDE DEF parts
  <2> QED BY <1>2, <1>4, FS_UNION
<1>6. UNION parts = UNION {{i} \X (1 .. prices[i]) : i \in DOMAIN prices}
  OBVIOUS
<1> QED BY <1>5, <1>6, FS_CardinalityType DEF Total

LEMMA TotalOfNone ==
  ASSUME NEW prices, DOMAIN prices = {}
  PROVE  Total(prices) = 0
<1>1. UNION {{i} \X (1 .. prices[i]) : i \in DOMAIN prices} = {}
  OBVIOUS
<1> QED BY <1>1, FS_EmptySet DEF Total

LEMMA TotalGrows ==
  ASSUME NEW prices, IsFiniteSet(DOMAIN prices), \A i \in DOMAIN prices : prices[i] \in Nat,
         NEW more, NEW x, x \notin DOMAIN prices, DOMAIN more = DOMAIN prices \cup {x},
         \A i \in DOMAIN prices : more[i] = prices[i], more[x] \in Nat
  PROVE  Total(more) = Total(prices) + more[x]
<1> DEFINE Old == UNION {{i} \X (1 .. prices[i]) : i \in DOMAIN prices}
           New == {x} \X (1 .. more[x])
           All == UNION {{i} \X (1 .. more[i]) : i \in DOMAIN more}
<1>1. All = Old \cup New
  <2>1. ASSUME NEW e \in All PROVE e \in Old \cup New
    <3>1. PICK i \in DOMAIN more : e \in {i} \X (1 .. more[i])
      OBVIOUS
    <3>2. CASE i = x
      BY <3>1, <3>2
    <3>3. CASE i \in DOMAIN prices
      BY <3>1, <3>3
    <3> QED BY <3>2, <3>3
  <2>2. ASSUME NEW e \in Old \cup New PROVE e \in All
    <3>1. CASE e \in New
      <4>1. x \in DOMAIN more
        OBVIOUS
      <4> QED BY <3>1, <4>1
    <3>2. CASE e \in Old
      <4>1. PICK i \in DOMAIN prices : e \in {i} \X (1 .. prices[i])
        BY <3>2
      <4>2. i \in DOMAIN more /\ more[i] = prices[i]
        OBVIOUS
      <4> QED BY <4>1, <4>2
    <3> QED BY <3>1, <3>2
  <2> QED BY <2>1, <2>2
<1>2. Old \cap New = {}
  OBVIOUS
<1>3. IsFiniteSet(Old) /\ Cardinality(Old) = Total(prices) /\ Total(prices) \in Nat
  BY TotalIsNat DEF Total
<1>4. IsFiniteSet(New) /\ Cardinality(New) = more[x]
  <2>1. IsFiniteSet({x}) /\ Cardinality({x}) = 1
    BY FS_Singleton
  <2>2. IsFiniteSet(1 .. more[x]) /\ Cardinality(1 .. more[x]) = more[x]
    BY FS_Interval
  <2>3. IsFiniteSet(New) /\ Cardinality(New) = Cardinality({x}) * Cardinality(1 .. more[x])
    BY <2>1, <2>2, FS_Product
  <2>4. 1 * more[x] = more[x]
    OBVIOUS
  <2> QED BY <2>1, <2>2, <2>3, <2>4
<1>5. Total(more) = Cardinality(All)
  BY DEF Total
<1>6. Cardinality(Old \cup New) = Cardinality(Old) + Cardinality(New) - Cardinality(Old \cap New)
  <2> HIDE DEF Old, New
  <2> QED BY <1>3, <1>4, FS_Union
<1>7. Cardinality(Old \cap New) = 0
  BY <1>2, FS_EmptySet
<1> HIDE DEF Old, New, All
<1> QED BY <1>1, <1>3, <1>4, <1>5, <1>6, <1>7

-----------------------------------------------------------------------------
(* The books.  While a wave has not been aborted its ledger is within the  *)
(* stop, or where the wave found it; an abort leaves at most the units at  *)
(* work, which the threads that are not at work had been.                  *)

Prices(units) == [u \in units |-> Price(u)]
NamePrices(names) == [n \in names |-> Price(n[2])]
Bill == Turns * MaxTok
Top == Largest({Stop, ledger - Spent})
Slack == IF aborted THEN Workers - Cardinality(Active) ELSE 0

BooksInv ==
    /\ IsFiniteSet(counted)
    /\ LedgerCovers
    /\ ledger # Torn => ledger <= Top + Slack * Bill

LEMMA LargestOfTwo ==
  ASSUME NEW a \in Int, NEW b \in Int
  PROVE  /\ Largest({a, b}) \in {a, b}
         /\ a <= Largest({a, b}) /\ b <= Largest({a, b})
<1>1. \E n \in {a, b} : \A m \in {a, b} : m <= n
  <2>1. a <= b \/ b <= a
    OBVIOUS
  <2> QED BY <2>1
<1> QED BY <1>1 DEF Largest

LEMMA Bills ==
  /\ MaxTok \in Nat /\ Bill \in Nat /\ Stop \in Nat /\ Workers \in Nat
  /\ \A u \in Unit : Price(u) \in Nat /\ Price(u) <= Bill
  /\ \A n \in Name : Price(n[2]) \in Nat
<1>1. /\ Turns \in Nat /\ Stop \in Nat /\ Workers \in Nat
      /\ \A arm \in Arm : Tok[arm] \in Nat
  BY WaveAssumption
<1>2. Karc \in Arm /\ Rag \in Arm /\ {Tok[arm] : arm \in Arm} = {Tok[Karc], Tok[Rag]}
  BY DEF Arm
<1>3. MaxTok \in Nat /\ \A arm \in Arm : Tok[arm] <= MaxTok
  <2>1. Tok[Karc] \in Int /\ Tok[Rag] \in Int
    BY <1>1, <1>2
  <2>2. LET most == Largest({Tok[Karc], Tok[Rag]})
        IN most \in {Tok[Karc], Tok[Rag]} /\ Tok[Karc] <= most /\ Tok[Rag] <= most
    BY <2>1, LargestOfTwo
  <2> QED BY <1>1, <1>2, <2>2 DEF MaxTok, Arm
<1>4. ASSUME NEW a \in Nat, NEW b \in Nat, NEW k \in Nat, a <= b PROVE k * a \in Nat /\ k * a <= k * b
  BY <1>4
<1>5. ASSUME NEW u \in Unit PROVE Price(u) \in Nat /\ Price(u) <= Bill
  <2>1. u[1] \in Arm
    BY DEF Unit
  <2> QED BY <1>1, <1>3, <1>4, <2>1 DEF Price, Bill
<1>6. \A n \in Name : n[2] \in Unit
  BY DEF Name
<1>7. Bill \in Nat
  BY <1>1, <1>3, <1>4 DEF Bill
<1> QED BY <1>1, <1>3, <1>5, <1>6, <1>7

LEMMA Sums ==
  ASSUME WaveInv
  PROVE  /\ Spent \in Nat
         /\ IsFiniteSet(At("done")) /\ IsFiniteSet(Active) /\ Cardinality(Active) \in Nat
         /\ ledger # Torn => ledger \in Nat
<1>1. /\ IsFiniteSet(At("done")) /\ IsFiniteSet(Active)
  BY UnitsAreFinite, FS_Subset DEF At, Active
<1>2. \A u \in At("done") : Price(u) \in Nat
  BY Bills DEF At
<1>3. Spent \in Nat
  BY <1>1, <1>2, TotalIsNat DEF Spent
<1> QED BY <1>1, <1>3, FS_CardinalityType DEF WaveInv, Shape

\* The books a wave started with, or the stop if that is more.
LEMMA TopIsInt ==
  ASSUME WaveInv, ledger # Torn
  PROVE  Top \in Int /\ Stop <= Top /\ ledger - Spent <= Top
<1> DEFINE start == ledger - Spent
<1>1. start \in Int /\ Stop \in Int
  <2>1. ledger \in Nat /\ Spent \in Nat
    BY Sums
  <2> QED BY <2>1, Bills
<1>2. Top = Largest({Stop, start})
  BY DEF Top
<1> HIDE DEF start
<1>3. /\ Largest({Stop, start}) \in {Stop, start}
      /\ Stop <= Largest({Stop, start}) /\ start <= Largest({Stop, start})
  BY <1>1, LargestOfTwo
<1>4. Top \in Int /\ Stop <= Top /\ start <= Top
  BY <1>1, <1>2, <1>3
<1> QED BY <1>4 DEF start

\* More slack is a larger bound.
LEMMA SlackCounts ==
  ASSUME NEW a \in Nat, NEW b \in Nat, a <= b
  PROVE  /\ a * Bill \in Nat /\ b * Bill \in Nat /\ a * Bill <= b * Bill
         /\ (a + 1) * Bill = a * Bill + Bill
<1>1. ASSUME NEW k \in Nat
      PROVE  /\ a * k \in Nat /\ b * k \in Nat /\ a * k <= b * k
             /\ (a + 1) * k = a * k + k
  OBVIOUS
<1> QED BY <1>1, Bills

LEMMA SlackIsNat == WaveInv /\ WaveThreads => Slack \in Nat
<1> SUFFICES ASSUME WaveInv, WaveThreads PROVE Slack \in Nat
  OBVIOUS
<1>1. Cardinality(Active) \in Nat /\ Workers \in Nat
  BY Sums, Bills
<1>2. Workers - Cardinality(Active) \in Nat
  BY <1>1 DEF WaveThreads
<1> QED BY <1>2 DEF Slack

\* A step that books nothing: the thread that ends a unit gives its slack back.
LEMMA NothingBooked ==
  ASSUME WaveInv, WaveInv', WaveThreads, WaveThreads', BooksInv,
         ledger' = ledger, counted' = counted, At("done")' = At("done"),
         aborted => aborted' /\ Active' \subseteq Active
  PROVE  BooksInv'
<1>1. IsFiniteSet(counted') /\ LedgerCovers'
  BY DEF BooksInv, LedgerCovers
<1>2. Top' = Top
  BY DEF Top, Spent
<1>3. Slack \in Nat /\ Slack' \in Nat
  <2>1. Slack' \in Nat
    <3>1. Cardinality(Active') \in Nat
      BY UnitsAreFinite, FS_Subset, FS_CardinalityType DEF Active
    <3>2. Workers \in Nat
      BY Bills
    <3>3. Workers - Cardinality(Active') \in Nat
      BY <3>1, <3>2 DEF WaveThreads
    <3> QED BY <3>3 DEF Slack
  <2> QED BY <2>1, SlackIsNat
<1>4. Slack <= Slack'
  <2>1. CASE ~aborted
    <3>1. Slack = 0
      BY <2>1 DEF Slack
    <3> QED BY <3>1, <1>3
  <2>2. CASE aborted
    <3>1. Slack = Workers - Cardinality(Active) /\ Slack' = Workers - Cardinality(Active')
      BY <2>2 DEF Slack
    <3>2. IsFiniteSet(Active) /\ Cardinality(Active) \in Nat /\ Workers \in Nat
      BY Sums, Bills
    <3>3. Cardinality(Active') <= Cardinality(Active) /\ Cardinality(Active') \in Nat
      BY <2>2, <3>2, FS_Subset, FS_CardinalityType
    <3> QED BY <3>1, <3>2, <3>3
  <2> QED BY <2>1, <2>2
<1>5. Slack * Bill <= Slack' * Bill /\ Slack * Bill \in Nat /\ Slack' * Bill \in Nat
  BY <1>3, <1>4, SlackCounts
<1>6. ASSUME ledger # Torn PROVE ledger <= Top + Slack' * Bill
  <2>1. ledger \in Nat /\ Top \in Int
    BY <1>6, Sums, TopIsInt
  <2>2. ledger <= Top + Slack * Bill
    BY <1>6 DEF BooksInv
  <2> QED BY <2>1, <2>2, <1>5
<1> QED BY <1>1, <1>2, <1>6 DEF BooksInv

\* A process starts, or dies: nothing is booked by this wave yet.
LEMMA NewWave ==
  ASSUME WaveInv, WaveInv', WaveThreads', BooksInv,
         ledger' \in {ledger, Torn}, counted' = counted, At("done")' = {}
  PROVE  BooksInv'
<1>1. IsFiniteSet(counted') /\ LedgerCovers'
  BY DEF BooksInv, LedgerCovers
<1>2. ASSUME ledger' # Torn PROVE ledger' <= Top' + Slack' * Bill
  <2>1. Spent' = 0
    BY TotalOfNone DEF Spent
  <2>2. ledger' \in Nat
    BY <1>2, Sums
  <2>3. Top' = Largest({Stop, ledger'})
    <3>1. ASSUME NEW k \in Nat PROVE k - 0 = k
      OBVIOUS
    <3>2. ledger' - Spent' = ledger'
      BY <2>1, <2>2, <3>1
    <3>3. Top' = Largest({Stop, ledger' - Spent'})
      BY DEF Top
    <3> QED BY <3>2, <3>3
  <2>4. ledger' <= Top' /\ Top' \in Int
    <3>1. Stop \in Int /\ ledger' \in Int
      BY <2>2, Bills
    <3>2. Largest({Stop, ledger'}) \in {Stop, ledger'} /\ ledger' <= Largest({Stop, ledger'})
      BY <3>1, LargestOfTwo
    <3> QED BY <2>3, <3>1, <3>2
  <2>5. Slack' \in Nat
    <3>1. Cardinality(Active') \in Nat
      BY UnitsAreFinite, FS_Subset, FS_CardinalityType DEF Active
    <3>2. Workers \in Nat
      BY Bills
    <3>3. Workers - Cardinality(Active') \in Nat
      BY <3>1, <3>2 DEF WaveThreads
    <3> QED BY <3>3 DEF Slack
  <2>6. Slack' * Bill \in Nat
    BY <2>5, SlackCounts
  <2> QED BY <2>2, <2>4, <2>6
<1> QED BY <1>1, <1>2 DEF BooksInv

\* A unit is accounted for: its price goes to the ledger and to the wave.
LEMMA AccountBooks ==
  ASSUME WaveInv, WaveInv', WaveThreads, WaveThreads', BooksInv, NEW u \in Unit, Account(u), ledger # Torn
  PROVE  BooksInv'
<1> DEFINE n == UnitName(u)
           usd == Price(u)
<1>1. /\ ledger \in Nat /\ usd \in Nat /\ usd <= Bill /\ Bill \in Nat
      /\ ledger' = ledger + usd /\ ledger' # Torn /\ ledger' \in Nat
      /\ Stop \in Nat /\ Workers \in Nat
  <2>1. ledger \in Nat /\ usd \in Nat
    BY Sums, Bills
  <2>2. ledger' = ledger + usd
    BY DEF Account, Added
  <2>3. Torn \notin Nat
    BY WaveAssumption
  <2> QED BY <2>1, <2>2, <2>3, Bills
<1>2. counted' = counted \cup {n} /\ n \in Name /\ n[2] = u
  <2>1. counted' = counted \cup {n}
    BY DEF Account
  <2>2. n \in Name
    BY OwnName DEF WaveInv
  <2> QED BY <2>1, <2>2 DEF UnitName
<1>3. IsFiniteSet(counted') /\ LedgerCovers'
  <2>1. IsFiniteSet(counted) /\ counted \subseteq Name
    BY DEF BooksInv, WaveInv, Shape
  <2>2. IsFiniteSet(counted')
    BY <1>2, <2>1, FS_AddElement
  <2>3. ledger >= Total(NamePrices(counted))
    BY DEF BooksInv, LedgerCovers, NamePrices
  <2>4. \A m \in counted : NamePrices(counted)[m] \in Nat
    BY <2>1, Bills DEF NamePrices
  <2>5. Total(NamePrices(counted)) \in Nat
    BY <2>1, <2>4, TotalIsNat DEF NamePrices
  <2>6. Total(NamePrices(counted')) <= Total(NamePrices(counted)) + usd
    <3>1. CASE n \in counted
      <4>1. counted' = counted
        BY <1>2, <3>1
      <4> QED BY <4>1, <2>5, <1>1
    <3>2. CASE n \notin counted
      <4>1. /\ DOMAIN NamePrices(counted) = counted /\ DOMAIN NamePrices(counted') = counted \cup {n}
            /\ \A m \in counted : NamePrices(counted')[m] = NamePrices(counted)[m]
            /\ NamePrices(counted')[n] = usd
        BY <1>2 DEF NamePrices
      <4>2. Total(NamePrices(counted')) = Total(NamePrices(counted)) + NamePrices(counted')[n]
        BY <2>1, <2>4, <3>2, <4>1, <1>1, TotalGrows
      <4> QED BY <4>1, <4>2, <2>5, <1>1
    <3> QED BY <3>1, <3>2
  <2>7. Total(NamePrices(counted')) \in Nat
    <3>1. counted' \subseteq Name
      BY <1>2, <2>1
    <3>2. \A m \in counted' : NamePrices(counted')[m] \in Nat
      BY <3>1, Bills DEF NamePrices
    <3> QED BY <2>2, <3>2, TotalIsNat DEF NamePrices
  <2>8. ledger' >= Total(NamePrices(counted'))
    BY <1>1, <2>3, <2>5, <2>6, <2>7
  <2> QED BY <2>2, <2>8 DEF LedgerCovers, NamePrices
<1>4. Spent' = Spent + usd /\ Spent \in Nat
  <2> DEFINE old == [v \in At("done") |-> Price(v)]
             new == [v \in At("done")' |-> Price(v)]
  <2>1. At("done")' = At("done") \cup {u} /\ u \notin At("done")
    <3>1. job[u].phase = "account"
      BY DEF Account
    <3>2. job' = [job EXCEPT ![u] = [Idle EXCEPT !.phase = "done"]] /\ job \in [Unit -> Jobs]
      BY <1>1 DEF Account, End, WaveInv, Shape
    <3>3. job'[u].phase = "done" /\ \A v \in Unit : v # u => job'[v] = job[v]
      BY <3>2 DEF Idle
    <3> QED BY <3>1, <3>3 DEF At
  <2>2. IsFiniteSet(At("done")) /\ Spent \in Nat
    BY Sums
  <2>3. \A v \in At("done") : old[v] \in Nat
    BY Bills DEF At
  <2>4. /\ DOMAIN old = At("done") /\ DOMAIN new = At("done") \cup {u}
        /\ \A v \in At("done") : new[v] = old[v]
        /\ new[u] = usd
    BY <2>1
  <2> HIDE DEF old, new
  <2>5. Total(new) = Total(old) + new[u]
    BY <2>1, <2>2, <2>3, <2>4, <1>1, TotalGrows
  <2>6. Spent = Total(old) /\ Spent' = Total(new)
    BY DEF old, new, Spent
  <2> QED BY <2>2, <2>4, <2>5, <2>6
<1>5. Top' = Top /\ Top \in Int /\ Stop <= Top
  <2>1. ledger' - Spent' = ledger - Spent /\ ledger - Spent \in Int
    BY <1>1, <1>4
  <2>2. Top' = Top
    BY <2>1 DEF Top
  <2> QED BY <1>1, <2>2, TopIsInt
<1>6. /\ Cardinality(Active) \in Nat /\ Cardinality(Active') = Cardinality(Active) - 1
      /\ Cardinality(Active) <= Workers
  <2>1. job[u].phase = "account"
    BY DEF Account
  <2>2. job'[u].phase = "done" /\ \A v \in Unit : v # u => job'[v] = job[v]
    <3>1. job' = [job EXCEPT ![u] = [Idle EXCEPT !.phase = "done"]] /\ job \in [Unit -> Jobs]
      BY <1>1 DEF Account, End, WaveInv, Shape
    <3> QED BY <3>1 DEF Idle
  <2>3. u \in Active /\ Active' = Active \ {u}
    BY <2>1, <2>2 DEF Active, Working
  <2> QED BY <2>3, Sums, FS_RemoveElement DEF WaveThreads
<1>7. ledger <= Top + Slack * Bill
  BY <1>1 DEF BooksInv, WaveThreads
<1>8. ledger' <= Top + Slack' * Bill
  <2> DEFINE idle == Workers - Cardinality(Active)
  <2>1. idle \in Nat /\ idle + 1 \in Nat /\ Workers - Cardinality(Active') = idle + 1
    BY <1>1, <1>6
  <2>2. /\ idle * Bill \in Nat /\ (idle + 1) * Bill = idle * Bill + Bill
        /\ 0 * Bill = 0
    BY <2>1, SlackCounts, Bills
  <2>3. ASSUME aborted PROVE ledger' <= Top + Slack' * Bill
    <3>1. aborted'
      BY <2>3, <1>1 DEF Account
    <3>2. Slack = idle /\ Slack' = idle + 1
      BY <2>1, <2>3, <3>1 DEF Slack
    <3> QED BY <3>2, <1>1, <1>5, <1>7, <2>1, <2>2
  <2>4. ASSUME ~aborted PROVE ledger' <= Top + Slack' * Bill
    <3>1. Slack = 0
      BY <2>4 DEF Slack
    <3>2. ledger <= Top
      BY <1>1, <1>5, <1>7, <2>2, <3>1
    <3>3. aborted' <=> ledger' > Stop
      BY <2>4, <1>1 DEF Account
    <3>4. ASSUME ledger' > Stop PROVE ledger' <= Top + Slack' * Bill
      <4>1. Slack' = idle + 1
        BY <3>3, <3>4, <2>1 DEF Slack
      <4> QED BY <4>1, <3>2, <1>1, <1>5, <2>1, <2>2
    <3>5. ASSUME ~(ledger' > Stop) PROVE ledger' <= Top + Slack' * Bill
      <4>1. Slack' = 0
        BY <3>3, <3>5 DEF Slack
      <4> QED BY <4>1, <3>5, <1>1, <1>5, <2>2
    <3> QED BY <3>4, <3>5
  <2> QED BY <2>3, <2>4
<1> QED BY <1>3, <1>5, <1>8 DEF BooksInv

LEMMA BooksStep ==
  ASSUME WaveInv, WaveInv', WaveThreads, WaveThreads', BooksInv, [Next]_vars
  PROVE  BooksInv'
<1>0. job \in [Unit -> Jobs]
  BY DEF WaveInv, Shape
<1>1. CASE UNCHANGED vars
  <2>1. At("done")' = At("done") /\ Active' = Active
    BY <1>1 DEF vars, At, Active
  <2> QED BY <1>1, <2>1, NothingBooked DEF vars
<1>2. CASE Start
  <2>1. At("done")' = {}
    BY <1>2 DEF Start, At, Idle
  <2> QED BY <1>2, <2>1, NewWave DEF Start
<1>3. CASE Crash
  <2>1. At("done")' = {}
    BY <1>3 DEF Crash, At, Idle
  <2>2. ledger' \in {ledger, Torn} /\ counted' = counted
    BY <1>3 DEF Crash
  <2> QED BY <2>1, <2>2, NewWave
<1>4. ASSUME NEW u \in Unit, Work(u) PROVE BooksInv'
  <2>1. CASE Take(u)
    <3>1. /\ job[u].phase = "queued" /\ job'[u].phase # "done"
          /\ \A v \in Unit : v # u => job'[v] = job[v]
      BY <1>0, <2>1 DEF Take, Enter, End, Attempt, Idle
    <3>2. At("done")' = At("done")
      BY <3>1 DEF At
    <3>3. aborted => aborted' /\ Active' \subseteq Active
      <4>1. aborted => job'[u].phase = "skipped"
        BY <1>0, <2>1 DEF Take, End, Idle
      <4> QED BY <2>1, <3>1, <4>1 DEF Take, Active, Working
    <3> QED BY <2>1, <3>2, <3>3, NothingBooked DEF Take
  <2>2. CASE Answer(u) \/ Fatal(u) \/ TimesOut(u) \/ Again(u) \/ GiveUp(u) \/ Save(u)
    <3>1. /\ u \in Active /\ job[u].phase # "done" /\ job'[u].phase # "done"
          /\ \A v \in Unit : v # u => job'[v] = job[v]
          /\ ledger' = ledger /\ counted' = counted /\ (aborted => aborted')
      <4>1. CASE Answer(u)
        BY <1>0, <4>1 DEF Answer, Active, Working
      <4>2. CASE Fatal(u)
        BY <1>0, <4>2 DEF Fatal, MoveTo, Active, Working
      <4>3. CASE TimesOut(u)
        BY <1>0, <4>3 DEF TimesOut, End, Idle, Active, Working
      <4>4. CASE Again(u)
        BY <1>0, <4>4 DEF Again, Enter, End, Attempt, Idle, Active, Working
      <4>5. CASE GiveUp(u)
        BY <1>0, <4>5 DEF GiveUp, End, Idle, Active, Working
      <4>6. CASE Save(u)
        BY <1>0, <4>6 DEF Save, MoveTo, Active, Working
      <4> QED BY <2>2, <4>1, <4>2, <4>3, <4>4, <4>5, <4>6
    <3>2. At("done")' = At("done") /\ Active' \subseteq Active
      BY <3>1 DEF At, Active
    <3> QED BY <3>1, <3>2, NothingBooked
  <2>3. CASE Account(u) /\ ledger # Torn
    BY <2>3, AccountBooks
  <2>4. CASE Account(u) /\ ledger = Torn
    <3>1. ledger' = Torn /\ counted' = counted
      BY <2>4 DEF Account
    <3> QED BY <3>1 DEF BooksInv, LedgerCovers
  <2>5. CASE Collapse(u)
    <3>1. At("done")' = At("done") /\ Active' = Active
      BY <1>0, <2>5 DEF Collapse, At, Active, Working, Idle
    <3> QED BY <2>5, <3>1, NothingBooked DEF Collapse
  <2> QED BY <1>4, <2>1, <2>2, <2>3, <2>4, <2>5 DEF Work
<1> QED BY <1>1, <1>2, <1>3, <1>4 DEF Next

LEMMA BooksInit == Init => BooksInv
<1> SUFFICES ASSUME Init PROVE BooksInv
  OBVIOUS
<1>1. counted = {} /\ ledger = 0 /\ At("done") = {} /\ aborted = FALSE
  BY DEF Init, At, Idle
<1>2. IsFiniteSet(counted)
  BY <1>1, FS_EmptySet
<1>3. Total([n \in counted |-> Price(n[2])]) = 0
  BY <1>1, TotalOfNone
<1>4. LedgerCovers
  BY <1>1, <1>3 DEF LedgerCovers
<1>5. Spent = 0
  BY <1>1, TotalOfNone DEF Spent
<1>6. Stop <= Top /\ Top \in Int /\ Stop \in Nat
  <2>1. ledger - Spent = 0 /\ Stop \in Int /\ Stop \in Nat
    BY <1>1, <1>5, Bills
  <2>2. Top = Largest({Stop, ledger - Spent})
    BY DEF Top
  <2>3. Largest({Stop, 0}) \in {Stop, 0} /\ Stop <= Largest({Stop, 0})
    BY <2>1, LargestOfTwo
  <2> QED BY <2>1, <2>2, <2>3
<1>7. Slack * Bill = 0
  BY <1>1, Bills DEF Slack
<1>8. ledger <= Top + Slack * Bill
  BY <1>1, <1>6, <1>7
<1> QED BY <1>2, <1>4, <1>8 DEF BooksInv

-----------------------------------------------------------------------------
(* What it says.                                                           *)

(* Every state has the shape its fields say, attempts stay within the      *)
(* retries allowed, and no more units are at work than there are threads.  *)
THEOREM WaveTypeCorrect == Spec => []WaveTypeOK
<1>1. WaveInv /\ WaveThreads => WaveTypeOK
  BY DEF WaveInv, WaveThreads, Shape, WaveTypeOK, Jobs, Phases, WaveResult
<1>2. WaveInv /\ WaveInv' /\ WaveThreads /\ [Next]_vars => WaveThreads'
  BY ThreadsHold
<1> QED BY <1>1, <1>2, InitThreads, WaveInvHolds, PTL DEF Spec

(* A result on disk reports a session of exactly this attempt's turns,     *)
(* whatever attempts failed or died before it (phase_unit).                *)
THEOREM ResultsWhole == Spec => []ResultsAreWhole
<1>1. WaveInv => ResultsAreWhole
  BY DEF WaveInv
<1> QED BY <1>1, WaveInvHolds, PTL

(* In a namespace never run before, no unit is served a cache (H10).       *)
THEOREM FreshNamespacesAreCold == Spec => []NamespaceIsolates
<1>1. WaveInv => NamespaceIsolates
  BY DEF WaveInv
<1> QED BY <1>1, WaveInvHolds, PTL

(* A result can be believed: it is of one whole attempt, and cold if its   *)
(* namespace is new (phase_unit, phase_wave).                              *)
THEOREM ResultsTrue == Spec => []ResultsAreTrue
<1>1. WaveInv => ResultsAreTrue
  BY DEF WaveInv, ResultsAreTrue
<1> QED BY <1>1, WaveInvHolds, PTL

(* A wave that ends with a summary says what became of every unit it was   *)
(* asked for: an accounted result, a failure with its marker, a skip after *)
(* an abort (phase_wave).                                                  *)
THEOREM SummariesAreComplete == Spec => []SummaryIsComplete
<1>1. WaveInv => SummaryIsComplete
  <2> SUFFICES ASSUME WaveInv, Over, At("raised") = {}, NEW u \in Unit
               PROVE  \/ job[u].phase = "absent"
                      \/ job[u].phase = "done" /\ Whole(UnitName(u)) /\ UnitName(u) \in counted
                      \/ job[u].phase = "failed" /\ aborted /\ UnitName(u) \in marked
                      \/ job[u].phase = "skipped" /\ aborted
    BY DEF SummaryIsComplete
  <2>1. job[u].phase \in Phases
    BY DEF WaveInv, Shape, Jobs
  <2>2. job[u].phase \in Reported \cup {"absent"}
    BY <2>1 DEF Over, At, Phases
  <2> QED BY <2>2 DEF WaveInv, WaveTold, Reported
<1> QED BY <1>1, WaveInvHolds, PTL

\* What was accounted for is in the ledger, over all waves and deaths of the
\* process, and a wave takes it past the stop by the units in flight at most
\* (_ledger_add, phase_wave).
THEOREM BooksAreAlwaysSound == Spec => []BooksAreSound
<1>1. WaveInv /\ WaveThreads /\ BooksInv => BooksAreSound
  <2> SUFFICES ASSUME WaveInv, WaveThreads, BooksInv, ledger # Torn
               PROVE  ledger <= Top + Workers * Turns * MaxTok
    BY DEF BooksInv, BooksAreSound, OvershootIsBounded, Top
  <2>1. Slack \in Nat /\ Workers \in Nat /\ Slack <= Workers
    <3>1. Cardinality(Active) \in Nat /\ Workers \in Nat
      BY Sums, Bills
    <3> QED BY <3>1, SlackIsNat DEF Slack
  <2>2. Slack * Bill <= Workers * Bill /\ Slack * Bill \in Nat /\ Workers * Bill \in Nat
    BY <2>1, SlackCounts
  <2>3. Workers * Bill = Workers * Turns * MaxTok
    <3>1. Turns \in Nat /\ MaxTok \in Nat
      BY Kinds, Bills
    <3> QED BY <2>1, <3>1 DEF Bill
  <2>4. ledger \in Nat /\ Top \in Int
    BY Sums, TopIsInt
  <2>5. ledger <= Top + Slack * Bill
    BY DEF BooksInv
  <2> QED BY <2>2, <2>3, <2>4, <2>5
<1>2. WaveInv /\ WaveInv' /\ WaveThreads /\ [Next]_vars => WaveThreads'
  BY ThreadsHold
<1>3. WaveInv /\ WaveInv' /\ WaveThreads /\ WaveThreads' /\ BooksInv /\ [Next]_vars => BooksInv'
  BY BooksStep
<1> QED BY <1>1, <1>2, <1>3, InitThreads, BooksInit, WaveInvHolds, PTL DEF Spec
==============================================================================
