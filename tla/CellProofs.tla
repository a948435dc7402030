----------------------------- MODULE CellProofs -----------------------------
(* Proofs about the metered Codex cell (CodexCell): whatever attempts fail,   *)
(* processes die and events come late, a result is the account of one thread  *)
(* and a whole wave has booked every result.                                  *)
EXTENDS CodexCell, FiniteSetTheorems, TLAPS

Usage == [Keys -> Nat]
Row == [delta : Usage, calls : Usage, tools : Nat, agrees : BOOLEAN]
Rows == {rows \in Seq(Row) : \A i \in DOMAIN rows : rows[i].agrees => rows[i].calls = rows[i].delta}
Threads == [previous : Usage, metered : Usage, seen : Nat, rollout : Seq(CallUsages), late : Seq(CallUsages),
            rows : Rows]
Phases == {"absent", "queued", "turns", "mistake", "account", "done", "failed", "skipped", "raised"}
Jobs == [phase : Phases, attempt : 0 .. Retries + 1, new : BOOLEAN, thread : Threads]
Process == [running : BOOLEAN, force : BOOLEAN, aborted : BOOLEAN, whole : BOOLEAN, lost : BOOLEAN, waves : Nat]
Paths == (Units \X (1 .. Retries + 1)) \cup {Probe}

Deltas(rows) == [i \in DOMAIN rows |-> rows[i].delta]
Counted(rows) == [i \in DOMAIN rows |-> rows[i].calls]
Tools(rows) == [i \in DOMAIN rows |-> rows[i].tools]

(* What rows say of a thread: the differences make up what was metered, the   *)
(* events make up all but what is late, and the server saw their tool calls.  *)
Tell(rows, metered, late, observations) ==
    /\ SumUsage(Deltas(rows)) = metered
    /\ Plus(SumUsage(Counted(rows)), late) = metered
    /\ Total(Tools(rows)) = observations

(* An attempt under way has read its rollout to the end and has lost no turn. *)
Metered(u) ==
    LET t == job[u].thread
    IN /\ t.previous = t.metered /\ t.seen = Len(t.rollout)
       /\ Tell(t.rows, t.metered, SumUsage(t.late), observed[Path(u, job[u].attempt)])

OneThread(r) ==
    /\ r.rows \in Rows /\ Len(r.rows) = Turns /\ r.metered \in Usage /\ r.late \in Usage
    /\ r.stdout = r.metered
    /\ Tell(r.rows, r.metered, r.late, r.observations)

Shape ==
    /\ proc \in Process /\ job \in [Units -> Jobs] /\ DOMAIN results = Units
    /\ observed \in [Paths -> Nat] /\ ledger \in Nat
    /\ \A u \in Units : /\ job[u].phase = "queued" => job[u].attempt = 0
                        /\ job[u].phase = "turns" => job[u].attempt > 0
    /\ ~proc.running => Busy = {}
    /\ proc.running => ~proc.whole

Measured ==
    /\ \A u \in Units : job[u].phase = "turns" => Metered(u)
    /\ \A u \in Units : results[u] = None \/ OneThread(results[u])

(* While a wave runs, the book covers the units it is done with.              *)
Covered == [u \in Units |-> IF job[u].phase = "done" THEN PriceOf(u) ELSE 0]
Booking ==
    /\ proc.running => ledger >= Total(Covered)
    /\ BookCoversResults

CellInv == Shape /\ Measured /\ Booking
-----------------------------------------------------------------------------
(* A sum is the number of pairs of a summand and a place below its amount; a  *)
(* negative amount would have none.                                           *)
Pairs(f) == UNION {{i} \X (1 .. f[i]) : i \in DOMAIN f}

LEMMA PairsAre ==
  ASSUME NEW S, NEW f \in [S -> Int]
  PROVE  /\ Total(f) = Cardinality(Pairs(f))
         /\ \A e : e \in Pairs(f) <=> \E i \in S : e \in {i} \X (1 .. f[i])
BY DEF Total, Pairs

(* A sum over a finite set is a number.                                       *)
LEMMA SumIsNat ==
  ASSUME NEW S, IsFiniteSet(S), NEW f \in [S -> Int]
  PROVE  IsFiniteSet(Pairs(f)) /\ Total(f) \in Nat
<1> DEFINE part == [i \in S |-> {i} \X (1 .. f[i])]
           parts == {part[i] : i \in S}
<1>1. part \in Surjection(S, parts) BY DEF Surjection
<1>2. IsFiniteSet(parts)
  <2> HIDE DEF part, parts
  <2> QED BY <1>1, FS_Surjection, Zenon
<1>3. ASSUME NEW i \in S PROVE IsFiniteSet(part[i])
  <2>1. f[i] \in Int /\ 1 \in Int OBVIOUS
  <2>2. IsFiniteSet(1 .. f[i])
    <3> HIDE DEF part, parts
    <3> QED BY <2>1, FS_Interval
  <2>3. IsFiniteSet({i} \X (1 .. f[i])) BY <2>2, FS_Singleton, FS_Product
  <2> QED BY <2>3
<1>4. \A p \in parts : IsFiniteSet(p) BY <1>3
<1>5. IsFiniteSet(UNION parts)
  <2> HIDE DEF parts
  <2> QED BY <1>2, <1>4, FS_UNION
<1>6. UNION parts = Pairs(f) BY DEF Pairs
<1>7. Total(f) = Cardinality(Pairs(f)) BY PairsAre
<1> HIDE DEF parts
<1> QED BY <1>5, <1>6, <1>7, FS_CardinalityType

(* The sum over two disjoint sets is the sum of the sums.                     *)
LEMMA SumSplits ==
  ASSUME NEW A, NEW B, IsFiniteSet(A), IsFiniteSet(B), A \cap B = {}, NEW f \in [A \cup B -> Int]
  PROVE  Total(f) = Total(Restrict(f, A)) + Total(Restrict(f, B))
<1> DEFINE a == [i \in A |-> f[i]]
           b == [i \in B |-> f[i]]
<1>0. /\ a \in [A -> Int] /\ b \in [B -> Int]
      /\ (\A i \in A : f[i] = a[i]) /\ (\A i \in B : f[i] = b[i])
  OBVIOUS
<1> HIDE DEF a, b
<1>1. Pairs(f) = Pairs(a) \cup Pairs(b)
  <2>1. ASSUME NEW e PROVE e \in Pairs(f) <=> e \in Pairs(a) \/ e \in Pairs(b)
    <3>1. e \in Pairs(f) <=> \E i \in A \cup B : e \in {i} \X (1 .. f[i]) BY PairsAre
    <3>2. e \in Pairs(a) <=> \E i \in A : e \in {i} \X (1 .. a[i]) BY <1>0, PairsAre
    <3>3. e \in Pairs(b) <=> \E i \in B : e \in {i} \X (1 .. b[i]) BY <1>0, PairsAre
    <3> QED BY <1>0, <3>1, <3>2, <3>3
  <2> QED BY <2>1
<1>2. Pairs(a) \cap Pairs(b) = {}
  <2> SUFFICES ASSUME NEW e \in Pairs(a), e \in Pairs(b) PROVE FALSE OBVIOUS
  <2>1. PICK i \in A : e \in {i} \X (1 .. a[i]) BY <1>0, PairsAre
  <2>2. PICK j \in B : e \in {j} \X (1 .. b[j]) BY <1>0, PairsAre
  <2> QED BY <2>1, <2>2
<1>3. IsFiniteSet(Pairs(a)) /\ IsFiniteSet(Pairs(b)) BY <1>0, SumIsNat
<1>4. Cardinality(Pairs(a) \cup Pairs(b)) = Cardinality(Pairs(a)) + Cardinality(Pairs(b)) - Cardinality(Pairs(a) \cap Pairs(b))
  BY <1>3, FS_Union
<1>5. Cardinality(Pairs(a) \cap Pairs(b)) = 0 BY <1>2, FS_EmptySet
<1>6. Cardinality(Pairs(a)) \in Nat /\ Cardinality(Pairs(b)) \in Nat BY <1>3, FS_CardinalityType
<1>7. Total(f) = Cardinality(Pairs(f)) /\ Total(a) = Cardinality(Pairs(a)) /\ Total(b) = Cardinality(Pairs(b))
  BY <1>0, PairsAre
<1>8. Total(f) = Total(a) + Total(b) BY <1>1, <1>4, <1>5, <1>6, <1>7
<1> QED BY <1>8 DEF a, b, Restrict

LEMMA SumOfNone == ASSUME NEW f \in [{} -> Int] PROVE Total(f) = 0
<1>1. Pairs(f) = {} BY PairsAre
<1> QED BY <1>1, PairsAre, FS_EmptySet

LEMMA SumOfZeros == ASSUME NEW S, NEW f \in [S -> Int], \A i \in S : f[i] = 0 PROVE Total(f) = 0
<1>1. Pairs(f) = {}
  <2> SUFFICES ASSUME NEW e \in Pairs(f) PROVE FALSE OBVIOUS
  <2>1. PICK i \in S : e \in {i} \X (1 .. f[i]) BY PairsAre
  <2> QED BY <2>1
<1> QED BY <1>1, PairsAre, FS_EmptySet

(* The sum of one amount is that amount.                                      *)
LEMMA SumOfOne == ASSUME NEW x, NEW f \in [{x} -> Nat] PROVE Total(f) = f[x]
<1>1. f[x] \in Nat OBVIOUS
<1>2. Pairs(f) = {x} \X (1 .. f[x])
  <2>1. ASSUME NEW e PROVE e \in Pairs(f) <=> e \in {x} \X (1 .. f[x]) BY DEF Pairs
  <2> QED BY <2>1
<1>3. IsFiniteSet({x}) /\ Cardinality({x}) = 1 BY FS_Singleton
<1>4. IsFiniteSet(1 .. f[x]) /\ Cardinality(1 .. f[x]) = f[x] BY <1>1, FS_Interval
<1>5. Cardinality({x} \X (1 .. f[x])) = Cardinality({x}) * Cardinality(1 .. f[x]) BY <1>3, <1>4, FS_Product
<1>6. 1 * f[x] = f[x] BY <1>1
<1>7. f \in [{x} -> Int] OBVIOUS
<1>8. Total(f) = Cardinality(Pairs(f)) BY <1>7, PairsAre
<1> QED BY <1>2, <1>3, <1>4, <1>5, <1>6, <1>8

(* The same amounts under other names have the same sum.                      *)
LEMMA SumRenamed ==
  ASSUME NEW S, NEW T, IsFiniteSet(S), NEW h \in Bijection(S, T), NEW f \in [T -> Int], NEW g \in [S -> Int],
         \A i \in S : g[i] = f[h[i]]
  PROVE  Total(g) = Total(f)
<1> DEFINE to == [e \in Pairs(g) |-> <<h[e[1]], e[2]>>]
<1>0. /\ h \in [S -> T] /\ \A i, j \in S : h[i] = h[j] => i = j
      /\ \A j \in T : \E i \in S : h[i] = j
  BY DEF Bijection, Injection, Surjection, IsInjective
<1>1. ASSUME NEW e \in Pairs(g) PROVE to[e] \in Pairs(f) /\ e[1] \in S /\ e = <<e[1], e[2]>>
  <2>1. PICK i \in S : e \in {i} \X (1 .. g[i]) BY PairsAre
  <2>2. e[1] = i /\ e = <<i, e[2]>> /\ e[2] \in 1 .. f[h[i]] BY <2>1
  <2>3. to[e] \in {h[i]} \X (1 .. f[h[i]]) BY <2>2
  <2>4. h[i] \in T BY <1>0
  <2> HIDE DEF to
  <2> QED BY <2>2, <2>3, <2>4, PairsAre
<1>2. ASSUME NEW d \in Pairs(f) PROVE \E e \in Pairs(g) : to[e] = d
  <2>1. PICK j \in T : d \in {j} \X (1 .. f[j]) BY PairsAre
  <2>2. PICK i \in S : h[i] = j BY <1>0
  <2>3. d = <<j, d[2]>> /\ d[2] \in 1 .. g[i] BY <2>1, <2>2
  <2>4. <<i, d[2]>> \in {i} \X (1 .. g[i]) BY <2>3
  <2>5. <<i, d[2]>> \in Pairs(g) BY <2>4, PairsAre
  <2>6. to[<<i, d[2]>>] = d BY <2>2, <2>3, <2>5
  <2> QED BY <2>5, <2>6
<1>3. ASSUME NEW d \in Pairs(g), NEW e \in Pairs(g), to[d] = to[e] PROVE d = e
  <2>1. <<h[d[1]], d[2]>> = <<h[e[1]], e[2]>> BY <1>3
  <2>2. h[d[1]] = h[e[1]] /\ d[2] = e[2] BY <2>1
  <2>3. d[1] = e[1] BY <1>0, <1>1, <2>2
  <2> QED BY <1>1, <2>2, <2>3
<1>4. to \in Bijection(Pairs(g), Pairs(f))
  <2>1. to \in [Pairs(g) -> Pairs(f)] BY <1>1
  <2> HIDE DEF to
  <2>2. to \in Injection(Pairs(g), Pairs(f)) BY <1>3, <2>1 DEF Injection, IsInjective
  <2>3. to \in Surjection(Pairs(g), Pairs(f)) BY <1>2, <2>1 DEF Surjection
  <2> QED BY <2>2, <2>3 DEF Bijection
<1>5. IsFiniteSet(Pairs(g)) BY SumIsNat
<1>6. Cardinality(Pairs(g)) = Cardinality(Pairs(f))
  <2> HIDE DEF to
  <2>1. ExistsBijection(Pairs(g), Pairs(f)) BY <1>4 DEF ExistsBijection
  <2> QED BY <1>5, <2>1, FS_Bijection
<1> QED BY <1>6, PairsAre

(* Changing one summand changes the sum by the difference.                    *)
LEMMA SumChanges ==
  ASSUME NEW S, IsFiniteSet(S), NEW f \in [S -> Nat], NEW x \in S, NEW n \in Nat
  PROVE  Total([f EXCEPT ![x] = n]) = Total(f) - f[x] + n
<1> DEFINE r == [i \in S \ {x} |-> f[i]]
           g == [f EXCEPT ![x] = n]
           before == [i \in {x} |-> f[x]]
           after == [i \in {x} |-> n]
<1>1. IsFiniteSet(S \ {x}) /\ IsFiniteSet({x}) BY FS_RemoveElement, FS_Singleton
<1>2. S = (S \ {x}) \cup {x} /\ (S \ {x}) \cap {x} = {} OBVIOUS
<1>3. /\ f \in [(S \ {x}) \cup {x} -> Int] /\ g \in [(S \ {x}) \cup {x} -> Int]
      /\ r \in [S \ {x} -> Int] /\ before \in [{x} -> Nat] /\ after \in [{x} -> Nat]
      /\ before \in [{x} -> Int] /\ after \in [{x} -> Int]
  BY <1>2
<1>4. /\ \A i \in S \ {x} : f[i] = r[i] /\ g[i] = r[i]
      /\ \A i \in {x} : f[i] = before[i] /\ g[i] = after[i]
  OBVIOUS
<1>5. before[x] = f[x] /\ after[x] = n OBVIOUS
<1>9. \A i \in {x} : g[i] = after[i] OBVIOUS
<1> HIDE DEF r, g, before, after
<1>6. Total(f) = Total(r) + Total(before)
  <2>1. Restrict(f, S \ {x}) = r /\ Restrict(f, {x}) = before BY <1>3, <1>4 DEF Restrict
  <2>2. Total(f) = Total(Restrict(f, S \ {x})) + Total(Restrict(f, {x})) BY <1>1, <1>2, <1>3, SumSplits
  <2> QED BY <2>1, <2>2
<1>7. Total(g) = Total(r) + Total(after)
  <2>1. Restrict(g, S \ {x}) = r /\ Restrict(g, {x}) = after BY <1>3, <1>4, <1>9 DEF Restrict
  <2>2. Total(g) = Total(Restrict(g, S \ {x})) + Total(Restrict(g, {x})) BY <1>1, <1>2, <1>3, SumSplits
  <2> QED BY <2>1, <2>2
<1>8. Total(before) = f[x] /\ Total(after) = n BY <1>3, <1>5, SumOfOne
<1>10. Total(r) \in Nat BY <1>1, <1>3, SumIsNat
<1> QED BY <1>6, <1>7, <1>8, <1>10 DEF g
-----------------------------------------------------------------------------
(* The same of usages, which are summed key by key.                           *)
LEMMA Part ==
  ASSUME NEW S, NEW f \in [S -> Usage], NEW k \in Keys
  PROVE  /\ [i \in S |-> f[i][k]] \in [S -> Int] /\ [i \in S |-> f[i][k]] \in [S -> Nat]
         /\ SumUsage(f)[k] = Total([i \in S |-> f[i][k]])
<1>1. \A i \in S : f[i][k] \in Nat BY DEF Usage
<1>2. DOMAIN f = S OBVIOUS
<1> QED BY <1>1, <1>2 DEF SumUsage

LEMMA UsageIs ==
  ASSUME NEW S, IsFiniteSet(S), NEW f \in [S -> Usage]
  PROVE  SumUsage(f) \in Usage
<1>1. ASSUME NEW k \in Keys PROVE SumUsage(f)[k] \in Nat
  <2> DEFINE p == [i \in S |-> f[i][k]]
  <2>1. p \in [S -> Int] /\ SumUsage(f)[k] = Total(p) BY Part
  <2> HIDE DEF p
  <2> QED BY <2>1, SumIsNat
<1>2. SumUsage(f) = [k \in Keys |-> SumUsage(f)[k]] BY DEF SumUsage
<1> HIDE DEF SumUsage
<1> QED BY <1>1, <1>2 DEF Usage

LEMMA PlusIs == \A a, b \in Usage : Plus(a, b) \in Usage /\ \A k \in Keys : Plus(a, b)[k] = a[k] + b[k]
BY DEF Plus, Usage

LEMMA UsageSplits ==
  ASSUME NEW A, NEW B, IsFiniteSet(A), IsFiniteSet(B), A \cap B = {}, NEW f \in [A \cup B -> Usage]
  PROVE  SumUsage(f) = Plus(SumUsage(Restrict(f, A)), SumUsage(Restrict(f, B)))
<1> DEFINE a == Restrict(f, A)
           b == Restrict(f, B)
<1>0. a \in [A -> Usage] /\ b \in [B -> Usage] /\ (\A i \in A : a[i] = f[i]) /\ (\A i \in B : b[i] = f[i])
  BY DEF Restrict
<1>1. ASSUME NEW k \in Keys PROVE SumUsage(f)[k] = SumUsage(a)[k] + SumUsage(b)[k]
  <2> HIDE DEF a, b
  <2> DEFINE pf == [i \in A \cup B |-> f[i][k]]
             pa == [i \in A |-> a[i][k]]
             pb == [i \in B |-> b[i][k]]
  <2>1. pf \in [A \cup B -> Int] /\ SumUsage(f)[k] = Total(pf) BY Part
  <2>2. SumUsage(a)[k] = Total(pa) /\ SumUsage(b)[k] = Total(pb) BY <1>0, Part
  <2>3. pa = Restrict(pf, A) /\ pb = Restrict(pf, B) BY <1>0 DEF Restrict
  <2> HIDE DEF pf, pa, pb
  <2>4. Total(pf) = Total(Restrict(pf, A)) + Total(Restrict(pf, B)) BY <2>1, SumSplits
  <2> QED BY <2>1, <2>2, <2>3, <2>4
<1>2. SumUsage(f) = [k \in Keys |-> SumUsage(f)[k]] BY DEF SumUsage
<1> HIDE DEF SumUsage, a, b
<1>3. SumUsage(f) = Plus(SumUsage(a), SumUsage(b)) BY <1>1, <1>2 DEF Plus
<1> QED BY <1>3 DEF a, b

LEMMA UsageOfOne == ASSUME NEW x, NEW f \in [{x} -> Usage] PROVE SumUsage(f) = f[x]
<1>1. ASSUME NEW k \in Keys PROVE SumUsage(f)[k] = f[x][k]
  <2> DEFINE p == [i \in {x} |-> f[i][k]]
  <2>1. p \in [{x} -> Nat] /\ SumUsage(f)[k] = Total(p) BY Part
  <2>2. p[x] = f[x][k] OBVIOUS
  <2> HIDE DEF p
  <2> QED BY <2>1, <2>2, SumOfOne
<1>2. SumUsage(f) = [k \in Keys |-> SumUsage(f)[k]] BY DEF SumUsage
<1>3. f[x] = [k \in Keys |-> f[x][k]] BY DEF Usage
<1> HIDE DEF SumUsage
<1> QED BY <1>1, <1>2, <1>3

LEMMA UsageOfNone == ASSUME NEW f \in [{} -> Usage] PROVE SumUsage(f) = Zero
<1>1. ASSUME NEW k \in Keys PROVE SumUsage(f)[k] = 0
  <2> DEFINE p == [i \in {} |-> f[i][k]]
  <2>1. p \in [{} -> Int] /\ p = [i \in DOMAIN f |-> f[i][k]] OBVIOUS
  <2>2. SumUsage(f)[k] = Total(p) BY <2>1 DEF SumUsage
  <2> HIDE DEF p
  <2> QED BY <2>1, <2>2, SumOfNone
<1>2. SumUsage(f) = [k \in Keys |-> SumUsage(f)[k]] BY DEF SumUsage
<1> HIDE DEF SumUsage
<1> QED BY <1>1, <1>2 DEF Zero

LEMMA UsageRenamed ==
  ASSUME NEW S, NEW T, IsFiniteSet(S), NEW h \in Bijection(S, T), NEW f \in [T -> Usage], NEW g \in [S -> Usage],
         \A i \in S : g[i] = f[h[i]]
  PROVE  SumUsage(g) = SumUsage(f)
<1>1. ASSUME NEW k \in Keys PROVE SumUsage(g)[k] = SumUsage(f)[k]
  <2> DEFINE pf == [i \in T |-> f[i][k]]
             pg == [i \in S |-> g[i][k]]
  <2>1. pf \in [T -> Int] /\ SumUsage(f)[k] = Total(pf) BY Part
  <2>2. pg \in [S -> Int] /\ SumUsage(g)[k] = Total(pg) BY Part
  <2>3. \A i \in S : pg[i] = pf[h[i]] BY DEF Bijection, Surjection
  <2> HIDE DEF pf, pg
  <2> QED BY <2>1, <2>2, <2>3, SumRenamed
<1>2. SumUsage(f) = [k \in Keys |-> SumUsage(f)[k]] /\ SumUsage(g) = [k \in Keys |-> SumUsage(g)[k]] BY DEF SumUsage
<1> HIDE DEF SumUsage
<1> QED BY <1>1, <1>2

(* One more usage adds itself.                                                *)
LEMMA UsageGrows ==
  ASSUME NEW n \in Nat, NEW f \in [1 .. n -> Usage], NEW g \in [1 .. n + 1 -> Usage], \A i \in 1 .. n : g[i] = f[i]
  PROVE  SumUsage(g) = Plus(SumUsage(f), g[n + 1])
<1> DEFINE last == [i \in {n + 1} |-> g[n + 1]]
<1>1. IsFiniteSet(1 .. n) /\ IsFiniteSet({n + 1})
  <2>1. n \in Int /\ 1 \in Int OBVIOUS
  <2> QED BY <2>1, FS_Interval, FS_Singleton
<1>2. (1 .. n) \cap {n + 1} = {} /\ 1 .. n + 1 = (1 .. n) \cup {n + 1} /\ n + 1 \in 1 .. n + 1 OBVIOUS
<1>3. g \in [(1 .. n) \cup {n + 1} -> Usage] BY <1>2
<1>4. last \in [{n + 1} -> Usage] /\ last[n + 1] = g[n + 1] /\ \A i \in {n + 1} : g[i] = last[i] BY <1>2
<1> HIDE DEF last
<1>5. SumUsage(g) = Plus(SumUsage(f), SumUsage(last))
  <2>1. Restrict(g, 1 .. n) = f /\ Restrict(g, {n + 1}) = last BY <1>3, <1>4 DEF Restrict
  <2>2. SumUsage(g) = Plus(SumUsage(Restrict(g, 1 .. n)), SumUsage(Restrict(g, {n + 1})))
    BY <1>1, <1>2, <1>3, UsageSplits
  <2> QED BY <2>1, <2>2
<1>6. SumUsage(last) = last[n + 1] BY <1>4, UsageOfOne
<1> QED BY <1>4, <1>5, <1>6

LEMMA SumGrows ==
  ASSUME NEW n \in Nat, NEW f \in [1 .. n -> Nat], NEW g \in [1 .. n + 1 -> Nat], \A i \in 1 .. n : g[i] = f[i]
  PROVE  Total(g) = Total(f) + g[n + 1]
<1> DEFINE last == [i \in {n + 1} |-> g[n + 1]]
<1>1. IsFiniteSet(1 .. n) /\ IsFiniteSet({n + 1})
  <2>1. n \in Int /\ 1 \in Int OBVIOUS
  <2> QED BY <2>1, FS_Interval, FS_Singleton
<1>2. (1 .. n) \cap {n + 1} = {} /\ 1 .. n + 1 = (1 .. n) \cup {n + 1} /\ n + 1 \in 1 .. n + 1 OBVIOUS
<1>3. g \in [(1 .. n) \cup {n + 1} -> Int] /\ f \in [1 .. n -> Int] BY <1>2
<1>4. /\ last \in [{n + 1} -> Int] /\ last \in [{n + 1} -> Nat] /\ last[n + 1] = g[n + 1]
      /\ \A i \in {n + 1} : g[i] = last[i]
  BY <1>2
<1> HIDE DEF last
<1>5. Total(g) = Total(f) + Total(last)
  <2>1. Restrict(g, 1 .. n) = f /\ Restrict(g, {n + 1}) = last BY <1>3, <1>4 DEF Restrict
  <2>2. Total(g) = Total(Restrict(g, 1 .. n)) + Total(Restrict(g, {n + 1})) BY <1>1, <1>2, <1>3, SumSplits
  <2> QED BY <2>1, <2>2
<1>6. Total(last) = last[n + 1] BY <1>4, SumOfOne
<1> QED BY <1>4, <1>5, <1>6

(* The sum of two sequences of usages, one after the other.                   *)
LEMMA UsageJoins ==
  ASSUME NEW a \in Seq(Usage), NEW b \in Seq(Usage)
  PROVE  SumUsage(a \o b) = Plus(SumUsage(a), SumUsage(b))
<1> DEFINE m == Len(a)
           n == Len(b)
           B == m + 1 .. m + n
           shifted == [i \in B |-> b[i - m]]
           h == [i \in B |-> i - m]
<1>1. /\ m \in Nat /\ n \in Nat /\ a \in [1 .. m -> Usage] /\ b \in [1 .. n -> Usage]
      /\ a \o b \in [1 .. m + n -> Usage]
      /\ \A i \in 1 .. m : (a \o b)[i] = a[i]
      /\ \A i \in B : (a \o b)[i] = b[i - m] /\ i - m \in 1 .. n
  <2>1. m \in Nat /\ n \in Nat /\ a \in [1 .. m -> Usage] /\ b \in [1 .. n -> Usage] OBVIOUS
  <2>2. a \o b \in Seq(Usage) /\ Len(a \o b) = m + n OBVIOUS
  <2>3. \A i \in 1 .. m + n : (a \o b)[i] = IF i <= m THEN a[i] ELSE b[i - m] OBVIOUS
  <2>4. a \o b \in [1 .. m + n -> Usage]
    <3>1. \A s \in Seq(Usage) : s \in [1 .. Len(s) -> Usage] OBVIOUS
    <3> DEFINE j == a \o b
    <3>2. j \in Seq(Usage) /\ Len(j) = m + n BY <2>2
    <3> HIDE DEF j, m, n
    <3>3. j \in [1 .. m + n -> Usage] BY <3>1, <3>2
    <3> QED BY <3>3 DEF j
  <2> HIDE DEF m, n
  <2> QED BY <2>1, <2>3, <2>4
<1> HIDE DEF m, n
<1>2. 1 .. m + n = (1 .. m) \cup B /\ (1 .. m) \cap B = {} BY <1>1
<1>3. IsFiniteSet(1 .. m) /\ IsFiniteSet(B)
  <2>1. m + 1 \in Int /\ m + n \in Int /\ m \in Int /\ 1 \in Int BY <1>1
  <2> QED BY <2>1, FS_Interval
<1>4. shifted \in [B -> Usage] /\ \A i \in B : (a \o b)[i] = shifted[i] BY <1>1
<1>5. SumUsage(a \o b) = Plus(SumUsage(a), SumUsage(shifted))
  <2> DEFINE j == a \o b
  <2>1. j \in [(1 .. m) \cup B -> Usage] BY <1>1, <1>2
  <2>2. Restrict(j, 1 .. m) = a /\ Restrict(j, B) = shifted
    <3> HIDE DEF B
    <3> QED BY <1>1, <1>4 DEF Restrict
  <2> HIDE DEF B, j
  <2>3. SumUsage(j) = Plus(SumUsage(Restrict(j, 1 .. m)), SumUsage(Restrict(j, B))) BY <1>2, <1>3, <2>1, UsageSplits
  <2> HIDE DEF shifted
  <2>4. SumUsage(j) = Plus(SumUsage(a), SumUsage(shifted)) BY <2>2, <2>3
  <2> QED BY <2>4 DEF j
<1>6. h \in Bijection(B, 1 .. n)
  <2>1. h \in [B -> 1 .. n] BY <1>1
  <2>2. \A i, j \in B : h[i] = h[j] => i = j BY <1>1
  <2>3. \A j \in 1 .. n : m + j \in B /\ h[m + j] = j BY <1>1
  <2> HIDE DEF h, B
  <2>4. h \in Injection(B, 1 .. n) BY <2>1, <2>2 DEF Injection, IsInjective
  <2>5. h \in Surjection(B, 1 .. n) BY <2>1, <2>3 DEF Surjection
  <2> QED BY <2>4, <2>5 DEF Bijection
<1>7. SumUsage(shifted) = SumUsage(b)
  <2>1. \A i \in B : shifted[i] = b[h[i]] BY <1>1
  <2> HIDE DEF h, B, shifted
  <2> QED BY <1>1, <1>3, <1>4, <1>6, <2>1, UsageRenamed
<1> QED BY <1>5, <1>7
-----------------------------------------------------------------------------
(* What a turn adds to a thread.                                              *)
LEMMA CallsAreUsages == CallUsages \subseteq Usage
BY CodexAssumption DEF Usage, Keys

LEMMA SumOfCalls == \A s \in Seq(CallUsages) : s \in Seq(Usage) /\ SumUsage(s) \in Usage
<1> SUFFICES ASSUME NEW s \in Seq(CallUsages) PROVE s \in Seq(Usage) /\ SumUsage(s) \in Usage OBVIOUS
<1>1. s \in [1 .. Len(s) -> CallUsages] /\ Len(s) \in Nat OBVIOUS
<1>2. s \in Seq(Usage) /\ s \in [1 .. Len(s) -> Usage] BY CallsAreUsages
<1>3. IsFiniteSet(1 .. Len(s))
  <2>1. Len(s) \in Int /\ 1 \in Int BY <1>1
  <2> QED BY <2>1, FS_Interval
<1> QED BY <1>2, <1>3, UsageIs

(* A row appended adds its columns to the sums.                               *)
LEMMA RowAdded ==
  ASSUME NEW rows \in Rows, NEW row \in Row, row.agrees => row.calls = row.delta
  PROVE  LET more == Append(rows, row)
         IN /\ more \in Rows /\ Len(more) = Len(rows) + 1
            /\ SumUsage(Deltas(more)) = Plus(SumUsage(Deltas(rows)), row.delta)
            /\ SumUsage(Counted(more)) = Plus(SumUsage(Counted(rows)), row.calls)
            /\ Total(Tools(more)) = Total(Tools(rows)) + row.tools
<1> DEFINE more == Append(rows, row)
           n == Len(rows)
<1>1. rows \in Seq(Row) /\ n \in Nat /\ DOMAIN rows = 1 .. n /\ \A i \in 1 .. n : rows[i] \in Row BY DEF Rows
<1>2. /\ more \in Seq(Row) /\ Len(more) = n + 1 /\ DOMAIN more = 1 .. n + 1 /\ more[n + 1] = row
      /\ \A i \in 1 .. n : more[i] = rows[i]
  BY <1>1
<1>3. more \in Rows
  <2>1. \A i \in DOMAIN rows : rows[i].agrees => rows[i].calls = rows[i].delta BY DEF Rows
  <2>2. ASSUME NEW i \in DOMAIN more PROVE more[i].agrees => more[i].calls = more[i].delta
    <3> HIDE DEF more, n
    <3>1. CASE i \in 1 .. n BY <1>1, <1>2, <2>1, <3>1
    <3>2. CASE i = n + 1 BY <1>2, <3>2
    <3> QED BY <1>1, <1>2, <3>1, <3>2
  <2> HIDE DEF more
  <2> QED BY <1>2, <2>2 DEF Rows
<1> HIDE DEF more, n
<1>4. \A i \in 1 .. n + 1 : more[i] \in Row BY <1>1, <1>2
<1>5. SumUsage(Deltas(more)) = Plus(SumUsage(Deltas(rows)), row.delta)
  <2> DEFINE f == Deltas(rows)
             g == Deltas(more)
  <2>1. f \in [1 .. n -> Usage] BY <1>1 DEF Deltas, Row
  <2>2. g \in [1 .. n + 1 -> Usage] /\ g[n + 1] = row.delta BY <1>1, <1>2, <1>4 DEF Deltas, Row
  <2>3. \A i \in 1 .. n : g[i] = f[i] BY <1>1, <1>2 DEF Deltas
  <2> HIDE DEF f, g
  <2>4. SumUsage(g) = Plus(SumUsage(f), g[n + 1]) BY <1>1, <2>1, <2>2, <2>3, UsageGrows
  <2> QED BY <2>2, <2>4 DEF f, g
<1>6. SumUsage(Counted(more)) = Plus(SumUsage(Counted(rows)), row.calls)
  <2> DEFINE f == Counted(rows)
             g == Counted(more)
  <2>1. f \in [1 .. n -> Usage] BY <1>1 DEF Counted, Row
  <2>2. g \in [1 .. n + 1 -> Usage] /\ g[n + 1] = row.calls BY <1>1, <1>2, <1>4 DEF Counted, Row
  <2>3. \A i \in 1 .. n : g[i] = f[i] BY <1>1, <1>2 DEF Counted
  <2> HIDE DEF f, g
  <2>4. SumUsage(g) = Plus(SumUsage(f), g[n + 1]) BY <1>1, <2>1, <2>2, <2>3, UsageGrows
  <2> QED BY <2>2, <2>4 DEF f, g
<1>7. Total(Tools(more)) = Total(Tools(rows)) + row.tools
  <2> DEFINE f == Tools(rows)
             g == Tools(more)
  <2>1. f \in [1 .. n -> Nat] BY <1>1 DEF Tools, Row
  <2>2. g \in [1 .. n + 1 -> Nat] /\ g[n + 1] = row.tools BY <1>1, <1>2, <1>4 DEF Tools, Row
  <2>3. \A i \in 1 .. n : g[i] = f[i] BY <1>1, <1>2 DEF Tools
  <2> HIDE DEF f, g
  <2>4. Total(g) = Total(f) + g[n + 1] BY <1>1, <2>1, <2>2, <2>3, SumGrows
  <2> QED BY <2>2, <2>4 DEF f, g
<1>8. Len(more) = Len(rows) + 1 BY <1>2 DEF n
<1> QED BY <1>3, <1>5, <1>6, <1>7, <1>8 DEF more

(* An event that is late is set aside, not lost.                              *)
LEMMA LastAside ==
  ASSUME NEW s \in Seq(CallUsages), s # <<>>
  PROVE  /\ Front(s) \in Seq(CallUsages) /\ <<Last(s)>> \in Seq(CallUsages)
         /\ SumUsage(s) = Plus(SumUsage(Front(s)), SumUsage(<<Last(s)>>))
<1> DEFINE n == Len(s) - 1
           f == Front(s)
           e == <<Last(s)>>
<1>1. n \in Nat /\ Len(s) = n + 1 /\ s \in [1 .. n + 1 -> CallUsages] OBVIOUS
<1>2. /\ f \in Seq(CallUsages) /\ e \in Seq(CallUsages) /\ f \in [1 .. n -> CallUsages]
      /\ \A i \in 1 .. n : s[i] = f[i]
  <2>1. s[n + 1] \in CallUsages BY <1>1
  <2>2. e \in Seq(CallUsages) BY <1>1, <2>1 DEF Last
  <2>3. f = SubSeq(s, 1, n) BY DEF Front
  <2> HIDE DEF f, e
  <2>4. f \in Seq(CallUsages) /\ Len(f) = n /\ \A i \in 1 .. n : s[i] = f[i] BY <1>1, <2>3
  <2>5. \A x \in Seq(CallUsages) : x \in [1 .. Len(x) -> CallUsages] OBVIOUS
  <2> HIDE DEF n
  <2> QED BY <2>2, <2>4, <2>5
<1>3. e \in [{1} -> Usage] /\ e[1] = s[n + 1]
  <2>1. s[n + 1] \in Usage BY <1>1, CallsAreUsages
  <2> QED BY <1>1, <2>1 DEF Last
<1> HIDE DEF n, f, e
<1>4. s \in [1 .. n + 1 -> Usage] /\ f \in [1 .. n -> Usage] BY <1>1, <1>2, CallsAreUsages
<1>5. SumUsage(s) = Plus(SumUsage(f), s[n + 1]) BY <1>1, <1>2, <1>4, UsageGrows
<1>6. SumUsage(e) = e[1] BY <1>3, UsageOfOne
<1> QED BY <1>2, <1>3, <1>5, <1>6 DEF f, e

(* What was appended to a rollout since it was last read to its end.          *)
LEMMA EventsAreNew ==
  ASSUME NEW r \in Seq(CallUsages), NEW x \in Seq(CallUsages)
  PROVE  /\ r \o x \in Seq(CallUsages)
         /\ SubSeq(r \o x, Len(r) + 1, Len(r \o x)) = x
<1> DEFINE y == SubSeq(r \o x, Len(r) + 1, Len(r \o x))
<1>1. r \o x \in Seq(CallUsages) /\ Len(r \o x) = Len(r) + Len(x) OBVIOUS
<1>2. Len(y) = Len(x) /\ y \in Seq(CallUsages) BY <1>1
<1>3. \A i \in 1 .. Len(x) : y[i] = x[i] BY <1>1
<1> HIDE DEF y
<1>4. \A s \in Seq(CallUsages) : s = [i \in 1 .. Len(s) |-> s[i]] OBVIOUS
<1>5. y = x BY <1>2, <1>3, <1>4
<1> QED BY <1>1, <1>5 DEF y
(* A turn that was metered adds one row that tells its story, whatever part   *)
(* of its events the rollout shows by then.                                   *)
LEMMA TurnTells ==
  ASSUME NEW t \in Threads, NEW obs \in Nat, t.previous = t.metered, t.seen = Len(t.rollout),
         Tell(t.rows, t.metered, SumUsage(t.late), obs),
         NEW calls \in Seq(CallUsages), NEW x \in Seq(CallUsages), NEW later \in Seq(CallUsages),
         Plus(SumUsage(x), SumUsage(later)) = Plus(SumUsage(t.late), SumUsage(calls)),
         NEW tools \in Nat, NEW metered, metered = Plus(t.metered, SumUsage(calls)), NEW row,
         row = TurnRow(metered, t.previous, SubSeq(t.rollout \o x, t.seen + 1, Len(t.rollout \o x)), tools)
  PROVE  /\ metered \in Usage /\ t.rollout \o x \in Seq(CallUsages) /\ Len(t.rollout \o x) \in Nat
         /\ Append(t.rows, row) \in Rows
         /\ Tell(Append(t.rows, row), metered, SumUsage(later), obs + tools)
<1>1. /\ t.previous \in Usage /\ t.metered \in Usage /\ t.rollout \in Seq(CallUsages)
      /\ t.late \in Seq(CallUsages) /\ t.rows \in Rows
  BY DEF Threads
<1>2. /\ SumUsage(calls) \in Usage /\ SumUsage(x) \in Usage /\ SumUsage(later) \in Usage
      /\ SumUsage(t.late) \in Usage
  BY <1>1, SumOfCalls
<1>3. metered \in Usage /\ \A k \in Keys : metered[k] = t.metered[k] + SumUsage(calls)[k] BY <1>1, <1>2, PlusIs
<1>4. /\ t.rollout \o x \in Seq(CallUsages) /\ Len(t.rollout \o x) \in Nat
      /\ SubSeq(t.rollout \o x, t.seen + 1, Len(t.rollout \o x)) = x
  <2> DEFINE r == t.rollout \o x
  <2>1. r \in Seq(CallUsages) /\ SubSeq(r, Len(t.rollout) + 1, Len(r)) = x BY <1>1, EventsAreNew
  <2> HIDE DEF r
  <2>2. Len(r) \in Nat BY <2>1
  <2>3. SubSeq(r, t.seen + 1, Len(r)) = x BY <2>1
  <2> QED BY <2>1, <2>2, <2>3 DEF r
<1>5. Delta(metered, t.previous) = SumUsage(calls)
  <2> DEFINE s == SumUsage(calls)
  <2>0. s \in Usage /\ \A k \in Keys : metered[k] = t.metered[k] + s[k] BY <1>2, <1>3
  <2> HIDE DEF s
  <2>1. \A k \in Keys : metered[k] - t.previous[k] = s[k] BY <1>1, <2>0 DEF Usage
  <2>2. s = [k \in Keys |-> s[k]] BY <2>0 DEF Usage
  <2>3. Delta(metered, t.previous) = s BY <2>1, <2>2 DEF Delta
  <2> QED BY <2>3 DEF s
<1>6. row = TurnRow(metered, t.previous, x, tools) BY <1>4
<1>7. /\ row.delta = SumUsage(calls) /\ row.calls = SumUsage(x) /\ row.tools = tools
      /\ row.agrees = (x # <<>> /\ SumUsage(x) = SumUsage(calls))
  BY <1>5, <1>6 DEF TurnRow
<1>8. row \in Row
  <2> DEFINE s == SumUsage(calls)
             e == SumUsage(x)
             agree == x # <<>> /\ e = s
  <2>1. agree \in BOOLEAN /\ s \in Usage /\ e \in Usage BY <1>2
  <2>2. row = [delta |-> s, calls |-> e, tools |-> tools, agrees |-> agree] BY <1>5, <1>6 DEF TurnRow
  <2> HIDE DEF s, e, agree
  <2> QED BY <2>1, <2>2 DEF Row
<1>9. row.agrees => row.calls = row.delta BY <1>7
<1> DEFINE more == Append(t.rows, row)
<1>10. /\ more \in Rows
       /\ SumUsage(Deltas(more)) = Plus(SumUsage(Deltas(t.rows)), row.delta)
       /\ SumUsage(Counted(more)) = Plus(SumUsage(Counted(t.rows)), row.calls)
       /\ Total(Tools(more)) = Total(Tools(t.rows)) + row.tools
  BY <1>1, <1>8, <1>9, RowAdded
<1>11. SumUsage(Counted(t.rows)) \in Usage
  <2> DEFINE f == Counted(t.rows)
  <2>1. t.rows \in Seq(Row) /\ DOMAIN t.rows = 1 .. Len(t.rows) /\ Len(t.rows) \in Int BY <1>1 DEF Rows
  <2>2. f \in [1 .. Len(t.rows) -> Usage]
    <3>1. \A i \in 1 .. Len(t.rows) : t.rows[i] \in Row BY <2>1
    <3>2. \A i \in 1 .. Len(t.rows) : t.rows[i].calls \in Usage BY <3>1 DEF Row
    <3> QED BY <2>1, <3>2 DEF Counted
  <2>3. IsFiniteSet(1 .. Len(t.rows))
    <3>1. 1 \in Int OBVIOUS
    <3> QED BY <2>1, <3>1, FS_Interval
  <2> HIDE DEF f
  <2>4. SumUsage(f) \in Usage BY <2>2, <2>3, UsageIs
  <2> QED BY <2>4 DEF f
<1> HIDE DEF more
<1>12. SumUsage(Deltas(more)) = metered BY <1>7, <1>10 DEF Tell
<1>13. Plus(SumUsage(Counted(more)), SumUsage(later)) = metered
  <2> DEFINE c == SumUsage(Counted(t.rows))
             s == SumUsage(calls)
             e == SumUsage(x)
             l == SumUsage(later)
             before == SumUsage(t.late)
  <2>1. c \in Usage /\ s \in Usage /\ e \in Usage /\ l \in Usage /\ before \in Usage BY <1>2, <1>11
  <2>2. Plus(c, before) = t.metered /\ Plus(e, l) = Plus(before, s) BY DEF Tell
  <2>3. SumUsage(Counted(more)) = Plus(c, e) BY <1>7, <1>10
  <2>4. metered = Plus(t.metered, s) OBVIOUS
  <2> HIDE DEF c, s, e, l, before
  <2>5. /\ Plus(c, e) \in Usage
        /\ \A k \in Keys : /\ Plus(c, e)[k] = c[k] + e[k] /\ Plus(e, l)[k] = e[k] + l[k]
                           /\ Plus(before, s)[k] = before[k] + s[k] /\ Plus(c, before)[k] = c[k] + before[k]
    BY <2>1, PlusIs
  <2>6. Plus(Plus(c, e), l) \in Usage /\ \A k \in Keys : Plus(Plus(c, e), l)[k] = c[k] + e[k] + l[k]
    BY <2>1, <2>5, PlusIs
  <2>7. ASSUME NEW k \in Keys PROVE Plus(Plus(c, e), l)[k] = metered[k]
    <3>1. /\ c[k] \in Nat /\ e[k] \in Nat /\ l[k] \in Nat /\ before[k] \in Nat /\ s[k] \in Nat
          /\ t.metered[k] = c[k] + before[k] /\ e[k] + l[k] = before[k] + s[k]
      BY <2>1, <2>2, <2>5 DEF Usage
    <3>2. metered[k] = t.metered[k] + s[k] BY <1>1, <2>1, <2>4, PlusIs
    <3>3. Plus(Plus(c, e), l)[k] = c[k] + e[k] + l[k] BY <2>6
    <3> DEFINE ck == c[k]
               ek == e[k]
               lk == l[k]
               bk == before[k]
               sk == s[k]
               mk == t.metered[k]
    <3>4. /\ ck \in Nat /\ ek \in Nat /\ lk \in Nat /\ bk \in Nat /\ sk \in Nat
          /\ mk = ck + bk /\ ek + lk = bk + sk
      BY <3>1
    <3>5. metered[k] = mk + sk /\ Plus(Plus(c, e), l)[k] = ck + ek + lk BY <3>2, <3>3
    <3> HIDE DEF ck, ek, lk, bk, sk, mk
    <3>6. ck + ek + lk = mk + sk BY <3>4
    <3> QED BY <3>5, <3>6
  <2>8. Plus(Plus(c, e), l) = metered BY <1>3, <2>6, <2>7 DEF Usage
  <2> QED BY <2>3, <2>8 DEF l
<1>14. Total(Tools(more)) = obs + tools BY <1>7, <1>10 DEF Tell
<1> QED BY <1>3, <1>4, <1>10, <1>12, <1>13, <1>14 DEF more, Tell
-----------------------------------------------------------------------------
(* The states a cell starts from and comes back to.                           *)
LEMMA NothingHappened == /\ Idle \in Jobs /\ NoThread \in Threads
                         /\ Tell(NoThread.rows, NoThread.metered, SumUsage(NoThread.late), 0)
<1>1. Zero \in Usage BY DEF Zero, Usage
<1>2. <<>> \in Rows /\ <<>> \in Seq(CallUsages) /\ DOMAIN <<>> = {} /\ 0 \in Nat BY DEF Rows
<1>3. NoThread \in Threads BY <1>1, <1>2 DEF NoThread, Threads
<1>4. 0 \in 0 .. Retries + 1 /\ TRUE \in BOOLEAN /\ "absent" \in Phases BY CodexAssumption DEF Phases
<1>5. Idle \in Jobs
  <2> HIDE DEF NoThread
  <2> QED BY <1>3, <1>4 DEF Idle, Jobs
<1> DEFINE none == <<>>
<1>6. Deltas(none) \in [{} -> Usage] /\ Counted(none) \in [{} -> Usage] /\ Tools(none) \in [{} -> Int] /\ none \in [{} -> Usage]
  BY <1>2 DEF Deltas, Counted, Tools
<1>7. NoThread.rows = none /\ NoThread.metered = Zero /\ NoThread.late = none BY DEF NoThread
<1> HIDE DEF none
<1>8. SumUsage(Deltas(none)) = Zero /\ SumUsage(Counted(none)) = Zero /\ SumUsage(none) = Zero BY <1>6, UsageOfNone
<1>9. Total(Tools(none)) = 0 BY <1>6, SumOfNone
<1>10. Plus(Zero, Zero) = Zero BY DEF Plus, Zero
<1>11. Tell(none, Zero, Zero, 0) BY <1>8, <1>9, <1>10 DEF Tell
<1> QED BY <1>3, <1>5, <1>7, <1>8, <1>11

(* A job whose phase changes stays a job.                                     *)
LEMMA Rephased ==
  \A j \in Jobs, p \in Phases :
    LET k == [j EXCEPT !.phase = p]
    IN k \in Jobs /\ k.phase = p /\ k.attempt = j.attempt /\ k.thread = j.thread
BY DEF Jobs

LEMMA Reentered ==
  \A j \in Jobs, p \in Phases, a \in 0 .. Retries + 1 :
    LET k == [j EXCEPT !.phase = p, !.attempt = a]
    IN k \in Jobs /\ k.phase = p
BY DEF Jobs

(* Every result has a price, and so has what the book covers a sum.           *)
LEMMA PricesAre ==
  ASSUME CellInv
  PROVE  /\ \A u \in Units : PriceOf(u) \in Nat
         /\ Covered \in [Units -> Nat] /\ IsFiniteSet(Units) /\ Total(Covered) \in Nat
<1>1. ASSUME NEW u \in Units PROVE PriceOf(u) \in Nat
  <2> DEFINE rows == results[u].rows
             f == [i \in DOMAIN rows |-> Priced(rows[i].delta)]
  <2>1. rows \in Seq(Row)
    <3>1. CASE results[u] = None BY <3>1 DEF None
    <3>2. CASE OneThread(results[u]) BY <3>2 DEF OneThread, Rows
    <3> QED BY <3>1, <3>2 DEF CellInv, Measured
  <2> HIDE DEF rows
  <2>2. DOMAIN rows = 1 .. Len(rows) /\ Len(rows) \in Nat /\ \A i \in DOMAIN rows : rows[i] \in Row BY <2>1
  <2>3. IsFiniteSet(DOMAIN rows)
    <3>1. Len(rows) \in Int /\ 1 \in Int BY <2>2
    <3> QED BY <2>2, <3>1, FS_Interval
  <2>4. \A d \in Usage : Priced(d) \in Int BY DEF Usage, Keys, Priced, Fresh
  <2>5. f \in [DOMAIN rows -> Int]
    <3>1. \A i \in DOMAIN rows : rows[i].delta \in Usage BY <2>2 DEF Row
    <3> QED BY <2>4, <3>1
  <2> HIDE DEF f
  <2>6. Total(f) \in Nat BY <2>3, <2>5, SumIsNat
  <2> QED BY <2>6 DEF f, rows, PriceOf
<1>2. Covered \in [Units -> Nat] BY <1>1 DEF Covered
<1>3. IsFiniteSet(Units) BY CodexAssumption
<1> HIDE DEF Covered
<1>4. Covered \in [Units -> Int] BY <1>2
<1> QED BY <1>1, <1>2, <1>3, <1>4, SumIsNat

(* One unit's step while a wave runs disturbs nothing of the others.          *)
LEMMA UnitSteps ==
  ASSUME CellInv, NEW u \in Units, proc.running, proc' \in Process, proc'.running, ~proc'.whole,
         job' \in [Units -> Jobs], \A v \in Units \ {u} : job'[v] = job[v],
         DOMAIN results' = Units, \A v \in Units \ {u} : results'[v] = results[v],
         observed' \in [Paths -> Nat],
         \A v \in Units \ {u} :
           job[v].phase = "turns" => observed'[Path(v, job[v].attempt)] = observed[Path(v, job[v].attempt)],
         job'[u].phase # "queued",
         job'[u].phase = "turns" => job'[u].attempt > 0 /\ Metered(u)',
         results'[u] = None \/ OneThread(results'[u]),
         ledger' \in Nat, ledger' >= Total(Covered')
  PROVE  CellInv'
<1>1. \A v \in Units : /\ job'[v].phase = "queued" => job'[v].attempt = 0
                       /\ job'[v].phase = "turns" => job'[v].attempt > 0
  <2> SUFFICES ASSUME NEW v \in Units
               PROVE  /\ job'[v].phase = "queued" => job'[v].attempt = 0
                      /\ job'[v].phase = "turns" => job'[v].attempt > 0
    OBVIOUS
  <2>1. CASE v = u BY <2>1
  <2>2. CASE v # u BY <2>2 DEF CellInv, Shape
  <2> QED BY <2>1, <2>2
<1>2. Shape' BY <1>1 DEF Shape
<1>3. ASSUME NEW v \in Units, job'[v].phase = "turns" PROVE Metered(v)'
  <2>1. CASE v = u BY <1>3, <2>1
  <2>2. CASE v # u
    <3>1. job'[v] = job[v] /\ job[v].phase = "turns" /\ Metered(v) BY <1>3, <2>2 DEF CellInv, Measured
    <3>2. observed'[Path(v, job'[v].attempt)] = observed[Path(v, job[v].attempt)] BY <2>2, <3>1
    <3> QED BY <3>1, <3>2 DEF Metered
  <2> QED BY <2>1, <2>2
<1>4. \A v \in Units : results'[v] = None \/ OneThread(results'[v]) BY DEF CellInv, Measured
<1>5. Measured' BY <1>3, <1>4 DEF Measured
<1>6. Booking' BY DEF Booking, BookCoversResults
<1> QED BY <1>2, <1>5, <1>6 DEF CellInv

(* While no unit is newly done, the book covers what it covered.              *)
LEMMA CoveredKept ==
  ASSUME NEW u \in Units, \A v \in Units \ {u} : job'[v] = job[v] /\ results'[v] = results[v],
         job[u].phase # "done", job'[u].phase # "done"
  PROVE  Covered' = Covered
<1>1. \A v \in Units : job[v].phase = "done" => PriceOf(v)' = PriceOf(v) /\ job'[v].phase = "done" BY DEF PriceOf
<1>2. \A v \in Units : job'[v].phase = "done" => job[v].phase = "done" OBVIOUS
<1> QED BY <1>1, <1>2 DEF Covered
-----------------------------------------------------------------------------
(* Prepare and AuthProof: only files of paths under which nothing runs.       *)
LEMMA OutsideKeeps ==
  ASSUME CellInv, ~proc.running, NEW paths, Materialize(paths), UNCHANGED <<proc, job, results, ledger>>
  PROVE  CellInv'
<1>1. observed' \in [Paths -> Nat] BY DEF CellInv, Shape, Materialize
<1>2. Busy' = Busy /\ Busy = {} BY DEF CellInv, Shape, Busy
<1>3. \A u \in Units : job'[u].phase # "turns" BY <1>2 DEF Busy
<1>4. Shape' BY <1>1, <1>2 DEF CellInv, Shape
<1>5. Measured' BY <1>3 DEF CellInv, Measured
<1>6. BookCoversResults' = BookCoversResults /\ Covered' = Covered BY DEF BookCoversResults, PriceOf, Covered
<1>7. Booking' BY <1>6 DEF CellInv, Booking
<1> QED BY <1>4, <1>5, <1>7 DEF CellInv

(* Start: a wave begins with nothing done, so its book owes nothing yet.      *)
LEMMA StartKeeps ==
  ASSUME CellInv, NEW force \in BOOLEAN, NEW only, Start(force, only) PROVE CellInv'
<1> USE DEF Start
<1>1. proc' \in Process /\ proc'.running /\ ~proc'.whole
  <2>1. proc.waves + 1 \in Nat BY DEF CellInv, Shape, Process
  <2> QED BY <2>1 DEF Process
<1>2. ASSUME NEW u \in Units
      PROVE  job'[u] \in Jobs /\ job'[u].phase \in {"absent", "queued"} /\ job'[u].attempt = 0
  <2>1. "queued" \in Phases /\ Idle.attempt = 0 /\ Idle.phase = "absent" BY DEF Phases, Idle
  <2>2. LET k == [Idle EXCEPT !.phase = "queued"] IN k \in Jobs /\ k.phase = "queued" /\ k.attempt = 0
    BY <2>1, NothingHappened, Rephased
  <2>3. CASE u \in only
    <3>1. job'[u] = [Idle EXCEPT !.phase = "queued"] BY <2>3
    <3> QED BY <2>2, <3>1
  <2>4. CASE u \notin only
    <3>1. job'[u] = Idle BY <2>4
    <3> QED BY <2>1, <3>1, NothingHappened
  <2> QED BY <2>3, <2>4
<1>3. job' \in [Units -> Jobs]
  <2>1. job' = [u \in Units |-> job'[u]] OBVIOUS
  <2> QED BY <1>2, <2>1
<1>4. Shape' BY <1>1, <1>2, <1>3 DEF CellInv, Shape
<1>5. Measured' BY <1>2 DEF CellInv, Measured
<1>6. Total(Covered') = 0
  <2> DEFINE c == [u \in Units |-> 0]
  <2>1. Covered' = c BY <1>2 DEF Covered
  <2>2. c \in [Units -> Int] /\ \A u \in Units : c[u] = 0 OBVIOUS
  <2> HIDE DEF c
  <2> QED BY <2>1, <2>2, SumOfZeros
<1>7. Booking' BY <1>1, <1>6 DEF CellInv, Shape, Booking, BookCoversResults
<1> QED BY <1>4, <1>5, <1>7 DEF CellInv

(* Enter: a result on disk is taken as it is; another attempt begins with     *)
(* nothing metered and nothing observed under its path.                       *)
LEMMA EnterKeeps ==
  ASSUME CellInv, NEW u \in Units, proc.running, job[u].phase \in {"queued", "mistake"},
         job[u].attempt <= Retries, Enter(u), UNCHANGED <<proc, results, ledger>>
  PROVE  CellInv'
<1> DEFINE attempt == job[u].attempt + 1
<1>1. job \in [Units -> Jobs] /\ job[u] \in Jobs /\ observed \in [Paths -> Nat] /\ proc \in Process /\ ~proc.whole
  BY DEF CellInv, Shape
<1>2. attempt \in 1 .. Retries + 1 /\ attempt \in 0 .. Retries + 1 /\ attempt > 0
  <2>1. job[u].attempt \in 0 .. Retries + 1 /\ Retries \in Nat BY <1>1, CodexAssumption DEF Jobs
  <2> QED BY <2>1
<1>3. Path(u, attempt) \in Paths BY <1>2 DEF Path, Paths
<1>4. /\ job' \in [Units -> Jobs] /\ \A v \in Units \ {u} : job'[v] = job[v]
      /\ job'[u].phase \in {"account", "turns", "raised"}
      /\ observed' \in [Paths -> Nat]
      /\ \A v \in Units \ {u} :
           job[v].phase = "turns" => observed'[Path(v, job[v].attempt)] = observed[Path(v, job[v].attempt)]
      /\ job'[u].phase = "turns" => job'[u].attempt > 0 /\ Metered(u)'
  <2>1. CASE results[u] # None /\ ~proc.force
    <3> DEFINE j == [job[u] EXCEPT !.phase = "account", !.attempt = attempt]
    <3>1. job' = [job EXCEPT ![u] = j] /\ observed' = observed BY <2>1 DEF Enter, SetJob
    <3>2. "account" \in Phases BY DEF Phases
    <3> HIDE DEF attempt
    <3>4. j \in Jobs /\ j.phase = "account" BY <1>1, <1>2, <3>2, Reentered
    <3> HIDE DEF j
    <3> QED BY <1>1, <3>1, <3>4
  <2>2. CASE ~(results[u] # None /\ ~proc.force)
    <3>1. PICK phase \in {"turns", "raised"} :
            job' = [job EXCEPT ![u] = [phase |-> phase, attempt |-> attempt, thread |-> NoThread,
                                       new |-> Path(u, attempt) \notin driven]]
      BY <2>2 DEF Enter, SetJob
    <3>2. Materialize({Path(u, attempt)}) BY <2>2 DEF Enter
    <3> HIDE DEF attempt
    <3> DEFINE fresh == Path(u, attempt) \notin driven
               j == [phase |-> phase, attempt |-> attempt, thread |-> NoThread, new |-> fresh]
    <3>3. fresh \in BOOLEAN /\ phase \in Phases BY DEF Phases
    <3>4. job' = [job EXCEPT ![u] = j] BY <3>1
    <3> HIDE DEF fresh
    <3>5. j \in Jobs BY <1>2, <3>3, NothingHappened DEF Jobs
    <3>6. j.phase = phase /\ j.attempt = attempt /\ j.thread = NoThread OBVIOUS
    <3> HIDE DEF j
    <3>7. job' \in [Units -> Jobs] /\ job'[u] = j /\ \A v \in Units \ {u} : job'[v] = job[v] BY <1>1, <3>4, <3>5
    <3>8. observed' \in [Paths -> Nat] /\ observed'[Path(u, attempt)] = 0 BY <1>1, <1>3, <3>2 DEF Materialize
    <3>9. ASSUME NEW v \in Units \ {u}, job[v].phase = "turns"
          PROVE  observed'[Path(v, job[v].attempt)] = observed[Path(v, job[v].attempt)]
      <4>1. Path(v, job[v].attempt) # Path(u, attempt) BY DEF Path
      <4>2. \A p \in Paths : p # Path(u, attempt) => observed'[p] = observed[p] BY <1>1, <3>2 DEF Materialize
      <4>3. Path(v, job[v].attempt) \in Paths
        <5>1. job[v] \in Jobs /\ job[v].attempt > 0 BY <3>9 DEF CellInv, Shape
        <5>2. job[v].attempt \in 1 .. Retries + 1 BY <5>1, CodexAssumption DEF Jobs
        <5> QED BY <5>2 DEF Path, Paths
      <4> QED BY <4>1, <4>2, <4>3
    <3>10. Metered(u)'
      <4>1. job'[u].thread = NoThread /\ observed'[Path(u, job'[u].attempt)] = 0 BY <3>6, <3>7, <3>8
      <4>2. NoThread.previous = NoThread.metered /\ NoThread.seen = Len(NoThread.rollout) BY DEF NoThread
      <4> QED BY <4>1, <4>2, NothingHappened DEF Metered
    <3> QED BY <1>2, <3>6, <3>7, <3>8, <3>9, <3>10
  <2> QED BY <2>1, <2>2
<1>5. Covered' = Covered BY <1>4, CoveredKept
<1>6. results[u] = None \/ OneThread(results[u]) BY DEF CellInv, Measured
<1>7. DOMAIN results = Units /\ ledger \in Nat /\ ledger >= Total(Covered) BY DEF CellInv, Shape, Booking
<1> HIDE DEF attempt
<1> QED BY <1>1, <1>4, <1>5, <1>6, <1>7, UnitSteps
(* A unit only moved to another phase, at rest or refused.                    *)
LEMMA MoveKeeps ==
  ASSUME CellInv, NEW u \in Units, NEW phase \in Phases \ {"queued", "turns", "done"}, MoveTo(u, phase),
         proc.running, proc' \in Process, proc'.running, ~proc'.whole, job[u].phase # "done",
         UNCHANGED <<results, ledger>>, observed' \in [Paths -> Nat],
         \A v \in Units \ {u} :
           job[v].phase = "turns" => observed'[Path(v, job[v].attempt)] = observed[Path(v, job[v].attempt)]
  PROVE  CellInv'
<1>1. job \in [Units -> Jobs] /\ job[u] \in Jobs BY DEF CellInv, Shape
<1>2. /\ job' \in [Units -> Jobs] /\ job'[u].phase = phase
      /\ \A v \in Units \ {u} : job'[v] = job[v]
  <2> DEFINE j == [job[u] EXCEPT !.phase = phase]
  <2>1. j \in Jobs /\ j.phase = phase BY <1>1, Rephased
  <2>2. job' = [job EXCEPT ![u] = j] BY <1>1 DEF MoveTo
  <2> HIDE DEF j
  <2> QED BY <1>1, <2>1, <2>2
<1>3. Covered' = Covered BY <1>2, CoveredKept
<1>4. results[u] = None \/ OneThread(results[u]) BY DEF CellInv, Measured
<1>5. DOMAIN results = Units /\ ledger \in Nat /\ ledger >= Total(Covered) BY DEF CellInv, Shape, Booking
<1> QED BY <1>2, <1>3, <1>4, <1>5, UnitSteps

LEMMA TakeKeeps == ASSUME CellInv, NEW u \in Units, Take(u) PROVE CellInv'
<1>1. /\ proc.running /\ job[u].phase = "queued" /\ UNCHANGED <<proc, results, ledger>>
      /\ (MoveTo(u, "skipped") /\ UNCHANGED observed) \/ Enter(u)
  BY DEF Take
<1>2. /\ proc \in Process /\ ~proc.whole /\ observed \in [Paths -> Nat] /\ job[u].attempt = 0
  BY <1>1 DEF CellInv, Shape
<1>3. CASE MoveTo(u, "skipped") /\ UNCHANGED observed
  <2>1. "skipped" \in Phases \ {"queued", "turns", "done"} BY DEF Phases
  <2> QED BY <1>1, <1>2, <1>3, <2>1, MoveKeeps
<1>4. CASE Enter(u)
  <2>1. job[u].attempt <= Retries BY <1>2, CodexAssumption
  <2> QED BY <1>1, <1>4, <2>1, EnterKeeps
<1> QED BY <1>1, <1>3, <1>4

LEMMA AgainKeeps == ASSUME CellInv, NEW u \in Units, Again(u) PROVE CellInv'
<1>1. proc.running /\ job[u].phase = "mistake" /\ UNCHANGED <<results, ledger>> BY DEF Again
<1>2. proc \in Process /\ ~proc.whole /\ observed \in [Paths -> Nat] /\ job[u] \in Jobs
  BY <1>1 DEF CellInv, Shape
<1>3. CASE job[u].attempt > Retries
  <2>1. MoveTo(u, "failed") /\ proc' = [proc EXCEPT !.aborted = TRUE] /\ UNCHANGED observed BY <1>3 DEF Again
  <2>2. proc' \in Process /\ proc'.running /\ ~proc'.whole BY <1>1, <1>2, <2>1 DEF Process
  <2>3. "failed" \in Phases \ {"queued", "turns", "done"} BY DEF Phases
  <2> QED BY <1>1, <1>2, <2>1, <2>2, <2>3, MoveKeeps
<1>4. CASE ~(job[u].attempt > Retries)
  <2>1. Enter(u) /\ UNCHANGED proc BY <1>4 DEF Again
  <2>2. job[u].attempt <= Retries BY <1>2, <1>4, CodexAssumption DEF Jobs
  <2> QED BY <1>1, <2>1, <2>2, EnterKeeps
<1> QED BY <1>3, <1>4

(* A turn: its tool calls are observed under the attempt's own path, and      *)
(* unless it is fatal its row is the next of the thread's account.            *)
LEMMA TurnKeeps == ASSUME CellInv, NEW u \in Units, Turn(u) PROVE CellInv'
<1> DEFINE t == job[u].thread
           path == Path(u, job[u].attempt)
<1>1. /\ proc.running /\ job[u].phase = "turns" /\ UNCHANGED <<proc, results, ledger>> BY DEF Turn
<1>2. /\ proc \in Process /\ ~proc.whole /\ observed \in [Paths -> Nat] /\ job \in [Units -> Jobs] /\ job[u] \in Jobs
      /\ job[u].attempt > 0 /\ Metered(u)
  BY <1>1 DEF CellInv, Shape, Measured
<1>3. t \in Threads /\ path \in Paths
  <2>1. job[u].attempt \in 1 .. Retries + 1 BY <1>2, CodexAssumption DEF Jobs
  <2> QED BY <1>2, <2>1 DEF Jobs, Path, Paths
<1>4. PICK calls \in SeqOf(CallUsages, MaxCalls) \ {<<>>}, how \in {"answers", "refuses", "silent"},
           slow \in BOOLEAN : TurnWith(u, calls, how, slow)
  BY DEF Turn
<1> DEFINE arrived == t.late \o calls
           x == IF slow THEN Front(arrived) ELSE arrived
           later == IF slow THEN <<Last(arrived)>> ELSE <<>>
           metered == Plus(t.metered, SumUsage(calls))
           rollout == t.rollout \o x
           tools == Len(calls) - 1
           row == TurnRow(IF how = "silent" THEN Zero ELSE metered, t.previous,
                          SubSeq(rollout, t.seen + 1, Len(rollout)), tools)
           after == [previous |-> IF how = "silent" THEN t.previous ELSE metered,
                     metered |-> metered, seen |-> Len(rollout), rollout |-> rollout,
                     late |-> later, rows |-> Append(t.rows, row)]
<1>5. /\ observed' = [observed EXCEPT ![path] = @ + tools]
      /\ IF Fatal(how # "silent", how = "refuses", row.delta)
         THEN MoveTo(u, "mistake")
         ELSE SetJob(u, [job[u] EXCEPT !.thread = after])
  BY <1>4 DEF TurnWith
<1>6. calls \in Seq(CallUsages) /\ calls # <<>> /\ tools \in Nat
  <2>1. SeqOf(CallUsages, MaxCalls) \subseteq Seq(CallUsages) BY DEF SeqOf
  <2>2. calls \in Seq(CallUsages) BY <2>1
  <2> QED BY <2>2
<1>7. /\ x \in Seq(CallUsages) /\ later \in Seq(CallUsages)
      /\ Plus(SumUsage(x), SumUsage(later)) = Plus(SumUsage(t.late), SumUsage(calls))
  <2>1. t.late \in Seq(CallUsages) BY <1>3 DEF Threads
  <2>2. arrived \in Seq(CallUsages) /\ arrived # <<>> BY <1>6, <2>1
  <2>3. SumUsage(arrived) = Plus(SumUsage(t.late), SumUsage(calls))
    <3>1. t.late \in Seq(Usage) /\ calls \in Seq(Usage) BY <1>6, <2>1, SumOfCalls
    <3> QED BY <3>1, UsageJoins
  <2> HIDE DEF arrived
  <2>4. CASE slow
    <3>1. x = Front(arrived) /\ later = <<Last(arrived)>> BY <2>4
    <3> HIDE DEF x, later
    <3> QED BY <2>2, <2>3, <3>1, LastAside
  <2>5. CASE ~slow
    <3>1. x = arrived /\ later = <<>> BY <2>5
    <3> HIDE DEF x, later
    <3>2. SumUsage(later) = Zero
      <4>1. later \in [{} -> Usage] BY <3>1
      <4> QED BY <4>1, UsageOfNone
    <3>3. SumUsage(arrived) \in Usage BY <2>2, SumOfCalls
    <3>4. \A a \in Usage : Plus(a, Zero) = a BY DEF Plus, Zero, Usage
    <3> QED BY <2>2, <2>3, <3>1, <3>2, <3>3, <3>4
  <2> QED BY <2>4, <2>5
<1> HIDE DEF arrived, x, later, tools
<1>8. /\ observed' \in [Paths -> Nat] /\ observed'[path] = observed[path] + tools
      /\ \A v \in Units \ {u} :
           job[v].phase = "turns" => observed'[Path(v, job[v].attempt)] = observed[Path(v, job[v].attempt)]
  <2> HIDE DEF path
  <2>1. observed[path] \in Nat /\ observed[path] + tools \in Nat BY <1>2, <1>3, <1>6
  <2>2. observed' \in [Paths -> Nat] /\ observed'[path] = observed[path] + tools BY <1>2, <1>3, <1>5, <2>1
  <2>3. ASSUME NEW v \in Units \ {u}
        PROVE  observed'[Path(v, job[v].attempt)] = observed[Path(v, job[v].attempt)]
    <3>1. Path(v, job[v].attempt) # path BY DEF Path, path
    <3> QED BY <1>2, <1>5, <3>1
  <2> QED BY <2>2, <2>3
<1>9. CASE Fatal(how # "silent", how = "refuses", row.delta)
  <2>1. MoveTo(u, "mistake") BY <1>5, <1>9
  <2>2. "mistake" \in Phases \ {"queued", "turns", "done"} BY DEF Phases
  <2> QED BY <1>1, <1>2, <1>8, <2>1, <2>2, MoveKeeps
<1>10. CASE ~Fatal(how # "silent", how = "refuses", row.delta)
  <2>1. how # "silent" /\ SetJob(u, [job[u] EXCEPT !.thread = after])
    <3> HIDE DEF row, after
    <3> QED BY <1>5, <1>10 DEF Fatal
  <2>2. /\ row = TurnRow(metered, t.previous, SubSeq(rollout, t.seen + 1, Len(rollout)), tools)
        /\ after = [previous |-> metered, metered |-> metered, seen |-> Len(rollout), rollout |-> rollout,
                    late |-> later, rows |-> Append(t.rows, row)]
    <3>1. (IF how = "silent" THEN Zero ELSE metered) = metered BY <2>1
    <3>2. (IF how = "silent" THEN t.previous ELSE metered) = metered BY <2>1
    <3> QED BY <3>1, <3>2
  <2>3. /\ t.previous = t.metered /\ t.seen = Len(t.rollout)
        /\ Tell(t.rows, t.metered, SumUsage(t.late), observed[path])
    BY <1>2 DEF Metered
  <2>4. observed[path] \in Nat BY <1>2, <1>3
  <2>5. metered = Plus(t.metered, SumUsage(calls)) OBVIOUS
  <2>6. /\ metered \in Usage /\ rollout \in Seq(CallUsages) /\ Len(rollout) \in Nat
        /\ Append(t.rows, row) \in Rows
        /\ Tell(Append(t.rows, row), metered, SumUsage(later), observed[path] + tools)
    <3> DEFINE obs == observed[path]
    <3>1. t \in Threads /\ obs \in Nat /\ t.previous = t.metered /\ t.seen = Len(t.rollout) BY <1>3, <2>3, <2>4
    <3>2. Tell(t.rows, t.metered, SumUsage(t.late), obs) BY <2>3
    <3>3. row = TurnRow(metered, t.previous, SubSeq(t.rollout \o x, t.seen + 1, Len(t.rollout \o x)), tools)
      BY <2>2
    <3>4. calls \in Seq(CallUsages) /\ x \in Seq(CallUsages) /\ later \in Seq(CallUsages) BY <1>6, <1>7
    <3>5. Plus(SumUsage(x), SumUsage(later)) = Plus(SumUsage(t.late), SumUsage(calls)) BY <1>7
    <3>6. tools \in Nat BY <1>6
    <3>7. metered = Plus(t.metered, SumUsage(calls)) BY <2>5
    <3> HIDE DEF metered, row, obs, t
    <3>8. metered \in Usage
      BY <3>1, <3>2, <3>3, <3>4, <3>5, <3>6, <3>7, TurnTells
    <3>9. t.rollout \o x \in Seq(CallUsages) /\ Len(t.rollout \o x) \in Nat
      BY <3>1, <3>2, <3>3, <3>4, <3>5, <3>6, <3>7, TurnTells
    <3>10. Append(t.rows, row) \in Rows
      BY <3>1, <3>2, <3>3, <3>4, <3>5, <3>6, <3>7, TurnTells
    <3>11. Tell(Append(t.rows, row), metered, SumUsage(later), obs + tools)
      BY <3>1, <3>2, <3>3, <3>4, <3>5, <3>6, <3>7, TurnTells
    <3> QED BY <3>8, <3>9, <3>10, <3>11 DEF obs
  <2>7. after \in Threads /\ after.previous = after.metered /\ after.seen = Len(after.rollout)
        /\ Tell(after.rows, after.metered, SumUsage(after.late), observed'[path])
    <3> DEFINE rows == Append(t.rows, row)
               seen == Len(rollout)
    <3>1. rows \in Rows /\ seen \in Nat /\ metered \in Usage /\ rollout \in Seq(CallUsages) BY <2>6
    <3>2. after = [previous |-> metered, metered |-> metered, seen |-> seen, rollout |-> rollout,
                   late |-> later, rows |-> rows]
      BY <2>2
    <3>3. Tell(rows, metered, SumUsage(later), observed'[path]) BY <1>8, <2>6
    <3>4. seen = Len(rollout) OBVIOUS
    <3> HIDE DEF after, rows, seen, metered, rollout, path
    <3> QED BY <1>7, <3>1, <3>2, <3>3, <3>4 DEF Threads
  <2> HIDE DEF after
  <2> DEFINE j == [job[u] EXCEPT !.thread = after]
  <2>8. /\ j \in Jobs /\ j.thread = after /\ j.attempt = job[u].attempt /\ j.phase = "turns"
    <3>1. \A i \in Jobs, th \in Threads : LET k == [i EXCEPT !.thread = th]
                                          IN k \in Jobs /\ k.thread = th /\ k.attempt = i.attempt /\ k.phase = i.phase
      BY DEF Jobs
    <3> QED BY <1>1, <1>2, <2>7, <3>1
  <2>9. job' = [job EXCEPT ![u] = j] BY <2>1 DEF SetJob
  <2> HIDE DEF j
  <2>10. job' \in [Units -> Jobs] /\ job'[u] = j /\ \A v \in Units \ {u} : job'[v] = job[v] BY <1>2, <2>8, <2>9
  <2>11. Metered(u)'
    <3>1. job'[u].thread = after /\ Path(u, job'[u].attempt) = path BY <2>8, <2>10
    <3> HIDE DEF path
    <3> QED BY <2>7, <3>1 DEF Metered
  <2>12. job'[u].phase = "turns" /\ job'[u].attempt > 0 BY <1>2, <2>8, <2>10
  <2>13. Covered' = Covered BY <1>1, <2>10, <2>12, CoveredKept
  <2>14. results[u] = None \/ OneThread(results[u]) BY DEF CellInv, Measured
  <2>15. DOMAIN results = Units /\ ledger \in Nat /\ ledger >= Total(Covered) BY <1>1 DEF CellInv, Shape, Booking
  <2> QED BY <1>1, <1>2, <1>8, <2>10, <2>11, <2>12, <2>13, <2>14, <2>15, UnitSteps
<1> QED BY <1>9, <1>10
(* Save: what an attempt was metered at becomes the unit's result.            *)
LEMMA SaveKeeps == ASSUME CellInv, NEW u \in Units, Save(u) PROVE CellInv'
<1> DEFINE t == job[u].thread
           r == [rows |-> t.rows, stdout |-> t.previous, metered |-> t.metered, late |-> SumUsage(t.late),
                 observations |-> observed[Path(u, job[u].attempt)]]
<1>1. /\ proc.running /\ job[u].phase = "turns" /\ Len(t.rows) = Turns
      /\ results' = [results EXCEPT ![u] = r] /\ MoveTo(u, "account") /\ UNCHANGED <<proc, observed, ledger>>
  BY DEF Save
<1>2. /\ proc \in Process /\ ~proc.whole /\ observed \in [Paths -> Nat] /\ job \in [Units -> Jobs] /\ job[u] \in Jobs
      /\ DOMAIN results = Units /\ Metered(u) /\ ledger \in Nat /\ ledger >= Total(Covered)
  BY <1>1 DEF CellInv, Shape, Measured, Booking
<1>3. t \in Threads BY <1>2 DEF Jobs
<1>4. OneThread(r)
  <2> DEFINE seen == observed[Path(u, job[u].attempt)]
             late == SumUsage(t.late)
  <2>1. t.previous = t.metered /\ Tell(t.rows, t.metered, late, seen) BY <1>2 DEF Metered
  <2>2. t.rows \in Rows /\ t.metered \in Usage /\ t.late \in Seq(CallUsages) BY <1>3 DEF Threads
  <2>3. late \in Usage BY <2>2, SumOfCalls
  <2>4. /\ r.rows = t.rows /\ r.stdout = t.previous /\ r.metered = t.metered /\ r.late = late
        /\ r.observations = seen
    OBVIOUS
  <2> HIDE DEF r, late, seen
  <2> QED BY <1>1, <2>1, <2>2, <2>3, <2>4 DEF OneThread
<1> HIDE DEF r
<1>5. DOMAIN results' = Units /\ results'[u] = r /\ \A v \in Units \ {u} : results'[v] = results[v] BY <1>1, <1>2
<1>6. job' \in [Units -> Jobs] /\ job'[u].phase = "account" /\ \A v \in Units \ {u} : job'[v] = job[v]
  <2> DEFINE j == [job[u] EXCEPT !.phase = "account"]
  <2>1. j \in Jobs /\ j.phase = "account"
    <3>1. "account" \in Phases BY DEF Phases
    <3> QED BY <1>2, <3>1, Rephased
  <2>2. job' = [job EXCEPT ![u] = j] BY <1>1, <1>2 DEF MoveTo
  <2> HIDE DEF j
  <2> QED BY <1>2, <2>1, <2>2
<1>7. Covered' = Covered BY <1>1, <1>5, <1>6, CoveredKept
<1> HIDE DEF t
<1> QED BY <1>1, <1>2, <1>4, <1>5, <1>6, <1>7, UnitSteps

(* Account: the unit is done and the book has grown by its price.             *)
LEMMA AccountKeeps == ASSUME CellInv, NEW u \in Units, Account(u) PROVE CellInv'
<1>1. /\ proc.running /\ job[u].phase = "account" /\ MoveTo(u, "done") /\ UNCHANGED <<results, observed>>
      /\ ledger' = ledger + PriceOf(u)
  BY DEF Account, Booked
<1>2. /\ proc \in Process /\ ~proc.whole /\ observed \in [Paths -> Nat] /\ job \in [Units -> Jobs] /\ job[u] \in Jobs
      /\ DOMAIN results = Units /\ ledger \in Nat /\ ledger >= Total(Covered)
  BY <1>1 DEF CellInv, Shape, Booking
<1>3. proc' \in Process /\ proc'.running /\ ~proc'.whole
  <2> DEFINE stop == proc.aborted \/ ledger' > Stop
  <2>1. proc' = [proc EXCEPT !.aborted = stop] BY DEF Account
  <2>2. stop \in BOOLEAN OBVIOUS
  <2> HIDE DEF stop
  <2> QED BY <1>1, <1>2, <2>1, <2>2 DEF Process
<1>4. PriceOf(u) \in Nat /\ Covered \in [Units -> Nat] /\ IsFiniteSet(Units) /\ Total(Covered) \in Nat BY PricesAre
<1>5. job' \in [Units -> Jobs] /\ job'[u].phase = "done" /\ \A v \in Units \ {u} : job'[v] = job[v]
  <2> DEFINE j == [job[u] EXCEPT !.phase = "done"]
  <2>1. j \in Jobs /\ j.phase = "done"
    <3>1. "done" \in Phases BY DEF Phases
    <3> QED BY <1>2, <3>1, Rephased
  <2>2. job' = [job EXCEPT ![u] = j] BY <1>1, <1>2 DEF MoveTo
  <2> HIDE DEF j
  <2> QED BY <1>2, <2>1, <2>2
<1>6. Total(Covered') = Total(Covered) + PriceOf(u)
  <2> DEFINE c == Covered
             p == PriceOf(u)
  <2>1. c[u] = 0 BY <1>1 DEF Covered
  <2>2. Covered' = [c EXCEPT ![u] = p]
    <3>1. \A v \in Units : PriceOf(v)' = PriceOf(v) BY <1>1 DEF PriceOf
    <3>2. \A v \in Units \ {u} : job'[v].phase = job[v].phase BY <1>5
    <3>3. Covered' = [v \in Units |-> IF job'[v].phase = "done" THEN PriceOf(v) ELSE 0] BY <3>1 DEF Covered
    <3>4. c = [v \in Units |-> IF job[v].phase = "done" THEN PriceOf(v) ELSE 0] BY DEF Covered
    <3> HIDE DEF c
    <3> QED BY <1>5, <3>2, <3>3, <3>4
  <2>3. c \in [Units -> Nat] /\ p \in Nat /\ Total(c) \in Nat BY <1>4
  <2> HIDE DEF c, p
  <2>4. Total([c EXCEPT ![u] = p]) = Total(c) - c[u] + p BY <1>4, <2>3, SumChanges
  <2>5. Total(Covered') = Total(c) + p BY <2>1, <2>2, <2>3, <2>4
  <2> QED BY <2>5 DEF c, p
<1>7. ledger' \in Nat /\ ledger' >= Total(Covered')
  <2> DEFINE p == PriceOf(u)
             n == Total(Covered)
  <2>1. p \in Nat /\ n \in Nat /\ ledger \in Nat /\ ledger >= n /\ ledger' = ledger + p /\ Total(Covered') = n + p
    BY <1>1, <1>2, <1>4, <1>6
  <2> HIDE DEF p, n
  <2> QED BY <2>1
<1>8. results[u] = None \/ OneThread(results[u]) BY DEF CellInv, Measured
<1> QED BY <1>1, <1>2, <1>3, <1>5, <1>7, <1>8, UnitSteps

(* Collapse: what is queued is cancelled; the rest goes on.                   *)
LEMMA CollapseKeeps == ASSUME CellInv, Collapse PROVE CellInv'
<1>1. /\ proc.running /\ proc' = [proc EXCEPT !.lost = TRUE] /\ UNCHANGED <<results, observed, ledger>>
      /\ job' = [u \in Units |-> IF job[u].phase = "queued" THEN Idle ELSE job[u]]
  BY DEF Collapse
<1>2. proc \in Process /\ ~proc.whole /\ job \in [Units -> Jobs] BY <1>1 DEF CellInv, Shape
<1>3. proc' \in Process /\ proc'.running /\ ~proc'.whole BY <1>1, <1>2 DEF Process
<1>4. Idle \in Jobs /\ Idle.phase = "absent" BY NothingHappened DEF Idle
<1>5. job' \in [Units -> Jobs] /\ \A u \in Units : job'[u].phase # "absent" => job'[u] = job[u]
  <2> HIDE DEF Idle
  <2> QED BY <1>1, <1>2, <1>4
<1>6. Shape' BY <1>1, <1>3, <1>5 DEF CellInv, Shape
<1>7. ASSUME NEW u \in Units, job'[u].phase = "turns" PROVE Metered(u)'
  <2>1. job'[u] = job[u] /\ Metered(u) BY <1>5, <1>7 DEF CellInv, Measured
  <2> QED BY <1>1, <2>1 DEF Metered
<1>8. Measured' BY <1>1, <1>7 DEF CellInv, Measured
<1>9. Covered' = Covered
  <2>1. \A u \in Units : PriceOf(u)' = PriceOf(u) BY <1>1 DEF PriceOf
  <2>2. \A u \in Units : job'[u].phase = "done" <=> job[u].phase = "done"
    <3> HIDE DEF Idle
    <3> QED BY <1>1, <1>4
  <2> QED BY <2>1, <2>2 DEF Covered
<1>10. Booking' BY <1>1, <1>3, <1>9 DEF CellInv, Booking, BookCoversResults
<1> QED BY <1>6, <1>8, <1>10 DEF CellInv

(* End: the wave came through whole when every unit is done, and then the     *)
(* book covers every result there is.                                        *)
LEMMA EndKeeps == ASSUME CellInv, End PROVE CellInv'
<1> DEFINE whole == At("done") = Units
<1>1. /\ proc.running /\ Busy = {} /\ proc' = [proc EXCEPT !.running = FALSE, !.whole = whole]
      /\ UNCHANGED <<job, results, observed, ledger>>
  BY DEF End
<1>2. proc' \in Process /\ ~proc'.running /\ proc'.whole = whole
  <2>1. whole \in BOOLEAN /\ proc \in Process BY DEF CellInv, Shape
  <2>2. \A p \in Process, w \in BOOLEAN :
          LET q == [p EXCEPT !.running = FALSE, !.whole = w]
          IN q \in Process /\ q.running = FALSE /\ q.whole = w
    BY DEF Process
  <2> HIDE DEF whole
  <2> QED BY <1>1, <2>1, <2>2
<1>3. Busy' = Busy BY <1>1 DEF Busy
<1>4. Shape' BY <1>1, <1>2, <1>3 DEF CellInv, Shape
<1>5. ASSUME NEW u \in Units PROVE Metered(u)' = Metered(u) BY <1>1 DEF Metered
<1>6. Measured' BY <1>1, <1>5 DEF CellInv, Measured
<1>7. ASSUME whole PROVE ledger' >= Total([u \in Units |-> PriceOf(u)])'
  <2>1. \A u \in Units : job[u].phase = "done" BY <1>7 DEF At
  <2>2. Covered = [u \in Units |-> PriceOf(u)] BY <2>1 DEF Covered
  <2>3. [u \in Units |-> PriceOf(u)]' = [u \in Units |-> PriceOf(u)] BY <1>1 DEF PriceOf
  <2>4. ledger >= Total(Covered) BY <1>1 DEF CellInv, Booking
  <2> QED BY <1>1, <2>2, <2>3, <2>4
<1> HIDE DEF whole
<1>8. Booking' BY <1>2, <1>7 DEF Booking, BookCoversResults
<1> QED BY <1>4, <1>6, <1>8 DEF CellInv

LEMMA CrashKeeps == ASSUME CellInv, Crash PROVE CellInv'
<1>1. /\ proc.running /\ proc' = [proc EXCEPT !.running = FALSE, !.lost = TRUE]
      /\ job' = [u \in Units |-> Idle] /\ UNCHANGED <<results, observed, ledger>>
  BY DEF Crash
<1>2. proc \in Process /\ ~proc.whole BY <1>1 DEF CellInv, Shape
<1>3. proc' \in Process /\ ~proc'.running /\ ~proc'.whole
  <2>1. \A p \in Process :
          LET q == [p EXCEPT !.running = FALSE, !.lost = TRUE]
          IN q \in Process /\ ~q.running /\ (q.whole <=> p.whole)
    BY DEF Process
  <2> QED BY <1>1, <1>2, <2>1
<1>4. Idle \in Jobs /\ Idle.phase = "absent" BY NothingHappened DEF Idle
<1>5. job' \in [Units -> Jobs] /\ \A u \in Units : job'[u].phase = "absent"
  <2> HIDE DEF Idle
  <2> QED BY <1>1, <1>4
<1>6. Shape' BY <1>1, <1>3, <1>5 DEF CellInv, Shape, Busy
<1>7. Measured' BY <1>1, <1>5 DEF CellInv, Measured
<1>8. Booking' BY <1>3 DEF Booking, BookCoversResults
<1> QED BY <1>6, <1>7, <1>8 DEF CellInv

LEMMA StutterKeeps == ASSUME CellInv, UNCHANGED vars PROVE CellInv'
<1> USE DEF vars
<1>1. Busy' = Busy /\ Covered' = Covered /\ BookCoversResults' = BookCoversResults
  BY DEF Busy, Covered, PriceOf, BookCoversResults
<1>2. Shape' BY <1>1 DEF CellInv, Shape
<1>3. ASSUME NEW u \in Units PROVE Metered(u)' = Metered(u) BY DEF Metered
<1>4. Measured' BY <1>3 DEF CellInv, Measured
<1>5. Booking' BY <1>1 DEF CellInv, Booking
<1> QED BY <1>2, <1>4, <1>5 DEF CellInv

LEMMA CellBegins == Init => CellInv
<1> SUFFICES ASSUME Init PROVE CellInv OBVIOUS
<1>1. /\ proc \in Process /\ ~proc.running /\ ~proc.whole /\ ledger \in Nat /\ DOMAIN results = Units
      /\ \A u \in Units : results[u] = None
  BY DEF Init, Process
<1>2. observed \in [Paths -> Nat] BY DEF Init, Paths
<1>3. Idle \in Jobs /\ Idle.phase = "absent" BY NothingHappened DEF Idle
<1>4. job \in [Units -> Jobs] /\ \A u \in Units : job[u].phase = "absent"
  <2>1. job = [u \in Units |-> Idle] BY DEF Init
  <2> HIDE DEF Idle
  <2> QED BY <1>3, <2>1
<1>5. Shape BY <1>1, <1>2, <1>4 DEF Shape, Busy
<1>6. Measured BY <1>1, <1>4 DEF Measured
<1>7. Booking BY <1>1 DEF Booking, BookCoversResults
<1> QED BY <1>5, <1>6, <1>7 DEF CellInv

LEMMA CellSteps == CellInv /\ [Next]_vars => CellInv'
<1> SUFFICES ASSUME CellInv, [Next]_vars PROVE CellInv' OBVIOUS
<1>1. CASE Prepare BY <1>1, OutsideKeeps DEF Prepare
<1>2. CASE AuthProof BY <1>2, OutsideKeeps DEF AuthProof
<1>3. CASE \E force \in BOOLEAN, only \in {Units, {Min(Units)}} : Start(force, only) BY <1>3, StartKeeps
<1>4. ASSUME NEW u \in Units, Work(u) PROVE CellInv'
  BY <1>4, TakeKeeps, TurnKeeps, SaveKeeps, AgainKeeps, AccountKeeps DEF Work
<1>5. CASE Collapse BY <1>5, CollapseKeeps
<1>6. CASE End BY <1>6, EndKeeps
<1>7. CASE Crash BY <1>7, CrashKeeps
<1>8. CASE UNCHANGED vars BY <1>8, StutterKeeps
<1> QED BY <1>1, <1>2, <1>3, <1>4, <1>5, <1>6, <1>7, <1>8 DEF Next

(* A result that tells one thread's story tells it as the cell's report does. *)
LEMMA CellMeans == CellInv => CellIsTrue
<1> SUFFICES ASSUME CellInv PROVE CellIsTrue OBVIOUS
<1>1. ASSUME NEW u \in Units, results[u] # None
      PROVE  LET r == results[u]
                 reported == SumUsage([i \in 1 .. Turns |-> r.rows[i].delta])
                 counted == SumUsage([i \in 1 .. Turns |-> r.rows[i].calls])
             IN /\ Len(r.rows) = Turns
                /\ reported = r.stdout /\ r.stdout = r.metered
                /\ Plus(counted, r.late) = r.metered
                /\ (\A i \in 1 .. Turns : r.rows[i].agrees) => r.late = Zero
                /\ r.observations = Total([i \in 1 .. Turns |-> r.rows[i].tools])
  <2> DEFINE r == results[u]
             rows == r.rows
  <2>1. OneThread(r) BY <1>1 DEF CellInv, Measured
  <2>2. rows \in Rows /\ Len(rows) = Turns /\ DOMAIN rows = 1 .. Turns /\ r.late \in Usage /\ r.metered \in Usage
    <3>1. rows \in Rows /\ Len(rows) = Turns /\ r.late \in Usage /\ r.metered \in Usage BY <2>1 DEF OneThread
    <3> HIDE DEF rows
    <3> QED BY <3>1 DEF Rows
  <2>3. Tell(rows, r.metered, r.late, r.observations) /\ r.stdout = r.metered BY <2>1 DEF OneThread
  <2>4. /\ Deltas(rows) = [i \in 1 .. Turns |-> rows[i].delta]
        /\ Counted(rows) = [i \in 1 .. Turns |-> rows[i].calls]
        /\ Tools(rows) = [i \in 1 .. Turns |-> rows[i].tools]
    BY <2>2 DEF Deltas, Counted, Tools
  <2>5. ASSUME \A i \in 1 .. Turns : rows[i].agrees PROVE r.late = Zero
    <3>1. \A i \in 1 .. Turns : rows[i].calls = rows[i].delta BY <2>2, <2>5 DEF Rows
    <3>2. Counted(rows) = Deltas(rows) BY <2>4, <3>1
    <3>3. Plus(r.metered, r.late) = r.metered BY <2>3, <3>2 DEF Tell
    <3> DEFINE m == r.metered
               l == r.late
    <3>4. m \in Usage /\ l \in Usage /\ Plus(m, l) = m BY <2>2, <3>3
    <3> HIDE DEF m, l
    <3>5. \A k \in Keys : m[k] \in Nat /\ l[k] \in Nat /\ m[k] + l[k] = m[k]
      <4>1. \A k \in Keys : Plus(m, l)[k] = m[k] + l[k] BY <3>4, PlusIs
      <4> QED BY <3>4, <4>1 DEF Usage
    <3>6. \A k \in Keys : l[k] = 0 BY <3>5
    <3>7. l = Zero BY <3>4, <3>6 DEF Zero, Usage
    <3> QED BY <3>7 DEF l
  <2>6. /\ SumUsage([i \in 1 .. Turns |-> rows[i].delta]) = r.metered
        /\ Plus(SumUsage([i \in 1 .. Turns |-> rows[i].calls]), r.late) = r.metered
        /\ Total([i \in 1 .. Turns |-> rows[i].tools]) = r.observations
    BY <2>3, <2>4 DEF Tell
  <2> QED BY <2>2, <2>3, <2>5, <2>6
<1>2. ResultsAreOneThread BY <1>1 DEF ResultsAreOneThread
<1> QED BY <1>2 DEF CellInv, Booking, CellIsTrue

(* Whatever attempts are refused or cut off, in whatever order units of       *)
(* however many workers come through, and wherever a process dies between a   *)
(* result and its booking: a saved unit is the account of one thread, by both *)
(* routes, and a whole wave has booked every result                           *)
(* (run_e21_codex_component.py:1057-1313, 1366-1373).                         *)
THEOREM CellIsAlwaysTrue == Spec => []CellIsTrue
<1>1. Init => CellInv BY CellBegins
<1>2. CellInv /\ [Next]_vars => CellInv' BY CellSteps
<1>3. CellInv => CellIsTrue BY CellMeans
<1> QED BY <1>1, <1>2, <1>3, PTL DEF Spec
=============================================================================
