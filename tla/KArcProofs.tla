----------------------------- MODULE KArcProofs -----------------------------
(* Theorems about the policy engine of module KArc.                        *)
EXTENDS KArc, FiniteSetTheorems, TLAPS

(***************************************************************************)
(* Token sums: what a list gains and loses with one artifact.              *)
(***************************************************************************)

\* One artifact accounts for as many tokens as its cost.
LEMMA OneTokens ==
  ASSUME NEW a, NEW n \in Nat
  PROVE  /\ IsFiniteSet({a} \X (1 .. n))
         /\ Cardinality({a} \X (1 .. n)) = n
<1>1. IsFiniteSet({a}) /\ Cardinality({a}) = 1
  BY FS_Singleton
<1>2. IsFiniteSet(1 .. n) /\ Cardinality(1 .. n) = n
  BY FS_Interval
<1>3. /\ IsFiniteSet({a} \X (1 .. n))
      /\ Cardinality({a} \X (1 .. n)) = Cardinality({a}) * Cardinality(1 .. n)
  BY <1>1, <1>2, FS_Product
<1>4. 1 * n = n
  OBVIOUS
<1>5. QED
  BY <1>1, <1>2, <1>3, <1>4

LEMMA CostType ==
  ASSUME NEW b \in Budgets, NEW a \in Artifact
  PROVE  Cost(a, b) \in Nat /\ Cost(a, b) <= b /\ b \in Nat
BY KArcAssumption DEF KArcAssumption, Cost, Lesser

LEMMA TokensFinite ==
  ASSUME NEW b \in Budgets, NEW S \in SUBSET Artifact
  PROVE  IsFiniteSet(Tokens(S, b)) /\ TokAt(S, b) \in Nat
<1>1. IsFiniteSet(Artifact \X (1 .. b))
  <2>1. IsFiniteSet(1 .. b)
    BY FS_Interval, KArcAssumption DEF KArcAssumption
  <2>2. QED
    BY <2>1, FS_Product, KArcAssumption DEF KArcAssumption
<1>2. Tokens(S, b) \subseteq Artifact \X (1 .. b)
  BY CostType DEF Tokens
<1>3. IsFiniteSet(Tokens(S, b))
  BY <1>1, <1>2, FS_Subset
<1>4. QED
  BY <1>3, FS_CardinalityType DEF TokAt

LEMMA TokEmpty ==
  ASSUME NEW b
  PROVE  TokAt({}, b) = 0
<1>1. Tokens({}, b) = {}
  BY DEF Tokens
<1>2. QED
  BY <1>1, FS_EmptySet DEF TokAt

\* A list that receives an artifact grows by its cost.
LEMMA TokInsert ==
  ASSUME NEW b \in Budgets, NEW S \in SUBSET Artifact,
         NEW a \in Artifact, a \notin S
  PROVE  TokAt(S \cup {a}, b) = TokAt(S, b) + Cost(a, b)
<1> DEFINE A == {a} \X (1 .. Cost(a, b))
<1>1. Tokens(S \cup {a}, b) = Tokens(S, b) \cup A
  BY DEF Tokens
<1>2. Tokens(S, b) \cap A = {}
  BY DEF Tokens
<1>3. IsFiniteSet(A) /\ Cardinality(A) = Cost(a, b)
  BY OneTokens, CostType
<1>4. IsFiniteSet(Tokens(S, b)) /\ TokAt(S, b) \in Nat
  BY TokensFinite
<1>5. Cardinality(Tokens(S, b) \cup A)
        = Cardinality(Tokens(S, b)) + Cardinality(A) - Cardinality({})
  BY <1>2, <1>3, <1>4, FS_Union
<1>6. Cardinality({}) = 0 /\ Cost(a, b) \in Nat
  BY FS_EmptySet, CostType
<1>7. Cardinality(Tokens(S, b) \cup A) = TokAt(S, b) + Cost(a, b)
  BY <1>3, <1>4, <1>5, <1>6 DEF TokAt
<1>8. QED
  BY <1>1, <1>7 DEF TokAt

\* A list that loses an artifact shrinks by its cost.
LEMMA TokRemove ==
  ASSUME NEW b \in Budgets, NEW S \in SUBSET Artifact,
         NEW a \in S
  PROVE  TokAt(S \ {a}, b) = TokAt(S, b) - Cost(a, b)
<1>1. S \ {a} \in SUBSET Artifact /\ a \notin S \ {a} /\ a \in Artifact
  OBVIOUS
<1>2. (S \ {a}) \cup {a} = S
  OBVIOUS
<1>3. TokAt(S, b) = TokAt(S \ {a}, b) + Cost(a, b)
  BY <1>1, <1>2, TokInsert
<1>4. TokAt(S \ {a}, b) \in Nat /\ Cost(a, b) \in Nat
  BY <1>1, TokensFinite, CostType
<1>5. QED
  BY <1>3, <1>4

LEMMA TokSubset ==
  ASSUME NEW b \in Budgets, NEW S \in SUBSET Artifact,
         NEW T \in SUBSET S
  PROVE  TokAt(T, b) <= TokAt(S, b)
<1>1. Tokens(T, b) \subseteq Tokens(S, b)
  BY DEF Tokens
<1>2. QED
  BY <1>1, TokensFinite, FS_Subset DEF TokAt

(***************************************************************************)
(* Types.  The handler in progress holds an artifact that fits, with the   *)
(* room it needs; between events nothing is held.                          *)
(***************************************************************************)
JobOK ==
  /\ pc = "idle" => job = NoJob
  /\ job.to = "none" => job = NoJob
  /\ job.to # "none" => /\ job.art \in Artifact \ Pinned
                        /\ job.need = Acct(job.art)

LEMMA AdaptType ==
  ASSUME TypeOK, NEW a \in Artifact,
         NEW S \in SUBSET Artifact, NEW T \in SUBSET Artifact
  PROVE  Adapt(a, S, T) \in Nat
<1>1. Acct(a) \in Nat /\ Tok(S) \in Nat /\ Tok(T) \in Nat
  BY CostType, TokensFinite DEF Acct, Tok, TypeOK
<1>2. PScale \in Nat \ {0}
  BY KArcAssumption DEF KArcAssumption
<1>3. \A x, y \in Nat : x * y \in Nat
  OBVIOUS
<1>4. \A x \in Nat : \A y \in Nat \ {0} : x \div y \in Nat
  OBVIOUS
<1>5. Greater(Tok(S), 1) \in Nat \ {0}
  BY <1>1 DEF Greater
<1>6. /\ Acct(a) * PScale \in Nat
      /\ (Acct(a) * PScale * Tok(T)) \div Greater(Tok(S), 1) \in Nat
  BY <1>1, <1>2, <1>3, <1>4, <1>5
<1>7. QED
  BY <1>6 DEF Adapt, Greater

\* p stays within [0, c], whichever event moves it (I5).
LEMMA PRange ==
  ASSUME NEW x \in Nat, NEW y \in Nat, NEW d \in Nat, x <= y
  PROVE  /\ Lesser(y, x + d) \in 0 .. y
         /\ Greater(0, x - d) \in 0 .. y
BY DEF Lesser, Greater

LEMMA TypeInit == Init => TypeOK /\ JobOK
<1> SUFFICES ASSUME Init PROVE TypeOK /\ JobOK
  OBVIOUS
<1> USE KArcAssumption DEF Init, KArcAssumption
<1>1. NoJob \in Jobs
  BY DEF NoJob, Jobs
<1>2. TypeOK
  BY <1>1 DEF TypeOK, Validity, Phases
<1>3. JobOK
  BY DEF JobOK, NoJob
<1>4. QED
  BY <1>2, <1>3

LEMMA TouchType ==
  ASSUME age \in [Artifact -> Nat], NEW a \in Artifact, Touch(a)
  PROVE  age' \in [Artifact -> Nat]
BY DEF Touch

LEMMA DemoteType ==
  ASSUME TypeOK, JobOK, pc = "idle", NEW a \in Artifact, DemoteToGhost(a)
  PROVE  /\ t1' \subseteq Artifact /\ t2' \subseteq Artifact
         /\ b1' \subseteq Artifact /\ b2' \subseteq Artifact
         /\ age' \in [Artifact -> Nat]
         /\ pc' \in Phases /\ job' = NoJob
<1>1. CASE a \in Resident
  <2>1. age' \in [Artifact -> Nat]
    BY <1>1, TouchType DEF DemoteToGhost, TypeOK
  <2>2. QED
    BY <1>1, <2>1 DEF DemoteToGhost, TypeOK, Begin, Phases
<1>2. CASE a \notin Resident
  BY <1>2 DEF DemoteToGhost, TypeOK, JobOK, StayIdle, control, lists
<1>3. QED
  BY <1>1, <1>2

LEMMA NoJobOK == NoJob \in Jobs /\ NoJob.to = "none"
BY DEF NoJob, Jobs

\* what the cold tags and the recommendations become is of the right type
LEMMA ToColdType ==
  ASSUME TypeOK, NEW S \in SUBSET Artifact, ToCold(S)
  PROVE  /\ cold' \subseteq Artifact /\ coldEver' \subseteq Artifact
         /\ recs' \subseteq {"split", "invalidate_or_correct", "cold_transition",
                             "contradiction_review", "unpin_review"} \X Artifact
BY DEF ToCold, TypeOK

\* The loops of a handler keep the types, and keep hold of their job.
LEMMA LoopType == TypeOK /\ JobOK /\ Loop => TypeOK' /\ JobOK'
<1> SUFFICES ASSUME TypeOK, JobOK, Loop PROVE TypeOK' /\ JobOK'
  OBVIOUS
<1> USE DEF lists, quality, coldVars, control, Acct
<1>1. CASE MissTrimB1
  <2>1. PICK v \in b1 : b1' = b1 \ {v} /\ ToCold({v})
    BY <1>1 DEF MissTrimB1
  <2>2. QED
    BY <1>1, <2>1, ToColdType DEF MissTrimB1, TypeOK, JobOK
<1>2. CASE MissDeleteT1
  <2>1. PICK v \in t1 : t1' = t1 \ {v} /\ ToCold({v})
    BY <1>2 DEF MissDeleteT1
  <2>2. QED
    BY <1>2, <2>1, ToColdType DEF MissDeleteT1, TypeOK, JobOK
<1>3. CASE MissTrimB2
  <2>1. PICK v \in b2 : b2' = b2 \ {v} /\ ToCold({v})
    BY <1>3 DEF MissTrimB2
  <2>2. QED
    BY <1>3, <2>1, ToColdType DEF MissTrimB2, TypeOK, JobOK
<1>4. CASE EvictToB1
  <2>1. PICK v \in t1 : t1' = t1 \ {v} /\ b1' = b1 \cup {v} /\ Touch(v)
    BY <1>4 DEF EvictToB1
  <2>2. age' \in [Artifact -> Nat] /\ v \in Artifact
    BY <2>1, TouchType DEF TypeOK
  <2>3. pc' = "evict" /\ job' = job /\ pc # "idle"
    BY <1>4 DEF EvictToB1, Begin, Evicting
  <2>4. QED
    BY <1>4, <2>1, <2>2, <2>3 DEF EvictToB1, TypeOK, JobOK, Phases
<1>5. CASE EvictToB2
  <2>1. PICK v \in t2 : t2' = t2 \ {v} /\ b2' = b2 \cup {v} /\ Touch(v)
    BY <1>5 DEF EvictToB2
  <2>2. age' \in [Artifact -> Nat] /\ v \in Artifact
    BY <2>1, TouchType DEF TypeOK
  <2>3. pc' = "evict" /\ job' = job /\ pc # "idle"
    BY <1>5 DEF EvictToB2, Begin, Evicting
  <2>4. QED
    BY <1>5, <2>1, <2>2, <2>3 DEF EvictToB2, TypeOK, JobOK, Phases
<1>6. CASE BoundB1
  <2>1. PICK v \in b1 : b1' = b1 \ {v} /\ ToCold({v})
    BY <1>6 DEF BoundB1
  <2>2. pc' = "bounds" /\ job' = job
    BY <1>6 DEF BoundB1, Begin
  <2>3. QED
    BY <1>6, <2>1, <2>2, ToColdType DEF BoundB1, TypeOK, JobOK, Phases
<1>7. CASE BoundB2
  <2>1. PICK v \in b2 : b2' = b2 \ {v} /\ ToCold({v})
    BY <1>7 DEF BoundB2
  <2>2. pc' = "bounds" /\ job' = job
    BY <1>7 DEF BoundB2, Begin
  <2>3. QED
    BY <1>7, <2>1, <2>2, ToColdType DEF BoundB2, TypeOK, JobOK, Phases
<1>8. CASE Admit
  <2>1. job.art \in Artifact
    BY <1>8 DEF Admit, JobOK
  <2>2. age' \in [Artifact -> Nat]
    BY <1>8, <2>1, TouchType DEF Admit, TypeOK
  <2>3. t1' \subseteq Artifact /\ t2' \subseteq Artifact
    BY <1>8, <2>1 DEF Admit, TypeOK
  <2>4. pc' = "idle" /\ job' = NoJob
    BY <1>8 DEF Admit, Finish
  <2>5. QED
    BY <1>8, <2>2, <2>3, <2>4, NoJobOK
       DEF Admit, RestoreFromCold, TypeOK, JobOK, Phases
<1>9. CASE EndHandler
  BY <1>9, NoJobOK DEF EndHandler, Finish, TypeOK, JobOK, Phases
<1>10. QED
  BY <1>1, <1>2, <1>3, <1>4, <1>5, <1>6, <1>7, <1>8, <1>9 DEF Loop

LEMMA TypeStep == TypeOK /\ JobOK /\ [Next]_vars => TypeOK' /\ JobOK'
<1> SUFFICES ASSUME TypeOK, JobOK, [Next]_vars
             PROVE  TypeOK' /\ JobOK'
  OBVIOUS
<1>c. /\ MaxQuality \in Nat /\ None \notin Artifact /\ PScale \in Nat \ {0}
      /\ Budgets \subseteq Nat \ {0}
  BY KArcAssumption DEF KArcAssumption
<1> USE DEF lists, quality, coldVars, control, Acct
<1>1. ASSUME NEW a \in Artifact, Validated(a) PROVE TypeOK' /\ JobOK'
  <2>1. age' \in [Artifact -> Nat]
    BY <1>1, TouchType DEF Validated, RefreshGhost, TypeOK
  <2>2. nVal' \in [Artifact -> 0 .. MaxQuality]
    BY <1>1, <1>c DEF Validated, TypeOK
  <2>3. QED
    BY <1>1, <2>1, <2>2 DEF Validated, StayIdle, TypeOK, JobOK
<1>2. ASSUME NEW a \in Artifact, Discovered(a) PROVE TypeOK' /\ JobOK'
  <2>1. age' \in [Artifact -> Nat]
    BY <1>2, TouchType DEF Discovered, RefreshGhost, TypeOK
  <2>2. QED
    BY <1>2, <2>1 DEF Discovered, StayIdle, TypeOK, JobOK
<1>3. ASSUME NEW a \in Artifact, Conflicted(a) PROVE TypeOK' /\ JobOK'
  <2>1. validity' \in [Artifact -> Validity]
    BY <1>3 DEF Conflicted, TypeOK, Validity
  <2>2. QED
    BY <1>3, <2>1 DEF Conflicted, StayIdle, TypeOK, JobOK
<1>4. ASSUME NEW a \in Artifact, Corrected(a) PROVE TypeOK' /\ JobOK'
  <2> DEFINE demoted == \/ /\ nCorr'[a] >= HarmfulNCorr
                           /\ 3 * (1 + nVal[a]) < 2 + nVal[a] + nCorr'[a]
                        \/ ~WithoutValidityGate /\ validity[a] \in Stale
  <2>1. nCorr' \in [Artifact -> 0 .. MaxQuality]
    BY <1>4, <1>c DEF Corrected, TypeOK
  <2>2. pc = "idle"
    BY <1>4 DEF Corrected, Listed, Arrives
  <2>3. CASE demoted
    <3>1. /\ DemoteToGhost(a)
          /\ recs' = recs \cup {<<"invalidate_or_correct", a>>}
      BY <1>4, <2>3 DEF Corrected
    <3>2. QED
      BY <1>4, <2>1, <2>2, <3>1, DemoteType, NoJobOK DEF Corrected, TypeOK, JobOK
  <2>4. CASE ~demoted /\ a \in t2
    <3>1. /\ t2' = t2 \ {a} /\ t1' = t1 \cup {a} /\ Touch(a)
          /\ UNCHANGED <<b1, b2, recs, control>>
      BY <1>4, <2>4 DEF Corrected, StayIdle
    <3>2. age' \in [Artifact -> Nat]
      BY <3>1, TouchType DEF TypeOK
    <3>3. QED
      BY <1>4, <2>1, <3>1, <3>2 DEF Corrected, TypeOK, JobOK
  <2>5. CASE ~demoted /\ a \notin t2
    BY <1>4, <2>1, <2>5 DEF Corrected, StayIdle, TypeOK, JobOK
  <2>6. QED
    BY <2>3, <2>4, <2>5
<1>5. ASSUME NEW a \in Artifact, NEW v \in Validity, ValidityChanged(a, v)
      PROVE  TypeOK' /\ JobOK'
  <2>1. validity' \in [Artifact -> Validity] /\ pc = "idle"
    BY <1>5 DEF ValidityChanged, Arrives, TypeOK
  <2>2. CASE ~WithoutValidityGate /\ v \in Stale /\ validity[a] \notin Stale
    <3>1. /\ DemoteToGhost(a)
          /\ recs' = recs \cup {<<"invalidate_or_correct", a>>}
      BY <1>5, <2>2 DEF ValidityChanged
    <3>2. QED
      BY <1>5, <2>1, <3>1, DemoteType, NoJobOK DEF ValidityChanged, TypeOK, JobOK
  <2>3. CASE ~(~WithoutValidityGate /\ v \in Stale /\ validity[a] \notin Stale)
    BY <1>5, <2>1, <2>3 DEF ValidityChanged, StayIdle, TypeOK, JobOK
  <2>4. QED
    BY <2>2, <2>3
<1>6. ASSUME NEW m \in Menu, PinnedEvent(m[2], m[1]) PROVE TypeOK' /\ JobOK'
  <2>1. m[2] \in Artifact
    BY <1>6, KArcAssumption DEF PinnedEvent, KArcAssumption
  <2>2. /\ nVal' \in [Artifact -> 0 .. MaxQuality]
        /\ nCorr' \in [Artifact -> 0 .. MaxQuality]
    BY <1>6, <1>c, <2>1 DEF PinnedEvent, TypeOK
  <2>3. recs' \subseteq {"split", "invalidate_or_correct", "cold_transition",
                         "contradiction_review", "unpin_review"} \X Artifact
    BY <1>6, <2>1 DEF PinnedEvent, TypeOK
  <2>4. QED
    BY <1>6, <2>2, <2>3 DEF PinnedEvent, StayIdle, TypeOK, JobOK
<1>7. ASSUME NEW a \in Artifact, NEW n \in BOOLEAN, Hit(a, n)
      PROVE  TypeOK' /\ JobOK'
  <2>1. age' \in [Artifact -> Nat]
    BY <1>7, TouchType DEF Hit, TypeOK
  <2>2. t1' \subseteq Artifact /\ t2' \subseteq Artifact
    BY <1>7 DEF Hit, Promote, TypeOK
  <2>3. QED
    BY <1>7, <2>1, <2>2 DEF Hit, StayIdle, TypeOK, JobOK
<1>8. ASSUME NEW a \in Artifact, GhostHit(a) PROVE TypeOK' /\ JobOK'
  <2>1. Adapt(a, b1, b2) \in Nat /\ Adapt(a, b2, b1) \in Nat
    BY AdaptType DEF TypeOK
  <2>2. c * PScale \in Nat /\ p \in Nat /\ p <= c * PScale
    BY <1>c DEF TypeOK
  <2>3. /\ Lesser(c * PScale, p + Adapt(a, b1, b2)) \in 0 .. c * PScale
        /\ Greater(0, p - Adapt(a, b2, b1)) \in 0 .. c * PScale
    BY <2>1, <2>2, PRange
  <2>4. p' \in 0 .. c * PScale /\ c' = c
    BY <1>8, <2>3 DEF GhostHit, ShrunkTarget, GrownTarget, TypeOK
  <2>5. /\ t1' \subseteq Artifact /\ t2' \subseteq Artifact
        /\ b1' \subseteq Artifact /\ b2' \subseteq Artifact
    BY <1>8 DEF GhostHit, TypeOK
  <2>6. age' \in [Artifact -> Nat]
    BY <1>8, TouchType DEF GhostHit, TypeOK
  <2>7. Cost(a, c) \in Nat
    BY CostType DEF TypeOK
  <2>8. job' \in Jobs /\ pc' \in Phases /\ JobOK'
    <3>1. CASE ~GatePasses(a) /\ DenyRevival
      BY <1>8, <3>1 DEF GhostHit, StayIdle, TypeOK, JobOK
    <3>2. CASE ~(~GatePasses(a) /\ DenyRevival)
      <4> DEFINE j == [art |-> a, need |-> Acct(a), fromB2 |-> a \notin b1,
                       to |-> IF GatePasses(a) THEN "T2" ELSE "T1"]
      <4>1. pc' = "evict" /\ job' = j
        BY <1>8, <3>2 DEF GhostHit, Begin
      <4>2. a \notin Pinned
        BY <1>8 DEF GhostHit, IsReference, Listed
      <4>3. j \in Jobs
        BY <2>7 DEF Jobs
      <4>4. QED
        BY <2>4, <4>1, <4>2, <4>3 DEF JobOK, Phases
    <3>3. QED
      BY <3>1, <3>2
  <2>9. QED
    BY <1>8, <2>4, <2>5, <2>6, <2>8 DEF GhostHit, TypeOK
<1>9. ASSUME NEW a \in Artifact, OversizeMiss(a) PROVE TypeOK' /\ JobOK'
  <2>1. recs' \subseteq {"split", "invalidate_or_correct", "cold_transition",
                         "contradiction_review", "unpin_review"} \X Artifact
    BY <1>9 DEF OversizeMiss, SplitRecs, TypeOK
  <2>2. QED
    BY <1>9, <2>1 DEF OversizeMiss, RestoreFromCold, StayIdle, TypeOK, JobOK
<1>10. ASSUME NEW a \in Artifact, CacheMiss(a) PROVE TypeOK' /\ JobOK'
  <2> DEFINE j == [art |-> a, need |-> Acct(a), fromB2 |-> FALSE, to |-> "T1"]
  <2>1. Cost(a, c) \in Nat
    BY CostType DEF TypeOK
  <2>2. pc' = "miss" /\ job' = j /\ c' = c
    BY <1>10 DEF CacheMiss, Begin
  <2>3. j \in Jobs /\ a \notin Pinned
    BY <1>10, <2>1 DEF Jobs, CacheMiss, IsReference, Listed
  <2>4. JobOK'
    BY <2>2, <2>3 DEF JobOK
  <2>5. QED
    BY <1>10, <2>2, <2>3, <2>4 DEF CacheMiss, TypeOK, Phases
<1>11. ASSUME NEW new \in Budgets, SetBudget(new) PROVE TypeOK' /\ JobOK'
  <2>1. p' \in 0 .. new * PScale
    <3>1. p \in Nat /\ new * PScale \in Nat
      BY <1>c DEF TypeOK
    <3>2. QED
      BY <1>11, <3>1 DEF SetBudget, Lesser
  <2>2. /\ t1' \subseteq Artifact /\ t2' \subseteq Artifact
        /\ b1' \subseteq Artifact /\ b2' \subseteq Artifact
        /\ oversize' \subseteq Artifact
        /\ cold' \subseteq Artifact /\ coldEver' \subseteq Artifact
    BY <1>11 DEF SetBudget, OversizeAt, TypeOK
  <2>3. recs' \subseteq {"split", "invalidate_or_correct", "cold_transition",
                         "contradiction_review", "unpin_review"} \X Artifact
    BY <1>11 DEF SetBudget, OversizeAt, SplitRecs, TypeOK, Resident
  <2>4. /\ c' = new /\ UNCHANGED <<age, nVal, nCorr, validity>>
        /\ pc' = "evict" /\ job' = NoJob
    BY <1>11 DEF SetBudget, Begin
  <2>5. QED
    BY <2>1, <2>2, <2>3, <2>4, NoJobOK DEF TypeOK, JobOK, Phases
<1>12. ASSUME Loop PROVE TypeOK' /\ JobOK'
  BY <1>12, LoopType
<1>13. ASSUME UNCHANGED vars PROVE TypeOK' /\ JobOK'
  BY <1>13 DEF vars, TypeOK, JobOK
<1>14. QED
  BY <1>1, <1>2, <1>3, <1>4, <1>5, <1>6, <1>7, <1>8, <1>9, <1>10, <1>11,
     <1>12, <1>13 DEF Next, Event, QualityEvent

\* TypeOK holds in every reachable state; in particular p never leaves [0, c]
\* (I5), whichever mixture of ghost hits and budget changes moved it.
THEOREM TypeCorrect == Spec => []TypeOK
<1>1. Spec => [](TypeOK /\ JobOK)
  BY TypeInit, TypeStep, PTL DEF Spec
<1>2. QED
  BY <1>1, PTL

(***************************************************************************)
(* I1: the four lists stay disjoint, and disjoint from the artifact a      *)
(* handler holds between taking it out of a list and admitting it.         *)
(***************************************************************************)
LEMMA DemoteLists ==
  ASSUME TypeOK, JobOK, ListsDisjoint, pc = "idle",
         NEW a \in Artifact, DemoteToGhost(a)
  PROVE  ListsDisjoint'
<1>1. None \notin Artifact
  BY KArcAssumption DEF KArcAssumption
<1>2. job' = NoJob /\ NoJob.art = None
  BY DemoteType DEF NoJob
<1>3. CASE a \in Resident
  <2>1. t1' = t1 \ {a} /\ t2' = t2 \ {a} /\ b1' = b1 \cup {a} /\ b2' = b2
    BY <1>3 DEF DemoteToGhost
  <2>2. /\ t1' \cap t2' = {} /\ b1' \cap b2' = {}
        /\ (t1' \cup t2') \cap (b1' \cup b2') = {}
        /\ (t1' \cup t2' \cup b1' \cup b2') \cap Pinned = {}
    BY <1>3, <2>1 DEF ListsDisjoint, Resident, Directory
  <2>3. None \notin t1' \cup t2' \cup b1' \cup b2'
    BY <1>1, <2>1 DEF TypeOK
  <2>4. QED
    BY <1>2, <2>2, <2>3 DEF ListsDisjoint, Resident, Directory
<1>4. CASE a \notin Resident
  BY <1>4 DEF DemoteToGhost, StayIdle, lists, control, ListsDisjoint,
              Resident, Directory
<1>5. QED
  BY <1>3, <1>4

LEMMA ListsStep ==
  TypeOK /\ JobOK /\ ListsDisjoint /\ [Next]_vars => ListsDisjoint'
<1> SUFFICES ASSUME TypeOK, JobOK, ListsDisjoint, [Next]_vars
             PROVE  ListsDisjoint'
  OBVIOUS
<1>n. None \notin Artifact /\ NoJob.art = None
  BY KArcAssumption DEF KArcAssumption, NoJob
<1> USE DEF lists, quality, coldVars, control
<1>1. ASSUME UNCHANGED <<t1, t2, b1, b2, job>> PROVE ListsDisjoint'
  BY <1>1 DEF ListsDisjoint, Resident, Directory
<1>2. ASSUME NEW a \in Artifact, Corrected(a) PROVE ListsDisjoint'
  <2>1. CASE DemoteToGhost(a)
    BY <1>2, <2>1, DemoteLists DEF Corrected, Listed, Arrives
  <2>2. CASE a \in t2 /\ t2' = t2 \ {a} /\ t1' = t1 \cup {a} /\ UNCHANGED <<b1, b2, job>>
    BY <1>2, <2>2 DEF ListsDisjoint, Resident, Directory
  <2>3. QED
    BY <1>1, <1>2, <2>1, <2>2 DEF Corrected, StayIdle
<1>3. ASSUME NEW a \in Artifact, NEW v \in Validity, ValidityChanged(a, v)
      PROVE  ListsDisjoint'
  <2>1. CASE DemoteToGhost(a)
    BY <1>3, <2>1, DemoteLists DEF ValidityChanged, Arrives
  <2>2. QED
    BY <1>1, <1>3, <2>1 DEF ValidityChanged, StayIdle
<1>4. ASSUME NEW a \in Artifact, NEW n \in BOOLEAN, Hit(a, n)
      PROVE  ListsDisjoint'
  BY <1>4 DEF Hit, Promote, StayIdle, ListsDisjoint, Resident, Directory
<1>5. ASSUME NEW a \in Artifact, GhostHit(a) PROVE ListsDisjoint'
  <2>1. CASE ~GatePasses(a) /\ DenyRevival
    BY <1>1, <1>5, <2>1 DEF GhostHit, StayIdle
  <2>2. CASE ~(~GatePasses(a) /\ DenyRevival)
    <3>1. /\ b1' = b1 \ {a} /\ b2' = IF a \notin b1 THEN b2 \ {a} ELSE b2
          /\ UNCHANGED <<t1, t2>> /\ a \in (b1 \cup b2) \ Resident
          /\ job'.art = a
      BY <1>5, <2>2 DEF GhostHit, Begin
    <3>2. a \notin t1' \cup t2' \cup b1' \cup b2'
      BY <3>1 DEF ListsDisjoint, Resident
    <3>3. QED
      BY <3>1, <3>2 DEF ListsDisjoint, Resident, Directory
  <2>3. QED
    BY <2>1, <2>2
<1>6. ASSUME NEW a \in Artifact, CacheMiss(a) PROVE ListsDisjoint'
  BY <1>6 DEF CacheMiss, Begin, ListsDisjoint, Resident, Directory
<1>7. ASSUME NEW new \in Budgets, SetBudget(new) PROVE ListsDisjoint'
  <2>1. /\ t1' \subseteq t1 /\ t2' \subseteq t2 /\ b1' \subseteq b1 /\ b2' \subseteq b2
        /\ job' = NoJob
    BY <1>7 DEF SetBudget, OversizeAt, Begin
  <2>2. QED
    BY <1>n, <2>1 DEF ListsDisjoint, Resident, Directory, TypeOK
<1>8. ASSUME MissTrimB1 \/ MissDeleteT1 \/ MissTrimB2 \/ BoundB1 \/ BoundB2
      PROVE  ListsDisjoint'
  <2>1. /\ t1' \subseteq t1 /\ t2' \subseteq t2 /\ b1' \subseteq b1 /\ b2' \subseteq b2
        /\ job' = job
    BY <1>8 DEF MissTrimB1, MissDeleteT1, MissTrimB2, BoundB1, BoundB2, Begin
  <2>2. QED
    BY <2>1 DEF ListsDisjoint, Resident, Directory
<1>9. ASSUME EvictToB1 PROVE ListsDisjoint'
  <2>1. PICK v \in t1 : t1' = t1 \ {v} /\ b1' = b1 \cup {v}
    BY <1>9 DEF EvictToB1
  <2>2. UNCHANGED <<t2, b2, job>>
    BY <1>9 DEF EvictToB1, Begin
  <2>3. QED
    BY <2>1, <2>2 DEF ListsDisjoint, Resident, Directory
<1>10. ASSUME EvictToB2 PROVE ListsDisjoint'
  <2>1. PICK v \in t2 : t2' = t2 \ {v} /\ b2' = b2 \cup {v}
    BY <1>10 DEF EvictToB2
  <2>2. UNCHANGED <<t1, b1, job>>
    BY <1>10 DEF EvictToB2, Begin
  <2>3. QED
    BY <2>1, <2>2 DEF ListsDisjoint, Resident, Directory
<1>11. ASSUME Admit PROVE ListsDisjoint'
  <2>1. job.art \in Artifact \ Pinned
    BY <1>11 DEF Admit, JobOK
  <2>2. /\ \/ t1' = t1 \cup {job.art} /\ t2' = t2
           \/ t2' = t2 \cup {job.art} /\ t1' = t1
        /\ UNCHANGED <<b1, b2>> /\ job' = NoJob
    BY <1>11 DEF Admit, Finish
  <2>3. QED
    BY <1>n, <2>1, <2>2 DEF ListsDisjoint, Resident, Directory, TypeOK
<1>12. ASSUME EndHandler PROVE ListsDisjoint'
  BY <1>n, <1>12 DEF EndHandler, Finish, ListsDisjoint, Resident, Directory, TypeOK
<1>13. QED
  <2>1. ASSUME NEW a \in Artifact, Event(a) PROVE ListsDisjoint'
    <3>1. CASE Validated(a) \/ Conflicted(a) \/ Discovered(a) \/ OversizeMiss(a)
      BY <1>1, <3>1 DEF Validated, Conflicted, Discovered, OversizeMiss, StayIdle
    <3>2. QED
      BY <1>2, <1>3, <1>4, <1>5, <1>6, <2>1, <3>1 DEF Event, QualityEvent
  <2>2. ASSUME NEW m \in Menu, PinnedEvent(m[2], m[1]) PROVE ListsDisjoint'
    BY <1>1, <2>2 DEF PinnedEvent, StayIdle
  <2>3. CASE UNCHANGED vars
    BY <1>1, <2>3 DEF vars
  <2>4. QED
    BY <1>7, <1>8, <1>9, <1>10, <1>11, <1>12, <2>1, <2>2, <2>3 DEF Next, Loop

LEMMA ListsInit == Init => ListsDisjoint
BY KArcAssumption
   DEF Init, ListsDisjoint, Resident, Directory, NoJob

\* No artifact is ever in two lists, none is doubled while a handler moves
\* it, and a pinned artifact is in no list (I1).
THEOREM ListsAreDisjoint == Spec => []ListsDisjoint
<1>1. Spec => [](TypeOK /\ JobOK /\ ListsDisjoint)
  BY TypeInit, TypeStep, ListsInit, ListsStep, PTL DEF Spec
<1>2. QED
  BY <1>1, PTL

(***************************************************************************)
(* I2: the resident set fits the budget between events.  What makes it     *)
(* inductive is that the eviction loop hands the bound, with the room the  *)
(* admitted artifact needs, to the ghost-bound loop and to Admit.          *)
(***************************************************************************)
Room == pc \in {"idle", "bounds"} => Tok(t1) + Tok(t2) + Need <= c

LEMMA TokTypes ==
  ASSUME TypeOK
  PROVE  /\ Tok(t1) \in Nat /\ Tok(t2) \in Nat /\ Tok(b1) \in Nat
         /\ Tok(b2) \in Nat /\ Need \in Nat /\ c \in Nat
<1>1. c \in Nat /\ Need \in Nat
  BY KArcAssumption DEF KArcAssumption, TypeOK, Jobs, Need
<1>2. QED
  BY <1>1, TokensFinite DEF Tok, TypeOK

\* a job needs at most the whole budget
LEMMA NeedFits ==
  ASSUME TypeOK, JobOK
  PROVE  Need <= c
<1>1. CASE job.to = "none"
  BY <1>1, TokTypes DEF JobOK, NoJob, Need
<1>2. CASE job.to # "none"
  BY <1>2, CostType DEF JobOK, Need, Acct, TypeOK
<1>3. QED
  BY <1>1, <1>2

\* once the eviction loop is over there is room for the job
LEMMA BoundingRoom ==
  ASSUME TypeOK, JobOK, Room, Bounding
  PROVE  Tok(t1) + Tok(t2) + Need <= c
<1>1. CASE pc = "bounds"
  BY <1>1 DEF Room
<1>2. CASE ~ResidentFull
  BY <1>2, TokTypes DEF ResidentFull
<1>3. CASE Resident = {}
  <2>1. t1 = {} /\ t2 = {}
    BY <1>3 DEF Resident
  <2>2. Tok(t1) = 0 /\ Tok(t2) = 0
    BY <2>1, TokEmpty DEF Tok
  <2>3. QED
    BY <2>2, NeedFits, TokTypes
<1>4. QED
  BY <1>1, <1>2, <1>3 DEF Bounding, EvictNow

\* a resident list that loses entries has no more tokens than before
LEMMA TokShrink ==
  ASSUME TypeOK, c' = c, t1' \subseteq t1, t2' \subseteq t2
  PROVE  Tok(t1)' + Tok(t2)' <= Tok(t1) + Tok(t2)
<1>1. TokAt(t1', c) <= TokAt(t1, c) /\ TokAt(t2', c) <= TokAt(t2, c)
  BY TokSubset DEF TypeOK
<1>2. t1' \in SUBSET Artifact /\ t2' \in SUBSET Artifact
  BY DEF TypeOK
<1>3. TokAt(t1', c) \in Nat /\ TokAt(t2', c) \in Nat
  BY <1>2, TokensFinite DEF TypeOK
<1>4. QED
  BY <1>1, <1>3, TokTypes DEF Tok

\* a demotion takes tokens out of the resident set and holds no job
LEMMA DemoteRoom ==
  ASSUME TypeOK, JobOK, Room, pc = "idle", c' = c,
         NEW a \in Artifact, DemoteToGhost(a)
  PROVE  Room'
<1>1. t1' \subseteq t1 /\ t2' \subseteq t2
  BY DEF DemoteToGhost, lists
<1>2. Tok(t1)' + Tok(t2)' <= Tok(t1) + Tok(t2)
  BY <1>1, TokShrink
<1>3. Need' = 0 /\ Need = 0
  BY DemoteType DEF Need, NoJob, JobOK
<1>4. Tok(t1) + Tok(t2) <= c
  BY <1>3, TokTypes DEF Room
<1>5. t1' \in SUBSET Artifact /\ t2' \in SUBSET Artifact
  BY <1>1 DEF TypeOK
<1>6. Tok(t1)' \in Nat /\ Tok(t2)' \in Nat
  BY <1>5, TokensFinite DEF Tok, TypeOK
<1>7. QED
  BY <1>2, <1>3, <1>4, <1>6, TokTypes DEF Room

\* an artifact moves from one resident list to the other
LEMMA MoveTokens ==
  ASSUME NEW b \in Budgets, NEW S \in SUBSET Artifact, NEW T \in SUBSET Artifact,
         NEW a \in S, a \notin T
  PROVE  TokAt(S \ {a}, b) + TokAt(T \cup {a}, b) = TokAt(S, b) + TokAt(T, b)
<1>1. TokAt(S \ {a}, b) = TokAt(S, b) - Cost(a, b)
  BY TokRemove
<1>2. TokAt(T \cup {a}, b) = TokAt(T, b) + Cost(a, b)
  BY TokInsert
<1>3. TokAt(S, b) \in Nat /\ TokAt(T, b) \in Nat /\ Cost(a, b) \in Nat
  BY TokensFinite, CostType
<1>4. QED
  BY <1>1, <1>2, <1>3

LEMMA RoomStep ==
  TypeOK /\ JobOK /\ ListsDisjoint /\ Room /\ [Next]_vars => Room'
<1> SUFFICES ASSUME TypeOK, JobOK, ListsDisjoint, Room, [Next]_vars
             PROVE  Room'
  OBVIOUS
<1> USE DEF lists, quality, coldVars, control
<1>t. TypeOK' /\ JobOK'
  BY TypeStep
<1>1. ASSUME UNCHANGED <<t1, t2, c, job, pc>> PROVE Room'
  BY <1>1 DEF Room, Tok, Need
<1>2. ASSUME pc' \notin {"idle", "bounds"} PROVE Room'
  BY <1>2 DEF Room
<1>3. ASSUME NEW a \in Artifact, Corrected(a) PROVE Room'
  <2>1. pc = "idle" /\ c' = c
    BY <1>3 DEF Corrected, Listed, Arrives
  <2>2. CASE DemoteToGhost(a)
    BY <2>1, <2>2, DemoteRoom
  <2>3. CASE a \in t2 /\ t2' = t2 \ {a} /\ t1' = t1 \cup {a} /\ UNCHANGED <<pc, job>>
    <3>1. a \notin t1
      BY <2>3 DEF ListsDisjoint
    <3>2. TokAt(t2', c) + TokAt(t1', c) = TokAt(t2, c) + TokAt(t1, c)
      BY <2>3, <3>1, MoveTokens DEF TypeOK
    <3>3. QED
      BY <2>1, <2>3, <3>2, <1>t, TokTypes, TokensFinite DEF Room, Tok, Need, TypeOK
  <2>4. QED
    BY <1>1, <1>3, <2>1, <2>2, <2>3 DEF Corrected, StayIdle
<1>4. ASSUME NEW a \in Artifact, NEW v \in Validity, ValidityChanged(a, v)
      PROVE  Room'
  <2>1. CASE DemoteToGhost(a)
    BY <1>4, <2>1, DemoteRoom DEF ValidityChanged, Arrives
  <2>2. QED
    BY <1>1, <1>4, <2>1 DEF ValidityChanged, StayIdle
<1>5. ASSUME NEW a \in Artifact, NEW n \in BOOLEAN, Hit(a, n) PROVE Room'
  <2>1. CASE a \in t1 /\ t1' = t1 \ {a} /\ t2' = t2 \cup {a}
    <3>1. a \notin t2
      BY <2>1 DEF ListsDisjoint
    <3>2. TokAt(t1', c) + TokAt(t2', c) = TokAt(t1, c) + TokAt(t2, c)
      BY <2>1, <3>1, MoveTokens DEF TypeOK
    <3>3. UNCHANGED <<c, pc, job>>
      BY <1>5 DEF Hit, StayIdle
    <3>4. QED
      BY <3>2, <3>3, <1>t, TokTypes DEF Room, Tok, Need
  <2>2. QED
    BY <1>1, <1>5, <2>1 DEF Hit, Promote, StayIdle
<1>6. ASSUME NEW a \in Artifact, GhostHit(a) PROVE Room'
  BY <1>1, <1>2, <1>6 DEF GhostHit, Begin, StayIdle
<1>7. ASSUME BoundB1 \/ BoundB2 PROVE Room'
  <2>1. Bounding /\ UNCHANGED <<t1, t2, c, job>>
    BY <1>7 DEF BoundB1, BoundB2, Begin
  <2>2. QED
    BY <2>1, BoundingRoom DEF Room, Tok, Need
<1>8. ASSUME Admit PROVE Room'
  <2>1. /\ job.art \in Artifact /\ Need = Cost(job.art, c)
        /\ job.art \notin t1 /\ job.art \notin t2
    BY <1>8 DEF Admit, JobOK, Need, Acct, ListsDisjoint, Directory
  <2>2. Tok(t1) + Tok(t2) + Need <= c
    BY <1>8, BoundingRoom DEF Admit, Bounded
  <2>3. Need' = 0 /\ c' = c
    BY <1>8 DEF Admit, Finish, Need, NoJob
  <2>4. CASE t2' = t2 \cup {job.art} /\ t1' = t1
    <3>1. TokAt(t2', c) = TokAt(t2, c) + Cost(job.art, c)
      BY <2>1, <2>4, TokInsert DEF TypeOK
    <3>2. QED
      BY <2>1, <2>2, <2>3, <2>4, <3>1, TokTypes DEF Room, Tok
  <2>5. CASE t1' = t1 \cup {job.art} /\ t2' = t2
    <3>1. TokAt(t1', c) = TokAt(t1, c) + Cost(job.art, c)
      BY <2>1, <2>5, TokInsert DEF TypeOK
    <3>2. QED
      BY <2>1, <2>2, <2>3, <2>5, <3>1, TokTypes DEF Room, Tok
  <2>6. QED
    BY <1>8, <2>4, <2>5 DEF Admit
<1>9. ASSUME EndHandler PROVE Room'
  <2>1. Tok(t1) + Tok(t2) + Need <= c
    BY <1>9, BoundingRoom DEF EndHandler, Bounded
  <2>2. Need' = 0 /\ UNCHANGED <<t1, t2, c>>
    BY <1>9 DEF EndHandler, Finish, Need, NoJob
  <2>3. QED
    BY <2>1, <2>2, TokTypes DEF Room, Tok
<1>10. ASSUME MissTrimB1 \/ MissDeleteT1 \/ MissTrimB2 PROVE Room'
  BY <1>2, <1>10 DEF MissTrimB1, MissDeleteT1, MissTrimB2
<1>11. ASSUME EvictToB1 \/ EvictToB2 PROVE Room'
  BY <1>2, <1>11 DEF EvictToB1, EvictToB2, Begin
<1>12. ASSUME NEW new \in Budgets, SetBudget(new) PROVE Room'
  BY <1>2, <1>12 DEF SetBudget, Begin
<1>13. ASSUME NEW m \in Menu, PinnedEvent(m[2], m[1]) PROVE Room'
  BY <1>1, <1>13 DEF PinnedEvent, StayIdle
<1>14. ASSUME NEW a \in Artifact, Event(a) PROVE Room'
  <2>1. CASE Validated(a) \/ Conflicted(a) \/ Discovered(a) \/ OversizeMiss(a)
    BY <1>1, <2>1 DEF Validated, Conflicted, Discovered, OversizeMiss, StayIdle
  <2>2. CASE CacheMiss(a)
    BY <1>2, <2>2 DEF CacheMiss, Begin
  <2>3. QED
    BY <1>3, <1>4, <1>5, <1>6, <1>14, <2>1, <2>2 DEF Event, QualityEvent
<1>15. CASE UNCHANGED vars
  BY <1>1, <1>15 DEF vars
<1>16. QED
  BY <1>7, <1>8, <1>9, <1>10, <1>11, <1>12, <1>13, <1>14, <1>15 DEF Next, Loop

LEMMA RoomInit == Init => Room
<1> SUFFICES ASSUME Init PROVE Room
  OBVIOUS
<1>1. Tok(t1) = 0 /\ Tok(t2) = 0 /\ Need = 0
  BY TokEmpty DEF Init, Tok, Need, NoJob
<1>2. c \in Nat
  BY KArcAssumption DEF Init, KArcAssumption
<1>3. QED
  BY <1>1, <1>2 DEF Room

\* Between events the accounted tokens of T1 and T2 fit the budget, for every
\* registry, budget, admission threshold and sequence of events (I2).
THEOREM ResidentsFit == Spec => []ResidentWithinBudget
<1>1. TypeOK /\ JobOK /\ Room => ResidentWithinBudget
  <2> SUFFICES ASSUME TypeOK, JobOK, Room, pc = "idle"
               PROVE  Tok(t1) + Tok(t2) <= c
    BY DEF ResidentWithinBudget, Idle
  <2>1. Need = 0 /\ Tok(t1) + Tok(t2) + Need <= c
    BY DEF JobOK, NoJob, Need, Room
  <2>2. QED
    BY <2>1, TokTypes
<1>2. Spec => [](TypeOK /\ JobOK /\ ListsDisjoint /\ Room)
  BY TypeInit, TypeStep, ListsInit, ListsStep, RoomInit, RoomStep, PTL DEF Spec
<1>3. QED
  BY <1>1, <1>2, PTL

(***************************************************************************)
(* The directory: what enters and leaves it, and what it is tagged with.   *)
(***************************************************************************)

\* What a step takes out of the directory, and what it tags as cold.
Accounted ==
  /\ (cold' \ cold) \cap (Directory' \cup Protected) = {}
  /\ (coldEver' \ coldEver) \cap Protected = {}
  /\ \A x \in Directory \ Directory' :
       \/ x = job'.art \/ x \in oversize'
       \/ x \in Protected => <<"cold_transition", x>> \in recs'

\* a demotion moves an artifact from one list to another
LEMMA DemoteKeeps ==
  ASSUME NEW a, DemoteToGhost(a)
  PROVE  Directory' = Directory
BY DEF DemoteToGhost, Directory, Resident, lists

\* a list loses its last entry, which is tagged or announced
LEMMA TrimAccounts ==
  ASSUME TypeOK, ListsDisjoint, NEW v \in Directory,
         Directory' = Directory \ {v}, ToCold({v})
  PROVE  Accounted
BY DEF ToCold, Accounted

LEMMA LoopAccounts ==
  ASSUME TypeOK, JobOK, ListsDisjoint, Loop
  PROVE  /\ Accounted
         /\ Directory' \subseteq Directory \/ (Admit /\ Directory' = Directory \cup {job.art})
<1> USE DEF lists, quality, coldVars, control
<1>1. CASE MissTrimB1 \/ BoundB1
  <2>1. PICK v \in b1 : b1' = b1 \ {v} /\ ToCold({v})
    BY <1>1 DEF MissTrimB1, BoundB1
  <2>2. UNCHANGED <<t1, t2, b2>>
    BY <1>1 DEF MissTrimB1, BoundB1
  <2>3. v \in Directory /\ Directory' = Directory \ {v}
    BY <2>1, <2>2 DEF Directory, Resident, ListsDisjoint
  <2>4. QED
    BY <2>1, <2>3, TrimAccounts
<1>2. CASE MissDeleteT1
  <2>1. PICK v \in t1 : t1' = t1 \ {v} /\ ToCold({v})
    BY <1>2 DEF MissDeleteT1
  <2>2. UNCHANGED <<t2, b1, b2>>
    BY <1>2 DEF MissDeleteT1
  <2>3. v \in Directory /\ Directory' = Directory \ {v}
    BY <2>1, <2>2 DEF Directory, Resident, ListsDisjoint
  <2>4. QED
    BY <2>1, <2>3, TrimAccounts
<1>3. CASE MissTrimB2 \/ BoundB2
  <2>1. PICK v \in b2 : b2' = b2 \ {v} /\ ToCold({v})
    BY <1>3 DEF MissTrimB2, BoundB2
  <2>2. UNCHANGED <<t1, t2, b1>>
    BY <1>3 DEF MissTrimB2, BoundB2
  <2>3. v \in Directory /\ Directory' = Directory \ {v}
    BY <2>1, <2>2 DEF Directory, Resident, ListsDisjoint
  <2>4. QED
    BY <2>1, <2>3, TrimAccounts
<1>4. CASE EvictToB1 \/ EvictToB2
  <2>1. Directory' = Directory
    BY <1>4 DEF EvictToB1, EvictToB2, Directory, Resident
  <2>2. QED
    BY <1>4, <2>1 DEF EvictToB1, EvictToB2, Accounted
<1>5. CASE Admit
  <2>1. Directory' = Directory \cup {job.art}
    BY <1>5 DEF Admit, Directory, Resident
  <2>2. QED
    BY <1>5, <2>1 DEF Admit, RestoreFromCold, Accounted
<1>6. CASE EndHandler
  BY <1>6 DEF EndHandler, Accounted, Directory, Resident
<1>7. QED
  BY <1>1, <1>2, <1>3, <1>4, <1>5, <1>6 DEF Loop

LEMMA StepAccounts ==
  ASSUME TypeOK, JobOK, ListsDisjoint, [Next]_vars
  PROVE  /\ Accounted
         /\ Directory' \subseteq Directory \/ (Admit /\ Directory' = Directory \cup {job.art})
<1> USE DEF lists, quality, coldVars, control
<1>1. ASSUME Directory' = Directory, UNCHANGED coldVars PROVE Accounted
  BY <1>1 DEF Accounted
<1>2. ASSUME UNCHANGED <<t1, t2, b1, b2>> PROVE Directory' = Directory
  BY <1>2 DEF Directory, Resident
<1>3. ASSUME NEW a \in Artifact, QualityEvent(a) \/ Discovered(a) \/ (\E n \in BOOLEAN : Hit(a, n))
      PROVE  Directory' = Directory /\ UNCHANGED coldVars
  <2>1. CASE Validated(a) \/ Conflicted(a) \/ Discovered(a)
    BY <1>2, <2>1 DEF Validated, Conflicted, Discovered
  <2>2. CASE Corrected(a)
    <3>1. CASE DemoteToGhost(a)
      BY <2>2, <3>1, DemoteKeeps DEF Corrected
    <3>2. CASE a \in t2 /\ t2' = t2 \ {a} /\ t1' = t1 \cup {a} /\ UNCHANGED <<b1, b2>>
      BY <2>2, <3>2 DEF Corrected, Directory, Resident
    <3>3. QED
      BY <1>2, <2>2, <3>1, <3>2 DEF Corrected
  <2>3. ASSUME NEW v \in Validity, ValidityChanged(a, v)
        PROVE  Directory' = Directory /\ UNCHANGED coldVars
    BY <1>2, <2>3, DemoteKeeps DEF ValidityChanged
  <2>4. ASSUME NEW n \in BOOLEAN, Hit(a, n)
        PROVE  Directory' = Directory /\ UNCHANGED coldVars
    BY <2>4 DEF Hit, Promote, Directory, Resident
  <2>5. QED
    BY <1>3, <2>1, <2>2, <2>3, <2>4 DEF QualityEvent
<1>4. ASSUME NEW a \in Artifact, GhostHit(a) PROVE Accounted /\ Directory' \subseteq Directory
  <2>1. CASE ~GatePasses(a) /\ DenyRevival
    BY <1>1, <1>2, <1>4, <2>1 DEF GhostHit
  <2>2. CASE ~(~GatePasses(a) /\ DenyRevival)
    <3>1. /\ b1 \ {a} \subseteq b1' /\ b1' \subseteq b1 /\ b2 \ {a} \subseteq b2' /\ b2' \subseteq b2
          /\ job'.art = a /\ UNCHANGED <<t1, t2, coldVars>>
      BY <1>4, <2>2 DEF GhostHit, Begin
    <3>2. QED
      BY <3>1 DEF Accounted, Directory, Resident
  <2>3. QED
    BY <2>1, <2>2
<1>5. ASSUME NEW a \in Artifact, OversizeMiss(a) PROVE Accounted /\ Directory' = Directory
  BY <1>2, <1>5 DEF OversizeMiss, RestoreFromCold, Accounted
<1>6. ASSUME NEW a \in Artifact, CacheMiss(a) PROVE Accounted /\ Directory' = Directory
  BY <1>1, <1>2, <1>6 DEF CacheMiss
<1>7. ASSUME NEW m \in Menu, PinnedEvent(m[2], m[1]) PROVE Accounted /\ Directory' = Directory
  BY <1>1, <1>2, <1>7 DEF PinnedEvent
<1>8. ASSUME NEW new \in Budgets, SetBudget(new) PROVE Accounted /\ Directory' \subseteq Directory
  <2> DEFINE large == OversizeAt(new)
             ghosts == (b1 \cup b2) \cap large
  <2>1. /\ t1' = t1 \ large /\ t2' = t2 \ large /\ b1' = b1 \ large /\ b2' = b2 \ large
        /\ oversize' = oversize \cup (Resident \cap large)
        /\ cold' = cold \cup (ghosts \ Protected)
        /\ coldEver' = coldEver \cup (ghosts \ Protected)
        /\ \A x \in ghosts \cap Protected : <<"cold_transition", x>> \in recs'
    BY <1>8 DEF SetBudget
  <2>2. Directory' = Directory \ large
    BY <2>1 DEF Directory, Resident
  <2>3. \A x \in Directory \ Directory' : x \in Resident \cap large \/ x \in ghosts
    BY <2>2 DEF Directory, Resident
  <2>4. QED
    BY <2>1, <2>2, <2>3 DEF Accounted
<1>9. CASE UNCHANGED vars
  BY <1>1, <1>2, <1>9 DEF vars
<1>10. QED
  BY <1>1, <1>3, <1>4, <1>5, <1>6, <1>7, <1>8, <1>9, LoopAccounts DEF Next, Event

\* A cold artifact is out of the directory: what returns is admitted, and
\* loses its tag with that.
LEMMA ColdStep ==
  TypeOK /\ JobOK /\ ListsDisjoint /\ ColdOutsideDirectory /\ [Next]_vars
    => ColdOutsideDirectory'
<1> SUFFICES ASSUME TypeOK, JobOK, ListsDisjoint, ColdOutsideDirectory, [Next]_vars
             PROVE  ColdOutsideDirectory'
  OBVIOUS
<1>1. /\ (cold' \ cold) \cap Directory' = {}
      /\ Directory' \subseteq Directory \/ (Admit /\ Directory' = Directory \cup {job.art})
  BY StepAccounts DEF Accounted
<1>2. Admit => job.art \notin cold'
  BY DEF Admit, RestoreFromCold
<1>3. QED
  BY <1>1, <1>2 DEF ColdOutsideDirectory

LEMMA CriticalStep ==
  TypeOK /\ JobOK /\ ListsDisjoint /\ CriticalNeverCold /\ [Next]_vars
    => CriticalNeverCold'
BY StepAccounts DEF Accounted, CriticalNeverCold, Protected

(***************************************************************************)
(* What a list holds fits under the threshold of the current budget, and   *)
(* what T2 holds passed the gate and has not failed it since.              *)
(***************************************************************************)
Fits ==
  /\ NoOversizeListed
  /\ job.to # "none" => ~IsOversize(job.art)

\* what a handler holds is what it held, or what an access has just named
LEMMA NewJob ==
  ASSUME JobOK, [Next]_vars
  PROVE  \/ job' = job \/ job' = NoJob
         \/ \E a \in Artifact : /\ job'.art = a /\ UNCHANGED <<c, quality>>
                                /\ job'.to = "T2" => GatePasses(a)
                                /\ CacheMiss(a) \/ a \in Directory
<1> USE DEF control
<1>1. CASE Loop
  BY <1>1 DEF Loop, MissTrimB1, MissDeleteT1, MissTrimB2, EvictToB1, EvictToB2,
              BoundB1, BoundB2, Admit, EndHandler, Begin, Finish
<1>2. ASSUME NEW a \in Artifact, Event(a), job' # job, job' # NoJob
      PROVE  /\ job'.art = a /\ UNCHANGED <<c, quality>>
             /\ job'.to = "T2" => GatePasses(a)
             /\ CacheMiss(a) \/ a \in Directory
  <2>1. GhostHit(a) \/ CacheMiss(a)
    BY <1>2 DEF Event, QualityEvent, Validated, Corrected, Conflicted, ValidityChanged,
                Discovered, Hit, OversizeMiss, DemoteToGhost, Begin, StayIdle
  <2>2. CASE GhostHit(a)
    BY <1>2, <2>2 DEF GhostHit, Begin, StayIdle, Directory, quality
  <2>3. CASE CacheMiss(a)
    BY <2>3 DEF CacheMiss, Begin, quality
  <2>4. QED
    BY <2>1, <2>2, <2>3
<1>3. CASE \E new \in Budgets : SetBudget(new)
  BY <1>3 DEF SetBudget, Begin
<1>4. CASE UNCHANGED vars
  BY <1>4 DEF vars
<1>5. CASE \E m \in Menu : PinnedEvent(m[2], m[1])
  BY <1>5 DEF PinnedEvent, StayIdle
<1>6. QED
  BY <1>1, <1>2, <1>3, <1>4, <1>5 DEF Next

\* only set_budget changes the threshold
LEMMA SameBudget ==
  ASSUME [Next]_vars
  PROVE  c' = c \/ \E new \in Budgets : SetBudget(new)
BY DEF Next, vars, Event, QualityEvent, Validated, Corrected, Conflicted, ValidityChanged,
       Discovered, Hit, GhostHit, OversizeMiss, CacheMiss, PinnedEvent, Loop, MissTrimB1,
       MissDeleteT1, MissTrimB2, EvictToB1, EvictToB2, BoundB1, BoundB2, Admit, EndHandler

LEMMA FitsStep ==
  TypeOK /\ JobOK /\ ListsDisjoint /\ Fits /\ [Next]_vars => Fits'
<1> SUFFICES ASSUME TypeOK, JobOK, ListsDisjoint, Fits, [Next]_vars PROVE Fits'
  OBVIOUS
<1>1. ASSUME NEW new \in Budgets, SetBudget(new) PROVE Fits'
  <2>1. /\ Directory' = Directory \ OversizeAt(new) /\ c' = new /\ job' = NoJob
    BY <1>1 DEF SetBudget, Begin, Directory, Resident
  <2>2. Directory \subseteq Artifact
    BY DEF TypeOK, Directory, Resident
  <2>3. QED
    BY <2>1, <2>2 DEF Fits, NoOversizeListed, IsOversize, OversizeAt, NoJob
<1>2. CASE c' = c
  <2>1. \A x : IsOversize(x)' <=> IsOversize(x)
    BY <1>2 DEF IsOversize
  <2>2. NoOversizeListed'
    <3>1. Directory' \subseteq Directory \/ (Admit /\ Directory' = Directory \cup {job.art})
      BY StepAccounts
    <3>2. Admit => ~IsOversize(job.art)
      BY DEF Admit, Fits
    <3>3. QED
      BY <2>1, <3>1, <3>2 DEF Fits, NoOversizeListed
  <2>3. job'.to # "none" => ~IsOversize(job'.art)
    <3>1. CASE job' = job \/ job' = NoJob
      BY <3>1 DEF Fits, NoJob
    <3>2. CASE \E a \in Artifact : job'.art = a /\ (CacheMiss(a) \/ a \in Directory)
      BY <3>2 DEF Fits, NoOversizeListed, CacheMiss
    <3>3. QED
      BY <3>1, <3>2, NewJob
  <2>4. QED
    BY <2>1, <2>2, <2>3 DEF Fits
<1>3. QED
  BY <1>1, <1>2, SameBudget

\* what T2 demands of an artifact for good
Clean(a) ==
  /\ WithoutValidityGate \/ validity[a] \notin Stale
  /\ ~Harmful(a) /\ ~LowQuality(a) /\ ~IsOversize(a)

LEMMA GateIsClean == ASSUME NEW a, GatePasses(a) PROVE Clean(a)
BY DEF GatePasses, Clean, Stale

TidyT2 == T2Clean /\ (job.to = "T2" => Clean(job.art))

LEMMA SameClean ==
  ASSUME NEW a, validity'[a] = validity[a], nVal'[a] = nVal[a], nCorr'[a] = nCorr[a],
         c' = c, Clean(a)
  PROVE  Clean(a)'
BY DEF Clean, Harmful, LowQuality, QNum, QDen, IsOversize

\* what enters T2 passed the gate in this step or when its handler began
LEMMA EntersT2 ==
  ASSUME TypeOK, JobOK, TidyT2, [Next]_vars, NEW x \in t2', x \notin t2
  PROVE  Clean(x) /\ UNCHANGED <<c, quality>>
<1>1. CASE Loop
  <2>1. Admit /\ job.to = "T2" /\ x = job.art
    BY <1>1 DEF Loop, MissTrimB1, MissDeleteT1, MissTrimB2, EvictToB1, EvictToB2,
                BoundB1, BoundB2, Admit, EndHandler, lists
  <2>2. QED
    BY <2>1 DEF TidyT2, Admit
<1>2. ASSUME NEW a \in Artifact, Event(a) PROVE Clean(x) /\ UNCHANGED <<c, quality>>
  <2>1. PICK n \in BOOLEAN : Hit(a, n)
    BY <1>2 DEF Event, QualityEvent, Validated, Corrected, Conflicted, ValidityChanged,
                Discovered, GhostHit, OversizeMiss, CacheMiss, DemoteToGhost, lists
  <2>2. x = a /\ GatePasses(a)
    BY <2>1 DEF Hit, Promote
  <2>3. QED
    BY <2>1, <2>2, GateIsClean DEF Hit
<1>3. QED
  BY <1>1, <1>2 DEF Next, vars, SetBudget, PinnedEvent, lists

LEMMA TidyStep ==
  TypeOK /\ JobOK /\ ListsDisjoint /\ Fits /\ TidyT2 /\ [Next]_vars => TidyT2'
<1> SUFFICES ASSUME TypeOK, JobOK, ListsDisjoint, Fits, TidyT2, [Next]_vars PROVE TidyT2'
  OBVIOUS
<1>t. /\ nVal \in [Artifact -> Nat] /\ nCorr \in [Artifact -> Nat]
      /\ validity \in [Artifact -> Validity] /\ t2 \subseteq Artifact
  BY KArcAssumption DEF TypeOK, KArcAssumption
<1>j. (job.to = "T2" => Clean(job.art))'
  <2>1. CASE job' = job
    <3>1. CASE job.to = "T2"
      <4>1. pc # "idle"
        BY <3>1 DEF JobOK, NoJob
      <4>2. UNCHANGED <<c, quality>>
        BY <4>1 DEF Next, vars, Event, QualityEvent, Validated, Corrected, Conflicted, ValidityChanged,
            Discovered, Hit, GhostHit, OversizeMiss, CacheMiss, IsReference, Listed, Arrives,
            PinnedEvent, SetBudget, Loop, MissTrimB1, MissDeleteT1, MissTrimB2, EvictToB1,
            EvictToB2, BoundB1, BoundB2, Admit, EndHandler
      <4>3. Clean(job.art) /\ UNCHANGED <<validity, nVal, nCorr, c>>
        BY <3>1, <4>2 DEF TidyT2, quality
      <4>4. QED
        BY <2>1, <4>3 DEF Clean, Harmful, LowQuality, QNum, QDen, IsOversize
    <3>2. QED
      BY <2>1, <3>1
  <2>2. CASE job' = NoJob
    BY <2>2 DEF NoJob
  <2>3. ASSUME NEW a \in Artifact, job'.art = a, UNCHANGED <<c, quality>>, GatePasses(a)
        PROVE  Clean(job.art)'
    <3>1. Clean(a) /\ UNCHANGED <<validity, nVal, nCorr, c>>
      BY <2>3, GateIsClean DEF quality
    <3>2. QED
      BY <2>3, <3>1 DEF Clean, Harmful, LowQuality, QNum, QDen, IsOversize
  <2>4. QED
    BY <2>1, <2>2, <2>3, NewJob
<1>1. ASSUME NEW x \in t2', x \notin t2 PROVE Clean(x)'
  BY <1>1, EntersT2, SameClean DEF quality
<1>2. ASSUME NEW x \in t2', x \in t2, UNCHANGED <<validity, nVal, nCorr>>, c' = c
      PROVE  Clean(x)'
  BY <1>2, SameClean DEF TidyT2, T2Clean, Clean
<1>3. ASSUME NEW x \in t2', x \in t2 PROVE Clean(x)'
  <2>0. Clean(x) /\ x \in Artifact /\ x \notin Pinned
    BY <1>t, <1>3 DEF TidyT2, T2Clean, Clean, ListsDisjoint, Directory, Resident
  <2>1. ASSUME NEW a \in Artifact, Validated(a) PROVE Clean(x)'
    <3>1. CASE x # a \/ WithoutOutcome
      <4>1. nVal'[x] = nVal[x] /\ UNCHANGED <<validity, nCorr, c>>
        BY <1>t, <2>0, <2>1, <3>1 DEF Validated
      <4>2. QED
        BY <2>0, <4>1, SameClean
    <3>2. CASE x = a /\ ~WithoutOutcome
      <4>1. nVal'[x] = nVal[x] + 1 /\ UNCHANGED <<validity, nCorr, c>>
        BY <1>t, <2>0, <2>1, <3>2 DEF Validated
      <4>2. nVal[x] \in Nat /\ nCorr[x] \in Nat
        BY <1>t, <2>0
      <4>3. ~LowQuality(x)'
        BY <2>0, <3>2, <4>1, <4>2 DEF Clean, LowQuality, QNum, QDen
      <4>4. ~Harmful(x)'
        BY <2>0, <3>2, <4>1, <4>2 DEF Clean, Harmful, QNum, QDen
      <4>5. QED
        BY <2>0, <4>1, <4>3, <4>4 DEF Clean, IsOversize
    <3>3. QED
      BY <3>1, <3>2
  <2>2. ASSUME NEW a \in Artifact, Corrected(a) PROVE Clean(x)'
    <3>1. a \notin t2'
      BY <2>2 DEF Corrected, DemoteToGhost, Resident, lists
    <3>2. nCorr'[x] = nCorr[x] /\ UNCHANGED <<validity, nVal, c>>
      BY <1>t, <1>3, <2>0, <2>2, <3>1 DEF Corrected
    <3>3. QED
      BY <2>0, <3>2, SameClean
  <2>3. ASSUME NEW a \in Artifact, Conflicted(a) PROVE Clean(x)'
    <3>1. /\ validity'[x] = validity[x] \/ validity'[x] = "SUSPECT"
          /\ UNCHANGED <<nVal, nCorr, c>>
      BY <1>t, <2>0, <2>3 DEF Conflicted
    <3>2. QED
      BY <2>0, <3>1 DEF Clean, Stale, Harmful, LowQuality, QNum, QDen, IsOversize
  <2>4. ASSUME NEW a \in Artifact, NEW v \in Validity, ValidityChanged(a, v) PROVE Clean(x)'
    <3>1. UNCHANGED <<nVal, nCorr, c>>
      BY <2>4 DEF ValidityChanged
    <3>2. CASE x # a
      BY <1>t, <2>0, <2>4, <3>1, <3>2, SameClean DEF ValidityChanged
    <3>3. CASE x = a
      <4>1. validity'[a] = v
        BY <1>t, <2>4 DEF ValidityChanged
      <4>2. WithoutValidityGate \/ v \notin Stale
        BY <1>3, <2>0, <2>4, <3>3 DEF ValidityChanged, DemoteToGhost, Resident, Clean
      <4>3. QED
        BY <2>0, <3>1, <3>3, <4>1, <4>2 DEF Clean, Harmful, LowQuality, QNum, QDen, IsOversize
    <3>4. QED
      BY <3>2, <3>3
  <2>5. ASSUME NEW m \in Menu, PinnedEvent(m[2], m[1]) PROVE Clean(x)'
    <3>1. nVal'[x] = nVal[x] /\ nCorr'[x] = nCorr[x] /\ UNCHANGED <<validity, c>>
      BY <1>t, <2>0, <2>5 DEF PinnedEvent
    <3>2. QED
      BY <2>0, <3>1, SameClean
  <2>6. ASSUME NEW new \in Budgets, SetBudget(new) PROVE Clean(x)'
    <3>1. ~IsOversize(x)' /\ UNCHANGED quality
      BY <1>3, <2>0, <2>6 DEF SetBudget, OversizeAt, IsOversize
    <3>2. QED
      BY <2>0, <3>1 DEF Clean, Harmful, LowQuality, QNum, QDen, quality
  <2>7. CASE Loop \/ UNCHANGED vars
    <3>1. UNCHANGED <<c, quality>>
      BY <2>7 DEF vars, Loop, MissTrimB1, MissDeleteT1, MissTrimB2, EvictToB1, EvictToB2,
                  BoundB1, BoundB2, Admit, EndHandler
    <3>2. QED
      BY <1>2, <1>3, <3>1 DEF quality
  <2>8. ASSUME NEW a \in Artifact,
               Discovered(a) \/ (\E n \in BOOLEAN : Hit(a, n)) \/ GhostHit(a)
                 \/ OversizeMiss(a) \/ CacheMiss(a)
        PROVE  Clean(x)'
    <3>1. UNCHANGED <<c, quality>>
      BY <2>8 DEF Discovered, Hit, GhostHit, OversizeMiss, CacheMiss
    <3>2. QED
      BY <1>2, <1>3, <3>1 DEF quality
  <2>9. QED
    BY <2>1, <2>2, <2>3, <2>4, <2>5, <2>6, <2>7, <2>8 DEF Next, Event, QualityEvent
<1>4. \A x \in t2' : Clean(x)'
  BY <1>1, <1>3
<1>5. T2Clean'
  BY <1>4 DEF T2Clean, Clean
<1>6. QED
  BY <1>j, <1>5 DEF TidyT2

(***************************************************************************)
(* I4: while the budget stays what it is, the directory fits twice the     *)
(* budget.  A miss first makes room for its artifact; everything else only *)
(* moves tokens from list to list, or into the job and back.               *)
(***************************************************************************)
Total == Tok(t1) + Tok(t2) + Tok(b1) + Tok(b2)
Ceiling ==
  /\ Tok(t1) + Tok(t2) <= c /\ Total <= 2 * c
  /\ pc # "miss" => Total + Need <= 2 * c

\* once the loops of a miss are over there is room for the job in the directory
LEMMA MissRoom ==
  ASSUME TypeOK, JobOK, Ceiling, Evicting \/ Bounding
  PROVE  Total + Need <= 2 * c
<1>1. CASE pc # "miss"
  BY <1>1 DEF Ceiling
<1>2. CASE pc = "miss"
  <2>1. ~TrimB1Now /\ ~DeleteT1Now /\ ~TrimB2Now
    BY <1>2 DEF Evicting, Bounding
  <2>2. CASE b2 # {}
    BY <2>1, <2>2, TokTypes DEF TrimB2Now, DirectoryFull, Total
  <2>3. CASE b2 = {}
    <3>1. Tok(b2) = 0 /\ (t1 = {} => Tok(t1) = 0) /\ (b1 = {} => Tok(b1) = 0)
      BY <2>3, TokEmpty DEF Tok
    <3>2. Tok(t2) <= c /\ Need <= c
      BY NeedFits, TokTypes DEF Ceiling
    <3>3. CASE b1 # {}
      BY <2>1, <3>1, <3>2, <3>3, TokTypes DEF TrimB1Now, L1Full, Total
    <3>4. CASE b1 = {} /\ t1 # {}
      BY <2>1, <3>1, <3>2, <3>4, TokTypes DEF DeleteT1Now, Total
    <3>5. CASE b1 = {} /\ t1 = {}
      BY <3>1, <3>2, <3>5, TokTypes DEF Total
    <3>6. QED
      BY <3>3, <3>4, <3>5
  <2>4. QED
    BY <2>2, <2>3
<1>3. QED
  BY <1>1, <1>2

LEMMA CeilingStep ==
  ASSUME <<"set_budget", None>> \notin Menu,
         TypeOK, JobOK, ListsDisjoint, Room, Ceiling, [Next]_vars
  PROVE  Ceiling'
<1> USE DEF lists, quality, coldVars, control
<1>t. TypeOK' /\ JobOK'
  BY TypeStep
<1>c. c' = c /\ c \in Budgets
  BY SameBudget DEF SetBudget, TypeOK
<1>n. /\ Tok(t1) \in Nat /\ Tok(t2) \in Nat /\ Tok(b1) \in Nat /\ Tok(b2) \in Nat
      /\ Need \in Nat /\ c \in Nat
      /\ Tok(t1)' \in Nat /\ Tok(t2)' \in Nat /\ Tok(b1)' \in Nat /\ Tok(b2)' \in Nat
  BY <1>t, TokTypes, TokensFinite DEF Tok, TypeOK
<1>s. \A S, T \in SUBSET Artifact : S \subseteq T => TokAt(S, c) <= TokAt(T, c)
  BY <1>c, TokSubset
<1>i. pc = "idle" => Need = 0
  BY DEF JobOK, NoJob, Need
\* nothing but the job may change, and only in a way that keeps the bound
<1>1. ASSUME Tok(t1)' + Tok(t2)' <= Tok(t1) + Tok(t2), Total' <= Total,
             pc = "idle", Need' = 0
      PROVE  Ceiling'
  BY <1>1, <1>c, <1>n, <1>i DEF Ceiling, Total
<1>2. ASSUME UNCHANGED <<t1, t2, b1, b2>>, pc = "idle", job' = job
      PROVE  Ceiling'
  <2>1. Need' = 0 /\ Tok(t1)' = Tok(t1) /\ Tok(t2)' = Tok(t2) /\ Total' = Total
    BY <1>2, <1>c, <1>i DEF Tok, Total, Need
  <2>2. QED
    BY <1>1, <1>2, <1>n, <2>1 DEF Total
<1>3. ASSUME NEW a \in Artifact, DemoteToGhost(a), pc = "idle" PROVE Ceiling'
  <2>1. CASE a \notin Resident
    BY <1>2, <1>3, <2>1 DEF DemoteToGhost, StayIdle
  <2>2. CASE a \in Resident
    <3>1. /\ t1' = t1 \ {a} /\ t2' = t2 \ {a} /\ b1' = b1 \cup {a} /\ b2' = b2 /\ Need' = 0
      BY <1>3, <2>2 DEF DemoteToGhost, Begin, Need, NoJob
    <3>2. a \notin b1 /\ ((a \in t1 /\ t2' = t2) \/ (a \in t2 /\ t1' = t1))
      <4>1. a \notin b1 /\ ((a \in t1 /\ a \notin t2) \/ (a \in t2 /\ a \notin t1))
        BY <2>2 DEF ListsDisjoint, Resident
      <4>2. (a \notin t2 => t2 \ {a} = t2) /\ (a \notin t1 => t1 \ {a} = t1)
        OBVIOUS
      <4>3. QED
        BY <3>1, <4>1, <4>2
    <3>3. Tok(b1)' = Tok(b1) + Cost(a, c) /\ Tok(b2)' = Tok(b2)
      BY <1>c, <3>1, <3>2, TokInsert DEF Tok, TypeOK
    <3>4. CASE a \in t1 /\ t2' = t2
      <4>1. Tok(t1)' = Tok(t1) - Cost(a, c) /\ Tok(t2)' = Tok(t2) /\ Cost(a, c) \in Nat
        BY <1>c, <3>1, <3>4, TokRemove, CostType DEF Tok, TypeOK
      <4>2. QED
        BY <1>1, <1>3, <1>n, <3>1, <3>3, <4>1 DEF Total
    <3>5. CASE a \in t2 /\ t1' = t1
      <4>1. Tok(t2)' = Tok(t2) - Cost(a, c) /\ Tok(t1)' = Tok(t1) /\ Cost(a, c) \in Nat
        BY <1>c, <3>1, <3>5, TokRemove, CostType DEF Tok, TypeOK
      <4>2. QED
        BY <1>1, <1>3, <1>n, <3>1, <3>3, <4>1 DEF Total
    <3>6. QED
      BY <3>2, <3>4, <3>5
  <2>3. QED
    BY <2>1, <2>2
<1>4. ASSUME NEW a \in Artifact, Corrected(a) PROVE Ceiling'
  <2>1. pc = "idle"
    BY <1>4 DEF Corrected, Listed, Arrives
  <2>2. CASE a \in t2 /\ t2' = t2 \ {a} /\ t1' = t1 \cup {a} /\ UNCHANGED <<b1, b2, job>>
    <3>1. a \notin t1
      BY <2>2 DEF ListsDisjoint
    <3>2. TokAt(t2', c) + TokAt(t1', c) = TokAt(t2, c) + TokAt(t1, c)
      BY <1>c, <2>2, <3>1, MoveTokens DEF TypeOK
    <3>3. Tok(b1)' = Tok(b1) /\ Tok(b2)' = Tok(b2) /\ Need' = 0
      BY <1>c, <1>i, <2>1, <2>2 DEF Tok, Need
    <3>4. QED
      BY <1>1, <1>c, <1>n, <2>1, <3>2, <3>3 DEF Total, Tok
  <2>3. QED
    BY <1>2, <1>3, <1>4, <2>1, <2>2 DEF Corrected, StayIdle
<1>5. ASSUME NEW a \in Artifact, NEW v \in Validity, ValidityChanged(a, v) PROVE Ceiling'
  BY <1>2, <1>3, <1>5 DEF ValidityChanged, Arrives, StayIdle
<1>6. ASSUME NEW a \in Artifact, NEW n \in BOOLEAN, Hit(a, n) PROVE Ceiling'
  <2>1. pc = "idle" /\ UNCHANGED <<b1, b2, job>>
    BY <1>6 DEF Hit, IsReference, Listed, Arrives, StayIdle
  <2>2. CASE a \in t1 /\ t1' = t1 \ {a} /\ t2' = t2 \cup {a}
    <3>1. a \notin t2
      BY <2>2 DEF ListsDisjoint
    <3>2. TokAt(t1', c) + TokAt(t2', c) = TokAt(t1, c) + TokAt(t2, c)
      BY <1>c, <2>2, <3>1, MoveTokens DEF TypeOK
    <3>3. Tok(b1)' = Tok(b1) /\ Tok(b2)' = Tok(b2) /\ Need' = 0
      BY <1>c, <1>i, <2>1 DEF Tok, Need
    <3>4. QED
      BY <1>1, <1>c, <1>n, <2>1, <3>2, <3>3 DEF Total, Tok
  <2>3. QED
    BY <1>2, <1>6, <2>1, <2>2 DEF Hit, Promote
<1>7. ASSUME NEW a \in Artifact, GhostHit(a) PROVE Ceiling'
  <2>1. pc = "idle" /\ UNCHANGED <<t1, t2>> /\ a \in b1 \cup b2
    BY <1>7 DEF GhostHit, IsReference, Listed, Arrives
  <2>2. CASE UNCHANGED <<b1, b2, job>>
    BY <1>2, <2>1, <2>2
  <2>3. CASE /\ b1' = b1 \ {a} /\ b2' = (IF a \notin b1 THEN b2 \ {a} ELSE b2)
             /\ Need' = Cost(a, c) /\ pc' = "evict"
    <3>1. Cost(a, c) \in Nat /\ Tok(t1)' = Tok(t1) /\ Tok(t2)' = Tok(t2)
      BY <1>c, <2>1, CostType DEF Tok
    <3>2. CASE a \in b1
      <4>1. Tok(b1)' = Tok(b1) - Cost(a, c) /\ Tok(b2)' = Tok(b2)
        BY <1>c, <2>3, <3>2, TokRemove DEF Tok, TypeOK
      <4>2. QED
        BY <1>c, <1>i, <1>n, <2>1, <2>3, <3>1, <4>1 DEF Ceiling, Total
    <3>3. CASE a \in b2 /\ a \notin b1
      <4>1. Tok(b2)' = Tok(b2) - Cost(a, c) /\ b1' = b1
        BY <1>c, <2>3, <3>3, TokRemove DEF Tok, TypeOK
      <4>2. Tok(b1)' = Tok(b1)
        BY <1>c, <4>1 DEF Tok
      <4>3. QED
        BY <1>c, <1>i, <1>n, <2>1, <2>3, <3>1, <4>1, <4>2 DEF Ceiling, Total
    <3>4. QED
      BY <2>1, <3>2, <3>3
  <2>4. QED
    BY <1>7, <2>2, <2>3 DEF GhostHit, Begin, StayIdle, Need, Acct
<1>8. ASSUME NEW a \in Artifact, CacheMiss(a) PROVE Ceiling'
  <2>1. pc' = "miss" /\ UNCHANGED <<t1, t2, b1, b2>>
    BY <1>8 DEF CacheMiss, Begin
  <2>2. Tok(t1)' = Tok(t1) /\ Tok(t2)' = Tok(t2) /\ Total' = Total
    BY <1>c, <2>1 DEF Tok, Total
  <2>3. QED
    BY <1>c, <2>1, <2>2 DEF Ceiling
\* a list loses an artifact for good
<1>9. ASSUME t1' \subseteq t1, t2' \subseteq t2, b1' \subseteq b1, b2' \subseteq b2,
             job' = job, pc' # "miss" => Total + Need <= 2 * c
      PROVE  Ceiling'
  <2>1. /\ Tok(t1)' <= Tok(t1) /\ Tok(t2)' <= Tok(t2)
        /\ Tok(b1)' <= Tok(b1) /\ Tok(b2)' <= Tok(b2)
    BY <1>9, <1>c, <1>s DEF Tok, TypeOK
  <2>2. Need' = Need
    BY <1>9 DEF Need
  <2>3. QED
    BY <1>9, <1>c, <1>n, <2>1, <2>2 DEF Ceiling, Total
<1>10. CASE MissTrimB1 \/ MissDeleteT1 \/ MissTrimB2
  <2>1. pc' = "miss" /\ job' = job
    BY <1>10 DEF MissTrimB1, MissDeleteT1, MissTrimB2
  <2>2. t1' \subseteq t1 /\ t2' \subseteq t2 /\ b1' \subseteq b1 /\ b2' \subseteq b2
    BY <1>10 DEF MissTrimB1, MissDeleteT1, MissTrimB2
  <2>3. QED
    BY <1>9, <2>1, <2>2
<1>11. CASE BoundB1 \/ BoundB2
  <2>1. Bounding /\ job' = job
    BY <1>11 DEF BoundB1, BoundB2, Begin
  <2>2. t1' \subseteq t1 /\ t2' \subseteq t2 /\ b1' \subseteq b1 /\ b2' \subseteq b2
    BY <1>11 DEF BoundB1, BoundB2
  <2>3. QED
    BY <1>9, <2>1, <2>2, MissRoom
<1>12. CASE EvictToB1
  <2>1. PICK v \in t1 : t1' = t1 \ {v} /\ b1' = b1 \cup {v}
    BY <1>12 DEF EvictToB1
  <2>2. v \notin b1 /\ UNCHANGED <<t2, b2>> /\ Evicting /\ pc' = "evict" /\ job' = job
    BY <1>12, <2>1 DEF EvictToB1, Begin, ListsDisjoint, Resident
  <2>3. TokAt(t1', c) + TokAt(b1', c) = TokAt(t1, c) + TokAt(b1, c)
    BY <1>c, <2>1, <2>2, MoveTokens DEF TypeOK
  <2>4. Tok(t1)' <= Tok(t1) /\ Tok(t2)' = Tok(t2) /\ Tok(b2)' = Tok(b2) /\ Need' = Need
    BY <1>c, <1>s, <2>1, <2>2 DEF Tok, Need, TypeOK
  <2>5. Total + Need <= 2 * c
    BY <2>2, MissRoom
  <2>6. QED
    BY <1>c, <1>n, <2>3, <2>4, <2>5 DEF Ceiling, Total, Tok
<1>13. CASE EvictToB2
  <2>1. PICK v \in t2 : t2' = t2 \ {v} /\ b2' = b2 \cup {v}
    BY <1>13 DEF EvictToB2
  <2>2. v \notin b2 /\ UNCHANGED <<t1, b1>> /\ Evicting /\ pc' = "evict" /\ job' = job
    BY <1>13, <2>1 DEF EvictToB2, Begin, ListsDisjoint, Resident
  <2>3. TokAt(t2', c) + TokAt(b2', c) = TokAt(t2, c) + TokAt(b2, c)
    BY <1>c, <2>1, <2>2, MoveTokens DEF TypeOK
  <2>4. Tok(t2)' <= Tok(t2) /\ Tok(t1)' = Tok(t1) /\ Tok(b1)' = Tok(b1) /\ Need' = Need
    BY <1>c, <1>s, <2>1, <2>2 DEF Tok, Need, TypeOK
  <2>5. Total + Need <= 2 * c
    BY <2>2, MissRoom
  <2>6. QED
    BY <1>c, <1>n, <2>3, <2>4, <2>5 DEF Ceiling, Total, Tok
<1>14. CASE Admit
  <2>1. /\ job.art \in Artifact /\ Need = Cost(job.art, c)
        /\ job.art \notin t1 /\ job.art \notin t2
    BY <1>14 DEF Admit, JobOK, Need, Acct, ListsDisjoint, Directory, Resident
  <2>2. Tok(t1) + Tok(t2) + Need <= c /\ Total + Need <= 2 * c
    BY <1>14, BoundingRoom, MissRoom DEF Admit, Bounded
  <2>3. Need' = 0 /\ Tok(b1)' = Tok(b1) /\ Tok(b2)' = Tok(b2)
    BY <1>c, <1>14 DEF Admit, Finish, Need, NoJob, Tok
  <2>4. CASE t2' = t2 \cup {job.art} /\ t1' = t1
    <3>1. Tok(t2)' = Tok(t2) + Need /\ Tok(t1)' = Tok(t1)
      BY <1>c, <2>1, <2>4, TokInsert DEF TypeOK, Tok
    <3>2. QED
      BY <1>c, <1>n, <2>2, <2>3, <3>1 DEF Ceiling, Total
  <2>5. CASE t1' = t1 \cup {job.art} /\ t2' = t2
    <3>1. Tok(t1)' = Tok(t1) + Need /\ Tok(t2)' = Tok(t2)
      BY <1>c, <2>1, <2>5, TokInsert DEF TypeOK, Tok
    <3>2. QED
      BY <1>c, <1>n, <2>2, <2>3, <3>1 DEF Ceiling, Total
  <2>6. QED
    BY <1>14, <2>4, <2>5 DEF Admit
<1>15. CASE EndHandler
  <2>1. Tok(t1) + Tok(t2) <= c /\ Total + Need <= 2 * c
    BY <1>15, MissRoom DEF EndHandler, Bounded, Ceiling
  <2>2. Need' = 0 /\ UNCHANGED <<t1, t2, b1, b2>>
    BY <1>15 DEF EndHandler, Finish, Need, NoJob
  <2>3. Tok(t1)' = Tok(t1) /\ Tok(t2)' = Tok(t2) /\ Total' = Total
    BY <1>c, <2>2 DEF Tok, Total
  <2>4. QED
    BY <1>c, <1>n, <2>1, <2>2, <2>3 DEF Ceiling, Total
<1>16. CASE UNCHANGED vars
  BY <1>16 DEF vars, Ceiling, Total, Tok, Need
<1>17. ASSUME NEW m \in Menu, PinnedEvent(m[2], m[1]) PROVE Ceiling'
  BY <1>2, <1>17 DEF PinnedEvent, Arrives, StayIdle
<1>18. ASSUME NEW a \in Artifact, Event(a) PROVE Ceiling'
  <2>1. CASE Validated(a) \/ Conflicted(a) \/ Discovered(a) \/ OversizeMiss(a)
    BY <1>2, <2>1 DEF Validated, Conflicted, Discovered, OversizeMiss, StayIdle,
                      IsReference, Listed, Arrives
  <2>2. QED
    BY <1>4, <1>5, <1>6, <1>7, <1>8, <1>18, <2>1 DEF Event, QualityEvent
<1>19. QED
  BY <1>10, <1>11, <1>12, <1>13, <1>14, <1>15, <1>16, <1>17, <1>18 DEF Next, Loop, SetBudget

(***************************************************************************)
(* The invariant as a whole, and what it gives.                            *)
(***************************************************************************)
DirInv ==
  /\ TypeOK /\ JobOK /\ ListsDisjoint /\ Room
  /\ Fits /\ TidyT2 /\ ColdOutsideDirectory /\ CriticalNeverCold

LEMMA DirInit == Init => DirInv /\ Ceiling
<1> SUFFICES ASSUME Init PROVE DirInv /\ Ceiling
  OBVIOUS
<1>1. TypeOK /\ JobOK /\ ListsDisjoint /\ Room
  BY TypeInit, ListsInit, RoomInit
<1>2. Fits /\ TidyT2 /\ ColdOutsideDirectory /\ CriticalNeverCold
  BY DEF Init, Fits, NoOversizeListed, TidyT2, T2Clean, ColdOutsideDirectory,
         CriticalNeverCold, Directory, Resident, NoJob
<1>3. Tok(t1) = 0 /\ Tok(t2) = 0 /\ Tok(b1) = 0 /\ Tok(b2) = 0 /\ Need = 0 /\ c \in Nat
  BY <1>1, TokEmpty, TokTypes DEF Init, Tok, Need, NoJob
<1>4. Ceiling
  BY <1>3 DEF Ceiling, Total
<1>5. QED
  BY <1>1, <1>2, <1>4 DEF DirInv

LEMMA DirStep == DirInv /\ [Next]_vars => DirInv'
BY TypeStep, ListsStep, RoomStep, FitsStep, TidyStep, ColdStep, CriticalStep DEF DirInv

LEMMA DirAlways == Spec => []DirInv
BY DirInit, DirStep, PTL DEF Spec

\* Whatever events arrive, the lists hold nothing above the threshold, T2
\* nothing that failed the gate for good, and what is cold is in no list.
THEOREM ListsHoldTheirOwn ==
  Spec => [](NoOversizeListed /\ T2Clean /\ ColdOutsideDirectory)
<1>1. DirInv => NoOversizeListed /\ T2Clean /\ ColdOutsideDirectory
  BY DEF DirInv, Fits, TidyT2
<1>2. QED
  BY <1>1, DirAlways, PTL

\* No critical artifact is ever made cold without an approval (I8).
THEOREM CriticalStaysWarm == Spec => []CriticalNeverCold
<1>1. DirInv => CriticalNeverCold
  BY DEF DirInv
<1>2. QED
  BY <1>1, DirAlways, PTL

\* All of it, with the bound of the directory (I4), for an engine whose budget
\* is not changed: after a change it may keep a floor of ghosts above it.
THEOREM DirectoryIsAlwaysSound ==
  ASSUME <<"set_budget", None>> \notin Menu
  PROVE  Spec => []DirectoryIsSound
<1>1. Init => DirInv /\ Ceiling
  BY DirInit
<1>2. DirInv /\ Ceiling /\ [Next]_vars => DirInv' /\ Ceiling'
  BY DirStep, CeilingStep DEF DirInv
<1>3. DirInv /\ Ceiling => DirectoryIsSound
  BY DEF DirInv, Ceiling, Total, Fits, TidyT2, DirectoryIsSound, DirectoryWithinTwiceBudget
<1>4. QED
  BY <1>1, <1>2, <1>3, PTL DEF Spec

(***************************************************************************)
(* What a step owes the caller.                                            *)
(***************************************************************************)

\* A critical artifact leaves the directory announced, as a job or as oversize.
LEMMA DropIsAnnounced ==
  ASSUME DirInv, [Next]_vars, CriticalColdApproval, NEW a \in Critical \cap Directory,
         a \notin Directory', job'.art # a
  PROVE  <<"cold_transition", a>> \in recs' \/ a \in oversize'
BY StepAccounts DEF DirInv, Accounted, Protected

\* Only an event that names it makes an artifact stale or harmful, and that
\* event takes it out of the resident lists.
LEMMA DirtGoes ==
  ASSUME DirInv, [Next]_vars, NEW x \in Artifact, x \in Resident', Dirty(x)', ~Dirty(x)
  PROVE  job.art = x
<1>t. /\ nVal \in [Artifact -> 0 .. MaxQuality] /\ nCorr \in [Artifact -> 0 .. MaxQuality]
      /\ nVal[x] \in Nat /\ nCorr[x] \in Nat
      /\ validity \in [Artifact -> Validity]
  <2>1. MaxQuality \in Nat
    BY KArcAssumption DEF KArcAssumption
  <2>2. /\ nVal \in [Artifact -> 0 .. MaxQuality] /\ nCorr \in [Artifact -> 0 .. MaxQuality]
        /\ validity \in [Artifact -> Validity]
    BY DEF DirInv, TypeOK
  <2>3. QED
    BY <2>1, <2>2
<1>q. x \notin Pinned \/ x \notin Resident
  BY DEF DirInv, ListsDisjoint, Directory, Resident
<1>1. ASSUME validity'[x] = validity[x], nVal'[x] = nVal[x], nCorr'[x] = nCorr[x] PROVE FALSE
  BY <1>1 DEF Dirty, Harmful, QNum, QDen
<1>2. ASSUME NEW a \in Artifact, Validated(a) PROVE FALSE
  <2>1. CASE x # a \/ WithoutOutcome
    BY <1>t, <1>1, <1>2, <2>1 DEF Validated
  <2>2. CASE x = a /\ ~WithoutOutcome
    <3>1. nVal'[x] = nVal[x] + 1 /\ UNCHANGED <<validity, nCorr>>
      BY <1>t, <1>2, <2>2 DEF Validated
    <3>2. nVal[x] \in Nat /\ nCorr[x] \in Nat
      BY <1>t
    <3>3. QED
      BY <2>2, <3>1, <3>2 DEF Dirty, Harmful, QNum, QDen
  <2>3. QED
    BY <2>1, <2>2
<1>3. ASSUME NEW a \in Artifact, Corrected(a) PROVE FALSE
  <2>1. CASE x # a
    BY <1>t, <1>1, <1>3, <2>1 DEF Corrected, quality
  <2>2. CASE x = a
    <3>1. /\ nCorr' = [nCorr EXCEPT ![a] = @ + 1] /\ UNCHANGED <<nVal, validity>>
          /\ ~WithoutOutcome
      BY <1>3 DEF Corrected
    <3>2. nCorr'[a] = nCorr[a] + 1
      BY <1>t, <3>1
    <3>3. \/ /\ nCorr'[a] >= HarmfulNCorr
             /\ 3 * (1 + nVal[a]) < 2 + nVal[a] + nCorr'[a]
          \/ ~WithoutValidityGate /\ validity[a] \in Stale
      BY <2>2, <3>1 DEF Dirty, Harmful, QNum, QDen
    <3>4. DemoteToGhost(a)
      BY <1>3, <3>3 DEF Corrected
    <3>5. QED
      BY <2>2, <3>4 DEF DemoteToGhost, Resident, lists
  <2>3. QED
    BY <2>1, <2>2
<1>4. ASSUME NEW a \in Artifact, Conflicted(a) PROVE FALSE
  <2>1. validity'[x] \notin Stale \/ validity'[x] = validity[x]
    BY <1>t, <1>4 DEF Conflicted, Stale
  <2>2. UNCHANGED <<nVal, nCorr>>
    BY <1>4 DEF Conflicted
  <2>3. QED
    BY <2>1, <2>2 DEF Dirty, Harmful, QNum, QDen
<1>5. ASSUME NEW a \in Artifact, NEW v \in Validity, ValidityChanged(a, v) PROVE FALSE
  <2>1. validity' = [validity EXCEPT ![a] = v] /\ UNCHANGED <<nVal, nCorr>>
    BY <1>5 DEF ValidityChanged
  <2>2. CASE x # a
    BY <1>t, <1>1, <2>1, <2>2
  <2>3. CASE x = a
    <3>1. ~WithoutValidityGate /\ v \in Stale /\ validity[a] \notin Stale
      BY <1>t, <2>1, <2>3 DEF Dirty, Harmful, QNum, QDen
    <3>2. QED
      BY <1>5, <2>3, <3>1 DEF ValidityChanged, DemoteToGhost, Resident, lists
  <2>4. QED
    BY <2>2, <2>3
<1>6. ASSUME NEW m \in Menu, PinnedEvent(m[2], m[1]) PROVE FALSE
  <2>1. x # m[2]
    BY <1>q, <1>6 DEF PinnedEvent, lists, Resident
  <2>2. QED
    BY <1>t, <1>1, <1>6, <2>1 DEF PinnedEvent
<1>7. ASSUME NEW a \in Artifact,
             Discovered(a) \/ (\E n \in BOOLEAN : Hit(a, n)) \/ GhostHit(a)
               \/ OversizeMiss(a) \/ CacheMiss(a)
      PROVE  FALSE
  <2>1. UNCHANGED quality
    BY <1>7 DEF Discovered, Hit, GhostHit, OversizeMiss, CacheMiss
  <2>2. QED
    BY <1>1, <2>1 DEF quality
<1>8. CASE Loop \/ (\E new \in Budgets : SetBudget(new)) \/ UNCHANGED vars
  <2>1. UNCHANGED quality
    BY <1>8 DEF vars, Loop, MissTrimB1, MissDeleteT1, MissTrimB2, EvictToB1, EvictToB2,
                BoundB1, BoundB2, Admit, EndHandler, SetBudget
  <2>2. QED
    BY <1>1, <2>1 DEF quality
<1>9. QED
  BY <1>2, <1>3, <1>4, <1>5, <1>6, <1>7, <1>8 DEF Next, Event, QualityEvent

(***************************************************************************)
(* The engine implements ResidentSet: its resident set, its budget and its *)
(* cold tags make the steps any policy promises.                           *)
(***************************************************************************)
LEMMA PromiseInit == Init => Promise!RSInit
BY KArcAssumption DEF Init, Promise!RSInit, Resident, KArcAssumption

\* Tokens of two disjoint lists add up.
LEMMA ResidentTokens ==
  ASSUME TypeOK, ListsDisjoint
  PROVE  Promise!SuppliedTokens(Resident, c) = Tok(t1) + Tok(t2)
<1>1. Tokens(Resident, c) = Tokens(t1, c) \cup Tokens(t2, c)
  BY DEF Tokens, Resident
<1>2. Tokens(t1, c) \cap Tokens(t2, c) = {}
  BY DEF Tokens, ListsDisjoint
<1>3. IsFiniteSet(Tokens(t1, c)) /\ IsFiniteSet(Tokens(t2, c))
  BY TokensFinite DEF TypeOK
<1>4. Cardinality(Tokens(t1, c) \cup Tokens(t2, c))
        = Cardinality(Tokens(t1, c)) + Cardinality(Tokens(t2, c)) - Cardinality({})
  BY <1>2, <1>3, FS_Union
<1>5. Cardinality({}) = 0
  BY FS_EmptySet
<1>6. Promise!SuppliedTokens(Resident, c) = Cardinality(Tokens(Resident, c))
  BY DEF Promise!SuppliedTokens, Tokens, Promise!Cardinality, Cardinality
<1>7. QED
  BY <1>1, <1>4, <1>5, <1>6, TokTypes DEF Tok, TokAt

LEMMA PromiseStep ==
  ASSUME DirInv, [Next]_vars
  PROVE  [Promise!RSNext]_Promise!rsVars
<1> USE DEF lists, quality, coldVars, control
<1>t. DirInv' /\ cold' \subseteq Artifact
  BY DirStep DEF DirInv, TypeOK
<1>a. /\ (cold' \ cold) \cap (Directory' \cup Protected) = {}
      /\ cold \cap Directory = {}
  BY StepAccounts DEF Accounted, DirInv, ColdOutsideDirectory
<1>b. Resident' \subseteq Directory'
  BY DEF Resident, Directory
\* a step that keeps the cold tags and adds nothing shrinks the set
<1>1. ASSUME Resident' \subseteq Resident, cold \subseteq cold', c' = c
      PROVE  Promise!RSShrink
  <2>1. Promise!Forgets
    BY <1>1, <1>t, <1>a, <1>b DEF Promise!Forgets
  <2>2. QED
    BY <1>1, <2>1 DEF Promise!RSShrink
<1>2. CASE Admit
  <2>1. /\ job.art \in Artifact /\ Need = Cost(job.art, c) /\ job.art \notin Resident
    <3>1. job.to # "none"
      BY <1>2 DEF Admit
    <3>2. job.art \in Artifact /\ job.need = Acct(job.art)
      BY <3>1 DEF DirInv, JobOK
    <3>3. job.art \notin Resident
      BY DEF DirInv, ListsDisjoint, Directory, Resident
    <3>4. QED
      BY <3>2, <3>3 DEF Need, Acct
  <2>2. Tok(t1) + Tok(t2) + Need <= c
    BY <1>2, BoundingRoom DEF Admit, Bounded, DirInv
  <2>3. Promise!SuppliedTokens(Resident, c) + Cost(job.art, c) <= c
    BY <2>1, <2>2, ResidentTokens DEF DirInv
  <2>4. Resident' = Resident \cup {job.art} /\ cold' = cold \ {job.art} /\ c' = c
    BY <1>2 DEF Admit, Resident, RestoreFromCold
  <2>5. Promise!RSAdmit(job.art)
    BY <2>1, <2>3, <2>4 DEF Promise!RSAdmit
  <2>6. QED
    BY <2>1, <2>5 DEF Promise!RSNext
<1>3. ASSUME NEW a \in Artifact, OversizeMiss(a) PROVE Promise!RSNext
  <2>1. Promise!RSServe(a)
    BY <1>3 DEF OversizeMiss, RestoreFromCold, Resident, Promise!RSServe
  <2>2. QED
    BY <2>1 DEF Promise!RSNext
<1>4. ASSUME NEW new \in Budgets, SetBudget(new) PROVE Promise!RSNext
  <2>1. Resident' \subseteq Resident /\ cold \subseteq cold' /\ c' = new
    BY <1>4 DEF SetBudget, Resident
  <2>2. CASE new = c
    BY <1>1, <2>1, <2>2 DEF Promise!RSNext
  <2>3. CASE new # c
    <3>1. Promise!Forgets
      BY <1>t, <1>a, <1>b, <2>1 DEF Promise!Forgets
    <3>2. QED
      BY <2>1, <2>3, <3>1 DEF Promise!RSNext, Promise!RSResize
  <2>4. QED
    BY <2>2, <2>3
<1>5. CASE Loop /\ ~Admit
  <2>1. Resident' \subseteq Resident /\ cold \subseteq cold' /\ c' = c
    BY <1>5 DEF Loop, MissTrimB1, MissDeleteT1, MissTrimB2, EvictToB1, EvictToB2,
                BoundB1, BoundB2, EndHandler, ToCold, Resident
  <2>2. QED
    BY <1>1, <2>1 DEF Promise!RSNext
<1>6. ASSUME NEW a \in Artifact, Event(a), ~OversizeMiss(a) PROVE Promise!RSNext
  <2>1. cold' = cold /\ c' = c
    BY <1>6 DEF Event, QualityEvent, Validated, Corrected, Conflicted, ValidityChanged,
                Discovered, Hit, GhostHit, CacheMiss
  <2>2. Resident' \subseteq Resident
    <3>1. CASE QualityEvent(a)
      BY <3>1 DEF QualityEvent, Validated, Corrected, Conflicted, ValidityChanged,
                  DemoteToGhost, Resident
    <3>2. ASSUME NEW n \in BOOLEAN, Hit(a, n) PROVE Resident' \subseteq Resident
      BY <3>2 DEF Hit, Promote, Resident
    <3>3. CASE Discovered(a) \/ GhostHit(a) \/ CacheMiss(a)
      BY <3>3 DEF Discovered, GhostHit, CacheMiss, Resident
    <3>4. QED
      BY <1>6, <3>1, <3>2, <3>3 DEF Event
  <2>3. QED
    BY <1>1, <2>1, <2>2 DEF Promise!RSNext
<1>7. CASE UNCHANGED vars \/ \E m \in Menu : PinnedEvent(m[2], m[1])
  <2>1. UNCHANGED <<t1, t2, c, cold>>
    BY <1>7 DEF vars, PinnedEvent
  <2>2. QED
    BY <2>1 DEF Promise!rsVars, Resident
<1>8. QED
  BY <1>2, <1>3, <1>4, <1>5, <1>6, <1>7 DEF Next

\* The engine keeps the promise of every policy (base.py), takes out what
\* turns stale or harmful in that very step, and announces every critical
\* artifact that it drops: for every registry, budgets, thresholds and events.
THEOREM StepsAlwaysKeepTheirWord == Spec => StepsKeepTheirWord
<1>1. DirInv /\ [Next]_vars =>
        [\A a \in Artifact : a \in Resident' /\ Dirty(a)' => Dirty(a) \/ job.art = a]_vars
  BY DirtGoes
<1>2. DirInv /\ [Next]_vars =>
        [CriticalColdApproval =>
           \A a \in Critical \cap Directory :
             a \notin Directory' /\ job'.art # a
               => \/ <<"cold_transition", a>> \in recs'
                  \/ a \in oversize']_vars
  BY DropIsAnnounced
<1>3. DirInv /\ [Next]_vars => [Promise!RSNext]_Promise!rsVars
  BY PromiseStep
<1>4. Spec => DirtLeaves
  BY <1>1, DirAlways, PTL DEF Spec, DirtLeaves
<1>5. Spec => CriticalDropAnnounced
  BY <1>2, DirAlways, PTL DEF Spec, CriticalDropAnnounced
<1>6. Spec => KeepsPromise
  BY <1>3, PromiseInit, DirAlways, PTL DEF Spec, KeepsPromise, Promise!RSSpec
<1>7. QED
  BY <1>4, <1>5, <1>6 DEF StepsKeepTheirWord

(***************************************************************************)
(* Handlers end: every loop step ends the handler or leaves less to do.    *)
(***************************************************************************)
Ghosts == b1 \cup b2

LEMMA RemoveOne ==
  ASSUME NEW S \in SUBSET Artifact, NEW v \in S
  PROVE  /\ Cardinality(S) \in Nat /\ Cardinality(S \ {v}) \in Nat
         /\ Cardinality(S \ {v}) = Cardinality(S) - 1
<1>1. IsFiniteSet(S)
  BY KArcAssumption, FS_Subset DEF KArcAssumption
<1>2. QED
  BY <1>1, FS_RemoveElement, FS_CardinalityType

LEMMA AddOne ==
  ASSUME NEW S \in SUBSET Artifact, NEW v \in Artifact
  PROVE  /\ Cardinality(S) \in Nat /\ Cardinality(S \cup {v}) \in Nat
         /\ Cardinality(S \cup {v}) <= Cardinality(S) + 1
<1>1. IsFiniteSet(S)
  BY KArcAssumption, FS_Subset DEF KArcAssumption
<1>2. QED
  BY <1>1, FS_AddElement, FS_CardinalityType

\* A victim is dropped, an eviction moves one from the resident set to the ghosts.
LEMMA LessToDo ==
  ASSUME TypeOK, NEW v \in Artifact,
         \/ v \in Ghosts /\ Resident' = Resident /\ Ghosts' = Ghosts \ {v}
         \/ v \in Resident /\ Resident' = Resident \ {v} /\ Ghosts' = Ghosts
         \/ v \in Resident /\ Resident' = Resident \ {v} /\ Ghosts' = Ghosts \cup {v}
  PROVE  WorkLeft' < WorkLeft
<1>1. Resident \in SUBSET Artifact /\ Ghosts \in SUBSET Artifact
  BY DEF TypeOK, Resident, Ghosts
<1>2. Cardinality(Resident) \in Nat /\ Cardinality(Ghosts) \in Nat
  BY <1>1, AddOne
<1>3. WorkLeft = 2 * Cardinality(Resident) + Cardinality(Ghosts)
  BY DEF WorkLeft, Ghosts
<1>4. WorkLeft' = 2 * Cardinality(Resident') + Cardinality(Ghosts')
  BY DEF WorkLeft, Ghosts
<1>5. CASE v \in Ghosts /\ Resident' = Resident /\ Ghosts' = Ghosts \ {v}
  BY <1>1, <1>2, <1>3, <1>4, <1>5, RemoveOne
<1>6. CASE v \in Resident /\ Resident' = Resident \ {v} /\ Ghosts' = Ghosts
  BY <1>1, <1>2, <1>3, <1>4, <1>6, RemoveOne
<1>7. CASE v \in Resident /\ Resident' = Resident \ {v} /\ Ghosts' = Ghosts \cup {v}
  BY <1>1, <1>2, <1>3, <1>4, <1>7, RemoveOne, AddOne
<1>8. QED
  BY <1>5, <1>6, <1>7

LEMMA LoopWorks ==
  ASSUME TypeOK, ListsDisjoint, Loop
  PROVE  pc' = "idle" \/ WorkLeft' < WorkLeft
<1> USE DEF lists, Resident, Ghosts
<1>d. /\ t1 \cap t2 = {} /\ b1 \cap b2 = {} /\ Resident \cap Ghosts = {}
      /\ t1 \cup t2 \cup b1 \cup b2 \subseteq Artifact
  BY DEF ListsDisjoint, TypeOK
<1>1. CASE MissTrimB1 \/ BoundB1
  <2>1. PICK v \in b1 : b1' = b1 \ {v} /\ UNCHANGED <<t1, t2, b2>>
    BY <1>1 DEF MissTrimB1, BoundB1
  <2>2. v \in Artifact /\ Ghosts' = Ghosts \ {v} /\ Resident' = Resident
    BY <1>d, <2>1
  <2>3. QED
    BY <2>1, <2>2, LessToDo
<1>2. CASE MissTrimB2 \/ BoundB2
  <2>1. PICK v \in b2 : b2' = b2 \ {v} /\ UNCHANGED <<t1, t2, b1>>
    BY <1>2 DEF MissTrimB2, BoundB2
  <2>2. v \in Artifact /\ Ghosts' = Ghosts \ {v} /\ Resident' = Resident
    BY <1>d, <2>1
  <2>3. QED
    BY <2>1, <2>2, LessToDo
<1>3. CASE MissDeleteT1
  <2>1. PICK v \in t1 : t1' = t1 \ {v} /\ UNCHANGED <<t2, b1, b2>>
    BY <1>3 DEF MissDeleteT1
  <2>2. v \in Artifact /\ Resident' = Resident \ {v} /\ Ghosts' = Ghosts
    BY <1>d, <2>1
  <2>3. QED
    BY <2>1, <2>2, LessToDo
<1>4. CASE EvictToB1
  <2>1. PICK v \in t1 : t1' = t1 \ {v} /\ b1' = b1 \cup {v} /\ UNCHANGED <<t2, b2>>
    BY <1>4 DEF EvictToB1
  <2>2. v \in Artifact /\ Resident' = Resident \ {v} /\ Ghosts' = Ghosts \cup {v}
    BY <1>d, <2>1
  <2>3. QED
    BY <2>1, <2>2, LessToDo
<1>5. CASE EvictToB2
  <2>1. PICK v \in t2 : t2' = t2 \ {v} /\ b2' = b2 \cup {v} /\ UNCHANGED <<t1, b1>>
    BY <1>5 DEF EvictToB2
  <2>2. v \in Artifact /\ Resident' = Resident \ {v} /\ Ghosts' = Ghosts \cup {v}
    BY <1>d, <2>1
  <2>3. QED
    BY <2>1, <2>2, LessToDo
<1>6. CASE Admit \/ EndHandler
  BY <1>6 DEF Admit, EndHandler, Finish
<1>7. QED
  BY <1>1, <1>2, <1>3, <1>4, <1>5, <1>6 DEF Loop

\* Nothing but the loop runs inside a handler.
LEMMA OnlyTheLoop == ASSUME Next, pc # "idle" PROVE Loop
BY DEF Next, Event, QualityEvent, Validated, Corrected, Conflicted, ValidityChanged,
       Discovered, Hit, GhostHit, OversizeMiss, CacheMiss, PinnedEvent, SetBudget,
       IsReference, Listed, Arrives

\* The loops of every handler end (karc.py runs them with `while`): each step
\* ends the handler or leaves less to do, for all sizes, budgets and floors.
THEOREM EveryHandlerEnds == Spec => HandlerEnds
<1>1. DirInv /\ [Next]_vars => [pc # "idle" => pc' = "idle" \/ WorkLeft' < WorkLeft]_vars
  BY OnlyTheLoop, LoopWorks DEF DirInv
<1>2. QED
  BY <1>1, DirAlways, PTL DEF Spec, HandlerEnds
=============================================================================
