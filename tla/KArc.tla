-------------------------------- MODULE KArc --------------------------------
(***************************************************************************)
(* The K-ARC(c) policy engine of src/karc/policy/karc.py: the token        *)
(* budgeted ARC lists T1, T2 (resident) and B1, B2 (ghosts), the adaptive  *)
(* target p, the quality and validity state the gate reads, the oversize   *)
(* side table, the cold tags and the pending recommendations.              *)
(*                                                                         *)
(* One action starts each event handler; the handler's loops (trim B1,     *)
(* delete from T1, trim B2, evict, enforce the ghost bounds) run one       *)
(* iteration per step under the program counter pc, and the next event is  *)
(* taken only when pc is back to "idle".  The invariants the code asserts  *)
(* in check_invariants are therefore stated at pc = "idle".                *)
(*                                                                         *)
(* Every insertion and every refresh of an OrderedDict in the code puts    *)
(* the entry at its MRU end, so the order inside each list is the order of *)
(* last touch: lists are sets, and age ranks artifacts by last touch.      *)
(***************************************************************************)
EXTENDS Integers, FiniteSets

CONSTANTS
  Artifact,             \* registry keys
  None,                 \* no artifact is being handled
  InitAge,              \* an arbitrary ranking: nothing has been touched yet
  Size,                 \* Size[a]: resolved_size, at least 1
  Critical,             \* ArtifactMeta.critical
  Pinned,               \* ArtifactMeta.pinned (fixed at construction)
  Budgets,              \* the values c may take (set_budget)
  InitBudget,
  Cap,                  \* Cap[c] = int(alpha * c)
  PInit,                \* p_init_frac * c, scaled
  PScale,               \* p is kept in units of 1/PScale token
  KTail,                \* k_tail
  NGhostMin,            \* n_ghost_min
  HarmfulNCorr,         \* harmful_n_corr
  PinBudget,            \* c_pin; 0 switches the metering off
  WithoutOutcome, WithoutValidityGate, PreloadAsHit, CoalesceTasks,
  DenyRevival,          \* q5a_deny_revive_on_gate_fail
  NoAdaptOnDeny,        \* q5a_no_adapt_on_gate_fail
  DiscoveredRefresh,    \* q7
  ValidatedRefresh,     \* q8
  TailTiebreak,         \* q11
  CriticalColdApproval,
  SplitRecommendations,
  MaxQuality,           \* bound on n_val and on n_corr
  Menu                  \* the <<event type, artifact>> inputs of an instance

Validity == {"VALID", "SUSPECT", "STALE", "INVALIDATED"}
Stale == {"STALE", "INVALIDATED"}

ASSUME KArcAssumption ==
  /\ IsFiniteSet(Artifact) /\ None \notin Artifact
  /\ InitAge \in [Artifact -> Nat]
  /\ \A a, x \in Artifact : InitAge[a] = InitAge[x] => a = x
  /\ Size \in [Artifact -> Nat \ {0}]
  /\ Critical \subseteq Artifact /\ Pinned \subseteq Artifact
  /\ Budgets \subseteq Nat \ {0} /\ InitBudget \in Budgets
  /\ Cap \in [Budgets -> Nat] /\ \A b \in Budgets : Cap[b] <= b
  /\ PScale \in Nat \ {0} /\ PInit \in 0 .. InitBudget * PScale
  /\ KTail \in Nat \ {0} /\ NGhostMin \in Nat /\ HarmfulNCorr \in Nat
  /\ PinBudget \in Nat /\ MaxQuality \in Nat
  /\ {WithoutOutcome, WithoutValidityGate, PreloadAsHit, CoalesceTasks,
      DenyRevival, NoAdaptOnDeny, DiscoveredRefresh, ValidatedRefresh,
      TailTiebreak, CriticalColdApproval, SplitRecommendations}
       \subseteq BOOLEAN

VARIABLES
  t1, t2, b1, b2,       \* the four lists
  age,                  \* age[a] = 0: the most recently touched artifact
  oversize,             \* side table of artifacts too large to be resident
  p, c,                 \* adaptive target for T1 (scaled) and the budget
  nVal, nCorr, validity,
  cold, coldEver,       \* cold_candidates and cold_ever
  recs,                 \* _pending_recs: <<action, artifact>>
  pc, job               \* the handler in progress

lists == <<t1, t2, b1, b2, age>>
quality == <<nVal, nCorr, validity>>
coldVars == <<cold, coldEver>>
control == <<pc, job>>
vars == <<lists, oversize, p, c, quality, coldVars, recs, control>>

Resident == t1 \cup t2
Directory == t1 \cup t2 \cup b1 \cup b2

Lesser(x, y) == IF x < y THEN x ELSE y
Greater(x, y) == IF x > y THEN x ELSE y

NoJob == [art |-> None, to |-> "none", fromB2 |-> FALSE, need |-> 0]
Jobs == [art : Artifact \cup {None}, to : {"none", "T1", "T2"},
         fromB2 : BOOLEAN, need : Nat]
Phases == {"idle", "miss", "evict", "bounds"}

-----------------------------------------------------------------------------
(* Tokens, quality, and the promotion gate.                                *)

\* tokens an artifact accounts for under budget b, and under the current one
Cost(a, b) == Lesser(Size[a], Cap[b])
Acct(a) == Cost(a, c)

\* The accounted tokens of a list.  They are counted one by one, so that
\* what a sum gains and loses follows from the cardinality of finite sets.
Tokens(S, b) == UNION {{a} \X (1 .. Cost(a, b)) : a \in S}
TokAt(S, b) == Cardinality(Tokens(S, b))
Tok(S) == TokAt(S, c)

IsOversize(a) == Size[a] > Cap[c]

\* q(a) = (1 + n_val) / (2 + n_val + n_corr), as numerator and denominator
QNum(a) == IF WithoutOutcome THEN 1 ELSE 1 + nVal[a]
QDen(a) == IF WithoutOutcome THEN 2 ELSE 2 + nVal[a] + nCorr[a]

\* q_min = 1/2, harmful_q_max = 1/3
LowQuality(a) == 2 * QNum(a) < QDen(a)
Harmful(a) == /\ ~WithoutOutcome
              /\ nCorr[a] >= HarmfulNCorr
              /\ 3 * QNum(a) < QDen(a)

\* mutant: the gate forgets the outcome counts
GateIgnoresQuality(a) == /\ WithoutValidityGate \/ validity[a] = "VALID"
                         /\ ~IsOversize(a)

GatePasses(a) == /\ WithoutValidityGate \/ validity[a] = "VALID"
                 /\ ~LowQuality(a)
                 /\ ~IsOversize(a)
                 /\ ~Harmful(a)

-----------------------------------------------------------------------------
(* Recency and victims.                                                    *)

Touch(a) == age' = [x \in Artifact |->
                      IF x = a THEN 0
                      ELSE IF age[x] < age[a] THEN age[x] + 1 ELSE age[x]]

IsLru(a, S) == a \in S /\ \A x \in S : age[x] <= age[a]

\* the k_tail least recently used entries of a list
TailWindow(S) == {a \in S : Cardinality({x \in S : age[x] > age[a]}) < KTail}

\* the first non-empty rung of the ladder: harmful, STALE, SUSPECT
TailPreference(S) ==
  LET W == TailWindow(S)
      harmful == {a \in W : Harmful(a)}
      stale   == {a \in W : ~WithoutValidityGate /\ validity[a] = "STALE"}
      suspect == {a \in W : ~WithoutValidityGate /\ validity[a] = "SUSPECT"}
      lowest  == {a \in W : \A x \in W :
                              QNum(a) * QDen(x) <= QNum(x) * QDen(a)}
  IN  IF harmful # {} THEN harmful
      ELSE IF stale # {} THEN stale
      ELSE IF suspect # {} THEN suspect
      ELSE IF TailTiebreak THEN lowest
      ELSE W

IsVictim(a, S) == a \in S /\ IsLru(a, TailPreference(S))

-----------------------------------------------------------------------------
(* Side effects shared by the handlers.                                    *)

\* mutant: the safety layer is off
ProtectedNone == {}
Protected == IF CriticalColdApproval THEN Critical ELSE {}

\* mutant: a protected artifact is dropped in silence
ToColdSilent(S) ==
  /\ cold' = cold \cup (S \ Protected)
  /\ coldEver' = coldEver \cup (S \ Protected)
  /\ UNCHANGED recs

\* to_cold for each member of S: a protected artifact is only recommended
ToCold(S) ==
  /\ cold' = cold \cup (S \ Protected)
  /\ coldEver' = coldEver \cup (S \ Protected)
  /\ recs' = recs \cup {<<"cold_transition", a>> : a \in S \cap Protected}

\* mutant: an artifact returns and keeps its cold tag
RestoreForgets(a) == a \in Artifact /\ UNCHANGED coldVars
RestoreFromCold(a) == cold' = cold \ {a} /\ UNCHANGED coldEver

SplitRecs(S) == IF SplitRecommendations THEN {<<"split", a>> : a \in S} ELSE {}

Begin(phase, j) == pc' = phase /\ job' = j
Finish == pc' = "idle" /\ job' = NoJob
StayIdle == UNCHANGED control

Arrives(type, a) == pc = "idle" /\ <<type, a>> \in Menu
\* mutant: pins are not kept out of the lists
ListedWithPins(type, a) == Arrives(type, a)
Listed(type, a) == Arrives(type, a) /\ a \notin Pinned

-----------------------------------------------------------------------------
(* Events that are not references.                                         *)

RefreshGhost(a, enabled) ==
  IF enabled /\ a \in b1 \cup b2 THEN Touch(a) ELSE UNCHANGED age

Validated(a) ==
  /\ Listed("validated", a)
  /\ IF WithoutOutcome THEN UNCHANGED nVal
     ELSE nVal[a] < MaxQuality /\ nVal' = [nVal EXCEPT ![a] = @ + 1]
  /\ RefreshGhost(a, ValidatedRefresh)
  /\ StayIdle
  /\ UNCHANGED <<t1, t2, b1, b2, oversize, p, c, nCorr, validity, coldVars, recs>>

Discovered(a) ==
  /\ Listed("discovered", a)
  /\ RefreshGhost(a, DiscoveredRefresh)
  /\ StayIdle
  /\ UNCHANGED <<t1, t2, b1, b2, oversize, p, c, quality, coldVars, recs>>

\* SUSPECT replaces whatever validity the artifact had
Conflicted(a) ==
  /\ Listed("conflicted", a)
  /\ ~WithoutValidityGate
  /\ validity' = [validity EXCEPT ![a] = "SUSPECT"]
  /\ recs' = recs \cup {<<"contradiction_review", a>>}
  /\ StayIdle
  /\ UNCHANGED <<lists, oversize, p, c, nVal, nCorr, coldVars>>

\* mutant: only T2 is searched
DemoteFromT2Only(a) ==
  IF a \in t2
  THEN /\ t2' = t2 \ {a} /\ b1' = b1 \cup {a}
       /\ Touch(a) /\ Begin("bounds", NoJob)
       /\ UNCHANGED <<t1, b2>>
  ELSE StayIdle /\ UNCHANGED lists

\* pop from a resident list, insert into B1, then enforce_ghost_bounds
DemoteToGhost(a) ==
  IF a \in Resident
  THEN /\ t1' = t1 \ {a} /\ t2' = t2 \ {a} /\ b1' = b1 \cup {a}
       /\ Touch(a)
       /\ Begin("bounds", NoJob)
       /\ UNCHANGED b2
  ELSE StayIdle /\ UNCHANGED lists

\* on_negative_quality, with the counter already incremented
Corrected(a) ==
  LET n == [nCorr EXCEPT ![a] = @ + 1]
      harmful == /\ n[a] >= HarmfulNCorr
                 /\ 3 * (1 + nVal[a]) < 2 + nVal[a] + n[a]
      stale == ~WithoutValidityGate /\ validity[a] \in Stale
  IN
  /\ Listed("corrected", a)
  /\ ~WithoutOutcome
  /\ nCorr[a] < MaxQuality
  /\ nCorr' = n
  /\ IF harmful \/ stale
     THEN /\ DemoteToGhost(a)
          /\ recs' = recs \cup {<<"invalidate_or_correct", a>>}
     ELSE /\ IF a \in t2
             THEN /\ t2' = t2 \ {a} /\ t1' = t1 \cup {a} /\ Touch(a)
                  /\ UNCHANGED <<b1, b2>>
             ELSE UNCHANGED lists
          /\ StayIdle
          /\ UNCHANGED recs
  /\ UNCHANGED <<oversize, p, c, nVal, validity, coldVars>>

\* the one event that reaches pinned artifacts as well
ValidityChanged(a, v) ==
  /\ Arrives("validity_changed", a)
  /\ validity' = [validity EXCEPT ![a] = v]
  /\ IF ~WithoutValidityGate /\ v \in Stale /\ validity[a] \notin Stale
     THEN /\ DemoteToGhost(a)
          /\ recs' = recs \cup {<<"invalidate_or_correct", a>>}
     ELSE StayIdle /\ UNCHANGED <<lists, recs>>
  /\ UNCHANGED <<oversize, p, c, nVal, nCorr, coldVars>>

\* _record_stats_only: any other event on a pinned artifact
PinTokens == Cardinality(UNION {{a} \X (1 .. Size[a]) : a \in Pinned})
PinnedEvent(a, type) ==
  /\ Arrives(type, a)
  /\ a \in Pinned /\ type # "validity_changed"
  /\ IF type = "validated" /\ ~WithoutOutcome
     THEN nVal[a] < MaxQuality /\ nVal' = [nVal EXCEPT ![a] = @ + 1]
     ELSE UNCHANGED nVal
  /\ IF type = "corrected" /\ ~WithoutOutcome
     THEN nCorr[a] < MaxQuality /\ nCorr' = [nCorr EXCEPT ![a] = @ + 1]
     ELSE UNCHANGED nCorr
  /\ recs' = IF /\ PinBudget # 0 /\ PinTokens > PinBudget
                /\ \A r \in recs : r[1] # "unpin_review"
             THEN recs \cup {<<"unpin_review", a>>}
             ELSE recs
  /\ StayIdle
  /\ UNCHANGED <<lists, oversize, p, c, validity, coldVars>>

-----------------------------------------------------------------------------
(* References: read, cited, applied, loaded on demand; and the preloads    *)
(* when preload_as_hit makes them hits (otherwise a preload only counts).  *)

IsReference(a) ==
  \/ Listed("reference", a)
  \/ PreloadAsHit /\ Listed("preload", a)

\* T1 to T2
Promote(a) == t1' = t1 \ {a} /\ t2' = t2 \cup {a}

\* Case I.  newTask is the answer of _is_new_task
Hit(a, newTask) ==
  /\ IsReference(a)
  /\ a \in Resident
  /\ CoalesceTasks \/ newTask
  /\ IF a \in t1 /\ newTask /\ GatePasses(a)
     THEN Promote(a)
     ELSE UNCHANGED <<t1, t2>>
  /\ Touch(a)
  /\ StayIdle
  /\ UNCHANGED <<b1, b2, oversize, p, c, quality, coldVars, recs>>

\* s * max(1, tok(other) / max(tok(own), 1)), scaled
Adapt(a, own, other) ==
  Greater(Acct(a) * PScale,
          (Acct(a) * PScale * Tok(other)) \div Greater(Tok(own), 1))

\* B1 hits grow the target of T1, B2 hits shrink it; p stays in [0, c].
\* Mutant: p is not clamped at 0
GrownTarget(a) == Lesser(c * PScale, p + Adapt(a, b1, b2))
UnclampedTarget(a) == p - Adapt(a, b2, b1)
ShrunkTarget(a) == Greater(0, p - Adapt(a, b2, b1))

\* Cases II and III
GhostHit(a) ==
  LET fromB2 == a \notin b1
      deny == ~GatePasses(a) /\ DenyRevival
  IN
  /\ IsReference(a)
  /\ a \in (b1 \cup b2) \ Resident
  /\ p' = IF deny /\ NoAdaptOnDeny THEN p
          ELSE IF fromB2 THEN ShrunkTarget(a) ELSE GrownTarget(a)
  /\ IF deny
     THEN Touch(a) /\ StayIdle /\ UNCHANGED <<b1, b2>>
     ELSE /\ b1' = b1 \ {a}
          /\ b2' = IF fromB2 THEN b2 \ {a} ELSE b2
          /\ Begin("evict", [art |-> a, need |-> Acct(a), fromB2 |-> fromB2,
                             to |-> IF GatePasses(a) THEN "T2" ELSE "T1"])
          /\ UNCHANGED age
  /\ UNCHANGED <<t1, t2, oversize, c, quality, coldVars, recs>>

\* Case IV, too large: supplied on demand, never resident
OversizeMiss(a) ==
  /\ IsReference(a)
  /\ a \notin Directory
  /\ IsOversize(a)
  /\ oversize' = oversize \cup {a}
  /\ recs' = recs \cup SplitRecs({a})
  /\ RestoreFromCold(a)
  /\ StayIdle
  /\ UNCHANGED <<lists, p, c, quality>>

CacheMiss(a) ==
  /\ IsReference(a)
  /\ a \notin Directory
  /\ ~IsOversize(a)
  /\ Begin("miss", [art |-> a, need |-> Acct(a), fromB2 |-> FALSE, to |-> "T1"])
  /\ UNCHANGED <<lists, oversize, p, c, quality, coldVars, recs>>

-----------------------------------------------------------------------------
(* set_budget: entries that no longer fit leave the lists, the others are  *)
(* accounted anew (Acct reads c), and the resident set shrinks.            *)

\* mutant: tested against the threshold of the old budget
OversizeAtOld(new) == {a \in Artifact : Size[a] > Cap[c] /\ new \in Budgets}
OversizeAt(new) == {a \in Artifact : Size[a] > Cap[new]}

SetBudget(new) ==
  LET large == OversizeAt(new)
      ghosts == (b1 \cup b2) \cap large
  IN
  /\ pc = "idle" /\ <<"set_budget", None>> \in Menu
  /\ c' = new
  /\ p' = Lesser(p, new * PScale)
  /\ t1' = t1 \ large /\ t2' = t2 \ large
  /\ b1' = b1 \ large /\ b2' = b2 \ large
  /\ oversize' = oversize \cup (Resident \cap large)
  /\ cold' = cold \cup (ghosts \ Protected)
  /\ coldEver' = coldEver \cup (ghosts \ Protected)
  /\ recs' = recs \cup SplitRecs(Resident \cap large)
                  \cup {<<"cold_transition", a>> : a \in ghosts \cap Protected}
  /\ Begin("evict", NoJob)
  /\ UNCHANGED <<age, quality>>

-----------------------------------------------------------------------------
(* The loops of the handlers, one iteration per step.                      *)

Need == job.need

\* mutants of the loop conditions: the room for the newcomer is forgotten
DirectoryFullWithoutNeed == Tok(t1) + Tok(t2) + Tok(b1) + Tok(b2) > 2 * c
ResidentFullWithoutNeed == Tok(t1) + Tok(t2) > c

L1Full == Tok(t1) + Tok(b1) + Need > c
DirectoryFull == Tok(t1) + Tok(t2) + Tok(b1) + Tok(b2) + Need > 2 * c
ResidentFull == Tok(t1) + Tok(t2) + Need > c

TrimB1Now == b1 # {} /\ L1Full
DeleteT1Now == b1 = {} /\ t1 # {} /\ Tok(t1) + Need > c
TrimB2Now == b2 # {} /\ DirectoryFull
EvictNow == ResidentFull /\ Resident # {}
\* mutant: the floor of the ghost list is off by one
LooseBoundB1 == Tok(t1) + Tok(b1) > c /\ Cardinality(b1) > NGhostMin + 1
BoundB1Now == Tok(t1) + Tok(b1) > c /\ Cardinality(b1) > NGhostMin
BoundB2Now == /\ Tok(t1) + Tok(t2) + Tok(b1) + Tok(b2) > 2 * c
              /\ Cardinality(b2) > NGhostMin

\* A loop runs once the loops before it have nothing left to do.
Evicting == \/ pc = "evict"
            \/ pc = "miss" /\ ~TrimB1Now /\ ~DeleteT1Now /\ ~TrimB2Now
Bounding == pc = "bounds" \/ (Evicting /\ ~EvictNow)

\* Case IV-A: make room in L1
MissTrimB1 ==
  /\ pc = "miss" /\ TrimB1Now
  /\ \E v \in b1 : IsLru(v, b1) /\ b1' = b1 \ {v} /\ ToCold({v})
  /\ UNCHANGED <<t1, t2, b2, age, oversize, p, c, quality, control>>

\* B1 is exhausted: T1 entries leave without a ghost
MissDeleteT1 ==
  /\ pc = "miss" /\ DeleteT1Now
  /\ \E v \in t1 : IsVictim(v, t1) /\ t1' = t1 \ {v} /\ ToCold({v})
  /\ UNCHANGED <<t2, b1, b2, age, oversize, p, c, quality, control>>

\* Case IV-B: make room in the directory
MissTrimB2 ==
  /\ pc = "miss" /\ ~TrimB1Now /\ ~DeleteT1Now /\ TrimB2Now
  /\ \E v \in b2 : IsLru(v, b2) /\ b2' = b2 \ {v} /\ ToCold({v})
  /\ UNCHANGED <<t1, t2, b1, age, oversize, p, c, quality, control>>

\* REPLACE: T1 pays when it is above its target p, else T2; an empty list
\* passes the turn to the other
FromT1 == \/ t2 = {}
          \/ /\ t1 # {}
             /\ \/ Tok(t1) * PScale > p
                \/ job.fromB2 /\ Tok(t1) * PScale >= p

\* mutant: the victim becomes a ghost and stays resident
EvictCopies ==
  /\ Evicting /\ EvictNow /\ FromT1
  /\ \E v \in t1 : IsVictim(v, t1) /\ b1' = b1 \cup {v} /\ Touch(v)
  /\ Begin("evict", job)
  /\ UNCHANGED <<t1, t2, b2, oversize, p, c, quality, coldVars, recs>>

EvictToB1 ==
  /\ Evicting /\ EvictNow /\ FromT1
  /\ \E v \in t1 : IsVictim(v, t1) /\ t1' = t1 \ {v} /\ b1' = b1 \cup {v} /\ Touch(v)
  /\ Begin("evict", job)
  /\ UNCHANGED <<t2, b2, oversize, p, c, quality, coldVars, recs>>

EvictToB2 ==
  /\ Evicting /\ EvictNow /\ ~FromT1
  /\ \E v \in t2 : IsVictim(v, t2) /\ t2' = t2 \ {v} /\ b2' = b2 \cup {v} /\ Touch(v)
  /\ Begin("evict", job)
  /\ UNCHANGED <<t1, b1, oversize, p, c, quality, coldVars, recs>>

\* enforce_ghost_bounds, which leaves a floor of NGhostMin entries
BoundB1 ==
  /\ Bounding /\ BoundB1Now
  /\ \E v \in b1 : IsLru(v, b1) /\ b1' = b1 \ {v} /\ ToCold({v})
  /\ Begin("bounds", job)
  /\ UNCHANGED <<t1, t2, b2, age, oversize, p, c, quality>>

BoundB2 ==
  /\ Bounding /\ ~BoundB1Now /\ BoundB2Now
  /\ \E v \in b2 : IsLru(v, b2) /\ b2' = b2 \ {v} /\ ToCold({v})
  /\ Begin("bounds", job)
  /\ UNCHANGED <<t1, t2, b1, age, oversize, p, c, quality>>

Bounded == Bounding /\ ~BoundB1Now /\ ~BoundB2Now

\* the artifact the handler made room for enters a resident list
Admit ==
  /\ Bounded /\ job.to # "none"
  /\ IF job.to = "T2" THEN t2' = t2 \cup {job.art} /\ UNCHANGED t1
                      ELSE t1' = t1 \cup {job.art} /\ UNCHANGED t2
  /\ Touch(job.art)
  /\ RestoreFromCold(job.art)
  /\ Finish
  /\ UNCHANGED <<b1, b2, oversize, p, c, quality, recs>>

\* a demotion or a budget change has nothing to admit
EndHandler ==
  /\ Bounded /\ job.to = "none"
  /\ Finish
  /\ UNCHANGED <<lists, oversize, p, c, quality, coldVars, recs>>

-----------------------------------------------------------------------------
Init ==
  /\ t1 = {} /\ t2 = {} /\ b1 = {} /\ b2 = {}
  /\ age = InitAge
  /\ oversize = {} /\ cold = {} /\ coldEver = {} /\ recs = {}
  /\ p = PInit /\ c = InitBudget
  /\ nVal = [a \in Artifact |-> 0] /\ nCorr = [a \in Artifact |-> 0]
  /\ validity = [a \in Artifact |-> "VALID"]
  /\ pc = "idle" /\ job = NoJob

QualityEvent(a) ==
  \/ Validated(a) \/ Corrected(a) \/ Conflicted(a)
  \/ \E v \in Validity : ValidityChanged(a, v)

Event(a) ==
  \/ QualityEvent(a)
  \/ Discovered(a)
  \/ \E newTask \in BOOLEAN : Hit(a, newTask)
  \/ GhostHit(a) \/ OversizeMiss(a) \/ CacheMiss(a)

Loop ==
  \/ MissTrimB1 \/ MissDeleteT1 \/ MissTrimB2 \/ EvictToB1 \/ EvictToB2
  \/ BoundB1 \/ BoundB2 \/ Admit \/ EndHandler

Next ==
  \/ \E a \in Artifact : Event(a)
  \/ \E m \in Menu : PinnedEvent(m[2], m[1])
  \/ \E new \in Budgets : SetBudget(new)
  \/ Loop

\* An event handler that has begun runs to its end; no event is ever due.
Spec == Init /\ [][Next]_vars /\ WF_vars(Loop)

-----------------------------------------------------------------------------
(* Properties.                                                             *)

TypeOK ==
  /\ t1 \subseteq Artifact /\ t2 \subseteq Artifact
  /\ b1 \subseteq Artifact /\ b2 \subseteq Artifact
  /\ oversize \subseteq Artifact
  /\ cold \subseteq Artifact /\ coldEver \subseteq Artifact
  /\ age \in [Artifact -> Nat]
  /\ c \in Budgets /\ p \in 0 .. c * PScale
  /\ nVal \in [Artifact -> 0 .. MaxQuality]
  /\ nCorr \in [Artifact -> 0 .. MaxQuality]
  /\ validity \in [Artifact -> Validity]
  /\ recs \subseteq {"split", "invalidate_or_correct", "cold_transition",
                     "contradiction_review", "unpin_review"} \X Artifact
  /\ pc \in Phases /\ job \in Jobs

Idle == pc = "idle"

\* I1, the ARC lists: an artifact is in at most one list, and a pinned one in
\* none; it is not lost or doubled while a handler holds it either.
ListsDisjoint ==
  /\ t1 \cap t2 = {} /\ b1 \cap b2 = {} /\ Resident \cap (b1 \cup b2) = {}
  /\ Directory \cap Pinned = {}
  /\ job.art \notin Directory

\* I2: the resident set fits the budget at every event boundary.
ResidentWithinBudget == Idle => Tok(t1) + Tok(t2) <= c

\* I3: L1 = T1 + B1 exceeds c only while B1 is down to its floor.
L1Bound == Idle /\ Tok(t1) + Tok(b1) > c => Cardinality(b1) <= NGhostMin

\* I4: as long as the budget is not changed the directory never needs its floor:
\* a miss makes room first and no other event adds tokens.
DirectoryWithinTwiceBudget ==
  Idle => Tok(t1) + Tok(t2) + Tok(b1) + Tok(b2) <= 2 * c

\* T2, the protected list, never holds what the promotion gate would keep
\* out for good: whichever events arrive after a promotion or a revival.
T2Clean ==
  \A a \in t2 :
    /\ WithoutValidityGate \/ validity[a] \notin Stale
    /\ ~Harmful(a) /\ ~LowQuality(a) /\ ~IsOversize(a)

\* No list holds an artifact above the oversize threshold of the current c.
NoOversizeListed == \A a \in Directory : ~IsOversize(a)

\* A cold artifact is out of the directory, and every return to it (revival,
\* admission) clears the tag.
ColdOutsideDirectory == cold \cap Directory = {}

\* I8: no critical artifact is ever made cold without an approval.
CriticalNeverCold == CriticalColdApproval => coldEver \cap Critical = {}

\* I7 asks that no quality event leaves its artifact resident while it is stale
\* or harmful. What holds of it: an artifact that becomes so leaves the resident
\* lists in that very step. (One that already is comes back to T1, in
\* quarantine, as the job of a miss or a revival, and later events leave it.)
Dirty(a) == \/ ~WithoutValidityGate /\ validity[a] \in Stale
            \/ Harmful(a)
DirtLeaves ==
  [][\A a \in Artifact : a \in Resident' /\ Dirty(a)'
       => Dirty(a) \/ job.art = a]_vars

\* A critical artifact that drops out of the directory is announced: its
\* cold_transition recommendation is pending from that step on.
CriticalDropAnnounced ==
  [][CriticalColdApproval =>
       \A a \in Critical \cap Directory :
         a \notin Directory' /\ job'.art # a
           => \/ <<"cold_transition", a>> \in recs'
              \/ a \in oversize']_vars

\* Every event handler terminates: each of its steps ends it or leaves less to
\* do, an eviction half as much for its artifact as a trim.
WorkLeft == 2 * Cardinality(Resident) + Cardinality(b1 \cup b2)
HandlerEnds == [][pc # "idle" => pc' = "idle" \/ WorkLeft' < WorkLeft]_vars

\* check_invariants, as the engine asserts it after every event when
\* debug_invariants is on; I7 and I8 are DirtLeaves and CriticalNeverCold.
CheckInvariants ==
  Idle =>
    /\ ListsDisjoint /\ oversize \cap (Directory \cup Pinned) = {}
    /\ ResidentWithinBudget /\ L1Bound
    /\ Tok(t1) + Tok(t2) + Tok(b1) + Tok(b2) > 2 * c => Cardinality(b2) <= NGhostMin
    /\ p \in 0 .. c * PScale
    /\ NoOversizeListed

\* The engine implements the promise every policy makes to its caller.
Promise == INSTANCE ResidentSet
             WITH supplied <- Resident, budget <- c, coldTags <- cold
KeepsPromise == Promise!RSSpec

(* What holds of the lists between two events and within them: I4, I7 and I8, *)
(* and what the gate of T2 is for (policy/karc.py:773-852).                   *)
DirectoryIsSound ==
  /\ T2Clean /\ DirectoryWithinTwiceBudget
  /\ NoOversizeListed /\ ColdOutsideDirectory /\ CriticalNeverCold

(* What a step owes the caller: the promise of every policy, that what turns  *)
(* stale or harmful leaves in that step, and that no critical artifact leaves *)
(* the directory unannounced (policy/karc.py:480-770).                        *)
StepsKeepTheirWord == KeepsPromise /\ DirtLeaves /\ CriticalDropAnnounced
=============================================================================
