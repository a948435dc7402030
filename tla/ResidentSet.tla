----------------------------- MODULE ResidentSet -----------------------------
(***************************************************************************)
(* What every policy of src/karc/policy promises its caller: the interface *)
(* of Policy.working_set and Policy.is_resident in base.py.  The supplied  *)
(* set gains one artifact at a time, only when the artifact fits the token *)
(* budget with all that stays; it may lose artifacts at any time; and an   *)
(* artifact is tagged cold only when it is not supplied and not protected. *)
(***************************************************************************)
EXTENDS Integers, FiniteSets

CONSTANTS Artifact, Budgets, Protected,
          Cost(_, _)    \* Cost(a, b): tokens a accounts for under budget b

VARIABLES supplied, budget, coldTags
rsVars == <<supplied, budget, coldTags>>

SuppliedTokens(S, b) == Cardinality(UNION {{a} \X (1 .. Cost(a, b)) : a \in S})

RSInit ==
  /\ supplied = {} /\ coldTags = {}
  /\ budget \in Budgets

\* new cold tags go to artifacts that are neither supplied nor protected
Forgets ==
  /\ coldTags \subseteq coldTags' /\ coldTags' \subseteq Artifact
  /\ (coldTags' \ coldTags) \cap (supplied' \cup Protected) = {}

RSAdmit(a) ==
  /\ a \notin supplied
  /\ SuppliedTokens(supplied, budget) + Cost(a, budget) <= budget
  /\ supplied' = supplied \cup {a}
  /\ coldTags' = coldTags \ {a}
  /\ UNCHANGED budget

\* an artifact that is served once without being kept
RSServe(a) == coldTags' = coldTags \ {a} /\ UNCHANGED <<supplied, budget>>

RSShrink == supplied' \subseteq supplied /\ Forgets /\ UNCHANGED budget

\* the operator changes the budget: what no longer fits may leave at once
RSResize == supplied' \subseteq supplied /\ Forgets /\ budget' \in Budgets \ {budget}

RSNext ==
  \/ \E a \in Artifact : RSAdmit(a) \/ RSServe(a)
  \/ RSShrink
  \/ RSResize

RSSpec == RSInit /\ [][RSNext]_rsVars
=============================================================================
