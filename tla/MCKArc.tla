------------------------------- MODULE MCKArc -------------------------------
(* Small instances of KArc: artifacts, sizes, thresholds and event menus.  *)
EXTENDS KArc, TLC

CONSTANTS a1, a2, a3, a4

MCSize == a1 :> 1 @@ a2 :> 2 @@ a3 :> 2 @@ a4 :> 3
MCAge == a1 :> 0 @@ a2 :> 1 @@ a3 :> 2 @@ a4 :> 3
SizeHere == [a \in Artifact |-> MCSize[a]]
\* the pinned artifact would fit
QualitySizes == [SizeHere EXCEPT ![a4] = 1]
AgeHere == [a \in Artifact |-> MCAge[a]]

\* alpha = 1 and alpha = 3/4
WholeCap == [b \in Budgets |-> b]
MostCap == [b \in Budgets |-> (3 * b) \div 4]

References == {"reference"} \X Artifact
BudgetMenu == References \cup {<<"set_budget", None>>}
\* a1 earns and loses quality, a2 is corrected, disputed and goes stale; a4 is pinned
QualityMenu == References \cup ({"validated", "corrected"} \X {a1}) \cup {<<"discovered", a3>>}
                 \cup ({"corrected", "conflicted", "validity_changed"} \X {a2})
=============================================================================
