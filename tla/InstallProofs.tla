--------------------------- MODULE InstallProofs ---------------------------
(* Proofs about an installation (MCInstall): whatever processes open the      *)
(* database, whichever servers start, and however often the owner edits the   *)
(* files and init is killed, the installation is safe (InstallIsSafe).  The   *)
(* three parts share no variable; each has its inductive invariant.           *)
EXTENDS MCInstall, FiniteSetTheorems, TLAPS

-----------------------------------------------------------------------------
(* The database.  A process that migrates is at one of fourteen statements.   *)
Objects == {"meta", "core", "cas", "guard", "new"}
States == {"new", "migrating", "open", "closed", "failed", "dead"}
Place(p) ==
  IF opener[p].state # "migrating" THEN 0
  ELSE IF 1 \in opener[p].pending THEN opener[p].done + 1 ELSE opener[p].done + 7

DbTypeOK ==
  /\ db \in [objects : SUBSET Objects, rows : SUBSET {1, 2}, stamp : {0, 1, 2}, cas : SUBSET Openers,
             new : SUBSET Openers, stored : SUBSET Openers, referenced : SUBSET Openers]
  /\ opener \in [Openers -> [state : States, pending : SUBSET {1, 2}, done : 0 .. 7]]
  /\ \A p \in Openers : opener[p].state = "migrating" =>
       \/ opener[p].pending = {1, 2} /\ opener[p].done \in 0 .. 5
       \/ opener[p].pending = {2} /\ opener[p].done \in 0 .. 7

(* The statements of the two scripts, one by one.                             *)
LEMMA Scripts ==
  /\ Database!Script(1)[1] = "create meta" /\ Database!Script(1)[2] = "create core"
  /\ Database!Script(1)[3] = "create cas" /\ Database!Script(1)[4] = "create guard"
  /\ Database!Script(1)[5] = "record" /\ Database!Script(1)[6] = "stamp"
  /\ Database!Script(2)[1] = "drop guard" /\ Database!Script(2)[2] = "create new"
  /\ Database!Script(2)[3] = "copy" /\ Database!Script(2)[4] = "drop cas"
  /\ Database!Script(2)[5] = "rename" /\ Database!Script(2)[6] = "create guard"
  /\ Database!Script(2)[7] = "record" /\ Database!Script(2)[8] = "stamp"
  BY DEF Database!Script

(* What each statement does: it fails when "refused", or leaves db = next.    *)
Does(p, refused, next) ==
  IF refused THEN opener' = [opener EXCEPT ![p] = Database!Gone("failed")] /\ db' = db
  ELSE opener' = [opener EXCEPT ![p] = Database!Advanced(p)] /\ db' = next

LEMMA Statements ==
  ASSUME DbTypeOK, NEW p \in Openers, opener[p].state = "migrating"
  PROVE  /\ Place(p) \in 1 .. 14
         /\ Place(p) = 1 => Database!Version(p) = 1 /\ Database!Statement(p) = "create meta"
         /\ Place(p) = 2 => Database!Version(p) = 1 /\ Database!Statement(p) = "create core"
         /\ Place(p) = 3 => Database!Version(p) = 1 /\ Database!Statement(p) = "create cas"
         /\ Place(p) = 4 => Database!Version(p) = 1 /\ Database!Statement(p) = "create guard"
         /\ Place(p) = 5 => Database!Version(p) = 1 /\ Database!Statement(p) = "record"
         /\ Place(p) = 6 => Database!Version(p) = 1 /\ Database!Statement(p) = "stamp"
         /\ Place(p) = 7 => Database!Version(p) = 2 /\ Database!Statement(p) = "drop guard"
         /\ Place(p) = 8 => Database!Version(p) = 2 /\ Database!Statement(p) = "create new"
         /\ Place(p) = 9 => Database!Version(p) = 2 /\ Database!Statement(p) = "copy"
         /\ Place(p) = 10 => Database!Version(p) = 2 /\ Database!Statement(p) = "drop cas"
         /\ Place(p) = 11 => Database!Version(p) = 2 /\ Database!Statement(p) = "rename"
         /\ Place(p) = 12 => Database!Version(p) = 2 /\ Database!Statement(p) = "create guard"
         /\ Place(p) = 13 => Database!Version(p) = 2 /\ Database!Statement(p) = "record"
         /\ Place(p) = 14 => Database!Version(p) = 2 /\ Database!Statement(p) = "stamp"
<1>1. \A n \in 1 .. 14 : Place(p) = n =>
        IF n <= 6 THEN Database!Version(p) = 1 /\ Database!Statement(p) = Database!Script(1)[n]
        ELSE Database!Version(p) = 2 /\ Database!Statement(p) = Database!Script(2)[n - 6]
  <2>1. CASE opener[p].pending = {1, 2} /\ opener[p].done \in 0 .. 5
    <3>1. Place(p) = opener[p].done + 1 /\ Database!Version(p) = 1 BY <2>1 DEF Place, Database!Version
    <3> QED BY <2>1, <3>1 DEF Database!Statement
  <2>2. CASE opener[p].pending = {2} /\ opener[p].done \in 0 .. 7
    <3>1. Place(p) = opener[p].done + 7 /\ Database!Version(p) = 2 BY <2>2 DEF Place, Database!Version
    <3>2. \A n \in 1 .. 14 : Place(p) = n => n > 6 /\ n - 6 = opener[p].done + 1 BY <2>2, <3>1
    <3> QED BY <3>1, <3>2 DEF Database!Statement
  <2> QED BY <2>1, <2>2 DEF DbTypeOK
<1>2. Place(p) \in 1 .. 14 BY DEF Place, DbTypeOK
<1>3. Place(p) = 1 => Database!Version(p) = 1 /\ Database!Statement(p) = "create meta"
  <2>1. Place(p) = 1 => Database!Version(p) = 1 /\ Database!Statement(p) = Database!Script(1)[1] BY <1>1
  <2> QED BY <2>1, Scripts
<1>4. Place(p) = 2 => Database!Version(p) = 1 /\ Database!Statement(p) = "create core"
  <2>1. Place(p) = 2 => Database!Version(p) = 1 /\ Database!Statement(p) = Database!Script(1)[2] BY <1>1
  <2> QED BY <2>1, Scripts
<1>5. Place(p) = 3 => Database!Version(p) = 1 /\ Database!Statement(p) = "create cas"
  <2>1. Place(p) = 3 => Database!Version(p) = 1 /\ Database!Statement(p) = Database!Script(1)[3] BY <1>1
  <2> QED BY <2>1, Scripts
<1>6. Place(p) = 4 => Database!Version(p) = 1 /\ Database!Statement(p) = "create guard"
  <2>1. Place(p) = 4 => Database!Version(p) = 1 /\ Database!Statement(p) = Database!Script(1)[4] BY <1>1
  <2> QED BY <2>1, Scripts
<1>7. Place(p) = 5 => Database!Version(p) = 1 /\ Database!Statement(p) = "record"
  <2>1. Place(p) = 5 => Database!Version(p) = 1 /\ Database!Statement(p) = Database!Script(1)[5] BY <1>1
  <2> QED BY <2>1, Scripts
<1>8. Place(p) = 6 => Database!Version(p) = 1 /\ Database!Statement(p) = "stamp"
  <2>1. Place(p) = 6 => Database!Version(p) = 1 /\ Database!Statement(p) = Database!Script(1)[6] BY <1>1
  <2> QED BY <2>1, Scripts
<1>9. Place(p) = 7 => Database!Version(p) = 2 /\ Database!Statement(p) = "drop guard"
  <2>1. Place(p) = 7 => Database!Version(p) = 2 /\ Database!Statement(p) = Database!Script(2)[1] BY <1>1
  <2> QED BY <2>1, Scripts
<1>10. Place(p) = 8 => Database!Version(p) = 2 /\ Database!Statement(p) = "create new"
  <2>1. Place(p) = 8 => Database!Version(p) = 2 /\ Database!Statement(p) = Database!Script(2)[2] BY <1>1
  <2> QED BY <2>1, Scripts
<1>11. Place(p) = 9 => Database!Version(p) = 2 /\ Database!Statement(p) = "copy"
  <2>1. Place(p) = 9 => Database!Version(p) = 2 /\ Database!Statement(p) = Database!Script(2)[3] BY <1>1
  <2> QED BY <2>1, Scripts
<1>12. Place(p) = 10 => Database!Version(p) = 2 /\ Database!Statement(p) = "drop cas"
  <2>1. Place(p) = 10 => Database!Version(p) = 2 /\ Database!Statement(p) = Database!Script(2)[4] BY <1>1
  <2> QED BY <2>1, Scripts
<1>13. Place(p) = 11 => Database!Version(p) = 2 /\ Database!Statement(p) = "rename"
  <2>1. Place(p) = 11 => Database!Version(p) = 2 /\ Database!Statement(p) = Database!Script(2)[5] BY <1>1
  <2> QED BY <2>1, Scripts
<1>14. Place(p) = 12 => Database!Version(p) = 2 /\ Database!Statement(p) = "create guard"
  <2>1. Place(p) = 12 => Database!Version(p) = 2 /\ Database!Statement(p) = Database!Script(2)[6] BY <1>1
  <2> QED BY <2>1, Scripts
<1>15. Place(p) = 13 => Database!Version(p) = 2 /\ Database!Statement(p) = "record"
  <2>1. Place(p) = 13 => Database!Version(p) = 2 /\ Database!Statement(p) = Database!Script(2)[7] BY <1>1
  <2> QED BY <2>1, Scripts
<1>16. Place(p) = 14 => Database!Version(p) = 2 /\ Database!Statement(p) = "stamp"
  <2>1. Place(p) = 14 => Database!Version(p) = 2 /\ Database!Statement(p) = Database!Script(2)[8] BY <1>1
  <2> QED BY <2>1, Scripts
<1> QED BY <1>2, <1>3, <1>4, <1>5, <1>6, <1>7, <1>8, <1>9, <1>10, <1>11, <1>12, <1>13, <1>14, <1>15, <1>16

(* A process that migrates is at one of the fourteen, and its step is that one. *)
LEMMA Effects ==
  ASSUME DbTypeOK, NEW p \in Openers, Database!Migrate(p)
  PROVE  /\ Place(p) \in 1 .. 14
         /\ Place(p) = 1 => Does(p, "meta" \in db.objects, [db EXCEPT !.objects = @ \cup {"meta"}])
         /\ Place(p) = 2 => Does(p, "core" \in db.objects, [db EXCEPT !.objects = @ \cup {"core"}])
         /\ Place(p) = 3 => Does(p, "cas" \in db.objects, [db EXCEPT !.objects = @ \cup {"cas"}])
         /\ Place(p) = 4 => Does(p, "guard" \in db.objects, [db EXCEPT !.objects = @ \cup {"guard"}])
         /\ Place(p) = 5 => Does(p, 1 \in db.rows, [db EXCEPT !.rows = @ \cup {1}])
         /\ Place(p) = 6 => Does(p, FALSE, [db EXCEPT !.stamp = 1])
         /\ Place(p) = 7 => Does(p, "guard" \notin db.objects, [db EXCEPT !.objects = @ \ {"guard"}])
         /\ Place(p) = 8 => Does(p, "new" \in db.objects, [db EXCEPT !.objects = @ \cup {"new"}])
         /\ Place(p) = 9 => Does(p, ~({"cas", "new"} \subseteq db.objects) \/ db.new \cap db.cas # {}, [db EXCEPT !.new = @ \cup db.cas])
         /\ Place(p) = 10 => Does(p, "cas" \notin db.objects \/ db.cas \cap db.referenced # {},
                               [db EXCEPT !.objects = @ \ {"cas"}, !.cas = {}])
         /\ Place(p) = 11 => Does(p, "new" \notin db.objects \/ "cas" \in db.objects,
                               [db EXCEPT !.objects = (@ \ {"new"}) \cup {"cas"}, !.cas = db.new, !.new = {}])
         /\ Place(p) = 12 => Does(p, "guard" \in db.objects, [db EXCEPT !.objects = @ \cup {"guard"}])
         /\ Place(p) = 13 => Does(p, 2 \in db.rows, [db EXCEPT !.rows = @ \cup {2}])
         /\ Place(p) = 14 => Does(p, FALSE, [db EXCEPT !.stamp = 2])
<1> DEFINE v == Database!Version(p)
           d == Database!Statement(p)
<1>1. opener[p].state = "migrating" /\ Does(p, Database!Fails(v, d), Database!Executed(v, d))
  BY DEF Database!Migrate, Does
<1>2. Place(p) \in 1 .. 14 BY <1>1, Statements
<1>3. Place(p) = 1 => v = 1 /\ d = "create meta" BY <1>1, Statements
<1>4. Place(p) = 2 => v = 1 /\ d = "create core" BY <1>1, Statements
<1>5. Place(p) = 3 => v = 1 /\ d = "create cas" BY <1>1, Statements
<1>6. Place(p) = 4 => v = 1 /\ d = "create guard" BY <1>1, Statements
<1>7. Place(p) = 5 => v = 1 /\ d = "record" BY <1>1, Statements
<1>8. Place(p) = 6 => v = 1 /\ d = "stamp" BY <1>1, Statements
<1>9. Place(p) = 7 => v = 2 /\ d = "drop guard" BY <1>1, Statements
<1>10. Place(p) = 8 => v = 2 /\ d = "create new" BY <1>1, Statements
<1>11. Place(p) = 9 => v = 2 /\ d = "copy" BY <1>1, Statements
<1>12. Place(p) = 10 => v = 2 /\ d = "drop cas" BY <1>1, Statements
<1>13. Place(p) = 11 => v = 2 /\ d = "rename" BY <1>1, Statements
<1>14. Place(p) = 12 => v = 2 /\ d = "create guard" BY <1>1, Statements
<1>15. Place(p) = 13 => v = 2 /\ d = "record" BY <1>1, Statements
<1>16. Place(p) = 14 => v = 2 /\ d = "stamp" BY <1>1, Statements
<1> HIDE DEF v, d
<1>17. /\ Place(p) = 1 => Does(p, "meta" \in db.objects, [db EXCEPT !.objects = @ \cup {"meta"}])
       /\ Place(p) = 2 => Does(p, "core" \in db.objects, [db EXCEPT !.objects = @ \cup {"core"}])
       /\ Place(p) = 3 => Does(p, "cas" \in db.objects, [db EXCEPT !.objects = @ \cup {"cas"}])
       /\ Place(p) = 4 => Does(p, "guard" \in db.objects, [db EXCEPT !.objects = @ \cup {"guard"}])
  BY <1>1, <1>3, <1>4, <1>5, <1>6 DEF Does, Database!Fails, Database!Executed
<1>18. /\ Place(p) = 5 => Does(p, 1 \in db.rows, [db EXCEPT !.rows = @ \cup {1}])
       /\ Place(p) = 6 => Does(p, FALSE, [db EXCEPT !.stamp = 1])
       /\ Place(p) = 13 => Does(p, 2 \in db.rows, [db EXCEPT !.rows = @ \cup {2}])
       /\ Place(p) = 14 => Does(p, FALSE, [db EXCEPT !.stamp = 2])
  BY <1>1, <1>7, <1>8, <1>15, <1>16 DEF Does, Database!Fails, Database!Executed
<1>19. /\ Place(p) = 7 => Does(p, "guard" \notin db.objects, [db EXCEPT !.objects = @ \ {"guard"}])
       /\ Place(p) = 8 => Does(p, "new" \in db.objects, [db EXCEPT !.objects = @ \cup {"new"}])
       /\ Place(p) = 12 => Does(p, "guard" \in db.objects, [db EXCEPT !.objects = @ \cup {"guard"}])
  BY <1>1, <1>9, <1>10, <1>14 DEF Does, Database!Fails, Database!Executed
<1>20. Place(p) = 9 => Does(p, ~({"cas", "new"} \subseteq db.objects) \/ db.new \cap db.cas # {}, [db EXCEPT !.new = @ \cup db.cas])
  BY <1>1, <1>11 DEF Does, Database!Fails, Database!Executed
<1>21. Place(p) = 10 => Does(p, "cas" \notin db.objects \/ db.cas \cap db.referenced # {},
                          [db EXCEPT !.objects = @ \ {"cas"}, !.cas = {}])
  BY <1>1, <1>12 DEF Does, Database!Fails, Database!Executed
<1>22. Place(p) = 11 => Does(p, "new" \notin db.objects \/ "cas" \in db.objects,
                          [db EXCEPT !.objects = (@ \ {"new"}) \cup {"cas"}, !.cas = db.new, !.new = {}])
  BY <1>1, <1>13 DEF Does, Database!Fails, Database!Executed
<1> QED BY <1>2, <1>17, <1>18, <1>19, <1>20, <1>21, <1>22

(* Whoever executes a statement goes on to the next place, or is open.        *)
LEMMA Advances ==
  ASSUME DbTypeOK, NEW p \in Openers, Database!Migrate(p), opener' = [opener EXCEPT ![p] = Database!Advanced(p)]
  PROVE  /\ opener'[p] \in [state : {"migrating", "open"}, pending : SUBSET {1, 2}, done : 0 .. 7]
         /\ opener'[p].state = (IF Place(p) = 14 THEN "open" ELSE "migrating")
         /\ Place(p)' = (IF Place(p) = 14 THEN 0 ELSE Place(p) + 1)
         /\ opener'[p].state = "migrating" =>
              \/ opener'[p].pending = {1, 2} /\ opener'[p].done \in 0 .. 5
              \/ opener'[p].pending = {2} /\ opener'[p].done \in 0 .. 7
<1>1. opener[p].state = "migrating" BY DEF Database!Migrate
<1>2. opener'[p] = Database!Advanced(p) /\ opener[p] \in [state : States, pending : SUBSET {1, 2}, done : 0 .. 7]
  BY DEF DbTypeOK
<1>3. Database!Statement(p) = "stamp" <=> Place(p) \in {6, 14}
  <2>1. Place(p) \in 1 .. 14 BY <1>1, Statements
  <2>2. Place(p) \in {1, 2, 3, 4, 5, 6, 7, 8, 9, 10, 11, 12, 13, 14} BY <2>1
  <2> QED BY <1>1, <2>2, Statements
<1>4. CASE opener[p].pending = {1, 2} /\ opener[p].done \in 0 .. 5
  <2>1. Place(p) = opener[p].done + 1 /\ Database!Version(p) = 1 BY <1>1, <1>4 DEF Place, Database!Version
  <2>2. CASE Place(p) # 6
    <3>1. opener'[p] = [opener[p] EXCEPT !.done = @ + 1] /\ opener[p].done \in 0 .. 4 BY <1>2, <1>3, <1>4, <2>1, <2>2 DEF Database!Advanced
    <3>2. opener'[p].state = "migrating" /\ opener'[p].pending = {1, 2} /\ opener'[p].done = opener[p].done + 1 BY <1>1, <1>2, <1>4, <3>1
    <3> QED BY <1>2, <2>1, <3>1, <3>2 DEF Place
  <2>3. CASE Place(p) = 6
    <3>1. opener'[p] = [state |-> "migrating", pending |-> {2}, done |-> 0]
      <4>1. {1, 2} # {1} /\ {1, 2} \ {1} = {2} OBVIOUS
      <4> QED BY <1>2, <1>3, <1>4, <2>1, <2>3, <4>1 DEF Database!Advanced
    <3> QED BY <2>3, <3>1 DEF Place
  <2> QED BY <2>2, <2>3
<1>5. CASE opener[p].pending = {2} /\ opener[p].done \in 0 .. 7
  <2>1. Place(p) = opener[p].done + 7 /\ Database!Version(p) = 2 BY <1>1, <1>5 DEF Place, Database!Version
  <2>2. CASE Place(p) # 14
    <3>1. opener'[p] = [opener[p] EXCEPT !.done = @ + 1] /\ opener[p].done \in 0 .. 6 BY <1>2, <1>3, <1>5, <2>1, <2>2 DEF Database!Advanced
    <3>2. opener'[p].state = "migrating" /\ opener'[p].pending = {2} /\ opener'[p].done = opener[p].done + 1 BY <1>1, <1>2, <1>5, <3>1
    <3> QED BY <1>2, <2>1, <2>2, <3>1, <3>2 DEF Place
  <2>3. CASE Place(p) = 14
    <3>1. opener'[p] = [state |-> "open", pending |-> {}, done |-> 0]
      BY <1>2, <1>3, <1>5, <2>1, <2>3 DEF Database!Advanced
    <3> QED BY <2>3, <3>1 DEF Place
  <2> QED BY <2>2, <2>3
<1> QED BY <1>1, <1>4, <1>5 DEF DbTypeOK

(* A content is where a snapshot looks for it, as long as its table is there. *)
Contents ==
  /\ db.referenced \subseteq db.cas
  /\ "cas" \notin db.objects => db.cas = {}

(* What a process has executed is recorded before it goes on, and nobody      *)
(* stores a content before the second version is recorded.                    *)
Marks ==
  /\ db.stamp \in db.rows \cup {0} /\ (2 \in db.rows => 1 \in db.rows)
  /\ db.rows # {} => "meta" \in db.objects
  /\ \A p \in Openers :
       /\ Place(p) >= 2 => "meta" \in db.objects
       /\ Place(p) >= 6 => 1 \in db.rows
       /\ Place(p) = 14 \/ opener[p].state \in {"open", "closed"} => 2 \in db.rows
Unused == 2 \notin db.rows => db.cas = {} /\ db.new = {} /\ db.referenced = {}

(* As long as nobody was killed, somebody is on the way to the last record,   *)
(* and no other can disturb him: the others fail at their next statement.     *)
Expected(n) ==
  (IF n >= 2 THEN {"meta"} ELSE {}) \cup (IF n >= 3 THEN {"core"} ELSE {})
  \cup (IF n \in 4 .. 10 \cup 12 .. 14 THEN {"cas"} ELSE {})
  \cup (IF n \in 5 .. 7 \cup 13 .. 14 THEN {"guard"} ELSE {})
  \cup (IF n \in 9 .. 11 THEN {"new"} ELSE {})
Waits(p) == opener[p].state \in {"new", "failed"}
Fresh ==
  /\ db.rows = {} /\ db.objects = {}
  /\ \A p \in Openers : opener[p].state = "new" \/ Place(p) = 1
Creating(l) ==
  /\ db.rows = {} /\ Place(l) \in 2 .. 5 /\ db.objects = Expected(Place(l))
  /\ \A p \in Openers \ {l} : Waits(p) \/ Place(p) = 1
AtVersion1 ==
  /\ db.rows = {1} /\ db.objects = Expected(7)
  /\ \A p \in Openers : Waits(p) \/ Place(p) \in {1, 6, 7}
  /\ \E p \in Openers : opener[p].state = "new" \/ Place(p) \in {6, 7}
Converting(l) ==
  /\ db.rows = {1} /\ Place(l) \in 8 .. 12 /\ db.objects = Expected(Place(l))
  /\ \A p \in Openers \ {l} : Waits(p) \/ Place(p) \in {1, 6, 7}
Recording == db.rows = {1} /\ \E p \in Openers : Place(p) = 13
Killed == \E p \in Openers : opener[p].state = "dead"
UnderWay ==
  \/ Killed \/ 2 \in db.rows \/ Fresh \/ AtVersion1 \/ Recording
  \/ \E l \in Openers : Creating(l) \/ Converting(l)
DbInv == DbTypeOK /\ Contents /\ Marks /\ Unused /\ UnderWay

(* What a process on the way finds at its place.                              *)
LEMMA Expectations ==
  /\ Expected(2) = {"meta"} /\ Expected(3) = {"meta", "core"} /\ Expected(4) = {"meta", "core", "cas"}
  /\ Expected(5) = {"meta", "core", "cas", "guard"} /\ Expected(7) = {"meta", "core", "cas", "guard"}
  /\ Expected(8) = {"meta", "core", "cas"} /\ Expected(9) = {"meta", "core", "cas", "new"}
  /\ Expected(10) = {"meta", "core", "cas", "new"} /\ Expected(11) = {"meta", "core", "new"}
  /\ Expected(12) = {"meta", "core", "cas"}
<1>1. /\ Expected(2) = {"meta"} /\ Expected(3) = {"meta", "core"} /\ Expected(4) = {"meta", "core", "cas"}
      /\ Expected(5) = {"meta", "core", "cas", "guard"} /\ Expected(7) = {"meta", "core", "cas", "guard"}
  BY DEF Expected
<1>2. /\ Expected(8) = {"meta", "core", "cas"} /\ Expected(9) = {"meta", "core", "cas", "new"}
      /\ Expected(10) = {"meta", "core", "cas", "new"} /\ Expected(11) = {"meta", "core", "new"}
      /\ Expected(12) = {"meta", "core", "cas"}
  BY DEF Expected
<1> QED BY <1>1, <1>2

(* A step of one opener leaves the records of the others alone.               *)
LEMMA OthersStay ==
  ASSUME DbTypeOK, NEW p \in Openers, NEW next, opener' = [opener EXCEPT ![p] = next]
  PROVE  /\ opener'[p] = next /\ DOMAIN opener' = Openers
         /\ \A q \in Openers \ {p} : opener'[q] = opener[q] /\ Place(q)' = Place(q) /\ Waits(q)' = Waits(q)
BY DEF DbTypeOK, Place, Waits

(* The types of a step that leaves the others alone.                          *)
LEMMA TypeStays ==
  ASSUME DbTypeOK, NEW p \in Openers, NEW next, opener' = [opener EXCEPT ![p] = next],
         next \in [state : States, pending : SUBSET {1, 2}, done : 0 .. 7],
         next.state = "migrating" => \/ next.pending = {1, 2} /\ next.done \in 0 .. 5
                                     \/ next.pending = {2} /\ next.done \in 0 .. 7,
         db' \in [objects : SUBSET Objects, rows : SUBSET {1, 2}, stamp : {0, 1, 2}, cas : SUBSET Openers,
                  new : SUBSET Openers, stored : SUBSET Openers, referenced : SUBSET Openers]
  PROVE  DbTypeOK'
<1>1. opener' \in [Openers -> [state : States, pending : SUBSET {1, 2}, done : 0 .. 7]]
  BY DEF DbTypeOK
<1>2. ASSUME NEW q \in Openers, opener'[q].state = "migrating"
      PROVE  \/ opener'[q].pending = {1, 2} /\ opener'[q].done \in 0 .. 5
             \/ opener'[q].pending = {2} /\ opener'[q].done \in 0 .. 7
  <2>1. CASE q = p BY <1>2, <2>1 DEF DbTypeOK
  <2>2. CASE q # p BY <1>2, <2>2 DEF DbTypeOK
  <2> QED BY <2>1, <2>2
<1> QED BY <1>1, <1>2 DEF DbTypeOK

(* A process that has failed, closed or died keeps the types.                 *)
LEMMA GoneIsGone ==
  ASSUME NEW state \in States \ {"migrating"}
  PROVE  /\ Database!Gone(state) \in [state : States, pending : SUBSET {1, 2}, done : 0 .. 7]
         /\ Database!Gone(state).state = state
BY DEF Database!Gone

(* Open: what is pending is what the rows leave.                              *)
LEMMA OpenKeepsDb ==
  ASSUME DbInv, NEW p \in Openers, Database!Open(p)
  PROVE  DbInv'
<1> USE DEF DbInv
<1>1. opener[p].state = "new" /\ db' = db /\ Place(p) = 0
  BY DEF Database!Open, Place
<1>2. Database!Recorded = db.rows BY DEF Marks, Database!Recorded
<1>3. db.rows \in {{}, {1}, {1, 2}} BY DEF DbTypeOK, Marks
<1> DEFINE next == [state |-> IF {1, 2} \ db.rows = {} THEN "open" ELSE "migrating",
                    pending |-> {1, 2} \ db.rows, done |-> 0]
<1>4. opener' = [opener EXCEPT ![p] = next] BY <1>2 DEF Database!Open, Database!Versions
<1>5. next \in [state : States, pending : SUBSET {1, 2}, done : 0 .. 7] BY DEF States
<1>6. db.rows = {} => next.state = "migrating" /\ next.pending = {1, 2} /\ next.done = 0 OBVIOUS
<1>7. db.rows = {1} => next.state = "migrating" /\ next.pending = {2} /\ next.done = 0 OBVIOUS
<1>8. db.rows = {1, 2} => next.state = "open" OBVIOUS
<1> HIDE DEF next
<1>9. DbTypeOK'
  <2>1. next.state = "migrating" => \/ next.pending = {1, 2} /\ next.done \in 0 .. 5
                                    \/ next.pending = {2} /\ next.done \in 0 .. 7
    BY <1>3, <1>6, <1>7, <1>8
  <2> QED BY <1>1, <1>4, <1>5, <2>1, TypeStays DEF DbTypeOK
<1>10. /\ opener'[p] = next
       /\ \A q \in Openers \ {p} : opener'[q] = opener[q] /\ Place(q)' = Place(q) /\ Waits(q)' = Waits(q)
  BY <1>4, OthersStay
<1>11. /\ db.rows = {} => Place(p)' = 1
       /\ db.rows = {1} => Place(p)' = 7
       /\ db.rows = {1, 2} => Place(p)' = 0
  BY <1>6, <1>7, <1>8, <1>10 DEF Place
<1>12. Contents' /\ Unused' BY <1>1 DEF Contents, Unused
<1>13. Marks'
  <2>1. /\ Place(p)' >= 2 => "meta" \in db.objects
        /\ Place(p)' >= 6 => 1 \in db.rows
        /\ Place(p)' = 14 \/ opener'[p].state \in {"open", "closed"} => 2 \in db.rows
    BY <1>3, <1>6, <1>7, <1>8, <1>10, <1>11 DEF Marks
  <2> QED BY <1>1, <1>10, <2>1 DEF Marks
<1>14. UnderWay'
  <2>1. CASE Killed BY <1>1, <1>10, <2>1 DEF Killed, UnderWay
  <2>2. CASE 2 \in db.rows BY <1>1, <2>2 DEF UnderWay
  <2>3. CASE Fresh BY <1>1, <1>10, <1>11, <2>3 DEF Fresh, UnderWay
  <2>4. CASE AtVersion1
    <3>1. \A q \in Openers : Waits(q)' \/ Place(q)' \in {1, 6, 7} BY <1>10, <1>11, <2>4 DEF AtVersion1
    <3>2. Place(p)' \in {6, 7} BY <1>11, <2>4 DEF AtVersion1
    <3> QED BY <1>1, <2>4, <3>1, <3>2 DEF AtVersion1, UnderWay
  <2>5. CASE Recording
    <3>1. PICK q \in Openers : Place(q) = 13 BY <2>5 DEF Recording
    <3> QED BY <1>1, <1>10, <2>5, <3>1 DEF Recording, UnderWay
  <2>6. ASSUME NEW l \in Openers, Creating(l) PROVE UnderWay'
    BY <1>1, <1>10, <1>11, <2>6 DEF Creating, UnderWay
  <2>7. ASSUME NEW l \in Openers, Converting(l) PROVE UnderWay'
    BY <1>1, <1>10, <1>11, <2>7 DEF Converting, UnderWay
  <2> QED BY <2>1, <2>2, <2>3, <2>4, <2>5, <2>6, <2>7 DEF UnderWay
<1> QED BY <1>9, <1>12, <1>13, <1>14

(* Die: from here on nobody need be on the way.                               *)
LEMMA DieKeepsDb ==
  ASSUME DbInv, NEW p \in Openers, Database!Die(p)
  PROVE  DbInv'
<1> USE DEF DbInv
<1>1. opener' = [opener EXCEPT ![p] = Database!Gone("dead")] /\ db' = db
  BY DEF Database!Die
<1>2. /\ Database!Gone("dead") \in [state : States, pending : SUBSET {1, 2}, done : 0 .. 7]
      /\ Database!Gone("dead").state = "dead"
  BY GoneIsGone DEF States
<1>3. DbTypeOK' BY <1>1, <1>2, TypeStays DEF DbTypeOK
<1>4. /\ opener'[p].state = "dead" /\ Place(p)' = 0
      /\ \A q \in Openers \ {p} : opener'[q] = opener[q] /\ Place(q)' = Place(q)
  BY <1>1, <1>2, OthersStay DEF Place
<1>5. Contents' /\ Unused' /\ Marks'
  BY <1>1, <1>4 DEF Contents, Unused, Marks
<1>6. UnderWay' BY <1>4 DEF UnderWay, Killed
<1> QED BY <1>3, <1>5, <1>6

(* Store: whoever has the database open has found the second version.         *)
LEMMA StoreKeepsDb ==
  ASSUME DbInv, NEW p \in Openers, Database!Store(p)
  PROVE  DbInv'
<1> USE DEF DbInv
<1>1. opener[p].state = "open" /\ 2 \in db.rows /\ Place(p) = 0 BY DEF Database!Store, Marks, Place
<1>2. PICK gone \in {"failed", "closed"} : opener' = [opener EXCEPT ![p] = Database!Gone(gone)]
  BY DEF Database!Store
<1>3. /\ db' \in [objects : SUBSET Objects, rows : SUBSET {1, 2}, stamp : {0, 1, 2}, cas : SUBSET Openers,
                  new : SUBSET Openers, stored : SUBSET Openers, referenced : SUBSET Openers]
      /\ db'.rows = db.rows /\ db'.objects = db.objects /\ db'.stamp = db.stamp
      /\ Contents'
  <2>1. CASE "cas" \notin db.objects BY <2>1 DEF Database!Store, DbTypeOK, Contents
  <2>2. CASE "cas" \in db.objects
    <3>1. PICK snapshot \in BOOLEAN :
            db' = [db EXCEPT !.cas = @ \cup {p}, !.stored = @ \cup {p},
                             !.referenced = IF snapshot THEN @ \cup {p} ELSE @]
      BY <2>2 DEF Database!Store
    <3> DEFINE kept == IF snapshot THEN db.referenced \cup {p} ELSE db.referenced
    <3>2. kept \in SUBSET Openers /\ kept \subseteq db.cas \cup {p} BY DEF DbTypeOK, Contents
    <3>3. db' = [db EXCEPT !.cas = @ \cup {p}, !.stored = @ \cup {p}, !.referenced = kept] BY <3>1
    <3> HIDE DEF kept
    <3> QED BY <2>2, <3>2, <3>3 DEF DbTypeOK, Contents
  <2> QED BY <2>1, <2>2
<1>4. /\ Database!Gone(gone) \in [state : States, pending : SUBSET {1, 2}, done : 0 .. 7]
      /\ Database!Gone(gone).state \in {"failed", "closed"}
  BY GoneIsGone DEF States
<1>5. DbTypeOK' BY <1>2, <1>3, <1>4, TypeStays
<1>6. /\ opener'[p].state \in {"failed", "closed"} /\ Place(p)' = 0
      /\ \A q \in Openers \ {p} : opener'[q] = opener[q] /\ Place(q)' = Place(q)
  BY <1>2, <1>4, OthersStay DEF Place
<1>7. Unused' /\ Marks' BY <1>1, <1>3, <1>6 DEF Unused, Marks
<1>8. UnderWay' BY <1>1, <1>3 DEF UnderWay
<1> QED BY <1>3, <1>5, <1>7, <1>8

(* Migrate: what a statement leaves, whichever of the fourteen it is.         *)
LEMMA MigrateKeepsMarks ==
  ASSUME DbInv, NEW p \in Openers, Database!Migrate(p)
  PROVE  /\ DbTypeOK' /\ Contents' /\ Marks' /\ Unused'
         /\ \A q \in Openers \ {p} : opener'[q] = opener[q] /\ Place(q)' = Place(q) /\ Waits(q)' = Waits(q)
         /\ opener'[p].state = "failed" \/ (opener'[p].state # "failed" /\ Place(p)' = IF Place(p) = 14 THEN 0 ELSE Place(p) + 1)
<1> USE DEF DbInv
<1> DEFINE Dbs == [objects : SUBSET Objects, rows : SUBSET {1, 2}, stamp : {0, 1, 2}, cas : SUBSET Openers,
                   new : SUBSET Openers, stored : SUBSET Openers, referenced : SUBSET Openers]
<1>1. Place(p) \in 1 .. 14 /\ opener[p].state = "migrating" BY Effects DEF Database!Migrate
<1>2. \/ opener' = [opener EXCEPT ![p] = Database!Gone("failed")] /\ db' = db
      \/ opener' = [opener EXCEPT ![p] = Database!Advanced(p)]
  BY DEF Database!Migrate
<1>3. CASE opener' = [opener EXCEPT ![p] = Database!Gone("failed")] /\ db' = db
  <2>1. /\ Database!Gone("failed") \in [state : States, pending : SUBSET {1, 2}, done : 0 .. 7]
        /\ Database!Gone("failed").state = "failed"
    BY GoneIsGone DEF States
  <2>2. DbTypeOK' BY <1>3, <2>1, TypeStays DEF DbTypeOK
  <2>3. /\ opener'[p].state = "failed" /\ Place(p)' = 0
        /\ \A q \in Openers \ {p} : opener'[q] = opener[q] /\ Place(q)' = Place(q) /\ Waits(q)' = Waits(q)
    BY <1>3, <2>1, OthersStay DEF Place
  <2> QED BY <1>3, <2>2, <2>3 DEF Contents, Unused, Marks
<1>4. CASE opener' = [opener EXCEPT ![p] = Database!Advanced(p)] /\ opener'[p].state # "failed"
  <2>1. /\ opener'[p] \in [state : {"migrating", "open"}, pending : SUBSET {1, 2}, done : 0 .. 7]
        /\ opener'[p].state = (IF Place(p) = 14 THEN "open" ELSE "migrating")
        /\ Place(p)' = (IF Place(p) = 14 THEN 0 ELSE Place(p) + 1)
        /\ opener'[p].state = "migrating" =>
             \/ opener'[p].pending = {1, 2} /\ opener'[p].done \in 0 .. 5
             \/ opener'[p].pending = {2} /\ opener'[p].done \in 0 .. 7
    BY <1>4, Advances
  <2>2. \A q \in Openers \ {p} : opener'[q] = opener[q] /\ Place(q)' = Place(q) /\ Waits(q)' = Waits(q)
    BY <1>4, OthersStay
  <2> DEFINE kept ==
        /\ db' \in Dbs /\ Contents' /\ Unused'
        /\ db.rows \subseteq db'.rows /\ ("meta" \in db.objects => "meta" \in db'.objects)
        /\ db'.stamp \in db'.rows \cup {0} /\ (2 \in db'.rows => 1 \in db'.rows)
        /\ db'.rows # {} => "meta" \in db'.objects
        /\ Place(p) = 1 => "meta" \in db'.objects
        /\ Place(p) = 5 => 1 \in db'.rows
        /\ Place(p) = 13 => 2 \in db'.rows
  <2>3. opener' # [opener EXCEPT ![p] = Database!Gone("failed")]
    BY <1>4, OthersStay, GoneIsGone DEF States
  <2>4. /\ Place(p) >= 2 => "meta" \in db.objects
        /\ Place(p) >= 6 => 1 \in db.rows
        /\ Place(p) = 14 => 2 \in db.rows
    BY DEF Marks
  <2>5. ASSUME Place(p) = 1 PROVE kept
    <3>1. db' = [db EXCEPT !.objects = @ \cup {"meta"}] BY <2>3, <2>5, Effects DEF Does
    <3> QED BY <2>4, <2>5, <3>1 DEF DbTypeOK, Contents, Unused, Marks, Objects
  <2>6. ASSUME Place(p) = 2 PROVE kept
    <3>1. db' = [db EXCEPT !.objects = @ \cup {"core"}] BY <2>3, <2>6, Effects DEF Does
    <3> QED BY <2>4, <2>6, <3>1 DEF DbTypeOK, Contents, Unused, Marks, Objects
  <2>7. ASSUME Place(p) = 3 PROVE kept
    <3>1. db' = [db EXCEPT !.objects = @ \cup {"cas"}] /\ "cas" \notin db.objects BY <2>3, <2>7, Effects DEF Does
    <3> QED BY <2>4, <2>7, <3>1 DEF DbTypeOK, Contents, Unused, Marks, Objects
  <2>8. ASSUME Place(p) = 4 PROVE kept
    <3>1. db' = [db EXCEPT !.objects = @ \cup {"guard"}] BY <2>3, <2>8, Effects DEF Does
    <3> QED BY <2>4, <2>8, <3>1 DEF DbTypeOK, Contents, Unused, Marks, Objects
  <2>9. ASSUME Place(p) = 5 PROVE kept
    <3>1. db' = [db EXCEPT !.rows = @ \cup {1}] BY <2>3, <2>9, Effects DEF Does
    <3> QED BY <2>4, <2>9, <3>1 DEF DbTypeOK, Contents, Unused, Marks, Objects
  <2>10. ASSUME Place(p) = 6 PROVE kept
    <3>1. db' = [db EXCEPT !.stamp = 1] BY <2>3, <2>10, Effects DEF Does
    <3> QED BY <2>4, <2>10, <3>1 DEF DbTypeOK, Contents, Unused, Marks, Objects
  <2>11. ASSUME Place(p) = 7 PROVE kept
    <3>1. db' = [db EXCEPT !.objects = @ \ {"guard"}] BY <2>3, <2>11, Effects DEF Does
    <3> QED BY <2>4, <2>11, <3>1 DEF DbTypeOK, Contents, Unused, Marks, Objects
  <2>12. ASSUME Place(p) = 8 PROVE kept
    <3>1. db' = [db EXCEPT !.objects = @ \cup {"new"}] BY <2>3, <2>12, Effects DEF Does
    <3> QED BY <2>4, <2>12, <3>1 DEF DbTypeOK, Contents, Unused, Marks, Objects
  <2>13. ASSUME Place(p) = 9 PROVE kept
    <3>1. db' = [db EXCEPT !.new = @ \cup db.cas] BY <2>3, <2>13, Effects DEF Does
    <3> QED BY <2>4, <2>13, <3>1 DEF DbTypeOK, Contents, Unused, Marks, Objects
  <2>14. ASSUME Place(p) = 10 PROVE kept
    <3>1. db' = [db EXCEPT !.objects = @ \ {"cas"}, !.cas = {}] /\ db.cas \cap db.referenced = {} BY <2>3, <2>14, Effects DEF Does
    <3>2. /\ db'.objects = db.objects \ {"cas"} /\ db'.cas = {} /\ db'.new = db.new
          /\ db'.rows = db.rows /\ db'.stamp = db.stamp /\ db'.referenced = db.referenced
      BY <3>1 DEF DbTypeOK
    <3>3. db' \in Dbs BY <3>1 DEF DbTypeOK, Objects
    <3>4. Contents' /\ Unused' BY <3>1, <3>2 DEF Contents, Unused, Marks
    <3>5. /\ db'.stamp \in db'.rows \cup {0} /\ (2 \in db'.rows => 1 \in db'.rows)
          /\ db'.rows # {} => "meta" \in db'.objects
      BY <2>4, <2>14, <3>2 DEF Marks
    <3> QED BY <2>4, <2>14, <3>2, <3>3, <3>4, <3>5
  <2>15. ASSUME Place(p) = 11 PROVE kept
    <3>1. db' = [db EXCEPT !.objects = (@ \ {"new"}) \cup {"cas"}, !.cas = db.new, !.new = {}] /\ "cas" \notin db.objects BY <2>3, <2>15, Effects DEF Does
    <3>2. /\ db'.objects = (db.objects \ {"new"}) \cup {"cas"} /\ db'.cas = db.new /\ db'.new = {}
          /\ db'.rows = db.rows /\ db'.stamp = db.stamp /\ db'.referenced = db.referenced
      BY <3>1 DEF DbTypeOK
    <3>3. db' \in Dbs BY <3>1 DEF DbTypeOK, Objects
    <3>4. Contents' /\ Unused' BY <3>1, <3>2 DEF Contents, Unused, Marks
    <3>5. /\ db'.stamp \in db'.rows \cup {0} /\ (2 \in db'.rows => 1 \in db'.rows)
          /\ db'.rows # {} => "meta" \in db'.objects
      BY <2>4, <2>15, <3>2 DEF Marks
    <3> QED BY <2>4, <2>15, <3>2, <3>3, <3>4, <3>5
  <2>16. ASSUME Place(p) = 12 PROVE kept
    <3>1. db' = [db EXCEPT !.objects = @ \cup {"guard"}] BY <2>3, <2>16, Effects DEF Does
    <3> QED BY <2>4, <2>16, <3>1 DEF DbTypeOK, Contents, Unused, Marks, Objects
  <2>17. ASSUME Place(p) = 13 PROVE kept
    <3>1. db' = [db EXCEPT !.rows = @ \cup {2}] BY <2>3, <2>17, Effects DEF Does
    <3> QED BY <2>4, <2>17, <3>1 DEF DbTypeOK, Contents, Unused, Marks, Objects
  <2>18. ASSUME Place(p) = 14 PROVE kept
    <3>1. db' = [db EXCEPT !.stamp = 2] BY <2>3, <2>18, Effects DEF Does
    <3> QED BY <2>4, <2>18, <3>1 DEF DbTypeOK, Contents, Unused, Marks, Objects
  <2>19. kept BY <1>1, <2>5, <2>6, <2>7, <2>8, <2>9, <2>10, <2>11, <2>12, <2>13, <2>14, <2>15, <2>16, <2>17, <2>18
  <2> HIDE DEF kept
  <2>20. DbTypeOK'
    <3>1. opener'[p] = Database!Advanced(p) BY <1>4, OthersStay
    <3>2. db' \in Dbs BY <2>19 DEF kept
    <3>3. Database!Advanced(p) \in [state : States, pending : SUBSET {1, 2}, done : 0 .. 7] BY <2>1, <3>1 DEF States
    <3> QED BY <1>4, <2>1, <3>1, <3>2, <3>3, TypeStays
  <2>21. Marks'
    <3>1. \A q \in Openers \ {p} :
            /\ Place(q)' >= 2 => "meta" \in db'.objects
            /\ Place(q)' >= 6 => 1 \in db'.rows
            /\ Place(q)' = 14 \/ opener'[q].state \in {"open", "closed"} => 2 \in db'.rows
      BY <2>2, <2>19 DEF Marks, kept
    <3>2. /\ Place(p)' >= 2 => "meta" \in db'.objects
          /\ Place(p)' >= 6 => 1 \in db'.rows
          /\ Place(p)' = 14 => 2 \in db'.rows
      BY <1>1, <2>1, <2>4, <2>19 DEF kept
    <3>3. opener'[p].state \in {"open", "closed"} => 2 \in db'.rows BY <2>1, <2>4, <2>19 DEF kept
    <3> QED BY <2>19, <3>1, <3>2, <3>3 DEF Marks, kept
  <2> QED BY <1>4, <2>1, <2>2, <2>19, <2>20, <2>21 DEF kept
<1>5. opener' = [opener EXCEPT ![p] = Database!Advanced(p)] => opener'[p].state # "failed"
  <2> SUFFICES ASSUME opener' = [opener EXCEPT ![p] = Database!Advanced(p)] PROVE opener'[p].state # "failed" OBVIOUS
  <2> QED BY Advances
<1> QED BY <1>2, <1>3, <1>4, <1>5

(* The leader's next statement succeeds, and every other's fails or leaves    *)
(* what the leader is about to do as it was.                                  *)
LEMMA MigrateIsUnderWay ==
  ASSUME DbInv, NEW p \in Openers, Database!Migrate(p)
  PROVE  UnderWay'
<1> USE DEF DbInv
<1>1. /\ \A q \in Openers \ {p} : opener'[q] = opener[q] /\ Place(q)' = Place(q) /\ Waits(q)' = Waits(q)
      /\ DbTypeOK'
  BY MigrateKeepsMarks
<1>2. Place(p) \in 1 .. 14 /\ opener[p].state = "migrating" BY Effects DEF Database!Migrate
<1>3. opener' = [opener EXCEPT ![p] = Database!Gone("failed")] => Waits(p)'
  BY OthersStay, GoneIsGone DEF Waits, States
<1>4. opener' = [opener EXCEPT ![p] = Database!Advanced(p)] /\ Place(p) < 14 => Place(p)' = Place(p) + 1
  <2> SUFFICES ASSUME opener' = [opener EXCEPT ![p] = Database!Advanced(p)], Place(p) < 14 PROVE Place(p)' = Place(p) + 1
    OBVIOUS
  <2>1. DbTypeOK OBVIOUS
  <2>2. Place(p)' = (IF Place(p) = 14 THEN 0 ELSE Place(p) + 1) BY <2>1, Advances
  <2> QED BY <1>2, <2>2
<1>5. CASE Killed
  <2>1. PICK q \in Openers : opener[q].state = "dead" BY <1>5 DEF Killed
  <2> QED BY <1>1, <1>2, <2>1 DEF Killed, UnderWay
<1>6. \/ db'.rows = db.rows
      \/ Place(p) = 5 /\ 1 \notin db.rows /\ db'.rows = db.rows \cup {1}
      \/ Place(p) = 13 /\ db'.rows = db.rows \cup {2}
  <2>1. CASE Place(p) \in 1 .. 7 BY <2>1, Effects DEF Does, DbTypeOK
  <2>2. CASE Place(p) \in {8, 9, 12, 13, 14} BY <2>2, Effects DEF Does, DbTypeOK
  <2>3. CASE Place(p) = 10
    <3>1. db' = db \/ db' = [db EXCEPT !.objects = @ \ {"cas"}, !.cas = {}] BY <2>3, Effects DEF Does
    <3> QED BY <3>1 DEF DbTypeOK
  <2>4. CASE Place(p) = 11
    <3>1. db' = db \/ db' = [db EXCEPT !.objects = (@ \ {"new"}) \cup {"cas"}, !.cas = db.new, !.new = {}]
      BY <2>4, Effects DEF Does
    <3> QED BY <3>1 DEF DbTypeOK
  <2> QED BY <1>2, <2>1, <2>2, <2>3, <2>4
<1>7. CASE 2 \in db.rows BY <1>6, <1>7 DEF UnderWay
<1>8. CASE Fresh
  <2>1. Place(p) = 1 /\ db.objects = {} /\ db.rows = {} BY <1>2, <1>8 DEF Fresh
  <2>2. db' = [db EXCEPT !.objects = @ \cup {"meta"}] /\ opener' = [opener EXCEPT ![p] = Database!Advanced(p)]
    BY <2>1, Effects DEF Does
  <2>3. db'.objects = Expected(2) /\ db'.rows = {} BY <2>1, <2>2, Expectations DEF DbTypeOK
  <2>4. Place(p)' = 2 BY <1>4, <2>1, <2>2
  <2>5. \A q \in Openers \ {p} : Waits(q)' \/ Place(q)' = 1 BY <1>1, <1>8 DEF Fresh, Waits
  <2>6. Creating(p)' BY <2>3, <2>4, <2>5 DEF Creating
  <2> QED BY <2>6 DEF UnderWay
<1>9. CASE AtVersion1
  <2>1. Place(p) \in {1, 6, 7} /\ db.objects = {"meta", "core", "cas", "guard"} /\ db.rows = {1}
    BY <1>2, <1>9, Expectations DEF AtVersion1, Waits
  <2>2. PICK w \in Openers : opener[w].state = "new" \/ Place(w) \in {6, 7} BY <1>9 DEF AtVersion1
  <2>3. \A q \in Openers \ {p} : Waits(q)' \/ Place(q)' \in {1, 6, 7} BY <1>1, <1>9 DEF AtVersion1
  <2>4. CASE Place(p) = 1
    <3>1. opener' = [opener EXCEPT ![p] = Database!Gone("failed")] /\ db' = db BY <2>1, <2>4, Effects DEF Does
    <3>2. w # p BY <1>2, <2>2, <2>4
    <3>3. opener'[w].state = "new" \/ Place(w)' \in {6, 7} BY <1>1, <2>2, <3>2
    <3>4. AtVersion1' BY <1>3, <1>9, <2>3, <3>1, <3>3 DEF AtVersion1
    <3> QED BY <3>4 DEF UnderWay
  <2>5. CASE Place(p) = 6
    <3>1. opener' = [opener EXCEPT ![p] = Database!Advanced(p)] /\ db' = [db EXCEPT !.stamp = 1] BY <2>5, Effects DEF Does
    <3>2. Place(p)' = 7 BY <1>4, <2>5, <3>1
    <3>3. db'.rows = db.rows /\ db'.objects = db.objects BY <3>1 DEF DbTypeOK
    <3>4. AtVersion1' BY <1>9, <2>3, <3>2, <3>3 DEF AtVersion1
    <3> QED BY <3>4 DEF UnderWay
  <2>6. CASE Place(p) = 7
    <3>1. opener' = [opener EXCEPT ![p] = Database!Advanced(p)] /\ db' = [db EXCEPT !.objects = @ \ {"guard"}]
      BY <2>1, <2>6, Effects DEF Does
    <3>2. Place(p)' = 8 BY <1>4, <2>6, <3>1
    <3>3. db'.rows = {1} /\ db'.objects = Expected(8) BY <2>1, <3>1, Expectations DEF DbTypeOK
    <3>4. Converting(p)' BY <2>3, <3>2, <3>3 DEF Converting
    <3> QED BY <3>4 DEF UnderWay
  <2> QED BY <2>1, <2>4, <2>5, <2>6
<1>10. CASE Recording
  <2>1. PICK q \in Openers : Place(q) = 13 BY <1>10 DEF Recording
  <2>2. CASE q = p
    <3>1. 2 \notin db.rows BY <1>10 DEF Recording
    <3>2. db' = [db EXCEPT !.rows = @ \cup {2}] BY <2>1, <2>2, <3>1, Effects DEF Does
    <3> QED BY <3>2 DEF UnderWay, DbTypeOK
  <2>3. CASE q # p
    <3>1. Place(q)' = 13 BY <1>1, <2>1, <2>3
    <3>2. db'.rows = {1} \/ 2 \in db'.rows BY <1>6, <1>10 DEF Recording
    <3> QED BY <3>1, <3>2 DEF UnderWay, Recording
  <2> QED BY <2>2, <2>3
<1>11. ASSUME NEW l \in Openers, Creating(l) PROVE UnderWay'
  <2>1. CASE l = p
    <3>1. Place(p) \in 2 .. 5 /\ db.objects = Expected(Place(p)) /\ db.rows = {} BY <1>11, <2>1 DEF Creating
    <3>2. \A q \in Openers \ {p} : Waits(q)' \/ Place(q)' = 1 BY <1>1, <1>11, <2>1 DEF Creating
    <3>3. ASSUME Place(p) \in 2 .. 4
          PROVE  /\ opener' = [opener EXCEPT ![p] = Database!Advanced(p)]
                 /\ db'.objects = Expected(Place(p) + 1) /\ db'.rows = {}
      <4>1. ASSUME Place(p) = 2
            PROVE  opener' = [opener EXCEPT ![p] = Database!Advanced(p)] /\ db'.objects = Expected(3) /\ db'.rows = {}
        <5>1. db.objects = {"meta"} BY <3>1, <4>1, Expectations
        <5>2. opener' = [opener EXCEPT ![p] = Database!Advanced(p)] /\ db' = [db EXCEPT !.objects = @ \cup {"core"}]
          BY <4>1, <5>1, Effects DEF Does
        <5> QED BY <3>1, <5>1, <5>2, Expectations DEF DbTypeOK
      <4>2. ASSUME Place(p) = 3
            PROVE  opener' = [opener EXCEPT ![p] = Database!Advanced(p)] /\ db'.objects = Expected(4) /\ db'.rows = {}
        <5>1. db.objects = {"meta", "core"} BY <3>1, <4>2, Expectations
        <5>2. opener' = [opener EXCEPT ![p] = Database!Advanced(p)] /\ db' = [db EXCEPT !.objects = @ \cup {"cas"}]
          BY <4>2, <5>1, Effects DEF Does
        <5> QED BY <3>1, <5>1, <5>2, Expectations DEF DbTypeOK
      <4>3. ASSUME Place(p) = 4
            PROVE  opener' = [opener EXCEPT ![p] = Database!Advanced(p)] /\ db'.objects = Expected(5) /\ db'.rows = {}
        <5>1. db.objects = {"meta", "core", "cas"} BY <3>1, <4>3, Expectations
        <5>2. opener' = [opener EXCEPT ![p] = Database!Advanced(p)] /\ db' = [db EXCEPT !.objects = @ \cup {"guard"}]
          BY <4>3, <5>1, Effects DEF Does
        <5> QED BY <3>1, <5>1, <5>2, Expectations DEF DbTypeOK
      <4> QED BY <3>3, <4>1, <4>2, <4>3
    <3>4. CASE Place(p) \in 2 .. 4
      <4>1. Place(p)' = Place(p) + 1 /\ Place(p)' \in 2 .. 5 BY <1>4, <3>3, <3>4
      <4>2. Creating(p)' BY <3>2, <3>3, <3>4, <4>1 DEF Creating
      <4> QED BY <4>2 DEF UnderWay
    <3>5. CASE Place(p) = 5
      <4>1. opener' = [opener EXCEPT ![p] = Database!Advanced(p)] /\ db' = [db EXCEPT !.rows = @ \cup {1}]
        BY <3>1, <3>5, Effects DEF Does
      <4>2. Place(p)' = 6 BY <1>4, <3>5, <4>1
      <4>3. db'.rows = {1} /\ db'.objects = Expected(7) BY <3>1, <3>5, <4>1, Expectations DEF DbTypeOK
      <4>4. AtVersion1' BY <3>2, <4>2, <4>3 DEF AtVersion1
      <4> QED BY <4>4 DEF UnderWay
    <3> QED BY <3>1, <3>4, <3>5
  <2>2. CASE l # p
    <3>1. Place(p) = 1 BY <1>2, <1>11, <2>2 DEF Creating, Waits
    <3>2. "meta" \in db.objects BY <1>11 DEF Creating, Marks
    <3>3. opener' = [opener EXCEPT ![p] = Database!Gone("failed")] /\ db' = db BY <3>1, <3>2, Effects DEF Does
    <3>4. \A q \in Openers \ {l} : Waits(q)' \/ Place(q)' = 1 BY <1>1, <1>3, <1>11, <3>3 DEF Creating
    <3>5. Creating(l)' BY <1>1, <1>11, <2>2, <3>3, <3>4 DEF Creating
    <3> QED BY <3>5 DEF UnderWay
  <2> QED BY <2>1, <2>2
<1>12. ASSUME NEW l \in Openers, Converting(l) PROVE UnderWay'
  <2>1. CASE l = p
    <3>1. Place(p) \in 8 .. 12 /\ db.objects = Expected(Place(p)) /\ db.rows = {1} BY <1>12, <2>1 DEF Converting
    <3>2. \A q \in Openers \ {p} : Waits(q)' \/ Place(q)' \in {1, 6, 7} BY <1>1, <1>12, <2>1 DEF Converting
    <3>3. db.cas = {} /\ db.new = {} BY <3>1 DEF Unused
    <3>4. ASSUME Place(p) \in 8 .. 11
          PROVE  /\ opener' = [opener EXCEPT ![p] = Database!Advanced(p)]
                 /\ db'.objects = Expected(Place(p) + 1) /\ db'.rows = {1}
      <4>1. ASSUME Place(p) = 8
            PROVE  opener' = [opener EXCEPT ![p] = Database!Advanced(p)] /\ db'.objects = Expected(9) /\ db'.rows = {1}
        <5>1. db.objects = {"meta", "core", "cas"} BY <3>1, <4>1, Expectations
        <5>2. opener' = [opener EXCEPT ![p] = Database!Advanced(p)] /\ db' = [db EXCEPT !.objects = @ \cup {"new"}]
          BY <3>3, <4>1, <5>1, Effects DEF Does
        <5> QED BY <3>1, <5>1, <5>2, Expectations DEF DbTypeOK
      <4>2. ASSUME Place(p) = 9
            PROVE  opener' = [opener EXCEPT ![p] = Database!Advanced(p)] /\ db'.objects = Expected(10) /\ db'.rows = {1}
        <5>1. db.objects = {"meta", "core", "cas", "new"} BY <3>1, <4>2, Expectations
        <5>2. opener' = [opener EXCEPT ![p] = Database!Advanced(p)] /\ db' = [db EXCEPT !.new = @ \cup db.cas]
          BY <3>3, <4>2, <5>1, Effects DEF Does
        <5> QED BY <3>1, <5>1, <5>2, Expectations DEF DbTypeOK
      <4>3. ASSUME Place(p) = 10
            PROVE  opener' = [opener EXCEPT ![p] = Database!Advanced(p)] /\ db'.objects = Expected(11) /\ db'.rows = {1}
        <5>1. db.objects = {"meta", "core", "cas", "new"} BY <3>1, <4>3, Expectations
        <5>2. opener' = [opener EXCEPT ![p] = Database!Advanced(p)] /\ db' = [db EXCEPT !.objects = @ \ {"cas"}, !.cas = {}]
          BY <3>3, <4>3, <5>1, Effects DEF Does
        <5> QED BY <3>1, <5>1, <5>2, Expectations DEF DbTypeOK
      <4>4. ASSUME Place(p) = 11
            PROVE  opener' = [opener EXCEPT ![p] = Database!Advanced(p)] /\ db'.objects = Expected(12) /\ db'.rows = {1}
        <5>1. db.objects = {"meta", "core", "new"} BY <3>1, <4>4, Expectations
        <5>2. opener' = [opener EXCEPT ![p] = Database!Advanced(p)] /\ db' = [db EXCEPT !.objects = (@ \ {"new"}) \cup {"cas"}, !.cas = db.new, !.new = {}]
          BY <3>3, <4>4, <5>1, Effects DEF Does
        <5> QED BY <3>1, <5>1, <5>2, Expectations DEF DbTypeOK
      <4> QED BY <3>4, <4>1, <4>2, <4>3, <4>4
    <3>5. CASE Place(p) \in 8 .. 11
      <4>1. Place(p)' = Place(p) + 1 /\ Place(p)' \in 8 .. 12 BY <1>4, <3>4, <3>5
      <4>2. Converting(p)' BY <3>2, <3>4, <3>5, <4>1 DEF Converting
      <4> QED BY <4>2 DEF UnderWay
    <3>6. CASE Place(p) = 12
      <4>1. "guard" \notin db.objects BY <3>1, <3>6, Expectations
      <4>2. opener' = [opener EXCEPT ![p] = Database!Advanced(p)] /\ db' = [db EXCEPT !.objects = @ \cup {"guard"}]
        BY <3>6, <4>1, Effects DEF Does
      <4>3. Place(p)' = 13 BY <1>4, <3>6, <4>2
      <4>4. db'.rows = {1} BY <3>1, <4>2 DEF DbTypeOK
      <4> QED BY <4>3, <4>4 DEF UnderWay, Recording
    <3> QED BY <3>1, <3>5, <3>6
  <2>2. CASE l # p
    <3>1. Place(p) \in {1, 6, 7} BY <1>2, <1>12, <2>2 DEF Converting, Waits
    <3>2. "meta" \in db.objects BY <1>12 DEF Converting, Marks
    <3>3. "guard" \notin db.objects
      <4>1. Place(l) \in {8, 9, 10, 11, 12} /\ db.objects = Expected(Place(l)) BY <1>12 DEF Converting
      <4> QED BY <4>1, Expectations
    <3>4. \/ opener' = [opener EXCEPT ![p] = Database!Gone("failed")] /\ db' = db
          \/ Place(p)' = 7 /\ db' = [db EXCEPT !.stamp = 1]
      <4>1. CASE Place(p) \in {1, 7} BY <3>2, <3>3, <4>1, Effects DEF Does
      <4>2. CASE Place(p) = 6
        <5>1. opener' = [opener EXCEPT ![p] = Database!Advanced(p)] /\ db' = [db EXCEPT !.stamp = 1] BY <4>2, Effects DEF Does
        <5> QED BY <1>4, <4>2, <5>1
      <4> QED BY <3>1, <4>1, <4>2
    <3>5. Waits(p)' \/ Place(p)' \in {1, 6, 7} BY <1>3, <3>4
    <3>6. db'.rows = db.rows /\ db'.objects = db.objects BY <3>4 DEF DbTypeOK
    <3>7. \A q \in Openers \ {l} : Waits(q)' \/ Place(q)' \in {1, 6, 7} BY <1>1, <1>12, <3>5 DEF Converting
    <3>8. Converting(l)' BY <1>1, <1>12, <2>2, <3>6, <3>7 DEF Converting
    <3> QED BY <3>8 DEF UnderWay
  <2> QED BY <2>1, <2>2
<1> QED BY <1>5, <1>7, <1>8, <1>9, <1>10, <1>11, <1>12 DEF UnderWay

LEMMA InitialDb == Openers # {} /\ Database!DbInit => DbInv
<1> SUFFICES ASSUME Openers # {}, Database!DbInit PROVE DbInv OBVIOUS
<1>1. opener = [p \in Openers |-> [state |-> "new", pending |-> {}, done |-> 0]]
  BY DEF Database!DbInit, Database!Gone
<1>2. \A p \in Openers : opener[p].state = "new" /\ Place(p) = 0 BY <1>1 DEF Place
<1>3. opener \in [Openers -> [state : States, pending : SUBSET {1, 2}, done : 0 .. 7]]
  BY <1>1 DEF States
<1>4. CASE db = Database!EmptyDb
  <2>1. /\ db.objects = {} /\ db.rows = {} /\ db.stamp = 0 /\ db.cas = {} /\ db.new = {} /\ db.stored = {} /\ db.referenced = {}
        /\ db \in [objects : SUBSET Objects, rows : SUBSET {1, 2}, stamp : {0, 1, 2}, cas : SUBSET Openers,
                   new : SUBSET Openers, stored : SUBSET Openers, referenced : SUBSET Openers]
    BY <1>4 DEF Database!EmptyDb
  <2>2. Fresh BY <1>2, <2>1 DEF Fresh
  <2> QED BY <1>2, <1>3, <2>1, <2>2 DEF DbInv, DbTypeOK, Contents, Marks, Unused, UnderWay
<1>5. CASE db = Database!OldDb
  <2>1. db = [objects |-> {"meta", "core", "cas", "guard"}, rows |-> {1}, stamp |-> 1, cas |-> {}, new |-> {},
              stored |-> {}, referenced |-> {}]
    BY <1>5 DEF Database!OldDb, Database!EmptyDb
  <2>2. /\ db.objects = Expected(7) /\ db.rows = {1} /\ db.stamp = 1 /\ db.cas = {} /\ db.new = {} /\ db.referenced = {}
        /\ "meta" \in db.objects
        /\ db \in [objects : SUBSET Objects, rows : SUBSET {1, 2}, stamp : {0, 1, 2}, cas : SUBSET Openers,
                   new : SUBSET Openers, stored : SUBSET Openers, referenced : SUBSET Openers]
    BY <2>1, Expectations DEF Objects
  <2>3. AtVersion1 BY <1>2, <2>2 DEF AtVersion1, Waits
  <2> QED BY <1>2, <1>3, <2>2, <2>3 DEF DbInv, DbTypeOK, Contents, Marks, Unused, UnderWay
<1> QED BY <1>4, <1>5 DEF Database!DbInit

LEMMA DbStep == DbInv /\ Database!DbNext => DbInv'
<1> SUFFICES ASSUME DbInv, NEW p \in Openers,
                    Database!Open(p) \/ Database!Migrate(p) \/ Database!Store(p) \/ Database!Die(p)
             PROVE  DbInv'
  BY DEF Database!DbNext
<1>1. CASE Database!Migrate(p) BY <1>1, MigrateKeepsMarks, MigrateIsUnderWay DEF DbInv
<1> QED BY <1>1, OpenKeepsDb, StoreKeepsDb, DieKeepsDb

LEMMA UpgradesAreSafe == Openers # {} /\ DbInv => Database!UpgradeIsSafe
<1> SUFFICES ASSUME Openers # {}, DbInv PROVE Database!UpgradeIsSafe OBVIOUS
<1> USE DEF DbInv
<1>1. ASSUME \A p \in Openers : opener[p].state \in {"failed", "closed"} PROVE db.rows = Database!Versions
  <2>1. \A p \in Openers : Place(p) = 0 /\ opener[p].state # "new" /\ opener[p].state # "dead" BY <1>1 DEF Place
  <2>2. 2 \in db.rows
    BY <2>1 DEF UnderWay, Killed, Fresh, AtVersion1, Recording, Creating, Converting
  <2> QED BY <2>2 DEF DbTypeOK, Marks, Database!Versions
<1>2. ASSUME NEW p \in Openers, opener[p].state \in {"open", "closed"} PROVE db.rows = Database!Versions
  <2>1. 2 \in db.rows /\ 1 \in db.rows BY <1>2 DEF Marks
  <2> QED BY <2>1 DEF DbTypeOK, Database!Versions
<1> QED BY <1>1, <1>2 DEF Contents, Marks, Database!UpgradeIsSafe

-----------------------------------------------------------------------------
(* The servers.  What a server's record and its rows say of each other is put *)
(* as a relation between the record v, and the rows R[n] of its n-th line, so *)
(* that a step is an argument about two values.                               *)
Phases == {"starting", "scoping", "inserting", "idle", "dead"} \cup Mcp!Working
Good == {"ok", "empty", "not_found"}
Bad == {"error", "parse_error"}
Answer == Good \cup Bad
RowSet == Servers \X Nat \X {"observation", "event"}
Replies == [line : Nat, id : {0} \cup {l.id : l \in Lines}, answer : Answer]
Sessions ==
  [phase : Phases, attempt : Nat, pending : SUBSET RowSet, lines : Seq(Lines), replies : Seq(Replies),
   answer : Answer \cup {"none"}, why : {"none", "locked", "duplicate", "odd_line", "killed"}]

Over(v) == IF v.phase \in Mcp!Working \cup {"dead"} THEN 1 .. Len(v.lines) - 1 ELSE 1 .. Len(v.lines)
Recs(s) == [n \in Nat |-> Mcp!RowsOf(s, n)]

(* Each reply is the one its line is due and agrees with the line's rows; a   *)
(* call whose turn is over without a reply has left none.                     *)
Told(v, R) ==
  /\ \A i, j \in DOMAIN v.replies : i < j => v.replies[i].line < v.replies[j].line
  /\ \A n \in Nat : n > Len(v.lines) => R[n] = {}
  /\ \A n \in 1 .. Len(v.lines) : R[n] \in {{}, Mcp!RowsFor(v.lines[n])}
  /\ \A i \in DOMAIN v.replies :
       LET r == v.replies[i]
           line == v.lines[r.line]
       IN /\ r.line \in 1 .. Len(v.lines) /\ Mcp!Owed(line)
          /\ r.id = IF line.kind = "torn" THEN 0 ELSE line.id
          /\ r.answer \in Bad => R[r.line] = {}
          /\ r.answer \in Good /\ line.kind \in Mcp!Calls => R[r.line] # {}
  /\ \A n \in Over(v) :
       \/ \E i \in DOMAIN v.replies : v.replies[i].line = n
       \/ (Mcp!Owed(v.lines[n]) => v.lines[n].id = 0) /\ (v.lines[n].kind \in Mcp!Calls => R[n] = {})

(* What a server is about to tell, by its phase; n is the line it works on.   *)
Telling(s, v, R) ==
  v.phase \in Mcp!Working =>
    LET n == Len(v.lines)
        line == v.lines[n]
    IN /\ n >= 1
       /\ \A i \in DOMAIN v.replies : v.replies[i].line < n
       /\ v.phase # "answering" => line.kind \in Mcp!Calls /\ R[n] = {}
       /\ v.phase = "opening" => line.kind = "get"
       /\ v.phase = "committing" =>
            v.answer \in Good /\ v.pending = {<<s, n, what>> : what \in Mcp!RowsFor(line)}
       /\ v.phase = "answering" =>
            /\ Mcp!Owed(line) /\ v.answer \in Answer
            /\ v.answer = "parse_error" <=> line.kind = "torn"
            /\ v.answer \in Bad => R[n] = {}
            /\ v.answer \in Good /\ line.kind \in Mcp!Calls => R[n] # {}

(* The write lock keeps the servers' transactions apart, so that the scope    *)
(* that one has looked for in vain is still missing when it inserts it.       *)
Holding == {"scoping", "inserting", "calling", "opening", "committing"}
Scoped ==
  /\ scopes = {} \/ \E x \in scopes : scopes = {x}
  /\ \A s \in Servers :
       /\ server[s].phase \in Holding => lock = s
       /\ server[s].phase = "inserting" => scopes = {}
       /\ server[s].phase \in {"idle"} \cup Mcp!Working => scopes # {}
       /\ server[s].why # "duplicate"

McpInv ==
  /\ server \in [Servers -> Sessions] /\ Scoped
  /\ \A s \in Servers : Told(server[s], Recs(s)) /\ Telling(s, server[s], Recs(s))

(* A server's relation to its rows is kept when its lines and replies stay.   *)
LEMMA KeepsTold ==
  ASSUME NEW v, NEW w, NEW R, Told(v, R), w.lines = v.lines, w.replies = v.replies, Over(w) \subseteq Over(v)
  PROVE  Told(w, R)
BY DEF Told

LEMMA SessionIs ==
  ASSUME NEW v \in Sessions
  PROVE  /\ v.phase \in Phases /\ v.attempt \in Nat /\ v.pending \in SUBSET RowSet
         /\ v.lines \in Seq(Lines) /\ v.replies \in Seq(Replies)
         /\ v.answer \in Answer \cup {"none"}
         /\ Len(v.lines) \in Nat /\ Len(v.replies) \in Nat
         /\ DOMAIN v.lines = 1 .. Len(v.lines) /\ DOMAIN v.replies = 1 .. Len(v.replies)
<1>1. /\ v.phase \in Phases /\ v.attempt \in Nat /\ v.pending \in SUBSET RowSet
      /\ v.lines \in Seq(Lines) /\ v.replies \in Seq(Replies)
      /\ v.answer \in Answer \cup {"none"}
  BY Zenon DEF Sessions
<1>2. ASSUME NEW S, NEW q \in Seq(S) PROVE Len(q) \in Nat /\ DOMAIN q = 1 .. Len(q) OBVIOUS
<1> QED BY <1>1, <1>2

(* The turn of a server that is not done stays open.                          *)
LEMMA OverShrinks ==
  ASSUME NEW v \in Sessions, NEW w \in Sessions, w.lines = v.lines,
         v.phase \notin Mcp!Working \cup {"dead"} \/ w.phase \in Mcp!Working \cup {"dead"}
  PROVE  Over(w) \subseteq Over(v)
<1>1. Len(v.lines) \in Nat BY SessionIs
<1> QED BY <1>1 DEF Over

(* What the steps of one server leave of the others.                          *)
LEMMA ScopedStays ==
  ASSUME Scoped, server \in [Servers -> Sessions], NEW s \in Servers, NEW w, server' = [server EXCEPT ![s] = w],
         w.why # "duplicate",
         w.phase \in Holding => lock' = s,
         \A t \in Servers \ {s} : lock = t => lock' = t,
         scopes' = scopes \/ (scopes = {} /\ scopes' = {s} /\ lock = s),
         w.phase = "inserting" => scopes' = {},
         w.phase \in {"idle"} \cup Mcp!Working => scopes' # {}
  PROVE  Scoped'
<1>1. server'[s] = w /\ \A t \in Servers \ {s} : server'[t] = server[t] OBVIOUS
<1>2. scopes' = {} \/ \E x \in scopes' : scopes' = {x} BY DEF Scoped
<1>3. ASSUME NEW t \in Servers \ {s}
      PROVE  /\ server'[t].phase \in Holding => lock' = t
             /\ server'[t].phase = "inserting" => scopes' = {}
             /\ server'[t].phase \in {"idle"} \cup Mcp!Working => scopes' # {}
             /\ server'[t].why # "duplicate"
  BY <1>1 DEF Scoped, Holding
<1> QED BY <1>1, <1>2, <1>3 DEF Scoped

LEMMA McpStays ==
  ASSUME McpInv, NEW s \in Servers, NEW w \in Sessions, server' = [server EXCEPT ![s] = w],
         \A t \in Servers \ {s} : Recs(t)' = Recs(t),
         NEW R, Recs(s)' = R, Told(w, R), Telling(s, w, R), Scoped'
  PROVE  McpInv'
<1>1. server'[s] = w /\ \A t \in Servers \ {s} : server'[t] = server[t] BY DEF McpInv
<1>2. server' \in [Servers -> Sessions] BY DEF McpInv
<1>3. ASSUME NEW t \in Servers PROVE Told(server'[t], Recs(t)') /\ Telling(t, server'[t], Recs(t)')
  <2>1. CASE t = s BY <1>1, <2>1
  <2>2. CASE t # s BY <1>1, <2>2 DEF McpInv
  <2> QED BY <2>1, <2>2
<1> QED BY <1>2, <1>3 DEF McpInv

LEMMA RecsStay == ASSUME rows' = rows PROVE \A t \in Servers : Recs(t)' = Recs(t)
BY DEF Recs, Mcp!RowsOf

(* The words for the phases of a server.                                      *)
LEMMA Words ==
  /\ Mcp!Working = {"trying", "calling", "opening", "committing", "answering"}
  /\ Phases = {"starting", "scoping", "inserting", "idle", "dead"} \cup Mcp!Working
  /\ Mcp!Calls = {"search", "get", "get_unknown"} /\ Mcp!NoOne = "no_one"
BY DEF Phases, Mcp!Working, Mcp!Calls, Mcp!NoOne

(* A step that writes and reads no line: only its phase, its answer and what  *)
(* it means to commit change.                                                 *)
LEMMA QuietStep ==
  ASSUME McpInv, NEW s \in Servers, NEW w \in Sessions, server' = [server EXCEPT ![s] = w],
         w.lines = server[s].lines, w.replies = server[s].replies, rows' = rows,
         server[s].phase \notin Mcp!Working \cup {"dead"} \/ w.phase \in Mcp!Working \cup {"dead"},
         Telling(s, server[s], Recs(s)) => Telling(s, w, Recs(s)),
         Scoped'
  PROVE  McpInv'
<1>1. server[s] \in Sessions BY DEF McpInv
<1>2. Over(w) \subseteq Over(server[s]) BY <1>1, OverShrinks
<1>3. Told(server[s], Recs(s)) /\ Telling(s, server[s], Recs(s)) BY DEF McpInv
<1>4. Told(w, Recs(s)) BY <1>2, <1>3, KeepsTold
<1>5. \A t \in Servers : Recs(t)' = Recs(t) BY RecsStay
<1> QED BY <1>3, <1>4, <1>5, McpStays

(* Begin: the server takes the write lock that nobody holds.                  *)
LEMMA BeginKeeps ==
  ASSUME McpInv, {"no_one", "other"} \cap Servers = {}, NEW s \in Servers, Mcp!Begin(s)
  PROVE  McpInv'
<1> DEFINE v == server[s]
           w == [v EXCEPT !.phase = IF v.phase = "starting" THEN "scoping" ELSE "calling", !.attempt = 0]
<1>1. /\ v.phase \in {"starting", "trying"} /\ lock = "no_one" /\ lock' = s /\ scopes' = scopes /\ rows' = rows
      /\ server' = [server EXCEPT ![s] = w]
  BY DEF Mcp!Begin, Mcp!LockIsFree, Mcp!NoOne, Mcp!Goes
<1>2. v \in Sessions /\ Scoped BY DEF McpInv
<1>3. /\ w \in Sessions /\ w.lines = v.lines /\ w.replies = v.replies /\ w.why = v.why
      /\ w.phase = IF v.phase = "starting" THEN "scoping" ELSE "calling"
  BY <1>1, <1>2, Words DEF Sessions
<1> HIDE DEF v, w
<1>4. Scoped'
  <2>1. w.why # "duplicate" /\ (w.phase = "calling" => scopes # {}) BY <1>1, <1>2, <1>3, Words DEF Scoped, v
  <2>2. w.phase \in Holding => lock' = s BY <1>1
  <2>3. \A t \in Servers \ {s} : lock = t => lock' = t BY <1>1
  <2>4. w.phase # "inserting" /\ (w.phase \in {"idle"} \cup Mcp!Working => scopes' # {}) BY <1>1, <1>3, <2>1, Words
  <2> QED BY <1>1, <1>2, <2>1, <2>2, <2>3, <2>4, ScopedStays DEF McpInv
<1>5. Telling(s, v, Recs(s)) => Telling(s, w, Recs(s)) BY <1>1, <1>3, Words DEF Telling
<1>6. v.phase \notin Mcp!Working \cup {"dead"} \/ w.phase \in Mcp!Working \cup {"dead"} BY <1>1, <1>3, Words
<1> QED BY <1>1, <1>3, <1>4, <1>5, <1>6, QuietStep DEF v

(* Wait: the lock is held; a call that has waited long enough fails.          *)
LEMMA WaitKeeps ==
  ASSUME McpInv, NEW s \in Servers, Mcp!Wait(s)
  PROVE  McpInv'
<1> DEFINE v == server[s]
           next == v.attempt + 1
           w == [v EXCEPT !.attempt = next]
<1>1. /\ v.phase \in {"starting", "trying"} /\ lock' = lock /\ scopes' = scopes /\ rows' = rows
      /\ server' = [server EXCEPT ![s] = w]
  BY DEF Mcp!Wait, Mcp!Goes, Mcp!Counted
<1>2. v \in Sessions /\ Scoped BY DEF McpInv
<1>3. /\ w \in Sessions /\ w.lines = v.lines /\ w.replies = v.replies /\ w.why = v.why /\ w.phase = v.phase
  <2>1. next \in Nat BY <1>2, SessionIs
  <2> HIDE DEF next
  <2> QED BY <1>2, <2>1 DEF Sessions
<1> HIDE DEF v, w
<1>4. Scoped'
  <2>1. w.why # "duplicate" /\ (w.phase = "trying" => scopes # {}) BY <1>2, <1>3, Words DEF Scoped, v
  <2>2. w.phase \notin Holding BY <1>1, <1>3 DEF Holding
  <2>3. w.phase # "inserting" /\ (w.phase \in {"idle"} \cup Mcp!Working => scopes' # {}) BY <1>1, <1>3, <2>1, Words
  <2> QED BY <1>1, <1>2, <2>1, <2>2, <2>3, ScopedStays DEF McpInv
<1>5. Telling(s, v, Recs(s)) => Telling(s, w, Recs(s)) BY <1>1, <1>3, Words DEF Telling
<1>6. v.phase \notin Mcp!Working \cup {"dead"} \/ w.phase \in Mcp!Working \cup {"dead"} BY <1>1, <1>3, Words
<1> QED BY <1>1, <1>3, <1>4, <1>5, <1>6, QuietStep DEF v

(* A server that dies, whoever or whatever ends it, lets go of the lock.      *)
LEMMA DyingKeeps ==
  ASSUME McpInv, NEW s \in Servers, NEW why \in {"locked", "killed"}, Mcp!Dies(s, why),
         \A t \in Servers \ {s} : lock = t => lock' = t, scopes' = scopes, rows' = rows
  PROVE  McpInv'
<1> DEFINE v == server[s]
           w == [v EXCEPT !.phase = "dead", !.why = why, !.pending = {}]
<1>1. server' = [server EXCEPT ![s] = w] BY DEF Mcp!Dies, Mcp!Goes
<1>2. v \in Sessions /\ Scoped BY DEF McpInv
<1>3. /\ w \in Sessions /\ w.lines = v.lines /\ w.replies = v.replies /\ w.why = why /\ w.phase = "dead"
  BY <1>2 DEF Sessions, Phases
<1> HIDE DEF v, w
<1>4. w.phase \notin Mcp!Working /\ w.phase \notin Holding BY <1>3, Words DEF Holding
<1>5. Scoped' BY <1>1, <1>2, <1>3, <1>4, ScopedStays DEF McpInv
<1>6. Telling(s, w, Recs(s)) BY <1>4 DEF Telling
<1> QED BY <1>1, <1>3, <1>5, <1>6, QuietStep DEF v

(* A server that answers an error has left no row of the line.                *)
LEMMA FailingKeeps ==
  ASSUME McpInv, NEW s \in Servers, Mcp!Answers(s, "error"), server[s].phase \in {"trying", "opening"},
         \A t \in Servers \ {s} : lock = t => lock' = t, scopes' = scopes, rows' = rows
  PROVE  McpInv'
<1> DEFINE v == server[s]
           w == [v EXCEPT !.phase = "answering", !.answer = "error", !.pending = {}, !.attempt = 0]
<1>1. server' = [server EXCEPT ![s] = w] /\ v.phase \in {"trying", "opening"} BY DEF Mcp!Answers, Mcp!Goes
<1>2. v \in Sessions /\ Scoped BY DEF McpInv
<1>3. /\ w \in Sessions /\ w.lines = v.lines /\ w.replies = v.replies /\ w.why = v.why
      /\ w.phase = "answering" /\ w.answer = "error"
  BY <1>2, Words DEF Sessions, Answer, Bad
<1> HIDE DEF v, w
<1>4. Scoped'
  <2>1. w.why # "duplicate" /\ scopes # {} BY <1>1, <1>2, <1>3, Words DEF Scoped, v
  <2> QED BY <1>1, <1>2, <1>3, <2>1, ScopedStays DEF McpInv, Holding
<1>5. Telling(s, v, Recs(s)) => Telling(s, w, Recs(s))
  <2> SUFFICES ASSUME Telling(s, v, Recs(s)) PROVE Telling(s, w, Recs(s)) OBVIOUS
  <2>1. v.phase \in Mcp!Working /\ v.phase # "answering" BY <1>1, Words
  <2>2. v.lines[Len(v.lines)].kind \in Mcp!Calls /\ Recs(s)[Len(v.lines)] = {} BY <2>1 DEF Telling
  <2>3. Mcp!Owed(v.lines[Len(v.lines)]) /\ v.lines[Len(v.lines)].kind # "torn" BY <2>2, Words DEF Mcp!Owed, Mcp!Immediate
  <2> QED BY <1>3, <2>1, <2>2, <2>3 DEF Telling, Answer, Good, Bad
<1> QED BY <1>1, <1>3, <1>4, <1>5, Words, QuietStep DEF v

(* FindScope: the starting server holds the lock and looks for its scope.     *)
LEMMA FindScopeKeeps ==
  ASSUME McpInv, {"no_one", "other"} \cap Servers = {}, NEW s \in Servers, Mcp!FindScope(s)
  PROVE  McpInv'
<1> DEFINE v == server[s]
           w == [v EXCEPT !.phase = IF scopes # {} THEN "idle" ELSE "inserting"]
<1>1. /\ v.phase = "scoping" /\ scopes' = scopes /\ rows' = rows /\ server' = [server EXCEPT ![s] = w]
      /\ lock' = IF scopes # {} THEN "no_one" ELSE lock
  BY DEF Mcp!FindScope, Mcp!Goes, Mcp!NoOne
<1>2. v \in Sessions /\ Scoped /\ lock = s BY <1>1 DEF McpInv, Scoped, Holding
<1>3. /\ w \in Sessions /\ w.lines = v.lines /\ w.replies = v.replies /\ w.why = v.why
      /\ w.phase = IF scopes # {} THEN "idle" ELSE "inserting"
  BY <1>2 DEF Sessions, Phases
<1> HIDE DEF v, w
<1>4. Scoped'
  <2>1. w.why # "duplicate" BY <1>2, <1>3 DEF Scoped, v
  <2>2. w.phase \in Holding => lock' = s BY <1>1, <1>2, <1>3 DEF Holding
  <2>3. \A t \in Servers \ {s} : lock = t => lock' = t BY <1>2
  <2>4. w.phase = "inserting" => scopes' = {} BY <1>1, <1>3
  <2>5. w.phase \in {"idle"} \cup Mcp!Working => scopes' # {} BY <1>1, <1>3, Words
  <2> QED BY <1>1, <1>2, <2>1, <2>2, <2>3, <2>4, <2>5, ScopedStays DEF McpInv
<1>5. v.phase \notin Mcp!Working \cup {"dead"} /\ w.phase \notin Mcp!Working BY <1>1, <1>3, Words
<1>6. Telling(s, w, Recs(s)) BY <1>5 DEF Telling
<1> QED BY <1>1, <1>3, <1>4, <1>5, <1>6, QuietStep DEF v

(* InsertScope: the scope it did not find is still missing.                   *)
LEMMA InsertScopeKeeps ==
  ASSUME McpInv, NEW s \in Servers, Mcp!InsertScope(s)
  PROVE  McpInv'
<1> DEFINE v == server[s]
           w == [v EXCEPT !.phase = "idle"]
<1>1. v.phase = "inserting" /\ scopes = {} /\ lock = s BY DEF Mcp!InsertScope, McpInv, Scoped, Holding
<1>2. /\ scopes' = {s} /\ rows' = rows /\ server' = [server EXCEPT ![s] = w]
  BY <1>1 DEF Mcp!InsertScope, Mcp!Goes
<1>3. v \in Sessions /\ Scoped BY DEF McpInv
<1>4. /\ w \in Sessions /\ w.lines = v.lines /\ w.replies = v.replies /\ w.why = v.why /\ w.phase = "idle"
  BY <1>3 DEF Sessions, Phases
<1> HIDE DEF v, w
<1>5. Scoped'
  <2>1. w.why # "duplicate" /\ w.phase \notin Holding /\ w.phase # "inserting" BY <1>3, <1>4 DEF Scoped, v, Holding
  <2> QED BY <1>1, <1>2, <1>3, <2>1, ScopedStays DEF McpInv
<1>6. v.phase \notin Mcp!Working \cup {"dead"} /\ w.phase \notin Mcp!Working BY <1>1, <1>4, Words
<1>7. Telling(s, w, Recs(s)) BY <1>6 DEF Telling
<1> QED BY <1>2, <1>4, <1>5, <1>6, <1>7, QuietStep DEF v

(* A call has done its work: it holds all of the rows that its line leaves.   *)
LEMMA ReadyKeeps ==
  ASSUME McpInv, NEW s \in Servers, server[s].phase \in {"calling", "opening"}, NEW good \in Good,
         NEW made, made = {<<s, Len(server[s].lines), what>> : what \in Mcp!RowsFor(server[s].lines[Len(server[s].lines)])},
         server' = [server EXCEPT ![s] = [@ EXCEPT !.phase = "committing", !.pending = made, !.answer = good]],
         lock' = lock, scopes' = scopes, rows' = rows
  PROVE  McpInv'
<1> DEFINE v == server[s]
           w == [v EXCEPT !.phase = "committing", !.pending = made, !.answer = good]
<1>1. server' = [server EXCEPT ![s] = w] /\ v.phase \in {"calling", "opening"} OBVIOUS
<1>2. v \in Sessions /\ Scoped /\ lock = s BY <1>1 DEF McpInv, Scoped, Holding
<1>3. made \in SUBSET RowSet
  <2>1. Len(v.lines) \in Nat BY <1>2, SessionIs
  <2>2. \A what \in Mcp!RowsFor(v.lines[Len(v.lines)]) : what \in {"observation", "event"} BY DEF Mcp!RowsFor
  <2>3. \A what \in {"observation", "event"} : <<s, Len(v.lines), what>> \in RowSet BY <2>1 DEF RowSet
  <2> QED BY <2>2, <2>3
<1>4. /\ w \in Sessions /\ w.lines = v.lines /\ w.replies = v.replies /\ w.why = v.why
      /\ w.phase = "committing" /\ w.answer = good /\ w.pending = made
  BY <1>2, <1>3, Words DEF Sessions, Answer
<1>5. made = {<<s, Len(v.lines), what>> : what \in Mcp!RowsFor(v.lines[Len(v.lines)])} OBVIOUS
<1> HIDE DEF v, w
<1>6. Scoped'
  <2>1. w.why # "duplicate" /\ scopes # {} BY <1>1, <1>2, <1>4, Words DEF Scoped, v
  <2> QED BY <1>1, <1>2, <1>4, <2>1, ScopedStays DEF McpInv
<1>7. Telling(s, v, Recs(s)) => Telling(s, w, Recs(s))
  <2> SUFFICES ASSUME Telling(s, v, Recs(s)) PROVE Telling(s, w, Recs(s)) OBVIOUS
  <2>1. v.phase \in Mcp!Working /\ v.phase # "answering" BY <1>1, Words
  <2>2. /\ Len(v.lines) >= 1 /\ \A i \in DOMAIN v.replies : v.replies[i].line < Len(v.lines)
        /\ v.lines[Len(v.lines)].kind \in Mcp!Calls /\ Recs(s)[Len(v.lines)] = {}
    BY <2>1, Zenon DEF Telling
  <2>3. w.phase # "answering" /\ w.phase # "opening" BY <1>4
  <2> QED BY <1>4, <1>5, <2>2, <2>3 DEF Telling
<1> QED BY <1>1, <1>4, <1>6, <1>7, Words, QuietStep DEF v

(* Call: what the line asks for is worked out under the lock.                 *)
LEMMA CallKeeps ==
  ASSUME McpInv, NEW s \in Servers, Mcp!Call(s)
  PROVE  McpInv'
<1> DEFINE v == server[s]
           n == Len(v.lines)
           line == v.lines[n]
<1>1. v \in Sessions /\ v.phase = "calling" /\ Telling(s, v, Recs(s)) /\ Scoped /\ lock = s
  BY DEF Mcp!Call, McpInv, Scoped, Holding
<1>2. n \in Nat /\ n >= 1 /\ line.kind \in Mcp!Calls
  <2>1. v.phase \in Mcp!Working /\ v.phase # "answering" BY <1>1, Words
  <2> QED BY <1>1, <2>1, SessionIs DEF Telling
<1>3. Mcp!Line(s) = line /\ Mcp!Now(s) = n BY <1>1, <1>2 DEF Mcp!Line, Mcp!Now, Mcp!Last, Sessions
<1>4. lock' = lock /\ scopes' = scopes /\ rows' = rows BY DEF Mcp!Call
<1>5. CASE line.kind = "get" /\ file
  <2> DEFINE w == [v EXCEPT !.phase = "opening"]
  <2>1. server' = [server EXCEPT ![s] = w] BY <1>3, <1>5 DEF Mcp!Call, Mcp!Goes
  <2>2. /\ w \in Sessions /\ w.lines = v.lines /\ w.replies = v.replies /\ w.why = v.why /\ w.phase = "opening"
    BY <1>1, Words DEF Sessions
  <2> HIDE DEF w
  <2>3. Scoped'
    <3>1. w.why # "duplicate" /\ scopes # {} BY <1>1, <2>2, Words DEF Scoped
    <3> QED BY <1>1, <1>4, <2>1, <2>2, <3>1, ScopedStays DEF McpInv
  <2>4. Telling(s, w, Recs(s)) BY <1>1, <1>5, <2>2, Words DEF Telling
  <2> QED BY <1>4, <2>1, <2>2, <2>3, <2>4, Words, QuietStep
<1>6. CASE ~(line.kind = "get" /\ file)
  <2> DEFINE made == {Mcp!Row(s, "observation")} \cup IF line.kind = "get_unknown" THEN {} ELSE {Mcp!Row(s, "event")}
             good == IF line.kind = "get_unknown" THEN "not_found" ELSE IF line.kind = "get" /\ ~Stored THEN "empty" ELSE "ok"
  <2>1. server' = [server EXCEPT ![s] = [v EXCEPT !.phase = "committing", !.pending = made, !.answer = good]]
    BY <1>3, <1>6 DEF Mcp!Call, Mcp!Goes
  <2>2. made = {<<s, n, what>> : what \in Mcp!RowsFor(line)} BY <1>3 DEF Mcp!Row, Mcp!RowsFor
  <2>3. good \in Good BY DEF Good
  <2> HIDE DEF made, good
  <2> QED BY <1>1, <1>4, <2>1, <2>2, <2>3, ReadyKeeps
<1> QED BY <1>5, <1>6

LEMMA Triples == \A a, b, c : <<a, b, c>>[1] = a /\ <<a, b, c>>[2] = b /\ <<a, b, c>>[3] = c
OBVIOUS

(* Open: the file may be gone, and the call has then left no row.             *)
LEMMA OpenFileKeeps ==
  ASSUME McpInv, NEW s \in Servers, Mcp!Open(s)
  PROVE  McpInv'
<1> DEFINE v == server[s]
           n == Len(v.lines)
           line == v.lines[n]
           made == {Mcp!Row(s, "observation"), Mcp!Row(s, "event")}
           good == "ok"
<1>1. v \in Sessions /\ v.phase = "opening" /\ Telling(s, v, Recs(s)) BY DEF Mcp!Open, McpInv
<1>2. line.kind = "get" BY <1>1, Words DEF Telling
<1>3. server' = [server EXCEPT ![s] = [v EXCEPT !.phase = "committing", !.answer = "ok", !.pending = made]]
      /\ lock' = lock /\ scopes' = scopes /\ rows' = rows
  BY DEF Mcp!Open, Mcp!Goes
<1>4. made = {<<s, n, what>> : what \in Mcp!RowsFor(line)} BY <1>2 DEF Mcp!Row, Mcp!RowsFor, Mcp!Now
<1> HIDE DEF made
<1>5. [v EXCEPT !.phase = "committing", !.answer = "ok", !.pending = made]
      = [v EXCEPT !.phase = "committing", !.pending = made, !.answer = "ok"]
  BY <1>1 DEF Sessions
<1>6. server' = [server EXCEPT ![s] = [v EXCEPT !.phase = "committing", !.pending = made, !.answer = "ok"]] BY <1>3, <1>5
<1>7. good \in Good BY DEF Good
<1>8. server' = [server EXCEPT ![s] = [v EXCEPT !.phase = "committing", !.pending = made, !.answer = good]] BY <1>6
<1>9. server[s].phase \in {"calling", "opening"} BY <1>1
<1> HIDE DEF good
<1>0. McpInv /\ s \in Servers OBVIOUS
<1> HIDE DEF good, v, n, line
<1>10. made = {<<s, Len(server[s].lines), what>> : what \in Mcp!RowsFor(server[s].lines[Len(server[s].lines)])}
  BY <1>4, Zenon DEF v, n, line
<1>11. server' = [server EXCEPT ![s] = [server[s] EXCEPT !.phase = "committing", !.pending = made, !.answer = good]]
  BY <1>8, Zenon DEF v
<1>12. lock' = lock /\ scopes' = scopes /\ rows' = rows BY <1>3
<1> HIDE <1>1, <1>2, <1>3, <1>4, <1>5, <1>6
<1> QED BY <1>7, <1>9, <1>10, <1>11, <1>12, ReadyKeeps

(* Commit: the rows become visible all at once, and the lock is free.         *)
LEMMA CommitKeeps ==
  ASSUME McpInv, {"no_one", "other"} \cap Servers = {}, NEW s \in Servers
  PROVE  Mcp!Commit(s) => McpInv'
<1>0. SUFFICES ASSUME Mcp!Commit(s) PROVE McpInv' OBVIOUS
<1> DEFINE v == server[s]
           n == Len(v.lines)
           line == v.lines[n]
           R == Recs(s)
           w == [v EXCEPT !.phase = "answering", !.answer = v.answer, !.pending = {}, !.attempt = 0]
           S == [R EXCEPT ![n] = Mcp!RowsFor(line)]
<1>1. /\ v \in Sessions /\ v.phase = "committing" /\ Telling(s, v, R) /\ Told(v, R) /\ Scoped /\ lock = s
      /\ v.phase \in Mcp!Working
  BY <1>0, Words DEF Mcp!Commit, McpInv, Scoped, Holding
<1>2. /\ n \in Nat /\ n >= 1 /\ line.kind \in Mcp!Calls /\ R[n] = {} /\ v.answer \in Good
      /\ \A i \in DOMAIN v.replies : v.replies[i].line < n
  <2>1. n \in Nat BY <1>1, SessionIs
  <2> HIDE DEF v, R
  <2> QED BY <1>1, <2>1 DEF Telling
<1>13. v.pending = {<<s, n, what>> : what \in Mcp!RowsFor(line)}
  <2> HIDE DEF v, R
  <2> QED BY <1>1 DEF Telling
<1>3. /\ rows' = rows \cup v.pending /\ scopes' = scopes /\ lock' = "no_one" /\ server' = [server EXCEPT ![s] = w]
  BY <1>0 DEF Mcp!Commit, Mcp!Answers, Mcp!Goes, Mcp!NoOne
<1>4. \A t \in Servers, m \in Nat : Mcp!RowsOf(t, m)' = IF t = s /\ m = n THEN Mcp!RowsFor(line) ELSE Mcp!RowsOf(t, m)
  <2>1. Mcp!RowsOf(s, n) = {} BY <1>2 DEF Recs
  <2> TAKE t \in Servers, m \in Nat
  <2>2. Mcp!RowsOf(t, m)' = Mcp!RowsOf(t, m) \cup {r[3] : r \in {r \in v.pending : r[1] = t /\ r[2] = m}}
    BY <1>3 DEF Mcp!RowsOf
  <2>3. {r[3] : r \in {r \in v.pending : r[1] = t /\ r[2] = m}} = IF t = s /\ m = n THEN Mcp!RowsFor(line) ELSE {}
    <3> DEFINE P == {r \in v.pending : r[1] = t /\ r[2] = m}
               L == Mcp!RowsFor(line)
    <3>0. v.pending = {<<s, n, what>> : what \in L} BY <1>13
    <3> HIDE DEF v, n, line, L
    <3>1. \A r \in v.pending : \E what \in L : r = <<s, n, what>> /\ r[1] = s /\ r[2] = n /\ r[3] = what
      <4> TAKE r \in v.pending
      <4>1. PICK what \in L : r = <<s, n, what>> BY <3>0, Zenon
      <4>2. r[1] = s /\ r[2] = n /\ r[3] = what BY <4>1, Triples, Zenon
      <4> QED BY <4>1, <4>2
    <3>2. \A what \in L : \E r \in v.pending : r[1] = s /\ r[2] = n /\ r[3] = what
      <4> TAKE what \in L
      <4>1. <<s, n, what>> \in v.pending BY <3>0, Zenon
      <4>2. <<s, n, what>>[1] = s /\ <<s, n, what>>[2] = n /\ <<s, n, what>>[3] = what BY Triples, Zenon
      <4> QED BY <4>1, <4>2, Zenon
    <3>3. CASE t = s /\ m = n
      <4>1. \A r \in P : r[3] \in L BY <3>1
      <4>2. \A what \in L : \E r \in P : r[3] = what BY <3>2, <3>3
      <4> HIDE DEF P
      <4>3. {r[3] : r \in P} = L BY <4>1, <4>2
      <4> QED BY <3>3, <4>3 DEF P, L
    <3>4. CASE ~(t = s /\ m = n)
      <4>1. P = {} BY <3>1, <3>4
      <4> HIDE DEF P
      <4>2. {r[3] : r \in P} = {} BY <4>1
      <4> QED BY <3>4, <4>2 DEF P
    <3> QED BY <3>3, <3>4
  <2> QED BY <2>1, <2>2, <2>3
<1>5. (\A t \in Servers \ {s} : Recs(t)' = Recs(t)) /\ Recs(s)' = S
  BY <1>2, <1>4 DEF Recs
<1>6. S[n] = Mcp!RowsFor(line) /\ \A m \in Nat : m # n => S[m] = R[m] BY <1>2 DEF Recs
<1>7. /\ w \in Sessions /\ w.lines = v.lines /\ w.replies = v.replies /\ w.why = v.why
      /\ w.phase = "answering" /\ w.answer = v.answer
  BY <1>1, Words DEF Sessions
<1>11. n = Len(v.lines) /\ line = v.lines[n] OBVIOUS
<1>12. v = server[s] OBVIOUS
<1> HIDE DEF v, n, line, w, S, R
<1>8. Scoped'
  <2>1. w.why # "duplicate" /\ scopes # {} BY <1>1, <1>7, <1>12, Words DEF Scoped
  <2>2. \A t \in Servers \ {s} : lock = t => lock' = t BY <1>1
  <2> QED BY <1>1, <1>3, <1>7, <2>1, <2>2, ScopedStays DEF McpInv, Holding
<1>9. Told(w, S)
  <2>0. Over(w) = 1 .. n - 1 /\ Over(v) = 1 .. n - 1 BY <1>1, <1>7, <1>11, Words DEF Over
  <2>1. Over(w) = Over(v) /\ \A m \in Over(v) : m < n /\ m \in Nat BY <1>2, <2>0
  <2>2. \A m \in 1 .. n : S[m] \in {{}, Mcp!RowsFor(v.lines[m])} BY <1>1, <1>2, <1>6, <1>11 DEF Told
  <2>3. \A i \in DOMAIN v.replies : v.replies[i].line \in Nat /\ S[v.replies[i].line] = R[v.replies[i].line]
    BY <1>1, <1>2, <1>6, <1>11 DEF Told
  <2>4. \A m \in Nat : m > n => S[m] = {} BY <1>1, <1>2, <1>6, <1>11 DEF Told
  <2>5. \A m \in Over(v) : S[m] = R[m] BY <1>6, <2>1
  <2> QED BY <1>1, <1>7, <1>11, <2>1, <2>2, <2>3, <2>4, <2>5 DEF Told
<1>10. Telling(s, w, S)
  <2>1. Mcp!Owed(line) /\ line.kind # "torn" BY <1>2, Words DEF Mcp!Owed, Mcp!Immediate
  <2>2. S[n] # {} BY <1>6 DEF Mcp!RowsFor
  <2> QED BY <1>2, <1>7, <1>11, <2>1, <2>2 DEF Telling, Answer, Good, Bad
<1> QED BY <1>3, <1>5, <1>7, <1>8, <1>9, <1>10, McpStays

(* Reply: the answer is written after the rows it reports.                    *)
LEMMA ReplyKeeps ==
  ASSUME McpInv, NEW s \in Servers, Mcp!Reply(s)
  PROVE  McpInv'
<1> DEFINE v == server[s]
           n == Len(v.lines)
           line == v.lines[n]
           R == Recs(s)
           reply == [line |-> n, id |-> IF v.answer = "parse_error" THEN 0 ELSE line.id, answer |-> v.answer]
           replies == IF Mcp!Replied(s) THEN Append(v.replies, reply) ELSE v.replies
           w == [v EXCEPT !.phase = "idle", !.answer = "none", !.replies = replies]
<1>1. /\ v \in Sessions /\ v.phase = "answering" /\ Telling(s, v, R) /\ Told(v, R) /\ Scoped /\ v.phase \in Mcp!Working
  BY Words DEF Mcp!Reply, McpInv
<1>2. /\ n \in Nat /\ n >= 1 /\ Mcp!Owed(line) /\ v.answer \in Answer
      /\ (v.answer = "parse_error") = (line.kind = "torn")
      /\ v.answer \in Bad => R[n] = {}
      /\ v.answer \in Good /\ line.kind \in Mcp!Calls => R[n] # {}
      /\ \A i \in DOMAIN v.replies : v.replies[i].line < n
  BY <1>1 DEF Telling, Sessions
<1>3. Mcp!Line(s) = line /\ Mcp!Now(s) = n BY <1>1, <1>2 DEF Mcp!Line, Mcp!Now, Mcp!Last, Sessions
<1>4. server' = [server EXCEPT ![s] = w] /\ lock' = lock /\ scopes' = scopes /\ rows' = rows
  BY <1>3 DEF Mcp!Reply, Mcp!Goes
<1>5. line \in Lines /\ reply \in Replies
  <2>1. line \in Lines BY <1>1, <1>2 DEF Sessions
  <2> QED BY <1>2, <2>1 DEF Replies
<1>6. v.replies \in Seq(Replies) /\ replies \in Seq(Replies) BY <1>1, <1>5 DEF Sessions
<1>7. Mcp!Replied(s) \/ (v.answer = "error" /\ line.id = 0) BY <1>3 DEF Mcp!Replied
<1>8. /\ w \in Sessions /\ w.lines = v.lines /\ w.replies = replies /\ w.why = v.why /\ w.phase = "idle"
  <2> HIDE DEF replies
  <2> QED BY <1>1, <1>6 DEF Sessions, Phases
<1>9. reply.line = n /\ reply.answer = v.answer /\ reply.id = IF line.kind = "torn" THEN 0 ELSE line.id BY <1>2
<1> HIDE DEF w, R, reply
<1>10. Scoped'
  <2>1. w.why # "duplicate" /\ scopes # {} BY <1>1, <1>8, Words DEF Scoped
  <2> QED BY <1>1, <1>4, <1>8, <2>1, ScopedStays DEF McpInv, Holding
<1>11. Over(v) = 1 .. n - 1 /\ Over(w) = 1 .. n BY <1>1, <1>8, Words DEF Over
<1>12. Told(w, R)
  <2>1. CASE Mcp!Replied(s)
    <3> DEFINE k == Len(v.replies)
    <3>1. /\ DOMAIN v.replies = 1 .. k /\ k \in Nat /\ DOMAIN w.replies = 1 .. k + 1 /\ w.replies[k + 1] = reply
          /\ \A i \in 1 .. k : w.replies[i] = v.replies[i] /\ v.replies[i].line \in Nat
      <4> HIDE DEF v
      <4>1. v.replies \in Seq(Replies) /\ w.replies = Append(v.replies, reply) BY <1>6, <1>8, <2>1
      <4>2. \A r \in Replies : r.line \in Nat BY DEF Replies
      <4>3. reply \in Replies BY <1>5
      <4> QED BY <4>1, <4>2, <4>3
    <3> HIDE DEF k
    <3>2. \A i, j \in DOMAIN w.replies : i < j => w.replies[i].line < w.replies[j].line
      <4> SUFFICES ASSUME NEW i \in 1 .. k + 1, NEW j \in 1 .. k + 1, i < j PROVE w.replies[i].line < w.replies[j].line
        BY <3>1
      <4>1. i \in 1 .. k BY <3>1
      <4>2. CASE j = k + 1 BY <1>2, <1>9, <3>1, <4>1, <4>2
      <4>3. CASE j \in 1 .. k BY <1>1, <3>1, <4>1, <4>3 DEF Told
      <4> QED BY <3>1, <4>2, <4>3
    <3>3. ASSUME NEW i \in DOMAIN w.replies
          PROVE  LET r == w.replies[i]
                     l == v.lines[r.line]
                 IN /\ r.line \in 1 .. n /\ Mcp!Owed(l)
                    /\ r.id = IF l.kind = "torn" THEN 0 ELSE l.id
                    /\ r.answer \in Bad => R[r.line] = {}
                    /\ r.answer \in Good /\ l.kind \in Mcp!Calls => R[r.line] # {}
      <4>1. CASE i = k + 1 BY <1>2, <1>9, <3>1, <4>1
      <4>2. CASE i \in 1 .. k BY <1>1, <3>1, <4>2 DEF Told
      <4> QED BY <3>1, <4>1, <4>2
    <3>4. ASSUME NEW m \in 1 .. n
          PROVE  \/ \E i \in DOMAIN w.replies : w.replies[i].line = m
                 \/ (Mcp!Owed(v.lines[m]) => v.lines[m].id = 0) /\ (v.lines[m].kind \in Mcp!Calls => R[m] = {})
      <4>1. CASE m = n BY <1>9, <3>1, <4>1
      <4>2. CASE m \in Over(v)
        <5>1. CASE \E i \in DOMAIN v.replies : v.replies[i].line = m BY <3>1, <5>1
        <5>2. CASE ~\E i \in DOMAIN v.replies : v.replies[i].line = m BY <1>1, <4>2, <5>2 DEF Told
        <5> QED BY <5>1, <5>2
      <4> QED BY <1>2, <1>11, <4>1, <4>2
    <3> QED BY <1>1, <1>8, <1>11, <3>2, <3>3, <3>4 DEF Told
  <2>2. CASE ~Mcp!Replied(s)
    <3>1. w.replies = v.replies BY <1>8, <2>2
    <3>2. v.answer = "error" /\ line.id = 0 BY <1>7, <2>2
    <3>3. R[n] = {} BY <1>2, <3>2 DEF Bad
    <3>4. \A m \in 1 .. n : m = n \/ m \in Over(v) BY <1>2, <1>11
    <3> QED BY <1>1, <1>8, <1>11, <3>1, <3>2, <3>3, <3>4 DEF Told
  <2> QED BY <2>1, <2>2
<1>13. Telling(s, w, R) BY <1>8, Words DEF Telling
<1>14. (\A t \in Servers \ {s} : Recs(t)' = Recs(t)) /\ Recs(s)' = R BY <1>4, RecsStay DEF R
<1> QED BY <1>4, <1>8, <1>10, <1>12, <1>13, <1>14, McpStays

(* A server reads a line: it has no rows yet.                                 *)
LEMMA ReadKeeps ==
  ASSUME McpInv, NEW s \in Servers, NEW line \in Lines, Mcp!Read(s, line)
  PROVE  McpInv'
<1> DEFINE v == server[s]
           n == Len(v.lines)
           R == Recs(s)
           read == [v EXCEPT !.lines = Append(v.lines, line)]
           dead == [read EXCEPT !.phase = "dead", !.why = "odd_line"]
           trying == [read EXCEPT !.phase = "trying"]
           answering == [read EXCEPT !.phase = "answering", !.answer = Mcp!AnswerTo(line)]
<1>1. v \in Sessions /\ v.phase = "idle" /\ Told(v, R) /\ Scoped BY DEF Mcp!Read, McpInv
<1>2. n \in Nat /\ v.lines \in Seq(Lines) /\ Append(v.lines, line) \in Seq(Lines) BY <1>1 DEF Sessions
<1>3. read \in Sessions /\ read.lines = Append(v.lines, line) /\ read.replies = v.replies /\ read.why = v.why
      /\ read.phase = "idle" /\ read.answer = v.answer
  BY <1>1, <1>2 DEF Sessions
<1>4. /\ dead \in Sessions /\ dead.lines = Append(v.lines, line) /\ dead.replies = v.replies /\ dead.why = "odd_line"
      /\ dead.phase = "dead"
  <2> HIDE DEF read
  <2> QED BY <1>3 DEF Sessions, Phases
<1>5. /\ trying \in Sessions /\ trying.lines = Append(v.lines, line) /\ trying.replies = v.replies /\ trying.why = v.why
      /\ trying.phase = "trying"
  <2> HIDE DEF read
  <2> QED BY <1>3, Words DEF Sessions
<1>6. /\ answering \in Sessions /\ answering.lines = Append(v.lines, line) /\ answering.replies = v.replies
      /\ answering.why = v.why /\ answering.phase = "answering" /\ answering.answer = Mcp!AnswerTo(line)
  <2> HIDE DEF read
  <2>1. Mcp!AnswerTo(line) \in Answer BY DEF Mcp!AnswerTo, Answer, Good, Bad
  <2> QED BY <1>3, <2>1, Words DEF Sessions
<1>7. /\ lock' = lock /\ scopes' = scopes /\ rows' = rows
      /\ \/ line.kind = "odd" /\ server' = [server EXCEPT ![s] = dead]
         \/ line.kind \in Mcp!Calls /\ server' = [server EXCEPT ![s] = trying]
         \/ Mcp!Owed(line) /\ line.kind \notin Mcp!Calls /\ server' = [server EXCEPT ![s] = answering]
         \/ ~Mcp!Owed(line) /\ line.kind \notin Mcp!Calls /\ server' = [server EXCEPT ![s] = read]
  BY DEF Mcp!Read, Mcp!Goes
<1>8. PICK w \in {dead, trying, answering, read} : server' = [server EXCEPT ![s] = w] /\
         \/ line.kind = "odd" /\ w = dead
         \/ line.kind \in Mcp!Calls /\ w = trying
         \/ Mcp!Owed(line) /\ line.kind \notin Mcp!Calls /\ w = answering
         \/ ~Mcp!Owed(line) /\ line.kind \notin Mcp!Calls /\ w = read
  BY <1>7
<1> HIDE DEF dead, trying, answering, read, R
<1>9. /\ w \in Sessions /\ w.lines = Append(v.lines, line) /\ w.replies = v.replies /\ w.why # "duplicate"
      /\ w.phase \in {"dead", "trying", "answering", "idle"}
      /\ w.phase = "idle" => ~Mcp!Owed(line) /\ line.kind \notin Mcp!Calls
      /\ w.phase = "trying" => line.kind \in Mcp!Calls
      /\ w.phase = "answering" => Mcp!Owed(line) /\ line.kind \notin Mcp!Calls /\ w.answer = Mcp!AnswerTo(line)
  BY <1>1, <1>3, <1>4, <1>5, <1>6, <1>8 DEF Scoped
<1>10. Len(w.lines) = n + 1 /\ w.lines[n + 1] = line /\ \A m \in 1 .. n : w.lines[m] = v.lines[m] BY <1>2, <1>9
<1>11. R[n + 1] = {} /\ \A m \in Nat : m > n + 1 => R[m] = {} BY <1>1, <1>2 DEF Told
<1>12. Scoped'
  <2>1. scopes # {} BY <1>1 DEF Scoped
  <2> QED BY <1>1, <1>7, <1>8, <1>9, <2>1, ScopedStays DEF McpInv, Holding
<1>13. Over(v) = 1 .. n /\ Over(w) = IF w.phase = "idle" THEN 1 .. n + 1 ELSE 1 .. n
  BY <1>1, <1>2, <1>9, <1>10, Words DEF Over
<1>14. Told(w, R)
  <2>1. \A m \in 1 .. n + 1 : m = n + 1 \/ m \in 1 .. n BY <1>2
  <2>2. \A m \in 1 .. Len(w.lines) : R[m] \in {{}, Mcp!RowsFor(w.lines[m])} BY <1>1, <1>10, <1>11, <2>1 DEF Told
  <2>3. \A i \in DOMAIN v.replies : v.replies[i].line \in 1 .. n /\ v.replies[i].line \in 1 .. n + 1 BY <1>1, <1>2 DEF Told
  <2>4. ASSUME NEW i \in DOMAIN w.replies
        PROVE  LET r == w.replies[i]
                   l == w.lines[r.line]
               IN /\ r.line \in 1 .. Len(w.lines) /\ Mcp!Owed(l)
                  /\ r.id = IF l.kind = "torn" THEN 0 ELSE l.id
                  /\ r.answer \in Bad => R[r.line] = {}
                  /\ r.answer \in Good /\ l.kind \in Mcp!Calls => R[r.line] # {}
    <3> DEFINE r == w.replies[i]
               m == r.line
    <3>1. i \in DOMAIN v.replies /\ r = v.replies[i] BY <1>9
    <3>2. m \in 1 .. n /\ m \in 1 .. Len(w.lines) /\ w.lines[m] = v.lines[m] BY <1>10, <2>3, <3>1
    <3>3. /\ Mcp!Owed(v.lines[m]) /\ r.id = IF v.lines[m].kind = "torn" THEN 0 ELSE v.lines[m].id
          /\ r.answer \in Bad => R[m] = {}
          /\ r.answer \in Good /\ v.lines[m].kind \in Mcp!Calls => R[m] # {}
      BY <1>1, <3>1 DEF Told
    <3> HIDE DEF r, m
    <3> QED BY <3>2, <3>3 DEF r, m
  <2>5. ASSUME NEW m \in Over(w)
        PROVE  \/ \E i \in DOMAIN w.replies : w.replies[i].line = m
               \/ (Mcp!Owed(w.lines[m]) => w.lines[m].id = 0) /\ (w.lines[m].kind \in Mcp!Calls => R[m] = {})
    <3>1. CASE m \in 1 .. n
      <4>1. w.lines[m] = v.lines[m] BY <1>10, <3>1
      <4>2. \/ \E i \in DOMAIN v.replies : v.replies[i].line = m
            \/ (Mcp!Owed(v.lines[m]) => v.lines[m].id = 0) /\ (v.lines[m].kind \in Mcp!Calls => R[m] = {})
        BY <1>1, <1>13, <3>1 DEF Told
      <4> QED BY <1>9, <4>1, <4>2
    <3>2. CASE m \notin 1 .. n
      <4>1. m = n + 1 /\ w.phase = "idle" BY <1>13, <2>1, <2>5, <3>2
      <4> QED BY <1>9, <1>10, <4>1
    <3> QED BY <3>1, <3>2
  <2>6. \A i, j \in DOMAIN w.replies : i < j => w.replies[i].line < w.replies[j].line BY <1>1, <1>9 DEF Told
  <2>7. \A m \in Nat : m > Len(w.lines) => R[m] = {} BY <1>10, <1>11
  <2> QED BY <2>2, <2>4, <2>5, <2>6, <2>7 DEF Told
<1>15. Telling(s, w, R)
  <2>1. \A i \in DOMAIN v.replies : v.replies[i].line < n + 1 BY <1>1, <1>2 DEF Told
  <2>2. Mcp!AnswerTo(line) \in Answer /\ (Mcp!AnswerTo(line) = "parse_error" <=> line.kind = "torn")
    BY DEF Mcp!AnswerTo, Answer, Good, Bad
  <2>3. /\ Len(w.lines) >= 1 /\ \A i \in DOMAIN w.replies : w.replies[i].line < Len(w.lines)
        /\ w.lines[Len(w.lines)] = line /\ R[Len(w.lines)] = {}
    BY <1>2, <1>9, <1>10, <1>11, <2>1
  <2>4. Mcp!AnswerTo(line) \in Good => line.kind \notin Mcp!Calls BY DEF Mcp!AnswerTo, Good, Mcp!Calls
  <2> HIDE DEF v, n
  <2>5. w.phase # "opening" /\ w.phase # "committing" BY <1>9
  <2>6. w.phase = "answering" =>
          /\ Mcp!Owed(line) /\ w.answer \in Answer /\ (w.answer = "parse_error" <=> line.kind = "torn")
          /\ w.answer \in Good => line.kind \notin Mcp!Calls
    BY <1>9, <2>2, <2>4
  <2>7. w.phase \in Mcp!Working /\ w.phase # "answering" => line.kind \in Mcp!Calls
    BY <1>9, Words
  <2> QED BY <2>3, <2>5, <2>6, <2>7, Zenon DEF Telling
<1>16. (\A t \in Servers \ {s} : Recs(t)' = Recs(t)) /\ Recs(s)' = R BY <1>7, RecsStay DEF R
<1> QED BY <1>8, <1>9, <1>12, <1>14, <1>15, <1>16, McpStays

(* Other writers take and leave the lock, and files change.                   *)
LEMMA OthersKeep ==
  ASSUME McpInv, {"no_one", "other"} \cap Servers = {}, Mcp!OtherTakes \/ Mcp!OtherLeaves \/ Mcp!FileChanges
  PROVE  McpInv'
<1>1. server' = server /\ rows' = rows BY DEF Mcp!OtherTakes, Mcp!OtherLeaves, Mcp!FileChanges
<1>2. \A s \in Servers : lock = s => lock' = s
  BY DEF Mcp!OtherTakes, Mcp!OtherLeaves, Mcp!FileChanges, Mcp!NoOne
<1>3. scopes' = scopes \/ (lock = "other" /\ scopes = {} /\ scopes' = {"other"})
  BY DEF Mcp!OtherTakes, Mcp!OtherLeaves, Mcp!FileChanges
<1>4. \A s \in Servers : server[s].phase \in Holding => lock = s BY DEF McpInv, Scoped
<1>5. Scoped'
  <2>1. CASE scopes' = scopes BY <1>1, <1>2, <2>1 DEF McpInv, Scoped
  <2>2. CASE lock = "other" /\ scopes = {} /\ scopes' = {"other"}
    <3>1. \A s \in Servers : server[s].phase \notin Holding BY <1>4, <2>2
    <3> QED BY <1>1, <2>2, <3>1 DEF McpInv, Scoped, Holding
  <2> QED BY <1>3, <2>1, <2>2
<1>6. \A t \in Servers : Recs(t)' = Recs(t) BY <1>1, RecsStay
<1> QED BY <1>1, <1>5, <1>6 DEF McpInv

LEMMA McpStep == McpInv /\ {"no_one", "other"} \cap Servers = {} /\ Mcp!McpNext => McpInv'
<1> SUFFICES ASSUME McpInv, {"no_one", "other"} \cap Servers = {}, Mcp!McpNext PROVE McpInv' OBVIOUS
<1>1. ASSUME NEW s \in Servers, Mcp!GiveUp(s) PROVE McpInv'
  <2>1. lock' = lock /\ scopes' = scopes /\ rows' = rows BY <1>1 DEF Mcp!GiveUp
  <2>2. CASE server[s].phase = "starting"
    <3>1. Mcp!Dies(s, "locked") BY <1>1, <2>2 DEF Mcp!GiveUp
    <3> QED BY <2>1, <3>1, DyingKeeps
  <2>3. CASE server[s].phase # "starting"
    <3>1. Mcp!Answers(s, "error") /\ server[s].phase = "trying" BY <1>1, <2>3 DEF Mcp!GiveUp
    <3> QED BY <2>1, <3>1, FailingKeeps
  <2> QED BY <2>2, <2>3
<1>2. ASSUME NEW s \in Servers, Mcp!FailOpen(s) PROVE McpInv'
  <2>1. Mcp!Answers(s, "error") /\ server[s].phase = "opening" /\ lock' = "no_one" /\ scopes' = scopes /\ rows' = rows
    BY <1>2 DEF Mcp!FailOpen, Mcp!Rollback, Mcp!NoOne
  <2>2. lock = s BY <2>1 DEF McpInv, Scoped, Holding
  <2> QED BY <2>1, <2>2, FailingKeeps
<1>3. ASSUME NEW s \in Servers, Mcp!Kill(s) PROVE McpInv'
  <2>1. Mcp!Dies(s, "killed") /\ lock' = (IF lock = s THEN "no_one" ELSE lock) /\ scopes' = scopes /\ rows' = rows
    BY <1>3 DEF Mcp!Kill, Mcp!NoOne
  <2> QED BY <2>1, DyingKeeps
<1>4. ASSUME NEW s \in Servers, Mcp!ServerStep(s) PROVE McpInv'
  BY <1>1, <1>2, <1>4, BeginKeeps, WaitKeeps, FindScopeKeeps, InsertScopeKeeps, CallKeeps, OpenFileKeeps,
     CommitKeeps, ReplyKeeps DEF Mcp!ServerStep
<1> QED BY <1>3, <1>4, ReadKeeps, OthersKeep DEF Mcp!McpNext

LEMMA InitialMcp == Mcp!McpInit => McpInv
<1> SUFFICES ASSUME Mcp!McpInit PROVE McpInv OBVIOUS
<1> DEFINE v == [phase |-> "starting", attempt |-> 0, pending |-> {}, lines |-> <<>>, replies |-> <<>>,
                 answer |-> "none", why |-> "none"]
<1>1. server = [s \in Servers |-> v] /\ scopes = {} /\ rows = {} BY DEF Mcp!McpInit, Mcp!New
<1>2. v \in Sessions BY DEF Sessions, Phases
<1>3. v.phase = "starting" /\ v.why = "none" /\ v.lines = <<>> /\ v.replies = <<>> OBVIOUS
<1> HIDE DEF v
<1>4. Scoped BY <1>1, <1>3, Words DEF Scoped, Holding
<1>5. ASSUME NEW s \in Servers PROVE Told(v, Recs(s)) /\ Telling(s, v, Recs(s))
  <2>1. \A n \in Nat : Recs(s)[n] = {} BY <1>1 DEF Recs, Mcp!RowsOf
  <2>2. Len(v.lines) = 0 /\ DOMAIN v.replies = {} BY <1>3
  <2>3. Over(v) = {} BY <1>3, <2>2, Words DEF Over
  <2>4. Told(v, Recs(s)) BY <2>1, <2>2, <2>3 DEF Told
  <2>5. Telling(s, v, Recs(s)) BY <1>3, Words DEF Telling
  <2> QED BY <2>4, <2>5
<1> QED BY <1>1, <1>2, <1>4, <1>5 DEF McpInv

LEMMA StartsDoAgree == McpInv => Mcp!StartsAgree
<1> SUFFICES ASSUME McpInv PROVE Mcp!StartsAgree OBVIOUS
<1>1. ASSUME scopes # {} PROVE Mcp!Cardinality(scopes) = 1
  <2>1. PICK x \in scopes : scopes = {x} BY <1>1 DEF McpInv, Scoped
  <2>2. Cardinality({x}) = 1 BY FS_Singleton
  <2>3. Mcp!Cardinality(scopes) = Cardinality(scopes) BY DEF Mcp!Cardinality, Cardinality
  <2> QED BY <2>1, <2>2, <2>3
<1> QED BY <1>1 DEF McpInv, Scoped, Mcp!StartsAgree

LEMMA AnswersDoMatch == McpInv => Mcp!AnswersMatchRecords
<1> SUFFICES ASSUME McpInv, NEW s \in Servers
             PROVE  /\ \A i, j \in DOMAIN server[s].replies : i < j => server[s].replies[i].line < server[s].replies[j].line
                    /\ \A n \in 1 .. Mcp!Now(s) :
                         LET line == server[s].lines[n]
                             replies == Mcp!RepliesTo(s, n)
                         IN /\ \A r \in replies : Mcp!Owed(line) /\ r.id = IF line.kind = "torn" THEN 0 ELSE line.id
                            /\ n \in Mcp!Done(s) /\ Mcp!Owed(line) => replies # {} \/ line.id = 0
                            /\ Mcp!RowsOf(s, n) \in {{}, Mcp!RowsFor(line)}
                            /\ \A r \in replies : r.answer \in {"error", "parse_error"} => Mcp!RowsOf(s, n) = {}
                            /\ n \in Mcp!Done(s) /\ line.kind \in Mcp!Calls =>
                                 (Mcp!RowsOf(s, n) # {}) = (\E r \in replies : r.answer \in {"ok", "empty", "not_found"})
  BY DEF Mcp!AnswersMatchRecords
<1> DEFINE v == server[s]
           R == Recs(s)
<1>1. v \in Sessions /\ Told(v, R) BY DEF McpInv
<1>2. Mcp!Now(s) = Len(v.lines) /\ Len(v.lines) \in Nat /\ Mcp!Done(s) = Over(v) BY <1>1 DEF Mcp!Now, Mcp!Done, Over, Sessions
<1>3. \A n \in Nat : R[n] = Mcp!RowsOf(s, n) BY DEF Recs
<1>4. ASSUME NEW n \in Nat PROVE Mcp!RepliesTo(s, n) = {v.replies[i] : i \in {i \in DOMAIN v.replies : v.replies[i].line = n}}
  BY <1>1 DEF Mcp!RepliesTo, Mcp!Range
<1>5. ASSUME NEW n \in 1 .. Len(v.lines)
      PROVE  LET line == v.lines[n]
                 replies == Mcp!RepliesTo(s, n)
             IN /\ \A r \in replies : Mcp!Owed(line) /\ r.id = IF line.kind = "torn" THEN 0 ELSE line.id
                /\ n \in Over(v) /\ Mcp!Owed(line) => replies # {} \/ line.id = 0
                /\ R[n] \in {{}, Mcp!RowsFor(line)}
                /\ \A r \in replies : r.answer \in {"error", "parse_error"} => R[n] = {}
                /\ n \in Over(v) /\ line.kind \in Mcp!Calls =>
                     (R[n] # {}) = (\E r \in replies : r.answer \in {"ok", "empty", "not_found"})
  <2> DEFINE line == v.lines[n]
             replies == Mcp!RepliesTo(s, n)
  <2>1. \A r \in replies : \E i \in DOMAIN v.replies : r = v.replies[i] /\ r.line = n BY <1>2, <1>4
  <2>2. \A r \in replies : /\ Mcp!Owed(line) /\ r.id = IF line.kind = "torn" THEN 0 ELSE line.id
                           /\ r.answer \in Bad => R[n] = {}
                           /\ r.answer \in Good /\ line.kind \in Mcp!Calls => R[n] # {}
                           /\ r.answer \in Good \cup Bad
    <3> TAKE r \in replies
    <3>1. PICK i \in DOMAIN v.replies : r = v.replies[i] /\ r.line = n BY <2>1
    <3>2. v.replies[i] \in Replies BY <1>1, SessionIs
    <3>3. r.answer \in Good \cup Bad BY <3>1, <3>2 DEF Replies, Answer
    <3>4. Told(v, R) BY <1>1
    <3> HIDE DEF v, R
    <3> QED BY <3>1, <3>3, <3>4 DEF Told
  <2>3. n \in Over(v) => \/ replies # {}
                         \/ (Mcp!Owed(line) => line.id = 0) /\ (line.kind \in Mcp!Calls => R[n] = {})
    <3> SUFFICES ASSUME n \in Over(v)
                 PROVE  \/ replies # {}
                        \/ (Mcp!Owed(line) => line.id = 0) /\ (line.kind \in Mcp!Calls => R[n] = {})
      OBVIOUS
    <3>1. Told(v, R) /\ n \in Nat BY <1>1
    <3>2. \A i \in DOMAIN v.replies : v.replies[i].line = n => v.replies[i] \in replies BY <1>4, <3>1
    <3> HIDE DEF v, R, replies
    <3> QED BY <3>1, <3>2 DEF Told
  <2>4. R[n] \in {{}, Mcp!RowsFor(line)} BY <1>1 DEF Told
  <2> HIDE DEF replies, R, v, line
  <2>5. \A r \in replies : r.answer \in {"error", "parse_error"} => R[n] = {} BY <2>2 DEF Bad
  <2>6. (n \in Over(v) /\ Mcp!Owed(line)) => (replies # {} \/ line.id = 0) BY <2>3
  <2>7. ASSUME n \in Over(v), line.kind \in Mcp!Calls
        PROVE  R[n] # {} <=> \E r \in replies : r.answer \in {"ok", "empty", "not_found"}
    <3>1. ASSUME R[n] # {} PROVE \E r \in replies : r.answer \in Good
      <4>1. PICK r \in replies : TRUE BY <2>3, <2>7, <3>1
      <4> QED BY <2>2, <3>1, <4>1
    <3>2. ASSUME NEW r \in replies, r.answer \in Good PROVE R[n] # {} BY <2>2, <2>7, <3>2
    <3> QED BY <3>1, <3>2 DEF Good
  <2>8. \A r \in replies : Mcp!Owed(line) /\ r.id = IF line.kind = "torn" THEN 0 ELSE line.id BY <2>2
  <2>9. (R[n] # {}) \in BOOLEAN /\ (\E r \in replies : r.answer \in {"ok", "empty", "not_found"}) \in BOOLEAN OBVIOUS
  <2> QED BY <2>4, <2>5, <2>6, <2>7, <2>8, <2>9, Zenon DEF replies, line
<1>6. \A i, j \in DOMAIN v.replies : i < j => v.replies[i].line < v.replies[j].line BY <1>1 DEF Told
<1>7. R = Recs(s) /\ v = server[s] OBVIOUS
<1> HIDE DEF R, v
<1>8. ASSUME NEW n \in 1 .. Mcp!Now(s)
      PROVE  LET line == server[s].lines[n]
                 replies == Mcp!RepliesTo(s, n)
             IN /\ \A r \in replies : Mcp!Owed(line) /\ r.id = IF line.kind = "torn" THEN 0 ELSE line.id
                /\ n \in Mcp!Done(s) /\ Mcp!Owed(line) => replies # {} \/ line.id = 0
                /\ Mcp!RowsOf(s, n) \in {{}, Mcp!RowsFor(line)}
                /\ \A r \in replies : r.answer \in {"error", "parse_error"} => Mcp!RowsOf(s, n) = {}
                /\ n \in Mcp!Done(s) /\ line.kind \in Mcp!Calls =>
                     (Mcp!RowsOf(s, n) # {}) = (\E r \in replies : r.answer \in {"ok", "empty", "not_found"})
  <2>1. n \in 1 .. Len(v.lines) /\ n \in Nat BY <1>2
  <2>2. R[n] = Mcp!RowsOf(s, n) /\ Mcp!Done(s) = Over(v) BY <1>2, <1>3, <2>1
  <2> QED BY <1>5, <1>7, <2>1, <2>2, Zenon
<1> QED BY <1>6, <1>7, <1>8, Zenon
-----------------------------------------------------------------------------
(* The files.  One that a write has left without a conflict is settled: the   *)
(* plan that the next run makes from it is the file itself.                   *)
Targets == {"db", "mcp", "toml", "hooks", "agents", "claude", "hermes"}
Tasks == Targets \cup {"docs"}
TomlLines == {"user", "table", "bad", "start", "stale", "end", "own"}
MarkLines == {"no file", "user", "import", "block"}
Groups == [matcher : {"karc", "none", "user"}, handlers : Seq({"user", "stale", "own"})]
McpFiles == [form : {"absent", "broken", "odd", "json"}, servers : SUBSET {"karc", "user"}]
HookFiles == [form : {"absent", "broken", "odd", "json"}, groups : [HookEvents -> Seq(Groups)]]
Runtimes == {"claude-code", "codex", "append-hermes"}
AllFiles == [db : BOOLEAN, mcp : McpFiles, toml : Seq(TomlLines), hooks : HookFiles,
             agents : Seq(MarkLines), claude : Seq(MarkLines), hermes : Seq(MarkLines)]
FilesOK == files \in AllFiles
RunStates == {"idle", "writing", "done", "edited", "raised", "killed", "torn"}
Runs == [left : Seq(Tasks), selected : SUBSET Runtimes, phase : {"none", "look", "read", "write"},
         conflicts : SUBSET (Targets \cup {"edited"}), state : RunStates]
SetupTypeOK == FilesOK /\ seen \in AllFiles /\ run \in Runs /\ env = "plain"

(* A run is at one of its files as long as something is left; it writes a     *)
(* plan only where it has found no conflict.  What is due is settled, or is   *)
(* still to be done.                                                          *)
Named(s, name) == \E i \in DOMAIN s : s[i] = name
Covered(left, name) == Named(left, name) \/ (name \in {"agents", "claude"} /\ Named(left, "docs"))
AtWork ==
  /\ run.state = "writing" <=> run.left # <<>>
  /\ run.phase = "none" <=> run.left = <<>>
  /\ run.phase = "read" => Head(run.left) \in {"mcp", "agents", "claude", "hermes"}
  /\ run.phase = "write" =>
       /\ Head(run.left) \in Targets
       /\ Head(run.left) = "toml" => ~TomlConflict(seen.toml)
       /\ Head(run.left) = "hooks" => ~HooksConflict(seen.hooks)
Ahead ==
  run.state \in {"writing", "done"} /\ run.conflicts = {} =>
    \A name \in Due(run.selected) : Settled(name) \/ Covered(run.left, name)
SetupInv == SetupTypeOK /\ AtWork /\ Ahead

(* What is named in two sequences one after the other is named in one.        *)
LEMMA Joined ==
  ASSUME NEW S, NEW s \in Seq(S), NEW t \in Seq(S)
  PROVE  /\ s \o t \in Seq(S) /\ Len(s \o t) = Len(s) + Len(t)
         /\ \A name : Named(s \o t, name) <=> Named(s, name) \/ Named(t, name)
<1>1. s \o t \in Seq(S) /\ Len(s \o t) = Len(s) + Len(t) OBVIOUS
<1>2. DOMAIN s = 1 .. Len(s) /\ DOMAIN t = 1 .. Len(t) /\ DOMAIN (s \o t) = 1 .. Len(s) + Len(t) BY <1>1
<1>3. \A i \in 1 .. Len(s) + Len(t) : (s \o t)[i] = IF i <= Len(s) THEN s[i] ELSE t[i - Len(s)] OBVIOUS
<1>4. ASSUME NEW name PROVE Named(s \o t, name) <=> Named(s, name) \/ Named(t, name)
  <2>1. ASSUME NEW i \in 1 .. Len(s) PROVE i \in 1 .. Len(s) + Len(t) /\ (s \o t)[i] = s[i] BY <1>3
  <2>2. ASSUME NEW i \in 1 .. Len(t)
        PROVE  i + Len(s) \in 1 .. Len(s) + Len(t) /\ (s \o t)[i + Len(s)] = t[i]
    <3>1. i + Len(s) \in 1 .. Len(s) + Len(t) /\ ~(i + Len(s) <= Len(s)) /\ (i + Len(s)) - Len(s) = i OBVIOUS
    <3> QED BY <1>3, <3>1
  <2>3. ASSUME NEW i \in 1 .. Len(s) + Len(t)
        PROVE  \/ i \in 1 .. Len(s) /\ (s \o t)[i] = s[i]
               \/ i - Len(s) \in 1 .. Len(t) /\ (s \o t)[i] = t[i - Len(s)]
    BY <1>3
  <2> QED BY <1>2, <2>1, <2>2, <2>3 DEF Named
<1> QED BY <1>1, <1>4

(* A run deals with each of the files that are due.                           *)
LEMMA Written ==
  ASSUME NEW selected \in SUBSET Runtimes
  PROVE  /\ WritesOf(selected) \in Seq(Tasks) /\ WritesOf(selected) # <<>> /\ Head(WritesOf(selected)) = "db"
         /\ \A name \in Due(selected) : Covered(WritesOf(selected), name)
<1> DEFINE a == <<"db">>
           b == IF "claude-code" \in selected THEN <<"mcp">> ELSE <<>>
           c == IF "codex" \in selected THEN <<"toml", "hooks">> ELSE <<>>
           d == <<"docs">>
           W == WritesOf(selected)
<1>1. a \in Seq(Tasks) /\ b \in Seq(Tasks) /\ c \in Seq(Tasks) /\ d \in Seq(Tasks)
  <2>1. {"db", "mcp", "toml", "hooks", "docs"} \subseteq Tasks BY DEF Tasks, Targets
  <2>2. <<>> \in Seq(Tasks) /\ \A x \in Tasks : <<x>> \in Seq(Tasks) OBVIOUS
  <2>3. \A x, y \in Tasks : <<x, y>> \in Seq(Tasks) OBVIOUS
  <2> QED BY <2>1, <2>2, <2>3
<1>2. ASSUME NEW name
      PROVE  /\ Named(a, name) <=> name = "db"
             /\ Named(b, name) <=> "claude-code" \in selected /\ name = "mcp"
             /\ Named(c, name) <=> "codex" \in selected /\ name \in {"toml", "hooks"}
             /\ Named(d, name) <=> name = "docs"
  BY DEF Named
<1>3. W = a \o b \o c \o d /\ Len(a) = 1 /\ a[1] = "db" BY DEF WritesOf
<1> HIDE DEF a, b, c, d, W
<1> DEFINE w4 == a \o b
           w5 == w4 \o c
           w6 == w5 \o d
<1> HIDE DEF w4, w5, w6
<1>4. /\ w4 \in Seq(Tasks) /\ Len(w4) >= 1 /\ w4[1] = "db"
      /\ \A name : Named(w4, name) <=> Named(a, name) \/ Named(b, name)
  <2>1. w4 \in Seq(Tasks) /\ \A name : Named(w4, name) <=> Named(a, name) \/ Named(b, name) BY <1>1, Joined DEF w4
  <2>2. Len(w4) >= 1 /\ w4[1] = "db"
    <3>1. \A s, t \in Seq(Tasks) : Len(s) = 1 => Len(s \o t) >= 1 /\ (s \o t)[1] = s[1] OBVIOUS
    <3> QED BY <1>1, <1>3, <3>1 DEF w4
  <2> QED BY <2>1, <2>2
<1>5. /\ w5 \in Seq(Tasks) /\ Len(w5) >= 1 /\ w5[1] = "db"
      /\ \A name : Named(w5, name) <=> Named(w4, name) \/ Named(c, name)
  BY <1>1, <1>4, Joined DEF w5
<1>6. /\ w6 \in Seq(Tasks) /\ Len(w6) >= 1 /\ w6[1] = "db"
      /\ \A name : Named(w6, name) <=> Named(w5, name) \/ Named(d, name)
  BY <1>1, <1>5, Joined DEF w6
<1> W = w6 BY <1>3 DEF w4, w5, w6
<1>7. ASSUME NEW name \in Due(selected) PROVE Covered(W, name)
  <2>1. \A other : Named(W, other) <=> Named(a, other) \/ Named(b, other) \/ Named(c, other) \/ Named(d, other)
    BY <1>4, <1>5, <1>6
  <2> QED BY <1>2, <2>1 DEF Covered, Due
<1>8. W # <<>> /\ Head(W) = "db" BY <1>6
<1> QED BY <1>6, <1>7, <1>8 DEF W

(* The documents that a look finds without their block are to be done.        *)
LEMMA Planned ==
  ASSUME NEW selected \in SUBSET Runtimes
  PROVE  /\ DocsOf(selected) \in Seq(Tasks)
         /\ ~HasLine(files.agents, "block") => Named(DocsOf(selected), "agents")
         /\ "claude-code" \in selected /\ ~HasLine(files.claude, "import") => Named(DocsOf(selected), "claude")
<1> DEFINE a == IF ~HasLine(files.agents, "block") THEN <<"agents">> ELSE <<>>
           b == IF "claude-code" \in selected /\ ~HasLine(files.claude, "import") THEN <<"claude">> ELSE <<>>
           c == IF "append-hermes" \in selected /\ files.hermes # Absent THEN <<"hermes">> ELSE <<>>
           w == a \o b
<1>1. a \in Seq(Tasks) /\ b \in Seq(Tasks) /\ c \in Seq(Tasks)
  <2>1. {"agents", "claude", "hermes"} \subseteq Tasks BY DEF Tasks, Targets
  <2>2. <<>> \in Seq(Tasks) /\ \A x \in Tasks : <<x>> \in Seq(Tasks) OBVIOUS
  <2> QED BY <2>1, <2>2
<1>2. /\ ~HasLine(files.agents, "block") => Named(a, "agents")
      /\ "claude-code" \in selected /\ ~HasLine(files.claude, "import") => Named(b, "claude")
  BY DEF Named
<1>3. DocsOf(selected) = w \o c BY DEF DocsOf
<1> HIDE DEF a, b, c, w
<1>4. w \in Seq(Tasks) /\ \A name : Named(w, name) <=> Named(a, name) \/ Named(b, name)
  BY <1>1, Joined DEF w
<1>5. w \o c \in Seq(Tasks) /\ \A name : Named(w \o c, name) <=> Named(w, name) \/ Named(c, name)
  BY <1>1, <1>4, Joined
<1> QED BY <1>2, <1>3, <1>4, <1>5

(* Counting the lines of some kind: none, or exactly one.                     *)
LEMMA Counted ==
  ASSUME NEW S, NEW t \in Seq(S), NEW kinds
  PROVE  /\ Count(t, kinds) \in Nat
         /\ Count(t, kinds) = 0 <=> \A i \in 1 .. Len(t) : t[i] \notin kinds
         /\ Count(t, kinds) = 1 <=> \E i \in 1 .. Len(t) : \A j \in 1 .. Len(t) : t[j] \in kinds <=> i = j
<1> DEFINE I == {i \in DOMAIN t : t[i] \in kinds}
<1>1. IsFiniteSet(1 .. Len(t)) BY FS_Interval
<1>2. I \subseteq 1 .. Len(t) /\ IsFiniteSet(I) BY <1>1, FS_Subset
<1>3. Cardinality(I) \in Nat BY <1>2, FS_CardinalityType
<1>4. Cardinality(I) = 0 <=> I = {} BY <1>2, FS_EmptySet
<1>5. Cardinality(I) = 1 <=> \E i \in 1 .. Len(t) : I = {i}
  BY <1>2, FS_Singleton, Zenon
<1> QED BY <1>3, <1>4, <1>5 DEF Count

\* A block between lines that hold no marker is replaced by itself.
(* A text with one block between other lines is proposed as it is.            *)
LEMMA BlockStays ==
  ASSUME NEW A \in Seq(TomlLines), NEW B \in Seq(TomlLines),
         \A i \in 1 .. Len(A) : A[i] \notin {"start", "end"},
         \A i \in 1 .. Len(B) : B[i] \notin {"start", "end"}
  PROVE  LET u == A \o Block \o B
         IN /\ Count(u, {"start"}) = 1 /\ MarkersAgree(u) /\ Proposed(u) = u
<1> DEFINE u == A \o Block \o B
           n == Len(A)
<1>1. Block \in Seq(TomlLines) /\ Len(Block) = 3 BY DEF Block, TomlLines
<1>2. u \in Seq(TomlLines) /\ Len(u) = n + 3 + Len(B) /\ n \in Nat /\ Len(B) \in Nat
  <2> DEFINE w == A \o Block
  <2>1. w \in Seq(TomlLines) /\ Len(w) = n + 3 BY <1>1, Joined
  <2> HIDE DEF w
  <2>2. w \o B \in Seq(TomlLines) /\ Len(w \o B) = n + 3 + Len(B) BY <2>1
  <2> QED BY <2>2 DEF w
<1>3. /\ \A i \in 1 .. n : u[i] = A[i]
      /\ u[n + 1] = "start" /\ u[n + 2] = "own" /\ u[n + 3] = "end"
      /\ \A i \in n + 4 .. Len(u) : u[i] = B[i - n - 3] /\ i - n - 3 \in 1 .. Len(B)
  BY <1>1, <1>2 DEF Block
<1> HIDE DEF u, n
<1>4. \A j \in 1 .. Len(u) : /\ u[j] \in {"start"} <=> n + 1 = j
                             /\ u[j] \in {"end"} <=> n + 3 = j
  <2> SUFFICES ASSUME NEW j \in 1 .. Len(u)
               PROVE  (u[j] \in {"start"} <=> n + 1 = j) /\ (u[j] \in {"end"} <=> n + 3 = j)
    OBVIOUS
  <2>1. j \in 1 .. n \/ j \in {n + 1, n + 2, n + 3} \/ j \in n + 4 .. Len(u) BY <1>2
  <2>2. j \in 1 .. n => u[j] \notin {"start", "end"} BY <1>3 DEF n
  <2>3. j \in n + 4 .. Len(u) => u[j] \notin {"start", "end"} BY <1>3
  <2> QED BY <1>2, <1>3, <2>1, <2>2, <2>3
<1>5. Count(u, {"start"}) = 1 /\ Count(u, {"end"}) = 1
  <2>1. n + 1 \in 1 .. Len(u) /\ n + 3 \in 1 .. Len(u) BY <1>2
  <2>2. \E i \in 1 .. Len(u) : \A j \in 1 .. Len(u) : u[j] \in {"start"} <=> i = j BY <1>4, <2>1
  <2>3. \E i \in 1 .. Len(u) : \A j \in 1 .. Len(u) : u[j] \in {"end"} <=> i = j BY <1>4, <2>1
  <2> QED BY <1>2, <2>2, <2>3, Counted
<1>6. At(u, "start") = n + 1 /\ At(u, "end") = n + 3
  <2>1. DOMAIN u = 1 .. Len(u) BY <1>2
  <2> QED BY <1>2, <1>4, <2>1 DEF At
<1>7. SubSeq(u, 1, n) = A /\ SubSeq(u, n + 4, Len(u)) = B
  BY <1>2, <1>3 DEF n
<1>8. Proposed(u) = u
  <2>1. Proposed(u) = SubSeq(u, 1, n) \o Block \o SubSeq(u, n + 4, Len(u))
    <3>1. (n + 1) - 1 = n /\ (n + 3) + 1 = n + 4 BY <1>2
    <3>2. Count(u, {"start"}) # 0 BY <1>5
    <3>3. Proposed(u) = SubSeq(u, 1, At(u, "start") - 1) \o Block \o SubSeq(u, At(u, "end") + 1, Len(u))
      BY <3>2, Zenon DEF Proposed
    <3> QED BY <1>6, <3>1, <3>3, Zenon
  <2> QED BY <1>7, <2>1 DEF u
<1>9. MarkersAgree(u) BY <1>2, <1>5, <1>6 DEF MarkersAgree
<1> QED BY <1>5, <1>8, <1>9 DEF u

LEMMA ProposedStays ==
  ASSUME NEW t \in Seq(TomlLines), ~TomlConflict(t)
  PROVE  Proposed(t) \in Seq(TomlLines) /\ TomlConfigured(Proposed(t))
<1>1. TomlLoads(t) /\ MarkersAgree(t) /\ TomlLoads(Proposed(t)) BY DEF TomlConflict
<1>2. \E A, B \in Seq(TomlLines) :
        /\ Proposed(t) = A \o Block \o B
        /\ \A i \in 1 .. Len(A) : A[i] \notin {"start", "end"}
        /\ \A i \in 1 .. Len(B) : B[i] \notin {"start", "end"}
  <2>1. CASE Count(t, {"start"}) = 0
    <3>1. Count(t, {"end"}) = 0 BY <1>1, <2>1 DEF MarkersAgree
    <3>2. \A i \in 1 .. Len(t) : t[i] \notin {"start", "end"} BY <2>1, <3>1, Counted
    <3>3. Proposed(t) = t \o Block \o <<>> /\ <<>> \in Seq(TomlLines) BY <2>1 DEF Proposed, Block
    <3>4. \A i \in 1 .. Len(<<>>) : <<>>[i] \notin {"start", "end"} OBVIOUS
    <3> QED BY <3>2, <3>3, <3>4, Zenon
  <2>2. CASE Count(t, {"start"}) # 0
    <3>1. Count(t, {"start"}) = 1 /\ Count(t, {"end"}) = 1 /\ At(t, "start") < At(t, "end")
      <4>1. Count(t, {"start"}) \in Nat BY Counted
      <4> QED BY <1>1, <2>2, <4>1 DEF MarkersAgree
    <3>2. PICK a \in 1 .. Len(t) : \A j \in 1 .. Len(t) : t[j] \in {"start"} <=> a = j BY <3>1, Counted
    <3>3. PICK e \in 1 .. Len(t) : \A j \in 1 .. Len(t) : t[j] \in {"end"} <=> e = j BY <3>1, Counted
    <3>4. DOMAIN t = 1 .. Len(t) OBVIOUS
    <3>5. At(t, "start") = a /\ At(t, "end") = e BY <3>2, <3>3, <3>4 DEF At
    <3>6. a < e BY <3>1, <3>5
    <3> DEFINE A == SubSeq(t, 1, a - 1)
               B == SubSeq(t, e + 1, Len(t))
    <3>7. Proposed(t) = A \o Block \o B BY <2>2, <3>5 DEF Proposed
    <3>8. A \in Seq(TomlLines) /\ Len(A) = a - 1 /\ \A i \in 1 .. Len(A) : A[i] = t[i] OBVIOUS
    <3>9. B \in Seq(TomlLines) /\ Len(B) = Len(t) - e /\ \A i \in 1 .. Len(B) : B[i] = t[i + e] OBVIOUS
    <3> HIDE DEF A, B
    <3>10. \A i \in 1 .. Len(A) : A[i] \notin {"start", "end"} BY <3>2, <3>3, <3>6, <3>8
    <3>11. \A i \in 1 .. Len(B) : B[i] \notin {"start", "end"} BY <3>2, <3>3, <3>6, <3>9
    <3> QED BY <3>7, <3>8, <3>9, <3>10, <3>11
  <2> QED BY <2>1, <2>2
<1>3. PICK A \in Seq(TomlLines), B \in Seq(TomlLines) :
        /\ Proposed(t) = A \o Block \o B
        /\ \A i \in 1 .. Len(A) : A[i] \notin {"start", "end"}
        /\ \A i \in 1 .. Len(B) : B[i] \notin {"start", "end"}
  BY <1>2
<1>4. /\ Count(Proposed(t), {"start"}) = 1 /\ MarkersAgree(Proposed(t)) /\ Proposed(Proposed(t)) = Proposed(t)
  BY <1>3, BlockStays
<1>5. Proposed(t) \in Seq(TomlLines) BY <1>3 DEF Block, TomlLines
<1> QED BY <1>1, <1>4, <1>5 DEF TomlConfigured, TomlConflict
LEMMA RefreshedStays ==
  ASSUME env = "plain", NEW event \in HookEvents, NEW group \in Groups
  PROVE  /\ Refreshed(event, group) \in Groups
         /\ Refreshed(event, Refreshed(event, group)) = Refreshed(event, group)
         /\ (\A i \in DOMAIN group.handlers : ~IsKarcHandler(group.handlers[i])) => Refreshed(event, group) = group
         /\ (\E i \in DOMAIN group.handlers : IsKarcHandler(group.handlers[i])) =>
              \E i \in DOMAIN Refreshed(event, group).handlers : IsKarcHandler(Refreshed(event, group).handlers[i])
<1> DEFINE hs == group.handlers
           gs == [i \in DOMAIN hs |-> IF IsKarcHandler(hs[i]) THEN "own" ELSE hs[i]]
<1>1. CASE \A i \in DOMAIN hs : ~IsKarcHandler(hs[i])
  BY <1>1 DEF Refreshed
<1>2. CASE \E i \in DOMAIN hs : IsKarcHandler(hs[i])
  <2>1. Refreshed(event, group) = [matcher |-> Matcher(event), handlers |-> gs] BY <1>2 DEF Refreshed
  <2>2. hs \in Seq({"user", "stale", "own"}) /\ DOMAIN hs = 1 .. Len(hs) BY DEF Groups
  <2>3. gs \in Seq({"user", "stale", "own"}) /\ DOMAIN gs = DOMAIN hs BY <2>2
  <2>4. \A h : IsKarcHandler(h) <=> h \in {"own", "stale"} BY DEF IsKarcHandler
  <2>5. \A i \in DOMAIN hs : gs[i] = IF IsKarcHandler(hs[i]) THEN "own" ELSE hs[i] OBVIOUS
  <2> HIDE DEF gs
  <2>6. \A i \in DOMAIN gs : IsKarcHandler(gs[i]) => gs[i] = "own" BY <2>3, <2>4, <2>5
  <2>7. \E i \in DOMAIN gs : IsKarcHandler(gs[i]) BY <1>2, <2>3, <2>4, <2>5
  <2>8. [i \in DOMAIN gs |-> IF IsKarcHandler(gs[i]) THEN "own" ELSE gs[i]] = gs BY <2>3, <2>6
  <2>9. Matcher(event) \in {"karc", "none"} BY DEF Matcher
  <2>10. Refreshed(event, Refreshed(event, group)) = [matcher |-> Matcher(event), handlers |-> gs]
    BY <2>1, <2>7, <2>8 DEF Refreshed
  <2> QED BY <1>2, <2>1, <2>3, <2>7, <2>9, <2>10 DEF Groups
<1> QED BY <1>1, <1>2

(* Nor does planning the groups of an event.                                  *)
LEMMA PlannedStays ==
  ASSUME env = "plain", NEW event \in HookEvents, NEW groups \in Seq(Groups)
  PROVE  /\ PlannedGroups(event, groups) \in Seq(Groups)
         /\ PlannedGroups(event, PlannedGroups(event, groups)) = PlannedGroups(event, groups)
<1> DEFINE Karc(g) == \E j \in DOMAIN g.handlers : IsKarcHandler(g.handlers[j])
           R(g) == Refreshed(event, g)
           G == PlannedGroups(event, groups)
<1>1. \A g \in Groups : R(g) \in Groups /\ R(R(g)) = R(g) /\ (~Karc(g) => R(g) = g) /\ (Karc(g) => Karc(R(g)))
  BY RefreshedStays
<1>2. \A gs \in Seq(Groups) : PlannedGroups(event, gs) =
        IF \E i \in 1 .. Len(gs) : Karc(gs[i]) THEN [i \in 1 .. Len(gs) |-> R(gs[i])]
        ELSE Append(gs, DesiredGroup(event))
  <2> SUFFICES ASSUME NEW gs \in Seq(Groups)
               PROVE  PlannedGroups(event, gs) =
                        IF \E i \in 1 .. Len(gs) : Karc(gs[i]) THEN [i \in 1 .. Len(gs) |-> R(gs[i])]
                        ELSE Append(gs, DesiredGroup(event))
    OBVIOUS
  <2>1. DOMAIN gs = 1 .. Len(gs) /\ \A i \in 1 .. Len(gs) : gs[i] \in Groups OBVIOUS
  <2>2. (\E i \in DOMAIN gs : R(gs[i]) # gs[i] \/ Karc(gs[i])) <=> \E i \in 1 .. Len(gs) : Karc(gs[i])
    BY <1>1, <2>1
  <2> QED BY <2>1, <2>2 DEF PlannedGroups
<1>3. DesiredGroup(event) \in Groups /\ Karc(DesiredGroup(event))
  BY DEF DesiredGroup, Groups, Matcher, IsKarcHandler
<1>4. R(DesiredGroup(event)) = DesiredGroup(event)
  BY <1>3 DEF DesiredGroup, Refreshed, IsKarcHandler
<1> HIDE DEF Karc, R
<1>5. /\ G \in Seq(Groups) /\ \E i \in 1 .. Len(G) : Karc(G[i])
      /\ \A i \in 1 .. Len(G) : R(G[i]) = G[i]
  <2>1. CASE \E i \in 1 .. Len(groups) : Karc(groups[i])
    <3>1. G = [i \in 1 .. Len(groups) |-> R(groups[i])] BY <1>2, <2>1
    <3>2. \A i \in 1 .. Len(groups) : groups[i] \in Groups OBVIOUS
    <3>3. G \in Seq(Groups) /\ Len(G) = Len(groups) BY <1>1, <3>1, <3>2
    <3> QED BY <1>1, <2>1, <3>1, <3>2, <3>3
  <2>2. CASE ~\E i \in 1 .. Len(groups) : Karc(groups[i])
    <3>1. G = Append(groups, DesiredGroup(event)) BY <1>2, <2>2
    <3> HIDE DEF G
    <3>2. /\ G \in Seq(Groups) /\ Len(G) = Len(groups) + 1 /\ G[Len(groups) + 1] = DesiredGroup(event)
          /\ \A i \in 1 .. Len(groups) : G[i] = groups[i] /\ groups[i] \in Groups
      BY <1>3, <3>1
    <3> QED BY <1>1, <1>3, <1>4, <2>2, <3>2
  <2> QED BY <2>1, <2>2
<1> HIDE DEF G
<1>6. PlannedGroups(event, G) = [i \in 1 .. Len(G) |-> R(G[i])] BY <1>2, <1>5
<1>7. PlannedGroups(event, G) = G BY <1>5, <1>6
<1> QED BY <1>5, <1>7 DEF G

LEMMA HooksStay ==
  ASSUME env = "plain", NEW f \in HookFiles
  PROVE  PlannedHooks(f) \in HookFiles /\ HooksConfigured(PlannedHooks(f))
<1> DEFINE h == PlannedHooks(f)
<1>1. /\ h = [form |-> "json", groups |-> [event \in HookEvents |-> PlannedGroups(event, f.groups[event])]]
      /\ \A event \in HookEvents : f.groups[event] \in Seq(Groups)
  BY DEF PlannedHooks, HookFiles
<1>2. h \in HookFiles BY <1>1, PlannedStays DEF HookFiles
<1>3. /\ PlannedHooks(h) = [form |-> "json", groups |-> [event \in HookEvents |-> PlannedGroups(event, h.groups[event])]]
      /\ h.form = "json"
      /\ h.groups = [event \in HookEvents |-> PlannedGroups(event, f.groups[event])]
  BY <1>1 DEF PlannedHooks
<1> HIDE DEF h
<1>4. \A event \in HookEvents : PlannedGroups(event, h.groups[event]) = h.groups[event]
  BY <1>1, <1>3, PlannedStays
<1>5. [event \in HookEvents |-> PlannedGroups(event, h.groups[event])] = h.groups BY <1>3, <1>4
<1> QED BY <1>1, <1>2, <1>3, <1>5 DEF HooksConfigured, h

(* A line that was added is there.                                            *)
LEMMA LinesStay ==
  ASSUME NEW f \in Seq(MarkLines), NEW line \in MarkLines
  PROVE  WithLine(f, line) \in Seq(MarkLines) /\ HasLine(WithLine(f, line), line)
<1>1. DOMAIN f = 1 .. Len(f) OBVIOUS
<1>2. Append(f, line) \in Seq(MarkLines) /\ Len(f) + 1 \in DOMAIN Append(f, line) /\ Append(f, line)[Len(f) + 1] = line
  OBVIOUS
<1>3. <<line>> \in Seq(MarkLines) /\ 1 \in DOMAIN <<line>> /\ <<line>>[1] = line OBVIOUS
<1> QED BY <1>2, <1>3 DEF WithLine, HasLine

(* The server file has the entry when it is written.                          *)
LEMMA McpSettles ==
  ASSUME NEW f \in McpFiles
  PROVE  ApplyMcp(f) \in McpFiles /\ McpHasKarc(ApplyMcp(f))
  BY DEF McpFiles, ApplyMcp, McpHasKarc
LEMMA SettledIs ==
  /\ Settled("db") = files.db
  /\ Settled("mcp") = McpHasKarc(files.mcp)
  /\ Settled("toml") = (~PlanTomlRaises(files.toml) /\ TomlConfigured(files.toml))
  /\ Settled("hooks") = HooksConfigured(files.hooks)
  /\ Settled("agents") = HasLine(files.agents, "block")
  /\ Settled("claude") = HasLine(files.claude, "import")
  /\ Settled("hermes") = HasLine(files.hermes, "block")
  BY DEF Settled

LEMMA TomlReads ==
  ASSUME env' = env, env = "plain", NEW t
  PROVE  ~PlanTomlRaises(t) /\ ~PlanTomlRaises(t)'
  BY DEF PlanTomlRaises

\* Whether a file is settled depends on that file alone.
(* What a file is settled by is the file itself.                              *)
LEMMA OthersStaySettled ==
  ASSUME env = "plain", env' = env, NEW name \in Targets, files'[name] = files[name]
  PROVE  Settled(name)' <=> Settled(name)
<1>1. CASE name = "db" BY <1>1 DEF Settled
<1>2. CASE name = "mcp" BY <1>2 DEF Settled, McpHasKarc
<1>3. CASE name = "toml"
  <2>1. files'.toml = files.toml BY <1>3
  <2>2. Settled("toml") <=> TomlConfigured(files.toml) BY SettledIs, TomlReads
  <2>3. Settled("toml")' <=> TomlConfigured(files'.toml)
    <3>1. Settled("toml")' <=> ~PlanTomlRaises(files.toml)' /\ TomlConfigured(files'.toml)
      BY DEF Settled
    <3>2. ~PlanTomlRaises(files.toml)' BY DEF PlanTomlRaises
    <3> QED BY <3>1, <3>2
  <2> QED BY <1>3, <2>1, <2>2, <2>3
<1>4. CASE name = "hooks"
  <2>1. files'.hooks = files.hooks BY <1>4
  <2>2. Settled("hooks") <=> HooksConfigured(files.hooks) BY SettledIs
  <2>3. Settled("hooks")' <=> HooksConfigured(files.hooks)' BY DEF Settled
  <2>4. HooksConfigured(files.hooks)' <=> HooksConfigured(files.hooks)
    BY <2>1 DEF HooksConfigured, PlannedHooks, PlannedGroups, Refreshed, IsKarcHandler
  <2> QED BY <1>4, <2>2, <2>3, <2>4
<1>5. CASE name = "agents" BY <1>5 DEF Settled, HasLine
<1>6. CASE name = "claude" BY <1>6 DEF Settled, HasLine
<1>7. CASE name = "hermes" BY <1>7 DEF Settled, HasLine
<1> QED BY <1>1, <1>2, <1>3, <1>4, <1>5, <1>6, <1>7 DEF Targets

ValuesOf(name) ==
  CASE name = "db" -> BOOLEAN
    [] name = "mcp" -> McpFiles
    [] name = "toml" -> Seq(TomlLines)
    [] name = "hooks" -> HookFiles
    [] OTHER -> Seq(MarkLines)

(* A value for each file, also after a write of one.                          *)
LEMMA FilesHold ==
  ASSUME NEW g \in AllFiles, NEW name \in Targets
  PROVE  g[name] \in ValuesOf(name) /\ DOMAIN g = Targets
  BY DEF AllFiles, ValuesOf, Targets

LEMMA FilesStay ==
  ASSUME NEW g \in AllFiles, NEW name \in Targets, NEW content \in ValuesOf(name)
  PROVE  [g EXCEPT ![name] = content] \in AllFiles
<1>1. CASE name = "db" BY <1>1 DEF AllFiles, ValuesOf
<1>2. CASE name = "mcp" BY <1>2 DEF AllFiles, ValuesOf
<1>3. CASE name = "toml" BY <1>3 DEF AllFiles, ValuesOf
<1>4. CASE name = "hooks" BY <1>4 DEF AllFiles, ValuesOf
<1>5. CASE name = "agents" BY <1>5 DEF AllFiles, ValuesOf
<1>6. CASE name = "claude" BY <1>6 DEF AllFiles, ValuesOf
<1>7. CASE name = "hermes" BY <1>7 DEF AllFiles, ValuesOf
<1> QED BY <1>1, <1>2, <1>3, <1>4, <1>5, <1>6, <1>7 DEF Targets

LEMMA NothingRead == NoFiles \in AllFiles
<1>1. NoGroups \in [HookEvents -> Seq(Groups)] BY DEF NoGroups
<1>2. [form |-> "absent", groups |-> NoGroups] \in HookFiles BY <1>1 DEF HookFiles
<1>3. Absent \in Seq(MarkLines) BY DEF Absent, MarkLines
<1>4. [form |-> "absent", servers |-> {}] \in McpFiles BY DEF McpFiles
<1> QED BY <1>2, <1>3, <1>4 DEF NoFiles, AllFiles

(* A write of what was planned without a conflict settles its file.           *)
LEMMA WriteSettles ==
  ASSUME SetupTypeOK, env' = env, NEW name \in Targets, files'[name] = Applied(name),
         name = "toml" => ~TomlConflict(seen.toml), name = "hooks" => ~HooksConflict(seen.hooks)
  PROVE  Applied(name) \in ValuesOf(name) /\ Settled(name)'
<1> USE DEF SetupTypeOK, AllFiles
<1>1. CASE name = "db"
  BY <1>1 DEF Applied, ValuesOf, Settled
<1>2. CASE name = "mcp"
  <2>1. Applied(name) = ApplyMcp(seen.mcp) BY <1>2 DEF Applied
  <2>2. Applied(name) \in McpFiles /\ McpHasKarc(Applied(name)) BY <2>1, McpSettles
  <2>3. files'.mcp = Applied(name) BY <1>2
  <2> QED BY <1>2, <2>2, <2>3 DEF ValuesOf, Settled, McpHasKarc
<1>3. CASE name = "toml"
  <2>1. Applied(name) = Proposed(seen.toml) BY <1>3 DEF Applied
  <2>2. Applied(name) \in Seq(TomlLines) /\ TomlConfigured(Applied(name)) BY <1>3, <2>1, ProposedStays
  <2>3. files'.toml = Applied(name) BY <1>3
  <2>4. Settled("toml")' <=> ~PlanTomlRaises(files.toml)' /\ TomlConfigured(files'.toml) BY DEF Settled
  <2>5. ~PlanTomlRaises(files.toml)' BY DEF PlanTomlRaises
  <2>6. ValuesOf(name) = Seq(TomlLines) BY <1>3 DEF ValuesOf
  <2> QED BY <1>3, <2>2, <2>3, <2>4, <2>5, <2>6
<1>4. CASE name = "hooks"
  <2>1. Applied(name) = PlannedHooks(seen.hooks) BY <1>4 DEF Applied
  <2>2. Applied(name) \in HookFiles /\ HooksConfigured(Applied(name)) BY <2>1, HooksStay
  <2>3. files'.hooks = Applied(name) BY <1>4
  <2>4. Settled("hooks")' <=> HooksConfigured(files.hooks)' BY DEF Settled
  <2>5. HooksConfigured(files.hooks)' <=> HooksConfigured(files'.hooks)
    BY DEF HooksConfigured, PlannedHooks, PlannedGroups, Refreshed, IsKarcHandler
  <2>6. ValuesOf(name) = HookFiles BY <1>4 DEF ValuesOf
  <2> QED BY <1>4, <2>2, <2>3, <2>4, <2>5, <2>6
<1>5. ASSUME name \in {"agents", "hermes"} PROVE Applied(name) \in ValuesOf(name) /\ Settled(name)'
  <2>1. seen[name] \in Seq(MarkLines) /\ "block" \in MarkLines BY <1>5 DEF MarkLines
  <2>2. Applied(name) = WithLine(seen[name], "block") BY <1>5 DEF Applied
  <2>3. Applied(name) \in Seq(MarkLines) /\ HasLine(Applied(name), "block") BY <2>1, <2>2, LinesStay
  <2>4. Settled(name)' <=> HasLine(files'[name], "block") BY <1>5 DEF Settled, HasLine
  <2>5. ValuesOf(name) = Seq(MarkLines) BY <1>5 DEF ValuesOf
  <2> QED BY <2>3, <2>4, <2>5
<1>6. CASE name = "claude"
  <2>1. seen.claude \in Seq(MarkLines) /\ "import" \in MarkLines BY DEF MarkLines
  <2>2. Applied(name) = WithLine(seen.claude, "import") BY <1>6 DEF Applied
  <2>3. Applied(name) \in Seq(MarkLines) /\ HasLine(Applied(name), "import") BY <2>1, <2>2, LinesStay
  <2>4. Settled(name)' <=> HasLine(files'[name], "import") BY <1>6 DEF Settled, HasLine
  <2>5. ValuesOf(name) = Seq(MarkLines) BY <1>6 DEF ValuesOf
  <2> QED BY <2>3, <2>4, <2>5
<1> QED BY <1>1, <1>2, <1>3, <1>4, <1>5, <1>6 DEF Targets

-----------------------------------------------------------------------------
(* How a run goes on: it stops, it passes to its next file, or it goes on to  *)
(* write the file it has read.                                                *)
LEMMA StopKeeps ==
  ASSUME SetupInv, FilesOK', env' = env, NEW state \in {"raised", "killed", "torn"}, Stop(state)
  PROVE  SetupInv'
<1>1. Idle \in Runs /\ Idle.left = <<>> /\ Idle.phase = "none" BY DEF Idle, Runs, RunStates
<1>2. run' \in Runs /\ run'.left = <<>> /\ run'.phase = "none" /\ run'.state = state /\ seen' = NoFiles
  BY <1>1 DEF Stop, Runs, RunStates
<1>3. SetupTypeOK' BY <1>2, NothingRead DEF SetupInv, SetupTypeOK
<1> QED BY <1>2, <1>3 DEF SetupInv, AtWork, Ahead

LEMMA PhaseIs ==
  ASSUME NEW left \in Seq(Tasks)
  PROVE  /\ Phase(left) \in {"none", "look", "read", "write"} /\ (Phase(left) = "none" <=> left = <<>>)
         /\ Phase(left) = "read" => Head(left) \in {"agents", "claude", "hermes"}
         /\ Phase(left) = "write" => Head(left) = "db"
<1>1. CASE left = <<>> BY <1>1 DEF Phase
<1>2. CASE left # <<>>
  <2>1. Head(left) \in Tasks BY <1>2
  <2>2. CASE Head(left) = "db" BY <1>2, <2>2 DEF Phase
  <2>3. CASE Head(left) \in {"agents", "claude", "hermes"} BY <1>2, <2>3 DEF Phase
  <2>4. CASE Head(left) \notin {"db", "agents", "claude", "hermes"} BY <1>2, <2>4 DEF Phase
  <2> QED BY <2>2, <2>3, <2>4
<1> QED BY <1>1, <1>2

LEMMA GoOnKeeps ==
  ASSUME SetupInv, FilesOK', env' = env, run.left # <<>>,
         NEW left \in Seq(Tasks), NEW conflicts \in SUBSET (Targets \cup {"edited"}), NEW read \in AllFiles,
         GoOn(left, conflicts, read),
         conflicts = {} => \A name \in Due(run.selected) : Settled(name)' \/ Covered(left, name)
  PROVE  SetupInv'
<1>1. run \in Runs /\ run.state = "writing" BY DEF SetupInv, SetupTypeOK, AtWork
<1> DEFINE state == IF left = <<>> THEN "done" ELSE "writing"
<1>2. Phase(left) \in {"none", "look", "read", "write"} BY PhaseIs
<1>3. run' = [run EXCEPT !.left = left, !.phase = Phase(left), !.conflicts = conflicts, !.state = state]
  BY <1>1 DEF GoOn
<1>4. state \in RunStates /\ (state = "writing" <=> left # <<>>) BY DEF RunStates
<1> HIDE DEF state
<1>5. /\ run' \in Runs /\ run'.left = left /\ run'.phase = Phase(left) /\ run'.conflicts = conflicts
      /\ run'.state = state /\ run'.selected = run.selected
  BY <1>1, <1>2, <1>3, <1>4 DEF Runs
<1>6. seen' \in AllFiles BY NothingRead DEF GoOn
<1>7. SetupTypeOK' BY <1>5, <1>6 DEF SetupInv, SetupTypeOK
<1>8. AtWork' BY <1>4, <1>5, PhaseIs DEF AtWork, Targets
<1>9. Ahead' BY <1>5 DEF Ahead
<1> QED BY <1>7, <1>8, <1>9 DEF SetupInv

LEMMA TurnKeeps ==
  ASSUME SetupInv, files' = files, env' = env, run.left # <<>>, NEW phase \in {"read", "write"},
         run' = [run EXCEPT !.phase = phase], seen' \in AllFiles,
         phase = "read" => Head(run.left) \in {"mcp", "agents", "claude", "hermes"},
         phase = "write" => /\ Head(run.left) \in Targets
                            /\ Head(run.left) = "toml" => ~TomlConflict(seen'.toml)
                            /\ Head(run.left) = "hooks" => ~HooksConflict(seen'.hooks)
  PROVE  SetupInv'
<1>1. run \in Runs BY DEF SetupInv, SetupTypeOK
<1>2. /\ run' \in Runs /\ run'.left = run.left /\ run'.phase = phase /\ run'.conflicts = run.conflicts
      /\ run'.state = run.state /\ run'.selected = run.selected
  BY <1>1 DEF Runs
<1>3. SetupTypeOK' BY <1>2 DEF SetupInv, SetupTypeOK, FilesOK
<1>4. AtWork' BY <1>2 DEF SetupInv, AtWork, TomlConflict, HooksConflict
<1>5. \A name \in Targets : Settled(name)' <=> Settled(name) BY OthersStaySettled DEF SetupInv, SetupTypeOK
<1>6. Due(run.selected) \subseteq Targets BY DEF Due, Targets
<1>7. Ahead' BY <1>2, <1>5, <1>6 DEF SetupInv, Ahead
<1> QED BY <1>3, <1>4, <1>7 DEF SetupInv

(* What is named in a sequence is its head or in its tail.                    *)
LEMMA TailNames ==
  ASSUME NEW s \in Seq(Tasks), s # <<>>
  PROVE  /\ Tail(s) \in Seq(Tasks) /\ Head(s) \in Tasks
         /\ \A name : Named(s, name) => name = Head(s) \/ Named(Tail(s), name)
<1>1. /\ Tail(s) \in Seq(Tasks) /\ Len(Tail(s)) = Len(s) - 1 /\ Len(s) \in Nat \ {0} /\ DOMAIN s = 1 .. Len(s)
      /\ \A i \in 1 .. Len(s) - 1 : Tail(s)[i] = s[i + 1]
      /\ s[1] = Head(s) /\ Head(s) \in Tasks
  OBVIOUS
<1>2. ASSUME NEW name, Named(s, name), name # Head(s) PROVE Named(Tail(s), name)
  <2>1. PICK i \in 1 .. Len(s) : s[i] = name BY <1>1, <1>2 DEF Named
  <2>2. i # 1 BY <1>1, <1>2, <2>1
  <2>3. i - 1 \in 1 .. Len(s) - 1 /\ (i - 1) + 1 = i BY <1>1, <2>2
  <2>4. Tail(s)[i - 1] = name /\ i - 1 \in DOMAIN Tail(s) BY <1>1, <2>1, <2>3
  <2> QED BY <2>4 DEF Named
<1> QED BY <1>1, <1>2

(* A file passed by that is settled, or not due, is one less to deal with.    *)
LEMMA PassKeeps ==
  ASSUME SetupInv, FilesOK', env' = env, run.left # <<>>, NEW read \in AllFiles,
         GoOn(Tail(run.left), run.conflicts, read),
         NEW first \in Targets, first = Head(run.left), first = "hermes" \/ Settled(first)',
         \A other \in Targets \ {first} : files'[other] = files[other]
  PROVE  SetupInv'
<1>1. run \in Runs /\ run.left \in Seq(Tasks) /\ run.conflicts \in SUBSET (Targets \cup {"edited"}) /\ env = "plain"
      /\ run.state = "writing"
  BY DEF SetupInv, SetupTypeOK, AtWork, Runs
<1>2. /\ Tail(run.left) \in Seq(Tasks)
      /\ \A name : Named(run.left, name) => name = first \/ Named(Tail(run.left), name)
  BY <1>1, TailNames
<1>3. ASSUME run.conflicts = {}, NEW name \in Due(run.selected)
      PROVE  Settled(name)' \/ Covered(Tail(run.left), name)
  <2>1. name \in Targets \ {"hermes"} BY DEF Due, Targets
  <2>2. CASE name = first BY <2>1, <2>2
  <2>3. CASE name # first
    <3>1. Settled(name)' <=> Settled(name) BY <1>1, <2>1, <2>3, OthersStaySettled
    <3>2. Settled(name) \/ Covered(run.left, name) BY <1>1, <1>3 DEF SetupInv, Ahead
    <3>3. Covered(run.left, name) => Covered(Tail(run.left), name)
      <4>1. first # "docs" BY DEF Targets
      <4> QED BY <1>2, <2>3, <4>1 DEF Covered
    <3> QED BY <3>1, <3>2, <3>3
  <2> QED BY <2>2, <2>3
<1> QED BY <1>1, <1>2, <1>3, GoOnKeeps

(* One lemma for each action of Setup.                                        *)
LEMMA StartKeeps ==
  ASSUME SetupInv, NEW selected \in SUBSET Runtimes, Start(selected)
  PROVE  SetupInv'
<1> DEFINE W == WritesOf(selected)
<1>1. /\ run' = [left |-> W, selected |-> selected, phase |-> "write", conflicts |-> {}, state |-> "writing"]
      /\ files' = files /\ env' = env /\ seen' = seen
  BY DEF Start
<1>2. W \in Seq(Tasks) /\ W # <<>> /\ Head(W) = "db" /\ \A name \in Due(selected) : Covered(W, name) BY Written
<1> HIDE DEF W
<1>3. run' \in Runs BY <1>1, <1>2 DEF Runs, RunStates
<1>4. SetupTypeOK' BY <1>1, <1>3 DEF SetupInv, SetupTypeOK, FilesOK
<1>5. run'.state = "writing" /\ run'.left = W /\ run'.selected = selected /\ run'.phase = "write" BY <1>1
<1>6. AtWork' BY <1>2, <1>5 DEF AtWork, Targets
<1>7. Ahead' BY <1>2, <1>5 DEF Ahead
<1> QED BY <1>4, <1>6, <1>7 DEF SetupInv

LEMMA LookKeeps ==
  ASSUME SetupInv, Look
  PROVE  SetupInv'
<1>1. /\ run \in Runs /\ FilesOK /\ seen \in AllFiles /\ env = "plain" /\ run.phase = "look"
      /\ env' = env /\ files' = files
  BY DEF SetupInv, SetupTypeOK, Look
<1>2. /\ run.left \in Seq(Tasks) /\ run.left # <<>> /\ run.state = "writing"
      /\ run.conflicts \in SUBSET (Targets \cup {"edited"}) /\ run.selected \in SUBSET Runtimes
  BY <1>1 DEF SetupInv, AtWork, Runs
<1>0. PICK name \in Tasks : name = Head(run.left) BY <1>2, TailNames
<1>3. /\ Tail(run.left) \in Seq(Tasks)
      /\ \A other : Named(run.left, other) => other = name \/ Named(Tail(run.left), other)
  BY <1>0, <1>2, TailNames
<1>4. FilesOK' BY <1>1 DEF FilesOK
<1>5. \A other \in Targets : Settled(other)' <=> Settled(other) BY <1>1, OthersStaySettled
<1>6. \/ Plan(name) = "raises" /\ Stop("raised")
      \/ Plan(name) = "conflict" /\ GoOn(Tail(run.left), run.conflicts \cup {name}, seen)
      \/ Plan(name) = "nothing" /\ GoOn(Tail(run.left), run.conflicts, seen)
      \/ /\ Plan(name) = "change" /\ name # "docs"
         /\ run' = [run EXCEPT !.phase = IF name = "mcp" THEN "read" ELSE "write"]
         /\ seen' = [seen EXCEPT ![name] = files[name]]
      \/ /\ name = "docs"
         /\ GoOn(DocsOf(run.selected) \o Tail(run.left), run.conflicts,
                 [seen EXCEPT !.agents = files.agents, !.claude = files.claude, !.hermes = files.hermes])
  BY <1>0 DEF Look
<1>7. CASE Plan(name) = "raises" /\ Stop("raised") BY <1>1, <1>4, <1>7, StopKeeps
<1>8. CASE Plan(name) = "conflict" /\ GoOn(Tail(run.left), run.conflicts \cup {name}, seen)
  <2>1. name \in Targets BY <1>8 DEF Plan, Conflicts, Targets
  <2>2. run.conflicts \cup {name} \in SUBSET (Targets \cup {"edited"}) /\ run.conflicts \cup {name} # {} BY <1>2, <2>1
  <2> QED BY <1>1, <1>2, <1>3, <1>4, <1>8, <2>2, GoOnKeeps
<1>9. CASE Plan(name) = "nothing" /\ GoOn(Tail(run.left), run.conflicts, seen)
  <2>1. ~Raises(name) /\ Configured(name) BY <1>9 DEF Plan
  <2>2. name \in Targets /\ Settled(name) BY <2>1 DEF Configured, Raises, Settled, Targets
  <2>3. Settled(name)' BY <1>5, <2>2
  <2> QED BY <1>0, <1>1, <1>2, <1>4, <1>9, <2>2, <2>3, PassKeeps
<1>10. CASE /\ Plan(name) = "change" /\ name # "docs"
            /\ run' = [run EXCEPT !.phase = IF name = "mcp" THEN "read" ELSE "write"]
            /\ seen' = [seen EXCEPT ![name] = files[name]]
  <2>1. name \in Targets BY <1>3, <1>10 DEF Tasks
  <2>2. files[name] \in ValuesOf(name) BY <1>1, <2>1, FilesHold DEF FilesOK
  <2>3. seen' \in AllFiles /\ seen'[name] = files[name]
    <3>1. PICK content : content = files[name] OBVIOUS
    <3>2. content \in ValuesOf(name) /\ seen' = [seen EXCEPT ![name] = content] BY <1>10, <2>2, <3>1
    <3>3. seen \in AllFiles /\ name \in Targets BY <1>1, <2>1
    <3>4. seen' \in AllFiles BY <3>2, <3>3, FilesStay
    <3>5. seen'[name] = content BY <3>2, <3>3, FilesHold
    <3> QED BY <3>1, <3>4, <3>5
  <2>4. ~Conflicts(name) BY <1>10 DEF Plan
  <2>5. (name = "toml" => ~TomlConflict(seen'.toml)) /\ (name = "hooks" => ~HooksConflict(seen'.hooks))
    BY <2>3, <2>4 DEF Conflicts
  <2>6. CASE name = "mcp"
    <3>1. run' = [run EXCEPT !.phase = "read"] BY <1>10, <2>6
    <3> QED BY <1>0, <1>1, <1>2, <2>3, <2>6, <3>1, TurnKeeps
  <2>7. CASE name # "mcp"
    <3>1. run' = [run EXCEPT !.phase = "write"] BY <1>10, <2>7
    <3> QED BY <1>0, <1>1, <1>2, <2>1, <2>3, <2>5, <3>1, TurnKeeps
  <2> QED BY <2>6, <2>7
<1>11. CASE /\ name = "docs"
            /\ GoOn(DocsOf(run.selected) \o Tail(run.left), run.conflicts,
                    [seen EXCEPT !.agents = files.agents, !.claude = files.claude, !.hermes = files.hermes])
  <2> DEFINE read == [seen EXCEPT !.agents = files.agents, !.claude = files.claude, !.hermes = files.hermes]
             D == DocsOf(run.selected)
  <2>1. read \in AllFiles BY <1>1 DEF FilesOK, AllFiles
  <2>2. /\ D \in Seq(Tasks)
        /\ ~HasLine(files.agents, "block") => Named(D, "agents")
        /\ "claude-code" \in run.selected /\ ~HasLine(files.claude, "import") => Named(D, "claude")
    BY <1>2, Planned
  <2>3. GoOn(D \o Tail(run.left), run.conflicts, read) BY <1>11
  <2> HIDE DEF D, read
  <2>4. /\ D \o Tail(run.left) \in Seq(Tasks)
        /\ \A other : Named(D \o Tail(run.left), other) <=> Named(D, other) \/ Named(Tail(run.left), other)
    BY <1>3, <2>2, Joined
  <2>5. ASSUME run.conflicts = {}, NEW other \in Due(run.selected)
        PROVE  Settled(other)' \/ Covered(D \o Tail(run.left), other)
    <3>1. other \in Targets /\ other # "docs" BY DEF Due, Targets
    <3>2. Settled(other) \/ Covered(run.left, other) BY <1>2, <2>5 DEF SetupInv, Ahead
    <3>3. CASE Settled(other) BY <1>5, <3>1, <3>3
    <3>4. CASE Named(run.left, other) BY <1>3, <1>11, <2>4, <3>1, <3>4 DEF Covered
    <3>5. CASE other = "agents"
      <4>1. HasLine(files.agents, "block") => Settled(other) BY <3>5, SettledIs
      <4> QED BY <1>5, <2>2, <2>4, <3>1, <3>5, <4>1 DEF Covered
    <3>6. CASE other = "claude"
      <4>1. HasLine(files.claude, "import") => Settled(other) BY <3>6, SettledIs
      <4>2. "claude-code" \in run.selected BY <2>5, <3>6 DEF Due
      <4> QED BY <1>5, <2>2, <2>4, <3>1, <3>6, <4>1, <4>2 DEF Covered
    <3> QED BY <3>2, <3>3, <3>4, <3>5, <3>6 DEF Covered
  <2> QED BY <1>1, <1>2, <1>4, <2>1, <2>3, <2>4, <2>5, GoOnKeeps
<1> QED BY <1>6, <1>7, <1>8, <1>9, <1>10, <1>11

LEMMA RereadKeeps ==
  ASSUME SetupInv, Read
  PROVE  SetupInv'
<1>0. PICK name : name = Head(run.left) OBVIOUS
<1> DEFINE nothing == name = "hermes" /\ HasLine(files.hermes, "block")
<1>1. /\ run \in Runs /\ FilesOK /\ seen \in AllFiles /\ env = "plain" /\ run.phase = "read"
      /\ env' = env /\ files' = files
  BY DEF SetupInv, SetupTypeOK, Read
<1>2. run.left # <<>> /\ name \in {"mcp", "agents", "claude", "hermes"} BY <1>0, <1>1 DEF SetupInv, AtWork
<1>3. FilesOK' BY <1>1 DEF FilesOK
<1>4. \/ Stop("raised")
      \/ nothing /\ GoOn(Tail(run.left), run.conflicts, seen)
      \/ /\ run' = [run EXCEPT !.phase = "write"]
         /\ seen' = IF name # "mcp" /\ seen[name] = Absent THEN seen ELSE [seen EXCEPT ![name] = files[name]]
  BY <1>0 DEF Read
<1>5. CASE Stop("raised") BY <1>1, <1>3, <1>5, StopKeeps
<1>6. CASE nothing /\ GoOn(Tail(run.left), run.conflicts, seen)
  BY <1>0, <1>1, <1>2, <1>3, <1>6, PassKeeps DEF Targets
<1>7. CASE /\ run' = [run EXCEPT !.phase = "write"]
           /\ seen' = IF name # "mcp" /\ seen[name] = Absent THEN seen ELSE [seen EXCEPT ![name] = files[name]]
  <2>1. name \in Targets /\ name # "toml" /\ name # "hooks" BY <1>2 DEF Targets
  <2>2. files[name] \in ValuesOf(name) BY <1>1, <2>1, FilesHold DEF FilesOK
  <2>3. seen' \in AllFiles BY <1>1, <1>7, <2>1, <2>2, FilesStay
  <2> QED BY <1>0, <1>1, <1>2, <1>7, <2>1, <2>3, TurnKeeps
<1> QED BY <1>4, <1>5, <1>6, <1>7

LEMMA WriteKeeps ==
  ASSUME SetupInv, Write
  PROVE  SetupInv'
<1>0. PICK name : name = Head(run.left) OBVIOUS
<1>1. /\ SetupTypeOK /\ FilesOK /\ seen \in AllFiles /\ env = "plain" /\ env' = env /\ run.phase = "write"
      /\ files' = [files EXCEPT ![name] = Applied(name)]
      /\ GoOn(Tail(run.left), run.conflicts, [seen EXCEPT ![name] = NoFiles[name]])
  BY <1>0 DEF SetupInv, SetupTypeOK, Write
<1>2. /\ run.left # <<>> /\ name \in Targets
      /\ name = "toml" => ~TomlConflict(seen.toml)
      /\ name = "hooks" => ~HooksConflict(seen.hooks)
  BY <1>0, <1>1 DEF SetupInv, AtWork
<1>3. files'[name] = Applied(name) BY <1>1, <1>2, FilesHold DEF FilesOK
<1>4. Applied(name) \in ValuesOf(name) /\ Settled(name)' BY <1>1, <1>2, <1>3, WriteSettles
<1>5. FilesOK' /\ \A other \in Targets \ {name} : files'[other] = files[other]
  <2>0. PICK content : content = Applied(name) OBVIOUS
  <2>1. content \in ValuesOf(name) /\ files' = [files EXCEPT ![name] = content] BY <1>1, <1>4, <2>0
  <2>2. files \in AllFiles /\ name \in Targets BY <1>1, <1>2 DEF FilesOK
  <2>3. files' \in AllFiles BY <2>1, <2>2, FilesStay
  <2>4. \A other \in Targets \ {name} : files'[other] = files[other] BY <2>1, <2>2, FilesHold
  <2> QED BY <2>3, <2>4 DEF FilesOK
<1>6. NoFiles[name] \in ValuesOf(name) BY <1>2, NothingRead, FilesHold
<1>7. [seen EXCEPT ![name] = NoFiles[name]] \in AllFiles BY <1>1, <1>2, <1>6, FilesStay
<1> QED BY <1>0, <1>1, <1>2, <1>4, <1>5, <1>7, PassKeeps

LEMMA KillKeeps ==
  ASSUME SetupInv, Kill
  PROVE  SetupInv'
<1>1. Stop("killed") /\ files' = files /\ env' = env BY DEF Kill
<1>2. FilesOK' BY <1>1 DEF SetupInv, SetupTypeOK, FilesOK
<1> QED BY <1>1, <1>2, StopKeeps

LEMMA TearKeeps ==
  ASSUME SetupInv, KillInWrite
  PROVE  SetupInv'
<1> DEFINE name == Head(run.left)
<1>1. /\ run.phase = "write" /\ name # "db" /\ files' = [files EXCEPT ![name] = Torn(name)]
      /\ Stop("torn") /\ env' = env
  BY DEF KillInWrite
<1>2. name \in Targets /\ FilesOK BY <1>1 DEF SetupInv, SetupTypeOK, AtWork
<1> HIDE DEF name
<1>3. Torn(name) \in ValuesOf(name)
  <2>1. CASE name = "mcp" BY <2>1 DEF Torn, ValuesOf, McpFiles
  <2>2. CASE name = "hooks" BY <2>2 DEF Torn, ValuesOf, HookFiles, NoGroups
  <2>3. CASE name = "toml" BY <2>3 DEF Torn, ValuesOf
  <2>4. CASE name \in {"agents", "claude", "hermes"}
    <3>1. Torn(name) = <<>> /\ ValuesOf(name) = Seq(MarkLines) BY <2>4 DEF Torn, ValuesOf
    <3> QED BY <3>1
  <2> QED BY <1>1, <1>2, <2>1, <2>2, <2>3, <2>4 DEF Targets
<1>4. FilesOK' BY <1>1, <1>2, <1>3, FilesStay DEF FilesOK
<1> QED BY <1>1, <1>4, StopKeeps

LEMMA EditedIs ==
  ASSUME NEW name \in Files, NEW content \in EditsOf(name)
  PROVE  content \in ValuesOf(name) /\ name \in Targets
<1>1. CASE name = "mcp" BY <1>1 DEF EditsOf, ValuesOf, McpFiles, Targets
<1>2. CASE name = "toml"
  <2>1. /\ ValuesOf(name) = Seq(TomlLines) /\ name \in Targets
        /\ content \in {<<>>, <<"user">>, <<"user", "table">>, <<"bad">>, <<"start", "stale", "end", "user">>,
                        <<"user", "start", "own">>, <<"start", "end", "table">>, <<"end", "start">>}
    BY <1>2 DEF EditsOf, ValuesOf, Targets
  <2>2. {"user", "table", "bad", "start", "stale", "end", "own"} \subseteq TomlLines BY DEF TomlLines
  <2>3. /\ <<>> \in Seq(TomlLines) /\ \A v \in TomlLines : <<v>> \in Seq(TomlLines)
        /\ \A v, w \in TomlLines : <<v, w>> \in Seq(TomlLines)
    OBVIOUS
  <2>4. \A v, w, x \in TomlLines : <<v, w, x>> \in Seq(TomlLines) OBVIOUS
  <2>5. \A v, w, x, y \in TomlLines : <<v, w, x, y>> \in Seq(TomlLines) OBVIOUS
  <2> QED BY <2>1, <2>2, <2>3, <2>4, <2>5
<1>3. CASE name = "hooks"
  <2>1. ValuesOf(name) = HookFiles /\ name \in Targets BY <1>3 DEF ValuesOf, Targets
  <2>2. NoGroups \in [HookEvents -> Seq(Groups)] BY DEF NoGroups
  <2>3. \A hs \in {<<"user">>, <<"stale", "user">>, <<"own">>} : hs \in Seq({"user", "stale", "own"})
    <3>1. ASSUME NEW S PROVE /\ \A v \in S : <<v>> \in Seq(S)
                             /\ \A v, w \in S : <<v, w>> \in Seq(S)
      OBVIOUS
    <3> QED BY <3>1
  <2>4. \A hs \in Seq({"user", "stale", "own"}) : <<[matcher |-> "user", handlers |-> hs]>> \in Seq(Groups) BY DEF Groups
  <2>5. \A gs \in Seq(Groups) : [NoGroups EXCEPT !["tool"] = gs] \in [HookEvents -> Seq(Groups)] BY <2>2
  <2>6. \/ content \in {[form |-> form, groups |-> NoGroups] : form \in {"absent", "broken", "odd", "json"}}
        \/ \E hs \in {<<"user">>, <<"stale", "user">>, <<"own">>} :
             content = [form |-> "json", groups |-> [NoGroups EXCEPT !["tool"] = <<[matcher |-> "user", handlers |-> hs]>>]]
    BY <1>3 DEF EditsOf
  <2>7. CASE content \in {[form |-> form, groups |-> NoGroups] : form \in {"absent", "broken", "odd", "json"}}
    BY <2>1, <2>2, <2>7 DEF HookFiles
  <2>8. ASSUME NEW hs \in {<<"user">>, <<"stale", "user">>, <<"own">>},
               content = [form |-> "json", groups |-> [NoGroups EXCEPT !["tool"] = <<[matcher |-> "user", handlers |-> hs]>>]]
        PROVE  content \in HookFiles
    <3> DEFINE gs == <<[matcher |-> "user", handlers |-> hs]>>
    <3>1. gs \in Seq(Groups) BY <2>3, <2>4
    <3> HIDE DEF gs
    <3>2. [NoGroups EXCEPT !["tool"] = gs] \in [HookEvents -> Seq(Groups)] BY <2>5, <3>1
    <3>3. content = [form |-> "json", groups |-> [NoGroups EXCEPT !["tool"] = gs]] BY <2>8 DEF gs
    <3> QED BY <3>2, <3>3 DEF HookFiles
  <2> QED BY <2>1, <2>6, <2>7, <2>8
<1>4. CASE name \in {"agents", "claude", "hermes"}
  <2>1. ValuesOf(name) = Seq(MarkLines) /\ name \in Targets /\ content \in {<<"no file">>, <<"user">>}
    BY <1>4 DEF EditsOf, ValuesOf, Targets, Absent
  <2>2. "no file" \in MarkLines /\ "user" \in MarkLines BY DEF MarkLines
  <2>3. \A v \in MarkLines : <<v>> \in Seq(MarkLines) OBVIOUS
  <2> QED BY <2>1, <2>2, <2>3
<1> QED BY <1>1, <1>2, <1>3, <1>4 DEF Files

LEMMA EditKeeps ==
  ASSUME SetupInv, Edit
  PROVE  SetupInv'
<1> DEFINE state == IF run.state = "done" THEN "edited" ELSE run.state
           conflicts == IF run.left # <<>> THEN run.conflicts \cup {"edited"} ELSE run.conflicts
<1>1. PICK name \in Files : \E content \in EditsOf(name) \ {files[name]} : files' = [files EXCEPT ![name] = content]
  BY DEF Edit
<1>2. PICK content \in EditsOf(name) : files' = [files EXCEPT ![name] = content] BY <1>1
<1>3. run' = [run EXCEPT !.state = state, !.conflicts = conflicts] /\ env' = env /\ seen' = seen BY DEF Edit
<1>4. SetupTypeOK /\ FilesOK /\ run \in Runs BY DEF SetupInv, SetupTypeOK
<1>5. FilesOK' BY <1>2, <1>4, EditedIs, FilesStay DEF FilesOK
<1>6. /\ state \in RunStates
      /\ conflicts \in SUBSET (Targets \cup {"edited"})
      /\ conflicts = {} => run.left = <<>>
      /\ state # "done" /\ (state = "writing" <=> run.state = "writing")
  BY <1>4 DEF Runs, RunStates
<1> HIDE DEF state, conflicts
<1>7. /\ run'.state = state /\ run'.conflicts = conflicts /\ run'.left = run.left /\ run'.phase = run.phase
      /\ run' \in Runs
  BY <1>3, <1>4, <1>6 DEF Runs
<1>8. SetupTypeOK' BY <1>3, <1>4, <1>5, <1>7 DEF SetupTypeOK
<1>9. AtWork' BY <1>3, <1>6, <1>7 DEF SetupInv, AtWork, TomlConflict, HooksConflict
<1>10. Ahead' BY <1>6, <1>7 DEF SetupInv, AtWork, Ahead
<1> QED BY <1>8, <1>9, <1>10 DEF SetupInv

LEMMA SetupStep == SetupInv /\ Next => SetupInv'
  BY StartKeeps, LookKeeps, RereadKeeps, WriteKeeps, KillKeeps, TearKeeps, EditKeeps DEF Next, Runtimes

LEMMA InitialSetup == Environments = {"plain"} /\ Init => SetupInv
<1> SUFFICES ASSUME Environments = {"plain"}, Init PROVE SetupInv OBVIOUS
<1>1. env = "plain" /\ run = Idle /\ files = NoFiles /\ seen = NoFiles BY DEF Init
<1>2. run \in Runs /\ run.state = "idle" /\ run.left = <<>> /\ run.phase = "none"
  BY <1>1 DEF Idle, Runs, RunStates
<1>3. SetupTypeOK BY <1>1, <1>2, NothingRead DEF SetupTypeOK, FilesOK
<1> QED BY <1>2, <1>3 DEF SetupInv, AtWork, Ahead

LEMMA InitIsThenIdempotent == SetupInv => InitIsIdempotent
<1> SUFFICES ASSUME SetupInv, run.state = "done", run.conflicts = {}
             PROVE  /\ \A name \in Due(run.selected) : Settled(name)
                    /\ "codex" \in run.selected => DoctorCodex(1) = "ok"
  BY Zenon DEF InitIsIdempotent
<1>1. env = "plain" /\ run.left = <<>> BY DEF SetupInv, SetupTypeOK, AtWork
<1>2. \A name : ~Covered(<<>>, name) BY DEF Covered, Named
<1>3. \A name \in Due(run.selected) : Settled(name) BY <1>1, <1>2 DEF SetupInv, Ahead
<1>4. ASSUME "codex" \in run.selected PROVE DoctorCodex(1) = "ok"
  <2>1. Settled("toml") /\ Settled("hooks") /\ Settled("agents") BY <1>3, <1>4 DEF Due
  <2>2. ~PlanTomlRaises(files.toml) /\ TomlConfigured(files.toml) /\ HooksConfigured(files.hooks)
        /\ HasLine(files.agents, "block")
    BY <2>1, SettledIs
  <2>3. ~TomlConflict(files.toml) /\ ~HooksConflict(files.hooks)
    BY <2>2 DEF TomlConfigured, HooksConfigured, HooksConflict
  <2> QED BY <2>2, <2>3 DEF DoctorCodex
<1> QED BY <1>3, <1>4
-----------------------------------------------------------------------------
(* The three parts together.  A step of one leaves the others as they are.    *)
LEMMA SetupRests == SetupInv /\ UNCHANGED vars => SetupInv'
<1> SUFFICES ASSUME SetupInv, UNCHANGED vars PROVE SetupInv' OBVIOUS
<1>1. env' = env /\ files' = files /\ run' = run /\ seen' = seen BY DEF vars
<1>2. \A name \in Targets : Settled(name)' <=> Settled(name)
  BY <1>1, OthersStaySettled DEF SetupInv, SetupTypeOK
<1>3. Due(run.selected) \subseteq Targets BY DEF Due, Targets
<1>4. SetupTypeOK' BY <1>1 DEF SetupInv, SetupTypeOK, FilesOK
<1>5. AtWork' BY <1>1 DEF SetupInv, AtWork, TomlConflict, HooksConflict
<1>6. Ahead' BY <1>1, <1>2, <1>3 DEF SetupInv, Ahead
<1> QED BY <1>4, <1>5, <1>6 DEF SetupInv

LEMMA DbRests == DbInv /\ UNCHANGED <<db, opener>> => DbInv'
<1> SUFFICES ASSUME DbInv, UNCHANGED <<db, opener>> PROVE DbInv' OBVIOUS
<1>1. db' = db /\ opener' = opener OBVIOUS
<1>2. \A p : Place(p)' = Place(p) BY <1>1 DEF Place
<1>3. DbTypeOK' /\ Contents' /\ Unused' BY <1>1 DEF DbInv, DbTypeOK, Contents, Unused
<1>4. Marks' BY <1>1, <1>2 DEF DbInv, Marks
<1>5. (Killed' <=> Killed) /\ (Fresh' <=> Fresh) /\ (AtVersion1' <=> AtVersion1) /\ (Recording' <=> Recording)
  BY <1>1, <1>2 DEF Killed, Fresh, AtVersion1, Recording, Waits
<1>6. ASSUME NEW l \in Openers PROVE (Creating(l)' <=> Creating(l)) /\ (Converting(l)' <=> Converting(l))
  <2>1. Expected(Place(l))' = Expected(Place(l)) BY <1>2 DEF Expected
  <2> QED BY <1>1, <1>2, <2>1 DEF Creating, Converting, Waits
<1>7. UnderWay' BY <1>1, <1>5, <1>6 DEF DbInv, UnderWay
<1> QED BY <1>3, <1>4, <1>7 DEF DbInv

LEMMA McpRests == McpInv /\ UNCHANGED mcp => McpInv'
<1> SUFFICES ASSUME McpInv, UNCHANGED mcp PROVE McpInv' OBVIOUS
<1>1. server' = server /\ rows' = rows /\ scopes' = scopes /\ lock' = lock BY DEF mcp
<1>2. \A t \in Servers : Recs(t)' = Recs(t) BY <1>1, RecsStay
<1> QED BY <1>1, <1>2 DEF McpInv, Scoped

(* However often init is run, killed and overtaken by its owner's edits,      *)
(* whichever processes open the database and die on their way, whatever the   *)
(* servers are asked: a run without a conflict leaves nothing for a second    *)
(* one, nobody works with a database whose versions are not all recorded, the *)
(* last of several starts finds them recorded unless one was killed, servers  *)
(* agree on the scope and answer what they have recorded                      *)
(* (cli_product.py:129-182, connection.py:79-142, mcp/server.py). *)
THEOREM InstallIsAlwaysSafe ==
  ASSUME Environments = {"plain"}, Openers # {}, {"no_one", "other"} \cap Servers = {}
  PROVE  InstallSpec => []InstallIsSafe
<1> DEFINE Inv == SetupInv /\ DbInv /\ McpInv
<1>1. InstallInit => Inv BY InitialSetup, InitialDb, InitialMcp DEF InstallInit
<1>2. Inv /\ [InstallNext]_allVars => Inv'
  <2> SUFFICES ASSUME Inv, [InstallNext]_allVars PROVE Inv' OBVIOUS
  <2>1. CASE Next /\ UNCHANGED <<db, opener, mcp>>
    <3>1. UNCHANGED <<db, opener>> /\ UNCHANGED mcp BY <2>1
    <3> QED BY <2>1, <3>1, SetupStep, DbRests, McpRests
  <2>2. CASE Database!DbNext /\ UNCHANGED <<vars, mcp>>
    <3>1. UNCHANGED vars /\ UNCHANGED mcp BY <2>2
    <3> QED BY <2>2, <3>1, DbStep, SetupRests, McpRests
  <2>3. CASE Mcp!McpNext /\ UNCHANGED <<vars, db, opener>>
    <3>1. UNCHANGED vars /\ UNCHANGED <<db, opener>> BY <2>3
    <3> QED BY <2>3, <3>1, McpStep, SetupRests, DbRests
  <2>4. CASE UNCHANGED allVars
    <3>1. UNCHANGED vars /\ UNCHANGED <<db, opener>> /\ UNCHANGED mcp BY <2>4 DEF allVars
    <3> QED BY <3>1, SetupRests, DbRests, McpRests
  <2> QED BY <2>1, <2>2, <2>3, <2>4 DEF InstallNext
<1>3. Inv => InstallIsSafe
  BY InitIsThenIdempotent, UpgradesAreSafe, StartsDoAgree, AnswersDoMatch DEF InstallIsSafe
<1> QED BY <1>1, <1>2, <1>3, PTL DEF InstallSpec
=============================================================================
