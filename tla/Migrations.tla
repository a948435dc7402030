----------------------------- MODULE Migrations -----------------------------
(* connection.py:79-142: every command, hook and server opens the database    *)
(* and migrates it, one statement after another, each committed by itself.    *)
EXTENDS Naturals, Sequences, FiniteSets

CONSTANTS Openers,    \* processes that open the database
          MaxDeaths   \* how many of them may be killed

VARIABLES db,         \* objects, rows of schema_migrations, user_version, contents
          opener      \* its state, the versions it found pending, and the
                        \* statements of the first of them that it has executed
dbVars == <<db, opener>>

\* The statements of 001_initial.sql, whose tables are "core" but for the
\* contents and the trigger that guards them, and of 002_cas_zlib.sql; migrate
\* executes two more after each script.
Script(version) ==
  (IF version = 1 THEN <<"create meta", "create core", "create cas", "create guard">>
   ELSE <<"drop guard", "create new", "copy", "drop cas", "rename", "create guard">>)
  \o <<"record", "stamp">>
Versions == {1, 2}

\* Mutant of Fails: foreign keys are off, as SQLite leaves them.
FailsKeysOff(version, statement) ==
  CASE statement = "create meta" -> "meta" \in db.objects
    [] statement = "create core" -> "core" \in db.objects
    [] statement = "create cas" -> "cas" \in db.objects
    [] statement = "create guard" -> "guard" \in db.objects
    [] statement = "drop guard" -> "guard" \notin db.objects
    [] statement = "create new" -> "new" \in db.objects
    [] statement = "copy" -> ~({"cas", "new"} \subseteq db.objects) \/ db.new \cap db.cas # {}
    [] statement = "drop cas" -> "cas" \notin db.objects
    [] statement = "rename" -> "new" \notin db.objects \/ "cas" \in db.objects
    [] statement = "record" -> version \in db.rows
    [] statement = "stamp" -> FALSE
Fails(version, statement) ==
  CASE statement = "create meta" -> "meta" \in db.objects
    [] statement = "create core" -> "core" \in db.objects
    [] statement = "create cas" -> "cas" \in db.objects
    [] statement = "create guard" -> "guard" \in db.objects
    [] statement = "drop guard" -> "guard" \notin db.objects
    [] statement = "create new" -> "new" \in db.objects
    [] statement = "copy" -> ~({"cas", "new"} \subseteq db.objects) \/ db.new \cap db.cas # {}
    \* The implicit delete would leave a snapshot's file without its content.
    [] statement = "drop cas" -> "cas" \notin db.objects \/ db.cas \cap db.referenced # {}
    [] statement = "rename" -> "new" \notin db.objects \/ "cas" \in db.objects
    [] statement = "record" -> version \in db.rows
    [] statement = "stamp" -> FALSE
Executed(version, statement) ==
  CASE statement = "create meta" -> [db EXCEPT !.objects = @ \cup {"meta"}]
    [] statement = "create core" -> [db EXCEPT !.objects = @ \cup {"core"}]
    [] statement = "create cas" -> [db EXCEPT !.objects = @ \cup {"cas"}]
    [] statement = "create guard" -> [db EXCEPT !.objects = @ \cup {"guard"}]
    [] statement = "drop guard" -> [db EXCEPT !.objects = @ \ {"guard"}]
    [] statement = "create new" -> [db EXCEPT !.objects = @ \cup {"new"}]
    [] statement = "copy" -> [db EXCEPT !.new = @ \cup db.cas]
    [] statement = "drop cas" -> [db EXCEPT !.objects = @ \ {"cas"}, !.cas = {}]
    [] statement = "rename" -> [db EXCEPT !.objects = (@ \ {"new"}) \cup {"cas"}, !.cas = db.new, !.new = {}]
    [] statement = "record" -> [db EXCEPT !.rows = @ \cup {version}]
    [] statement = "stamp" -> [db EXCEPT !.stamp = version]

\* migrate: what is pending is decided once, from the rows of schema_migrations;
\* the copy of a database that has rows is left out.
Recorded == IF "meta" \in db.objects THEN db.rows ELSE {}
Open(p) ==
  /\ opener[p].state = "new"
  /\ LET pending == Versions \ Recorded
     IN opener' = [opener EXCEPT ![p] =
          [state |-> IF pending = {} THEN "open" ELSE "migrating", pending |-> pending, done |-> 0]]
  /\ UNCHANGED db

Gone(state) == [state |-> state, pending |-> {}, done |-> 0]
\* The version whose statements it executes, and the next one.
Version(p) == IF 1 \in opener[p].pending THEN 1 ELSE 2
Statement(p) == Script(Version(p))[opener[p].done + 1]
Advanced(p) ==
  IF Statement(p) # "stamp" THEN [opener[p] EXCEPT !.done = @ + 1]
  ELSE [state |-> IF opener[p].pending = {Version(p)} THEN "open" ELSE "migrating",
        pending |-> opener[p].pending \ {Version(p)}, done |-> 0]
Migrate(p) ==
  /\ opener[p].state = "migrating"
  /\ IF Fails(Version(p), Statement(p))
     THEN opener' = [opener EXCEPT ![p] = Gone("failed")] /\ UNCHANGED db
     ELSE /\ opener' = [opener EXCEPT ![p] = Advanced(p)]
          /\ db' = Executed(Version(p), Statement(p))

\* What an open process does that matters here: one transaction that stores a
\* content, for a version alone or for the file of a snapshot too.
Store(p) ==
  /\ opener[p].state = "open"
  /\ IF "cas" \notin db.objects
     THEN opener' = [opener EXCEPT ![p] = Gone("failed")] /\ UNCHANGED db
     ELSE /\ opener' = [opener EXCEPT ![p] = Gone("closed")]
          /\ \E snapshot \in BOOLEAN :
               db' = [db EXCEPT !.cas = @ \cup {p}, !.stored = @ \cup {p},
                                !.referenced = IF snapshot THEN @ \cup {p} ELSE @]

Die(p) ==
  /\ opener[p].state = "migrating"
  /\ Cardinality({q \in Openers : opener[q].state = "dead"}) < MaxDeaths
  /\ opener' = [opener EXCEPT ![p] = Gone("dead")]
  /\ UNCHANGED db

EmptyDb == [objects |-> {}, rows |-> {}, stamp |-> 0, cas |-> {}, new |-> {}, stored |-> {}, referenced |-> {}]
\* A file nobody has opened, or one an earlier release left at version 1.
OldDb == [EmptyDb EXCEPT !.objects = {"meta", "core", "cas", "guard"}, !.rows = {1}, !.stamp = 1]
DbInit ==
  /\ db \in {EmptyDb, OldDb}
  /\ opener = [p \in Openers |-> Gone("new")]
DbNext == \E p \in Openers : Open(p) \/ Migrate(p) \/ Store(p) \/ Die(p)

-----------------------------------------------------------------------------
(* Whatever races and whoever is killed: a content that a snapshot names is   *)
(* never lost and its row never dangles; the stamp is never ahead of the      *)
(* rows, so that nobody takes an unfinished schema for a finished one; and no *)
(* process works with the database before both versions are recorded.  Of a   *)
(* process that was killed no more is claimed: the schema it leaves half      *)
(* applied may keep every later start from getting through.  When nobody was  *)
(* killed and all are through, with or without an error, the next to open the *)
(* file has nothing to do (connection.py:111-142).                            *)
UpgradeIsSafe ==
  /\ db.referenced \subseteq db.cas /\ db.stamp \in db.rows \cup {0}
  /\ 2 \in db.rows => 1 \in db.rows
  /\ \A p \in Openers : opener[p].state \in {"open", "closed"} => db.rows = Versions
  /\ (\A p \in Openers : opener[p].state \in {"failed", "closed"}) => db.rows = Versions

(* What one would expect of a command that applies what is pending            *)
(* (connection.py:114-120): once all are through, killed ones included, the   *)
(* schema is whole.  It is not, and no run checks it: a script is not one     *)
(* transaction (connection.py:135), so what a killed process has created      *)
(* makes every later start fail, and of two processes that found the same     *)
(* version pending the later one may drop what the first has made.            *)
SchemaEndsWhole ==
  (\A p \in Openers : opener[p].state \in {"failed", "closed", "dead"}) =>
    db.rows = Versions /\ db.objects = {"meta", "core", "cas", "guard"}
=============================================================================
