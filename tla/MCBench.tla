------------------------------- MODULE MCBench -------------------------------
(* Instances of two machines of a measured execution: the budget that        *)
(* threads share over a file of turns, and the sessions with their chunk     *)
(* index.  They share nothing, so one runs and the other rests as it starts. *)
EXTENDS Ledger, Chunks

VARIABLE part
benchVars == <<vars, chunksVars, part>>

-----------------------------------------------------------------------------
(* The file a budget starts from: rows in the older format, of an attempt at *)
(* each session that was abandoned, one after a call the provider had worked *)
(* on and one after a call it had not.                                       *)
Old(arm, used) == [arm |-> arm, sid |-> 1, att |-> 0, pos |-> 1, valid |-> FALSE,
                   used |-> used, explicit |-> FALSE, calls |-> 1, spend |-> 0]
MCHistories == {<<Old("karc", TRUE), Old("rag", FALSE)>>}
MCSchedule == <<<<"karc", 1>>, <<"rag", 1>>>>

-----------------------------------------------------------------------------
(* Four sessions of four tasks.  The second version of a1 drops a chunk, of  *)
(* a2 gains one, of a3 moves its answer; a4 is whole.                        *)
MCAnchors == <<"a1", "a2", "a3", "a4">>
MCStable == <<"s1", "s2", "s3", "s4", "s5", "s6", "s7", "s8", "s9">>
MCBoundaries == [v \in Docs \X {1, 2} |->
  CASE v = <<"a1", 1>> -> {"intro", "body"}
    [] v = <<"a2", 2>> -> {"intro", "body"}
    [] v[1] = "a3" -> {"intro", "body"}
    [] OTHER -> {"intro"}]
MCGold == [v \in Docs \X {1, 2} |-> IF v = <<"a3", 2>> THEN "body" ELSE "intro"]

-----------------------------------------------------------------------------
BenchInit ==
  /\ part \in {"budget", "sessions"} /\ Init /\ ChunksInit
  /\ part # "budget" => kind = "hard"

BudgetStep == part = "budget" /\ Next /\ UNCHANGED <<chunksVars, part>>
SessionStep == part = "sessions" /\ ChunksNext /\ UNCHANGED <<vars, part>>
BenchNext == BudgetStep \/ SessionStep

\* The fairness of Ledger: threads run, and every call comes back.
ThreadStep(w) == part = "budget" /\ Thread(w) /\ UNCHANGED <<chunksVars, part>>
BenchSpec ==
  BenchInit /\ [][BenchNext]_benchVars /\ \A w \in Workers : WF_benchVars(ThreadStep(w))
=============================================================================
