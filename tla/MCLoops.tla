------------------------------- MODULE MCLoops -------------------------------
(* Instances of the two loops that run an experiment's units: the harness's  *)
(* grids and resumable windows, and the waves of the pi cells.  They share   *)
(* nothing, so one of them runs and the other rests as it starts.            *)
EXTENDS Harness, Wave

VARIABLE part
loopsVars == <<harnessVars, vars, part>>

-----------------------------------------------------------------------------
(* Three units on two threads.  What the driver may reply is what it makes   *)
(* of the runs of the claude CLI below.                                      *)
CONSTANTS u1, u2, u3
ThreeUnits == <<u1, u2, u3>>

Message(model) == [type |-> "assistant", model |-> model, usage |-> 1]
Ending(text, isError, subtype) ==
    [type |-> "result", text |-> text, usage |-> 2, isError |-> isError, subtype |-> subtype, model |-> None]
Exited(code, events) == [end |-> "exit", code |-> code, events |-> events]
Calls == { Exited(0, <<Message(Pin), Ending("said", FALSE, "success")>>),
           Exited(0, <<Message("other"), Ending("said", FALSE, "success")>>),
           Exited(1, <<Ending("limit", TRUE, "success")>>) }
Heard(result) == [class |-> result.class, model |-> result.model]
ClaudeReplies == {Heard(ClaudeRun(call)) : call \in Calls}

-----------------------------------------------------------------------------
(* A pilot of one unit; then the wave of three units it belongs to, on two   *)
(* threads, or the pilot again with --force or in another namespace.         *)
CONSTANTS s1, s2, n1, n2
TwoSessions == <<s1, s2>>
OneToken == [arm \in Arm |-> 1]
Ask(ns, force, only) == [ns |-> ns, force |-> force, only |-> only]
Pilot == {<<Karc, s1>>}
Three == Unit \ {<<Karc, s2>>}
PilotThenWave == <<{Ask(n1, FALSE, Pilot)},
                   {Ask(n1, FALSE, Three), Ask(n1, TRUE, Pilot), Ask(n2, FALSE, Pilot)}>>

-----------------------------------------------------------------------------
LoopsInit == part \in {"harness", "wave"} /\ HarnessInit /\ Init

(* A bound: a grid starts over a file of two lines at most, for it does not  *)
(* read them.                                                                *)
GridOver == 2
GridStarts == process' # process /\ mode' = "grid"
HarnessStep ==
  /\ part = "harness" /\ HarnessNext /\ (GridStarts => Len(lines) <= GridOver)
  /\ UNCHANGED <<vars, part>>
WaveStep == part = "wave" /\ Next /\ UNCHANGED <<harnessVars, part>>
LoopsNext == HarnessStep \/ WaveStep

(* The fairness of both.  Only one of them runs, so a condition can speak of *)
(* a step of either.                                                         *)
AttemptStep ==
  \/ part = "harness" /\ (\E u \in RunIds : RunUnit(u)) /\ UNCHANGED <<vars, part>>
  \/ part = "wave" /\ (\E u \in Unit : Work(u)) /\ UNCHANGED <<harnessVars, part>>
MainStep == part = "harness" /\ Main /\ UNCHANGED <<vars, part>>
LoopsSpec ==
  LoopsInit /\ [][LoopsNext]_loopsVars /\ WF_loopsVars(MainStep) /\ WF_loopsVars(AttemptStep)

(* Every execution ends, whatever the provider answers, the usage limits,    *)
(* the faults and the probes; so does every wave.                            *)
ExecutionsEnd == ~(pc = "over" /\ Over) ~> (pc = "over" /\ Over)
=============================================================================
