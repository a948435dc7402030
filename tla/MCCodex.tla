------------------------------- MODULE MCCodex -------------------------------
(* The metered cell, or the hook that guards a turn, or the channels that     *)
(* tell K-ARC what Codex did.                                                 *)
EXTENDS CodexCell

Request(input, cached, write) == [input |-> input, cached |-> cached, write |-> write, output |-> 1]
ColdAndWarm == {Request(3, 2, 1)}

VARIABLES guard, counter, holder, hook, log, answers
Asked(tool, managed, access, names, agents) ==
  [tool |-> tool, managed |-> managed, access |-> access, names |-> names, agents |-> agents]
Guard == INSTANCE CodexGuard WITH
  HookCalls <- 1 .. 3, ToolLimit <- 1, MaxErrors <- 1,
  Requests <- <<Asked("Bash", TRUE, "content", {"v1"}, FALSE), Asked("Bash", FALSE, "content", {}, FALSE),
               Asked("Bash", FALSE, "listing", {}, FALSE), Asked("Read", FALSE, "content", {}, TRUE),
               Asked("mcp karc", TRUE, "none", {}, FALSE)>>

VARIABLES known, evts, obs, lines, headless, task, writer, parses
\* "a" and "b" are one name in two projects.
Channel == INSTANCE CodexChannel WITH
  Items <- <<[kind |-> "command", names |-> {"a", "b"}, carrier |-> "started"],
             [kind |-> "get", names |-> {}, carrier |-> "completed"],
             [kind |-> "change", names |-> {"a"}, carrier |-> "completed"],
             [kind |-> "search", names |-> {"a"}, carrier |-> "completed"]>>,
  Docs <- {"a", "b"}, Agents <- {"agents"}, MaxParses <- 2

VARIABLE which
CellVars == vars
GuardVars == <<guard, counter, holder, hook, log, answers>>
ChannelVars == <<known, evts, obs, lines, headless, task, writer, parses>>
Plain == guard.mode = "observe" /\ guard.policy = "observe" /\ \A c \in 1 .. 3 : hook[c].request = hook[1].request /\ hook[c].request.agents
MCInit ==
  /\ Init /\ Guard!GuardInit /\ Channel!ChannelInit
  /\ \/ which = "cell" /\ Plain /\ ~headless
     \/ which = "guard" /\ ~headless
     \/ which = "channel" /\ Plain
MCNext ==
  /\ UNCHANGED which
  /\ \/ which = "cell" /\ Next /\ UNCHANGED <<GuardVars, ChannelVars>>
     \/ which = "guard" /\ Guard!GuardNext /\ UNCHANGED <<CellVars, ChannelVars>>
     \/ which = "channel" /\ Channel!ChannelNext /\ UNCHANGED <<CellVars, GuardVars>>
MCSpec == MCInit /\ [][MCNext]_<<which, CellVars, GuardVars, ChannelVars>>

(* What K-ARC is told of a Codex turn is right: the guard counts and bounds   *)
(* its calls, hook and parser meet in one event, and what they missed is made *)
(* up for by the next ingestion. A machine that is not run stays at its start. *)
ObserversAgree ==
  /\ [](/\ which = "guard" => Guard!GuardBoundsCalls
        /\ which = "channel" => Channel!ChannelsMeet)
  /\ Channel!IngestMakesUp
=============================================================================
