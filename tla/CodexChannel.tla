---------------------------- MODULE CodexChannel ----------------------------
(* What Codex did, told twice: a hook process per event writes to the         *)
(* database as it happens (hooks/codex.py), and `karc ingest codex` reads the  *)
(* transcripts afterwards (ingest/codex.py).  Both name a tool call alike and  *)
(* share hooks/canonical.py, so that they meet in one event.                  *)
EXTENDS Naturals, Sequences, FiniteSets, SequencesExt

CONSTANTS Items,        \* the tool calls of a thread, in order: [kind, names, carrier]
          Docs,         \* artifacts that a scan registers
          Agents,       \* the AGENTS.md a session start finds
          MaxParses

VARIABLES known,        \* artifacts registered
          evts,         \* events, each [key, doc, type, channel]
          obs,          \* observations: id |-> the event it is linked to
          lines,        \* the transcript so far
          headless,     \* its first line, which names the thread, was lost
          task,         \* per call: its hook's attempts so far, or what became of it
          writer,       \* who holds the write lock: nobody, or the parser
          parses
channelVars == <<known, evts, obs, lines, headless, task, writer, parses>>

-----------------------------------------------------------------------------
(* canonical.py: observe, emit_event and link_observation over a database     *)
(* that is the record of both tables.                                         *)
Unlinked == <<>>
Observe(d, id) == IF id \in DOMAIN d.obs THEN d
                  ELSE [d EXCEPT !.obs = [i \in DOMAIN @ \cup {id} |-> IF i = id THEN Unlinked ELSE @[i]]]
Emit(d, key, type, channel) ==
  IF \E e \in d.evts : e.key = key THEN d
  ELSE [d EXCEPT !.evts = @ \cup {[key |-> key, type |-> type, channel |-> channel]}]
\* Mutant of Link: the last event an observation meets takes it.
LinkLast(d, id, key) == [d EXCEPT !.obs[id] = key]
Link(d, id, key) == IF d.obs[id] = Unlinked THEN [d EXCEPT !.obs[id] = key] ELSE d

\* _matches, _artifact_matches: registered artifacts whose absolute path, or
\* whose name relative to its own project, occurs in the text.
Matched(item) == Items[item].names \cap known
TypeOf(item) == CASE Items[item].kind = "command" -> "read" [] Items[item].kind = "change" -> "applied" [] OTHER -> "none"
\* Mutant of Key: the two channels do not share their keys.
KeyPerChannel(item, doc, channel) == <<"tu", item, doc, channel>>
Key(item, doc, channel) == <<"tu", item, doc, "">>
CallKey(item) == <<"karc", item, "", "">>

Converge(d, id, item, channel) ==
  FoldSet(LAMBDA doc, acc : Link(Emit(acc, Key(item, doc, channel), TypeOf(item), channel), id, Key(item, doc, channel)),
          d, Matched(item))
Told(d, id, item, channel) ==
  LET seen == Observe(d, id)
  IN IF Items[item].kind = "get"
     THEN IF \E e \in d.evts : e.key = CallKey(item) THEN Link(seen, id, CallKey(item)) ELSE seen
     ELSE IF TypeOf(item) = "none" THEN seen
     ELSE Converge(seen, id, item, channel)

Db == [evts |-> evts, obs |-> obs]
Commit(d) == evts' = d.evts /\ obs' = d.obs

-----------------------------------------------------------------------------
(* A tool call ends: the transcript has its lines, its hook is started, and a *)
(* `get` has left the server's own event (mcp/ingest.py).                     *)
Pending == [state |-> "hook", attempts |-> 0]
EndCall(item) ==
  /\ task[item].state = "none" /\ writer = "nobody"
  /\ \A before \in 1 .. item - 1 : task[before].state # "none"
  /\ lines' = lines \o <<<<"started", item>>, <<"completed", item>>>>
  /\ task' = [task EXCEPT ![item] = Pending]
  /\ evts' = IF Items[item].kind = "get"
             THEN evts \cup {[key |-> CallKey(item), type |-> "read", channel |-> "mcp"]} ELSE evts
  /\ UNCHANGED <<known, obs, headless, writer, parses>>

\* main: three attempts, each a transaction; the last one that finds the
\* database locked gives up.
Hook(item) ==
  /\ task[item].state = "hook"
  /\ IF writer = "nobody"
     THEN Commit(Told(Db, <<"hook", item>>, item, "hook")) /\ task' = [task EXCEPT ![item].state = "told"]
     ELSE /\ task' = [task EXCEPT ![item] = IF @.attempts = 2 THEN [@ EXCEPT !.state = "lost"]
                                            ELSE [@ EXCEPT !.attempts = @ + 1]]
          /\ UNCHANGED <<evts, obs>>
  /\ UNCHANGED <<known, lines, headless, writer, parses>>

\* SessionStart: every AGENTS.md above the working directory is registered and
\* loaded; one event for a session and five seconds.
SessionStart ==
  /\ writer = "nobody" /\ <<"hook", 0>> \notin DOMAIN obs
  /\ known' = known \cup Agents
  /\ Commit(FoldSet(LAMBDA doc, acc : Link(Emit(acc, <<"loaded", 0, doc, "">>, "loaded", "hook"),
                                           <<"hook", 0>>, <<"loaded", 0, doc, "">>),
                    Observe(Db, <<"hook", 0>>), Agents))
  /\ UNCHANGED <<lines, headless, task, writer, parses>>

-----------------------------------------------------------------------------
(* cmd_ingest_codex: one transaction over all transcripts.                    *)
ParseBegin ==
  /\ writer = "nobody" /\ parses < MaxParses
  /\ writer' = "parser" /\ parses' = parses + 1
  /\ UNCHANGED <<known, evts, obs, lines, headless, task>>

\* ingest_file: what the lines of an item carry is merged; a completed item is
\* observed, and becomes an event if its thread is known.
Carried(i) == \E j \in 1 .. i : lines[j][2] = lines[i][2] /\ lines[j][1] = Items[lines[i][2]].carrier
IngestLine(d, i) ==
  LET item == lines[i][2]
      id == <<"transcript", item>>
  IN IF lines[i][1] # "completed" THEN d
     ELSE IF headless \/ ~Carried(i) THEN Observe(d, id)
     ELSE Told(d, id, item, "transcript")
ParsedDb == FoldSeq(LAMBDA i, d : IngestLine(d, i), Db, [i \in DOMAIN lines |-> i])
ParseCommit ==
  /\ writer = "parser" /\ writer' = "nobody"
  /\ Commit(ParsedDb)
  /\ UNCHANGED <<known, lines, headless, task, parses>>
\* Another version of Codex: the gate lets nothing through.
ParseRefused ==
  /\ writer = "parser" /\ writer' = "nobody"
  /\ UNCHANGED <<known, evts, obs, lines, headless, task, parses>>

Register ==
  /\ writer = "nobody"
  /\ \E doc \in Docs \ known : known' = known \cup {doc}
  /\ UNCHANGED <<evts, obs, lines, headless, task, writer, parses>>

ChannelInit ==
  /\ known = {} /\ evts = {} /\ obs = [i \in {} |-> Unlinked] /\ lines = <<>> /\ headless \in BOOLEAN
  /\ task = [item \in DOMAIN Items |-> [state |-> "none", attempts |-> 0]]
  /\ writer = "nobody" /\ parses = 0
ChannelNext ==
  \/ \E item \in DOMAIN Items : EndCall(item) \/ Hook(item)
  \/ SessionStart \/ ParseBegin \/ ParseCommit \/ ParseRefused \/ Register

-----------------------------------------------------------------------------
Uses == {e \in evts : e.key[1] = "tu"}

(* The two channels meet: a tool call and an artifact have one event whoever  *)
(* tells it first, however often the transcripts are read; an observation is  *)
(* linked to an event of its own call; and a `get` is linked to what the      *)
(* server itself recorded (canonical.py:48-124, codex.py:168-191).            *)
ChannelsMeet ==
  /\ \A e, f \in Uses : e.key[2] = f.key[2] /\ e.key[3] = f.key[3] => e = f
  /\ \A id \in DOMAIN obs : obs[id] # Unlinked /\ id[2] # 0 => obs[id][2] = id[2]
  /\ \A item \in DOMAIN Items :
       (Items[item].kind = "get" /\ <<"hook", item>> \in DOMAIN obs) => obs[<<"hook", item>>] = CallKey(item)

(* Reading the transcripts makes up for a hook that gave up and for an        *)
(* artifact registered too late for it: afterwards every call is observed and *)
(* every artifact it matches has its event; reading them again adds nothing.  *)
(* An observation stays with the event it was first linked to                 *)
(* (ingest/codex.py:108-193).                                                 *)
IngestMakesUp ==
  [][/\ ParseCommit =>
          \A item \in DOMAIN Items : task[item].state # "none" =>
             /\ <<"transcript", item>> \in DOMAIN obs'
             /\ ~headless /\ TypeOf(item) # "none" =>
                  \A doc \in Matched(item) : \E e \in evts' : e.key = Key(item, doc, "transcript")
     /\ \A id \in DOMAIN obs : obs[id] # Unlinked => obs'[id] = obs[id]
     /\ evts \subseteq evts']_channelVars
=============================================================================
