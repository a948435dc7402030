-------------------------------- MODULE Ingest --------------------------------
(***************************************************************************)
(* Telemetry of Claude Code sessions, from three channels: the batch       *)
(* ingestion of transcripts (ingest/claude_code.py, ingest/pipeline.py),   *)
(* the hook adapter (hooks/adapter.py) and the MCP server's own record of  *)
(* its calls (mcp/ingest.py), with the registration scan (scan.py).        *)
(*                                                                         *)
(* All write observations and canonical events; events are INSERT OR       *)
(* IGNORE on a dedup key, so the channels meet on the key and whoever is   *)
(* first fixes the row.  Hooks, MCP calls, scans and the writing half of   *)
(* an ingestion are transactions, one step each.  Parsing is outside: an   *)
(* ingestion reads the transcript files one by one while agents append.    *)
(*                                                                         *)
(* A line's number in log is its timestamp; an artifact is its path.       *)
(***************************************************************************)
EXTENDS Naturals, Sequences, FiniteSets

CONSTANTS
  Session, Path, Root,
  Cwd,                  \* Cwd[s]: the directory s was started in
  RootOf,               \* RootOf[p]: the scope root p lies under
  FileOrder,            \* <<session, file>> in the order they are parsed
  Lines,                \* the log lines agents may write
  Scanned,              \* the projects `karc init` is run in
  Seeds,                \* the preload files a scan finds
  Bucket,               \* width of the tier-3 time bucket
  MaxLog,               \* bound on the number of log lines
  NoPath, NoRoot, NoKey

ASSUME IngestAssumption ==
  /\ Cwd \in [Session -> Root] /\ RootOf \in [Path -> Root]
  /\ Scanned \subseteq Root /\ Seeds \subseteq Path
  /\ NoRoot \notin Root /\ "none" \notin Root \cup {NoRoot}
  /\ FileOrder \in Seq(Session \X {"main", "sub"})
  /\ Bucket \in Nat \ {0} /\ MaxLog \in Nat

\* hasId: the runtime recorded a tool_use_id, which only tool calls have.  Sub lines are a subagent's,
\* in a file of its own that carries the parent's session id; what they say of
\* users are prompts of the parent, no turns (claude_code.py:151).
Line ==
  [kind : {"turn", "read", "get", "search", "load"}, session : Session,
   file : {"main", "sub"}, path : Path \cup {NoPath}, hasId : BOOLEAN]

ASSUME LinesAssumption ==
  /\ Lines \subseteq Line
  /\ \A line \in Lines :
       /\ line.hasId => line.kind \in {"read", "get", "search"}
       /\ line.kind = "turn" => line.file = "main"
       /\ line.kind # "turn" => line.path \in Path

\* NULL is no key of a Read
ASSUME NoKeyAssumption ==
  NoKey \notin ({"tu"} \X Nat) \cup ({"bucket"} \X Session \X Path \X Nat)

VARIABLES
  log,                  \* everything the agents did, over all their files
  hooks,                \* lines whose hook process has not reported yet
  cuts,                 \* cuts[f]: the lines a running ingestion read of file f
  db                    \* the committed database
vars == <<log, hooks, cuts, db>>

\* The database: scopes, sessions (the scope of each), tasks (an end of 0 is
\* NULL), artifacts, events, and obs, the observations by their ids
Sessions == [Session -> Root \cup {NoRoot, "none"}]
Task == [start : Nat \ {0}, end : Nat]

Now == Len(log)
IsTurn(i, s) == log[i].kind = "turn" /\ log[i].session = s

-----------------------------------------------------------------------------
(* Dedup keys, observation ids and the rows they identify.                 *)

BucketOf(t) == t \div Bucket

\* mutant: the hook always uses the time bucket
BucketKeyOnly(i, t) == <<"bucket", log[i].session, log[i].path, BucketOf(t)>>
CallKey(i, t) ==
  IF log[i].hasId THEN <<"tu", i>>
  ELSE <<"bucket", log[i].session, log[i].path, BucketOf(t)>>
HookKey(i, t) == CallKey(i, t)

\* mutant: calls without an id share one observation per transcript
FileObservation(i) ==
  IF log[i].hasId THEN <<"transcript", i>> ELSE <<"transcript", "file", log[i].session>>
TranscriptObservation(i) == <<"transcript", i>>
HookObservation(i) ==
  IF log[i].hasId THEN <<"hook", i>> ELSE <<"hook", log[i].session, log[i].path>>

Event(key, call, at, task, chan) ==
  [key |-> key, call |-> call, at |-> at, task |-> task, chan |-> chan]

Keys(d) == {e.key : e \in d.events}
InsertEvent(d, e) == IF e.key \in Keys(d) THEN d.events ELSE d.events \cup {e}

\* INSERT OR IGNORE the observation of call i, then link it if it has no link
Observed(obs, id, i, key) ==
  [x \in DOMAIN obs \cup {id} |->
     IF x # id THEN obs[x]
     ELSE IF id \notin DOMAIN obs THEN [call |-> i, link |-> key]
     ELSE [obs[id] EXCEPT !.link = IF @ = NoKey THEN key ELSE @]]

NewSession(d, s, r) ==
  [d.sessions EXCEPT ![s] = IF @ = "none" THEN r ELSE @]

-----------------------------------------------------------------------------
(* The agents.  The MCP server answers a call, and records it, before the  *)
(* agent goes on; every hook is a process started after the call.          *)

Recorded(line) == log' = Append(log, line) /\ Now < MaxLog

Works ==
  \E line \in Lines :
    /\ line.kind \in {"turn", "read", "load"}
    /\ Recorded(line)
    /\ hooks' = IF line.kind = "turn" THEN hooks ELSE hooks \cup {Now + 1}
    /\ UNCHANGED <<cuts, db>>

\* A search or a get that finds nothing leaves only its observation; one that
\* met a locked database to the last of its retries leaves nothing.
KarcCall ==
  \E line \in Lines :
    /\ line.kind \in {"get", "search"}
    /\ Recorded(line)
    /\ hooks' = hooks \cup {Now + 1}
    /\ LET n == Now + 1
           key == IF line.kind = "get" THEN <<"karc", n>> ELSE <<"karc", n, line.path>>
           found == line.path \in db.artifacts
           e == Event(key, n, n, 0, "mcp")
           id == <<"mcp", n>>
       IN db' = db \/ db' = [db EXCEPT
            !.events = IF found THEN @ \cup {e} ELSE @,
            !.obs = [x \in DOMAIN @ \cup {id} |->
                      IF x = id THEN [call |-> n, link |-> IF found THEN key ELSE NoKey]
                      ELSE db.obs[x]]]
    /\ UNCHANGED cuts

-----------------------------------------------------------------------------
(* The hook adapter.  main swallows every failure, such as a locked        *)
(* database: a hook that is never heard of stays in hooks.                 *)

\* the event of a Read has no task_id
HookedRead(i) ==
  LET s == log[i].session  p == log[i].path  key == HookKey(i, Now) IN
  IF RootOf[p] \notin db.scopes
  THEN [db EXCEPT !.obs = Observed(@, HookObservation(i), i, NoKey)]
  ELSE [db EXCEPT
         !.obs = Observed(@, HookObservation(i), i, key),
         !.artifacts = @ \cup {p},
         !.sessions = NewSession(db, s, RootOf[p]),
         !.events = InsertEvent(db, Event(key, i, Now, 0, "hook"))]

HookedLoad(i) ==
  LET s == log[i].session  p == log[i].path
      key == <<"loaded", s, p, BucketOf(Now)>>  id == <<"load", s, p>> IN
  IF RootOf[p] \notin db.scopes
  THEN [db EXCEPT !.obs = Observed(@, id, i, NoKey)]
  ELSE [db EXCEPT
         !.obs = Observed(@, id, i, key),
         !.artifacts = @ \cup {p},
         !.sessions = NewSession(db, s, RootOf[p]),
         !.events = InsertEvent(db, Event(key, i, Now, 0, "hook"))]

\* the call id is read out of a search's JSON; the answer of get is plain
\* text, where the adapter finds none
CallIdIn(i) == log[i].kind = "search"
\* mutant: the keys are derived, not looked up
DerivedKeys(i) == {<<"karc", i>>}
KarcKeys(i) == Keys(db) \cap {<<"karc", i>>, <<"karc", i, log[i].path>>}
HookedKarc(i) ==
  LET key == IF CallIdIn(i) /\ KarcKeys(i) # {} THEN CHOOSE k \in KarcKeys(i) : TRUE
             ELSE NoKey
  IN [db EXCEPT !.obs = Observed(@, <<"hook", i>>, i, key),
                !.sessions = NewSession(db, log[i].session, NoRoot)]

Hook ==
  \E i \in hooks :
    /\ hooks' = hooks \ {i}
    /\ db' = CASE log[i].kind = "read" -> HookedRead(i)
               [] log[i].kind = "load" -> HookedLoad(i)
               [] OTHER -> HookedKarc(i)
    /\ UNCHANGED <<log, cuts>>

-----------------------------------------------------------------------------
(* The registration scan of a project, and its preload seed.               *)

Scan ==
  \E r \in Scanned :
    LET found == {p \in Path : RootOf[p] = r}
        seeds == {Event(<<"seed", p>>, 0, 0, 0, "manual") : p \in found \cap Seeds}
    IN /\ db' = [db EXCEPT !.scopes = @ \cup {r},
                           !.artifacts = @ \cup found,
                           !.events = @ \cup seeds]
       /\ UNCHANGED <<log, hooks, cuts>>

-----------------------------------------------------------------------------
(* Batch ingestion: parse every file, then write all rows in one           *)
(* transaction, the scopes of all projects first.                          *)

InFile(i, f) == FileOrder[f] = <<log[i].session, log[i].file>>

\* reads the file up to its present end
ParseFile ==
  /\ Len(cuts) < Len(FileOrder)
  /\ LET file == {i \in DOMAIN log : InFile(i, Len(cuts) + 1)} IN
     \E end \in file \cup {0} :
       /\ \A i \in file : i <= end
       /\ cuts' = Append(cuts, end)
  /\ UNCHANGED <<log, hooks, db>>

Seen ==
  {i \in DOMAIN log : \E f \in DOMAIN cuts : InFile(i, f) /\ i <= cuts[f]}

\* mutant: calls are promoted under the scopes of the last ingestion
ScopesBefore(d, S) == d.scopes
Scopes(d, S) == d.scopes \cup {Cwd[s] : s \in S}

\* mutant: the turns of every session
AllTurns(seen, s) == {i \in seen : log[i].kind = "turn"}
Turns(seen, s) == {i \in seen : IsTurn(i, s)}
Before(S, t) == Cardinality({i \in S : i <= t})

\* ordinals, their starts, and as ends the starts of their successors; rows
\* that exist are left alone
TaskRows(turns) ==
  LET start(k) == CHOOSE i \in turns : Before(turns, i) = k  n == Cardinality(turns) IN
  [k \in 1..n |-> [start |-> start(k), end |-> IF k < n THEN start(k + 1) ELSE 0]]
\* mutant: new turns get ordinals after the existing ones
Appended(old, new) == old \o new
Merged(old, new) == old \o SubSeq(new, Len(old) + 1, Len(new))

\* mutant: a call that was observed before is done with
FirstSeen(d, sc, seen) ==
  {i \in seen : /\ log[i].kind = "read" /\ RootOf[log[i].path] \in sc
                /\ TranscriptObservation(i) \notin DOMAIN d.obs}
Promoted(d, sc, seen) ==
  {i \in seen : log[i].kind = "read" /\ RootOf[log[i].path] \in sc}

\* the order of the parsed calls of one session: its main file, then the others
Precedes(i, j) ==
  LET rank(x) == IF log[x].file = "main" THEN 0 ELSE 1
  IN rank(i) < rank(j) \/ (rank(i) = rank(j) /\ i < j)

NewEvents(d, calls, seen) ==
  LET first(i) == \A j \in calls : CallKey(j, j) = CallKey(i, i) => ~Precedes(j, i)
      task(i) == Before(Turns(seen, log[i].session), i) IN
  {Event(CallKey(i, i), i, i, task(i), "transcript") :
     i \in {x \in calls : first(x) /\ CallKey(x, x) \notin Keys(d)}}

\* the transcript observations of the parsed calls, linked when promoted
ObservedAll(d, seen, calls) ==
  LET reads == {i \in seen : log[i].kind = "read"}
      of(x) == CHOOSE i \in reads : TranscriptObservation(i) = x
                 /\ \A j \in reads : TranscriptObservation(j) = x => ~Precedes(j, i)
      keys(x) == {CallKey(i, i) : i \in {j \in calls : TranscriptObservation(j) = x}}
      linked(x) == IF keys(x) = {} THEN NoKey ELSE CHOOSE k \in keys(x) : TRUE IN
  [x \in DOMAIN d.obs \cup {TranscriptObservation(i) : i \in reads} |->
     IF x \notin {TranscriptObservation(i) : i \in reads} THEN d.obs[x]
     ELSE IF x \notin DOMAIN d.obs THEN [call |-> of(x), link |-> linked(x)]
     ELSE [d.obs[x] EXCEPT !.link = IF @ = NoKey THEN linked(x) ELSE @]]

Ingested(d, seen) ==
  LET S == {log[i].session : i \in seen}
      calls == Promoted(d, Scopes(d, S), seen) IN
  [scopes |-> d.scopes \cup {Cwd[s] : s \in S},
   sessions |-> [s \in Session |->
     IF s \in S /\ d.sessions[s] = "none" THEN Cwd[s] ELSE d.sessions[s]],
   tasks |-> [s \in Session |-> Merged(d.tasks[s], TaskRows(Turns(seen, s)))],
   artifacts |-> d.artifacts \cup {log[i].path : i \in calls},
   events |-> d.events \cup NewEvents(d, calls, seen),
   obs |-> ObservedAll(d, seen, calls)]

Commit ==
  /\ Len(cuts) = Len(FileOrder)
  /\ db' = Ingested(db, Seen)
  /\ cuts' = <<>>
  /\ UNCHANGED <<log, hooks>>

\* the process died, or an exception rolled its transaction back
IngestDies ==
  /\ cuts # <<>>
  /\ cuts' = <<>>
  /\ UNCHANGED <<log, hooks, db>>

-----------------------------------------------------------------------------
Init ==
  /\ log = <<>> /\ hooks = {} /\ cuts = <<>>
  /\ db = [scopes |-> {}, sessions |-> [s \in Session |-> "none"],
           tasks |-> [s \in Session |-> <<>>], artifacts |-> {}, events |-> {},
           obs |-> <<>>]

Next ==
  \/ Works \/ KarcCall
  \/ Hook
  \/ Scan
  \/ ParseFile \/ Commit \/ IngestDies

Spec == Init /\ [][Next]_vars

-----------------------------------------------------------------------------
\* Types, and the foreign keys of the schema (001_initial.sql).
IngestTypeOK ==
  /\ log \in Seq(Lines) /\ Now <= MaxLog
  /\ hooks \subseteq DOMAIN log
  /\ Len(cuts) <= Len(FileOrder) /\ \A f \in DOMAIN cuts : cuts[f] <= Now
  /\ db.scopes \subseteq Root /\ db.artifacts \subseteq Path
  /\ db.sessions \in Sessions /\ \A s \in Session : db.tasks[s] \in Seq(Task)
  /\ \A e \in db.events : e.call \in 0..Now /\ e.task \in 0..Now
  /\ \A s \in Session : db.sessions[s] \in db.scopes \cup {NoRoot, "none"}
  /\ \A e \in db.events : e.call # 0 /\ e.chan # "mcp" =>
       log[e.call].path \in db.artifacts /\ db.sessions[log[e.call].session] # "none"
  /\ \A x \in DOMAIN db.obs : db.obs[x].call \in 1..Now
                            /\ db.obs[x].link \in Keys(db) \cup {NoKey}

\* A call with a tool_use_id has one event at most, whichever of hook and
\* transcript reported it first and however often it is ingested (pipeline.py
\* and adapter.py use one tier-2 key).
OneEventPerCall ==
  \A e, f \in db.events : e.call = f.call /\ e.call # 0 /\ log[e.call].hasId => e = f

\* An observation that is linked is linked to an event of its own call; calls
\* without an id share events within a time bucket.
LinksAreTrue ==
  \A x \in DOMAIN db.obs :
    LET o == db.obs[x] IN
    o.link # NoKey /\ (x[1] = "transcript" \/ log[o.call].hasId) =>
      \E e \in db.events : /\ e.key = o.link
                           /\ IF log[o.call].hasId THEN e.call = o.call
                              ELSE e.key = CallKey(o.call, o.call)

\* Once an ingestion committed, every Read it parsed that lies in a known
\* scope has its event and its observation points there, also when an earlier
\* pass had found it out of scope (pipeline.py, N5).
IngestIsComplete ==
  [][Commit => \A i \in Seen :
       log[i].kind = "read" /\ RootOf[log[i].path] \in db'.scopes =>
         /\ \E e \in db'.events : e.key = CallKey(i, i)
         /\ \E x \in DOMAIN db'.obs : db'.obs[x].call = i /\ db'.obs[x].link # NoKey]_vars

\* Ingesting the same data again changes nothing (pipeline.py:5-7).
IngestIsIdempotent ==
  LET once == Ingested(db, DOMAIN log) IN Ingested(once, DOMAIN log) = once

\* The tasks session s had begun at time t, by what its user wrote
TasksBegun(s, t) == Cardinality({i \in 1..t : IsTurn(i, s)})

\* A transcript's event is never given to a task that began after it, and a
\* Read of the main file is given to the task it was made in, although the
\* files are read while the session goes on.
AttributedInTime ==
  \A e \in db.events : e.chan = "transcript" =>
    LET right == TasksBegun(log[e.call].session, e.call) IN
    /\ e.task <= right
    /\ log[e.call].file = "main" => e.task = right

\* The task rows of a session are its user turns in order, and a row's end is
\* open or the start of the next, however the session grew between passes.
TasksAreTurns ==
  \A s \in Session : \A k \in DOMAIN db.tasks[s] :
    LET row == db.tasks[s][k] IN
    /\ IsTurn(row.start, s) /\ TasksBegun(s, row.start) = k
    /\ row.end # 0 => IsTurn(row.end, s) /\ TasksBegun(s, row.end) = k + 1

\* Once a Read of a main file was ingested from its transcript, its event names
\* the task it was made in (pipeline.py:187-188), also when a hook was first.
ReadsAttributed ==
  \A e \in db.events :
    /\ e.call # 0 /\ log[e.call].file = "main"
    /\ <<"transcript", e.call>> \in DOMAIN db.obs
    => e.task = TasksBegun(log[e.call].session, e.call)

\* What the tables say is what the agents did: every observation is linked to
\* the event of its own call, tasks are the turns, and an event's task is the
\* turn it happened in.
TelemetryIsTrue == IngestTypeOK /\ LinksAreTrue /\ AttributedInTime /\ TasksAreTurns
=============================================================================
