------------------------------- MODULE Chunks -------------------------------
(* The chunk canary of E5 (src/src/karc/bench/e5_chunk_canary.py): the corpus *)
(* of a schedule is split into semantic chunks, each session of the K-ARC arm *)
(* starts with an index of the chunks valid at its first task, and before a   *)
(* turn the scripted version changes are applied to that index, so the model  *)
(* that searches it is answered from the version the task's gold comes from.  *)
(*                                                                            *)
(* A chunk's identity is its document and its boundary key; the same boundary *)
(* of the next version is the next version of the same chunk.  Splitting and  *)
(* token sharing are in Canary; here Boundaries is what the splitter gave.    *)
EXTENDS Naturals, Sequences, FiniteSets, FiniteSetsExt, SequencesExt

-----------------------------------------------------------------------------
(* The reuse schedules of E5 (src/src/karc/bench/e5_killgate.py): sessions of *)
(* questions about a corpus in which some documents exist in two versions.    *)
(* Each session opens on the first version of its own anchor document; its    *)
(* first repeat replaces that anchor by the second version, its later repeats *)
(* ask again about something the session has already asked, and the fourth    *)
(* task carries a correction of an earlier answer.  Every later account (E5,  *)
(* E10, E11) rests on what this loop writes into the tasks and the manifest.  *)
(*                                                                            *)
(* The two shuffles of the corpus only rename documents, so Anchors and       *)
(* Stable stand for the shuffled groups; the other random choices are \E.     *)
CONSTANTS Anchors,        \* groups versioned_v1/versioned_v2, one entry a document
          Stable,         \* group stable
          SessionCount, SessionLength,
          Repeats         \* reuse_factor * opportunities, exact by assertion

CorrectionAt == 4         \* "if session_task == 4"
Never == 0                \* None in valid_from_seq and superseded_at_seq

Opportunities == SessionCount * (SessionLength - 1)

Docs == {Anchors[i] : i \in DOMAIN Anchors} \cup {Stable[i] : i \in DOMAIN Stable}

ASSUME ScheduleAssumption ==
  /\ SessionCount \in Nat \ {0} /\ SessionLength \in Nat \ {0}
  /\ Repeats \in 0 .. Opportunities
  /\ Anchors \in Seq(Docs) /\ Stable \in Seq(Docs)
  /\ IsInjective(Anchors \o Stable)
  /\ SessionCount <= Len(Anchors)
  /\ Opportunities - Repeats <= Len(Stable)

Version(doc, n) == <<doc, n>>
Versions == Docs \X {1, 2}

(* Repeats are dealt out evenly, the first sessions taking the remainder.     *)
RepeatAllocation(index) ==
  (Repeats \div SessionCount) + (IF index <= Repeats % SessionCount THEN 1 ELSE 0)

VARIABLES tasks,          \* the task rows, in order
          session,        \* sessions opened so far
          flags,          \* positions of the open session that repeat
          current,        \* current_by_artifact of the open session
          history,        \* versions the open session has asked for
          stableCursor,
          validFrom, supersededAt   \* the manifest's validity fields

scheduleVars == <<tasks, session, flags, current, history, stableCursor, validFrom, supersededAt>>

\* A dict after an update: new, and old where new says nothing.
Updated(old, new) ==
  [x \in DOMAIN old \cup DOMAIN new |-> IF x \in DOMAIN new THEN new[x] ELSE old[x]]

NoDocs == [d \in {} |-> 1]
Anchor == Anchors[session]
Position == Len(history) + 1
SessionFull == Len(history) = SessionLength
ScheduleDone == session = SessionCount /\ SessionFull
ActiveAt(v, seq) ==
  /\ validFrom[v] # Never /\ validFrom[v] <= seq
  /\ supersededAt[v] = Never \/ supersededAt[v] > seq

(* _source_manifest: every first version is valid from the start, no second   *)
(* version is, whatever the fixture's own schedule had said.                  *)
ScheduleInit ==
  /\ tasks = <<>> /\ session = 0 /\ flags = {} /\ current = NoDocs
  /\ history = <<>> /\ stableCursor = 0
  /\ validFrom = [v \in Versions |-> IF v[2] = 1 THEN 1 ELSE Never]
  /\ supersededAt = [v \in Versions |-> Never]

OpenSession ==
  /\ session < SessionCount
  /\ session = 0 \/ SessionFull
  /\ session' = session + 1
  /\ flags' \in kSubset(RepeatAllocation(session + 1), 2 .. SessionLength)
  /\ current' = NoDocs /\ history' = <<>>
  /\ UNCHANGED <<tasks, stableCursor, validFrom, supersededAt>>

(* The correction at task four hits what the session asked second, as the     *)
(* session now knows it.                                                      *)
Correction(known) ==
  IF Position # CorrectionAt \/ history = <<>> THEN <<>>
  ELSE LET asked == history[IF Len(history) > 1 THEN 2 ELSE 1]
       IN <<[type |-> "corrected", version |-> Version(asked[1], known[asked[1]])]>>

(* What every task row carries, and what the session remembers of it; known   *)
(* is current_by_artifact after a supersession of this very task.             *)
AddTask(required, reuse, forbidden, events, known) ==
  /\ tasks' = Append(tasks,
       [seq |-> Len(tasks) + 1, session |-> session, position |-> Position,
        required |-> required, forbidden |-> forbidden, reuse |-> reuse,
        events |-> events \o Correction(known)])
  /\ current' = Updated(known, [doc \in {required[1]} |-> required[2]])
  /\ history' = Append(history, required)
  /\ UNCHANGED <<session, flags>>

InSession == session > 0 /\ ~SessionFull
AnchorSuperseded == supersededAt[Version(Anchor, 1)] # Never

FirstTask ==
  /\ InSession /\ Position = 1
  /\ AddTask(Version(Anchor, 1), FALSE, {}, <<>>, current)
  /\ UNCHANGED <<stableCursor, validFrom, supersededAt>>

SupersedeAnchor ==
  /\ InSession /\ Position \in flags /\ ~AnchorSuperseded
  /\ LET old == Version(Anchor, 1)
         new == Version(Anchor, 2)
     IN /\ supersededAt' = [supersededAt EXCEPT ![old] = Len(tasks) + 1]
        /\ validFrom' = [validFrom EXCEPT ![new] = Len(tasks) + 1]
        /\ AddTask(new, TRUE, {old}, <<[type |-> "validity_changed", version |-> old]>>,
                   [current EXCEPT ![Anchor] = 2])
  /\ UNCHANGED stableCursor

RepeatTask ==
  /\ InSession /\ Position \in flags /\ AnchorSuperseded
  /\ \E doc \in DOMAIN current : AddTask(Version(doc, current[doc]), TRUE, {}, <<>>, current)
  /\ UNCHANGED <<stableCursor, validFrom, supersededAt>>

NewTask ==
  /\ InSession /\ Position > 1 /\ Position \notin flags
  /\ AddTask(Version(Stable[stableCursor + 1], 1), FALSE, {}, <<>>, current)
  /\ stableCursor' = stableCursor + 1
  /\ UNCHANGED <<validFrom, supersededAt>>

ScheduleNext == OpenSession \/ FirstTask \/ SupersedeAnchor \/ RepeatTask \/ NewTask
ScheduleSpec == ScheduleInit /\ [][ScheduleNext]_scheduleVars

-----------------------------------------------------------------------------
(* Every question asks for a version that is valid when it is asked, and      *)
(* never for one it forbids: a gold answer that had been superseded would     *)
(* charge every arm for being right (e5_killgate.py:205-279).                 *)
GoldIsLive ==
  \A i \in DOMAIN tasks :
    /\ ActiveAt(tasks[i].required, tasks[i].seq)
    /\ tasks[i].required \notin tasks[i].forbidden

(* A scripted correction is of a version still valid at that task, even when  *)
(* the task itself replaces it (e5_killgate.py:247-256).                      *)
CorrectionsAreLive ==
  \A i \in DOMAIN tasks : \A k \in DOMAIN tasks[i].events :
    LET event == tasks[i].events[k]
    IN event.type = "corrected" => ActiveAt(event.version, tasks[i].seq)

AskedBefore(i) ==
  \E j \in 1 .. i - 1 : tasks[j].session = tasks[i].session
                     /\ tasks[j].required[1] = tasks[i].required[1]

(* The controlled variable is what it is named: a task is marked as a reuse   *)
(* exactly when its session asked about that document before, and the batch   *)
(* has exactly the requested number (e5_killgate.py:263-285).                 *)
ReuseIsExact ==
  /\ \A i \in DOMAIN tasks : tasks[i].reuse <=> AskedBefore(i)
  /\ ScheduleDone => Cardinality({i \in DOMAIN tasks : tasks[i].reuse}) = Repeats

-----------------------------------------------------------------------------
(* The chunks and the index.                                                  *)
CONSTANTS Boundaries,     \* boundary keys of each document version, source_to_chunks
          Gold,           \* the boundary that holds the answer of each version
          MaxRestarts     \* bound on the session attempts that start over

ASSUME ChunksAssumption ==
  \A v \in Versions : Gold[v] \in Boundaries[v] /\ IsFiniteSet(Boundaries[v])

Chunk(v, b) == [doc |-> v[1], n |-> v[2], boundary |-> b]
Identity(chunk) == <<chunk.doc, chunk.boundary>>
ChunksOf(v) == {Chunk(v, b) : b \in Boundaries[v]}
Unserved == [doc |-> "none"]

VARIABLES
  turn,                   \* the task being run; 0 until the schedule is built
  turnState,              \* "fresh", "updated" (its version changes applied), "answered"
  restarts,
  index                   \* the session's database, see EmptyIndex

chunkVars == <<turn, turnState, restarts, index>>
chunksVars == <<scheduleVars, chunkVars>>

(* current: current_version_id of the chunk artifacts that have rows.         *)
(* invalidated, supersededBy: the columns of the rows of versions.            *)
EmptyIndex == [current |-> [i \in {} |-> Unserved], rows |-> {},
               invalidated |-> {}, supersededBy |-> {}]
Current(ix, i) == IF i \in DOMAIN ix.current THEN ix.current[i] ELSE Unserved
Searchable(ix) == {ix.current[i] : i \in DOMAIN ix.current} \ {Unserved}

-----------------------------------------------------------------------------
(* The gold chunk of a source version; _gold_chunks asserts there is one.     *)
GoldChunk(v) == Chunk(v, Gold[v])

(* map_tasks_to_chunks: the task in chunks.  An event on a source version     *)
(* becomes one event for each of its chunks.                                  *)
ChunkTask(task) ==
  [required  |-> {GoldChunk(task.required)},
   forbidden |-> UNION {ChunksOf(v) : v \in task.forbidden},
   events    |-> UNION {{[type |-> task.events[k].type, version |-> c] :
                           c \in ChunksOf(task.events[k].version)} : k \in DOMAIN task.events}]

(* _active_source_versions reads the validity of the finished schedule.       *)
ActiveSourceVersions(seq) == {v \in Versions : ActiveAt(v, seq)}

(* _insert_live_chunk for each of some chunks, all of different artifacts, so *)
(* none sees what another left.                                               *)
InsertLiveChunks(ix, chunks) ==
  LET old(chunk) == Current(ix, Identity(chunk))
      newer == {chunk \in chunks : old(chunk) \notin {Unserved, chunk}}
      retired == {old(chunk) : chunk \in newer}
      here == {Identity(chunk) : chunk \in chunks}
  IN [current |-> Updated(ix.current, [i \in here |-> CHOOSE c \in chunks : Identity(c) = i]),
      rows |-> ix.rows \cup chunks,
      invalidated |-> ix.invalidated \cup retired,
      supersededBy |-> {link \in ix.supersededBy : link[1] \notin retired}
                       \cup {<<old(chunk), chunk>> : chunk \in newer}]

(* build_chunk_index, in a session's new working directory                    *)
BuildChunkIndex(seq) ==
  InsertLiveChunks(EmptyIndex, UNION {ChunksOf(v) : v \in ActiveSourceVersions(seq)})

(* Chunks of the document that the new version does not have stop being       *)
(* current; the loop is over the chunk artifacts of the scope.                *)
DropMissing(ix, v) ==
  LET gone == {i \in DOMAIN ix.current : i[1] = v[1] /\ i[2] \notin Boundaries[v]}
  IN [ix EXCEPT !.current = [i \in DOMAIN @ |-> IF i \in gone THEN Unserved ELSE @[i]],
                !.invalidated = @ \cup ({ix.current[i] : i \in gone} \ {Unserved})]

(* activate_document_version, one transaction                                 *)
ActivateDocumentVersion(ix, v) == InsertLiveChunks(DropMissing(ix, v), ChunksOf(v))

\* Mutant of ApplyEvent: activates the version of the event itself.
ActivateStale(ix, events, k) ==
  IF k \in DOMAIN events /\ events[k].type = "validity_changed"
  THEN ActivateDocumentVersion(ix, events[k].version) ELSE ix

(* Only validity changes, and only to a newer version; each commits by itself.*)
ApplyEvent(ix, events, k) ==
  IF k \in DOMAIN events /\ events[k].type = "validity_changed" /\ events[k].version[2] = 1
  THEN ActivateDocumentVersion(ix, Version(events[k].version[1], 2)) ELSE ix

(* apply_task_version_updates; a task has a supersession and a correction at  *)
(* most.                                                                      *)
ApplyTaskVersionUpdates(ix, task) == ApplyEvent(ApplyEvent(ix, task.events, 1), task.events, 2)

-----------------------------------------------------------------------------
ChunksInit ==
  /\ ScheduleInit
  /\ turn = 0 /\ turnState = "fresh" /\ restarts = 0 /\ index = EmptyIndex

BuildSchedule == ScheduleNext /\ UNCHANGED chunkVars

Task == tasks[turn]
FirstTurnOf(s) == CHOOSE i \in DOMAIN tasks : tasks[i].session = s /\ tasks[i].position = 1

(* materialize_session: a new working directory with every chunk's text and   *)
(* an index of the versions valid at the session's first task.                *)
MaterializeSession ==
  /\ ScheduleDone /\ turn < Len(tasks)
  /\ turn = 0 \/ (turnState = "answered" /\ tasks[turn + 1].position = 1)
  /\ turn' = turn + 1 /\ turnState' = "fresh"
  /\ index' = BuildChunkIndex(tasks[turn + 1].seq)
  /\ UNCHANGED <<scheduleVars, restarts>>

(* Before the turn's model call; a retry of the turn applies them again.      *)
UpdateIndex ==
  /\ turn > 0 /\ turnState = "fresh"
  /\ index' = ApplyTaskVersionUpdates(index, Task)
  /\ turnState' = "updated"
  /\ UNCHANGED <<scheduleVars, turn, restarts>>

RetryTurn ==
  /\ turnState = "updated" /\ restarts < MaxRestarts
  /\ restarts' = restarts + 1 /\ turnState' = "fresh"
  /\ UNCHANGED <<scheduleVars, turn, index>>

AnswerTurn ==
  /\ turnState = "updated"
  /\ turnState' = "answered"
  /\ UNCHANGED <<scheduleVars, turn, restarts, index>>

NextTurn ==
  /\ turnState = "answered" /\ turn < Len(tasks) /\ tasks[turn + 1].position > 1
  /\ turn' = turn + 1 /\ turnState' = "fresh"
  /\ UNCHANGED <<scheduleVars, restarts, index>>

(* A failed session runs again from its first turn, in a new directory.       *)
RestartSession ==
  /\ turn > 0 /\ turnState # "answered" /\ restarts < MaxRestarts
  /\ restarts' = restarts + 1
  /\ turn' = FirstTurnOf(Task.session) /\ turnState' = "fresh"
  /\ index' = BuildChunkIndex(tasks[FirstTurnOf(Task.session)].seq)
  /\ UNCHANGED scheduleVars

ChunksNext == BuildSchedule \/ MaterializeSession \/ UpdateIndex \/ RetryTurn
              \/ AnswerTurn \/ NextTurn \/ RestartSession
ChunksSpec == ChunksInit /\ [][ChunksNext]_chunksVars

-----------------------------------------------------------------------------
(* When the model is asked, a search can find the gold chunk of the version   *)
(* the task is graded on and no chunk of a version it must not use: the       *)
(* updates have reached the index, in a first attempt, a retried turn and a   *)
(* session started over (e5_chunk_canary.py:627-729).                         *)
IndexServesTheGold ==
  turnState = "updated" =>
    /\ ChunkTask(Task).required \subseteq Searchable(index)
    /\ ChunkTask(Task).forbidden \cap Searchable(index) = {}

(* What is searchable of a document comes from one version of it, all of it,  *)
(* and what is current is not marked invalid (e5_chunk_canary.py:555-670).    *)
OneVersionServed ==
  /\ \A c, d \in Searchable(index) : c.doc = d.doc => c.n = d.n
  /\ \A c \in Searchable(index) : ChunksOf(Version(c.doc, c.n)) \subseteq Searchable(index)
  /\ Searchable(index) \cap index.invalidated = {}

(* Version rows are never lost: every row is current, or marked invalid; and  *)
(* a link to a successor only goes from a retired version to a newer one of   *)
(* the same chunk (e5_chunk_canary.py:567-597, 643-655).                      *)
RowsAreAccounted ==
  /\ index.rows = Searchable(index) \cup index.invalidated
  /\ \A link \in index.supersededBy :
       /\ link[1] \in index.invalidated /\ Identity(link[1]) = Identity(link[2])
       /\ link[1].n < link[2].n

(* What is asked, what is graded and what the index serves are the same       *)
(* version at every turn of every session.                                    *)
SessionsAreConsistent ==
  /\ GoldIsLive /\ CorrectionsAreLive /\ ReuseIsExact
  /\ IndexServesTheGold /\ OneVersionServed /\ RowsAreAccounted
=============================================================================
