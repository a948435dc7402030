----------------------------- MODULE McpServer -----------------------------
(* The MCP servers of one project (mcp/server.py): each runtime starts a      *)
(* process of its own, which opens the shared database, finds or makes the    *)
(* scope's row and then answers one line at a time.  A search or a get runs   *)
(* in one write transaction, for which it waits a bounded number of times.    *)
(* Other processes (hooks, init) take the database's write lock too, and the  *)
(* file a get serves may come and go while it is served.  A line is           *)
(* [kind, id]; id 0 stands for a line that has none.                          *)
EXTENDS Naturals, Sequences, FiniteSets, FiniteSetsExt, SequencesExt

CONSTANTS
  Servers,
  Retries,      \* of _begin_immediate, before the final attempt (15 in the code)
  Lines,        \* what a client may send
  MaxLines, MaxOther, MaxMcpKills,
  Stored        \* the CAS holds the artifact's current version

VARIABLES
  scopes,       \* who inserted each row of scopes for this root
  rows,         \* <<server, line, what>>: the committed rows of mcp calls
  lock,         \* who holds the write lock
  file,         \* the artifact's file is there
  server,       \* its state; lines it has read; replies it has written
  others, mcpKills
mcpVars == <<scopes, rows, lock, file, server, others, mcpKills>>

NoOne == "no_one"
Calls == {"search", "get", "get_unknown"}
\* The kinds that are answered although the line has no id.
Immediate == {"ping"} \cup Calls
Owed(line) == line.kind = "torn" \/ line.kind \in Immediate \/ (line.id # 0 /\ line.kind \notin {"blank", "initialized", "odd"})

New == [phase |-> "starting", attempt |-> 0, pending |-> {}, lines |-> <<>>, replies |-> <<>>, answer |-> "none", why |-> "none"]
McpInit ==
  /\ scopes = {} /\ rows = {} /\ lock = NoOne /\ file = TRUE
  /\ server = [s \in Servers |-> New]
  /\ others = 0 /\ mcpKills = 0

Now(s) == Len(server[s].lines)
Line(s) == Last(server[s].lines)
Goes(s, state) == server' = [server EXCEPT ![s] = state]
Dies(s, why) == Goes(s, [server[s] EXCEPT !.phase = "dead", !.why = why, !.pending = {}])
Answers(s, answer) == Goes(s, [server[s] EXCEPT !.phase = "answering", !.answer = answer, !.pending = {}, !.attempt = 0])

-----------------------------------------------------------------------------
(* _begin_immediate: an attempt, of which the last one raises.                *)
\* Mutant of LockIsFree: a deferred BEGIN takes no write lock.
LockIsDeferred(s) == lock \in {NoOne} \cup Servers
LockIsFree(s) == lock = NoOne
Begin(s) ==
  /\ server[s].phase \in {"starting", "trying"}
  /\ LockIsFree(s)
  /\ lock' = s
  /\ Goes(s, [server[s] EXCEPT !.phase = IF @ = "starting" THEN "scoping" ELSE "calling", !.attempt = 0])
  /\ UNCHANGED <<scopes, rows, file, others, mcpKills>>
\* Mutant of Counted: a busy database is tried for ever.
CountedNot(attempt) == attempt
Counted(attempt) == attempt + 1
Wait(s) ==
  /\ server[s].phase \in {"starting", "trying"}
  /\ ~LockIsFree(s) /\ server[s].attempt < Retries
  /\ Goes(s, [server[s] EXCEPT !.attempt = Counted(@)])
  /\ UNCHANGED <<scopes, rows, lock, file, others, mcpKills>>
GiveUp(s) ==
  /\ server[s].phase \in {"starting", "trying"}
  /\ ~LockIsFree(s) /\ server[s].attempt = Retries
  /\ IF server[s].phase = "starting" THEN Dies(s, "locked") ELSE Answers(s, "error")
  /\ UNCHANGED <<scopes, rows, lock, file, others, mcpKills>>

(* ensure_scope and its COMMIT.                                               *)
FindScope(s) ==
  /\ server[s].phase = "scoping"
  /\ Goes(s, [server[s] EXCEPT !.phase = IF scopes # {} THEN "idle" ELSE "inserting"])
  /\ lock' = IF scopes # {} THEN NoOne ELSE lock
  /\ UNCHANGED <<scopes, rows, file, others, mcpKills>>
InsertScope(s) ==
  /\ server[s].phase = "inserting"
  /\ lock' = NoOne
  /\ IF scopes = {} THEN scopes' = {s} /\ Goes(s, [server[s] EXCEPT !.phase = "idle"])
     ELSE Dies(s, "duplicate") /\ UNCHANGED scopes
  /\ UNCHANGED <<rows, file, others, mcpKills>>

-----------------------------------------------------------------------------
(* serve and handle_message.                                                  *)
AnswerTo(line) ==
  CASE line.kind = "torn" -> "parse_error"
    [] line.kind = "ping" -> "ok"
    [] OTHER -> "error"   \* an unknown method or tool
Read(s, line) ==
  LET read == [server[s] EXCEPT !.lines = Append(@, line)] IN
  /\ server[s].phase = "idle" /\ MapThenSumSet(Now, Servers) < MaxLines
  /\ CASE line.kind = "odd" -> Goes(s, [read EXCEPT !.phase = "dead", !.why = "odd_line"])
       [] line.kind \in Calls -> Goes(s, [read EXCEPT !.phase = "trying"])
       [] Owed(line) /\ line.kind \notin Calls -> Goes(s, [read EXCEPT !.phase = "answering", !.answer = AnswerTo(line)])
       [] OTHER -> Goes(s, read)
  /\ UNCHANGED <<scopes, rows, lock, file, others, mcpKills>>

Row(s, what) == <<s, Now(s), what>>
\* The fn of _in_txn: a get looks whether the file is there before it opens it.
Call(s) ==
  /\ server[s].phase = "calling"
  /\ Goes(s, IF Line(s).kind = "get" /\ file THEN [server[s] EXCEPT !.phase = "opening"]
             ELSE [server[s] EXCEPT !.phase = "committing",
                     !.pending = {Row(s, "observation")} \cup IF Line(s).kind = "get_unknown" THEN {} ELSE {Row(s, "event")},
                     !.answer = IF Line(s).kind = "get_unknown" THEN "not_found"
                                ELSE IF Line(s).kind = "get" /\ ~Stored THEN "empty" ELSE "ok"])
  /\ UNCHANGED <<scopes, rows, lock, file, others, mcpKills>>
Open(s) ==
  /\ server[s].phase = "opening"
  /\ file
  /\ Goes(s, [server[s] EXCEPT !.phase = "committing", !.answer = "ok", !.pending = {Row(s, "observation"), Row(s, "event")}])
  /\ UNCHANGED <<scopes, rows, lock, file, others, mcpKills>>
\* The file is gone: the exception rolls the transaction back.
\* Mutant of Rollback: what the call has written so far is committed.
RollbackKeeps(s) == /\ rows' = rows \cup {Row(s, "observation")} /\ lock' = NoOne
Rollback(s) == lock' = NoOne /\ UNCHANGED rows
FailOpen(s) ==
  /\ server[s].phase = "opening"
  /\ ~file
  /\ Rollback(s)
  /\ Answers(s, "error")
  /\ UNCHANGED <<scopes, file, others, mcpKills>>
Commit(s) ==
  /\ server[s].phase = "committing"
  /\ rows' = rows \cup server[s].pending
  /\ lock' = NoOne
  /\ Answers(s, server[s].answer)
  /\ UNCHANGED <<scopes, file, others, mcpKills>>

\* The except clauses are silent for a notification.
Replied(s) == server[s].answer # "error" \/ Line(s).id # 0
Reply(s) ==
  /\ server[s].phase = "answering"
  /\ Goes(s, [server[s] EXCEPT !.phase = "idle", !.answer = "none",
                !.replies = IF Replied(s)
                            THEN Append(@, [line |-> Now(s), id |-> IF server[s].answer = "parse_error" THEN 0 ELSE Line(s).id,
                                            answer |-> server[s].answer])
                            ELSE @])
  /\ UNCHANGED <<scopes, rows, lock, file, others, mcpKills>>

-----------------------------------------------------------------------------
(* The other processes.                                                       *)
OtherTakes ==
  /\ lock = NoOne /\ others < MaxOther
  /\ lock' = "other" /\ others' = others + 1
  /\ UNCHANGED <<scopes, rows, file, server, mcpKills>>
\* Some of them run ensure_scope as well.
OtherLeaves ==
  /\ lock = "other"
  /\ lock' = NoOne
  /\ scopes' \in {scopes, IF scopes = {} THEN {"other"} ELSE scopes}
  /\ UNCHANGED <<rows, file, server, others, mcpKills>>
FileChanges ==
  /\ others < MaxOther
  /\ file' = ~file /\ others' = others + 1
  /\ UNCHANGED <<scopes, rows, lock, server, mcpKills>>
\* A process that dies holds no lock, and what it had not committed is gone.
Kill(s) ==
  /\ mcpKills < MaxMcpKills /\ server[s].phase # "dead"
  /\ Dies(s, "killed")
  /\ lock' = IF lock = s THEN NoOne ELSE lock
  /\ mcpKills' = mcpKills + 1
  /\ UNCHANGED <<scopes, rows, file, others>>

ServerStep(s) ==
  \/ Begin(s) \/ Wait(s) \/ GiveUp(s) \/ FindScope(s) \/ InsertScope(s)
  \/ Call(s) \/ Open(s) \/ FailOpen(s) \/ Commit(s) \/ Reply(s)
McpNext ==
  \/ \E s \in Servers : ServerStep(s) \/ Kill(s) \/ \E line \in Lines : Read(s, line)
  \/ OtherTakes \/ OtherLeaves \/ FileChanges

-----------------------------------------------------------------------------
Working == {"trying", "calling", "opening", "committing", "answering"}
\* The lines whose turn is over.
Done(s) == IF server[s].phase \in Working \cup {"dead"} THEN 1 .. Now(s) - 1 ELSE 1 .. Now(s)
RowsOf(s, n) == {r[3] : r \in {r \in rows : r[1] = s /\ r[2] = n}}
RepliesTo(s, n) == {r \in Range(server[s].replies) : r.line = n}
RowsFor(line) == IF line.kind = "get_unknown" THEN {"observation"} ELSE {"observation", "event"}

(* What a server has told its client is what it has recorded: each line that  *)
(* is due an answer has one, with its id and in order; a call that was        *)
(* answered has left all of its rows, one that failed none, and one that was  *)
(* cut off all or none (mcp/server.py:125-167, mcp/ingest.py:186-230).        *)
AnswersMatchRecords ==
  \A s \in Servers :
    /\ \A i, j \in DOMAIN server[s].replies : i < j => server[s].replies[i].line < server[s].replies[j].line
    /\ \A n \in 1 .. Now(s) :
         LET line == server[s].lines[n]
             replies == RepliesTo(s, n)
         IN /\ \A r \in replies : Owed(line) /\ r.id = IF line.kind = "torn" THEN 0 ELSE line.id
            /\ n \in Done(s) /\ Owed(line) => replies # {} \/ line.id = 0
            /\ RowsOf(s, n) \in {{}, RowsFor(line)}
            /\ \A r \in replies : r.answer \in {"error", "parse_error"} => RowsOf(s, n) = {}
            /\ n \in Done(s) /\ line.kind \in Calls =>
                 (RowsOf(s, n) # {}) = (\E r \in replies : r.answer \in {"ok", "empty", "not_found"})

(* Servers that start together, beside an init, end up with one scope: none   *)
(* of them fails on the row another has inserted (mcp/server.py:83-112).      *)
StartsAgree ==
  \A s \in Servers :
    /\ server[s].why # "duplicate"
    /\ server[s].phase \in {"idle"} \cup Working => Cardinality(scopes) = 1

(* Whoever holds the database, for ever even, a client gets its answer: the   *)
(* waits for the lock are counted (mcp/server.py:116-123).                    *)
ClientsAreAnswered ==
  \A s \in Servers :
    server[s].phase \notin {"idle", "dead"} /\ server[s] # New ~> server[s].phase \in {"idle", "dead"}

(* The comment at mcp/server.py:164, "never crash the loop on a single bad    *)
(* call": a server ends because it was killed or could not start.             *)
LoopSurvives == \A s \in Servers : server[s].why # "odd_line"
=============================================================================
