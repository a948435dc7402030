----------------------------- MODULE MCInstall -----------------------------
(* An installation: the files a project shares with K-ARC, the database that  *)
(* its processes open, or the MCP servers that answer from it.                *)
EXTENDS Setup

CONSTANTS Openers, MaxDeaths
VARIABLES db, opener
Database == INSTANCE Migrations

CONSTANTS Servers, Retries, Lines, MaxLines, MaxOther, MaxMcpKills, Stored
VARIABLES scopes, rows, lock, file, server, others, mcpKills
Mcp == INSTANCE McpServer

mcp == <<scopes, rows, lock, file, server, others, mcpKills>>

Line(kind, id) == [kind |-> kind, id |-> id]
SomeLines == {Line("torn", 0), Line("odd", 0), Line("search", 7), Line("get", 7),
              Line("get", 0), Line("get_unknown", 7), Line("unknown", 7), Line("initialized", 0)}

InstallInit == Init /\ Database!DbInit /\ Mcp!McpInit
NoServer == others = 0 /\ \A s \in Servers : server[s] = Mcp!New
NoOpener == db = Database!EmptyDb /\ \A p \in Openers : opener[p].state = "new"
NoSetup == run = Idle /\ runs = 0 /\ edits = 0 /\ env = "plain"
InstallNext ==
  \/ NoOpener /\ NoServer /\ Next /\ UNCHANGED <<db, opener, mcp>>
  \/ NoSetup /\ NoServer /\ Database!DbNext /\ UNCHANGED <<vars, mcp>>
  \/ NoSetup /\ NoOpener /\ Mcp!McpNext /\ UNCHANGED <<vars, db, opener>>
allVars == <<vars, db, opener, mcp>>
InstallSpec ==
  /\ InstallInit /\ [][InstallNext]_allVars
  /\ \A s \in Servers : WF_allVars(NoSetup /\ NoOpener /\ Mcp!ServerStep(s) /\ UNCHANGED <<vars, db, opener>>)

(* Installing and starting in any order, next to the owner's edits, other     *)
(* processes and kills: a second init changes nothing, no process works with  *)
(* a database whose versions are not all recorded, servers agree on what is   *)
(* registered, and no answer is given without its record.                     *)
InstallIsSafe ==
  InitIsIdempotent /\ Database!UpgradeIsSafe /\ Mcp!StartsAgree /\ Mcp!AnswersMatchRecords

(* Every request that a server has read is answered, though the database is   *)
(* locked as often as its timeout allows (mcp/server.py:83-166).              *)
ClientsAreAnswered == Mcp!ClientsAreAnswered

(* "never crash the loop on a single bad call" (mcp/server.py:164).           *)
LoopSurvives == Mcp!LoopSurvives
=============================================================================
