\* Two runs of init among two edits and a kill, or three processes that open one
\* database, or two MCP servers that read two lines between them
\* among other writers.
SPECIFICATION InstallSpec
CONSTANTS
  Environments = {"plain"}
  MaxRuns = 2
  MaxEdits = 2
  MaxKills = 1
  Openers = {p1, p2, p3}
  MaxDeaths = 1
  Servers = {s1, s2}
  Retries = 1
  Lines <- SomeLines
  MaxLines = 2
  MaxOther = 2
  MaxMcpKills = 1
  Stored = FALSE
INVARIANT InstallIsSafe
PROPERTIES
  OwnersContentKept
  ClientsAreAnswered
CHECK_DEADLOCK FALSE
