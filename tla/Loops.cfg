\* Grids and resumable loops of three units on two threads; or a pilot and the
\* wave it belongs to.
SPECIFICATION LoopsSpec
CONSTANTS
  u1 = u1  u2 = u2  u3 = u3
  Order <- ThreeUnits
  Replies <- ClaudeReplies
  Grades = {"task"}
  Pin = "pin"
  MaxRetries = 1
  Concurrency = 2
  MaxWindows = 2
  Cap = 4
  Processes = 2
  CutOff = CutOff
  Mangled = Mangled
  s1 = s1  s2 = s2
  Karc = Karc  Rag = Rag
  Sessions <- TwoSessions
  Tok <- OneToken
  Turns = 2
  Workers = 2
  Retries = 1
  Stop = 3
  n1 = n1  n2 = n2
  Namespaces = {n1, n2}
  Requests <- PilotThenWave
  NoResult = NoResult
  Torn = Torn
INVARIANTS
  HarnessIsSound
  ResultsAreTrue
  SummaryIsComplete
  BooksAreSound
PROPERTIES
  CompletedStays
  ExecutionsEnd
CHECK_DEADLOCK FALSE
