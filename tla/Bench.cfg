\* Two threads under either budget, with a kill between any two steps; or four
\* sessions, scheduled and then run over the chunk index.
SPECIFICATION BenchSpec
CONSTANTS
  Arms = {"karc", "rag"}
  Sessions = {1}
  Schedule <- MCSchedule
  Length = 2
  Workers = {1, 2}
  SpendCap = 5
  InfraCap = 3
  Failures = {"usage_limit"}
  CallCap = 7
  MaxResumes = 1
  Histories <- MCHistories
  MaxAttempts = 2
  MaxCrashes = 1
  Anchors <- MCAnchors
  Stable <- MCStable
  Boundaries <- MCBoundaries
  Gold <- MCGold
  SessionCount = 4
  SessionLength = 4
  Repeats = 6
  MaxRestarts = 1
INVARIANTS
  NoSlotLeaks
  CapsHold
  SessionsAreConsistent
PROPERTIES
  LedgerIsTrue
  WaitersReturn
CHECK_DEADLOCK FALSE
