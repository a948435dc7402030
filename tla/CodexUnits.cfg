\* Two waves of two units; a silent or refused turn, a late rollout, a crash; three hooks
\* of a guarded turn; two channels that tell of four calls.
SPECIFICATION MCSpec
CONSTANTS
  Units = {1, 2}
  Turns = 2
  CallUsages <- ColdAndWarm
  MaxCalls = 2
  Workers = 1
  Retries = 1
  Stop = 700
  MaxWaves = 2
  Varied = {1}
INVARIANT CellIsTrue
PROPERTY ObserversAgree
CHECK_DEADLOCK FALSE
