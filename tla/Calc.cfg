\* Every calculation over all its bounded inputs; a state is one input.
SPECIFICATION Spec
INVARIANTS
  BenchIsSound
  PiIsSound
  ReplayIsFair
  SimulationsAreSound
  ArmsAreComparable
CHECK_DEADLOCK FALSE
