SPECIFICATION Spec
CONSTANTS
  a1 = a1  a2 = a2  a3 = a3  a4 = a4
  Artifact = {a1, a2, a3, a4}
  None = None
  InitAge <- AgeHere
  Size <- QualitySizes
  Critical = {a2}
  Pinned = {a4}
  Budgets = {2}
  InitBudget = 2
  Cap <- WholeCap
  PInit = 0
  PScale = 420
  KTail = 2
  NGhostMin = 1
  HarmfulNCorr = 2
  PinBudget = 0
  WithoutOutcome = FALSE
  WithoutValidityGate = FALSE
  PreloadAsHit = TRUE
  CoalesceTasks = TRUE
  DenyRevival = TRUE
  NoAdaptOnDeny = TRUE
  DiscoveredRefresh = TRUE
  ValidatedRefresh = TRUE
  TailTiebreak = TRUE
  CriticalColdApproval = TRUE
  SplitRecommendations = TRUE
  MaxQuality = 2
  Menu <- QualityMenu
INVARIANTS
  ListsDisjoint
  DirectoryIsSound
PROPERTIES
  StepsKeepTheirWord
