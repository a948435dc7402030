SPECIFICATION Spec
CONSTANTS
  a1 = a1  a2 = a2  a3 = a3  a4 = a4
  Artifact = {a1, a2, a3, a4}
  None = None
  InitAge <- AgeHere
  Size <- SizeHere
  Critical = {a2}
  Pinned = {}
  Budgets = {2, 4}
  InitBudget = 4
  Cap <- WholeCap
  PInit = 0
  PScale = 420
  KTail = 2
  NGhostMin = 1
  HarmfulNCorr = 2
  PinBudget = 3
  WithoutOutcome = FALSE
  WithoutValidityGate = FALSE
  PreloadAsHit = FALSE
  CoalesceTasks = TRUE
  DenyRevival = FALSE
  NoAdaptOnDeny = FALSE
  DiscoveredRefresh = FALSE
  ValidatedRefresh = FALSE
  TailTiebreak = FALSE
  CriticalColdApproval = TRUE
  SplitRecommendations = TRUE
  MaxQuality = 2
  Menu <- BudgetMenu
INVARIANTS
  TypeOK
  ResidentWithinBudget
PROPERTIES
  StepsKeepTheirWord
  HandlerEnds
