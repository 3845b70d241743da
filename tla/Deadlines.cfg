SPECIFICATION FairSpec
CONSTANTS
  ta = ta
  tb = tb
  tc = tc
  td = td
  te = te
  tg = tg
  th = th
  fin = fin
  DagTasks <- ChainDag
  FinalTasks <- Final
  TaskOrder <- ChainOrder
  Prev <- ChainPrev
  ResultRefs <- ChainRefs
  WhenFalse <- None
  OnErrorContinue <- None
  EmptyMatrix <- None
  CustomTasks = {tb}
  Width <- Single
  InitSpec <- Fresh
  UserSteps <- GracefulCancel
  Timeouts <- AllDeadlines
  MayFail = {ta}
  MayOmitResults <- None
  Outcomes <- Resolved
  ReadsOwnWrites = TRUE
  MaxFaults = 0
INVARIANTS TimeoutEnforced DoneMeansQuiet
PROPERTIES Completes
