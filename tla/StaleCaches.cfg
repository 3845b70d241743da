SPECIFICATION FairSpec
CONSTANTS
  ta = ta
  tb = tb
  tc = tc
  td = td
  te = te
  tg = tg
  th = th
  fin = fin
  DagTasks <- ChainDag
  FinalTasks <- Final
  TaskOrder <- ChainOrder
  Prev <- ChainPrev
  ResultRefs <- ChainRefs
  WhenFalse <- None
  OnErrorContinue <- None
  EmptyMatrix <- None
  CustomTasks <- None
  Width <- Single
  InitSpec <- Fresh
  UserSteps <- Graceful
  Timeouts <- None
  MayFail = {ta}
  MayOmitResults <- None
  Outcomes <- Resolved
  ReadsOwnWrites = FALSE
  MaxFaults = 0
INVARIANTS DoneMeansQuiet SuccessMeansComplete
PROPERTIES DependencyOrder Completes
