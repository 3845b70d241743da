SPECIFICATION FairSpec
CONSTANTS
  ta = ta
  tb = tb
  tc = tc
  td = td
  te = te
  tg = tg
  th = th
  fin = fin
  DagTasks <- ChainDag
  FinalTasks <- Final
  TaskOrder <- ChainOrder
  Prev <- ChainPrev
  ResultRefs <- ChainRefs
  WhenFalse <- None
  OnErrorContinue <- None
  EmptyMatrix = {tb}
  CustomTasks <- None
  Width <- Single
  InitSpec <- Fresh
  UserSteps <- None
  Timeouts <- None
  MayFail <- None
  MayOmitResults <- None
  Outcomes <- Resolved
  ReadsOwnWrites = TRUE
  MaxFaults = 0
PROPERTIES EmptyMatrixSkipped
