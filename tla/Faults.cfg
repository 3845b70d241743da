SPECIFICATION FairSpec
CONSTANTS
  ta = ta
  tb = tb
  tc = tc
  td = td
  te = te
  tg = tg
  th = th
  fin = fin
  DagTasks <- ChainDag
  FinalTasks <- Final
  TaskOrder <- ChainOrder
  Prev <- ChainPrev
  ResultRefs <- ChainRefs
  WhenFalse <- None
  OnErrorContinue <- None
  EmptyMatrix <- None
  CustomTasks <- None
  Width <- Single
  InitSpec <- Fresh
  UserSteps <- CancelOnly
  Timeouts <- None
  MayFail = {ta, tb}
  MayOmitResults <- None
  Outcomes <- AnyOutcome
  ReadsOwnWrites = TRUE
  MaxFaults = 2
PROPERTIES DoneIsFinal ChildRefsKept Completes
