SPECIFICATION FairSpec
CONSTANTS
  ta = ta
  tb = tb
  tc = tc
  td = td
  te = te
  tg = tg
  th = th
  fin = fin
  DagTasks <- ChainDag
  FinalTasks <- Final
  TaskOrder <- ChainOrder
  Prev <- ChainPrev
  ResultRefs <- ChainRefs
  WhenFalse <- None
  OnErrorContinue <- None
  EmptyMatrix <- None
  CustomTasks <- None
  Width <- Matrix
  InitSpec <- FreshOrHeld
  UserSteps <- Anything
  Timeouts <- None
  MayFail = {ta, tb, fin}
  MayOmitResults <- None
  Outcomes <- Resolved
  ReadsOwnWrites = TRUE
  MaxFaults = 0
INVARIANTS CancelledStopsAll FannedOutAtOnce NeverStuck
PROPERTIES FinallyLast ChildrenAreChildRuns
