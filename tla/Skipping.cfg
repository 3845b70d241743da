SPECIFICATION FairSpec
CONSTANTS
  ta = ta
  tb = tb
  tc = tc
  td = td
  te = te
  tg = tg
  th = th
  fin = fin
  DagTasks <- JoinDag
  FinalTasks <- Final
  TaskOrder <- JoinOrder
  Prev <- JoinPrev
  ResultRefs <- JoinRefs
  WhenFalse = {ta}
  OnErrorContinue = {tb}
  EmptyMatrix = {te}
  CustomTasks <- None
  Width <- JoinWidth
  InitSpec <- Fresh
  UserSteps <- Graceful
  Timeouts <- None
  MayFail = {tb, tc}
  MayOmitResults = {tb}
  Outcomes <- Resolved
  ReadsOwnWrites = TRUE
  MaxFaults = 0
INVARIANTS SuccessMeansComplete SkippedNeverRun FinallyGuaranteed
PROPERTIES Completes
