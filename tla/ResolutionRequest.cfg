SPECIFICATION FairRequestSpec
CONSTANTS
  Contents = {c1, c2}
  Ends = {"empty", "invalid", "transient"}
  ReadsOwnWrites = TRUE
  MaxFaults = 2
INVARIANTS
  NothingForgotten
PROPERTIES
  SuccessIsFinal
  Answered
