SPECIFICATION GraphFairSpec
CONSTANTS
  Names = {a, b, c}
INVARIANTS
  NoCycleAccepted
  CycleErrorIsReal
  CandidatesExact
  SomethingCanStart
PROPERTY
  BuildReturns
