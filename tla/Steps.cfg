SPECIFICATION FairPodSpec
CONSTANTS
  N = 3
  Specs <- ThreeSteps
  MayCancel = TRUE
  MayDie = {1, 2}
  BadResults = {1}
INVARIANTS
  StepOrder
PROPERTIES
  AllStepsEnd
  CancelStops
  ImplementsPodSteps
