SPECIFICATION FairSpec
CONSTANTS
  Retries = 1
  Sidecars = TRUE
  KeepPod = TRUE
  RecoverPulls = TRUE
  Timed = TRUE
  Cancels = TRUE
  Blockers = {"step", "side"}
  Outcomes = {"resolving", "retry", "failed", "large", "badresult"}
  Failing = {"conflict", "ready", "quota", "logs", "labels"}
  ReadsOwnWrites = TRUE
  MaxFaults = 1

  
  
  
PROPERTIES
  ImplementsChildRun
