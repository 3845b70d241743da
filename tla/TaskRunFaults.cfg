SPECIFICATION FairSpec
CONSTANTS
  Retries = 1
  Sidecars = FALSE
  KeepPod = FALSE
  RecoverPulls = FALSE
  Timed = TRUE
  Cancels = FALSE
  Blockers = {"config"}
  Outcomes = {"invalid"}
  Failing = {"stop", "kill", "create", "status", "crash", "lost"}
  ReadsOwnWrites = TRUE
  MaxFaults = 1
INVARIANTS
  ArchivedForGood
  TruthfulSuccess
PROPERTIES
  Settles
