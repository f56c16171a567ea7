\* Every admitted run reaches an outcome, and one with a recorded pid whatever dies.
SPECIFICATION FairSpec
CONSTANTS
  chrome = chrome
  NumJobs = 1
  Groups = {chrome}
  NoGroup = NoGroup
  Group <- OneGroup
  OnSuccess <- NoChain
  OnFailure <- NoChain
  Handlers = {h1}
  Executors = {e1, e2}
  MaxRuns = 2
  MaxFires = 2
  MaxCrashes = 1
  Keep = 20
  CooldownJobs = {}
  Ops = {"manual", "kill", "poll"}
  SpawnMayFail = TRUE
  BuildMayFail = FALSE
PROPERTIES RunsReachOutcome RecordedRunsReachOutcome
CHECK_DEADLOCK FALSE
