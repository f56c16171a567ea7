\* Processes die, spawns fail, a job is deleted, and only one run per job is kept.
SPECIFICATION Spec
CONSTANTS
  chrome = chrome
  NumJobs = 2
  Groups = {chrome}
  NoGroup = NoGroup
  Group <- OneGroup
  OnSuccess <- NoChain
  OnFailure <- NoChain
  Handlers = {h1}
  Executors = {e1, e2}
  MaxRuns = 2
  MaxFires = 2
  MaxCrashes = 1
  Keep = 1
  CooldownJobs = {1}
  Ops = {"scheduled", "kill", "delete"}
  SpawnMayFail = TRUE
  BuildMayFail = TRUE
SYMMETRY ProcessSymmetry
INVARIANTS Claims
CHECK_DEADLOCK FALSE
