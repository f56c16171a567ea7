\* A fire queued just after the holder drained.
SPECIFICATION Spec
CONSTANTS
  chrome = chrome
  NumJobs = 2
  Groups = {chrome}
  NoGroup = NoGroup
  Group <- OneGroup
  OnSuccess <- NoChain
  OnFailure <- NoChain
  Handlers = {h1}
  Executors = {e1, e2}
  MaxRuns = 2
  MaxFires = 2
  MaxCrashes = 0
  Keep = 20
  CooldownJobs = {}
  Ops = {"manual"}
  SpawnMayFail = FALSE
  BuildMayFail = FALSE
SYMMETRY ProcessSymmetry
INVARIANTS NeverWedged
CHECK_DEADLOCK FALSE
