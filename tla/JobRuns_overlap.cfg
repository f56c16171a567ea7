\* A job fired twice: its newest run has ended, the older one still runs.
SPECIFICATION Spec
CONSTANTS
  chrome = chrome
  NumJobs = 2
  Groups = {chrome}
  NoGroup = NoGroup
  Group <- OneGroup
  OnSuccess <- NoChain
  OnFailure <- NoChain
  Handlers = {h1}
  Executors = {e1, e2, e3}
  MaxRuns = 3
  MaxFires = 3
  MaxCrashes = 0
  Keep = 20
  CooldownJobs = {}
  Ops = {"manual"}
  SpawnMayFail = FALSE
  BuildMayFail = FALSE
SYMMETRY ProcessSymmetry
INVARIANTS NoOverlap
CHECK_DEADLOCK FALSE
