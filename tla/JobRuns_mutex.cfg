\* Kills, reaping polls and fires of two grouped jobs race.
SPECIFICATION Spec
CONSTANTS
  chrome = chrome
  NumJobs = 2
  Groups = {chrome}
  NoGroup = NoGroup
  Group <- OneGroup
  OnSuccess <- NoChain
  OnFailure <- NoChain
  Handlers = {h1, h2}
  Executors = {e1, e2}
  MaxRuns = 2
  MaxFires = 2
  MaxCrashes = 0
  Keep = 20
  CooldownJobs = {}
  Ops = {"manual", "kill", "poll"}
  SpawnMayFail = FALSE
  BuildMayFail = FALSE
SYMMETRY ProcessSymmetry
INVARIANTS TypeOK StartedOnce  
PROPERTIES KillSticky 
CHECK_DEADLOCK FALSE
