\* The route, dry runs and chains admit into one group beside an ungrouped job; one run per job is kept.
SPECIFICATION Spec
CONSTANTS
  chrome = chrome
  NumJobs = 3
  Groups = {chrome}
  NoGroup = NoGroup
  Group <- LastAlone
  OnSuccess <- OneThenTwo
  OnFailure <- OneThenLast
  Handlers = {h1}
  Executors = {e1, e2, e3}
  MaxRuns = 3
  MaxFires = 2
  MaxCrashes = 0
  Keep = 1
  CooldownJobs = {}
  Ops = {"manual", "dry_execute", "dry_check", "poll"}
  SpawnMayFail = FALSE
  BuildMayFail = TRUE
SYMMETRY ProcessSymmetry
INVARIANTS FollowUpsAfterOutcome EntriesAreQueued NoQueuedRunLost
CHECK_DEADLOCK FALSE
