\* A console that wedges and breaks, a helper that outlives the child, both ceilings.
SPECIFICATION FairSpec
CONSTANTS
  MaxChunks = 3
  PipeMax = 1
  QueueMax = 1
  RunMax = 2
  QuietMax = 1
INVARIANTS TypeOK ConsoleFaithful KilledIsStamped
PROPERTIES PipeDrains  ChildEnds
CHECK_DEADLOCK FALSE
