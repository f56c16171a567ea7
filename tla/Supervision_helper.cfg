\* The child is gone, its helper keeps the pipe, and the watchdog gives up.
SPECIFICATION FairSpec
CONSTANTS
  MaxChunks = 1
  PipeMax = 1
  QueueMax = 1
  RunMax = 2
  QuietMax = 1
PROPERTIES BreachUnwedges
CHECK_DEADLOCK FALSE
