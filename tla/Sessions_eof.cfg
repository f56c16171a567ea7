\* EOF overtakes the last chunk of a connection that subscribes as the session ends.
SPECIFICATION Spec
CONSTANTS
  Conns = {c1}
  MaxChunks = 2
  RingMax = 2
INVARIANTS EndsComplete
CHECK_DEADLOCK FALSE
