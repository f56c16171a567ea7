\* Two connections, two chunks, a ring of one, a stop and an exit at any time.
SPECIFICATION Spec
CONSTANTS
  Conns = {c1, c2}
  MaxChunks = 2
  RingMax = 1
SYMMETRY ConnSymmetry
INVARIANTS TypeOK StreamExact FrameCovers EofOnItsWay
CHECK_DEADLOCK FALSE
