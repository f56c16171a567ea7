\* Every service in turn, on a small instance.
SPECIFICATION Spec
INVARIANTS TypeOK  AccessEarned  CoverageHonest   WindowsSound    VersionsHonest RecordSound WalkExact NoFalseMiss
PROPERTIES EveryConnectionEnds StopEndsSession 
\* Bounded clients and clocks run out.
CHECK_DEADLOCK FALSE
