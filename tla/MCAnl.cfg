CONSTANTS
  Rate = 1
  LastHit = 2
  Hits = 3
  Environments = {{"stop"}, {"preempt"}}
SPECIFICATION FairSpec
CHECK_DEADLOCK FALSE
INVARIANTS
  CountsRight
PROPERTIES
  ShownInGraphs
