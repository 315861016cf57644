SPECIFICATION FairSpec
CONSTANTS
  ConfLen = 4
  BufSize = 5
  PingTrials = 2
  NReq = 3
  MaxLate = 4
  Environments = {
    {"hang"},
    {"user", "refuse", "hang"},
    {"load", "refuse", "drop"},
    {"slow"},
    {"crash", "hang", "slow"},
    {"load", "user", "refuse", "crash", "hang", "blocked", "drop"}}
CHECK_DEADLOCK FALSE
INVARIANTS
  CtlSound
PROPERTIES
  WorkerLives
  HeardOf
  GoesAway
