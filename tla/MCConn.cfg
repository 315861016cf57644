SPECIFICATION FairSpec
CONSTANTS
  NReq = 3
  MaxParts = 2
  ServerKeepAlive = TRUE
  Environments = {
    {"garbage", "reject", "removed", "close"},
    {"reject", "lost", "removed", "close"},
    {"garbage", "reject", "lost", "removed", "close"},
    {"garbage", "upload", "reject", "close"},
    {"reject", "unsent", "removed", "close"},
    {"garbage", "unsent", "close"}}
CHECK_DEADLOCK FALSE
INVARIANTS
  ConnSound
  InOrder
  NeverDangling
PROPERTIES
  RequestsLive
  ConnectionEnds
