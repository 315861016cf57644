CONSTANTS
  NReq = 2
  ReqMsg <- Requests
  RespMsg <- Responses
  ReqHead = 2
  RespHead = 2
  HttpHead = 2
  Bodies = {0, 1, 3, 5}
  Contents = {0, 3}
  MaxBody = 2
  WkrBuf = 5
  RespBuf = 4
  Environments = {{}, {"crash", "drop"}, {"split", "byte", "crash", "drop"}}
SPECIFICATION FairSpec
CHECK_DEADLOCK FALSE
INVARIANTS
  BytesIntact
  InStep
PROPERTIES
  ReqEnds
