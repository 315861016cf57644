SPECIFICATION Spec
CONSTANTS
  None = None
  p1 = p1
  p2 = p2
  p3 = p3
  p4 = p4
  r1 = r1
  r2 = r2
  r3 = r3
  c1 = c1
  c2 = c2
  v1 = v1
  v2 = v2
  Pid = {p1,p2,p3}
  Req = {r1,r2}
  Ctl = {c1,c2}
  Conf = {v1,v2}
  MinWorker <- Min1
  MaxWorker <- Max1
  WorkerMax = 1
  PendingCap = 2
  MsgQueueSize = 1
  AddTrials = 2
  PingTrials = 0
  MaxReqRatio = 1
  MinReqRatio = 3
  Faults = {"load","connect"}
  FaultBudget = 1
SYMMETRY SymmetryAll
CHECK_DEADLOCK FALSE
INVARIANTS
  TypeOK
  Accounted
  PendingWatched
  QueuesFit
  RestartHasConf
  ReloadIsUniform
PROPERTIES
  RequestsLive
  NotForgotten
