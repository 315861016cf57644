SPECIFICATION FairSpec
CONSTANTS
  None = None
  p1 = p1
  p2 = p2
  p3 = p3
  p4 = p4
  r1 = r1
  r2 = r2
  r3 = r3
  c1 = c1
  c2 = c2
  v1 = v1
  v2 = v2
  Pid = {p1,p2,p3}
  Req = {r1}
  Ctl = {c1}
  Conf = {v1}
  MinWorker <- Min1
  MaxWorker <- Max2
  WorkerMax = 2
  PendingCap = 2
  MsgQueueSize = 1
  AddTrials = 2
  PingTrials = 0
  MaxReqRatio = 0
  MinReqRatio = 0
  Faults = {"boot","load","connect","hang"}
  FaultBudget = 1
PROPERTIES
  Decided
  AdminAnswered
CHECK_DEADLOCK FALSE
