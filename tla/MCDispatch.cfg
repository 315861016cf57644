SPECIFICATION Spec
CONSTANTS
  None = None
  p1 = p1
  p2 = p2
  p3 = p3
  p4 = p4
  r1 = r1
  r2 = r2
  r3 = r3
  c1 = c1
  c2 = c2
  v1 = v1
  v2 = v2
  Pid = {p1,p2,p3}
  Req = {r1,r2,r3}
  Ctl = {}
  Conf = {v1}
  MinWorker <- Min1
  MaxWorker <- Max2
  WorkerMax = 2
  PendingCap = 2
  MsgQueueSize = 2
  AddTrials = 2
  PingTrials = 1
  MaxReqRatio = 1
  MinReqRatio = 3
  Faults = {"crash","hang"}
  FaultBudget = 2
SYMMETRY Symmetry
INVARIANTS
  WorkConserving
  Accounted
  SentWatched
  AtMostMax
