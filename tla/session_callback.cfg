CONSTANTS
  a1 = a1
  a2 = a2
  App <- OneThread
  Reentrant = {"stop"}
  Stale = FALSE
  RegisterTimeout = 2
  PingMargin = 2
  RespMargin = 1
  RetryDelay = 2
  QueueSize = 1
  DefaultTimeout = 3
  AppTimeouts = {3}
  ServerTimeouts = {3}
  MaxGap = 1
  SyncLatency = 1
  AgeCap = 7
SPECIFICATION Spec
INVARIANTS StopIsFinal
