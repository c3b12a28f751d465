CONSTANTS
  a1 = a1
  a2 = a2
  App <- TwoThreads
  Reentrant = {}
  Stale = FALSE
  RegisterTimeout = 2
  PingMargin = 2
  RespMargin = 1
  RetryDelay = 2
  QueueSize = 2
  DefaultTimeout = 3
  AppTimeouts = {0}
  ServerTimeouts = {0, 4}
  MaxGap = 1
  SyncLatency = 1
  AgeCap = 7
SPECIFICATION Spec
INVARIANTS HandshakeBounded StopIsFinal
PROPERTIES HandshakePatient KeepAlive CheckSurvivesIterate
SYMMETRY ThreadSymmetry
