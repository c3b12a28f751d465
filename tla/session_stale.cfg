CONSTANTS
  a1 = a1
  a2 = a2
  App <- OneThread
  Reentrant = {"stop", "config"}
  Stale = TRUE
  RegisterTimeout = 1
  PingMargin = 1
  RespMargin = 1
  RetryDelay = 2
  QueueSize = 2
  DefaultTimeout = 2
  AppTimeouts = {0}
  ServerTimeouts = {1, 2}
  MaxGap = 1
  SyncLatency = 1
  AgeCap = 5
SPECIFICATION FairSpec
INVARIANTS TypeOK DeadPeerDetected
PROPERTIES Reconnects NoFalseActivityTimeout RetryPaced
