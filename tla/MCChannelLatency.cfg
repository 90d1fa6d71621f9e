\* latencyBased client synchronisation: the semaphore flag differs per call.
CONSTANTS
  RingCapacity = 2
  s1 = s1
  s2 = s2
  Stamps <- MCStamps
  MaxCalls = 6
  ClientSyncMethod = "latencyBased"
  ServiceSyncMethod = "activePolling"
  UseAsyncCalls = TRUE
  ServerStopAnyTime = FALSE
  NoEntry = NoEntry
  NoStamp = NoStamp
SPECIFICATION Spec
SYMMETRY StampSymmetry
INVARIANT NoLostWakeup
