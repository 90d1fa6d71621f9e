\* semaphores on both sides; the service may stop() mid-session (it lost
\* the client, or it shuts down) and the client then calls stop().  The
\* client blocked in semaphoreWait() is never woken: a hang, not a deadlock
\* of the model, so deadlock is not checked.
CONSTANTS
  RingCapacity = 2
  s1 = s1
  s2 = s2
  Stamps <- MCStamps
  MaxCalls = 6
  ClientSyncMethod = "semaphores"
  ServiceSyncMethod = "semaphores"
  UseAsyncCalls = TRUE
  ServerStopAnyTime = TRUE
  NoEntry = NoEntry
  NoStamp = NoStamp
SPECIFICATION Spec
SYMMETRY StampSymmetry
CHECK_DEADLOCK FALSE
PROPERTY StopAbortsWaits
