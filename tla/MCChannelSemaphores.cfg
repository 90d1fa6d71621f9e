\* semaphores on both sides, asynchronous calls enabled; the client may
\* stop() at any time, the service in an orderly teardown.
CONSTANTS
  RingCapacity = 2
  s1 = s1
  s2 = s2
  Stamps <- MCStamps
  MaxCalls = 6
  ClientSyncMethod = "semaphores"
  ServiceSyncMethod = "semaphores"
  UseAsyncCalls = TRUE
  ServerStopAnyTime = FALSE
  NoEntry = NoEntry
  NoStamp = NoStamp
SPECIFICATION Spec
SYMMETRY StampSymmetry
INVARIANT StampsExclusive
INVARIANT HeapSpaceLive
INVARIANT ResultReadyOnReturn
INVARIANT BackpressureRetrySucceeds
INVARIANT HeapDemandBounded
INVARIANT NoLostWakeup
PROPERTY CallsReturn
PROPERTY ServerStopsAfterStop
