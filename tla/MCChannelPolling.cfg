\* activePolling on both sides, asynchronous calls enabled; either side may
\* stop() at any time.
CONSTANTS
  RingCapacity = 2
  s1 = s1
  s2 = s2
  Stamps <- MCStamps
  MaxCalls = 6
  ClientSyncMethod = "activePolling"
  ServiceSyncMethod = "activePolling"
  UseAsyncCalls = TRUE
  ServerStopAnyTime = TRUE
  NoEntry = NoEntry
  NoStamp = NoStamp
SPECIFICATION Spec
SYMMETRY StampSymmetry
INVARIANT TypeOK
INVARIANT StampsExclusive
INVARIANT HeapSpaceLive
INVARIANT ResultReadyOnReturn
INVARIANT BackpressureRetrySucceeds
INVARIANT HeapDemandBounded
PROPERTY CallsReturn
PROPERTY StopAbortsWaits
