\* Two application threads, one translation each, of up to three handles
\* in either direction (four, to reach the OUT_OF_DEVICE_MEMORY return);
\* the connection may fail and the service may refuse a reverse transfer.
CONSTANTS
    t1 = t1
    t2 = t2
    fa = fa
    fb = fb
    NoFile = NoFile
    NoConnOwner = NoConnOwner
    IpcThreads <- MCThreads
    Files <- MCFiles
    RFds = {1, 2, 3}
    LFds = {1, 2, 3, 4, 5}
    RemoteInit <- MCRemoteInit
    LocalInit <- MCLocalInit
    MaxHandlesCount = 3
    MaxIpcCalls = 1
    ConnMayFail = TRUE
SPECIFICATION IpcSpec
INVARIANT FdsTranslated
PROPERTY IpcCallsReturn
