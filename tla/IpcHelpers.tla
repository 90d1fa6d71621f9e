------------------------------ MODULE IpcHelpers ------------------------------
(***************************************************************************)
(* The client's IPC handle translation (src/client/icd/level_zero/         *)
(* api_customization/icd_level_zero_ipc_helpers.h).  An IPC handle carries *)
(* a file descriptor: the service's number for it (remote) or the client  *)
(* process's (local).  toLocalFds and toRemoteFds rewrite a batch of       *)
(* handles in place: fds the platform already maps are translated from its *)
(* cache; if none is, the whole batch is exchanged with the service over   *)
(* the client's connection (ReqTransferFd and SCM_RIGHTS one way,          *)
(* ReqReverseTransferFd, sendFds and RespReverseTransferFd the other); if  *)
(* some are, each remaining handle is translated by a nested call on its   *)
(* own.  The connection's lock is held for the whole call and is taken     *)
(* again by the nested call.  A file descriptor is a number naming a file  *)
(* in one process's fd table; the kernel hands out the lowest free number. *)
(***************************************************************************)
EXTENDS Naturals, Sequences, FiniteSets, SequencesExt

CONSTANTS
    IpcThreads,       \* application threads translating IPC handles
    Files,            \* the memory objects the descriptors refer to
    RFds, LFds,       \* fd numbers of the service and of the client process
    RemoteInit,       \* the service's fd table when the calls begin
    LocalInit,        \* the client's fd table when the calls begin
    MaxHandlesCount,  \* ReqTransferFd::maxFdsCount
    MaxIpcCalls,      \* bound: calls per thread
    ConnMayFail,      \* whether the connection's send/receive may fail
    NoFile,           \* a free fd number
    NoConnOwner       \* the connection's mutex is free

ASSUME /\ RemoteInit \in [RFds -> Files \cup {NoFile}]
       /\ LocalInit \in [LFds -> Files \cup {NoFile}]
       /\ ConnMayFail \in BOOLEAN

VARIABLES
    rFile,       \* the service's fd table
    lFile,       \* the client's fd table
    fdMap,       \* the platform's known <<remote, local>> fd pairs
    toService,   \* requests on the connection, in order
    toClient,    \* replies on the connection, in order
    broken,      \* a send or receive on the connection failed
    connOwner,   \* the connection's mutex: holder
    connDepth,   \*   and how often the holder took it
    ipc          \* each thread's toLocalFds / toRemoteFds call

ipcVars == <<rFile, lFile, fdMap, toService, toClient, broken, connOwner,
             connDepth, ipc>>

IpcInit ==
    /\ rFile = RemoteInit /\ lFile = LocalInit /\ fdMap = {}
    /\ toService = <<>> /\ toClient = <<>> /\ broken = FALSE
    /\ connOwner = NoConnOwner /\ connDepth = 0
    /\ ipc = [t \in IpcThreads |-> [pc |-> "idle", dir |-> "toLocal", h |-> <<>>,
                                    orig |-> <<>>, pend |-> <<>>, ix |-> <<>>,
                                    inner |-> FALSE, calls |-> 0, ret |-> "none"]]
-----------------------------------------------------------------------------
(* The lowest n free numbers of an fd table. *)
FreeFds(table) == {fd \in DOMAIN table : table[fd] = NoFile}
Alloc(table, n) == SubSeq(SetToSortSeq(FreeFds(table), <), 1, n)

(* The platform's lookups: translateRemoteFDToLocalFD(fd, true) and       *)
(* translateLocalFDToRemoteFD(fd, RemoteFd::invalid()).                    *)
Known(dir, fd) ==
    \E p \in fdMap : IF dir = "toLocal" THEN p[1] = fd ELSE p[2] = fd
Translate(dir, fd) ==
    LET p == CHOOSE p \in fdMap : IF dir = "toLocal" THEN p[1] = fd ELSE p[2] = fd
    IN  IF dir = "toLocal" THEN p[2] ELSE p[1]

(* The handles the current exchange carries. *)
Batch(c) == [k \in DOMAIN c.ix |-> c.h[c.ix[k]]]

(* The call returns r with its handles as in c; its lock, and a nested   *)
(* call's, is released.                                                    *)
Return(t, c, r) ==
    /\ ipc' = [ipc EXCEPT ![t] = [c EXCEPT !.pc = "idle", !.ret = r, !.inner = FALSE]]
    /\ connOwner' = NoConnOwner /\ connDepth' = 0

(* An exchange succeeded: a nested call returns to the outer loop and      *)
(* unlocks once, an outer call returns ZE_RESULT_SUCCESS.                  *)
Exchanged(t, c) ==
    IF c.inner
    THEN /\ ipc' = [ipc EXCEPT ![t] = [c EXCEPT !.pc = "mixed", !.inner = FALSE]]
         /\ connDepth' = connDepth - 1
         /\ UNCHANGED connOwner
    ELSE Return(t, c, "success")

(* The application asks for a batch of handles to be translated. *)
Begin(t, dir, hs) ==
    /\ ipc[t].pc = "idle" /\ ipc[t].calls < MaxIpcCalls
    /\ ipc' = [ipc EXCEPT ![t] = [@ EXCEPT !.pc = "lock", !.dir = dir, !.h = hs,
                                  !.orig = hs, !.calls = @ + 1, !.ret = "none"]]
    /\ UNCHANGED <<rFile, lFile, fdMap, toService, toClient, broken, connOwner, connDepth>>

(* Defect variant of LockConnection: a mutex its holder cannot take again. *)
LockConnectionNonRecursive(t) ==
    /\ ipc[t].pc \in {"lock", "innerLock"}
    /\ connOwner = NoConnOwner
    /\ connOwner' = t /\ connDepth' = connDepth + 1
    /\ ipc' = [ipc EXCEPT ![t].pc = IF @ = "lock" THEN "lookup" ELSE "innerLookup"]
    /\ UNCHANGED <<rFile, lFile, fdMap, toService, toClient, broken>>

(* auto lock = connection.lock(), in the call and in a nested call. *)
LockConnection(t) ==
    /\ ipc[t].pc \in {"lock", "innerLock"}
    /\ connOwner \in {NoConnOwner, t}
    /\ connOwner' = t /\ connDepth' = connDepth + 1
    /\ ipc' = [ipc EXCEPT ![t].pc = IF @ = "lock" THEN "lookup" ELSE "innerLookup"]
    /\ UNCHANGED <<rFile, lFile, fdMap, toService, toClient, broken>>

(* The handles of a batch the platform already maps, translated in place; *)
(* the rest are left as they are.                                          *)
TranslateKnown(dir, h) ==
    [i \in DOMAIN h |-> IF Known(dir, h[i]) THEN Translate(dir, h[i]) ELSE h[i]]

(* The batch is rewritten at positions ix with the values vals. *)
Rewrite(h, ix, vals) ==
    [i \in DOMAIN h |-> IF \E k \in DOMAIN ix : ix[k] = i
                        THEN vals[CHOOSE k \in DOMAIN ix : ix[k] = i] ELSE h[i]]

(* More handles than a request carries: ZE_RESULT_ERROR_OUT_OF_DEVICE_     *)
(* MEMORY.  Otherwise the known ones are translated; if there were any,   *)
(* the others are done one by one, else the batch goes to the service.    *)
Lookup(t) ==
    LET c == ipc[t]
        known == {i \in DOMAIN c.h : Known(c.dir, c.h[i])}
    IN  /\ c.pc = "lookup"
        /\ IF Len(c.h) > MaxHandlesCount
           THEN Return(t, c, "outOfDeviceMemory")
           ELSE /\ ipc' = [ipc EXCEPT ![t] =
                     [c EXCEPT !.h = TranslateKnown(c.dir, c.h),
                               !.pc = IF known # {} THEN "mixed" ELSE "send",
                               !.pend = SetToSortSeq(DOMAIN c.h \ known, <),
                               !.ix = [i \in DOMAIN c.h |-> i]]]
                /\ UNCHANGED <<connOwner, connDepth>>
        /\ UNCHANGED <<rFile, lFile, fdMap, toService, toClient, broken>>

(* The loop over the handles not known: a nested call for each; the       *)
(* first that fails ends the call with its result.                         *)
Mixed(t) ==
    LET c == ipc[t]
    IN  /\ c.pc = "mixed"
        /\ IF c.pend = <<>>
           THEN Return(t, c, "success")
           ELSE /\ ipc' = [ipc EXCEPT ![t] = [c EXCEPT !.pc = "innerLock",
                                   !.ix = <<Head(c.pend)>>, !.pend = Tail(c.pend),
                                   !.inner = TRUE]]
                /\ UNCHANGED <<connOwner, connDepth>>
        /\ UNCHANGED <<rFile, lFile, fdMap, toService, toClient, broken>>

(* The nested call for one handle: it is translated from the cache if an  *)
(* earlier nested call mapped it, else it goes to the service.             *)
InnerLookup(t) ==
    LET c == ipc[t]
        fd == c.h[c.ix[1]]
    IN  /\ c.pc = "innerLookup"
        /\ IF Known(c.dir, fd)
           THEN Exchanged(t, [c EXCEPT !.h[c.ix[1]] = Translate(c.dir, fd)])
           ELSE /\ ipc' = [ipc EXCEPT ![t].pc = "send"]
                /\ UNCHANGED <<connOwner, connDepth>>
        /\ UNCHANGED <<rFile, lFile, fdMap, toService, toClient, broken>>

(* Defect variant of SendTransfer: the lock's scope ends with the send, so *)
(* the reply is read without it.                                           *)
SendTransferUnlocked(t) ==
    /\ ipc[t].pc = "send" /\ ipc[t].dir = "toLocal" /\ ~broken
    /\ toService' = Append(toService, [kind |-> "transfer", fds |-> Batch(ipc[t])])
    /\ ipc' = [ipc EXCEPT ![t].pc = "recv"]
    /\ connOwner' = NoConnOwner /\ connDepth' = 0
    /\ UNCHANGED <<rFile, lFile, fdMap, toClient, broken>>

(* toLocalFds: connection.send(reqTransferFd) with the batch's remote fds. *)
SendTransfer(t) ==
    /\ ipc[t].pc = "send" /\ ipc[t].dir = "toLocal" /\ ~broken
    /\ toService' = Append(toService, [kind |-> "transfer", fds |-> Batch(ipc[t])])
    /\ ipc' = [ipc EXCEPT ![t].pc = "recv"]
    /\ UNCHANGED <<rFile, lFile, fdMap, toClient, broken, connOwner, connDepth>>

(* connection.receiveFds: the kernel installs the service's descriptors at *)
(* the lowest free numbers; translateNewRemoteFDToLocalFD records each     *)
(* pair and the handle gets the local number.                              *)
ReceiveFds(t) ==
    LET c == ipc[t]
        m == Head(toClient)
        new == Alloc(lFile, Len(c.ix))
    IN  /\ c.pc = "recv" /\ c.dir = "toLocal" /\ ~broken
        /\ toClient # <<>> /\ m.kind = "fds" /\ Len(m.files) = Len(c.ix)
        /\ Cardinality(FreeFds(lFile)) >= Len(c.ix)
        /\ toClient' = Tail(toClient)
        /\ lFile' = [fd \in LFds |-> IF \E k \in DOMAIN new : new[k] = fd
                                     THEN m.files[CHOOSE k \in DOMAIN new : new[k] = fd]
                                     ELSE lFile[fd]]
        /\ fdMap' = fdMap \cup {<<Batch(c)[k], new[k]>> : k \in DOMAIN new}
        /\ Exchanged(t, [c EXCEPT !.h = Rewrite(c.h, c.ix, new)])
        /\ UNCHANGED <<rFile, toService, broken>>

(* toRemoteFds: connection.send(reqReverseTransferFd). *)
SendReverse(t) ==
    /\ ipc[t].pc = "send" /\ ipc[t].dir = "toRemote" /\ ~broken
    /\ toService' = Append(toService, [kind |-> "reverse", n |-> Len(ipc[t].ix)])
    /\ ipc' = [ipc EXCEPT ![t].pc = "sendFds"]
    /\ UNCHANGED <<rFile, lFile, fdMap, toClient, broken, connOwner, connDepth>>

(* connection.sendFds: the batch's local descriptors go to the service. *)
SendFds(t) ==
    /\ ipc[t].pc = "sendFds" /\ ~broken
    /\ toService' = Append(toService, [kind |-> "fds",
                           files |-> [k \in DOMAIN ipc[t].ix |-> lFile[Batch(ipc[t])[k]]]])
    /\ ipc' = [ipc EXCEPT ![t].pc = "recv"]
    /\ UNCHANGED <<rFile, lFile, fdMap, toClient, broken, connOwner, connDepth>>

(* connection.receive(respReverseTransferFd): an invalid response is       *)
(* ZE_RESULT_ERROR_DEVICE_LOST; else translateLocalFDToRemoteFD records    *)
(* each pair and the handle gets the remote number.                        *)
ReceiveReverse(t) ==
    LET c == ipc[t]
        m == Head(toClient)
    IN  /\ c.pc = "recv" /\ c.dir = "toRemote" /\ ~broken
        /\ toClient # <<>> /\ m.kind = "resp" /\ Len(m.fds) = Len(c.ix)
        /\ toClient' = Tail(toClient)
        /\ IF m.valid
           THEN /\ fdMap' = fdMap \cup {<<m.fds[k], Batch(c)[k]>> : k \in DOMAIN c.ix}
                /\ Exchanged(t, [c EXCEPT !.h = Rewrite(c.h, c.ix, m.fds)])
           ELSE /\ Return(t, c, "deviceLost")
                /\ UNCHANGED fdMap
        /\ UNCHANGED <<rFile, lFile, toService, broken>>

(* A send or receive fails (the service is gone, or the process has too   *)
(* few free descriptors for SCM_RIGHTS): the nested call and the call      *)
(* return ZE_RESULT_ERROR_DEVICE_LOST, and so does every later use.        *)
ConnFail(t) ==
    /\ ipc[t].pc \in {"send", "sendFds", "recv"}
    /\ \/ ConnMayFail \/ broken
       \/ ipc[t].pc = "recv" /\ Cardinality(FreeFds(lFile)) < Len(ipc[t].ix)
    /\ broken' = TRUE
    /\ Return(t, ipc[t], "deviceLost")
    /\ UNCHANGED <<rFile, lFile, fdMap, toService, toClient>>
-----------------------------------------------------------------------------
(* The service's side of the connection (not in this repository): it      *)
(* answers requests in order.  A transfer is answered with the files of   *)
(* the requested remote fds; a reverse transfer installs the received     *)
(* descriptors at its lowest free numbers and answers with them, or with  *)
(* an invalid response when it has too few free or, if ConnMayFail, for  *)
(* any other reason.                                                       *)
ServeTransfer ==
    /\ ~broken /\ toService # <<>> /\ Head(toService).kind = "transfer"
    /\ toClient' = Append(toClient, [kind |-> "fds",
                          files |-> [k \in DOMAIN Head(toService).fds |->
                                       rFile[Head(toService).fds[k]]]])
    /\ toService' = Tail(toService)
    /\ UNCHANGED <<rFile, lFile, fdMap, broken, connOwner, connDepth, ipc>>

ServeReverse ==
    LET files == toService[2].files
        new == Alloc(rFile, Len(files))
        ok == Cardinality(FreeFds(rFile)) >= Len(files)
    IN  /\ ~broken /\ Len(toService) >= 2
        /\ toService[1].kind = "reverse" /\ toService[2].kind = "fds"
        /\ \E valid \in IF ConnMayFail THEN {ok, FALSE} ELSE {ok} :
              /\ toClient' = Append(toClient, [kind |-> "resp", valid |-> valid,
                                               fds |-> IF valid THEN new
                                                       ELSE [k \in DOMAIN files |-> 0]])
              /\ rFile' = IF valid
                          THEN [fd \in RFds |-> IF \E k \in DOMAIN new : new[k] = fd
                                                THEN files[CHOOSE k \in DOMAIN new : new[k] = fd]
                                                ELSE rFile[fd]]
                          ELSE rFile
        /\ toService' = Tail(Tail(toService))
        /\ UNCHANGED <<lFile, fdMap, broken, connOwner, connDepth, ipc>>
-----------------------------------------------------------------------------
(* The handles an application can hold: fds that are open in the process *)
(* whose number the handle carries.                                        *)
Live(table) == {fd \in DOMAIN table : table[fd] # NoFile}

IpcStep(t) ==
    \/ LockConnection(t) \/ Lookup(t) \/ Mixed(t) \/ InnerLookup(t)
    \/ SendTransfer(t) \/ ReceiveFds(t)
    \/ SendReverse(t) \/ SendFds(t) \/ ReceiveReverse(t)
    \/ ConnFail(t)

IpcBegin(t) ==
    \/ \E hs \in SeqOf(Live(rFile), MaxHandlesCount + 1) \ {<<>>} :
          Begin(t, "toLocal", hs)
    \/ \E hs \in SeqOf(Live(lFile), MaxHandlesCount + 1) \ {<<>>} :
          Begin(t, "toRemote", hs)

IpcNext ==
    \/ \E t \in IpcThreads : IpcBegin(t) \/ IpcStep(t)
    \/ ServeTransfer \/ ServeReverse

(* Every thread has made its calls. *)
IpcDone ==
    /\ \A t \in IpcThreads : ipc[t].pc = "idle" /\ ipc[t].calls = MaxIpcCalls
    /\ UNCHANGED ipcVars

(* Threads are scheduled by the OS and the service serves its connection: *)
(* each step that can run eventually does.                                *)
IpcFairness ==
    /\ \A t \in IpcThreads : WF_ipcVars(IpcStep(t))
    /\ WF_ipcVars(ServeTransfer \/ ServeReverse)

IpcSpec == IpcInit /\ [][IpcNext \/ IpcDone]_ipcVars /\ IpcFairness
-----------------------------------------------------------------------------
(* A translation that succeeds leaves every handle naming, in the target  *)
(* process, the file its original fd named in the source process: the     *)
(* cached pairs, the nested calls of a partly known batch and the replies *)
(* read back on the shared connection all agree.                           *)
FdsTranslated ==
    \A t \in IpcThreads :
        LET c == ipc[t] IN
        c.pc = "idle" /\ c.ret = "success" =>
            \A i \in DOMAIN c.orig :
                IF c.dir = "toLocal" THEN lFile[c.h[i]] = rFile[c.orig[i]]
                ELSE rFile[c.h[i]] = lFile[c.orig[i]]

(* Every toLocalFds / toRemoteFds call returns, though a partly known     *)
(* batch takes the connection's lock again in its nested calls.           *)
IpcCallsReturn == \A t \in IpcThreads : ipc[t].pc # "idle" ~> ipc[t].pc = "idle"
=============================================================================

