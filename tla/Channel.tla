------------------------------- MODULE Channel -------------------------------
(***************************************************************************)
(* The RPC command channel of src/shared/rpc.h: ChannelClient submitting   *)
(* commands into the shared ring and waiting on completion stamps, and     *)
(* ChannelServer popping them, running the handler and signalling the      *)
(* stamp.  The client side is serialised by the channel mutex held across  *)
(* a whole call, so it is one sequential process; the server is another.   *)
(* Shared state: the command ring, the completion stamps, both semaphores. *)
(* Client-private: the stamp allocator, the heap, the async storage.       *)
(***************************************************************************)
EXTENDS Naturals, Sequences, FiniteSets

CONSTANTS RingCapacity,      \* ring slots: (ringEnd - ringStart) / sizeof(RingEntry)
          Stamps,            \* completion-stamp slots of the TagAllocator
          MaxCalls,          \* bound: number of calls the client makes
          ClientSyncMethod,  \* "activePolling" | "semaphores" | "latencyBased"
          ServiceSyncMethod, \* "activePolling" | "semaphores" (service's answer)
          UseAsyncCalls,     \* value of the calAsynchronousCalls flag
          ServerStopAnyTime, \* the service may stop() its channel mid-session
          NoEntry, NoStamp

ASSUME /\ ClientSyncMethod \in {"activePolling", "semaphores", "latencyBased"}
       /\ ServiceSyncMethod \in {"activePolling", "semaphores"}
       /\ UseAsyncCalls \in BOOLEAN
       /\ ServerStopAnyTime \in BOOLEAN

Calls == 1 .. MaxCalls

Entries == [messageOffset : Calls, completionStampOffset : Stamps]

VARIABLES
    ring,        \* the command ring in shared memory
    stampValue,  \* completion stamps in shared memory: "NotReady" | "Ready"
    freeStamps,  \* free slots of the client's completion-stamp TagAllocator
    heap,        \* calls whose command space is allocated in the channel heap
    semClient,   \* count of the client semaphore
    semServer,   \* count of the service semaphore
    asyncTags,   \* asyncTagsStorage: stamps of pending asynchronous calls
    asyncSpace,  \* asyncCommandsSpaceStorage: their command spaces
    msgFlag,     \* signalSemaphoreOnCompletion bit of each call's header
    cl,          \* the client thread inside its current call
    srv,         \* the server thread
    calls,       \* calls started so far
    executed,    \* history: calls the server's handler ran, in order
    signaled,    \* history: calls whose completion stamp the server set
    completed,   \* history: calls that returned true to their caller
    stopped      \* the `stopped` flag of ChannelClient and of ChannelServer

CmdRing == INSTANCE Ring WITH Capacity <- RingCapacity, Items <- Entries,
                              MaxItems <- MaxCalls, pushes <- 0,
                              lastPush <- "none", consumed <- <<>>

vars == <<ring, stampValue, freeStamps, heap, semClient, semServer, asyncTags,
          asyncSpace, msgFlag, cl, srv, calls, executed, signaled, completed,
          stopped>>

SeqRange(s) == {s[i] : i \in DOMAIN s}

ClientPcs == {"idle", "alloc", "alloc2", "push", "push2", "signal",
              "semWait", "spin"}

(* The header flag per call: shouldSynchronizeNextCommandWithSemaphores()  *)
(* compares the latency hint with the threshold set by init().             *)
FlagChoices ==
    CASE ClientSyncMethod = "activePolling" -> {FALSE}
      [] ClientSyncMethod = "semaphores"    -> {TRUE}
      [] ClientSyncMethod = "latencyBased"  -> BOOLEAN

(* callAsynchronous() falls back to callSynchronous() unless async calls   *)
(* are enabled.                                                            *)
CallKinds == IF UseAsyncCalls THEN {"sync", "async"} ELSE {"sync"}

Init == /\ ring = CmdRing!EmptyRing
        /\ stampValue = [s \in Stamps |-> "NotReady"]
        /\ freeStamps = Stamps
        /\ heap = {}
        /\ semClient = 0
        /\ semServer = 0
        /\ asyncTags = <<>>
        /\ asyncSpace = <<>>
        /\ msgFlag = [c \in Calls |-> FALSE]
        /\ cl = [pc |-> "idle", call |-> 0, kind |-> "sync", stamp |-> NoStamp,
                 target |-> NoStamp, then |-> "idle"]
        /\ srv = [pc |-> "wait", entry |-> NoEntry]
        /\ calls = 0
        /\ executed = <<>>
        /\ signaled = {}
        /\ completed = {}
        /\ stopped = [client |-> FALSE, server |-> FALSE]
-----------------------------------------------------------------------------
(*************************** client: ChannelClient *************************)

(* An RPC helper takes the channel lock, getSpace() for its message and    *)
(* fills the header, including the semaphore flag, then calls              *)
(* callSynchronous() or callAsynchronous(), which enter submitCommand().   *)
(* A stopped channel is never used again (the callers' contract).          *)
GetSpace(kind, flag) ==
    /\ cl.pc = "idle"
    /\ ~stopped.client
    /\ calls < MaxCalls
    /\ calls' = calls + 1
    /\ heap' = heap \cup {calls + 1}
    /\ msgFlag' = [msgFlag EXCEPT ![calls + 1] = flag]
    /\ cl' = [cl EXCEPT !.pc = "alloc", !.call = calls + 1, !.kind = kind,
                        !.stamp = NoStamp]
    /\ UNCHANGED <<stopped, ring, stampValue, freeStamps, semClient, semServer,
                   asyncTags, asyncSpace, srv, executed, signaled, completed>>

(* Defect variant of WaitPc: the flag test inverted. *)
WaitPcInverted(call) == IF msgFlag[call] THEN "spin" ELSE "semWait"

(* wait(stamp, flags): semaphoreWait() when the message asks the service   *)
(* to signal the client semaphore, activeWait() otherwise.                 *)
WaitPc(call) == IF msgFlag[call] THEN "semWait" ELSE "spin"

(* Defect variant of WaitForLastTag: waits on the oldest pending tag,     *)
(* asyncTagsStorage.front(), before releasing them all.                    *)
WaitForFirstTag(then) ==
    cl' = [cl EXCEPT !.pc = WaitPc(cl.call),
                     !.target = IF asyncTags = <<>> THEN NoStamp
                                ELSE asyncTags[1],
                     !.then = then]

(* waitForLastTag(flags): wait on asyncTagsStorage.back() with the flags   *)
(* of the message being submitted, then resume at `then`.                  *)
WaitForLastTag(then) ==
    cl' = [cl EXCEPT !.pc = WaitPc(cl.call),
                     !.target = IF asyncTags = <<>> THEN NoStamp
                                ELSE asyncTags[Len(asyncTags)],
                     !.then = then]

(* Defect variant of AllocateStamp: the reused stamp keeps its old value. *)
AllocateStampKeepValue ==
    /\ cl.pc \in {"alloc", "alloc2"}
    /\ \/ \E s \in freeStamps :
            /\ freeStamps' = freeStamps \ {s}
            /\ cl' = [cl EXCEPT !.pc = "push", !.stamp = s]
            /\ UNCHANGED stampValue
       \/ /\ freeStamps = {}
          /\ cl.pc = "alloc"
          /\ WaitForLastTag("alloc2")
          /\ UNCHANGED <<freeStamps, stampValue>>
    /\ UNCHANGED <<stopped, ring, heap, semClient, semServer, asyncTags, asyncSpace,
                   msgFlag, srv, calls, executed, signaled, completed>>

(* submitCommand(): completionStamps.allocate(); on exhaustion wait for    *)
(* the last asynchronous tag once and allocate again.  The fresh stamp is  *)
(* set to CompletionStampNotReady.                                         *)
AllocateStamp ==
    /\ cl.pc \in {"alloc", "alloc2"}
    /\ \/ \E s \in freeStamps :
            /\ freeStamps' = freeStamps \ {s}
            /\ stampValue' = [stampValue EXCEPT ![s] = "NotReady"]
            /\ cl' = [cl EXCEPT !.pc = "push", !.stamp = s]
       \/ /\ freeStamps = {}
          /\ cl.pc = "alloc"
          /\ WaitForLastTag("alloc2")
          /\ UNCHANGED <<freeStamps, stampValue>>
    /\ UNCHANGED <<stopped, ring, heap, semClient, semServer, asyncTags, asyncSpace,
                   msgFlag, srv, calls, executed, signaled, completed>>

(* submitCommand(): ring.push(RingEntry{command, stamp}); a full ring is   *)
(* retried once after waitForLastTag().                                    *)
PushCommand ==
    /\ cl.pc \in {"push", "push2"}
    /\ \/ /\ CmdRing!CanPush(ring)
          /\ ring' = CmdRing!Push(ring, [messageOffset |-> cl.call,
                                         completionStampOffset |-> cl.stamp])
          /\ cl' = [cl EXCEPT !.pc = "signal"]
       \/ /\ ~CmdRing!CanPush(ring)
          /\ cl.pc = "push"
          /\ WaitForLastTag("push2")
          /\ UNCHANGED ring
    /\ UNCHANGED <<stopped, stampValue, freeStamps, heap, semClient, semServer,
                   asyncTags, asyncSpace, msgFlag, srv, calls, executed,
                   signaled, completed>>

(* After submitCommand(): signalServiceSemaphore() when the service waits  *)
(* on semaphores.  callSynchronous() then waits on its own stamp;          *)
(* callAsynchronous() stores the stamp and the command space and returns.  *)
PostServiceSemaphoreNever == semServer' = semServer

PostServiceSemaphore ==
    semServer' = IF ServiceSyncMethod = "semaphores" THEN semServer + 1
                 ELSE semServer

SignalService ==
    /\ cl.pc = "signal"
    /\ PostServiceSemaphore
    /\ \/ /\ cl.kind = "sync"
          /\ cl' = [cl EXCEPT !.pc = WaitPc(cl.call), !.target = cl.stamp,
                              !.then = "finish"]
          /\ UNCHANGED <<asyncTags, asyncSpace>>
       \/ /\ cl.kind = "async"
          /\ asyncTags' = Append(asyncTags, cl.stamp)
          /\ asyncSpace' = Append(asyncSpace, cl.call)
          /\ cl' = [cl EXCEPT !.pc = "idle"]
    /\ UNCHANGED <<stopped, ring, stampValue, freeStamps, heap, semClient, msgFlag,
                   srv, calls, executed, signaled, completed>>

(* A wait that returns false ends the call: submitCommand() and           *)
(* callSynchronous() return at once, leaving the stamp allocated, and the  *)
(* helper's unique_ptr frees the command space.                            *)
AbortCall ==
    /\ cl' = [cl EXCEPT !.pc = "idle"]
    /\ heap' = heap \ {cl.call}

(* semaphoreWait(): waitOnClientSemaphore(); return false if the channel   *)
(* is stopped, else fall back to polling the stamp.                        *)
ClientSemaphoreWait ==
    /\ cl.pc = "semWait"
    /\ semClient > 0
    /\ semClient' = semClient - 1
    /\ \/ /\ ~stopped.client
          /\ cl' = [cl EXCEPT !.pc = "spin"]
          /\ UNCHANGED heap
       \/ /\ stopped.client
          /\ AbortCall
    /\ UNCHANGED <<stopped, ring, stampValue, freeStamps, semServer, asyncTags,
                   asyncSpace, msgFlag, srv, calls, executed, signaled,
                   completed>>

(* Defect variants of ReleaseAsyncStorage: the async tags, or the async   *)
(* spaces, are cleared from the storage without being freed.              *)
ReleaseAsyncStorageKeepTags(extraStamps, extraSpaces) ==
    /\ freeStamps' = freeStamps \cup extraStamps
    /\ heap' = heap \ (SeqRange(asyncSpace) \cup extraSpaces)
    /\ asyncTags' = <<>>
    /\ asyncSpace' = <<>>

ReleaseAsyncStorageKeepSpaces(extraStamps, extraSpaces) ==
    /\ freeStamps' = freeStamps \cup SeqRange(asyncTags) \cup extraStamps
    /\ heap' = heap \ extraSpaces
    /\ asyncTags' = <<>>
    /\ asyncSpace' = <<>>

(* releaseAsyncStorage(): free every async tag and every async space.      *)
ReleaseAsyncStorage(extraStamps, extraSpaces) ==
    /\ freeStamps' = freeStamps \cup SeqRange(asyncTags) \cup extraStamps
    /\ heap' = heap \ (SeqRange(asyncSpace) \cup extraSpaces)
    /\ asyncTags' = <<>>
    /\ asyncSpace' = <<>>

(* The polling loop of activeWait()/semaphoreWait() sees the stamp Ready.  *)
(* For callSynchronous(): free the stamp, releaseAsyncStorage(), and the   *)
(* helper's unique_ptr frees the command space.  For waitForLastTag():     *)
(* releaseAsyncStorage() and retry the allocation or the push.             *)
ClientWaitDone ==
    /\ cl.pc = "spin"
    /\ cl.target # NoStamp
    /\ stampValue[cl.target] = "Ready"
    /\ \/ /\ cl.then = "finish"
          /\ ReleaseAsyncStorage({cl.stamp}, {cl.call})
          /\ completed' = completed \cup {cl.call}
          /\ cl' = [cl EXCEPT !.pc = "idle"]
       \/ /\ cl.then \in {"alloc2", "push2"}
          /\ ReleaseAsyncStorage({}, {})
          /\ cl' = [cl EXCEPT !.pc = cl.then]
          /\ UNCHANGED completed
    /\ UNCHANGED <<stopped, ring, stampValue, semClient, semServer, msgFlag, srv, calls,
                   executed, signaled>>

(* Defect variant of ClientWaitAborted: the polling loop never looks at   *)
(* the stopped flag.                                                       *)
ClientWaitIgnoresStop == FALSE

(* The polling loop of activeWait()/semaphoreWait() finds the stamp still *)
(* NotReady and the channel stopped: the wait returns false.               *)
ClientWaitAborted ==
    /\ cl.pc = "spin"
    /\ cl.target # NoStamp
    /\ stampValue[cl.target] = "NotReady"
    /\ stopped.client
    /\ AbortCall
    /\ UNCHANGED <<stopped, ring, stampValue, freeStamps, semClient, semServer,
                   asyncTags, asyncSpace, msgFlag, srv, calls, executed,
                   signaled, completed>>

(* ChannelClient::stop(), called by another client thread at any time:    *)
(* it only sets the flag.                                                  *)
ClientStop ==
    /\ ~stopped.client
    /\ stopped' = [stopped EXCEPT !.client = TRUE]
    /\ UNCHANGED <<ring, stampValue, freeStamps, heap, semClient, semServer,
                   asyncTags, asyncSpace, msgFlag, cl, srv, calls, executed,
                   signaled, completed>>
-----------------------------------------------------------------------------
(*************************** server: ChannelServer *************************)

(* wait(): activeWait() and semaphoreWait() both take the head entry as    *)
(* soon as the ring is not empty.                                          *)
ServerPop ==
    /\ srv.pc = "wait"
    /\ ~CmdRing!PeekEmpty(ring)
    /\ srv' = [pc |-> "exec", entry |-> CmdRing!PeekHead(ring)]
    /\ ring' = CmdRing!Pop(ring)
    /\ UNCHANGED <<stopped, stampValue, freeStamps, heap, semClient, semServer,
                   asyncTags, asyncSpace, msgFlag, cl, calls, executed,
                   signaled, completed>>

(* semaphoreWait(): the loop finds the ring empty and calls              *)
(* waitOnServiceSemaphore(); the thread is blocked in sem_wait from here.  *)
ServerSleep ==
    /\ ServiceSyncMethod = "semaphores"
    /\ srv.pc = "wait"
    /\ CmdRing!PeekEmpty(ring)
    /\ srv' = [srv EXCEPT !.pc = "sleep"]
    /\ UNCHANGED <<stopped, ring, stampValue, freeStamps, heap, semClient, semServer,
                   asyncTags, asyncSpace, msgFlag, cl, calls, executed,
                   signaled, completed>>

(* sem_wait on semServer returns once the count is positive; wait()       *)
(* returns an empty packet if the channel is stopped, before it looks at   *)
(* the ring again.                                                         *)
ServerSemaphoreWait ==
    /\ srv.pc = "sleep"
    /\ semServer > 0
    /\ semServer' = semServer - 1
    /\ srv' = [srv EXCEPT !.pc = IF stopped.server THEN "stopped" ELSE "wait"]
    /\ UNCHANGED <<stopped, ring, stampValue, freeStamps, heap, semClient, asyncTags,
                   asyncSpace, msgFlag, cl, calls, executed, signaled,
                   completed>>

(* activeWait(): the loop finds the ring empty and the channel stopped,   *)
(* and wait() returns an empty packet; the service's loop ends.            *)
ServerAbortWait ==
    /\ ServiceSyncMethod = "activePolling"
    /\ srv.pc = "wait"
    /\ CmdRing!PeekEmpty(ring)
    /\ stopped.server
    /\ srv' = [srv EXCEPT !.pc = "stopped"]
    /\ UNCHANGED <<stopped, ring, stampValue, freeStamps, heap, semClient, semServer,
                   asyncTags, asyncSpace, msgFlag, cl, calls, executed,
                   signaled, completed>>

(* The service's handler runs the command in place in the channel heap.    *)
ServerExecute ==
    /\ srv.pc = "exec"
    /\ executed' = Append(executed, srv.entry.messageOffset)
    /\ srv' = [srv EXCEPT !.pc = "complete"]
    /\ UNCHANGED <<stopped, ring, stampValue, freeStamps, heap, semClient, semServer,
                   asyncTags, asyncSpace, msgFlag, cl, calls, signaled,
                   completed>>

(* Defect variant of SignalCompletionStamp: never posts the client       *)
(* semaphore.                                                             *)
SignalCompletionStampNoPost ==
    /\ srv.pc = "complete"
    /\ stampValue' = [stampValue EXCEPT ![srv.entry.completionStampOffset] = "Ready"]
    /\ signaled' = signaled \cup {srv.entry.messageOffset}
    /\ srv' = [pc |-> "wait", entry |-> NoEntry]
    /\ UNCHANGED <<stopped, ring, freeStamps, heap, semClient, semServer, asyncTags,
                   asyncSpace, msgFlag, cl, calls, executed, completed>>

(* signalCompletion(): store CompletionStampReady, then post the client    *)
(* semaphore if the message's flag asks for it.                            *)
SignalCompletionStamp ==
    /\ srv.pc = "complete"
    /\ stampValue' = [stampValue EXCEPT ![srv.entry.completionStampOffset] = "Ready"]
    /\ signaled' = signaled \cup {srv.entry.messageOffset}
    /\ \/ /\ msgFlag[srv.entry.messageOffset]
          /\ srv' = [srv EXCEPT !.pc = "post"]
       \/ /\ ~msgFlag[srv.entry.messageOffset]
          /\ srv' = [pc |-> "wait", entry |-> NoEntry]
    /\ UNCHANGED <<stopped, ring, freeStamps, heap, semClient, semServer, asyncTags,
                   asyncSpace, msgFlag, cl, calls, executed, completed>>

SignalCompletionPost ==
    /\ srv.pc = "post"
    /\ semClient' = semClient + 1
    /\ srv' = [pc |-> "wait", entry |-> NoEntry]
    /\ UNCHANGED <<stopped, ring, stampValue, freeStamps, heap, semServer, asyncTags,
                   asyncSpace, msgFlag, cl, calls, executed, signaled,
                   completed>>

(* Defect variant of ServerStop: the service semaphore is not posted.     *)
ServerStopNoPost(orderly) ==
    /\ ~stopped.server
    /\ ServerStopAnyTime \/ orderly
    /\ stopped' = [stopped EXCEPT !.server = TRUE]
    /\ UNCHANGED <<ring, stampValue, freeStamps, heap, semClient, semServer,
                   asyncTags, asyncSpace, msgFlag, cl, srv, calls, executed,
                   signaled, completed>>

(* ChannelServer::stop(), called by the service when it tears the client  *)
(* down: set the flag and post the service semaphore once.  Unless        *)
(* ServerStopAnyTime, it happens only in an orderly teardown, `orderly`:  *)
(* the client is done with its calls.                                      *)
ServerStop(orderly) ==
    /\ ~stopped.server
    /\ ServerStopAnyTime \/ orderly
    /\ stopped' = [stopped EXCEPT !.server = TRUE]
    /\ PostServiceSemaphore
    /\ UNCHANGED <<ring, stampValue, freeStamps, heap, semClient, asyncTags,
                   asyncSpace, msgFlag, cl, srv, calls, executed, signaled,
                   completed>>
-----------------------------------------------------------------------------
(* The client has made all its calls, or is stopped, and the server has   *)
(* drained the ring or left its loop: the session ends here.               *)
Finished ==
    /\ calls = MaxCalls \/ stopped.client
    /\ cl.pc = "idle"
    /\ \/ srv.pc \in {"wait", "sleep"} /\ CmdRing!PeekEmpty(ring)
       \/ srv.pc = "stopped"
    /\ UNCHANGED vars

ClientStep ==
    \/ AllocateStamp \/ PushCommand \/ SignalService
    \/ ClientSemaphoreWait \/ ClientWaitDone \/ ClientWaitAborted

ServerStep ==
    \/ ServerPop \/ ServerSleep \/ ServerSemaphoreWait \/ ServerAbortWait
    \/ ServerExecute
    \/ SignalCompletionStamp \/ SignalCompletionPost

Next ==
    \/ \E k \in CallKinds, f \in FlagChoices : GetSpace(k, f)
    \/ ClientStep
    \/ ServerStep
    \/ ClientStop
    \/ ServerStop(cl.pc = "idle" /\ (calls = MaxCalls \/ stopped.client))
    \/ Finished

(* Both sides are OS threads that keep running while they can; the user    *)
(* starting a new call (GetSpace) and either stop() are not assumed to     *)
(* happen.                                                                 *)
Fairness == WF_vars(ClientStep) /\ WF_vars(ServerStep)

Spec == Init /\ [][Next]_vars /\ Fairness
-----------------------------------------------------------------------------
TypeOK ==
    /\ ring \in CmdRing!RingType
    /\ stampValue \in [Stamps -> {"NotReady", "Ready"}]
    /\ freeStamps \subseteq Stamps
    /\ heap \subseteq Calls
    /\ semClient \in Nat /\ semServer \in Nat
    /\ asyncTags \in Seq(Stamps) /\ asyncSpace \in Seq(Calls)
    /\ msgFlag \in [Calls -> BOOLEAN]
    /\ cl.pc \in ClientPcs
    /\ cl.stamp \in Stamps \cup {NoStamp} /\ cl.target \in Stamps \cup {NoStamp}
    /\ srv.pc \in {"wait", "sleep", "exec", "complete", "post", "stopped"}
    /\ srv.entry \in Entries \cup {NoEntry}
    /\ calls \in 0 .. MaxCalls
    /\ executed \in Seq(Calls)
    /\ signaled \subseteq Calls /\ completed \subseteq Calls
    /\ stopped \in [client : BOOLEAN, server : BOOLEAN]
-----------------------------------------------------------------------------
(* Commands the server may still read, write or signal: the entries in    *)
(* the ring and the one the server popped and has not signalled yet, plus *)
(* the client's own command while it holds its stamp.                     *)
InFlight ==
    SeqRange(CmdRing!Contents(ring))
    \cup (IF srv.pc \in {"exec", "complete"} THEN {srv.entry} ELSE {})

Outstanding ==
    InFlight
    \cup (IF cl.pc # "idle" /\ cl.stamp # NoStamp
          THEN {[messageOffset |-> cl.call, completionStampOffset |-> cl.stamp]}
          ELSE {})

(* A completion stamp is never back in the TagAllocator, nor handed to a  *)
(* second command, while the server may still set it Ready: the async     *)
(* storage is released only after waiting on the newest async stamp, and  *)
(* the stamp pool, the ring and the async storage stay consistent over    *)
(* any interleaving of submitCommand(), waitForLastTag() and the server.  *)
StampsExclusive ==
    \A e \in Outstanding :
        /\ e.completionStampOffset \notin freeStamps
        /\ \A f \in Outstanding :
              f.completionStampOffset = e.completionStampOffset => f = e

(* The command space of a call (getSpace()) is not freed while the server *)
(* may still run the command in it: releaseAsyncStorage() and the end of  *)
(* callSynchronous() free spaces only of commands already executed.  A    *)
(* call aborted by stop() frees its space early; the stopped channel      *)
(* hands out no space again, so the claim is made until the stop.         *)
HeapSpaceLive == ~stopped.client => \A e \in InFlight : e.messageOffset \in heap

(* callSynchronous() returns true only after the server signalled that    *)
(* call's own completion, never on a stale Ready left in a reused stamp.  *)
ResultReadyOnReturn == completed \subseteq signaled

(* A client blocked in semaphoreWait() will be woken: the semaphore has a *)
(* count, or a command whose message asks for the client semaphore is     *)
(* still to be completed by the server.                                   *)
NoLostWakeup ==
    cl.pc = "semWait" =>
        \/ semClient > 0
        \/ srv.pc = "post"
        \/ \E e \in InFlight : msgFlag[e.messageOffset]

(* The backpressure path of submitCommand() works: waitForLastTag() finds *)
(* an async tag to wait on (asyncTagsStorage.back() of an empty vector is *)
(* undefined), and after it the retried allocate() and push() succeed,   *)
(* so "Could allocate completion stamp" / "Could add command to ring"     *)
(* are never reached.                                                     *)
BackpressureRetrySucceeds ==
    /\ cl.pc \in {"semWait", "spin"} => cl.target # NoStamp
    /\ cl.pc = "alloc2" => freeStamps # {}
    /\ cl.pc = "push2" => CmdRing!CanPush(ring)

(* getSpace() aborts the process when the heap is full and nothing waits  *)
(* for async commands to free space: the heap must hold one command space *)
(* per completion stamp plus the one being submitted, and never more.     *)
HeapDemandBounded == Cardinality(heap) <= Cardinality(Stamps) + 1

(* Every call that has started returns to its caller, unless the service *)
(* stopped its end of the channel (then only the client's stop() can end  *)
(* the wait).                                                              *)
CallsReturn == cl.pc # "idle" ~> (cl.pc = "idle" \/ stopped.server)

(* Shutdown responsiveness of ChannelClient: once stop() is called, a call *)
(* blocked in activeWait() or semaphoreWait() returns, whether or not the  *)
(* service still answers.                                                  *)
StopAbortsWaits == stopped.client ~> cl.pc = "idle"

(* Shutdown responsiveness of ChannelServer: once stop() is called, the   *)
(* server's wait() returns an empty packet and its loop ends, also when   *)
(* the thread is asleep in waitOnServiceSemaphore().                       *)
ServerStopsAfterStop == stopped.server ~> srv.pc = "stopped"
=============================================================================
