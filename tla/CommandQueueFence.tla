------------------------- MODULE CommandQueueFence --------------------------
(***************************************************************************)
(* Read-back of host memory after command lists run (icd_level_zero.cpp). *)
(* zeCommandQueueExecuteCommandLists records the lists in the queue's and  *)
(* the fence's currentlyExecutedCommandLists under the queue lock, writes  *)
(* each list's host memory to the service, unlocks, and submits them with  *)
(* an RPC.  zeCommandQueueSynchronize and zeFenceHostSynchronize wait on   *)
(* the device with an RPC under the queue lock, then read back the host    *)
(* memory of the recorded lists and drop them from the records.            *)
(* One queue and one fence; application threads call these functions.     *)
(***************************************************************************)
EXTENDS Naturals, Sequences, FiniteSets

CONSTANTS
    Threads,      \* application threads
    Lists,        \* command lists
    MaxExecs,     \* zeCommandQueueExecuteCommandLists calls
    MaxSyncs,     \* synchronize calls
    RpcMayFail,   \* whether the copy-memory RPCs of write/readRequiredMemory fail
    NoOwner       \* the queue mutex is free

Execs == 1 .. MaxExecs

(* The lists of one execute call: one list, or two different ones. *)
ListSeqs == {<<l>> : l \in Lists} \cup {<<l, m>> \in Lists \X Lists : l # m}

VARIABLES
    queueLists,   \* IcdL0CommandQueue::currentlyExecutedCommandLists
    fenceLists,   \* IcdL0Fence::currentlyExecutedCommandLists
    owner,        \* the queue mutex (IcdL0CommandQueue::lock())
    pc,           \* where each thread is
    cur,          \* each thread's execute call, and lists left to read
    execs,        \* every execute call: its lists, fence, and device state
    gpu,          \* submitted execute calls, in the queue's order
    syncs,        \* synchronize calls made
    readDone,     \* <<exec, list>> pairs whose results were read back
    reads         \* every read-back: the list and what was true then

vars == <<queueLists, fenceLists, owner, pc, cur, execs, gpu, syncs,
          readDone, reads>>

NoExec == [lists |-> <<>>, fence |-> FALSE, st |-> "none"]
Idle == [exec |-> 0, toRead |-> <<>>, removed |-> <<>>, seen |-> {}]

Init == /\ queueLists = <<>>
        /\ fenceLists = <<>>
        /\ owner = NoOwner
        /\ pc = [t \in Threads |-> "idle"]
        /\ cur = [t \in Threads |-> Idle]
        /\ execs = [e \in Execs |-> NoExec]
        /\ gpu = <<>>
        /\ syncs = 0
        /\ readDone = {}
        /\ reads = {}

SeqRange(s) == {s[i] : i \in DOMAIN s}

(* A stored command list handle; the execute call it came from is a      *)
(* history tag the code does not keep (it compares handles only).         *)
Entries(e, lists) == [i \in DOMAIN lists |-> <<e, lists[i]>>]
Used == {e \in Execs : execs[e].st # "none"}

(* The fence is signalled when every execution submitted with it is done; *)
(* the application resets it before using it again.                        *)
FenceSignaled ==
    /\ \E e \in Used : execs[e].fence
    /\ \A e \in Used : execs[e].fence => execs[e].st = "done"
-----------------------------------------------------------------------------
(* writeRequiredMemory / readRequiredMemory of one command list: two     *)
(* zeCommandQueueExecuteCommandListsCopyMemoryRpcHelper calls and the     *)
(* platform's copy; any of them failing returns                            *)
(* ZE_RESULT_ERROR_OUT_OF_HOST_MEMORY.  The bytes moved are abstracted.    *)
WriteRequiredMemory == IF RpcMayFail THEN {"success", "error"} ELSE {"success"}
ReadRequiredMemory == IF RpcMayFail THEN {"success", "error"} ELSE {"success"}

(* zeCommandQueueExecuteCommandLists: under the queue lock,               *)
(* storeExecutedCommandListsPointers on the queue and, with a fence, on    *)
(* the fence.                                                              *)
ExecuteRecord(t, lists, fence) ==
    /\ pc[t] = "idle"
    /\ Used # Execs
    /\ owner = NoOwner
    /\ fence => ~\E e \in Used : execs[e].fence /\ execs[e].st # "done"
    /\ LET e == CHOOSE x \in Execs \ Used : \A y \in Execs \ Used : x <= y
       IN  /\ execs' = [execs EXCEPT ![e] = [lists |-> lists, fence |-> fence,
                                             st |-> "recorded"]]
           /\ cur' = [cur EXCEPT ![t] = [Idle EXCEPT !.exec = e]]
    /\ owner' = t
    /\ queueLists' = queueLists \o Entries(cur'[t].exec, lists)
    /\ fenceLists' = IF fence THEN fenceLists \o Entries(cur'[t].exec, lists)
                    ELSE fenceLists
    /\ pc' = [pc EXCEPT ![t] = "write"]
    /\ UNCHANGED <<gpu, syncs, readDone, reads>>

(* writeRequiredMemory for each list; a failure returns the error with   *)
(* the lists already recorded.  Otherwise queueLock.unlock().              *)
ExecuteWrite(t) ==
    /\ pc[t] = "write"
    /\ owner' = NoOwner
    /\ \E r \in WriteRequiredMemory :
          pc' = [pc EXCEPT ![t] = IF r = "success" THEN "submit" ELSE "idle"]
    /\ UNCHANGED <<queueLists, fenceLists, cur, execs, gpu, syncs, readDone,
                   reads>>

(* zeCommandQueueExecuteCommandListsRpcHelper, outside the queue lock. *)
ExecuteSubmit(t) ==
    /\ pc[t] = "submit"
    /\ execs' = [execs EXCEPT ![cur[t].exec].st = "submitted"]
    /\ gpu' = Append(gpu, cur[t].exec)
    /\ pc' = [pc EXCEPT ![t] = "idle"]
    /\ UNCHANGED <<queueLists, fenceLists, owner, cur, syncs, readDone, reads>>

(* The device runs the queue's submissions in order. *)
DeviceComplete ==
    /\ gpu # <<>>
    /\ execs' = [execs EXCEPT ![Head(gpu)].st = "done"]
    /\ gpu' = Tail(gpu)
    /\ UNCHANGED <<queueLists, fenceLists, owner, pc, cur, syncs, readDone,
                   reads>>
-----------------------------------------------------------------------------
(* Both synchronize calls start by taking the queue lock. *)
SyncLock(t, kind) ==
    /\ pc[t] = "idle"
    /\ syncs < MaxSyncs
    /\ owner = NoOwner
    /\ owner' = t
    /\ syncs' = syncs + 1
    /\ pc' = [pc EXCEPT ![t] = kind]
    /\ UNCHANGED <<queueLists, fenceLists, cur, execs, gpu, readDone, reads>>

(* Defect variant of QueueSyncRpc: a timed-out wait (ZE_RESULT_NOT_READY) *)
(* is taken for success and the read-back runs.                            *)
QueueSyncRpcIgnoreTimeout(t) ==
    /\ pc[t] = "qsync"
    /\ cur' = [cur EXCEPT ![t].toRead = queueLists]
    /\ pc' = [pc EXCEPT ![t] = "qread"]
    /\ UNCHANGED <<queueLists, fenceLists, owner, execs, gpu, syncs, readDone,
                   reads>>

(* zeCommandQueueSynchronizeRpcHelper: success once the device has run   *)
(* everything submitted; with a finite timeout it may report not ready.    *)
QueueSyncRpc(t) ==
    /\ pc[t] = "qsync"
    /\ \/ /\ gpu = <<>>
          /\ cur' = [cur EXCEPT ![t].toRead = queueLists]
          /\ pc' = [pc EXCEPT ![t] = "qread"]
          /\ UNCHANGED owner
       \/ /\ owner' = NoOwner
          /\ pc' = [pc EXCEPT ![t] = "idle"]
          /\ UNCHANGED cur
    /\ UNCHANGED <<queueLists, fenceLists, execs, gpu, syncs, readDone, reads>>

(* zeFenceHostSynchronizeRpcHelper: success once the fence is signalled;  *)
(* then clearExecutedCommandListsPointers moves the fence's lists out.     *)
FenceSyncRpc(t) ==
    /\ pc[t] = "fsync"
    /\ \/ /\ FenceSignaled
          /\ cur' = [cur EXCEPT ![t].toRead = fenceLists,
                                ![t].removed = fenceLists]
          /\ fenceLists' = <<>>
          /\ pc' = [pc EXCEPT ![t] = "fread"]
          /\ UNCHANGED owner
       \/ /\ owner' = NoOwner
          /\ pc' = [pc EXCEPT ![t] = "idle"]
          /\ UNCHANGED <<cur, fenceLists>>
    /\ UNCHANGED <<queueLists, execs, gpu, syncs, readDone, reads>>

Running(e) == execs[e].st = "submitted"
Unread(l) == {<<e, l>> : e \in {x \in Used : l \in SeqRange(execs[x].lists)
                                            /\ execs[x].st = "done"}} \ readDone

(* readRequiredMemory of the next list: the service copies the device's  *)
(* view of the list's host buffers back.  A failed RPC ends the loop with  *)
(* the error.                                                              *)
ReadNext(t, loop) ==
    /\ pc[t] = loop
    /\ cur[t].toRead # <<>>
    /\ LET e == Head(cur[t].toRead)[1]
           l == Head(cur[t].toRead)[2] IN
       \/ /\ reads' = reads \cup {[list |-> l, running |-> Running(e),
                                    fresh |-> Unread(l) # {} \/ l \in cur[t].seen]}
          /\ readDone' = readDone \cup Unread(l)
          /\ cur' = [cur EXCEPT ![t].toRead = Tail(@), ![t].seen = @ \cup {l}]
          /\ UNCHANGED <<pc, owner>>
       \/ /\ "error" \in ReadRequiredMemory
          /\ pc' = [pc EXCEPT ![t] = IF loop = "qread" THEN "qclear" ELSE "idle"]
          /\ owner' = IF loop = "qread" THEN owner ELSE NoOwner
          /\ UNCHANGED <<reads, readDone, cur>>
    /\ UNCHANGED <<queueLists, fenceLists, execs, gpu, syncs>>

(* zeCommandQueueSynchronize: after the read-back loop, whatever its     *)
(* result, clearExecutedCommandListsPointers; the lock guard releases.     *)
QueueSyncClear(t) ==
    /\ \/ pc[t] = "qread" /\ cur[t].toRead = <<>>
       \/ pc[t] = "qclear"
    /\ queueLists' = <<>>
    /\ owner' = NoOwner
    /\ pc' = [pc EXCEPT ![t] = "idle"]
    /\ cur' = [cur EXCEPT ![t] = Idle]
    /\ UNCHANGED <<fenceLists, execs, gpu, syncs, readDone, reads>>

(* std::find of handle x[2] in s: the first index holding it, or 0 for  *)
(* end().                                                                  *)
IndexOf(s, x) ==
    LET at == {i \in DOMAIN s : s[i][2] = x[2]}
    IN  IF at = {} THEN 0 ELSE CHOOSE i \in at : \A j \in at : i <= j

(* removeFromExecutedCommandLists: find the first and the last of the    *)
(* removed lists by value and erase that range if it has the right size.  *)
RemoveFromExecutedCommandLists(executed, toRemove) ==
    IF toRemove = <<>> THEN executed
    ELSE LET first == IndexOf(executed, Head(toRemove))
             last == IndexOf(executed, toRemove[Len(toRemove)])
         IN  IF first = 0 \/ last = 0 THEN executed
             ELSE IF last + 1 - first # Len(toRemove) THEN executed
             ELSE SubSeq(executed, 1, first - 1) \o SubSeq(executed, last + 1, Len(executed))

(* zeFenceHostSynchronize: after a read-back loop that succeeded,        *)
(* removeFromExecutedCommandLists on the queue; the lock guard releases.   *)
FenceSyncRemove(t) ==
    /\ pc[t] = "fread"
    /\ cur[t].toRead = <<>>
    /\ queueLists' = RemoveFromExecutedCommandLists(queueLists, cur[t].removed)
    /\ owner' = NoOwner
    /\ pc' = [pc EXCEPT ![t] = "idle"]
    /\ cur' = [cur EXCEPT ![t] = Idle]
    /\ UNCHANGED <<fenceLists, execs, gpu, syncs, readDone, reads>>

Done ==
    /\ \A t \in Threads : pc[t] = "idle"
    /\ Used = Execs
    /\ syncs = MaxSyncs
    /\ gpu = <<>>
    /\ UNCHANGED vars

Next ==
    \/ \E t \in Threads :
          \/ \E lists \in ListSeqs, fence \in BOOLEAN : ExecuteRecord(t, lists, fence)
          \/ ExecuteWrite(t) \/ ExecuteSubmit(t)
          \/ SyncLock(t, "qsync") \/ SyncLock(t, "fsync")
          \/ QueueSyncRpc(t) \/ FenceSyncRpc(t)
          \/ ReadNext(t, "qread") \/ ReadNext(t, "fread")
          \/ QueueSyncClear(t) \/ FenceSyncRemove(t)
    \/ DeviceComplete
    \/ Done

Spec == Init /\ [][Next]_vars
-----------------------------------------------------------------------------
(* A synchronize reads back a recorded list only after the device ran    *)
(* the execute call that recorded it: never while that call is submitted  *)
(* and still running (the host would get half-written results, and the    *)
(* record is dropped, so the final results are never read).               *)
NoReadWhileRunning == \A r \in reads : ~r.running

(* Every read-back copies the results of a finished execution of the     *)
(* list that were not read back yet (or were read earlier in the same    *)
(* loop): a synchronize neither reads a list the device never ran nor     *)
(* copies results an earlier synchronize read over the host memory again. *)
ReadsMatchExecutions == \A r \in reads : r.fresh
=============================================================================
