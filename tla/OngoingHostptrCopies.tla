------------------------ MODULE OngoingHostptrCopies ------------------------
(***************************************************************************)
(* The service's OngoingHostptrCopiesManager                               *)
(* (service/level_zero/ongoing_hostptr_copies_manager.cpp): copies to host *)
(* memory are tracked with an artificial event until the event completes.  *)
(* Finished one-shot copies give their event back to the                  *)
(* ArtificialEventsManager; resubmittable ones (regular command lists)     *)
(* reset it and are staged per command list until the list runs again.    *)
(* The manager is called from the service's one dispatch thread, so every  *)
(* method is one atomic step; the order of calls is left free.             *)
(***************************************************************************)
EXTENDS Naturals, Sequences, FiniteSets

CONSTANTS
    Lists,        \* command lists
    Events,       \* the artificial events of the events manager
    MaxRegs       \* registerCopyOperation calls

VARIABLES
    pool,         \* events free in the ArtificialEventsManager
    ongoing,      \* ongoingOperations, a vector of OngoingHostptrCopy
    staged,       \* operationsForResubmit, per command list
    signaled,     \* the device-side state of each event
    regs          \* registerCopyOperation calls made

vars == <<pool, ongoing, staged, signaled, regs>>

Op(l, e, resub) == [commandList |-> l, associatedEvent |-> e, isFinished |-> FALSE,
                    canBeResubmitted |-> resub]

SeqEvents(s) == {s[i].associatedEvent : i \in DOMAIN s}
OfList(s, l) == SelectSeq(s, LAMBDA op : op.commandList = l)

Init == /\ pool = Events
        /\ ongoing = <<>>
        /\ staged = [l \in Lists |-> <<>>]
        /\ signaled = [e \in Events |-> FALSE]
        /\ regs = 0
-----------------------------------------------------------------------------
(* An append to a host pointer obtains an event from the events manager   *)
(* and registerCopyOperation records it.  The events manager is not under  *)
(* src/: it hands out free events, unsignalled.                            *)
RegisterCopyOperation(l, e, resub) ==
    /\ regs < MaxRegs
    /\ e \in pool
    /\ pool' = pool \ {e}
    /\ ongoing' = Append(ongoing, Op(l, e, resub))
    /\ regs' = regs + 1
    /\ UNCHANGED <<staged, signaled>>

(* The device finishes the copy of an ongoing operation and signals its   *)
(* event.                                                                  *)
DeviceSignal(e) ==
    /\ e \in SeqEvents(ongoing)
    /\ ~signaled[e]
    /\ signaled' = [signaled EXCEPT ![e] = TRUE]
    /\ UNCHANGED <<pool, ongoing, staged, regs>>

(* updateAwaitedEvents: every unfinished operation whose event status is  *)
(* ZE_RESULT_SUCCESS (queryEventStatus) becomes finished.                  *)
UpdateAwaitedEvents ==
    /\ ongoing' = [i \in DOMAIN ongoing |->
                     IF signaled[ongoing[i].associatedEvent]
                     THEN [ongoing[i] EXCEPT !.isFinished = TRUE]
                     ELSE ongoing[i]]
    /\ UNCHANGED <<pool, staged, signaled, regs>>

(* acquireFinishedCopies: a finished resubmittable operation resets its   *)
(* event and is staged for its command list, a one-shot one returns its    *)
(* event; all finished operations leave ongoingOperations.                 *)
AcquireFinishedCopies ==
    LET fin == SelectSeq(ongoing, LAMBDA op : op.isFinished)
        again == SelectSeq(fin, LAMBDA op : op.canBeResubmitted)
        once == SelectSeq(fin, LAMBDA op : ~op.canBeResubmitted)
    IN  /\ fin # <<>>
        /\ pool' = pool \cup SeqEvents(once)
        /\ signaled' = [e \in Events |-> IF e \in SeqEvents(fin) THEN FALSE
                                         ELSE signaled[e]]
        /\ staged' = [l \in Lists |-> staged[l] \o OfList(again, l)]
        /\ ongoing' = SelectSeq(ongoing, LAMBDA op : ~op.isFinished)
        /\ UNCHANGED regs

(* Defect variant of ResubmitOperationsOfCommandList: isFinished is not   *)
(* cleared on the copies put back.                                         *)
ResubmitKeepFinished(l) ==
    /\ staged[l] # <<>>
    /\ ongoing' = ongoing \o staged[l]
    /\ staged' = [staged EXCEPT ![l] = <<>>]
    /\ UNCHANGED <<pool, signaled, regs>>

(* resubmitOperationsOfCommandList, when the list is executed again:       *)
(* its staged operations go back to ongoingOperations, unfinished.         *)
ResubmitOperationsOfCommandList(l) ==
    /\ staged[l] # <<>>
    /\ ongoing' = ongoing \o [i \in DOMAIN staged[l] |->
                                 [staged[l][i] EXCEPT !.isFinished = FALSE]]
    /\ staged' = [staged EXCEPT ![l] = <<>>]
    /\ UNCHANGED <<pool, signaled, regs>>

(* Defect variant of FreeOperationsOfCommandList: the events of staged    *)
(* operations are not returned.                                            *)
FreeOngoingOnly(l) ==
    /\ pool' = pool \cup SeqEvents(OfList(ongoing, l))
    /\ signaled' = [e \in Events |->
                      IF e \in SeqEvents(OfList(ongoing, l)) THEN FALSE ELSE signaled[e]]
    /\ ongoing' = SelectSeq(ongoing, LAMBDA op : op.commandList # l)
    /\ staged' = [staged EXCEPT ![l] = <<>>]
    /\ UNCHANGED regs

(* freeOperationsOfCommandList, on reset or destroy of the list: the      *)
(* events of its ongoing and of its staged operations go back to the      *)
(* events manager, and both records of the list are erased.               *)
FreeOperationsOfCommandList(l) ==
    LET back == SeqEvents(OfList(ongoing, l)) \cup SeqEvents(staged[l])
    IN  /\ pool' = pool \cup back
        /\ signaled' = [e \in Events |-> IF e \in back THEN FALSE ELSE signaled[e]]
        /\ ongoing' = SelectSeq(ongoing, LAMBDA op : op.commandList # l)
        /\ staged' = [staged EXCEPT ![l] = <<>>]
        /\ UNCHANGED regs

Next ==
    \/ \E l \in Lists, e \in Events, resub \in BOOLEAN : RegisterCopyOperation(l, e, resub)
    \/ \E e \in Events : DeviceSignal(e)
    \/ UpdateAwaitedEvents
    \/ AcquireFinishedCopies
    \/ \E l \in Lists : ResubmitOperationsOfCommandList(l) \/ FreeOperationsOfCommandList(l)

Spec == Init /\ [][Next]_vars
-----------------------------------------------------------------------------
Holders(s, e) == {i \in DOMAIN s : s[i].associatedEvent = e}

StagedHolders(e) == UNION {{<<l, i>> : i \in Holders(staged[l], e)} : l \in Lists}

(* Every artificial event is in exactly one place: free in the events     *)
(* manager, or held by one ongoing or one staged operation.  Over any      *)
(* sequence of appends, polls, acquires, re-executions and frees, no      *)
(* event leaks from the pool and none is handed to two copies at once.    *)
EventsConserved ==
    \A e \in Events :
        (IF e \in pool THEN 1 ELSE 0) + Cardinality(Holders(ongoing, e))
            + Cardinality(StagedHolders(e)) = 1

(* A copy is reported finished only when its event is signalled by the    *)
(* device: a resubmitted copy whose event was reset waits for the next    *)
(* run, and the host memory is not refreshed with the old contents.        *)
FinishedMeansSignaled ==
    \A i \in DOMAIN ongoing : ongoing[i].isFinished => signaled[ongoing[i].associatedEvent]
=============================================================================
