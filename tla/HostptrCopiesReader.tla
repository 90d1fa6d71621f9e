------------------------- MODULE HostptrCopiesReader -------------------------
(***************************************************************************)
(* The copy-back path for host memory the service cannot write: the       *)
(* service surfaces finished copies (OngoingHostptrCopies), pushes each   *)
(* onto the channel's hostptr-copies ring (ChannelServer::                 *)
(* pushHostptrCopyToUpdate, src/shared/rpc.h), and the client's            *)
(* HostptrCopiesReader (icd/level_zero/logic/hostptr_copies_reader.cpp)    *)
(* drains the ring with ChannelClient::acquireHostptrCopiesUpdate and      *)
(* copies each chunk from the service's shared memory.  The service thread *)
(* and the reading client thread run concurrently; each ring operation    *)
(* and each transfer is one step.  A chunk is named by the event of the    *)
(* copy it reports; its pointer and size are abstracted (sizes are         *)
(* non-zero).                                                              *)
(***************************************************************************)
EXTENDS OngoingHostptrCopies, SequencesExt

CONSTANTS
    HostptrCapacity,  \* slots of the hostptr-copies ring
    NoEntry,          \* a ring slot never written
    MaxReads,         \* readMemory calls
    OpenMayFail,      \* whether ShmemImporter::open may fail
    MaxSurfaced       \* bound: chunks the service pushes in all

VARIABLES
    hpRing,     \* the hostptr-copies ring
    rd,         \* the client's readMemory call in progress
    surfaced,   \* history: every chunk the service tried to push, in order
    copied,     \* history: every chunk memcpy'd to the client, in order
    dropped,    \* chunks pushHostptrCopyToUpdate refused (ring full)
    failed      \* chunks taken off the ring by a readMemory that failed

HpRing == INSTANCE Ring WITH Capacity <- HostptrCapacity, Items <- Events,
                             MaxItems <- 0, ring <- hpRing, pushes <- 0,
                             lastPush <- "none", consumed <- <<>>

readerVars == <<hpRing, rd, surfaced, copied, dropped, failed>>
allVars == <<vars, readerVars>>

ReaderInit ==
    /\ hpRing = HpRing!EmptyRing
    /\ rd = [pc |-> "idle", toRead |-> <<>>, due |-> <<>>, start |-> 0, reads |-> 0,
             result |-> "none"]
    /\ surfaced = <<>> /\ copied = <<>> /\ dropped = <<>> /\ failed = <<>>
-----------------------------------------------------------------------------
(* pushHostptrCopyToUpdate(memChunk): push() onto the ring, or false when *)
(* the ring is full and the chunk is not queued.                          *)
PushHostptrCopyToUpdate(acc, chunk) ==
    IF HpRing!CanPush(acc.ring)
    THEN [acc EXCEPT !.ring = HpRing!Push(acc.ring, chunk)]
    ELSE [acc EXCEPT !.dropped = Append(acc.dropped, chunk)]

(* The service's dispatch (not under src/) pushes the chunk of every copy *)
(* acquireFinishedCopies returns, in order; spec.md 4.5.                   *)
PublishFinishedCopies ==
    LET fin == SelectSeq(ongoing, LAMBDA op : op.isFinished)
        chunks == [i \in DOMAIN fin |-> fin[i].associatedEvent]
        after == FoldLeft(PushHostptrCopyToUpdate,
                          [ring |-> hpRing, dropped |-> dropped], chunks)
    IN  /\ Len(surfaced) + Len(chunks) <= MaxSurfaced
        /\ AcquireFinishedCopies
        /\ hpRing' = after.ring
        /\ dropped' = after.dropped
        /\ surfaced' = surfaced \o chunks
        /\ UNCHANGED <<rd, copied, failed>>

(* readMemory() begins: getHostptrCopiesToUpdate starts its loop.  due    *)
(* and start are history: what the ring holds and what was copied so far. *)
ReadMemory ==
    /\ rd.pc = "idle" /\ rd.reads < MaxReads
    /\ rd' = [pc |-> "drain", toRead |-> <<>>, due |-> HpRing!Contents(hpRing),
              start |-> Len(copied), reads |-> rd.reads + 1, result |-> "none"]
    /\ UNCHANGED <<vars, hpRing, surfaced, copied, dropped, failed>>

(* acquireHostptrCopiesUpdate(): the head chunk, popped, or {nullptr, 0}   *)
(* (NoEntry) when the ring is empty.                                       *)
AcquireHostptrCopiesUpdate(r) ==
    IF HpRing!PeekEmpty(r) THEN [chunk |-> NoEntry, ring |-> r]
    ELSE [chunk |-> HpRing!PeekHead(r), ring |-> HpRing!Pop(r)]

(* Defect variant of GetHostptrCopiesToUpdate: the loop ends after the     *)
(* first chunk.                                                            *)
GetFirstOnly ==
    LET acq == AcquireHostptrCopiesUpdate(hpRing)
    IN  /\ rd.pc = "drain"
        /\ IF acq.chunk = NoEntry \/ rd.toRead # <<>>
           THEN /\ rd' = [rd EXCEPT !.pc = IF rd.toRead = <<>> THEN "idle" ELSE "copy",
                                      !.result = IF rd.toRead = <<>> THEN "success" ELSE "none"]
                /\ UNCHANGED hpRing
           ELSE /\ rd' = [rd EXCEPT !.toRead = Append(@, acq.chunk)]
                /\ hpRing' = acq.ring
        /\ UNCHANGED <<vars, surfaced, copied, dropped, failed>>

(* One iteration of getHostptrCopiesToUpdate's loop: a chunk of size 0    *)
(* ends it (sizes are non-zero, so only the empty ring does); readMemory  *)
(* returns at once when nothing was read.                                  *)
GetHostptrCopiesToUpdate ==
    LET acq == AcquireHostptrCopiesUpdate(hpRing)
    IN  /\ rd.pc = "drain"
        /\ IF acq.chunk = NoEntry
           THEN /\ rd' = [rd EXCEPT !.pc = IF rd.toRead = <<>> THEN "idle" ELSE "copy",
                                      !.result = IF rd.toRead = <<>> THEN "success" ELSE "none"]
                /\ UNCHANGED hpRing
           ELSE /\ rd' = [rd EXCEPT !.toRead = Append(@, acq.chunk)]
                /\ hpRing' = acq.ring
        /\ UNCHANGED <<vars, surfaced, copied, dropped, failed>>

(* Defect variant of CopyMappedMemory: a transfer whose shmem cannot be   *)
(* opened is skipped and the loop goes on.                                 *)
CopySkipFailedOpen ==
    /\ rd.pc = "copy"
    /\ \E opened \in IF OpenMayFail THEN BOOLEAN ELSE {TRUE} :
          copied' = IF opened THEN Append(copied, Head(rd.toRead)) ELSE copied
    /\ rd' = [rd EXCEPT !.toRead = Tail(@), !.pc = IF Len(rd.toRead) = 1 THEN "idle" ELSE "copy",
                                    !.result = IF Len(rd.toRead) = 1 THEN "success" ELSE "none"]
    /\ UNCHANGED <<vars, hpRing, surfaced, dropped, failed>>

(* One transfer of copyMappedMemory: open the service's shmem and memcpy; *)
(* a failed open returns false at once, and readMemory reports an error    *)
(* for the chunks not yet copied.                                          *)
CopyMappedMemory ==
    /\ rd.pc = "copy"
    /\ \/ /\ copied' = Append(copied, Head(rd.toRead))
          /\ rd' = [rd EXCEPT !.toRead = Tail(@), !.pc = IF Len(rd.toRead) = 1 THEN "idle" ELSE "copy",
                                    !.result = IF Len(rd.toRead) = 1 THEN "success" ELSE "none"]
          /\ UNCHANGED failed
       \/ /\ OpenMayFail
          /\ failed' = failed \o rd.toRead
          /\ rd' = [rd EXCEPT !.toRead = <<>>, !.pc = "idle", !.result = "error"]
          /\ UNCHANGED copied
    /\ UNCHANGED <<vars, hpRing, surfaced, dropped>>

CopiesNext ==
    \/ \E l \in Lists, e \in Events, resub \in BOOLEAN :
          RegisterCopyOperation(l, e, resub) /\ UNCHANGED readerVars
    \/ \E e \in Events : DeviceSignal(e) /\ UNCHANGED readerVars
    \/ UpdateAwaitedEvents /\ UNCHANGED readerVars
    \/ PublishFinishedCopies
    \/ \E l \in Lists : \/ ResubmitOperationsOfCommandList(l) /\ UNCHANGED readerVars
                        \/ FreeOperationsOfCommandList(l) /\ UNCHANGED readerVars
    \/ ReadMemory
    \/ GetHostptrCopiesToUpdate
    \/ CopyMappedMemory

(* The manager starts empty and the ring freshly reset. *)
CopiesInit == Init /\ ReaderInit

CopiesSpec == CopiesInit /\ [][CopiesNext]_allVars

(* No definition tells two command lists or two events apart. *)
Symmetry == Permutations(Lists) \cup Permutations(Events)
-----------------------------------------------------------------------------
(* No chunk is lost without a trace: every chunk the service surfaced is  *)
(* still on the ring, held by the reading client, copied, refused by a    *)
(* full ring (pushHostptrCopyToUpdate returned false), or taken by a      *)
(* readMemory that returned an error.  A failed shmem open in the middle  *)
(* of copyMappedMemory loses chunks already popped, so the error must be  *)
(* reported.                                                               *)
CopiesAccounted ==
    ToBag(surfaced) = ToBag(HpRing!Contents(hpRing) \o rd.toRead \o copied
                            \o dropped \o failed)

(* A readMemory that succeeds has copied, first and in ring order, every   *)
(* chunk the ring held when it began, even while the service pushes more  *)
(* chunks during the drain: a client reading after the service pushed     *)
(* sees its host memory refreshed.                                         *)
ReadCopiesDue ==
    rd.result = "success" =>
        /\ Len(copied) >= rd.start + Len(rd.due)
        /\ SubSeq(copied, rd.start + 1, rd.start + Len(rd.due)) = rd.due
=============================================================================
