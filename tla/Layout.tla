------------------------------- MODULE Layout -------------------------------
(***************************************************************************)
(* The layout of the commands channel's shared memory (CommandsChannel in *)
(* src/shared/rpc.h): DefaultLayout's offsets, partition() computing the   *)
(* canonical layout for a segment, partition() adopting a layout sent by  *)
(* the peer, and isInBounds(), the check a received layout must pass.      *)
(* All operators are pure; the sums of isInBounds() are taken modulo the  *)
(* width of size_t.                                                       *)
(***************************************************************************)
EXTENDS Integers

CONSTANTS WordBits,        \* bits of size_t
          SizeofOffset,    \* sizeof(OffsetWithinChannelT)
          SizeofSem,       \* sizeof(sem_t)
          SizeofStamp,     \* sizeof(CompletionStampT)
          SizeofMemChunk,  \* sizeof(Cal::Rpc::MemChunk)
          Cacheline,       \* Cal::Utils::cachelineSize
          Page,            \* Cal::Utils::pageSize4KB
          Fail             \* partition() returned false

Word == 2 ^ WordBits

SizeofRingEntry == 2 * SizeofOffset

(* size_t arithmetic: the sum and the product wrap at 2^WordBits. *)
AddW(a, b) == (a + b) % Word
MulW(a, b) == (a * b) % Word

(* Cal::Utils::alignUpPow2 and isAligned. *)
AlignUp(x, a) == ((x + a - 1) \div a) * a
IsAligned(x, a) == x % a = 0

(* Cal::Utils::AddressRange over [start, end), with contains() and        *)
(* intersects() as half-open intervals.                                    *)
AddressRange(s, e) == [start |-> s, end |-> e]
Contains(r, o) == r.start <= o.start /\ o.end <= r.end
Intersects(r, o) == r.start < o.end /\ o.start < r.end
-----------------------------------------------------------------------------
(* Defect variant of HostptrRingTail: the tail at the head's own          *)
(* cacheline.                                                              *)
HostptrRingTailOnHead(hpHead) == AlignUp(hpHead, Cacheline)

(* DefaultLayout::hostptrCopiesRingTail, the cacheline after the head.    *)
HostptrRingTail(hpHead) == AlignUp(hpHead + SizeofOffset, Cacheline)

(* CommandsChannel::DefaultLayout: | control block + ring | completion     *)
(* stamps | hostptr copies to update | heap ...                            *)
DefaultLayout ==
    LET ringHead == 0
        semClient == AlignUp(ringHead + SizeofOffset, SizeofSem)
        ringTail == AlignUp(semClient, Cacheline)
        semServer == AlignUp(ringTail + SizeofOffset, SizeofSem)
        hpHead == AlignUp(semServer, Page) + Page
        hpTail == HostptrRingTail(hpHead)
        hpStart == AlignUp(hpTail + SizeofOffset, Cacheline)
    IN  [ringHead |-> ringHead, semClient |-> semClient, ringTail |-> ringTail,
         semServer |-> semServer, ringStart |-> AlignUp(semServer, Cacheline),
         ringEnd |-> AlignUp(semServer, Page),
         completionStampsStart |-> AlignUp(semServer, Page),
         completionStampsEnd |-> hpHead, hostptrCopiesRingHead |-> hpHead,
         hostptrCopiesRingTail |-> hpTail, hostptrCopiesRingStart |-> hpStart,
         hostptrCopiesRingEnd |-> AlignUp(hpStart + Page, Page)]

HeapStart == DefaultLayout.hostptrCopiesRingEnd
MinShmemSize == HeapStart + Page

(* The static_asserts of DefaultLayout. *)
ASSUME /\ DefaultLayout.ringEnd = Page
       /\ (DefaultLayout.ringEnd - DefaultLayout.ringStart) \div SizeofRingEntry >= 2

(* partition(shmem, shmemSize, init): a page-aligned segment of at least  *)
(* minShmemSize gets the DefaultLayout, with the capacities that fit each  *)
(* region and the heap up to the end of the segment.  The shmem pointer    *)
(* is page aligned (it comes from mmap).                                   *)
Partition(shmemSize) ==
    IF ~IsAligned(shmemSize, Page) \/ shmemSize < MinShmemSize THEN Fail
    ELSE LET d == DefaultLayout
         IN  [ringHead |-> d.ringHead, semClient |-> d.semClient,
              ringTail |-> d.ringTail, semServer |-> d.semServer,
              ringStart |-> d.ringStart,
              ringCapacity |-> (d.ringEnd - d.ringStart) \div SizeofRingEntry,
              completionStampsStart |-> d.completionStampsStart,
              completionStampsCapacity |->
                  (d.completionStampsEnd - d.completionStampsStart) \div SizeofStamp,
              hostptrCopiesRingHead |-> d.hostptrCopiesRingHead,
              hostptrCopiesRingTail |-> d.hostptrCopiesRingTail,
              hostptrCopiesRingStart |-> d.hostptrCopiesRingStart,
              hostptrCopiesRingCapacity |->
                  (d.hostptrCopiesRingEnd - d.hostptrCopiesRingStart) \div SizeofMemChunk,
              heapStart |-> HeapStart, heapEnd |-> shmemSize]

(* The ten regions isInBounds() builds from a layout, each with the        *)
(* alignment its start and end must meet; the ends are computed in size_t, *)
(* or exactly when exact is TRUE.                                          *)
RegionsWith(el, exact) ==
    LET Plus(a, b) == IF exact THEN a + b ELSE AddW(a, b)
        Times(a, b) == IF exact THEN a * b ELSE MulW(a, b)
        R(s, len, a) == [range |-> AddressRange(s, Plus(s, len)), align |-> a]
    IN  <<R(el.ringHead, SizeofOffset, SizeofOffset),
          R(el.ringTail, SizeofOffset, SizeofOffset),
          R(el.semClient, SizeofSem, SizeofSem),
          R(el.semServer, SizeofSem, SizeofSem),
          R(el.ringStart, Times(el.ringCapacity, SizeofRingEntry), Cacheline),
          R(el.completionStampsStart, Times(el.completionStampsCapacity, SizeofStamp),
            Cacheline),
          R(el.hostptrCopiesRingHead, SizeofOffset, SizeofOffset),
          R(el.hostptrCopiesRingTail, SizeofOffset, SizeofOffset),
          R(el.hostptrCopiesRingStart, Times(el.hostptrCopiesRingCapacity, SizeofMemChunk),
            Cacheline),
          [range |-> AddressRange(el.heapStart, el.heapEnd), align |-> Page]>>

(* isInBounds() computes the ends in size_t. *)
Regions(el) == RegionsWith(el, FALSE)

(* isInBounds(): every region lies in [0, channelSize), starts and ends    *)
(* aligned, and intersects no other region.                                *)
IsInBounds(el, channelSize) ==
    LET rs == Regions(el)
    IN  \A i \in DOMAIN rs :
            /\ Contains(AddressRange(0, channelSize), rs[i].range)
            /\ IsAligned(rs[i].range.start, rs[i].align)
            /\ IsAligned(rs[i].range.end, rs[i].align)
            /\ \A j \in DOMAIN rs : j # i => ~Intersects(rs[i].range, rs[j].range)

(* partition(shmem, shmemSize, existingLayout, init): the peer's layout is *)
(* adopted only if it passes isInBounds().  existingLayout.isValid() is    *)
(* generated code outside src/ and taken to hold.                          *)
PartitionExisting(el, shmemSize) ==
    IF IsInBounds(el, shmemSize) THEN el ELSE Fail
-----------------------------------------------------------------------------
(* The layouts a peer may send for a channel of shmemSize bytes: the      *)
(* canonical one with any one field moved by one of Deltas, kept to the    *)
(* non-negative layouts whose region ends fit in size_t.                   *)
CONSTANTS Deltas,       \* how far a field of a peer layout is moved
          ChannelSizes  \* shmem sizes partition() is called with

Exact(el) == RegionsWith(el, TRUE)

FitsInWord(el) == \A i \in DOMAIN Exact(el) : Exact(el)[i].range.end < Word

PeerLayouts(shmemSize) ==
    LET base == Partition(shmemSize)
        moved == {[base EXCEPT ![f] = base[f] + d] : f \in DOMAIN base, d \in Deltas}
    IN  {el \in moved \cup {base} :
            (\A f \in DOMAIN el : el[f] >= 0) /\ FitsInWord(el)}

-----------------------------------------------------------------------------
(* Channel establishment: ChannelClient::createRingBuffer() partitions the *)
(* segment the service allocated, enableRpc() sends the layout in          *)
(* ReqLaunchRpcShmemRingBuffer, and ChannelServer::init() partitions its   *)
(* own mapping with the layout received.  The layout received may be that *)
(* of a client of another build: any of PeerLayouts.                       *)
VARIABLES setup  \* [phase, size, client, sent, server]

SetupVars == <<setup>>

SetupInit ==
    setup = [phase |-> "alloc", size |-> 0, client |-> Fail, sent |-> Fail,
             server |-> Fail]

(* createRingBuffer(): the segment of the size the service chose is mapped *)
(* and partitioned; a failed partition ends the setup.                     *)
CreateRingBuffer(size) ==
    /\ setup.phase = "alloc"
    /\ setup' = [setup EXCEPT !.size = size, !.client = Partition(size),
                              !.phase = IF Partition(size) = Fail THEN "failed"
                                        ELSE "partitioned"]

(* enableRpc(): request.layout = this->layout is sent to the service.     *)
EnableRpc(el) ==
    /\ setup.phase = "partitioned"
    /\ setup' = [setup EXCEPT !.sent = el, !.phase = "sent"]

(* ChannelServer::init(): partition() with the layout provided by the     *)
(* client; on failure the channel is not established.                      *)
ServerInit ==
    /\ setup.phase = "sent"
    /\ setup' = [setup EXCEPT !.server = PartitionExisting(setup.sent, setup.size),
                              !.phase = IF PartitionExisting(setup.sent, setup.size) = Fail
                                        THEN "failed" ELSE "established"]

(* A failed setup is not retried (spec.md: validation failure is fatal to  *)
(* channel establishment).                                                 *)
SetupFailed == setup.phase = "failed" /\ UNCHANGED setup

SetupNext ==
    \/ \E size \in ChannelSizes : CreateRingBuffer(size)
    \/ setup.phase = "partitioned" /\ \E el \in PeerLayouts(setup.size) : EnableRpc(el)
    \/ ServerInit
    \/ SetupFailed

Established == setup.phase = "established"

(* A client of the same build always gets its channel: when the layout    *)
(* createRingBuffer() computed is the one the service receives, the        *)
(* service's isInBounds() accepts it and both sides use the same layout.  *)
PartitionAccepted ==
    setup.phase \in {"failed", "established"} /\ setup.client # Fail
        /\ setup.sent = setup.client
    => setup.server = setup.client
=============================================================================
