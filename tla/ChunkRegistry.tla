--------------------------- MODULE ChunkRegistry ----------------------------
(***************************************************************************)
(* Host memory tracking of an IcdL0CommandList.                            *)
(* zeCommandListAppendMemoryCopy and zeCommandListAppendMemoryFill         *)
(* (icd_level_zero_api_command_list.cpp) register the host (non-USM)       *)
(* buffers of each append in memoryToWrite (written to the service before  *)
(* execution) or memoryToRead (read back after it).                        *)
(* registerMemoryToContainer (icd_level_zero.cpp) keeps each container a   *)
(* list of chunks by merging a new range with the chunks it overlaps.      *)
(* Both registration functions hold the container's mutex, so one append   *)
(* is one atomic step here.  An immediate command list registers nothing.  *)
(***************************************************************************)
EXTENDS Naturals, Sequences, FiniteSets

CONSTANTS
    MaxAddr,      \* host addresses are 1 .. MaxAddr (0 is nullptr)
    MaxSize,      \* sizes are 0 .. MaxSize
    MaxAppends,   \* appends recorded into the command list
    NullPtr       \* nullptr, a pointer argument outside Addrs

Addrs == 1 .. MaxAddr
Sizes == 0 .. MaxSize

VARIABLES
    memoryToWrite,  \* IcdL0CommandList::memoryToWrite, a vector of ChunkEntry
    memoryToRead,   \* IcdL0CommandList::memoryToRead
    regWrite,       \* bytes of every range registered to write (reference)
    regRead,        \* bytes of every range registered to read (reference)
    appends,        \* appends made so far
    isImmediate     \* IcdL0CommandList::isImmediate(), fixed at creation

vars == <<memoryToWrite, memoryToRead, regWrite, regRead, appends, isImmediate>>
containers == <<memoryToWrite, memoryToRead, regWrite, regRead>>

Chunk(p, s) == [address |-> p, size |-> s]

(* The bytes of a range; an application buffer never wraps the address   *)
(* space, so the ends are plain sums.                                      *)
Bytes(c) == {a \in c.address .. (c.address + c.size - 1) : TRUE}

ContainerBytes(m) == UNION {Bytes(m[i]) : i \in DOMAIN m}

(* rangesOverlap(srcPtr, srcSize, dstPtr, dstSize). *)
RangesOverlap(src, dst) ==
    \/ src.address <= dst.address /\ dst.address < src.address + src.size
    \/ dst.address <= src.address /\ src.address < dst.address + dst.size

(* Defect variant of MergeChunks: the end of the merged chunk is taken    *)
(* from the second chunk only.                                             *)
MergeChunksSecondEnd(first, second) ==
    LET b == IF first.address < second.address THEN first.address
             ELSE second.address
    IN  Chunk(b, second.address + second.size - b)

(* mergeChunks: min of the beginnings to max of the ends. *)
MergeChunks(first, second) ==
    LET b == IF first.address < second.address THEN first.address
             ELSE second.address
        e == IF first.address + first.size > second.address + second.size
             THEN first.address + first.size
             ELSE second.address + second.size
    IN  Chunk(b, e - b)

(* The loop of the more-than-one-overlap branch: keep what does not      *)
(* overlap the new range, fold what does into currentChunk, append it.    *)
RECURSIVE MergeAll(_, _, _, _)
MergeAll(memory, new, current, kept) ==
    IF memory = <<>> THEN Append(kept, current)
    ELSE IF ~RangesOverlap(Head(memory), new)
         THEN MergeAll(Tail(memory), new, current, Append(kept, Head(memory)))
         ELSE MergeAll(Tail(memory), new, MergeChunks(current, Head(memory)), kept)

FirstOverlapping(memory, new) ==
    CHOOSE i \in DOMAIN memory :
        /\ RangesOverlap(memory[i], new)
        /\ \A j \in 1 .. i - 1 : ~RangesOverlap(memory[j], new)

OverlappingCount(memory, new) ==
    Cardinality({i \in DOMAIN memory : RangesOverlap(memory[i], new)})

(* Defect variant of RegisterMemoryToContainer: several overlapping      *)
(* chunks are handled like one, merging only the first.                    *)
RegisterMemoryFirstOnly(memory, p, s) ==
    LET new == Chunk(p, s) IN
    IF OverlappingCount(memory, new) = 0 THEN Append(memory, new)
    ELSE LET i == FirstOverlapping(memory, new)
         IN  [memory EXCEPT ![i] = MergeChunks(new, memory[i])]

(* registerMemoryToContainer(ptr, size, memory). *)
RegisterMemoryToContainer(memory, p, s) ==
    LET new == Chunk(p, s) IN
    CASE OverlappingCount(memory, new) = 0 -> Append(memory, new)
      [] OverlappingCount(memory, new) = 1 ->
            LET i == FirstOverlapping(memory, new)
            IN  [memory EXCEPT ![i] = MergeChunks(new, memory[i])]
      [] OTHER -> MergeAll(memory, new, new, <<>>)

Init == /\ memoryToWrite = <<>>
        /\ memoryToRead = <<>>
        /\ regWrite = {}
        /\ regRead = {}
        /\ appends = 0
        /\ isImmediate \in BOOLEAN
-----------------------------------------------------------------------------
RegisterMemoryToWrite(p, s) ==
    /\ memoryToWrite' = RegisterMemoryToContainer(memoryToWrite, p, s)
    /\ regWrite' = regWrite \cup Bytes(Chunk(p, s))

RegisterMemoryToRead(p, s) ==
    /\ memoryToRead' = RegisterMemoryToContainer(memoryToRead, p, s)
    /\ regRead' = regRead \cup Bytes(Chunk(p, s))

(* zeCommandListAppendMemoryCopyNormal.  USM-to-USM goes straight to the *)
(* RPC; a host source is registered to write, a host destination to read; *)
(* two overlapping host buffers are refused.                               *)
AppendMemoryCopyNormal(dst, src, size, dstIsUsm, srcIsUsm) ==
    \/ /\ dstIsUsm /\ srcIsUsm
       /\ UNCHANGED containers
    \/ /\ dstIsUsm /\ ~srcIsUsm
       /\ RegisterMemoryToWrite(src, size)
       /\ UNCHANGED <<memoryToRead, regRead>>
    \/ /\ ~dstIsUsm /\ srcIsUsm
       /\ RegisterMemoryToRead(dst, size)
       /\ UNCHANGED <<memoryToWrite, regWrite>>
    \/ /\ ~dstIsUsm /\ ~srcIsUsm
       /\ RangesOverlap(Chunk(src, size), Chunk(dst, size))
       /\ UNCHANGED containers
    \/ /\ ~dstIsUsm /\ ~srcIsUsm
       /\ ~RangesOverlap(Chunk(src, size), Chunk(dst, size))
       /\ RegisterMemoryToWrite(src, size)
       /\ RegisterMemoryToRead(dst, size)

(* zeCommandListAppendMemoryCopyImmediate: every branch either calls an    *)
(* RPC that copies at once (USM-to-USM, host-to-USM) or refuses the call  *)
(* (USM-to-host, overlapping or disjoint host buffers); nothing is        *)
(* registered.                                                             *)
AppendMemoryCopyImmediate == UNCHANGED containers

(* zeCommandListAppendMemoryCopy: a nullptr argument is refused; the call *)
(* goes to the immediate or the normal variant.                            *)
AppendMemoryCopy(dst, src, size, dstIsUsm, srcIsUsm) ==
    /\ appends < MaxAppends
    /\ appends' = appends + 1
    /\ IF dst = NullPtr \/ src = NullPtr THEN UNCHANGED containers
       ELSE IF isImmediate THEN AppendMemoryCopyImmediate
       ELSE AppendMemoryCopyNormal(dst, src, size, dstIsUsm, srcIsUsm)
    /\ UNCHANGED isImmediate

(* zeCommandListAppendMemoryFillNormal: only the filled buffer is         *)
(* tracked, to read back, when it is host memory.                          *)
AppendMemoryFillNormal(ptr, pattern, patternSize, size, ptrIsUsm, patternIsUsm) ==
    \/ /\ ptrIsUsm
       /\ UNCHANGED containers
    \/ /\ ~ptrIsUsm /\ patternIsUsm
       /\ RegisterMemoryToRead(ptr, size)
       /\ UNCHANGED <<memoryToWrite, regWrite>>
    \/ /\ ~ptrIsUsm /\ ~patternIsUsm
       /\ RangesOverlap(Chunk(pattern, patternSize), Chunk(ptr, size))
       /\ UNCHANGED containers
    \/ /\ ~ptrIsUsm /\ ~patternIsUsm
       /\ ~RangesOverlap(Chunk(pattern, patternSize), Chunk(ptr, size))
       /\ RegisterMemoryToRead(ptr, size)
       /\ UNCHANGED <<memoryToWrite, regWrite>>

(* zeCommandListAppendMemoryFillImmediate: an RPC for a USM destination,  *)
(* a refusal otherwise; nothing is registered.                             *)
AppendMemoryFillImmediate == UNCHANGED containers

(* zeCommandListAppendMemoryFill: nullptr refused, then the immediate or  *)
(* the normal variant.                                                     *)
AppendMemoryFill(ptr, pattern, patternSize, size, ptrIsUsm, patternIsUsm) ==
    /\ appends < MaxAppends
    /\ appends' = appends + 1
    /\ IF ptr = NullPtr \/ pattern = NullPtr THEN UNCHANGED containers
       ELSE IF isImmediate THEN AppendMemoryFillImmediate
       ELSE AppendMemoryFillNormal(ptr, pattern, patternSize, size, ptrIsUsm, patternIsUsm)
    /\ UNCHANGED isImmediate

Done == appends = MaxAppends /\ UNCHANGED vars

Next ==
    \/ \E dst, src \in Addrs \cup {NullPtr}, size \in Sizes, du, su \in BOOLEAN :
          AppendMemoryCopy(dst, src, size, du, su)
    \/ \E ptr, pat \in Addrs \cup {NullPtr}, size \in Sizes, pu, patu \in BOOLEAN :
          AppendMemoryFill(ptr, pat, 1, size, pu, patu)
    \/ Done

Spec == Init /\ [][Next]_vars
-----------------------------------------------------------------------------
Disjoint(m) ==
    \A i, j \in DOMAIN m : i # j => ~RangesOverlap(m[i], m[j])

(* After any sequence of appends the chunks of each container are         *)
(* pairwise non-overlapping, so each host byte is copied once.            *)
ChunksDisjoint == Disjoint(memoryToWrite) /\ Disjoint(memoryToRead)

(* The chunks cover exactly the bytes the appends registered: merging    *)
(* never drops a registered byte (it would not be copied) and never adds  *)
(* one between two ranges (reading it back would overwrite host memory    *)
(* the command list does not touch).                                       *)
ChunksCoverRegistered ==
    /\ ContainerBytes(memoryToWrite) = regWrite
    /\ ContainerBytes(memoryToRead) = regRead
=============================================================================
