------------------------------- MODULE MCRing -------------------------------
(* The ring's producer and consumer, run over a commands channel once the *)
(* client and the service have agreed on its layout.                       *)
EXTENDS Ring, Integers

CONSTANTS WordBits, SizeofOffset, SizeofSem, SizeofStamp, SizeofMemChunk,
          Cacheline, Page, Fail, Deltas, ChannelSizes

(* A field of the canonical layout moved by a byte, a word, a semaphore, *)
(* a cacheline or a page, either way.                                      *)
MCDeltas == {-4096, -64, -32, -8, -1, 1, 8, 32, 64, 4096}

VARIABLE setup  \* the establishment of the channel the ring lives in

ChannelLayout == INSTANCE Layout

(* The ring is used once the channel is established; until then only the *)
(* setup moves.                                                            *)
MCInit == Init /\ ChannelLayout!SetupInit

MCNext == \/ ChannelLayout!SetupNext /\ UNCHANGED vars
          \/ ChannelLayout!Established /\ Next /\ UNCHANGED setup

MCSpec == MCInit /\ [][MCNext]_<<vars, setup>>

PartitionAccepted == ChannelLayout!PartitionAccepted
=============================================================================
