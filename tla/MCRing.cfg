\* x86-64 sizes: size_t is scaled to 30 bits (TLC's integers are 32-bit),
\* which still holds every offset of the default layout.
CONSTANTS
  Capacity = 4
  Items = {1, 2}
  NoEntry = NoEntry
  MaxItems = 9
  WordBits = 30
  SizeofOffset = 8
  SizeofSem = 32
  SizeofStamp = 4
  SizeofMemChunk = 16
  Cacheline = 64
  Page = 4096
  Fail = Fail
  Deltas <- MCDeltas
  ChannelSizes = {16384, 20480, 24576, 65536}
SPECIFICATION MCSpec
INVARIANT TypeOK
INVARIANT PushFailsOnlyWhenFull
INVARIANT PartitionAccepted
PROPERTY RefinesBoundedFifo
