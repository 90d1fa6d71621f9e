# TLA+ models of the compute-aggregation-layer RPC channel and ICD bookkeeping

This directory holds TLA+ specifications of the compute aggregation layer (CAL).
They cover the shared-memory RPC channel between the client library (ICD) and
the service, and the ICD's and the service's bookkeeping that sits on top of
it: host-memory chunks of command lists, the executed-lists records of queues
and fences, the kernel names cache, and the service's tracking of copies to
host memory. Every definition is translated from the
sources under `src/`. `PROJECT.json` maps each definition to the lines it models.

## The system

- **`Cal::Rpc::TypedRing`** (`src/shared/rpc.h` 40-133). This is a
  single-producer, single-consumer ring in shared memory.
  - `push` is the producer's step. It reads both offsets and stores the element
    unless the ring is full. One slot always stays free, so the usable capacity
    is `capacity - 1`.
  - `pop` is the consumer's step and advances the head.
  - Two rings use this class: the command ring (client → service) and the
    hostptr-copies ring (service → client).
- **`CommandsChannel`** (150-430). This part lays out the shared memory:
  - the offsets of both rings;
  - two POSIX semaphores, `semClient` and `semServer`;
  - the completion stamps;
  - the heap where commands are written.
  - `partition` and `isInBounds` validate a layout, and `initControlBlock`
    resets the rings and the semaphores.
- **`ChannelClient`** (432-820). The generated RPC helpers hold the channel
  lock across a whole call, so one call at a time goes through:
  - `getSpace` takes heap space for the message and aborts when the heap is full.
  - `submitCommand` allocates a completion stamp, sets it NotReady and pushes
    `{message, stamp}`. If it runs out of stamps, or finds the ring full, it
    first waits for the newest outstanding async command (`waitForLastTag`),
    releases all async storage, and retries once.
  - `callSynchronous` posts `semServer` if the service sleeps on semaphores.
    It then waits on its stamp, by polling or by `semClient` depending on the
    message flag, frees the stamp and releases all async storage.
  - `callAsynchronous` keeps the stamp and the message space in
    `asyncTagsStorage` and `asyncCommandsSpaceStorage`.
  - The client sync method is chosen at `init`: `activePolling` (flag never
    set), `semaphores` (always set), or `latencyBased` (set per call).
- **`ChannelServer`** (822-930).
  - `wait` takes the next entry by polling, or by sleeping on `semServer`
    while the ring is empty.
  - The service executes the command.
  - `signalCompletion` stores Ready in the stamp and posts `semClient` if the
    message asked for it.
  - `pushHostptrCopyToUpdate` reports host memory the client must refresh;
    `HostptrCopiesReader` drains those reports on the client.
- **ICD objects** (`src/icd/icd_level_zero.cpp`):
  - command lists register the host memory they write or read
    (`registerMemoryToContainer`, which keeps chunks disjoint by merging);
  - queues and fences track the lists being executed, so that synchronising
    reads memory back;
  - modules cache kernel names (double-checked lock) and global pointers;
  - `ImportedHostPointersManager` tracks imported host ranges.
- **IPC handle translation** (`src/client/icd/level_zero/api_customization/
  icd_level_zero_ipc_helpers.h`). `toLocalFds` and `toRemoteFds` rewrite
  the file descriptors inside IPC handles between the service's and the
  client's process, under the lock of the one socket connection the client
  shares with the service:
  - handles whose fd the platform already maps are rewritten at once;
  - if some but not all are known, the function calls itself for each
    unknown handle, still holding the lock;
  - otherwise the batch is exchanged with the service: `ReqTransferFd` then
    `receiveFds` (to local), or `ReqReverseTransferFd`, `sendFds`, then the
    reply (to remote), and the new pairs are recorded in the platform map.
- **Service `OngoingHostptrCopiesManager`**: it tracks copies to host memory
  until their events complete, parks resubmittable ones per command list, and
  returns the artificial events it used.

## Modules

| module | models | source |
|---|---|---|
| `BoundedFifo` | Abstract specification: a FIFO of at most `Cap` items, with the output history | spec: ring buffer of commands |
| `Ring` | `TypedRing`. `ring` is the record of `data`, `head` and `tail`. `Produce` is `push`, including its failing branch, and `Consume` is `peekHead` + `pop`. `Ring` refines `BoundedFifo` through `Contents(ring)`. | rpc.h 40-133 |
| `Channel` | `ChannelClient` and `ChannelServer` over one command ring (an `INSTANCE` of `Ring`), the stamps, the heap and both semaphores | rpc.h 150-930 |
| `KernelNamesCache` | `IcdL0Module`'s kernel names: `zeModuleGetKernelNames` → `getKernelNames(Count)` → `queryKernelNames` → `populateKernelNames`, from several threads. `queried` is `wasKernelNamesQueried`, `owner` is `kernelNamesMutex`, `pc` steps through the flag tests, the lock, the two RPCs (which may fail), the appends one name at a time, the flag store, and the unlocked read of `kernelNames.size()` | icd_level_zero.cpp 613-628, 837-899 |
| `ChunkRegistry` | `memoryToWrite` / `memoryToRead` of a command list: `AppendMemoryCopy` and `AppendMemoryFill` are the API functions (nullptr checks, then the immediate or the normal variant, `isImmediate` being fixed at creation); the `*Normal` variants have every USM/host branch, the `*Immediate` ones register nothing. `RegisterMemoryToContainer` is the three-branch merge, `MergeAll` (RECURSIVE) its loop; `regWrite` / `regRead` are the reference sets of registered bytes | icd_level_zero.cpp 332-404, icd_level_zero_api_command_list.cpp 29-209 |
| `CommandQueueFence` | One queue and one fence used by application threads: execute (record under the queue lock, `writeRequiredMemory`, unlock, submit RPC), queue synchronize (RPC, read back every recorded list, clear), fence synchronize (RPC, move the fence's lists out, read them back, `removeFromExecutedCommandLists`). The device runs submissions in order. Records carry the execute call they came from as a history tag; the code compares handles only, and so does `IndexOf` | icd_level_zero.cpp 407-481, 489-598 |
| `OngoingHostptrCopies` | The service's `OngoingHostptrCopiesManager`: `ongoing` is `ongoingOperations`, `staged` is `operationsForResubmit`, `pool` the free events of the events manager, `signaled` the device state of each event. Each method is one action; the calls may come in any order | ongoing_hostptr_copies_manager.cpp 18-126 |
| `Layout` | `DefaultLayout`, both `partition()` overloads and `isInBounds()` as operators (the sums of `isInBounds()` wrap at 2^`WordBits`), and the channel handshake as a state machine: `CreateRingBuffer` (client partitions the segment), `EnableRpc` (sends its layout, or one of a client of another build), `ServerInit` (the service adopts it only if `isInBounds()` passes) | rpc.h 142-327, 348-397, 736-781, 834-846 |
| `HostptrCopiesReader` | Extends `OngoingHostptrCopies` with the hostptr-copies ring (a second `INSTANCE` of `Ring`), the service pushing every copy `acquireFinishedCopies` returns (`PushHostptrCopyToUpdate` refuses a chunk on a full ring), and the client's `readMemory`: the drain loop one `acquireHostptrCopiesUpdate` per step, then one transfer of `copyMappedMemory` per step, a failed shmem open ending it with an error | rpc.h 686-695, 885-892, hostptr_copies_reader.cpp 20-67 |
| `IpcHelpers` | `toLocalFds` / `toRemoteFds` from several threads. `rFile` / `lFile` say which file each service and client fd number opens, `fdMap` is the platform's map of fd pairs, `connOwner` / `connDepth` the connection lock, `toService` / `toClient` the socket in each direction, `broken` a failed socket. `ipc[t].pc` steps through lock, lookup (bound check and known-fd loop), the nested calls of a mixed batch (`inner`), send, the fd exchange and the reply; `ConnFail` is every `false` return of the connection. The service side, not in this repository, answers in order and may refuse a reverse transfer | icd_level_zero_ipc_helpers.h 19-148 |
| `MCRing`, `MCChannel`, `MCKernelNamesCache`, `MCCommandQueueFence`, `MCIpcHelpers` | Instantiations for TLC: model values, and symmetry over the stamps, the fd tables of the IPC run | |

### How `Channel` follows the code

- **Client.** The client is one sequential process, because the channel lock
  serialises calls. Its program counter `cl.pc` steps through the code:
  - `alloc` → `push` → `signal` → `spin`/`semWait` → `idle`, for the normal path;
  - `alloc2` and `push2` are the retries after `waitForLastTag`.
- **Client actions:**
  - `GetSpace` models `getSpaceAligned` and chooses the call kind and the
    message flag, as the sync method allows.
  - `AllocateStamp` and `PushCommand` are the two halves of `submitCommand`,
    including the `waitForLastTag` detours.
  - `SignalService` is the rest of `callSynchronous` or `callAsynchronous`
    before the wait.
  - `ClientSemaphoreWait` is `sem_wait` on `semClient`.
  - `ClientWaitDone` is the end of the polling loop, together with the stamp
    free and `releaseAsyncStorage` that follow it.
- **Server actions:** the server is a second process.
  - `ServerPop` models `ChannelServer::wait` taking an entry.
  - `ServerSleep` is entering `sem_wait` on an empty ring. `ServerSemaphoreWait`
    is waking up when `semServer` is posted. After the server has slept, a
    pushed entry is seen only after a post, as in the code.
  - `ServerExecute` is the service's dispatch. It is modelled from the spec,
    because the dispatch loop is not under `src/`.
  - `SignalCompletionStamp` and `SignalCompletionPost` model `signalCompletion`.
- **Stop.** `stopped` holds both `stopped` flags. `ClientStop` is the client's
  `stop()`: it only sets the flag. A client blocked in `semaphoreWait` or
  polling sees it only when it next runs (`ClientWaitAborted`,
  `AbortCall`: the call returns false and its space is freed by the
  `unique_ptr`). `ServerStop` is the server's `stop()`: it sets the flag and
  posts `semServer`; `ServerAbortWait` and the flag test after waking end
  the server loop. Whether the server may stop in the middle of a call is
  the constant `ServerStopAnyTime`; otherwise it stops only when the client
  is idle and done (spec.md: shutdown is observed during orderly teardown).
- **Allocators.** `TagAllocator` and `AddressRangeAllocator` are not under
  `src/`. They are modelled as sets: `freeStamps`, and `heap` as the set of
  live message spaces.
- **History variables.** `executed`, `signaled` and `completed` record which
  calls reached each point.

## Runs

- **`ring_fifo`** (`MCRing`: the ring at capacity 4, 2 item values, 9
  pushes, run over a channel once its handshake established it; channel
  sizes 16 KiB, 20 KiB, 24 KiB and 64 KiB; the client sends its own layout
  or that layout with one field moved by ±1, 8, 32, 64 or 4096 bytes;
  about 724,000 states):
  - `RefinesBoundedFifo`: every behaviour of the ring is a behaviour of a
    FIFO of 3 entries.
  - `PushFailsOnlyWhenFull`: a refused push happens only at 3 entries.
  - `TypeOK` of `Ring`. Peer layouts that `isInBounds()` refuses are in
    the run too: they end the handshake in `failed`. No property compares
    an accepted layout with the layout contract: on layouts whose ends fit
    in `size_t` that contract is `isInBounds()` itself, region by region,
    and the layouts where the two could differ wrap around (see Not
    modelled).
  - `PartitionAccepted`: a client of the same build always gets its
    channel: the service accepts the layout `createRingBuffer()` computed
    for every segment it could partition.
- **`channel_polling`** and **`channel_semaphores`** (`MCChannel*.cfg`:
  ring capacity 2, so one entry; 2 stamps; 6 calls, mixed sync and async;
  both sides may `stop()`):
  - `TypeOK` (polling run): the channel's variables, the embedded ring
    included, keep their types.
  - `StampsExclusive`: no stamp is free or shared while its command is
    outstanding.
  - `HeapSpaceLive`: until the client stops, no message space is freed
    while its command is queued or executing. A call aborted by `stop()`
    frees its space early; the stopped client takes no space again.
  - `ResultReadyOnReturn`: a synchronous call returns only after the service
    signalled it.
  - `BackpressureRetrySucceeds`: the single retry after `waitForLastTag`
    always finds a free stamp or a free slot. The code aborts the call
    otherwise.
  - `HeapDemandBounded`: at most |Stamps|+1 message spaces are live, which
    bounds the heap the client needs; `getSpace` aborts on a full heap.
  - `CallsReturn`: every call eventually returns, unless the service
    stopped.
  - `StopAbortsWaits` (polling run, where the service may stop mid-call):
    after the client's `stop()`, a call in its wait returns.
  - `NoLostWakeup` (semaphores run): a client blocked on `semClient` always
    has a post pending, or one coming from a flagged command in flight.
  - `ServerStopsAfterStop` (semaphores run): after the server's `stop()`,
    its loop ends, also when it sleeps on `semServer`.
- **`channel_client_stop`** (expected violation of `StopAbortsWaits`,
  semaphores on both sides, the service may stop at any time). The service
  stops with the client's flagged call unanswered; the client then calls
  `stop()`, which sets the flag but posts nothing (rpc.h:675); the client
  stays blocked in `sem_wait` on `semClient` for ever. spec.md says a
  `stop()` makes any wait return within one wake cycle.
- **`channel_latency_lost_wakeup`** (expected violation of `NoLostWakeup`).
  Under `latencyBased`, TLC reaches a state where the client blocks on
  `semClient` and nothing will ever post it:
  1. an unflagged async call leaves its stamp in `asyncTagsStorage`;
  2. the next call is flagged and finds the ring full;
  3. `waitForLastTag` waits with the new call's flags (rpc.h:787), so it
     enters `semaphoreWait` for a command that never posts.
- **`kernel_names_cache`** (2 threads, 2 names, 2 calls per thread, RPCs
  may fail):
  - `NamesCompleteOnReturn`: no call reports fewer names than the module has,
    because the flag is stored only after every name was appended.
  - `CallsReturn`: every call returns; a failed RPC releases the mutex.
- **`kernel_names_duplicated`** (expected violation of `NamesNotDuplicated`).
  Both threads see the flag false, queue on the mutex, and both populate
  `kernelNames`: there is no second test after the lock (line 865).
- **`chunk_registry`** (addresses 1..5 and nullptr, sizes 0..3, 3 appends
  of copies and fills with every USM/host combination, on an immediate or
  a regular list, about 243,000 states):
  - `ChunksDisjoint`: no two chunks of a container overlap.
  - `ChunksCoverRegistered`: the chunks cover exactly the registered bytes.
- **`ipc_fds`** (`MCIpcHelpers`: 2 threads with one call each, batches of
  1 to 3 handles in either direction, service fds 1..3 and client fds 1..5
  over 2 files, one file already open on each side, the socket may fail,
  about 67,000 states):
  - `FdsTranslated`: a call that returns success has rewritten every handle
    to an fd of the other process opening the same file as the original;
    this needs each request and its reply to be one hold of the lock.
  - `IpcCallsReturn`: every call returns, including a partly known batch,
    whose nested calls lock the connection again.
- **`queue_fence_race`** (expected violation of `NoReadWhileRunning`, 2
  threads). Thread 1 records and unlocks; thread 2 synchronizes the queue,
  which is idle; thread 1 submits; thread 2 reads the list back while it runs
  and clears its record.
- **`queue_fence_reread`** (expected violation of `ReadsMatchExecutions`, one
  thread, RPCs succeed). An execute with a fence, then a queue synchronize
  (reads the list and clears the queue's record), then a fence synchronize,
  which reads it again: the queue synchronize never clears the fence's record.
- **`hostptr_copies`** (`HostptrCopiesReader`: 2 command lists, 3 events, 3
  registered copies, a hostptr ring of 3 slots, 3 chunks pushed in all, 2
  `readMemory` calls, shmem opens may fail, symmetry over lists and events,
  about 2.1 million states):
  - `EventsConserved`: every event is free or held by exactly one ongoing or
    staged copy.
  - `FinishedMeansSignaled`: a copy is finished only while its event is
    signalled, so a resubmitted copy waits for the next run.
  - `CopiesAccounted`: every chunk the service surfaced is on the ring, held
    by the reader, copied, refused by a full ring, or taken by a
    `readMemory` that returned an error: nothing is lost silently.
  - `ReadCopiesDue`: a `readMemory` that succeeds copied, first and in ring
    order, every chunk the ring held when it began, while the service keeps
    pushing.
- **Defect variants.** Each property of a passing run has one, defined just
  before the definition it replaces: `PopLateWrap`, `CanPushNoFullTest`,
  `CanPushOffByOne`, `HostptrRingTailOnHead`,
  `WaitForFirstTag`, `AllocateStampKeepValue`, `ReleaseAsyncStorageKeepTags`,
  `ReleaseAsyncStorageKeepSpaces`, `WaitPcInverted`,
  `PostServiceSemaphoreNever`, `SignalCompletionStampNoPost`,
  `ClientWaitIgnoresStop`, `ServerStopNoPost`, `PopulatePublishEarly`,
  `QueryRpcKeepLock`, `MergeChunksSecondEnd`, `RegisterMemoryFirstOnly`,
  `ResubmitKeepFinished`, `FreeOngoingOnly`,
  `CopySkipFailedOpen`, `GetFirstOnly`, `SendTransferUnlocked` and
  `LockConnectionNonRecursive`. Each breaks its property under
  the run's configuration.
  - `WaitForFirstTag` is the spec's own wording ("wait for the oldest"):
    waiting for the oldest async command and then releasing every tag would
    free stamps and spaces of commands still in the ring. The code's choice
    of the newest tag keeps `StampsExclusive` true.

### Bounds

- **Ring capacity 2 in the channel runs.** This makes the ring-full path
  (`push2`) and stamp exhaustion (`alloc2`) both reachable with 2 stamps.
- **Six calls** allow two exhaustion cycles and their retries, in both orders.
- **`ring_fifo` at capacity 4 with 9 pushes** wraps the head and the tail at
  least twice.
- **Layout: `size_t` is scaled to 30 bits** (TLC's integers are 32-bit),
  which holds every offset of the default layout and of the segments
  checked. 16 KiB is below the minimum segment (20 KiB) and is refused by
  `partition()`; 24 KiB and 64 KiB give larger heaps. The field moves of
  1, 8, 32, 64 and 4096 bytes, either way, cross every alignment the check
  tests and make every pair of neighbouring regions overlap; each size has
  128 peer layouts, 19 of them accepted.
- **Kernel names: 2 threads with 2 calls each.** Both can pass the flag test
  before either stores it, and a failed query can be retried.
- **Chunks: addresses 1..5 and sizes 0..3 with 3 appends.** Three appends
  reach a new range that bridges two chunks, adjacency, containment and
  empty ranges.
- **Queue and fence:** the two runs are the shortest traces of their
  findings: two threads for the race, one thread with a fence for the
  second read.
- **IPC: 2 threads, one call each, up to 3 handles.** Three handles are
  needed for a nested call to meet a handle the other thread's exchange
  has just mapped; one file open on each side at the start gives known,
  unknown and mixed batches; 5 client fds leave room for every transfer,
  and `ConnFail` also covers running out of them.
- **Copies: 3 events for 3 copies, a ring of 2 usable slots, 3 pushes.**
  Events are reused after a free or an acquire; a publish of three finished
  copies overflows the ring; a read starts with two chunks due while more
  arrive.
- **Symmetry.** Stamps, command lists and events are model values no
  definition tells apart.

### Fairness

- `WF` on the client's and the server's steps. Both are threads that run
  until they block; `Spec` leaves the caller free not to start a new call.
  `stop()` on either side is not fair: nobody has to call it.
- `KernelNamesCache` puts `WF` on each thread's steps inside a call; a
  thread blocked on the mutex can proceed only when the mutex is free.
- `IpcHelpers` puts `WF` on each thread's steps inside a call and on the
  service, which answers every request it receives; a thread waiting for
  the lock or a reply is enabled only when the lock is free or the reply
  has arrived.
- The layout, queue and copies models check safety only, with no fairness.
- A blocked `sem_wait` step is enabled only when the count is positive.
  Weak fairness therefore gives progress only when a post really happens,
  which is what the code guarantees.

## Not modelled, and why

- **`ImportedHostPointersManager`** (icd_level_zero.cpp 630-699). Every
  state change goes through the `Cal::Utils` range containers, which are
  not under `src/`; release and lookup search with the empty range [p, p),
  so the behaviour rests on `intersects()` of an empty range, which cannot
  be read from this repository.
- **Layouts whose region ends wrap around `size_t`.** `isInBounds()` sums
  offsets and capacities in 64-bit arithmetic, and `Layout` computes them
  modulo 2^`WordBits`, but whether a wrapped range passes `contains()` and
  `intersects()` depends on `Cal::Utils::AddressRange` and on the field
  types of `CommandsChannelLayout`, both outside `src/`. Listed as a hazard.
- **Zero-size hostptr chunks.** The drain loop stops at the first chunk of
  size 0; whether the service ever pushes one depends on its append paths,
  not under `src/`. Listed as a hazard.
- **The `Connection` class, the platform fd map and the service's side of
  the fd transfer** (`Cal::Ipc::Connection`, `IcdL0Platform`, the
  service's handling of `ReqTransferFd`): not in this repository. The model
  takes the connection lock as recursive, which the nested calls in
  `ipc_helpers.h` need (`LockConnectionNonRecursive` shows the hang
  otherwise), and never closes an fd (listed as a hazard).
- **Driver API customisation** (`zeInit`, `zeDriverGet`, the IPC
  import/export entry points): they dispatch on `getPointerType` and
  forward to RPC helpers, the IPC helpers or `ImportedHostPointersManager`;
  the dispatch is outside `src/`.
- **No run checks `NoReadWhileRunning` with failing RPCs**: the queue and
  fence runs show the two findings; the failing RPC path of a fence
  synchronize is modelled but only its hazard records it.
- `recordGlobalPointer` and `removeGlobalPointer`: they race only when a
  module is destroyed while another thread uses it, which the application
  must not do.
- The `ArtificialEventsManager`, the service's dispatch loop and the code
  that pushes acquired copies: not under `src/`, modelled from spec.md 4.5.
- The second copy of `zeCommandListAppendMemoryCopy/Fill` in
  icd_level_zero.cpp has the same branches as the one in
  `api_customization`, which is the one modelled.
- The generated service and shared code (the Level Zero loader, message
  structs, dispatch tables), the driver and the message marshalling, the thin `ze*`
  forwarders and the tests: no state the properties tell apart, or out of
  scope in spec.md.
- The bytes moved by `write/readRequiredMemory` and `memcpy`: abstracted to
  which chunk was copied.
- Memory-model reordering of the relaxed stamp store against the response
  data, listed as a hazard.

## Next

1. Wrapped layouts, once the `AddressRange` semantics can be pinned down.
2. A service stop during a hostptr push, composing `HostptrCopiesReader`
   with `Channel`.
3. Larger channel instances (3 stamps) with symmetry.
