# Elgate: TLA+ models, checks and proofs

Elgate is a Rust library (`src/elgate-core`) meant as the core of an I/O sidecar.
Applications and the sidecar exchange operations through a ring buffer in shared
memory; a disk engine and a network engine perform I/O with io_uring and report
every operation in the same ring; an `arch` module detects the machine's topology
and places worker threads. This directory holds the formal models of that code.

## 1. Inventory

| Component | State it keeps | Operations | What makes it correct |
|---|---|---|---|
| Ring, `ring/buffer.rs`, `header.rs`, `slot.rs` | shared memory: two indices, counters, a status and fields per slot | `write`, `read`, `wait_for_slot`, `next_producer_idx`, `next_consumer_idx`, `Slot::reset / write_data / read_data` | a message is delivered once and whole, in order; nothing accepted is lost; calls return; indices stay in range |
| Ring lifecycle, same files | the file, its header, `active_producers`, each handle | `create`, `create_numa_aware`, `open`, `validate`, `register_as_producer`, `unregister_as_producer`, `Drop` | a handle works with the sizes of one whole header, all of it mapped; slots lie inside the mapping; the count is exact; a ring in use is not made again |
| Network engine, `net/io_uring.rs` | cache of streams by address under a mutex; open descriptors | `accept`, `connect`, `read`, `write`, `close`, `Drop` | a descriptor means the connection it was returned for; no leak; no task stops the others; notifications agree with the cache |
| Disk engine, `disk/io_uring.rs` | none that is used (`file_handles` is never filled); the files | `read_file`, `write_file`, `sync_file`, `close_file`, `Drop` | Ok means written; synced means durable |
| Topology and placement, `arch/*` | `worker_idx` of a builder | `detect`, `parse_cpu_list`, `select_for_system`, `get_core_for_worker`, `build` | workers get distinct cores while there are any |
| Engines without io_uring, `disk/fallback.rs`, `net/fallback.rs` | a bounded channel of jobs and one worker task per engine; descriptors | as the engines | each call gets its own answer; jobs are done in the order sent; a job reaches the socket its caller means; calls return |
| Examples and benchmarks, `examples/*.rs` | a TCP connection, files | client and server pairs, each with its own way to count, read and close | nothing is lost between the ends; the verdict is right; both ends finish |
| WAL, TLS, SDKs (README of the repository) | - | - | not implemented: `wal` is an empty module |

How they interact. The engines hold an `Arc<RingBuffer>` and call `write` after
each operation, ignoring its result. The ring is shared between processes
through `mmap`, so its calls interleave access by access. The engines are bound
to one executor thread (their streams and files are not `Send`), so their calls
interleave at awaits. The engines without io_uring send jobs to a worker task,
which calls back through a oneshot channel; nothing else is called back. The
examples drive the engines from one side of a connection and `std` sockets from
the other.

Hard behaviours, with the places where they bite, are the `hazards` of
`PROJECT.json`: lock-free interleavings on a slot; a full ring and an empty ring
that look alike; indices read one after the other; processes killed inside a
call or inside `create`; a path created again while in use; a mutex held across
an await; descriptor numbers that are reused; error paths with resources in hand;
calls dropped by a timeout while their work goes on; blocking calls on the threads of
a runtime; reads and writes that move less than a two ends that each wait
for the other.

## 2. Modules

| Module | Models | Notes |
|---|---|---|
| `RingBuffer` | `write` and `read`, one shared-memory access per action | any number of producers, one consumer, killed calls |
| `FifoContract` | what `buffer.rs` documents of a ring: a FIFO queue | abstract specification |
| `RingBufferProofs`, `RingFifoProofs` | theorems about `RingBuffer`: indices and positions, the status field and where messages are; the refinement of `FifoContract` | the second extends the first |
| `RingLifecycle` | files, headers, handles, producer count | one system call or group of header stores per action |
| `NetEngine` | the network engine and the descriptor table | one action per stretch between awaits |
| `DiskEngine` | the disk engine, the page cache, write-back and machine crashes | one action per stretch between awaits, one per kernel step |
| `Placement` | topology detection, runtime modes, worker placement and pinning | detection and arithmetic as operators; building and thread start as actions |
| `FallbackEngines` | both engines without io_uring on one runtime | one action per stretch of a task that does not wait, one per system call of a worker |
| `Sessions` | the client and server pairs of the examples over one connection | one protocol, one record of parameters per example |
| `RingLifecycleProofs`, `NetEngineProofs`, `DiskEngineProofs`, `PlacementProofs`, `FallbackEnginesProofs`, `SessionsProofs` | theorems about the module each is named after | one inductive invariant each |
| `MCRingBuffer`, `MCRingLifecycle`, `MCNetEngine`, `MCDiskEngine`, `MCPlacement`, `MCFallbackEngines`, `MCSessions` | instances for TLC | model values, symmetry sets, machines |

### RingBuffer

`producerIdx`, `consumerIdx`, `completed`, `status` and `slot` are the header and
the slots. `pc`, `idx`, `attempt`, `msg` are the locals of each `write` call and
`cpc`, `cidx`, `got` those of the `read` call: a label names the next access to
shared memory. A message is a number; the operation, the size and two halves of
the payload of a slot each hold the number of the message that stored them, so a
mixture of two messages is visible. `producerLap`, `consumerLap`, `lap`, `claimed`
and `conflicted` are history variables; no guard reads them. `id` and `timestamp`
are stored beside the operation and the size and are never read; they are part of
those stores. The branch of `read_data` for a stored size larger than the payload
area cannot be reached from `write` and is left out.

Atomicity and memory order. Actions are interleaved sequentially consistently. The
code loads indices with Relaxed or Acquire and stores statuses with Release. A
stale index in `wait_for_slot` can only change `available_slots`, which theorem
`FullnessNeverSeen` shows to be at least 1 for every pair of indices; the index that counts
is taken by compare-and-swap. A slot's fields are published by the
Release store of `Ready` and the Acquire load that finds it. Where calls meet in
a slot (`conflicted`) weaker memory would only add outcomes to ones that
are already wrong; the properties make no claim there.

Callers' disciplines are constants. `Joined = FALSE`: calls overlap freely.
`Joined = TRUE`: reads do not overlap writes and there are never more than
`MaxUnread` messages unread; what the examples do when they write, then read.

`slot_count = 0` is excluded by `SlotCountAssumption`: then `available_slots` is 0,
every write fails and every read answers None.

### RingLifecycle

A path names a file or nothing; files keep their contents when the name goes away
(`RemovePath`), and `create` on an existing file truncates the same inode, as
`OpenOptions::create(true).truncate(true)` does. `RingHeader::new` is written
with one `ptr::write`, whose stores may be seen in any order: the model stores
it in three `Parts`, in every order: `StoreSize` (magic, version and size),
`StoreSlots` (slot size and slot count) and `StoreCounters`. `validate` looks at the first two only.
A mapping longer than its file faults (`Fault`). The slots and their messages are left to
`RingBuffer`.

Two history variables name what the code does not prevent. `reused`: files on which
`create` was called while a handle was on them. `early`: files that were opened while
their `create` was at work. The properties exclude as little of this as they can:

- `LiveIsInitialised` and `SlotsFit` hold on every file that is not `reused`. An `open` may
  look between any two stores of a `create`, or at what a killed `create` has left: what it
  returns has all the sizes of one header, because `validate` refuses when a part with sizes is
  missing. They do not say that the counters and the slots were ever stored.
- `CountExact` excludes `early` files as well (`disturbed` is both): a `create` that stores
  the counters after an early `open` has registered forgets that producer.

Both exclusions are needed: without them TLC finds, in a few steps, a `create` that truncates a
ring in use and leaves its producers uncounted, and an `open` that returns a handle on a ring
whose creator has not stored the counters yet. After such a `create`, `active_producers`
wraps below zero when a forgotten producer counts itself out, and what was written through a
handle `open` returned early is wiped when `create` goes on to reset the slots. `create_numa_aware` adds a memory binding that changes nothing
modelled here. Sizes not larger than the header make the subtraction of
`RingHeader::new` underflow and are excluded by `LayoutAssumption`. `active_producers`
is a number modulo `CountLimit`, which stands for 2^64; `WidthAssumption` says that
there are fewer handles and killed processes than that.

### NetEngine

`table` is the kernel's descriptor table, with the lowest free number for a new
socket; sockets have numbers of their own so that a reused descriptor shows.
`connections` is the cache, `guard` the task holding its mutex. A task that needs
the mutex while it is held sets `stuck`: the executor's only thread waits for a
guard that only it can release, and no task moves again. `AcceptRefused`,
`StartAccept`, `PeerArrives`, `AcceptFails` and `AcceptDone` are `accept`, up to its
error returns, across its await, and after it; `connect`, `read`, `write` and
`close` are split the same way. The ring is seen from the engine's side: a
notification is stored or refused, and the engine ignores which. Payloads are left
out. `listeners` is never filled by the code. The error "Connection removed while
reading" cannot occur: nothing runs between the two locks. A dropped stream or
listener closes its descriptor at once. `shared` and `strayClose` are
history variables: an address connected while in use, and a `close(2)` that hit
a descriptor that by then was another socket's.

### DiskEngine

Every call opens a handle of its own; `file_handles` is never filled, so `close_file`
only notifies and `Drop` has nothing to close. A call is at its open, in the kernel,
or at its return; the kernel's part is a step of its own, and any await may end in an
error (`Fail`). A file is a row of blocks; every store has a number, and a block holds
the number of its latest store in `cache`, which all processes see, and in `disk`.
`write_at` stores a nonempty prefix of its data, `read_at` fills a prefix of a
buffer of `buffer_size`. A crash leaves what is on disk; the directory entry of a
new file is durable after `sync_all`, as on the usual Linux file systems, and may be
lost, with the file's blocks, before that. `acked`, `promised`, `floor` and `short`
are history variables: what Ok answers of `write_file` and `sync_file` cover, what was
acknowledged when a call began, and the paths on which a write was cut short. The
last one is the premise of the properties, and they need it: `write_file` drops the
number of bytes `write_at` stored and answers Ok for a part of the data.

A caller may give up. `TimedOut` is the `tokio::time::timeout` of
`cross_platform_benchmark`, which drops the call and goes on with the next chunk
and with the sync; tokio_uring keeps the operation in flight, and `LateEnd` does it,
in whole or in part, or not, at any later time. An operation left behind may
overwrite what a later write has stored and had acknowledged; the numbers are
given in the order of the stores, so the properties say that no acknowledged data is
lost to older contents, not that nobody writes after it. `notified` is what a consumer of
the ring has heard of: each call reports to the ring at its end, and the ring may refuse.

### Placement

A machine is what the operating system answers: nodes in the order of `read_dir`,
which of them have a `cpulist`, whether sysfs can be read, the cores the process may
use, and a cgroup's limit. `CpuList` is the kernel's format of a set of cores, its maximal
ranges (from one of `Starts` to its `LastOf`) in ascending order, and `ParseCpuList` the code's
reading of it. `PlacementAssumption` says what every machine is: nodes are finite sets of core
numbers without a core in common, the process may use at least one of the cores, and a limit is
at least 1. `Build` returns before the thread runs;
`ThreadStarts` is the beginning of the thread, where it pins itself and where
`core_affinity` may fail. `reported` is what `build` has told its caller by then;
`ReportTruthful` bounds how wrong that can turn out. `SpawnFails` is the panic of `expect` after `worker_idx`
was incremented.

`WorkersApart` and `ReportTruthful` have premises, and need them. `core_ids.get(core_id)`
takes the number of a core as an index into the cores the process may use: with cores
1 and 3 allowed, a thread asked to run on core 1 runs on 3 and the result is
`Success`. With nodes {1, 3} and {0, 2} and only cores 0 and 1 allowed, two workers
are sent to one core while another is free; the same happens when a node has no `cpulist`.
Removing a premise gives the trace.

### FallbackEngines

`lib.rs` declares `disk` and `net` inline, with an empty `fallback`, so the two files
are in no build (and would need small repairs to compile); they are modelled as they
are written, since their tests and the README of the repository treat them as the path
for systems without io_uring. `chan` is the channel of each engine (`worker_threads *
32` places; that is all `worker_threads` does), `worker` the job its one worker task is
at. A call is `Begin`, `Send` and `Receive`; `Abandon` drops its future, as a timeout
around it does: `live` of its job becomes FALSE and the answer goes nowhere. The
errors "Failed to send" and "Failed to receive" cannot occur: a call borrows the engine,
so the engine is not dropped under it, and a worker does not panic. A worker stays in its
blocking system call and keeps a thread of the runtime (`ThreadFree`); a runtime with
one thread (`CurrentThread`, the mutant of `DiskCallsReturn`) is stopped for good by an
`accept` without a peer. `DropEngine` aborts the worker, which takes hold when the worker next
waits (`Aborted`).

The descriptor table is that of `NetEngine`. `from_raw_fd` makes the worker the owner:
a successful read or write forgets the stream, an error closes the caller's
descriptor, and `accept` closes the listening one whatever happens. The
handles this costs a caller are `tainted`; `OwnSocket` says that a caller who
does not go on using them (`misused`) never meets another caller's socket. A `connect` makes
its stream nonblocking, so a `read` before the peer has answered is such an error.
`read` and `write` on a socket do the same to the descriptor and are one operation,
`transfer`. Writes to the file are numbered as they are sent; a failed write may have
created the file or stored its data.

### Sessions

Client and server of each example run the same loop with different parameters. Several
examples fill in fields that `DiskConfig` and `NetworkConfig` do not have (any more), so they
would not compile against the library as it is; they are modelled as they are written.
`EngineSession` is the loop of the benchmark over the engine; the others differ from it in
what the records `EndToEnd`, `NetworkIo`, `PerfBenchmark`, `Throughput`, `Traditional` and
`LatencyProfile` change: how many chunks, one write or `write_all`, one read after each
chunk or none, whether errors end the loop or the example, whether the client closes
before it waits; for the server whether it echoes, counts its reads or reads to the end
of the stream, unwraps, or polls until told to stop. A direction of the connection
holds `capacity` units; reads and writes move any nonempty part. An end that is
closed with unread data, or written to after it was closed, resets the connection.
Calls of the engines are the socket calls they make; what the engines add is in
`NetEngine` and `DiskEngine`. `ProgramAssumption` says that the programs are these six, with any
length of the file that `end_to_end` sends as long as it is at least the `Data` units `read_file`
returned.

What the parameters show. `read_file` returns at most `buffer_size` bytes: the client of
`end_to_end` sends 64 KiB of its file of 1 MiB, and `VerdictExact` says that a file
longer than the buffer is always reported as a mismatch. The clients read once per
chunk, so what a read leaves behind adds up; `SessionEnds` needs the connection to hold
`Rounds * (Chunk - 1)` units (`BacklogFits`), and without it TLC finds both ends waiting in
write with both directions full. `perf_benchmark` counts reads on one side and chunks on
the other; `PanicNeedsPieces` says that only pieces smaller than a chunk, or a failed
accept, make its server panic.

## 3. Runs

Passing runs.

| Run | Instance | Properties |
|---|---|---|
| `ring_free` | 2 producers, 2 slots, 3 writes, 1 retry, no killed call | `TypeOK`, `ConsumerNeverOvertakes`, `LappedWritersOnly`, `AcceptedIsHeldOnce`, `StatusProtocol` |
| `ring_crash` | 1 producer, 2 slots, 3 writes, 1 retry, 2 killed calls, calls overlap freely, fair | `AcceptedIsHeldOnce`, `EveryCallReturns` |
| `ring_joined` | 2 producers, 4 slots, 6 writes (the last one oversized), at most 3 unread, fair and polling | `CallsNeverMeet`, `ImplementsContract`, `EventuallyDelivered` |
| `life_ring` | 3 handles, 2 files, 1 kill | `TypeOK`, `CountExact`, `LiveIsInitialised`, `SlotsFit` |
| `net_engine` | 2 tasks, 2 addresses, 4 descriptors, 4 sockets | `TypeOK`, `DescriptorsOwned`, `HandleMeansConnection`, `NoticesTrackCache`, `StuckBehindData` |
| `disk_engine` | 2 tasks, 1 file of 2 blocks, buffer of 1 block, 2 stores, 1 machine crash, 1 write dropped by a timeout | `TypeOK`, `SyncedSurvives`, `ReadSeesAcked`, `WholeWritesStored` |
| `placement` | all machines with 2 nodes and 3 core numbers, 14 larger ones, 5 workers | `TypeOK`, `DetectionExact`, `WorkersApart`, `ReportTruthful` |
| `fallback` | 2 callers in 4 mixes of operations, channels of 2, 2 threads, 2 descriptors, 3 sockets, 2 writes, 1 dropped call, fair | `TypeOK`, `OneAnswerPerCall`, `AnswersInOrder`, `OwnSocket`, `NoLeak`, `DiskCallsReturn`, `NetCallsReturn` |
| `sessions` | 7 programs, 6 chunks of 2 units, directions of 1, 2, 3 and 12 units, fair | `TypeOK`, `NothingLost`, `VerdictExact`, `PanicNeedsPieces`, `SessionEnds` |

Why the bounds are enough. With 2 slots and 3 accepted writes the ring wraps, fills, and a
producer laps another one that is still inside its slot; one retry is enough
for a write to be refused after having moved the index over two unread slots. The
code retries ten times; more retries repeat the same steps. `ring_crash` kills a
write and a read, or two of either, anywhere, and lets the process that takes over meet the
slots they left; with one producer, since two of them and killed calls together do
not finish in minutes. The theorems of section 4 have any number of both. In
`ring_joined` 5 accepted writes go round 4 slots with 3 unread; its calls never retry.
Retries are the matter of `ring_crash`: the third write meets a full ring, slots that a
killed call has left, and reads that take, free or reset the slots it tries; it gets a slot at the
second attempt in some behaviours and is refused in others, and `EveryCallReturns` covers both.
It does not assume that the consumer polls. Several producers that retry at once are checked
for safety in `ring_free`, and are too many states for a liveness check. `life_ring` has a
creator, a user and an intruder, and a file that lives on without its name;
`CountLimit` is larger than the producers and kills there can be, as 2^64 is.
In `net_engine` a number is free again as soon as its socket is closed, and the lowest
free one is taken: four sockets are enough for a listener or a connection to get a number that
another task still holds. TLC stops at the bounds named in the guards; a
network engine whose thread is stuck has really stopped, and a behaviour at its
bound of sockets has no step left, so `net_engine` is checked without deadlock.
In `disk_engine` two stores let a write meet a sync, a read, a write-back and a crash,
before and after another write was acknowledged, and a write that its caller has given
up meet the sync that follows. `placement` has a machine with five cores, where one is left for
the system, and builds more workers than there are cores on the others; a
builder at its bound has really stopped, so deadlock is not checked. In `fallback` a
dropped call leaves a job in a channel that the two callers can fill, and three
sockets over two descriptors force the reuse of a number; engines that were dropped
and callers at their bounds have no step left. The mixes keep apart what cannot
interfere: the two engines share nothing but threads. In `sessions` six rounds are what
it takes to fill both directions of two units with replies left behind; a session that is
over has no step left.

Fairness. `FairSpec` assumes that a thread inside a call keeps running: weak
fairness on each producer's `WriteStep` and on `ReadStep`. No call waits for
another one in this code, so the operating system's scheduling is all it
takes. `PollingSpec` adds that the consumer calls `read` again and again, as
`examples/ring_buffer.rs` does. A killed call is a step that is never fair.
In `FallbackEngines` a send and a receive are strongly fair, because they need a thread
that workers take and give back: tokio's run queue and the semaphore of its channel
are first come, first served. A worker's `recv` and its system calls are weakly
fair, except a system call that waits for a peer (`NetBlocked`); nothing makes a peer
come. In `Sessions` each end is a thread, or a task with a thread to itself, that goes on
whenever it can. That covers steps that fail: nothing forces an accept or a connect to
succeed, and the properties hold either way.

Runs that find a disagreement with the code's own documentation.

| Run | Property | What happens |
|---|---|---|
| `ring_mangled` | `DeliveredIntact` | `producer_idx` moves before the slot is `Ready`. A `read` in between takes the slot, finds it not ready, and resets it while the write is storing: the message is delivered later without its operation and size, or lost. One producer and one consumer suffice. |
| `net_accept` | `ListenerStaysOpen` | `from_raw_fd` owns the caller's descriptor; each return of `accept` closes it, under the comment "Don't close the original fd". |
| `session_hang` | `ServerCompletes` | The benchmark with `std` sockets waits for its server ("Wait for server to complete") with its own stream open, and the server reads to the end of the stream: the join never returns. The variant with the engine closes first. |

Other disagreements are premises or conclusions of passing properties, and removing the premise
gives the trace. A write on a full ring never waits: the test for it never fails (theorem
`FullnessNeverSeen`), and each attempt moves `producer_idx` over a slot that has not been
read; `AcceptedIsHeldOnce` says that the messages there are not overwritten. `create` "creates a
new shared memory region" also where there is one in use (`reused`). `open` accepts a header by its
sizes, which `create` does not store last (`early`). A short `write_at` is answered with Ok
(`short`). `Success` of a pinned thread may mean another core (`Contiguous`). `read` and
`write` of the network engine hold the cache's mutex across an await, so that the next call of any
task stops the thread for good: `StuckBehindData` says that nothing else does. A second
connection to an address replaces the first (`shared`), and a notification the ring refuses is
not made up for (`missed`). For the first caller of such an address, and for the notification, the
code promises nothing and no property does; `PROJECT.json` says so at each of these hazards.

Two further consequences of the ring's index arithmetic are visible by changing a
bound: with `MaxUnread = SlotCount` in `ring_joined`, `ImplementsContract` fails: `read` answers None
(`producer_idx == consumer_idx` on a full ring); and `AcceptedIsHeldOnce` without
its premise `~conflicted` fails, also by two producers filling one slot.

What holds in spite of them: the consumer never passes the producers, no position
is given out twice, and as long as no two calls change a slot at once the status field
does its work, also across killed calls. Under the joined discipline the ring is
a FIFO queue.

Each property has a mutant in `PROJECT.json`: a plausible slip in one mapped
definition (`NextIdxNoWrap`, `StoreProducerIdx`, `CloseFirst`, ...), defined in front of
the definition it stands in for, with which TLC finds the property violated.

## 4. Proofs

The theorems hold for every value of the constants that satisfies the assumptions named
in the modules: any number of producers, slots, messages and killed calls; of handles, files
and sizes; of tasks, addresses and descriptors; of paths, blocks, crashes and timeouts; of nodes, cores and
workers; of callers, channel places and threads; of chunks, their sizes, and the buffers of a connection.

| Theorem | States |
|---|---|
| `RingBufferProofs`: `RingTypeCorrect` | `TypeOK`; in particular both indices stay below `slot_count`, the assertion of `get_slot` |
| `ReaderStaysBehind`, `PositionsAreUnique` | `ConsumerNeverOvertakes`, `LappedWritersOnly` |
| `FullnessNeverSeen` | `AvailableSlots(p, c) > 0` for all indices: the full-ring branch of `wait_for_slot` is dead code |
| `SlotsFollowProtocol` | `StatusProtocol`, an action property |
| `MessagesHeldOnce` | `AcceptedIsHeldOnce` |
| `RingFifoProofs`: `JoinedCallsNeverMeet`, `RingImplementsContract` | under the joined discipline: `CallsNeverMeet`, and the refinement of `FifoContract` |
| `RingLifecycleProofs`: `LifeTypeCorrect`, `ProducersAreCounted`, `ReturnedIsInitialised`, `SlotsStayMapped` | `TypeOK`, `CountExact`, `LiveIsInitialised`, `SlotsFit` |
| `NetEngineProofs`: `NetTypeCorrect`, `EveryDescriptorOwned`, `HandlesLeadHome`, `NoticesAgree`, `OnlyDataStops` | `TypeOK`, `DescriptorsOwned`, `HandleMeansConnection`, `NoticesTrackCache`, `StuckBehindData` |
| `DiskEngineProofs`: `DiskTypeCorrect`, `AckedIsStored`, `ReadsAreFresh`, `SyncsSurviveCrashes` | `TypeOK`, `WholeWritesStored`, `ReadSeesAcked`, `SyncedSurvives` |
| `PlacementProofs`: `PlacementTypeCorrect`, `DetectionIsExact`, `WorkersStayApart`, `ReportsAreTruthful` | `TypeOK`, `DetectionExact`, `WorkersApart`, `ReportTruthful` |
| `FallbackEnginesProofs`: `EnginesTypeCorrect`, `EachCallIsAnsweredOnce`, `ReadsFollowWrites`, `JobsReachTheirSockets`, `OnlyDroppedCallsLeak` | `TypeOK`, `OneAnswerPerCall`, `AnswersInOrder`, `OwnSocket`, `NoLeak` |
| `SessionsProofs`: `SessionsTypeCorrect`, `NothingIsLost`, `VerdictsAreExact`, `OnlyPiecesPanic` | `TypeOK`, `NothingLost`, `VerdictExact`, `PanicNeedsPieces` |

With these, every safety property of a passing run is both checked and proved. Before a proof, TLC checked the
inductive invariant as an invariant of instances like those of the runs.

Assumptions. `SlotCountAssumption` and `BoundsAssumption` (the ring has a slot; the bounds are
numbers); `LayoutAssumption` and `WidthAssumption` (section 2); `PlacementAssumption`
(section 2, and the bounds are numbers); `EngineAssumption`, `DiskAssumption` and `FallbackAssumption` (the values for "none" are not members of
their sets; the bounds are numbers, and a channel and a runtime have at least one place and one
thread); `SessionAssumption` and `ProgramAssumption` (a chunk, a session and a buffer are not
empty; the programs are the examples). The two theorems of `RingFifoProofs` are about callers with a discipline and name it
as their hypothesis, `JoinedCallers`: reads do not overlap writes, fewer messages are unread
than there are slots, and no call is killed. `ring_joined` is an instance of it; section 3 says
what happens without its parts.

### Indices and positions (`RingBufferProofs`)

- `TypeOK` is inductive as it stands; the proof has one lemma per group of actions
  and cites `NextIdxCases`, which states the two values of `(i + 1) % SlotCount`.
- `ConsumerNeverOvertakes` is not inductive: `read` compares two values loaded at
  different times and moves `consumer_idx` later. `OrderInv` adds that the loaded
  producer index lies between the two current positions (`LoadedBetween`), and
  that from the successful comparison on there is a position to take
  (`TakeHasTarget`): only this call moves the consumer position, and the
  producers' only grows.
- `LappedWritersOnly` needs that every position held lies before the producers'
  current one (`HoldersInv`), so that the position a compare-and-swap hands out
  is new.

### The status field and the messages (`RingBufferProofs`)

Everything is under the premise `~conflicted`: no two calls have been changing one slot at a
time. Four layers rest on one another.

- `StatusInv`: a write knows the status of its slot from its own last store
  (`WriterSees`), so does a read (`ReaderSees`), and a slot that says `Writing` or
  `Reading` has a call in it unless one was killed (`Attended`). A status then changes
  along the documented path only, which is `StatusProtocol`.
- `ContentsInv`: what a write has stored so far is in its slot, what a read has
  loaded so far is what its slot still holds, and a slot that is `Ready` or `Reading`
  holds one whole message.
- `UniqueInv`: a message is in one place, a call, a slot, the reader's hands or the row of
  what was delivered.
- `DoomedInv`: the accepted messages that no read will return (`Doomed`) are at most as many
  as calls were killed. A step dooms a message only by killing a call, or by resetting a
  slot that a killed call had left and that was doomed before.

### The ring as a queue (`RingFifoProofs`)

`Ahead(s)` is the distance round the ring from `consumer_idx` to slot `s`, and `Waiting` the
number of positions handed out and not taken. `JoinedInv` says that `producer_idx` is `Waiting`
ahead (`IndicesApart`); that the slot `d` ahead, for `d` less than `Waiting`, holds the message of the
`d`-th position that waits, or has that message's writer in it (`SlotsInTurn`, `WritersInTurn`);
that the other slots are free; and that what was read are the first messages in the order of
positions (`ReadInTurn`, `DeliveredInTurn`). `UnreadBounded` keeps `Waiting` below `SlotCount`, which is
what makes the distances tell slots apart and `producer_idx = consumer_idx` mean empty.

The refinement: the successful compare-and-swap of `write` is the contract's `Put`, the start of a
`read` is `Ask`, the comparison that finds the ring empty is `Nothing`, the return with a message
is `Take`, and every other step leaves the contract's variables as they are. `DeliveredInTurn` with
`ReadInTurn` shows that `Take` takes the head of the queue.

### The life of a ring file (`RingLifecycleProofs`)

The header comes first (`HeaderInv`), on files that are not `reused`. `CreatorApart`: there is one
`create` at a time on a file. `CreatorInv`: the parts of the header it has stored are those that
are not in `Missing`, in whichever order, and they hold its sizes. `GeometryInv`: so what is
there of a header comes from one `create`, part by part (`PartlyStored`), of a ring exactly as
long as the file; this also holds of what a killed `create` has left. `UserInv`: an `open` that has
validated has seen all the parts with sizes, hence a header that is `Stored`, and so has a handle in use.

The count needs more, on files that are not `early` either. `CreatorAlone`: a `create` in progress
has the file to itself. `CreatorCounts`: nobody is counted before it has registered. `LocalInv` and `CountExact`
tie registrations and orphans of killed processes to `active_producers`; with
`WidthAssumption` the count never wraps. The lemmas are one per action (`SetLenKeeps`, ...), over
one for each of three shapes an action can have: `MovesKept`, `PartStored` and `UseKept`.
`SlotsFit` then is arithmetic about `SlotsOf`, the rounding division of `RingHeader::new`.

### The network engine (`NetEngineProofs`)

`OneOwner`: a stream is in the cache, in one call or with one caller as its listener, and a
handle is one caller's. `OwnedOpen` and `OpenOwned`: what is owned is open under its
descriptor (cached streams, and the streams and bound listeners of calls; not the callers'
listeners, which `accept` closes), and what is open is owned, until a caller closes a number that had become
another socket's. `Numbered` makes a new socket differ from all that are remembered, so that a
descriptor that is reused does not make two streams equal. `AddressesApart` and
`HandlesCached`: as long as no address is connected while it is in use, an insertion
into the cache replaces nothing, and a handle leads to its cache entry. `NoticesTrackCache` and
`StuckBehindData` are inductive with `CallShape`, what each section of a call has in hand.

### The disk engine (`DiskEngineProofs`)

`LayersOrdered`: block by block the disk is not newer than the cache, and neither is newer than
the last store. `CallsHeld`: what a call relies on across its awaits, per section: a
read or sync began below the cache and stays there, a stored write stays stored until it
is acknowledged, what a sync has flushed is on disk with the directory entry.
`PromisesKept`: what Ok answers of `sync_file` cover is on disk; crashes keep it since they
only bring the cache back to the disk. Operations left in flight by a timeout take a new number
when they store, so they never break the order.

### Topology and placement (`PlacementProofs`)

Most of this proof is about what detection computes. It is arranged in four steps, each a
lemma that the next one cites.

- `Sorted`. The elements of a finite set have the ranks 1 to its cardinality, one each
  (`RankOrder`, `RankOnto`); so `Sorted(S)` is the one ascending sequence of the elements of
  `S` (`SortedProperties`, `SortedUnique`).
- `FlattenSeq`. A concatenation grows part by part (`FlattenSteps`); it holds the elements of
  its parts, and is ascending or free of repetitions when the parts are and lie apart
  (`ConcatRange`, `ConcatAscending`, `FlattenDistinct`).
- Reading back. A set is the disjoint union of its maximal ranges (`RangesApart`,
  `RangesCover`), and the parts of its `cpulist` are those ranges in order; so `ParseCpuList`
  yields an ascending sequence with the elements of the set, which is `Sorted` of it (`CpuListReadBack`).
- Workers. With the nodes detected, worker `w` gets element `w + 1` of the concatenation of all nodes,
  while there is one (`CoreForWorker`); the concatenation repeats nothing, so two such
  workers have two cores (`CoresApart`).

`LeastNatural`, that a nonempty set of numbers has a least element, takes the place of induction: it follows
from the well-foundedness of inclusion on finite sets, and each statement about all lengths is proved from the
least length at which it would fail (`Stepwise`).

The invariant over the steps has three parts. `Settled`: detection has found `Info`, which is a
function of the machine, before there is a builder, and the builder has a mode before there are
workers. `Built`: a thread has the core of its number and the report `build` gave, and once it
has started one of the outcomes of pinning to that core. `Numbered`: no two workers have one
number and the next is free, also after spawns that failed. `WorkersApart` and
`ReportTruthful` are not inductive, since they say nothing of threads that have not
started, nor of which core a number stands for; `Built` keeps that until the thread starts.

### The engines without io_uring (`FallbackEnginesProofs`)

- `ShapeInv`: a waiting caller has exactly one job, at one spot of one engine, or its answer
  (`PlacedOnce`); a job that is awaited is what its caller is at (`JobShape`); a worker that
  has ended left nothing behind (`DroppedIdle`).
- `OrderInv`: the jobs in the channel and at the worker number the writes without a gap
  (`SentInOrder`), so what the worker is done with is a prefix, and the file holds the newest
  write of that prefix that left its data (`FileIsNewest`).
- `SocketInv`: handles are apart (`HandlesApart`), and as long as nobody goes on with a handle it
  lost, each handle a caller keeps, has in its answer or has put into a job leads to its
  own socket (`SocketsKept`).

### The sessions of the examples (`SessionsProofs`)

- `Ends` and `SentBounded` say which ends are open in which section and how much a client can
  have sent there; `ReadsCounted` that a server has read no more than was sent.
- `Flow`: while the server is there, what was sent is the concatenation of what the client has
  read, the queue back to it, what the server holds and the queue to it. It has a second part,
  since `NothingLost` also speaks of sessions with an end gone: what the client has read,
  followed by what is still on its way to it, is the beginning of what was sent.
- `Chunks` is about the examples with a file. `ChunksSent`: what was sent falls behind the loop
  for good once a write was cut, and otherwise is the row of the chunks so far; so its length
  alone tells whether it is the file. `StoredWasSent`: a server stores after the client has
  closed and it has read everything.
- `Lockstep` is about `perf_benchmark`, under the premise that nothing was cut and the accept did
  not fail. `InStep`: one chunk is under way at a time, and `reads` and `round` differ by the
  stage it is at; so the server has counted its last read before the client closes, and no
  connection is ever reset.

Associativity of concatenation and the parts of a cut sequence (`Regroup`, `Cut`, `Rows`) are the
lemmas all of these rest on; `Shifts` is the case of an echo.

### Only model-checked

Liveness: `EveryCallReturns`, `EventuallyDelivered`, `DiskCallsReturn`, `NetCallsReturn`,
`SessionEnds`. Fairness and ENABLED are outside what the prover does.

## 5. Not modelled

The empty `wal` and packaging. Of the examples: the ring and disk benchmarks, which make
one call after another and print times (their timeouts are in `DiskEngine` and
`FallbackEngines`), and `run_server_example` of `network_io`, which waits in `accept` for a
client that the example does not have. The text of errors, logging, timestamps,
statistics accessors, NUMA memory binding. In `FallbackEngines`: the slot of tokio's
scheduler that keeps a woken task for the thread that woke it, which can delay a task
behind a blocked worker longer than the run queue does.

## 6. Plan

1. Done: ring core, contract and first proofs; lifecycle; network engine; disk engine with
   timeouts; topology and placement; engines without io_uring; sessions of the examples.
2. Model, still open: `DiskEngine` and `NetEngine` as clients of the ring, so that their
   notifications meet a full ring and a slow consumer; a second consumer process on
   one ring, which `read` does not exclude.
3. Proofs. Done: every safety property of the passing runs, that is, of the ring and its
   refinement of `FifoContract`, its life cycle, the engines with and without io_uring, topology
   and placement, and the sessions of the examples. The first of what 2 adds would be that a refused
   notification leaves the engines' own theorems as they are.
