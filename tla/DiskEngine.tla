----------------------------- MODULE DiskEngine -----------------------------
(***************************************************************************)
(* DiskEngine of elgate-core/src/disk/io_uring.rs: read_file, write_file,   *)
(* sync_file and close_file.  Every call opens a handle of its own and      *)
(* drops it when it returns; the file_handles cache is never filled.  All   *)
(* calls are tasks of one executor: what a call does between two awaits is  *)
(* one action, and the kernel's part of an await is another.                *)
(*                                                                          *)
(* A file is a row of blocks.  Every store of the kernel has a number, its  *)
(* stamp, and a block holds the stamp of its latest store, 0 for none.      *)
(***************************************************************************)
EXTENDS Integers, FiniteSets

CONSTANTS
  Tasks,        \* callers of the engine
  Paths,
  NoPath,
  MaxBlock,     \* bound: blocks of a file
  BufferBlocks, \* config.buffer_size, in blocks
  MaxStores,    \* bound: stores of the kernel
  MaxCrashes,   \* bound: machine crashes
  MaxTimeouts   \* bound: calls dropped by a timeout while they create or store

ASSUME DiskAssumption ==
  /\ NoPath \notin Paths
  /\ MaxBlock \in Nat \ {0} /\ BufferBlocks \in Nat \ {0}
  /\ MaxStores \in Nat /\ MaxCrashes \in Nat /\ MaxTimeouts \in Nat

Blocks   == 1..MaxBlock
Stamps   == 0..MaxStores
Absent   == -1
Contents == [Blocks -> Stamps]
Empty    == [b \in Blocks |-> 0]
Nothing  == [b \in Blocks |-> Absent]

VARIABLES
  exists,      \* paths that name a file
  entries,     \* paths whose directory entry is on disk
  cache,       \* contents as every process sees them
  disk,        \* contents on disk
  stores,      \* stores of the kernel so far
  late,        \* operations in flight whose callers are gone
  timeouts,    \* timeouts that left one behind
  pc, path, span, stamp, data,  \* each call: section, arguments, result
  floor,       \* history: what had been acknowledged when a read or sync began
  notified,    \* paths the ring holds a notification about
  acked,       \* history: newest store an Ok of write_file covers, by block
  promised,    \* history: newest store an Ok of sync_file covers, by block
  short,       \* history: paths on which a write_at stored less than its data
  crashes      \* crashes so far

orphans == <<late, timeouts>>
files   == <<exists, entries, cache, disk, stores, orphans>>
calls   == <<pc, path, span, stamp, data, floor>>
history == <<acked, promised, short>>
vars    == <<files, calls, notified, history, crashes>>

Opening  == {"openRead", "openWrite", "openSync"}
InKernel == {"reading", "writing", "syncing"}
Labels   == {"idle", "read", "written", "synced"} \cup Opening \cup InKernel

Init ==
  /\ exists = {} /\ entries = {}
  /\ cache = [p \in Paths |-> Empty] /\ disk = [p \in Paths |-> Empty]
  /\ stores = 0 /\ late = {} /\ timeouts = 0
  /\ pc = [t \in Tasks |-> "idle"] /\ path = [t \in Tasks |-> NoPath]
  /\ span = [t \in Tasks |-> {}] /\ stamp = [t \in Tasks |-> 0]
  /\ data = [t \in Tasks |-> Nothing] /\ floor = [t \in Tasks |-> Empty]
  /\ notified = {}
  /\ acked = [p \in Paths |-> Empty] /\ promised = [p \in Paths |-> Empty]
  /\ short = {} /\ crashes = 0

\* The block-wise newer of two contents.
Newer(c, d) == [b \in Blocks |-> IF c[b] > d[b] THEN c[b] ELSE d[b]]

\* A file ends with its last stored block; blocks before it may be holes.
SizeOf(c) == CHOOSE n \in 0..MaxBlock :
               (n > 0 => c[n] > 0) /\ \A b \in Blocks : c[b] > 0 => b <= n

\* The first n blocks of a span.
FirstOf(s, n) == {b \in s : Cardinality({c \in s : c < b}) < n}

-----------------------------------------------------------------------------
(* Steps of a call.                                                         *)

Goto(t, from, to) == pc[t] = from /\ pc' = [pc EXCEPT ![t] = to]

\* A read and a sync are held to what has been acknowledged by now.
Begin(t, section, p, s) ==
  /\ Goto(t, "idle", section)
  /\ path' = [path EXCEPT ![t] = p]
  /\ span' = [span EXCEPT ![t] = s]
  /\ floor' = IF section = "openWrite" THEN floor ELSE [floor EXCEPT ![t] = acked[p]]
  /\ UNCHANGED <<files, stamp, data, notified, history, crashes>>

Return(t) ==
  /\ pc' = [pc EXCEPT ![t] = "idle"]
  /\ path' = [path EXCEPT ![t] = NoPath]
  /\ span' = [span EXCEPT ![t] = {}]
  /\ stamp' = [stamp EXCEPT ![t] = 0]
  /\ data' = [data EXCEPT ![t] = Nothing]
  /\ floor' = [floor EXCEPT ![t] = Empty]

\* `let _ = self.ring_buffer.write(..)`: an error is ignored.
Notify(p) == notified' \in {notified, notified \cup {p}}

\* An open, read, write or sync that fails: nothing is notified.  A timeout that
\* drops a read or a sync looks the same; what is left of a sync is write-back.
Fail(t) ==
  /\ pc[t] \in Opening \cup InKernel
  /\ Return(t)
  /\ UNCHANGED <<files, notified, history, crashes>>

-----------------------------------------------------------------------------
(* read_file.                                                               *)

\* The buffer has config.buffer_size bytes, however long the file is.
BeginRead(t, p, at) ==
  Begin(t, "openRead", p, {b \in Blocks : at <= b /\ b < at + BufferBlocks})

OpenForRead(t) ==
  /\ Goto(t, "openRead", "reading") /\ path[t] \in exists
  /\ UNCHANGED <<files, path, span, stamp, data, floor, notified, history, crashes>>

\* read_at fills a prefix of the buffer, at most to the end of the file.
KernelReads(t, n) ==
  /\ Goto(t, "reading", "read")
  /\ LET c      == cache[path[t]]
         filled == FirstOf({b \in span[t] : b <= SizeOf(c)}, n)
     IN data' = [data EXCEPT ![t] = [b \in Blocks |-> IF b \in filled THEN c[b] ELSE Absent]]
  /\ UNCHANGED <<files, path, span, stamp, floor, notified, history, crashes>>

ReadReturns(t) ==
  /\ pc[t] = "read"
  /\ Notify(path[t])
  /\ Return(t)
  /\ UNCHANGED <<files, history, crashes>>

-----------------------------------------------------------------------------
(* write_file.                                                              *)

BeginWrite(t, p, at, n) ==
  /\ at + n - 1 <= MaxBlock /\ stores < MaxStores
  /\ Begin(t, "openWrite", p, at..(at + n - 1))

\* An open that truncates.
OpenTruncating(t) ==
  /\ Goto(t, "openWrite", "writing")
  /\ exists' = exists \cup {path[t]}
  /\ cache' = [cache EXCEPT ![path[t]] = Empty]
  /\ UNCHANGED <<entries, disk, stores, orphans, path, span, stamp, data, floor, notified,
                 history, crashes>>

\* create(true), truncate(false).
OpenForWrite(t) ==
  /\ Goto(t, "openWrite", "writing")
  /\ exists' = exists \cup {path[t]}
  /\ UNCHANGED <<entries, cache, disk, stores, orphans, path, span, stamp, data, floor, notified,
                 history, crashes>>

\* write_at stores a prefix of the data, not always all of it.
KernelWrites(t, n) ==
  /\ Goto(t, "writing", "written")
  /\ stores < MaxStores /\ stores' = stores + 1
  /\ n <= Cardinality(span[t])
  /\ stamp' = [stamp EXCEPT ![t] = stores + 1]
  /\ cache' = [cache EXCEPT ![path[t]] =
                 [b \in Blocks |-> IF b \in FirstOf(span[t], n) THEN stores + 1 ELSE @[b]]]
  /\ short' = IF n < Cardinality(span[t]) THEN short \cup {path[t]} ELSE short
  /\ UNCHANGED <<exists, entries, disk, orphans, path, span, data, floor, notified, acked,
                 promised, crashes>>

\* A write_file that drops the future of write_at: the kernel may or may not
\* have taken the data when it answers Ok.
WriteUnawaited(t) ==
  /\ pc[t] = "writing" \/ pc[t] = "written"
  /\ Notify(path[t])
  /\ acked' = [acked EXCEPT ![path[t]] =
                 Newer(@, [b \in Blocks |-> IF b \in span[t] THEN stores + 1 ELSE 0])]
  /\ Return(t)
  /\ UNCHANGED <<files, promised, short, crashes>>

\* `res.map_err(..)?; Ok(())`: the number of bytes written is not looked at.
WriteReturns(t) ==
  /\ pc[t] = "written"
  /\ Notify(path[t])
  /\ acked' = [acked EXCEPT ![path[t]] =
                 Newer(@, [b \in Blocks |-> IF b \in span[t] THEN stamp[t] ELSE 0])]
  /\ Return(t)
  /\ UNCHANGED <<files, promised, short, crashes>>

-----------------------------------------------------------------------------
(* sync_file and close_file.                                                *)

BeginSync(t, p) == Begin(t, "openSync", p, {})

\* A sync_file that goes on after a failed open.
OpenUnchecked(t) ==
  /\ Goto(t, "openSync", "syncing")
  /\ UNCHANGED <<files, path, span, stamp, data, floor, notified, history, crashes>>

OpenForSync(t) ==
  /\ Goto(t, "openSync", "syncing") /\ path[t] \in exists
  /\ UNCHANGED <<files, path, span, stamp, data, floor, notified, history, crashes>>

\* sync_all: the file's blocks and its entry, whoever stored them.
KernelSyncs(t) ==
  /\ Goto(t, "syncing", "synced")
  /\ disk' = [disk EXCEPT ![path[t]] = cache[path[t]]]
  /\ entries' = entries \cup {path[t]}
  /\ UNCHANGED <<exists, cache, stores, orphans, path, span, stamp, data, floor, notified,
                 history, crashes>>

\* A sync_file that does not wait for sync_all.
SyncUnawaited(t) ==
  /\ pc[t] \in {"syncing", "synced"}
  /\ Notify(path[t])
  /\ promised' = [promised EXCEPT ![path[t]] = Newer(@, floor[t])]
  /\ Return(t)
  /\ UNCHANGED <<files, acked, short, crashes>>

SyncReturns(t) ==
  /\ pc[t] = "synced"
  /\ Notify(path[t])
  /\ promised' = [promised EXCEPT ![path[t]] = Newer(@, floor[t])]
  /\ Return(t)
  /\ UNCHANGED <<files, acked, short, crashes>>

\* "Close is effectively just removing from our cache", which is empty.
CloseFile(t, p) ==
  /\ pc[t] = "idle"
  /\ Notify(p)
  /\ UNCHANGED <<files, calls, history, crashes>>

-----------------------------------------------------------------------------
(* Timeouts.                                                                *)

\* tokio::time::timeout drops the future of a call; what it has asked of the kernel
\* stays in flight, and its caller goes on with the next chunk or with the sync.
TimedOut(t) ==
  /\ pc[t] \in {"openWrite", "writing"}
  /\ timeouts < MaxTimeouts /\ timeouts' = timeouts + 1
  /\ late' = late \cup {[path |-> path[t], span |-> IF pc[t] = "writing" THEN span[t] ELSE {}]}
  /\ Return(t)
  /\ UNCHANGED <<exists, entries, cache, disk, stores, notified, history, crashes>>

\* An operation nobody waits for is done, whole or in part, or fails.  An open
\* has no blocks to store.
LateOpen(w) ==
  /\ w.span = {} /\ exists' = exists \cup {w.path}
  /\ UNCHANGED <<entries, cache, disk, stores>>

LateWrite(w, n) ==
  /\ n <= Cardinality(w.span)
  /\ stores < MaxStores /\ stores' = stores + 1
  /\ cache' = [cache EXCEPT ![w.path] =
                 [b \in Blocks |-> IF b \in FirstOf(w.span, n) THEN stores + 1 ELSE @[b]]]
  /\ UNCHANGED <<exists, entries, disk>>

LateEnd(w) ==
  /\ late' = late \ {w}
  /\ \/ LateOpen(w) \/ \E n \in Blocks : LateWrite(w, n)
     \/ UNCHANGED <<exists, entries, cache, disk, stores>>
  /\ UNCHANGED <<timeouts, calls, notified, history, crashes>>

-----------------------------------------------------------------------------
(* The machine.                                                             *)

\* The kernel writes a dirty block, or a directory entry, back when it likes.
WriteBack(p, b) ==
  /\ p \in exists /\ disk[p][b] # cache[p][b]
  /\ disk' = [disk EXCEPT ![p][b] = cache[p][b]]
  /\ UNCHANGED <<exists, entries, cache, stores, orphans, calls, notified, history, crashes>>

WriteBackEntry(p) ==
  /\ p \in exists \ entries
  /\ entries' = entries \cup {p}
  /\ UNCHANGED <<exists, cache, disk, stores, orphans, calls, notified, history, crashes>>

\* What is not on disk is gone; a file without an entry on disk may be gone,
\* blocks and all.  The ring is in memory.
Crash ==
  /\ crashes < MaxCrashes /\ crashes' = crashes + 1
  /\ exists' \in {e \in SUBSET exists : entries \subseteq e}
  /\ disk' = [p \in Paths |-> IF p \in exists' THEN disk[p] ELSE Empty]
  /\ cache' = disk'
  /\ pc' = [t \in Tasks |-> "idle"] /\ path' = [t \in Tasks |-> NoPath]
  /\ span' = [t \in Tasks |-> {}] /\ stamp' = [t \in Tasks |-> 0]
  /\ data' = [t \in Tasks |-> Nothing] /\ floor' = [t \in Tasks |-> Empty]
  /\ notified' = {}
  /\ acked' = promised /\ late' = {}
  /\ UNCHANGED <<entries, stores, timeouts, promised, short>>

Next ==
  \/ \E t \in Tasks, p \in Paths :
       \/ \E at \in Blocks : BeginRead(t, p, at)
       \/ \E at \in Blocks, n \in Blocks : BeginWrite(t, p, at, n)
       \/ BeginSync(t, p) \/ CloseFile(t, p)
  \/ \E t \in Tasks :
       \/ OpenForRead(t) \/ ReadReturns(t)
       \/ OpenForWrite(t) \/ WriteReturns(t)
       \/ OpenForSync(t) \/ KernelSyncs(t) \/ SyncReturns(t)
       \/ \E n \in Blocks : KernelReads(t, n) \/ KernelWrites(t, n)
       \/ Fail(t) \/ TimedOut(t)
  \/ \E w \in late : LateEnd(w)
  \/ \E p \in Paths : WriteBackEntry(p) \/ \E b \in Blocks : WriteBack(p, b)
  \/ Crash

Spec == Init /\ [][Next]_vars

-----------------------------------------------------------------------------
(* Properties.                                                              *)

\* Every variable has its type, and no call gets past its open on a path that
\* names no file: each open's error ends the call.
TypeOK ==
  /\ entries \subseteq exists /\ exists \subseteq Paths
  /\ cache \in [Paths -> Contents] /\ disk \in [Paths -> Contents]
  /\ stores \in Stamps /\ timeouts \in 0..MaxTimeouts
  /\ late \subseteq [path : Paths, span : SUBSET Blocks]
  /\ pc \in [Tasks -> Labels]
  /\ path \in [Tasks -> Paths \cup {NoPath}]
  /\ span \in [Tasks -> SUBSET Blocks]
  /\ stamp \in [Tasks -> Stamps]
  /\ data \in [Tasks -> [Blocks -> Stamps \cup {Absent}]]
  /\ floor \in [Tasks -> Contents]
  /\ notified \subseteq Paths
  /\ acked \in [Paths -> Contents] /\ promised \in [Paths -> Contents]
  /\ short \subseteq Paths /\ crashes \in 0..MaxCrashes
  /\ \A t \in Tasks : pc[t] \in Labels \ ({"idle"} \cup Opening) => path[t] \in exists

\* sync_file ("Syncs a file to disk") answers Ok only when everything that
\* write_file had acknowledged before the sync began is on disk, although the two
\* calls used different handles; writes and crashes that follow do not undo it.
SyncedSurvives ==
  \A p \in Paths \ short : \A b \in Blocks :
    promised[p][b] <= disk[p][b] /\ (promised[p][b] > 0 => p \in exists)

\* read_file returns, for every block it returns, the latest store acknowledged
\* before it began or a later one, whatever runs between its awaits.
ReadSeesAcked ==
  \A t \in Tasks : pc[t] = "read" /\ path[t] \notin short =>
    \A b \in Blocks : data[t][b] # Absent => data[t][b] >= floor[t][b]

\* An Ok of write_file means that the data is in the file, or newer data is, as
\* long as write_at took everything it was given.
WholeWritesStored ==
  \A p \in Paths \ short : \A b \in Blocks : acked[p][b] <= cache[p][b]

=============================================================================
