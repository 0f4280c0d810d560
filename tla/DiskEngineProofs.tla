-------------------------- MODULE DiskEngineProofs --------------------------
(***************************************************************************)
(* Theorems about the disk engine of DiskEngine.tla, for any number of      *)
(* tasks, paths, blocks, stores, timeouts and crashes.                      *)
(***************************************************************************)
EXTENDS DiskEngine, FiniteSetTheorems, TLAPS

-----------------------------------------------------------------------------
(* The inductive invariant.  TypeOK and WholeWritesStored are properties of  *)
(* the runs; the other parts make the conjunction inductive.                 *)

\* A call that is under way has a path.
CallsNamed == \A t \in Tasks : pc[t] # "idle" => path[t] \in Paths

\* Stores reach the cache first and the disk from there, and carry growing numbers.
LayersOrdered ==
  \A p \in Paths : \A b \in Blocks : disk[p][b] <= cache[p][b] /\ cache[p][b] <= stores

\* What sync_file has promised of a path is on disk, its directory entry included.
PromisesKept ==
  \A p \in Paths \ short : \A b \in Blocks :
    promised[p][b] <= disk[p][b] /\ (promised[p][b] > 0 => p \in entries)

\* What a call relies on from one await to the next: a read and a sync begin below
\* the cache and stay there, a write that was stored stays stored, and what a sync
\* has flushed stays flushed.
CallHeld(t) ==
  pc[t] # "idle" /\ path[t] \notin short =>
    \A b \in Blocks :
      /\ pc[t] \in {"openRead", "reading", "openSync", "syncing"} =>
           floor[t][b] <= cache[path[t]][b]
      /\ pc[t] = "read" => data[t][b] = Absent \/ floor[t][b] <= data[t][b]
      /\ pc[t] = "written" /\ b \in span[t] => stamp[t] <= cache[path[t]][b]
      /\ pc[t] = "synced" => floor[t][b] <= disk[path[t]][b] /\ path[t] \in entries

CallsHeld == \A t \in Tasks : CallHeld(t)

IInv ==
  TypeOK /\ CallsNamed /\ LayersOrdered /\ WholeWritesStored /\ PromisesKept /\ CallsHeld

-----------------------------------------------------------------------------
(* Helpers.                                                                 *)

\* The constants of the model, and the contents of a file that has nothing stored.
LEMMA Sets ==
  /\ MaxBlock \in Nat /\ MaxStores \in Nat /\ MaxCrashes \in Nat /\ MaxTimeouts \in Nat
  /\ NoPath \notin Paths
  /\ Blocks \subseteq Nat /\ Stamps \subseteq Nat /\ 0 \in Stamps
  /\ Empty \in Contents /\ \A b \in Blocks : Empty[b] = 0
  /\ Nothing \in [Blocks -> Stamps \cup {Absent}] /\ Absent \notin Stamps
BY DiskAssumption DEF Blocks, Stamps, Empty, Contents, Nothing, Absent

\* The stamps of a file can be compared.
LEMMA StampsAreNumbers == \A c \in Contents : \A b \in Blocks : c[b] \in Stamps /\ c[b] \in Nat
BY Sets DEF Contents

\* Newer is the block-wise maximum.
LEMMA NewerIsMax ==
  ASSUME NEW c \in Contents, NEW d \in Contents
  PROVE  /\ Newer(c, d) \in Contents
         /\ \A b \in Blocks : Newer(c, d)[b] = IF c[b] > d[b] THEN c[b] ELSE d[b]
BY DEF Newer, Contents

\* A store of all the blocks of a span leaves none out.
LEMMA FirstOfAll ==
  ASSUME NEW s \in SUBSET Blocks
  PROVE  /\ Cardinality(s) \in Nat
         /\ \A n \in Nat : n >= Cardinality(s) => FirstOf(s, n) = s
         /\ \A n \in Nat : FirstOf(s, n) \subseteq s
<1>1. IsFiniteSet(Blocks)
  BY DiskAssumption, FS_Interval DEF Blocks
<1>2. IsFiniteSet(s) /\ Cardinality(s) \in Nat
  BY <1>1, FS_Subset, FS_CardinalityType
<1>3. ASSUME NEW b \in s
      PROVE  Cardinality({c \in s : c < b}) < Cardinality(s)
  <2> DEFINE below == {c \in s : c < b}
  <2>1. below \in SUBSET s /\ b \notin below
    BY Sets
  <2>2. IsFiniteSet(below) /\ Cardinality(below) \in Nat
    BY <1>2, <2>1, FS_Subset, FS_CardinalityType
  <2>3. Cardinality(below) <= Cardinality(s) /\ Cardinality(s) # Cardinality(below)
    BY <1>2, <2>1, FS_Subset
  <2> QED BY <1>2, <2>2, <2>3
<1>4. \A b \in s : Cardinality({c \in s : c < b}) \in Nat
  <2> TAKE b \in s
  <2>1. {c \in s : c < b} \in SUBSET s
    OBVIOUS
  <2> QED BY <1>2, <2>1, FS_Subset, FS_CardinalityType
<1>5. \A n \in Nat : n >= Cardinality(s) => FirstOf(s, n) = s
  BY <1>2, <1>3, <1>4 DEF FirstOf
<1> QED BY <1>2, <1>5 DEF FirstOf

\* Begin, Return and every other step of a call change the locals of that call only.
LEMMA ReturnTyped ==
  ASSUME TypeOK, NEW t \in Tasks, Return(t)
  PROVE  /\ pc' \in [Tasks -> Labels] /\ path' \in [Tasks -> Paths \cup {NoPath}]
         /\ span' \in [Tasks -> SUBSET Blocks] /\ stamp' \in [Tasks -> Stamps]
         /\ data' \in [Tasks -> [Blocks -> Stamps \cup {Absent}]]
         /\ floor' \in [Tasks -> Contents]
         /\ pc'[t] = "idle"
         /\ \A u \in Tasks \ {t} :
              /\ pc'[u] = pc[u] /\ path'[u] = path[u] /\ span'[u] = span[u]
              /\ stamp'[u] = stamp[u] /\ data'[u] = data[u] /\ floor'[u] = floor[u]
BY Sets DEF TypeOK, Return, Labels

-----------------------------------------------------------------------------
(* Steps.                                                                   *)

\* Starting a call, and closing a file.
LEMMA BeginKeeps ==
  ASSUME IInv, NEW t \in Tasks, NEW section \in Opening, NEW p \in Paths,
         NEW s \in SUBSET Blocks, Begin(t, section, p, s)
  PROVE  IInv'
<1> USE DEF files, orphans, history
<1>1. TypeOK' /\ CallsNamed'
  BY Sets DEF IInv, TypeOK, CallsNamed, Begin, Goto, Labels, Opening
<1>2. LayersOrdered' /\ WholeWritesStored' /\ PromisesKept'
  BY DEF IInv, LayersOrdered, WholeWritesStored, PromisesKept, Begin
<1>3. CallsHeld'
  BY DEF IInv, TypeOK, WholeWritesStored, CallsHeld, CallHeld, Begin, Goto, Opening
<1> QED BY <1>1, <1>2, <1>3 DEF IInv

\* Steps that end a call and leave the files alone: an error return, the return of
\* a read, and close_file, which has no call to end.
LEMMA ReturnKeeps ==
  ASSUME IInv, NEW t \in Tasks, Fail(t) \/ ReadReturns(t)
  PROVE  IInv'
<1> USE DEF files, orphans, history
<1>1. /\ Return(t) /\ notified' \subseteq Paths
      /\ UNCHANGED <<files, history, crashes>>
  <2>1. pc[t] # "idle"
    BY DEF Fail, ReadReturns, Opening, InKernel
  <2> QED BY <2>1 DEF IInv, TypeOK, CallsNamed, Fail, ReadReturns, Notify
<1>2. TypeOK' /\ CallsNamed'
  BY <1>1, ReturnTyped DEF IInv, TypeOK, CallsNamed
<1>3. LayersOrdered' /\ WholeWritesStored' /\ PromisesKept'
  BY <1>1 DEF IInv, LayersOrdered, WholeWritesStored, PromisesKept
<1>4. CallsHeld'
  BY <1>1, ReturnTyped DEF IInv, CallsHeld, CallHeld
<1> QED BY <1>2, <1>3, <1>4 DEF IInv

LEMMA CloseFileKeeps ==
  ASSUME IInv, NEW t \in Tasks, NEW p \in Paths, CloseFile(t, p)
  PROVE  IInv'
BY DEF IInv, TypeOK, CallsNamed, LayersOrdered, WholeWritesStored, PromisesKept, CallsHeld, CallHeld,
       CloseFile, Notify, files, orphans, calls, history

\* The three opens.
LEMMA OpenKeeps ==
  ASSUME IInv, NEW t \in Tasks, OpenForRead(t) \/ OpenForWrite(t) \/ OpenForSync(t)
  PROVE  IInv'
<1> USE DEF files, orphans, history
<1>1. TypeOK' /\ CallsNamed'
  BY DEF IInv, TypeOK, CallsNamed, OpenForRead, OpenForWrite, OpenForSync, Goto, Labels,
         Opening, InKernel
<1>2. LayersOrdered' /\ WholeWritesStored' /\ PromisesKept'
  BY DEF IInv, LayersOrdered, WholeWritesStored, PromisesKept,
         OpenForRead, OpenForWrite, OpenForSync
<1>3. CallsHeld'
  BY DEF IInv, TypeOK, CallsHeld, CallHeld, OpenForRead, OpenForWrite, OpenForSync, Goto
<1> QED BY <1>1, <1>2, <1>3 DEF IInv

\* The kernel reads from the cache, which no call's floor is above.
LEMMA KernelReadsKeeps ==
  ASSUME IInv, NEW t \in Tasks, NEW n \in Blocks, KernelReads(t, n)
  PROVE  IInv'
<1> USE DEF files, orphans, history
<1> DEFINE c == cache[path[t]]
           filled == FirstOf({b \in span[t] : b <= SizeOf(c)}, n)
           seen == [b \in Blocks |-> IF b \in filled THEN c[b] ELSE Absent]
<1>1. /\ pc[t] = "reading" /\ pc' = [pc EXCEPT ![t] = "read"]
      /\ data' = [data EXCEPT ![t] = seen]
      /\ UNCHANGED <<files, path, span, stamp, floor, notified, history, crashes>>
  BY DEF KernelReads, Goto
<1>2. path[t] \in Paths /\ c \in Contents
  BY <1>1 DEF IInv, TypeOK, CallsNamed
<1>3. seen \in [Blocks -> Stamps \cup {Absent}]
      /\ \A b \in Blocks : seen[b] = Absent \/ seen[b] = c[b]
  <2> HIDE DEF filled, c
  <2> QED BY <1>2 DEF Contents
<1> HIDE DEF seen, c
<1>4. TypeOK' /\ CallsNamed'
  BY <1>1, <1>2, <1>3 DEF IInv, TypeOK, CallsNamed, Labels, Opening, InKernel
<1>5. LayersOrdered' /\ WholeWritesStored' /\ PromisesKept'
  BY <1>1 DEF IInv, LayersOrdered, WholeWritesStored, PromisesKept
<1>6. CallsHeld'
  BY <1>1, <1>2, <1>3 DEF IInv, TypeOK, CallsHeld, CallHeld, c
<1> QED BY <1>4, <1>5, <1>6 DEF IInv

\* One store of the kernel, awaited or not: the cache only gets newer.
LEMMA StoreMonotone ==
  ASSUME IInv, NEW p \in Paths, NEW blocks \in SUBSET Blocks, stores < MaxStores,
         stores' = stores + 1,
         cache' = [cache EXCEPT ![p] =
                     [b \in Blocks |-> IF b \in blocks THEN stores + 1 ELSE @[b]]]
  PROVE  /\ stores' \in Stamps /\ cache' \in [Paths -> Contents]
         /\ \A q \in Paths : \A b \in Blocks :
              cache[q][b] <= cache'[q][b] /\ cache'[q][b] <= stores'
         /\ \A b \in blocks : cache'[p][b] = stores + 1
<1>1. stores \in Nat /\ stores' \in Stamps /\ stores + 1 \in Stamps
  BY Sets DEF IInv, TypeOK, Stamps
<1>2. cache \in [Paths -> Contents]
      /\ \A q \in Paths : \A b \in Blocks : cache[q][b] \in Nat /\ cache[q][b] <= stores
  BY StampsAreNumbers DEF IInv, TypeOK, LayersOrdered
<1>3. cache' \in [Paths -> Contents]
  BY <1>1, <1>2 DEF Contents
<1>4. \A q \in Paths : \A b \in Blocks :
        cache'[q][b] = IF q = p /\ b \in blocks THEN stores + 1 ELSE cache[q][b]
  BY <1>2
<1> QED BY <1>1, <1>2, <1>3, <1>4

\* A call is not disturbed by what others do to the files, as long as the cache and
\* the disk only get newer.
LEMMA BystanderHeld ==
  ASSUME IInv, NEW u \in Tasks,
         pc'[u] = pc[u], path'[u] = path[u], span'[u] = span[u], stamp'[u] = stamp[u],
         data'[u] = data[u], floor'[u] = floor[u],
         cache' \in [Paths -> Contents], disk' \in [Paths -> Contents],
         \A q \in Paths : \A b \in Blocks :
           cache[q][b] <= cache'[q][b] /\ disk[q][b] <= disk'[q][b],
         short \subseteq short', entries \subseteq entries'
  PROVE  CallHeld(u)'
<1> SUFFICES ASSUME pc[u] # "idle", path[u] \notin short, NEW b \in Blocks
             PROVE  /\ pc[u] \in {"openRead", "reading", "openSync", "syncing"} =>
                         floor[u][b] <= cache'[path[u]][b]
                    /\ pc[u] = "read" => data[u][b] = Absent \/ floor[u][b] <= data[u][b]
                    /\ pc[u] = "written" /\ b \in span[u] => stamp[u] <= cache'[path[u]][b]
                    /\ pc[u] = "synced" => floor[u][b] <= disk'[path[u]][b]
                                             /\ path[u] \in entries'
  BY DEF CallHeld
<1>1. path[u] \in Paths
  BY DEF IInv, CallsNamed
<1>2. /\ floor[u][b] \in Nat /\ stamp[u] \in Nat
      /\ cache[path[u]][b] \in Nat /\ cache'[path[u]][b] \in Nat
      /\ disk[path[u]][b] \in Nat /\ disk'[path[u]][b] \in Nat
  BY <1>1, Sets, StampsAreNumbers DEF IInv, TypeOK
<1> QED BY <1>1, <1>2 DEF IInv, CallsHeld, CallHeld

\* So are the parts on files by a store, which leaves the disk alone.
LEMMA NewerCacheKeeps ==
  ASSUME IInv, cache' \in [Paths -> Contents], stores' \in Stamps,
         \A q \in Paths : \A b \in Blocks :
           cache[q][b] <= cache'[q][b] /\ cache'[q][b] <= stores',
         short \subseteq short', UNCHANGED <<entries, disk, acked, promised>>
  PROVE  LayersOrdered' /\ WholeWritesStored' /\ PromisesKept'
<1>1. \A q \in Paths : \A b \in Blocks :
        /\ cache[q][b] \in Nat /\ cache'[q][b] \in Nat
        /\ disk[q][b] \in Nat /\ acked[q][b] \in Nat
  BY StampsAreNumbers DEF IInv, TypeOK
<1>2. LayersOrdered'
  BY <1>1 DEF IInv, LayersOrdered
<1>3. WholeWritesStored'
  BY <1>1 DEF IInv, WholeWritesStored
<1>4. PromisesKept'
  BY DEF IInv, PromisesKept
<1> QED BY <1>2, <1>3, <1>4

\* write_at stores a prefix of the data; if that is all of it, the call holds it.
LEMMA KernelWritesKeeps ==
  ASSUME IInv, NEW t \in Tasks, NEW n \in Blocks, KernelWrites(t, n)
  PROVE  IInv'
<1> DEFINE all == Cardinality(span[t])
           blocks == FirstOf(span[t], n)
<1>1. /\ pc[t] = "writing" /\ pc' = [pc EXCEPT ![t] = "written"]
      /\ stores < MaxStores /\ stores' = stores + 1 /\ n <= all
      /\ stamp' = [stamp EXCEPT ![t] = stores + 1]
      /\ cache' = [cache EXCEPT ![path[t]] =
                     [b \in Blocks |-> IF b \in blocks THEN stores + 1 ELSE @[b]]]
      /\ short' = IF n < all THEN short \cup {path[t]} ELSE short
      /\ UNCHANGED <<exists, entries, disk, orphans, path, span, data, floor, notified,
                     acked, promised, crashes>>
  BY DEF KernelWrites, Goto
<1>2. path[t] \in Paths /\ span[t] \in SUBSET Blocks /\ n \in Nat
  BY <1>1, Sets DEF IInv, TypeOK, CallsNamed
<1>3. blocks \in SUBSET Blocks /\ all \in Nat /\ (n >= all => blocks = span[t])
  BY <1>2, FirstOfAll
<1> HIDE DEF blocks, all
<1>4. /\ stores' \in Stamps /\ cache' \in [Paths -> Contents]
      /\ \A q \in Paths : \A b \in Blocks :
           cache[q][b] <= cache'[q][b] /\ cache'[q][b] <= stores'
      /\ \A b \in blocks : cache'[path[t]][b] = stores + 1
  BY <1>1, <1>2, <1>3, StoreMonotone
<1>5. TypeOK' /\ CallsNamed'
  BY <1>1, <1>2, <1>4 DEF IInv, TypeOK, CallsNamed, Labels, Opening, InKernel, orphans
<1>6. LayersOrdered' /\ WholeWritesStored' /\ PromisesKept'
  BY <1>1, <1>4, NewerCacheKeeps
<1>7. CallHeld(t)'
  <2>1. CASE n < all
    BY <1>1, <2>1 DEF CallHeld
  <2>2. CASE n >= all
    BY <1>1, <1>2, <1>3, <1>4, <2>2 DEF CallHeld, IInv, TypeOK, Stamps
  <2> QED BY <1>2, <1>3, <2>1, <2>2
<1>8. ASSUME NEW u \in Tasks \ {t} PROVE CallHeld(u)'
  <2>1. /\ pc'[u] = pc[u] /\ path'[u] = path[u] /\ span'[u] = span[u]
        /\ stamp'[u] = stamp[u] /\ data'[u] = data[u] /\ floor'[u] = floor[u]
    BY <1>1 DEF IInv, TypeOK
  <2>2. /\ disk' \in [Paths -> Contents] /\ short \subseteq short'
        /\ entries \subseteq entries'
        /\ \A q \in Paths : \A b \in Blocks : disk[q][b] <= disk'[q][b]
    BY <1>1, Sets, StampsAreNumbers DEF IInv, TypeOK
  <2> QED BY <1>4, <2>1, <2>2, BystanderHeld
<1> QED BY <1>5, <1>6, <1>7, <1>8 DEF IInv, CallsHeld

\* The Ok of write_file acknowledges a store that the cache still has.
LEMMA WriteReturnsKeeps ==
  ASSUME IInv, NEW t \in Tasks, WriteReturns(t)
  PROVE  IInv'
<1> USE DEF files, orphans
<1> DEFINE stored == [b \in Blocks |-> IF b \in span[t] THEN stamp[t] ELSE 0]
           p == path[t]
<1>1. /\ pc[t] = "written" /\ Return(t)
      /\ notified' \in {notified, notified \cup {p}}
      /\ acked' = [acked EXCEPT ![p] = Newer(acked[p], stored)]
      /\ UNCHANGED <<files, promised, short, crashes>>
  BY DEF WriteReturns, Notify
<1>2. p \in Paths /\ acked[p] \in Contents
  BY <1>1 DEF IInv, TypeOK, CallsNamed
<1>3. stored \in Contents /\ \A b \in Blocks : stored[b] = IF b \in span[t] THEN stamp[t] ELSE 0
  BY Sets DEF IInv, TypeOK, Contents
<1> HIDE DEF stored
<1>4. /\ Newer(acked[p], stored) \in Contents
      /\ \A b \in Blocks : Newer(acked[p], stored)[b] \in {acked[p][b], stored[b]}
  BY <1>2, <1>3, NewerIsMax
<1>5. TypeOK' /\ CallsNamed'
  BY <1>1, <1>2, <1>4, ReturnTyped DEF IInv, TypeOK, CallsNamed
<1>6. LayersOrdered' /\ PromisesKept'
  BY <1>1 DEF IInv, LayersOrdered, PromisesKept
<1>7. WholeWritesStored'
  <2> SUFFICES ASSUME NEW q \in Paths \ short, NEW b \in Blocks
               PROVE  acked'[q][b] <= cache[q][b]
    BY <1>1 DEF WholeWritesStored
  <2>1. acked[q][b] <= cache[q][b] /\ cache[q][b] \in Nat
    BY StampsAreNumbers DEF IInv, TypeOK, WholeWritesStored
  <2>2. CASE q # p
    BY <1>1, <2>1, <2>2 DEF IInv, TypeOK
  <2>3. CASE q = p
    <3>1. acked'[q][b] \in {acked[q][b], stored[b]}
      BY <1>1, <1>2, <1>4, <2>3 DEF IInv, TypeOK
    <3>2. stored[b] <= cache[q][b]
      BY <1>1, <1>3, <2>1, <2>3 DEF IInv, CallsHeld, CallHeld
    <3> QED BY <2>1, <3>1, <3>2
  <2> QED BY <2>2, <2>3
<1>8. CallsHeld'
  BY <1>1, ReturnTyped DEF IInv, CallsHeld, CallHeld
<1> QED BY <1>5, <1>6, <1>7, <1>8 DEF IInv

\* sync_all brings the disk up to the cache, and so above the floor of the call.
LEMMA KernelSyncsKeeps ==
  ASSUME IInv, NEW t \in Tasks, KernelSyncs(t)
  PROVE  IInv'
<1> DEFINE p == path[t]
<1>1. /\ pc[t] = "syncing" /\ pc' = [pc EXCEPT ![t] = "synced"]
      /\ disk' = [disk EXCEPT ![p] = cache[p]] /\ entries' = entries \cup {p}
      /\ UNCHANGED <<exists, cache, stores, orphans, path, span, stamp, data, floor,
                     notified, history, crashes>>
  BY DEF KernelSyncs, Goto
<1>2. p \in Paths /\ p \in exists
  BY <1>1 DEF IInv, TypeOK, CallsNamed, Labels, InKernel, Opening
<1>3. TypeOK' /\ CallsNamed'
  BY <1>1, <1>2 DEF IInv, TypeOK, CallsNamed, Labels, Opening, InKernel, orphans, history
<1>4. /\ disk' \in [Paths -> Contents]
      /\ \A q \in Paths : \A b \in Blocks :
           /\ disk[q][b] <= disk'[q][b] /\ disk'[q][b] <= cache[q][b]
           /\ disk[q][b] \in Nat /\ disk'[q][b] \in Nat /\ promised[q][b] \in Nat
  BY <1>1, <1>3, StampsAreNumbers DEF IInv, TypeOK, LayersOrdered
<1>5. LayersOrdered' /\ WholeWritesStored'
  BY <1>1, <1>4 DEF IInv, LayersOrdered, WholeWritesStored, history
<1>6. PromisesKept'
  BY <1>1, <1>4 DEF IInv, PromisesKept, history
<1>7. CallHeld(t)'
  BY <1>1, <1>2 DEF IInv, TypeOK, CallsHeld, CallHeld, history
<1>8. ASSUME NEW u \in Tasks \ {t} PROVE CallHeld(u)'
  <2>1. /\ pc'[u] = pc[u] /\ path'[u] = path[u] /\ span'[u] = span[u]
        /\ stamp'[u] = stamp[u] /\ data'[u] = data[u] /\ floor'[u] = floor[u]
    BY <1>1 DEF IInv, TypeOK
  <2>2. /\ cache' \in [Paths -> Contents] /\ short \subseteq short'
        /\ entries \subseteq entries'
        /\ \A q \in Paths : \A b \in Blocks : cache[q][b] <= cache'[q][b]
    BY <1>1, StampsAreNumbers DEF IInv, TypeOK, history
  <2> QED BY <1>4, <2>1, <2>2, BystanderHeld
<1> QED BY <1>3, <1>5, <1>6, <1>7, <1>8 DEF IInv, CallsHeld

\* The Ok of sync_file promises what its sync_all has put on disk.
LEMMA SyncReturnsKeeps ==
  ASSUME IInv, NEW t \in Tasks, SyncReturns(t)
  PROVE  IInv'
<1> USE DEF files, orphans
<1> DEFINE p == path[t]
<1>1. /\ pc[t] = "synced" /\ Return(t)
      /\ notified' \in {notified, notified \cup {p}}
      /\ promised' = [promised EXCEPT ![p] = Newer(promised[p], floor[t])]
      /\ UNCHANGED <<files, acked, short, crashes>>
  BY DEF SyncReturns, Notify
<1>2. p \in Paths /\ promised[p] \in Contents /\ floor[t] \in Contents
  BY <1>1 DEF IInv, TypeOK, CallsNamed
<1>3. /\ Newer(promised[p], floor[t]) \in Contents
      /\ \A b \in Blocks : Newer(promised[p], floor[t])[b] \in {promised[p][b], floor[t][b]}
  BY <1>2, NewerIsMax
<1>4. TypeOK' /\ CallsNamed'
  BY <1>1, <1>2, <1>3, ReturnTyped DEF IInv, TypeOK, CallsNamed
<1>5. LayersOrdered' /\ WholeWritesStored'
  BY <1>1 DEF IInv, LayersOrdered, WholeWritesStored
<1>6. PromisesKept'
  <2> SUFFICES ASSUME NEW q \in Paths \ short, NEW b \in Blocks
               PROVE  promised'[q][b] <= disk[q][b] /\ (promised'[q][b] > 0 => q \in entries)
    BY <1>1 DEF PromisesKept
  <2>1. promised[q][b] <= disk[q][b] /\ (promised[q][b] > 0 => q \in entries)
    BY DEF IInv, PromisesKept
  <2>2. CASE q # p
    BY <1>1, <2>1, <2>2 DEF IInv, TypeOK
  <2>3. CASE q = p
    <3>1. promised'[q][b] \in {promised[q][b], floor[t][b]}
      BY <1>1, <1>2, <1>3, <2>3 DEF IInv, TypeOK
    <3>2. floor[t][b] <= disk[q][b] /\ q \in entries
      BY <1>1, <2>3 DEF IInv, CallsHeld, CallHeld
    <3> QED BY <2>1, <3>1, <3>2
  <2> QED BY <2>2, <2>3
<1>7. CallsHeld'
  BY <1>1, ReturnTyped DEF IInv, CallsHeld, CallHeld
<1> QED BY <1>4, <1>5, <1>6, <1>7 DEF IInv

\* A timeout ends a call like an error; its operation stays in flight.
LEMMA TimedOutKeeps ==
  ASSUME IInv, NEW t \in Tasks, TimedOut(t)
  PROVE  IInv'
<1> DEFINE w == [path |-> path[t], span |-> IF pc[t] = "writing" THEN span[t] ELSE {}]
<1>1. /\ pc[t] \in {"openWrite", "writing"} /\ Return(t)
      /\ timeouts < MaxTimeouts /\ timeouts' = timeouts + 1 /\ late' = late \cup {w}
      /\ UNCHANGED <<exists, entries, cache, disk, stores, notified, history, crashes>>
  BY DEF TimedOut
<1>2. w \in [path : Paths, span : SUBSET Blocks]
  BY <1>1 DEF IInv, TypeOK, CallsNamed
<1> HIDE DEF w
<1>3. timeouts' \in 0..MaxTimeouts
  BY <1>1, Sets DEF IInv, TypeOK
<1>4. TypeOK' /\ CallsNamed'
  BY <1>1, <1>2, <1>3, ReturnTyped DEF IInv, TypeOK, CallsNamed, history
<1>5. LayersOrdered' /\ WholeWritesStored' /\ PromisesKept'
  BY <1>1 DEF IInv, LayersOrdered, WholeWritesStored, PromisesKept, history
<1>6. CallsHeld'
  BY <1>1, ReturnTyped DEF IInv, CallsHeld, CallHeld, history
<1> QED BY <1>4, <1>5, <1>6 DEF IInv

\* What nobody waits for ends like a store of a call, like an open, or not at all.
LEMMA LateEndKeeps ==
  ASSUME IInv, NEW w \in late, LateEnd(w)
  PROVE  IInv'
<1> USE DEF orphans, calls, history
<1>1. /\ w \in [path : Paths, span : SUBSET Blocks]
      /\ late' = late \ {w}
      /\ UNCHANGED <<timeouts, calls, notified, history, crashes>>
  BY DEF IInv, TypeOK, LateEnd
<1>2. CASE LateOpen(w) \/ UNCHANGED <<exists, entries, cache, disk, stores>>
  <2>1. /\ exists' \in {exists, exists \cup {w.path}} /\ w.path \in Paths
        /\ UNCHANGED <<entries, cache, disk, stores>>
    BY <1>1, <1>2 DEF LateOpen
  <2>2. TypeOK' /\ CallsNamed'
    BY <1>1, <2>1 DEF IInv, TypeOK, CallsNamed
  <2>3. LayersOrdered' /\ WholeWritesStored' /\ PromisesKept' /\ CallsHeld'
    BY <1>1, <2>1 DEF IInv, LayersOrdered, WholeWritesStored, PromisesKept, CallsHeld, CallHeld
  <2> QED BY <2>2, <2>3 DEF IInv
<1>3. ASSUME NEW n \in Blocks, LateWrite(w, n) PROVE IInv'
  <2> DEFINE blocks == FirstOf(w.span, n)
  <2>1. w.path \in Paths /\ blocks \in SUBSET Blocks
    BY <1>1, Sets, FirstOfAll
  <2> HIDE DEF blocks
  <2>2. /\ stores' \in Stamps /\ cache' \in [Paths -> Contents]
        /\ \A q \in Paths : \A b \in Blocks :
             cache[q][b] <= cache'[q][b] /\ cache'[q][b] <= stores'
    BY <1>3, <2>1, StoreMonotone DEF LateWrite, blocks
  <2>3. UNCHANGED <<exists, entries, disk>>
    BY <1>3 DEF LateWrite
  <2>4. TypeOK' /\ CallsNamed'
    BY <1>1, <2>2, <2>3 DEF IInv, TypeOK, CallsNamed
  <2>5. LayersOrdered' /\ WholeWritesStored' /\ PromisesKept'
    BY <1>1, <2>2, <2>3, NewerCacheKeeps
  <2>6. ASSUME NEW u \in Tasks PROVE CallHeld(u)'
    <3>1. \A q \in Paths : \A b \in Blocks : disk[q][b] <= disk'[q][b]
      BY <2>3, StampsAreNumbers DEF IInv, TypeOK
    <3>2. disk' \in [Paths -> Contents]
      BY <2>3 DEF IInv, TypeOK
    <3> QED BY <1>1, <2>2, <2>3, <3>1, <3>2, BystanderHeld
  <2> QED BY <2>4, <2>5, <2>6 DEF IInv, CallsHeld
<1> QED BY <1>2, <1>3 DEF LateEnd

\* The kernel's own write-back of a block or of an entry.
LEMMA WriteBackKeeps ==
  ASSUME IInv, NEW p \in Paths, NEW c \in Blocks, WriteBack(p, c)
  PROVE  IInv'
<1> USE DEF orphans, calls, history
<1>1. /\ disk' = [disk EXCEPT ![p] = [@ EXCEPT ![c] = cache[p][c]]]
      /\ UNCHANGED <<exists, entries, cache, stores, orphans, calls, notified, history, crashes>>
  BY DEF WriteBack
<1>2. disk' \in [Paths -> Contents]
  BY <1>1, StampsAreNumbers DEF IInv, TypeOK, Contents
<1>3. \A q \in Paths : \A b \in Blocks :
        disk'[q][b] = IF q = p /\ b = c THEN cache[q][b] ELSE disk[q][b]
  BY <1>1 DEF IInv, TypeOK, Contents
<1>4. \A q \in Paths : \A b \in Blocks :
        /\ disk[q][b] \in Nat /\ disk'[q][b] \in Nat /\ cache[q][b] \in Nat
        /\ promised[q][b] \in Nat
  BY <1>2, StampsAreNumbers DEF IInv, TypeOK
<1>5. \A q \in Paths : \A b \in Blocks :
        disk[q][b] <= disk'[q][b] /\ disk'[q][b] <= cache[q][b]
  BY <1>3, <1>4 DEF IInv, LayersOrdered
<1>6. TypeOK' /\ CallsNamed'
  BY <1>1, <1>2 DEF IInv, TypeOK, CallsNamed
<1>7. LayersOrdered' /\ WholeWritesStored'
  BY <1>1, <1>5 DEF IInv, LayersOrdered, WholeWritesStored
<1>8. PromisesKept'
  BY <1>1, <1>4, <1>5 DEF IInv, PromisesKept
<1>9. ASSUME NEW u \in Tasks PROVE CallHeld(u)'
  <2>1. /\ cache' \in [Paths -> Contents]
        /\ \A q \in Paths : \A b \in Blocks : cache[q][b] <= cache'[q][b]
    BY <1>1, <1>4 DEF IInv, TypeOK
  <2> QED BY <1>1, <1>2, <1>5, <2>1, BystanderHeld
<1> QED BY <1>6, <1>7, <1>8, <1>9 DEF IInv, CallsHeld

LEMMA WriteBackEntryKeeps ==
  ASSUME IInv, NEW p \in Paths, WriteBackEntry(p)
  PROVE  IInv'
BY DEF WriteBackEntry, IInv, TypeOK, CallsNamed, LayersOrdered, WholeWritesStored,
       PromisesKept, CallsHeld, CallHeld, orphans, calls, history

\* A crash takes the cache back to the disk, and what is acknowledged back to what
\* is promised; a path whose entry is not on disk has nothing promised.
LEMMA CrashKeeps == ASSUME IInv, Crash PROVE IInv'
<1>1. /\ crashes' \in 0..MaxCrashes /\ exists' \subseteq exists /\ entries \subseteq exists'
      /\ disk' = [p \in Paths |-> IF p \in exists' THEN disk[p] ELSE Empty]
      /\ cache' = disk' /\ acked' = promised /\ late' = {} /\ notified' = {}
      /\ UNCHANGED <<entries, stores, timeouts, promised, short>>
  BY Sets DEF Crash, IInv, TypeOK
<1>2. /\ pc' = [t \in Tasks |-> "idle"] /\ path' = [t \in Tasks |-> NoPath]
      /\ span' = [t \in Tasks |-> {}] /\ stamp' = [t \in Tasks |-> 0]
      /\ data' = [t \in Tasks |-> Nothing] /\ floor' = [t \in Tasks |-> Empty]
  BY DEF Crash
<1>3. /\ pc' \in [Tasks -> Labels] /\ path' \in [Tasks -> Paths \cup {NoPath}]
      /\ span' \in [Tasks -> SUBSET Blocks] /\ stamp' \in [Tasks -> Stamps]
      /\ data' \in [Tasks -> [Blocks -> Stamps \cup {Absent}]]
      /\ floor' \in [Tasks -> Contents]
      /\ \A t \in Tasks : pc'[t] = "idle"
  BY <1>2, Sets DEF Labels
<1>4. disk' \in [Paths -> Contents] /\ cache' \in [Paths -> Contents]
  BY <1>1, Sets DEF IInv, TypeOK
<1>5. TypeOK' /\ CallsNamed' /\ CallsHeld'
  BY <1>1, <1>3, <1>4 DEF IInv, TypeOK, CallsNamed, CallsHeld, CallHeld
<1>6. \A p \in Paths : \A b \in Blocks :
        /\ disk'[p][b] \in Nat /\ disk'[p][b] <= stores
        /\ disk'[p][b] = IF p \in exists' THEN disk[p][b] ELSE 0
  <2> TAKE p \in Paths
  <2> TAKE b \in Blocks
  <2>1. disk[p][b] \in Nat /\ cache[p][b] \in Nat /\ stores \in Nat
    BY StampsAreNumbers, Sets DEF IInv, TypeOK
  <2>2. disk[p][b] <= cache[p][b] /\ cache[p][b] <= stores
    BY DEF IInv, LayersOrdered
  <2>3. disk'[p][b] = IF p \in exists' THEN disk[p][b] ELSE 0
    BY <1>1, Sets
  <2> QED BY <2>1, <2>2, <2>3
<1>7. LayersOrdered'
  BY <1>1, <1>6 DEF LayersOrdered
<1>8. PromisesKept'
  <2> SUFFICES ASSUME NEW p \in Paths \ short, NEW b \in Blocks
               PROVE  promised[p][b] <= disk'[p][b] /\ (promised[p][b] > 0 => p \in entries)
    BY <1>1 DEF PromisesKept
  <2>1. promised[p][b] <= disk[p][b] /\ (promised[p][b] > 0 => p \in entries)
    BY DEF IInv, PromisesKept
  <2>2. promised[p][b] \in Nat
    BY StampsAreNumbers DEF IInv, TypeOK
  <2> QED BY <1>1, <1>6, <2>1, <2>2
<1>9. WholeWritesStored'
  BY <1>1, <1>8 DEF PromisesKept, WholeWritesStored
<1> QED BY <1>5, <1>7, <1>8, <1>9 DEF IInv

-----------------------------------------------------------------------------
(* Theorems.                                                                *)

\* The invariant holds at the start: nothing is stored, and nothing acknowledged.
LEMMA InitHolds == Init => IInv
<1> SUFFICES ASSUME Init PROVE IInv
  OBVIOUS
<1>1. TypeOK
  BY Sets DEF Init, TypeOK, Labels
<1>2. CallsNamed /\ CallsHeld
  BY DEF Init, CallsNamed, CallsHeld, CallHeld
<1>3. LayersOrdered /\ WholeWritesStored /\ PromisesKept
  BY Sets DEF Init, LayersOrdered, WholeWritesStored, PromisesKept
<1> QED BY <1>1, <1>2, <1>3 DEF IInv

\* Every step keeps it.
LEMMA NextKeeps == IInv /\ [Next]_vars => IInv'
<1> SUFFICES ASSUME IInv, [Next]_vars PROVE IInv'
  OBVIOUS
<1>1. ASSUME NEW t \in Tasks, NEW p \in Paths, NEW at \in Blocks, BeginRead(t, p, at)
      PROVE  IInv'
  BY <1>1, BeginKeeps DEF BeginRead, Opening
<1>2. ASSUME NEW t \in Tasks, NEW p \in Paths, NEW at \in Blocks, NEW n \in Blocks,
             BeginWrite(t, p, at, n)
      PROVE  IInv'
  <2>1. at..(at + n - 1) \in SUBSET Blocks
    BY <1>2, Sets DEF BeginWrite, Blocks
  <2> QED BY <1>2, <2>1, BeginKeeps DEF BeginWrite, Opening
<1>3. ASSUME NEW t \in Tasks, NEW p \in Paths, BeginSync(t, p) PROVE IInv'
  BY <1>3, BeginKeeps DEF BeginSync, Opening
<1>4. CASE UNCHANGED vars
  BY <1>4 DEF vars, files, orphans, calls, history, IInv, TypeOK, CallsNamed, LayersOrdered,
              WholeWritesStored, PromisesKept, CallsHeld, CallHeld
<1> QED
  BY <1>1, <1>2, <1>3, <1>4, CloseFileKeeps, ReturnKeeps, OpenKeeps, KernelReadsKeeps,
     KernelWritesKeeps, WriteReturnsKeeps, KernelSyncsKeeps, SyncReturnsKeeps, TimedOutKeeps,
     LateEndKeeps, WriteBackKeeps, WriteBackEntryKeeps, CrashKeeps DEF Next

\* Every variable keeps its type, and a call gets past its open only on a path that
\* names a file, whatever the calls, the timeouts and the crashes do.
THEOREM DiskTypeCorrect == Spec => []TypeOK
<1>1. IInv => TypeOK
  BY DEF IInv
<1> QED BY InitHolds, NextKeeps, <1>1, PTL DEF Spec

\* Whatever write_file has answered Ok to is in the file, or newer data is, as long
\* as write_at took everything it was given.
THEOREM AckedIsStored == Spec => []WholeWritesStored
<1>1. IInv => WholeWritesStored
  BY DEF IInv
<1> QED BY InitHolds, NextKeeps, <1>1, PTL DEF Spec

\* A read returns nothing older than what had been acknowledged when it began.
THEOREM ReadsAreFresh == Spec => []ReadSeesAcked
<1>1. IInv => ReadSeesAcked
  <2> SUFFICES ASSUME IInv, NEW t \in Tasks, pc[t] = "read", path[t] \notin short,
                      NEW b \in Blocks, data[t][b] # Absent
               PROVE  data[t][b] >= floor[t][b]
    BY DEF ReadSeesAcked
  <2>1. floor[t][b] <= data[t][b]
    BY DEF IInv, CallsHeld, CallHeld
  <2>2. data[t] \in [Blocks -> Stamps \cup {Absent}] /\ floor[t] \in Contents
    BY DEF IInv, TypeOK
  <2>3. data[t][b] \in Nat /\ floor[t][b] \in Nat
    <3>1. data[t][b] \in Stamps
      BY <2>2
    <3> QED BY <2>2, <3>1, StampsAreNumbers, Sets
  <2> QED BY <2>1, <2>3
<1> QED BY InitHolds, NextKeeps, <1>1, PTL DEF Spec

\* What had been acknowledged when a sync_file began that answered Ok is on disk, and
\* the file is there, after any number of crashes.
THEOREM SyncsSurviveCrashes == Spec => []SyncedSurvives
<1>1. IInv => SyncedSurvives
  BY DEF IInv, TypeOK, PromisesKept, SyncedSurvives
<1> QED BY InitHolds, NextKeeps, <1>1, PTL DEF Spec

=============================================================================
