--------------------------- MODULE RingLifecycle ---------------------------
(***************************************************************************)
(* The life of a ring file and of the handles on it: RingBuffer::create,    *)
(* create_numa_aware, open, register_as_producer, unregister_as_producer    *)
(* and Drop of elgate-core/src/ring/buffer.rs, RingHeader::new and validate *)
(* of header.rs.  Handles belong to processes that run concurrently and may *)
(* be killed.  create and open are taken one system call, or one group of   *)
(* header stores, at a time.  The slots and what is in them are the matter  *)
(* of RingBuffer and are left out here.                                     *)
(***************************************************************************)
EXTENDS Integers, FiniteSets

CONSTANTS
  Handles,      \* RingBuffer values, one per process
  Files,        \* inodes the path may name in turn
  NoFile,
  Options,      \* RingBufferOptions: records of size and slotSize
  HeaderSize,   \* size_of::<RingHeader>()
  CountLimit,   \* 2^64: active_producers wraps there
  MaxKills      \* bound: processes killed

ASSUME LayoutAssumption ==
  /\ NoFile \notin Files
  /\ HeaderSize \in Nat
  /\ Options \subseteq [size : Nat, slotSize : Nat \ {0}]
  /\ \A o \in Options : o.size > HeaderSize
  /\ CountLimit \in Nat \ {0} /\ MaxKills \in Nat

\* There are fewer handles and kills than a 64-bit count has values.
ASSUME WidthAssumption ==
  IsFiniteSet(Handles) /\ Cardinality(Handles) + MaxKills < CountLimit

VARIABLES
  path,       \* the file the path names
  length,     \* length of each file
  size, slotSize, slotCount,   \* the header's geometry, 0 before it is stored
  active,     \* header.active_producers
  pc, file, opts, mapped,      \* each handle: call in progress, file, sizes
  toStore,    \* parts of the header a create has still to store
  producer,   \* RingBuffer.is_producer
  orphans,    \* history: registered producers killed, by file
  reused,     \* history: files on which create was called while in use
  early,      \* history: files opened while their create was at work
  kills       \* processes killed so far

geometry == <<size, slotSize, slotCount>>
contents == <<length, geometry, active>>
locals   == <<pc, file, opts, mapped, toStore, producer>>
marks    == <<reused, early>>
vars     == <<path, contents, locals, orphans, marks, kills>>

Creating == {"setLen", "mapNew", "storeHeader", "register", "resetSlots"}
Opening  == {"mapOld", "validate", "loadSizes"}
Parts    == {"size", "slots", "counters"}
Labels   == {"closed", "live"} \cup Creating \cup Opening
NoOpts   == [size |-> 0, slotSize |-> 0]

\* Calls that have the file mapped.
Attached(h) == pc[h] \in {"storeHeader", "register", "resetSlots", "validate",
                          "loadSizes", "live"}

Init ==
  /\ path = NoFile
  /\ length = [f \in Files |-> 0]
  /\ size = [f \in Files |-> 0] /\ slotSize = [f \in Files |-> 0]
  /\ slotCount = [f \in Files |-> 0]
  /\ active = [f \in Files |-> 0]
  /\ pc = [h \in Handles |-> "closed"]
  /\ file = [h \in Handles |-> NoFile]
  /\ opts = [h \in Handles |-> NoOpts]
  /\ mapped = [h \in Handles |-> 0]
  /\ toStore = [h \in Handles |-> {}]
  /\ producer = [h \in Handles |-> FALSE]
  /\ orphans = [f \in Files |-> 0]
  /\ reused = {} /\ early = {}
  /\ kills = 0

Goto(h, from, to) == pc[h] = from /\ pc' = [pc EXCEPT ![h] = to]

\* The handle is gone: an error return, a drop, or the end of its process.
Forget(h) ==
  /\ pc' = [pc EXCEPT ![h] = "closed"]
  /\ file' = [file EXCEPT ![h] = NoFile]
  /\ opts' = [opts EXCEPT ![h] = NoOpts]
  /\ mapped' = [mapped EXCEPT ![h] = 0]
  /\ toStore' = [toStore EXCEPT ![h] = {}]
  /\ producer' = [producer EXCEPT ![h] = FALSE]

\* Files some handle is on.
InUse == {file[h] : h \in Handles} \ {NoFile}

\* A mapped page beyond the end of the file raises SIGBUS.
Present(h) == length[file[h]] >= mapped[h]

-----------------------------------------------------------------------------
(* create.                                                                  *)

\* The operands the wrong way round.
SlotsSwapped(o) == (HeaderSize - o.size) \div o.slotSize

\* A header that is counted as slots too.
SlotsOfWholeFile(o) == o.size \div o.slotSize

\* RingHeader::new: `(size - size_of::<Self>()) / slot_size`.
SlotsOf(o) == (o.size - HeaderSize) \div o.slotSize

\* OpenOptions with create and truncate: an existing file keeps its inode and
\* loses its contents.
CreateFile(h, o, f) ==
  /\ Goto(h, "closed", "setLen")
  /\ f = path \/ (path = NoFile /\ f \notin InUse)
  /\ path' = f
  /\ file' = [file EXCEPT ![h] = f]
  /\ opts' = [opts EXCEPT ![h] = o]
  /\ length' = [length EXCEPT ![f] = 0]
  /\ size' = [size EXCEPT ![f] = 0]
  /\ slotSize' = [slotSize EXCEPT ![f] = 0]
  /\ slotCount' = [slotCount EXCEPT ![f] = 0]
  /\ active' = [active EXCEPT ![f] = 0]
  /\ orphans' = [orphans EXCEPT ![f] = 0]
  /\ reused' = IF f \in InUse THEN reused \cup {f} ELSE reused \ {f}
  /\ early' = early \ {f}
  /\ UNCHANGED <<mapped, toStore, producer, kills>>

SetLen(h) ==
  /\ Goto(h, "setLen", "mapNew")
  /\ length' = [length EXCEPT ![file[h]] = opts[h].size]
  /\ UNCHANGED <<path, geometry, active, file, opts, mapped, toStore,
                 producer, orphans, marks, kills>>

\* An empty file cannot be mapped; any other is mapped as long as it is.
MapFile(h, from, to) ==
  /\ pc[h] = from
  /\ IF length[file[h]] = 0
     THEN Forget(h)
     ELSE /\ Goto(h, from, to)
          /\ mapped' = [mapped EXCEPT ![h] = length[file[h]]]
          /\ toStore' = [toStore EXCEPT ![h] = IF to = "storeHeader"
                                               THEN Parts ELSE {}]
          /\ UNCHANGED <<file, opts, producer>>
  /\ UNCHANGED <<path, contents, orphans, marks, kills>>

\* ptr::write of the header, in the order the compiler likes: magic, version and
\* size, the two fields about slots, and the counters.
StorePart(h, part) ==
  /\ pc[h] = "storeHeader" /\ part \in toStore[h] /\ Present(h)
  /\ toStore' = [toStore EXCEPT ![h] = @ \ {part}]
  /\ pc' = [pc EXCEPT ![h] = IF toStore'[h] = {} THEN "register" ELSE @]
  /\ UNCHANGED <<path, length, file, opts, mapped, producer, orphans, marks, kills>>

StoreSize(h) ==
  /\ StorePart(h, "size")
  /\ size' = [size EXCEPT ![file[h]] = opts[h].size]
  /\ UNCHANGED <<slotSize, slotCount, active>>

StoreSlots(h) ==
  /\ StorePart(h, "slots")
  /\ slotSize' = [slotSize EXCEPT ![file[h]] = opts[h].slotSize]
  /\ slotCount' = [slotCount EXCEPT ![file[h]] = SlotsOf(opts[h])]
  /\ UNCHANGED <<size, active>>

\* active_producers, and with it the two indices, goes back to 0.
StoreCounters(h) ==
  /\ StorePart(h, "counters")
  /\ active' = [active EXCEPT ![file[h]] = 0]
  /\ UNCHANGED geometry

CreateRegisters(h) ==
  /\ Goto(h, "register", "resetSlots") /\ Present(h)
  /\ active' = [active EXCEPT ![file[h]] = (@ + 1) % CountLimit]
  /\ producer' = [producer EXCEPT ![h] = TRUE]
  /\ UNCHANGED <<path, length, geometry, file, opts, mapped, toStore,
                 orphans, marks, kills>>

ResetSlots(h) ==
  /\ Goto(h, "resetSlots", "live") /\ Present(h)
  /\ UNCHANGED <<path, length, geometry, active, file, opts, mapped, toStore, producer,
                 orphans, marks, kills>>

-----------------------------------------------------------------------------
(* open.                                                                    *)

OpenFile(h) ==
  /\ Goto(h, "closed", "mapOld") /\ path # NoFile
  /\ file' = [file EXCEPT ![h] = path]
  /\ early' = IF \E g \in Handles : pc[g] \in Creating /\ file[g] = path
              THEN early \cup {path} ELSE early
  /\ UNCHANGED <<path, contents, opts, mapped, toStore, producer, orphans, reused, kills>>

\* A validate that leaves out the two fields about slots.
ValidateSize(h) ==
  /\ pc[h] = "validate" /\ Present(h)
  /\ IF size[file[h]] > HeaderSize
     THEN /\ Goto(h, "validate", "loadSizes")
          /\ UNCHANGED <<file, opts, mapped, toStore, producer>>
     ELSE Forget(h)
  /\ UNCHANGED <<path, contents, orphans, marks, kills>>

\* validate: magic and version are stored with the size.
Validate(h) ==
  /\ pc[h] = "validate" /\ Present(h)
  /\ IF /\ size[file[h]] > HeaderSize
        /\ slotSize[file[h]] > 0
        /\ slotCount[file[h]] > 0
     THEN /\ Goto(h, "validate", "loadSizes")
          /\ UNCHANGED <<file, opts, mapped, toStore, producer>>
     ELSE Forget(h)
  /\ UNCHANGED <<path, contents, orphans, marks, kills>>

\* The handle works with the sizes of the header, not with those asked for.
LoadSizes(h) ==
  /\ Goto(h, "loadSizes", "live") /\ Present(h)
  /\ opts' = [opts EXCEPT ![h] =
                [size |-> size[file[h]], slotSize |-> slotSize[file[h]]]]
  /\ UNCHANGED <<path, contents, file, mapped, toStore, producer,
                 orphans, marks, kills>>

-----------------------------------------------------------------------------
(* Use of a handle.                                                         *)

RegisterAsProducer(h) ==
  /\ pc[h] = "live" /\ ~producer[h] /\ Present(h)
  /\ active' = [active EXCEPT ![file[h]] = (@ + 1) % CountLimit]
  /\ producer' = [producer EXCEPT ![h] = TRUE]
  /\ UNCHANGED <<path, length, geometry, pc, file, opts, mapped, toStore,
                 orphans, marks, kills>>

\* fetch_sub.
CountDown(f) == active' = [active EXCEPT ![f] = (@ - 1) % CountLimit]

UnregisterAsProducer(h) ==
  /\ pc[h] = "live" /\ producer[h] /\ Present(h)
  /\ CountDown(file[h])
  /\ producer' = [producer EXCEPT ![h] = FALSE]
  /\ UNCHANGED <<path, length, geometry, pc, file, opts, mapped, toStore,
                 orphans, marks, kills>>

\* A Drop that counts down for every handle.
DropCountsAll(h) ==
  /\ pc[h] = "live"
  /\ Present(h) /\ CountDown(file[h])
  /\ Forget(h)
  /\ UNCHANGED <<path, length, geometry, orphans, marks, kills>>

\* Drop: a handle that is no producer leaves the file alone.
DropHandle(h) ==
  /\ pc[h] = "live"
  /\ IF producer[h] THEN Present(h) /\ CountDown(file[h]) ELSE UNCHANGED active
  /\ Forget(h)
  /\ UNCHANGED <<path, length, geometry, orphans, marks, kills>>

\* A killed process runs no Drop.
Kill(h) ==
  /\ pc[h] # "closed" /\ kills < MaxKills /\ kills' = kills + 1
  /\ orphans' = IF producer[h] THEN [orphans EXCEPT ![file[h]] = @ + 1] ELSE orphans
  /\ Forget(h)
  /\ UNCHANGED <<path, contents, marks>>

\* A process that touches what its file no longer has is killed by SIGBUS.
Fault(h) ==
  /\ Attached(h) /\ ~Present(h)
  /\ Forget(h)
  /\ UNCHANGED <<path, contents, orphans, marks, kills>>

\* fs::remove_file on the path.
RemovePath ==
  /\ path # NoFile /\ path' = NoFile
  /\ UNCHANGED <<contents, locals, orphans, marks, kills>>

CreateStep(h) ==
  \/ \E o \in Options, f \in Files : CreateFile(h, o, f)
  \/ SetLen(h) \/ MapFile(h, "mapNew", "storeHeader")
  \/ StoreSize(h) \/ StoreSlots(h) \/ StoreCounters(h) \/ CreateRegisters(h) \/ ResetSlots(h)

OpenStep(h) ==
  OpenFile(h) \/ MapFile(h, "mapOld", "validate") \/ Validate(h) \/ LoadSizes(h)

UseStep(h) ==
  RegisterAsProducer(h) \/ UnregisterAsProducer(h) \/ DropHandle(h)

Next ==
  \/ \E h \in Handles : CreateStep(h) \/ OpenStep(h) \/ UseStep(h) \/ Kill(h) \/ Fault(h)
  \/ RemovePath

Spec == Init /\ [][Next]_vars

-----------------------------------------------------------------------------
(* Properties.                                                              *)

\* Every variable has its type: the producer count stays in its width.
TypeOK ==
  /\ path \in Files \cup {NoFile}
  /\ length \in [Files -> Nat]
  /\ size \in [Files -> Nat] /\ slotSize \in [Files -> Nat]
  /\ slotCount \in [Files -> Nat]
  /\ active \in [Files -> 0..(CountLimit - 1)]
  /\ pc \in [Handles -> Labels]
  /\ file \in [Handles -> Files \cup {NoFile}]
  /\ \A h \in Handles : file[h] = NoFile <=> pc[h] = "closed"
  /\ opts \in [Handles -> [size : Nat, slotSize : Nat]]
  /\ mapped \in [Handles -> Nat]
  /\ toStore \in [Handles -> SUBSET Parts]
  /\ producer \in [Handles -> BOOLEAN]
  /\ orphans \in [Files -> Nat]
  /\ reused \subseteq Files /\ early \subseteq Files
  /\ kills \in 0..MaxKills

Registered(f) == {h \in Handles : producer[h] /\ file[h] = f}

\* Files whose header a create may yet store under a user, or has.
disturbed == reused \cup early

\* active_producers counts the handles that are producers, each once, whatever
\* sequence of register, unregister and drop they go through; a producer that
\* is killed stays in the count for as long as the file lives.  A create on a
\* ring in use breaks that, and so does one that stores the counters after an
\* open took its half-made ring: they forget producers that still count
\* themselves out.
CountExact ==
  \A f \in Files \ disturbed :
    active[f] = Cardinality(Registered(f)) + orphans[f]

\* The header holds the sizes of a ring with options o.
Stored(f, o) == size[f] = o.size /\ slotSize[f] = o.slotSize /\ slotCount[f] = SlotsOf(o)

\* What create and open return is a whole header: the sizes one create asked for
\* and the slot count that follows from them, in a file of that length, all of
\* it mapped.  open may look at any time: between two stores of a create at work,
\* whose handle is not returned yet, or at what a create killed between them has
\* left; validate's tests admit it when all the sizes are there, and not when
\* some are.  They say nothing of the counters and the slots, which the create may
\* not have stored.  The exception is a file that was created again in use.
LiveIsInitialised ==
  \A h \in Handles : pc[h] = "live" /\ file[h] \notin reused =>
    /\ opts[h] \in Options /\ Stored(file[h], opts[h])
    /\ length[file[h]] = opts[h].size /\ mapped[h] = opts[h].size

\* get_slot's pointer arithmetic: the last slot the header admits ends inside
\* the mapping, also for a handle that open returned from a create at work.
SlotsFit ==
  \A h \in Handles : pc[h] = "live" /\ file[h] \notin reused =>
    HeaderSize + slotCount[file[h]] * opts[h].slotSize <= mapped[h]

=============================================================================
