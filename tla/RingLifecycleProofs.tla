------------------------ MODULE RingLifecycleProofs ------------------------
(***************************************************************************)
(* Theorems about the life of a ring file, RingLifecycle.tla, for every     *)
(* number of handles, files and killed processes, and every set of sizes.   *)
(***************************************************************************)
EXTENDS RingLifecycle, FiniteSetTheorems, TLAPS

-----------------------------------------------------------------------------
(* The inductive invariant, first the header.  These parts speak of files    *)
(* that were not created again in use.                                      *)

Unset(f) == size[f] = 0 /\ slotSize[f] = 0 /\ slotCount[f] = 0

\* Each part of the header is as truncation left it, or one for options o.
PartlyStored(f, o) ==
  /\ size[f] \in {0, o.size}
  /\ \/ slotSize[f] = 0 /\ slotCount[f] = 0
     \/ slotSize[f] = o.slotSize /\ slotCount[f] = SlotsOf(o)

\* All that is stored of a header comes from one create, of a ring as long as the file.
GeometryInv ==
  \A f \in Files \ reused :
    Unset(f) \/ \E o \in Options : PartlyStored(f, o) /\ length[f] = o.size

\* There is one create at a time ...
CreatorApart ==
  \A h, g \in Handles :
    /\ h # g /\ file[h] \notin reused
    /\ pc[h] \in Creating /\ pc[g] \in Creating
    => file[h] # file[g]

\* ... and it has stored the parts it says, and no other.
Missing(h) == IF pc[h] \in {"setLen", "mapNew"} THEN Parts ELSE toStore[h]

CreatorInv ==
  \A h \in Handles : pc[h] \in Creating /\ file[h] \notin reused =>
    /\ length[file[h]] = IF pc[h] = "setLen" THEN 0 ELSE opts[h].size
    /\ size[file[h]] = IF "size" \in Missing(h) THEN 0 ELSE opts[h].size
    /\ slotSize[file[h]] = IF "slots" \in Missing(h) THEN 0 ELSE opts[h].slotSize
    /\ slotCount[file[h]] = IF "slots" \in Missing(h) THEN 0 ELSE SlotsOf(opts[h])
    /\ pc[h] \in {"storeHeader", "register", "resetSlots"} => mapped[h] = length[file[h]]

\* An open in progress, and a handle that is in use.
UserInv ==
  \A h \in Handles : file[h] \notin reused =>
    /\ pc[h] \in {"validate", "loadSizes", "live"} =>
         mapped[h] = length[file[h]] /\ length[file[h]] # 0
    /\ pc[h] = "loadSizes" =>
         \E o \in Options : Stored(file[h], o) /\ length[file[h]] = o.size
    /\ pc[h] = "live" =>
         opts[h] \in Options /\ Stored(file[h], opts[h]) /\ length[file[h]] = opts[h].size

HeaderInv == GeometryInv /\ CreatorApart /\ CreatorInv /\ UserInv

(* Then the count, on files that were not opened early either: a create has  *)
(* its file to itself, and nobody is counted there before it is.            *)
CreatorAlone ==
  \A h \in Handles : pc[h] \in Creating /\ file[h] \notin disturbed =>
    \A g \in Handles \ {h} : file[g] # file[h]

CreatorCounts ==
  \A h \in Handles : pc[h] \in Creating \ {"resetSlots"} /\ file[h] \notin disturbed =>
    active[file[h]] = 0 /\ orphans[file[h]] = 0

\* Who can be registered, the sizes of a create, and how many orphans there can be.
LocalInv ==
  /\ \A h \in Handles : /\ producer[h] => pc[h] \in {"resetSlots", "live"}
                        /\ pc[h] \in Creating => opts[h] \in Options
                        /\ pc[h] \in {"register", "resetSlots"} => toStore[h] = {}
  /\ \A f \in Files : orphans[f] <= kills

IInv == TypeOK /\ HeaderInv /\ CreatorAlone /\ CreatorCounts /\ LocalInv /\ CountExact

-----------------------------------------------------------------------------
(* Arithmetic.                                                              *)

\* fetch_add and fetch_sub away from the ends of the counter's range, and anywhere.
LEMMA Counting ==
  ASSUME NEW c \in 0..(CountLimit - 1)
  PROVE  /\ (c + 1) % CountLimit \in 0..(CountLimit - 1)
         /\ (c - 1) % CountLimit \in 0..(CountLimit - 1)
         /\ c + 1 < CountLimit => (c + 1) % CountLimit = c + 1
         /\ c > 0 => (c - 1) % CountLimit = c - 1
<1>1. CountLimit \in Nat \ {0}
  BY LayoutAssumption
<1>2. \A x \in Int : x % CountLimit \in 0..(CountLimit - 1)
  BY <1>1
<1>3. \A x \in 0..(CountLimit - 1) : x % CountLimit = x
  BY <1>1
<1>4. c + 1 < CountLimit => (c + 1) % CountLimit = c + 1
  BY <1>1, <1>3
<1>5. c > 0 => (c - 1) % CountLimit = c - 1
  BY <1>1, <1>3
<1> QED BY <1>1, <1>2, <1>4, <1>5

\* RingHeader::new rounds the number of slots down.
LEMMA SlotsRoundDown ==
  ASSUME NEW o \in Options
  PROVE  /\ SlotsOf(o) \in Nat
         /\ HeaderSize + SlotsOf(o) * o.slotSize <= o.size
<1>1. /\ HeaderSize \in Nat /\ o.size \in Nat /\ o.slotSize \in Nat /\ o.slotSize > 0
      /\ o.size - HeaderSize \in Nat
  BY LayoutAssumption
<1> DEFINE x == o.size - HeaderSize
           y == o.slotSize
<1>2. /\ x \div y \in Int
      /\ y * (x \div y) <= x /\ x < y * (x \div y) + y
  <2>1. x \in Nat /\ y \in Nat /\ y > 0
    BY <1>1
  <2> HIDE DEF x, y
  <2> QED BY <2>1
<1>3. x \div y >= 0
  BY <1>1, <1>2
<1> QED BY <1>1, <1>2, <1>3 DEF SlotsOf

-----------------------------------------------------------------------------
(* Counting the producers of a file.                                        *)

LEMMA RegisteredFinite ==
  ASSUME NEW f
  PROVE  /\ IsFiniteSet(Registered(f)) /\ Registered(f) \subseteq Handles
         /\ Cardinality(Registered(f)) \in Nat
<1>1. Registered(f) \subseteq Handles
  BY DEF Registered
<1> QED BY <1>1, WidthAssumption, FS_Subset, FS_CardinalityType

\* The count never reaches the width of the field.
LEMMA RoomForOne ==
  ASSUME TypeOK, LocalInv, NEW f \in Files, NEW h \in Handles, h \notin Registered(f)
  PROVE  /\ Cardinality(Registered(f) \cup {h}) = Cardinality(Registered(f)) + 1
         /\ Cardinality(Registered(f)) + orphans[f] + 1 < CountLimit
<1>1. Cardinality(Registered(f) \cup {h}) = Cardinality(Registered(f)) + 1
  BY RegisteredFinite, FS_AddElement
<1>2. Registered(f) \cup {h} \subseteq Handles
  BY RegisteredFinite
<1>3. Cardinality(Registered(f) \cup {h}) <= Cardinality(Handles) /\ Cardinality(Handles) \in Nat
  BY <1>2, WidthAssumption, FS_Subset, FS_CardinalityType
<1>4. orphans[f] \in Nat /\ orphans[f] <= MaxKills /\ MaxKills \in Nat
  BY LayoutAssumption DEF TypeOK, LocalInv
<1> QED BY <1>1, <1>3, <1>4, RegisteredFinite, WidthAssumption, LayoutAssumption

LEMMA OneLess ==
  ASSUME NEW f, NEW h \in Registered(f)
  PROVE  /\ Cardinality(Registered(f) \ {h}) = Cardinality(Registered(f)) - 1
         /\ Cardinality(Registered(f)) > 0
<1>1. Cardinality(Registered(f) \ {h}) = Cardinality(Registered(f)) - 1
      /\ Cardinality(Registered(f) \ {h}) \in Nat
  BY RegisteredFinite, FS_RemoveElement, FS_CardinalityType
<1> QED BY <1>1, RegisteredFinite

\* The count stays exact when nobody registers or leaves, and nothing is stored to it.
LEMMA CountKept ==
  ASSUME CountExact, UNCHANGED disturbed,
         \A f \in Files \ disturbed :
           active'[f] = active[f] /\ orphans'[f] = orphans[f] /\ Registered(f)' = Registered(f)
  PROVE  CountExact'
<1>1. ASSUME NEW f \in Files \ disturbed
      PROVE  active'[f] = Cardinality(Registered(f)') + orphans'[f]
  BY <1>1 DEF CountExact
<1> QED BY <1>1 DEF CountExact

\* A handle registers.
LEMMA CountUp ==
  ASSUME TypeOK, LocalInv, CountExact, UNCHANGED <<file, disturbed, orphans>>,
         NEW h \in Handles, file[h] \in Files, ~producer[h],
         producer' = [producer EXCEPT ![h] = TRUE],
         active' = [active EXCEPT ![file[h]] = (@ + 1) % CountLimit]
  PROVE  CountExact'
<1>1. ASSUME NEW f \in Files \ disturbed
      PROVE  active'[f] = Cardinality(Registered(f)') + orphans'[f]
  <2>1. active[f] = Cardinality(Registered(f)) + orphans[f] /\ active[f] \in 0..(CountLimit - 1)
        /\ orphans[f] \in Nat
    BY DEF CountExact, TypeOK
  <2>2. CASE f = file[h]
    <3>1. Registered(f)' = Registered(f) \cup {h} /\ h \notin Registered(f)
      BY <2>2 DEF Registered, TypeOK
    <3>2. active'[f] = (active[f] + 1) % CountLimit
      BY <2>2 DEF TypeOK
    <3>3. active[f] + 1 < CountLimit
      BY <2>1, <3>1, RoomForOne, RegisteredFinite
    <3>4. active'[f] = active[f] + 1
      BY <2>1, <3>2, <3>3, Counting
    <3> QED BY <2>1, <3>1, <3>4, RoomForOne, RegisteredFinite
  <2>3. CASE f # file[h]
    <3>1. Registered(f)' = Registered(f)
      BY <2>3 DEF Registered, TypeOK
    <3> QED BY <2>1, <2>3, <3>1 DEF TypeOK
  <2> QED BY <2>2, <2>3
<1> QED BY <1>1 DEF CountExact

\* A producer takes itself out of the count: unregister, or Drop.
LEMMA CountedOut ==
  ASSUME TypeOK, CountExact, UNCHANGED <<disturbed, orphans>>,
         NEW h \in Handles, file[h] \in Files, producer[h], CountDown(file[h]),
         \A f \in Files : Registered(f)' = Registered(f) \ {h}
  PROVE  CountExact'
<1>1. ASSUME NEW f \in Files \ disturbed
      PROVE  active'[f] = Cardinality(Registered(f)') + orphans'[f]
  <2>1. active[f] = Cardinality(Registered(f)) + orphans[f] /\ active[f] \in 0..(CountLimit - 1)
        /\ orphans[f] \in Nat
    BY DEF CountExact, TypeOK
  <2>2. CASE f = file[h]
    <3>1. h \in Registered(f)
      BY <2>2 DEF Registered
    <3>2. active'[f] = (active[f] - 1) % CountLimit
      BY <2>2 DEF TypeOK, CountDown
    <3>3. active[f] > 0
      <4>1. Cardinality(Registered(f)) > 0 /\ Cardinality(Registered(f)) \in Nat
        BY <3>1, OneLess, RegisteredFinite
      <4> QED BY <2>1, <4>1
    <3>4. active'[f] = active[f] - 1
      BY <2>1, <3>2, <3>3, Counting
    <3> QED BY <2>1, <3>1, <3>4, OneLess, RegisteredFinite
  <2>3. CASE f # file[h]
    <3>1. Registered(f) \ {h} = Registered(f)
      BY <2>3 DEF Registered
    <3>2. active'[f] = active[f]
      BY <2>3 DEF TypeOK, CountDown
    <3> QED BY <2>1, <3>1, <3>2
  <2> QED BY <2>2, <2>3
<1> QED BY <1>1 DEF CountExact

-----------------------------------------------------------------------------
(* Every action keeps the invariant.                                        *)

\* A handle is gone, and at most the counts of its own file change.
LEMMA ForgetKept ==
  ASSUME TypeOK, HeaderInv, CreatorAlone, CreatorCounts, NEW h \in Handles, Forget(h),
         UNCHANGED <<length, geometry, marks>>,
         \A f \in Files : f # file[h] => active'[f] = active[f] /\ orphans'[f] = orphans[f]
  PROVE  HeaderInv' /\ CreatorAlone' /\ CreatorCounts'
<1> USE DEF geometry, marks, HeaderInv
<1>1. /\ \A g \in Handles \ {h} :
           /\ pc'[g] = pc[g] /\ file'[g] = file[g] /\ opts'[g] = opts[g]
           /\ mapped'[g] = mapped[g] /\ toStore'[g] = toStore[g]
      /\ pc'[h] = "closed" /\ file'[h] = NoFile
  BY DEF Forget, TypeOK
<1>2. \A g \in Handles : pc[g] # "closed" => file[g] \in Files
  BY DEF TypeOK
<1>3. disturbed' = disturbed
  BY DEF disturbed
<1>4. GeometryInv'
  BY DEF GeometryInv, Unset, PartlyStored
<1>5. CreatorApart'
  BY <1>1 DEF CreatorApart, Creating
<1>6. CreatorInv'
  BY <1>1 DEF CreatorInv, Missing, Creating
<1>7. UserInv'
  BY <1>1 DEF UserInv, Stored
<1>8. CreatorAlone'
  BY <1>1, <1>2, <1>3, LayoutAssumption DEF CreatorAlone, Creating
<1>9. CreatorCounts'
  <2>1. ASSUME NEW g \in Handles \ {h}, pc[g] \in Creating \ {"resetSlots"},
               file[g] \notin disturbed
        PROVE  active'[file[g]] = 0 /\ orphans'[file[g]] = 0
    <3>1. file[h] # file[g] /\ file[g] \in Files
      BY <1>2, <2>1 DEF CreatorAlone, Creating
    <3> QED BY <2>1, <3>1 DEF CreatorCounts
  <2> QED BY <1>1, <1>3, <2>1 DEF CreatorCounts, Creating
<1> QED BY <1>4, <1>5, <1>6, <1>7, <1>8, <1>9

\* create: the file is empty again, and its creator alone on it, or it is reused.
LEMMA CreateFileKeeps ==
  ASSUME IInv, NEW h \in Handles, NEW o \in Options, NEW f \in Files, CreateFile(h, o, f)
  PROVE  IInv'
<1> USE DEF geometry, contents, locals, marks, HeaderInv
<1>1. TypeOK /\ HeaderInv /\ CreatorAlone /\ CreatorCounts /\ LocalInv /\ CountExact
  BY DEF IInv
<1>2. /\ pc[h] = "closed" /\ file[h] = NoFile /\ ~producer[h]
      /\ pc' = [pc EXCEPT ![h] = "setLen"] /\ file' = [file EXCEPT ![h] = f]
      /\ opts' = [opts EXCEPT ![h] = o] /\ UNCHANGED <<mapped, toStore, producer, kills>>
      /\ path' = f
      /\ length' = [length EXCEPT ![f] = 0] /\ size' = [size EXCEPT ![f] = 0]
      /\ slotSize' = [slotSize EXCEPT ![f] = 0] /\ slotCount' = [slotCount EXCEPT ![f] = 0]
      /\ active' = [active EXCEPT ![f] = 0] /\ orphans' = [orphans EXCEPT ![f] = 0]
      /\ reused' = IF f \in InUse THEN reused \cup {f} ELSE reused \ {f}
      /\ early' = early \ {f}
  BY <1>1 DEF CreateFile, Goto, TypeOK, LocalInv, Creating
<1>3. \A g \in Handles \ {h} : f \notin reused' => file[g] # f
  BY <1>2, LayoutAssumption DEF InUse
<1>4. o \in [size : Nat, slotSize : Nat] /\ NoFile \notin Files
  BY LayoutAssumption
<1>5. TypeOK'
  BY <1>1, <1>2, <1>4, LayoutAssumption DEF TypeOK, Labels, Creating, Opening
<1>6. \A e \in Files \ {f} : (e \notin reused' => e \notin reused)
                            /\ (e \notin disturbed' => e \notin disturbed)
  BY <1>2 DEF disturbed
<1>7. f \notin disturbed' => f \notin reused'
  BY DEF disturbed
<1>8. /\ pc'[h] = "setLen" /\ file'[h] = f /\ opts'[h] = o
      /\ \A g \in Handles \ {h} : pc'[g] = pc[g] /\ file'[g] = file[g] /\ opts'[g] = opts[g]
      /\ Unset(f)' /\ length'[f] = 0 /\ active'[f] = 0 /\ orphans'[f] = 0
      /\ \A g \in Files \ {f} :
           /\ size'[g] = size[g] /\ slotSize'[g] = slotSize[g] /\ slotCount'[g] = slotCount[g]
           /\ length'[g] = length[g] /\ active'[g] = active[g] /\ orphans'[g] = orphans[g]
      /\ \A g \in Handles : pc[g] # "closed" => file[g] \in Files
  BY <1>1, <1>2 DEF TypeOK, Unset
<1>9. GeometryInv'
  <2>1. ASSUME NEW g \in Files \ reused', g # f
        PROVE  (Unset(g) \/ \E p \in Options : PartlyStored(g, p) /\ length[g] = p.size)'
    BY <1>1, <1>6, <1>8, <2>1 DEF GeometryInv, Unset, PartlyStored
  <2> QED BY <1>8, <2>1 DEF GeometryInv
<1>10. CreatorApart'
  <2>1. ASSUME NEW g \in Handles \ {h}, pc[g] \in Creating
        PROVE  file[g] \in Files /\ (file[g] \notin reused' => file[g] # f)
    BY <1>3, <1>8, <2>1 DEF Creating
  <2>2. ASSUME NEW g \in Handles, NEW k \in Handles, g # k, file'[g] \notin reused',
               pc'[g] \in Creating, pc'[k] \in Creating
        PROVE  file'[g] # file'[k]
    <3>1. CASE g = h
      BY <1>3, <1>8, <2>2, <3>1
    <3>2. CASE k = h
      BY <1>8, <2>1, <2>2, <3>2
    <3>3. CASE g # h /\ k # h
      BY <1>1, <1>6, <1>8, <2>1, <2>2, <3>3 DEF CreatorApart
    <3> QED BY <3>1, <3>2, <3>3
  <2> QED BY <2>2 DEF CreatorApart
<1>11. CreatorInv'
  <2> SUFFICES ASSUME NEW g \in Handles, pc'[g] \in Creating, file'[g] \notin reused'
               PROVE  /\ length'[file'[g]] = IF pc'[g] = "setLen" THEN 0 ELSE opts'[g].size
                      /\ size'[file'[g]] = IF "size" \in Missing(g)' THEN 0 ELSE opts'[g].size
                      /\ slotSize'[file'[g]] =
                           IF "slots" \in Missing(g)' THEN 0 ELSE opts'[g].slotSize
                      /\ slotCount'[file'[g]] =
                           IF "slots" \in Missing(g)' THEN 0 ELSE SlotsOf(opts'[g])
                      /\ pc'[g] \in {"storeHeader", "register", "resetSlots"} =>
                           mapped'[g] = length'[file'[g]]
    BY DEF CreatorInv, SlotsOf
  <2>1. CASE g = h
    BY <1>8, <2>1 DEF Missing, Parts, Unset
  <2>2. CASE g # h
    <3>1. file[g] \in Files \ {f} /\ pc[g] \in Creating /\ file[g] \notin reused
      <4>1. pc[g] \in Creating /\ file'[g] = file[g] /\ file[g] \in Files
        BY <1>8, <2>2 DEF Creating
      <4>2. file[g] # f
        BY <1>3, <2>2, <4>1
      <4> QED BY <1>6, <4>1, <4>2
    <3>2. Missing(g)' = Missing(g)
      BY <1>2, <1>8, <2>2 DEF Missing
    <3> QED BY <1>1, <1>2, <1>8, <2>2, <3>1, <3>2 DEF CreatorInv
  <2> QED BY <2>1, <2>2
<1>12. UserInv'
  <2> SUFFICES ASSUME NEW g \in Handles, g # h, file[g] \notin reused', file[g] # f
               PROVE  /\ pc[g] \in {"validate", "loadSizes", "live"} =>
                           mapped'[g] = length'[file[g]] /\ length'[file[g]] # 0
                      /\ pc[g] = "loadSizes" =>
                           \E p \in Options : Stored(file[g], p)' /\ length'[file[g]] = p.size
                      /\ pc[g] = "live" =>
                           /\ opts[g] \in Options /\ Stored(file[g], opts[g])'
                           /\ length'[file[g]] = opts[g].size
    BY <1>3, <1>8 DEF UserInv, Stored
  <2> QED BY <1>1, <1>2, <1>6, <1>8 DEF UserInv, Stored
<1>13. CreatorAlone' /\ CreatorCounts'
  <2>1. ASSUME NEW g \in Handles, pc'[g] \in Creating, file'[g] \notin disturbed'
        PROVE  /\ \A k \in Handles \ {g} : file'[k] # file'[g]
               /\ pc'[g] # "resetSlots" => active'[file'[g]] = 0 /\ orphans'[file'[g]] = 0
    <3>1. CASE g = h
      BY <1>3, <1>7, <1>8, <2>1, <3>1
    <3>2. CASE g # h
      <4>1. pc[g] \in Creating /\ pc'[g] = pc[g] /\ file'[g] = file[g] /\ file[g] \in Files
        BY <1>8, <2>1, <3>2 DEF Creating
      <4>2. file[g] \notin reused' /\ file[g] \notin disturbed'
        BY <2>1, <4>1 DEF disturbed
      <4>3. file[g] # f
        <5>1. CASE f \in reused'
          BY <4>2, <5>1
        <5>2. CASE f \notin reused'
          BY <1>3, <3>2, <5>2
        <5> QED BY <5>1, <5>2
      <4>4. file[g] \notin disturbed
        BY <1>6, <4>1, <4>2, <4>3
      <4>5. \A k \in Handles \ {g} : file[k] # file[g]
        BY <1>1, <4>1, <4>4 DEF CreatorAlone
      <4>6. pc[g] # "resetSlots" => active[file[g]] = 0 /\ orphans[file[g]] = 0
        BY <1>1, <4>1, <4>4 DEF CreatorCounts
      <4> QED BY <1>8, <3>2, <4>1, <4>3, <4>5, <4>6
    <3> QED BY <3>1, <3>2
  <2> QED BY <2>1 DEF CreatorAlone, CreatorCounts
<1>14. LocalInv'
  BY <1>1, <1>2 DEF LocalInv, Creating, TypeOK
<1>15. CountExact'
  <2>1. ASSUME NEW g \in Files \ {f} PROVE Registered(g)' = Registered(g)
    BY <1>2, <1>8, <2>1 DEF Registered
  <2>2. f \notin disturbed' => Registered(f)' = {}
    BY <1>2, <1>3, <1>7, <1>8 DEF Registered
  <2>3. ASSUME NEW g \in Files \ disturbed'
        PROVE  active'[g] = Cardinality(Registered(g)') + orphans'[g]
    <3>1. CASE g = f
      <4>1. Registered(g)' = {}
        BY <2>2, <2>3, <3>1
      <4> QED BY <1>8, <3>1, <4>1, FS_EmptySet
    <3>2. CASE g # f
      <4>1. active[g] = Cardinality(Registered(g)) + orphans[g]
        BY <1>1, <1>6, <2>3, <3>2 DEF CountExact
      <4> QED BY <1>8, <2>1, <3>2, <4>1
    <3> QED BY <3>1, <3>2
  <2> QED BY <2>3 DEF CountExact
<1> QED BY <1>5, <1>9, <1>10, <1>11, <1>12, <1>13, <1>14, <1>15 DEF IInv

\* A step of a call that goes from one section to another and stores nothing to the
\* header: what is left to show is its own part.
LEMMA MovesKept ==
  ASSUME TypeOK, HeaderInv, CreatorAlone, CreatorCounts, CountExact, NEW h \in Handles,
         file[h] \in Files,
         UNCHANGED <<geometry, file, producer, orphans, marks>>,
         \A g \in Handles \ {h} : /\ pc'[g] = pc[g] /\ opts'[g] = opts[g]
                                  /\ mapped'[g] = mapped[g] /\ toStore'[g] = toStore[g],
         \A f \in Files : f # file[h] \/ f \notin disturbed => active'[f] = active[f],
         pc'[h] \in Creating => pc[h] \in Creating,
         pc[h] = "resetSlots" => pc'[h] \notin Creating
  PROVE  CreatorApart' /\ CreatorAlone' /\ CreatorCounts' /\ CountExact'
<1> USE DEF geometry, marks, HeaderInv
<1>1. disturbed' = disturbed
  BY DEF disturbed
<1>2. \A g \in Handles : pc'[g] \in Creating => pc[g] \in Creating /\ file[g] \in Files
  BY DEF TypeOK, Creating
<1>3. CreatorApart'
  BY <1>2 DEF CreatorApart
<1>4. CreatorAlone'
  BY <1>1, <1>2 DEF CreatorAlone
<1>5. CreatorCounts'
  BY <1>1, <1>2 DEF CreatorCounts
<1>6. CountExact'
  <2>1. \A f \in Files : Registered(f)' = Registered(f)
    BY DEF Registered
  <2> QED BY <1>1, <2>1, CountKept
<1> QED BY <1>3, <1>4, <1>5, <1>6

\* set_len: the file was empty, so no open has mapped it.
LEMMA SetLenKeeps ==
  ASSUME IInv, NEW h \in Handles, SetLen(h)
  PROVE  IInv'
<1> USE DEF geometry, contents, locals, marks, HeaderInv
<1>1. TypeOK /\ HeaderInv /\ CreatorAlone /\ CreatorCounts /\ LocalInv /\ CountExact
  BY DEF IInv
<1>2. /\ pc[h] = "setLen" /\ file[h] \in Files /\ pc' = [pc EXCEPT ![h] = "mapNew"]
      /\ length' = [length EXCEPT ![file[h]] = opts[h].size]
      /\ UNCHANGED <<path, geometry, active, file, opts, mapped, toStore,
                     producer, orphans, marks, kills>>
  BY <1>1 DEF SetLen, Goto, TypeOK
<1>3. /\ pc'[h] = "mapNew" /\ \A g \in Handles \ {h} : pc'[g] = pc[g]
      /\ length'[file[h]] = opts[h].size
      /\ \A f \in Files \ {file[h]} : length'[f] = length[f]
      /\ \A g \in Handles : pc[g] # "closed" => file[g] \in Files
  BY <1>1, <1>2 DEF TypeOK
<1>4. TypeOK'
  BY <1>1, <1>2, LayoutAssumption DEF TypeOK, Labels, Creating
<1>5. file[h] \notin reused => length[file[h]] = 0 /\ Unset(file[h])
  BY <1>1, <1>2 DEF CreatorInv, Creating, Unset, Missing, Parts
<1>6. GeometryInv'
  BY <1>1, <1>2, <1>3, <1>5 DEF GeometryInv, Unset, PartlyStored
<1>7. CreatorInv'
  <2>1. \A g \in Handles : Missing(g)' = Missing(g)
    BY <1>2, <1>3 DEF Missing
  <2>2. \A g \in Handles \ {h} : pc[g] \in Creating /\ file[g] \notin reused => file[g] # file[h]
    BY <1>1, <1>2 DEF CreatorApart, Creating
  <2> QED BY <1>1, <1>2, <1>3, <2>1, <2>2 DEF CreatorInv, Creating
<1>8. UserInv'
  <2>1. \A g \in Handles : file[g] \notin reused /\ pc[g] \in {"validate", "loadSizes", "live"}
          => file[g] # file[h]
    BY <1>1, <1>5 DEF UserInv
  <2> QED BY <1>1, <1>2, <1>3, <2>1 DEF UserInv, Stored
<1>9. CreatorApart' /\ CreatorAlone' /\ CreatorCounts' /\ CountExact'
  BY <1>1, <1>2, <1>3, MovesKept DEF Creating
<1>10. LocalInv'
  BY <1>1, <1>2, <1>3 DEF LocalInv, Creating
<1> QED BY <1>4, <1>6, <1>7, <1>8, <1>9, <1>10 DEF IInv

\* An error return from a call, or the end of a process that was no producer.
LEMMA ForgetKeeps ==
  ASSUME IInv, NEW h \in Handles, ~producer[h] \/ file[h] \in disturbed, pc[h] # "closed", Forget(h),
         UNCHANGED <<path, contents, orphans, marks, kills>>
  PROVE  IInv'
<1> USE DEF geometry, contents, marks
<1>1. TypeOK /\ HeaderInv /\ CreatorAlone /\ CreatorCounts /\ LocalInv /\ CountExact
  BY DEF IInv
<1>2. TypeOK'
  BY <1>1 DEF TypeOK, Forget, Labels, NoOpts
<1>3. HeaderInv' /\ CreatorAlone' /\ CreatorCounts'
  BY <1>1, ForgetKept
<1>4. LocalInv'
  BY <1>1 DEF LocalInv, Forget, Creating, TypeOK
<1>5. CountExact'
  <2>1. \A f \in Files \ disturbed : Registered(f)' = Registered(f)
    BY <1>1, LayoutAssumption DEF Registered, Forget, TypeOK
  <2>2. disturbed' = disturbed
    BY DEF disturbed
  <2> QED BY <1>1, <2>1, <2>2, CountKept
<1> QED BY <1>2, <1>3, <1>4, <1>5 DEF IInv

\* mmap, in create and in open.
LEMMA MapFileKeeps ==
  ASSUME IInv, NEW h \in Handles,
         MapFile(h, "mapNew", "storeHeader") \/ MapFile(h, "mapOld", "validate")
  PROVE  IInv'
<1> USE DEF geometry, contents, locals, marks, HeaderInv
<1>1. TypeOK /\ HeaderInv /\ CreatorAlone /\ CreatorCounts /\ LocalInv /\ CountExact
  BY DEF IInv
<1>2. CASE length[file[h]] = 0
  BY <1>1, <1>2, ForgetKeeps DEF MapFile, LocalInv
<1>3. CASE length[file[h]] # 0
  <2>1. /\ \/ pc[h] = "mapNew" /\ pc' = [pc EXCEPT ![h] = "storeHeader"]
              /\ toStore' = [toStore EXCEPT ![h] = Parts]
           \/ pc[h] = "mapOld" /\ pc' = [pc EXCEPT ![h] = "validate"]
              /\ toStore' = [toStore EXCEPT ![h] = {}]
        /\ mapped' = [mapped EXCEPT ![h] = length[file[h]]]
        /\ UNCHANGED <<file, opts, producer, path, contents, orphans, marks, kills>>
    BY <1>3 DEF MapFile, Goto
  <2>2. file[h] \in Files
    BY <1>1, <2>1 DEF TypeOK
  <2>3. /\ \/ pc[h] = "mapNew" /\ pc'[h] = "storeHeader" /\ toStore'[h] = Parts
           \/ pc[h] = "mapOld" /\ pc'[h] = "validate"
        /\ mapped'[h] = length[file[h]]
        /\ \A g \in Handles \ {h} : /\ pc'[g] = pc[g] /\ mapped'[g] = mapped[g]
                                    /\ toStore'[g] = toStore[g]
    BY <1>1, <2>1 DEF TypeOK
  <2>4. TypeOK'
    <3>1. toStore' \in [Handles -> SUBSET Parts]
      BY <1>1, <2>1 DEF TypeOK, Parts
    <3>2. /\ pc' \in [Handles -> Labels] /\ mapped' \in [Handles -> Nat]
          /\ \A g \in Handles : pc'[g] = "closed" <=> pc[g] = "closed"
      BY <1>1, <2>1, <2>2 DEF TypeOK, Labels, Creating, Opening
    <3> QED BY <1>1, <2>1, <3>1, <3>2 DEF TypeOK
  <2>5. GeometryInv'
    BY <1>1, <2>1 DEF GeometryInv, Unset, PartlyStored
  <2>6. CreatorInv'
    BY <1>1, <2>1, <2>3 DEF CreatorInv, Missing, Creating
  <2>7. UserInv'
    BY <1>1, <1>3, <2>1, <2>3 DEF UserInv, Stored
  <2>8. CreatorApart' /\ CreatorAlone' /\ CreatorCounts' /\ CountExact'
    BY <1>1, <2>1, <2>2, <2>3, MovesKept DEF Creating
  <2>9. LocalInv'
    BY <1>1, <2>1, <2>3 DEF LocalInv, Creating
  <2> QED BY <2>4, <2>5, <2>6, <2>7, <2>8, <2>9 DEF IInv
<1> QED BY <1>2, <1>3

\* What the stores of a header have in common.
LEMMA PartStored ==
  ASSUME IInv, NEW h \in Handles, NEW part \in Parts, StorePart(h, part)
  PROVE  /\ pc[h] = "storeHeader" /\ file[h] \in Files /\ part \in toStore[h]
         /\ pc'[h] \in {"register", "storeHeader"}
         /\ pc'[h] = "register" => toStore'[h] = {}
         /\ Missing(h)' = Missing(h) \ {part} /\ part \in Missing(h)
         /\ \A g \in Handles \ {h} : /\ pc'[g] = pc[g] /\ toStore'[g] = toStore[g]
                                     /\ Missing(g)' = Missing(g)
         /\ UNCHANGED <<path, length, file, opts, mapped, producer, orphans, marks, kills>>
         /\ pc' \in [Handles -> Labels] /\ toStore' \in [Handles -> SUBSET Parts]
         /\ \A g \in Handles : pc'[g] = "closed" <=> pc[g] = "closed"
         /\ LocalInv'
<1>1. TypeOK /\ LocalInv
  BY DEF IInv
<1>2. /\ pc[h] = "storeHeader" /\ part \in toStore[h]
      /\ toStore' = [toStore EXCEPT ![h] = @ \ {part}]
      /\ pc' = [pc EXCEPT ![h] = IF toStore'[h] = {} THEN "register" ELSE "storeHeader"]
      /\ UNCHANGED <<path, length, file, opts, mapped, producer, orphans, marks, kills>>
  BY DEF StorePart
<1>3. /\ toStore'[h] = toStore[h] \ {part} /\ file[h] \in Files
      /\ pc'[h] = IF toStore'[h] = {} THEN "register" ELSE "storeHeader"
      /\ \A g \in Handles \ {h} : pc'[g] = pc[g] /\ toStore'[g] = toStore[g]
      /\ toStore' \in [Handles -> SUBSET Parts]
  BY <1>1, <1>2 DEF TypeOK
<1>4. /\ pc' \in [Handles -> Labels]
      /\ \A g \in Handles : pc'[g] = "closed" <=> pc[g] = "closed"
  BY <1>1, <1>2, <1>3 DEF TypeOK, Labels, Creating
<1>5. /\ Missing(h)' = Missing(h) \ {part} /\ part \in Missing(h)
      /\ \A g \in Handles \ {h} : Missing(g)' = Missing(g)
  BY <1>2, <1>3 DEF Missing
<1>6. LocalInv'
  BY <1>1, <1>2, <1>3 DEF LocalInv, Creating
<1> QED BY <1>2, <1>3, <1>4, <1>5, <1>6

\* A store of sizes: nobody has taken them from this file yet.
LEMMA StoreSizesKeeps ==
  ASSUME IInv, NEW h \in Handles, StoreSize(h) \/ StoreSlots(h)
  PROVE  IInv'
<1> USE DEF geometry, contents, locals, marks, HeaderInv
<1>1. TypeOK /\ HeaderInv /\ CreatorAlone /\ CreatorCounts /\ LocalInv /\ CountExact
  BY DEF IInv
<1>2. PICK part \in {"size", "slots"} :
        /\ StorePart(h, part) /\ UNCHANGED active
        /\ size' = IF part = "size" THEN [size EXCEPT ![file[h]] = opts[h].size] ELSE size
        /\ slotSize' = IF part = "slots" THEN [slotSize EXCEPT ![file[h]] = opts[h].slotSize]
                       ELSE slotSize
        /\ slotCount' = IF part = "slots" THEN [slotCount EXCEPT ![file[h]] = SlotsOf(opts[h])]
                        ELSE slotCount
  BY DEF StoreSize, StoreSlots
<1>3. /\ pc[h] = "storeHeader" /\ file[h] \in Files /\ part \in toStore[h]
      /\ pc'[h] \in {"register", "storeHeader"}
      /\ Missing(h)' = Missing(h) \ {part} /\ part \in Missing(h)
      /\ \A g \in Handles \ {h} : /\ pc'[g] = pc[g] /\ toStore'[g] = toStore[g]
                                  /\ Missing(g)' = Missing(g)
      /\ UNCHANGED <<path, length, file, opts, mapped, producer, orphans, marks, kills>>
      /\ pc' \in [Handles -> Labels] /\ toStore' \in [Handles -> SUBSET Parts]
      /\ \A g \in Handles : pc'[g] = "closed" <=> pc[g] = "closed"
      /\ LocalInv'
  <2>1. part \in Parts /\ StorePart(h, part)
    BY <1>2 DEF Parts
  <2> QED BY <2>1, PartStored
<1>4. opts[h] \in Options /\ opts[h] \in [size : Nat, slotSize : Nat] /\ SlotsOf(opts[h]) \in Nat
  BY <1>1, <1>3, SlotsRoundDown DEF LocalInv, Creating, TypeOK
<1>5. /\ size'[file[h]] = IF part = "size" THEN opts[h].size ELSE size[file[h]]
      /\ slotSize'[file[h]] = IF part = "slots" THEN opts[h].slotSize ELSE slotSize[file[h]]
      /\ slotCount'[file[h]] = IF part = "slots" THEN SlotsOf(opts[h]) ELSE slotCount[file[h]]
      /\ \A f \in Files \ {file[h]} :
           size'[f] = size[f] /\ slotSize'[f] = slotSize[f] /\ slotCount'[f] = slotCount[f]
      /\ size' \in [Files -> Nat] /\ slotSize' \in [Files -> Nat] /\ slotCount' \in [Files -> Nat]
  BY <1>1, <1>2, <1>3, <1>4 DEF TypeOK
<1>6. TypeOK'
  BY <1>1, <1>2, <1>3, <1>5 DEF TypeOK
<1>7. file[h] \notin reused =>
        /\ length[file[h]] = opts[h].size /\ mapped[h] = length[file[h]]
        /\ size[file[h]] = IF "size" \in Missing(h) THEN 0 ELSE opts[h].size
        /\ slotSize[file[h]] = IF "slots" \in Missing(h) THEN 0 ELSE opts[h].slotSize
        /\ slotCount[file[h]] = IF "slots" \in Missing(h) THEN 0 ELSE SlotsOf(opts[h])
  BY <1>1, <1>3 DEF CreatorInv, Creating
<1>8. GeometryInv'
  <2>1. file[h] \notin reused => PartlyStored(file[h], opts[h])'
    BY <1>3, <1>5, <1>7 DEF PartlyStored, SlotsOf
  <2>2. ASSUME NEW f \in Files \ reused, f # file[h]
        PROVE  (Unset(f) \/ \E o \in Options : PartlyStored(f, o) /\ length[f] = o.size)'
    BY <1>1, <1>3, <1>5, <2>2 DEF GeometryInv, Unset, PartlyStored
  <2> QED BY <1>3, <1>4, <1>7, <2>1, <2>2 DEF GeometryInv
<1>9. CreatorInv'
  <2> SUFFICES ASSUME NEW g \in Handles, pc'[g] \in Creating, file[g] \notin reused
               PROVE  /\ length[file[g]] = IF pc'[g] = "setLen" THEN 0 ELSE opts[g].size
                      /\ size'[file[g]] = IF "size" \in Missing(g)' THEN 0 ELSE opts[g].size
                      /\ slotSize'[file[g]] =
                           IF "slots" \in Missing(g)' THEN 0 ELSE opts[g].slotSize
                      /\ slotCount'[file[g]] =
                           IF "slots" \in Missing(g)' THEN 0 ELSE SlotsOf(opts[g])
                      /\ pc'[g] \in {"storeHeader", "register", "resetSlots"} =>
                           mapped[g] = length[file[g]]
    BY <1>3 DEF CreatorInv, SlotsOf
  <2>1. CASE g = h
    BY <1>2, <1>3, <1>5, <1>7, <2>1
  <2>2. CASE g # h
    <3>1. file[g] # file[h] /\ file[g] \in Files /\ pc[g] \in Creating
      BY <1>1, <1>3, <2>2 DEF CreatorApart, Creating, TypeOK
    <3> QED BY <1>1, <1>3, <1>5, <2>2, <3>1 DEF CreatorInv
  <2> QED BY <2>1, <2>2
<1>10. UserInv'
  <2>1. ASSUME NEW o \in Options, Stored(file[h], o), file[h] \notin reused PROVE FALSE
    <3>1. o.size # 0 /\ o.slotSize # 0
      BY LayoutAssumption
    <3> QED BY <1>3, <1>7, <2>1, <3>1 DEF Stored
  <2>2. ASSUME NEW g \in Handles, file[g] \notin reused, pc[g] \in {"loadSizes", "live"}
        PROVE  file[g] # file[h] /\ file[g] \in Files
    BY <1>1, <2>1, <2>2 DEF UserInv, TypeOK
  <2> SUFFICES ASSUME NEW g \in Handles, file[g] \notin reused,
                      pc'[g] \in {"validate", "loadSizes", "live"}
               PROVE  /\ mapped[g] = length[file[g]] /\ length[file[g]] # 0
                      /\ pc'[g] = "loadSizes" =>
                           \E o \in Options : Stored(file[g], o)' /\ length[file[g]] = o.size
                      /\ pc'[g] = "live" =>
                           /\ opts[g] \in Options /\ Stored(file[g], opts[g])'
                           /\ length[file[g]] = opts[g].size
    BY <1>3 DEF UserInv, Stored, SlotsOf
  <2>3. g # h /\ pc'[g] = pc[g]
    BY <1>3
  <2> QED BY <1>1, <1>3, <1>5, <2>2, <2>3 DEF UserInv, Stored
<1>11. CreatorApart' /\ CreatorAlone' /\ CreatorCounts' /\ CountExact'
  <2>1. disturbed' = disturbed
    BY <1>3 DEF disturbed
  <2>2. \A g \in Handles : pc'[g] \in Creating <=> pc[g] \in Creating
    BY <1>3 DEF Creating
  <2>3. CreatorApart' /\ CreatorAlone'
    BY <1>1, <1>3, <2>1, <2>2 DEF CreatorApart, CreatorAlone
  <2>4. CreatorCounts'
    BY <1>1, <1>2, <1>3, <2>1, <2>2 DEF CreatorCounts
  <2>5. CountExact'
    <3>1. \A f \in Files : Registered(f)' = Registered(f)
      BY <1>3 DEF Registered
    <3> QED BY <1>1, <1>2, <1>3, <2>1, <3>1, CountKept
  <2> QED BY <2>3, <2>4, <2>5
<1> QED BY <1>3, <1>6, <1>8, <1>9, <1>10, <1>11 DEF IInv

\* The counters are stored: they are 0 already unless the file is disturbed.
LEMMA StoreCountersKeeps ==
  ASSUME IInv, NEW h \in Handles, StoreCounters(h)
  PROVE  IInv'
<1> USE DEF geometry, contents, locals, marks, HeaderInv
<1>1. TypeOK /\ HeaderInv /\ CreatorAlone /\ CreatorCounts /\ LocalInv /\ CountExact
  BY DEF IInv
<1>2. StorePart(h, "counters") /\ active' = [active EXCEPT ![file[h]] = 0] /\ UNCHANGED geometry
  BY DEF StoreCounters
<1>3. /\ pc[h] = "storeHeader" /\ file[h] \in Files
      /\ pc'[h] \in {"register", "storeHeader"}
      /\ Missing(h)' = Missing(h) \ {"counters"}
      /\ \A g \in Handles \ {h} : /\ pc'[g] = pc[g] /\ toStore'[g] = toStore[g]
                                  /\ Missing(g)' = Missing(g)
      /\ UNCHANGED <<path, length, file, opts, mapped, producer, orphans, marks, kills>>
      /\ pc' \in [Handles -> Labels] /\ toStore' \in [Handles -> SUBSET Parts]
      /\ \A g \in Handles : pc'[g] = "closed" <=> pc[g] = "closed"
      /\ LocalInv'
  <2>1. "counters" \in Parts
    BY DEF Parts
  <2> QED BY <1>2, <2>1, PartStored
<1>4. \A f \in Files : f # file[h] \/ f \notin disturbed => active'[f] = active[f]
  BY <1>1, <1>2, <1>3 DEF CreatorCounts, Creating, TypeOK
<1>5. TypeOK'
  <2>1. active' \in [Files -> 0..(CountLimit - 1)]
    BY <1>1, <1>2, <1>3, LayoutAssumption DEF TypeOK
  <2> QED BY <1>1, <1>2, <1>3, <2>1 DEF TypeOK
<1>6. GeometryInv'
  BY <1>1, <1>2, <1>3 DEF GeometryInv, Unset, PartlyStored
<1>7. CreatorInv'
  <2>1. \A g \in Handles : /\ "size" \in Missing(g)' <=> "size" \in Missing(g)
                           /\ "slots" \in Missing(g)' <=> "slots" \in Missing(g)
    BY <1>3
  <2>2. \A g \in Handles : (pc'[g] \in Creating => pc[g] \in Creating)
                         /\ (pc'[g] = "setLen" => pc[g] = "setLen")
                         /\ (pc[g] = "setLen" => pc'[g] = "setLen")
                         /\ (pc'[g] \in {"storeHeader", "register", "resetSlots"}
                               => pc[g] \in {"storeHeader", "register", "resetSlots"})
    <3>1. pc[h] = "storeHeader" /\ pc'[h] \in {"register", "storeHeader"}
          /\ \A g \in Handles \ {h} : pc'[g] = pc[g]
      BY <1>3
    <3> QED BY <3>1 DEF Creating
  <2>3. \A g \in Handles : pc[g] \in Creating /\ file[g] \notin reused =>
          /\ length[file[g]] = IF pc[g] = "setLen" THEN 0 ELSE opts[g].size
          /\ size[file[g]] = IF "size" \in Missing(g) THEN 0 ELSE opts[g].size
          /\ slotSize[file[g]] = IF "slots" \in Missing(g) THEN 0 ELSE opts[g].slotSize
          /\ slotCount[file[g]] = IF "slots" \in Missing(g) THEN 0 ELSE SlotsOf(opts[g])
          /\ pc[g] \in {"storeHeader", "register", "resetSlots"} => mapped[g] = length[file[g]]
    BY <1>1 DEF CreatorInv
  <2>4. UNCHANGED <<length, size, slotSize, slotCount, file, opts, mapped, reused>>
    BY <1>2, <1>3
  <2> SUFFICES ASSUME NEW g \in Handles, pc'[g] \in Creating, file[g] \notin reused
               PROVE  /\ length[file[g]] = IF pc'[g] = "setLen" THEN 0 ELSE opts[g].size
                      /\ size[file[g]] = IF "size" \in Missing(g)' THEN 0 ELSE opts[g].size
                      /\ slotSize[file[g]] =
                           IF "slots" \in Missing(g)' THEN 0 ELSE opts[g].slotSize
                      /\ slotCount[file[g]] =
                           IF "slots" \in Missing(g)' THEN 0 ELSE SlotsOf(opts[g])
                      /\ pc'[g] \in {"storeHeader", "register", "resetSlots"} =>
                           mapped[g] = length[file[g]]
    BY <2>4 DEF CreatorInv, SlotsOf
  <2> QED BY <2>1, <2>2, <2>3
<1>8. UserInv'
  BY <1>1, <1>2, <1>3 DEF UserInv, Stored
<1>9. CreatorApart' /\ CreatorAlone' /\ CreatorCounts' /\ CountExact'
  BY <1>1, <1>2, <1>3, <1>4, MovesKept DEF Creating
<1> QED BY <1>3, <1>5, <1>6, <1>7, <1>8, <1>9 DEF IInv

\* create registers the handle.
LEMMA CreateRegistersKeeps ==
  ASSUME IInv, NEW h \in Handles, CreateRegisters(h)
  PROVE  IInv'
<1> USE DEF geometry, contents, locals, marks, HeaderInv
<1>1. TypeOK /\ HeaderInv /\ CreatorAlone /\ CreatorCounts /\ LocalInv /\ CountExact
  BY DEF IInv
<1>2. /\ pc[h] = "register" /\ file[h] \in Files /\ ~producer[h]
      /\ pc' = [pc EXCEPT ![h] = "resetSlots"]
      /\ active' = [active EXCEPT ![file[h]] = (@ + 1) % CountLimit]
      /\ producer' = [producer EXCEPT ![h] = TRUE]
      /\ UNCHANGED <<path, length, geometry, file, opts, mapped, toStore,
                     orphans, marks, kills>>
  BY <1>1 DEF CreateRegisters, Goto, TypeOK, LocalInv
<1>3. TypeOK'
  <2>1. active' \in [Files -> 0..(CountLimit - 1)]
    BY <1>1, <1>2, Counting DEF TypeOK
  <2> QED BY <1>1, <1>2, <2>1 DEF TypeOK, Labels, Creating
<1>4. /\ pc'[h] = "resetSlots" /\ \A g \in Handles \ {h} : pc'[g] = pc[g]
      /\ \A f \in Files : f # file[h] => active'[f] = active[f]
      /\ disturbed' = disturbed
  BY <1>1, <1>2 DEF TypeOK, disturbed
<1>5. GeometryInv' /\ CreatorApart' /\ CreatorAlone'
  BY <1>1, <1>2, <1>4 DEF GeometryInv, Unset, PartlyStored, CreatorApart, CreatorAlone, Creating
<1>6. CreatorInv'
  <2>1. \A g \in Handles : Missing(g)' = Missing(g)
    BY <1>2, <1>4 DEF Missing
  <2> QED BY <1>1, <1>2, <1>4, <2>1 DEF CreatorInv, Creating
<1>7. UserInv'
  BY <1>1, <1>2, <1>4 DEF UserInv, Stored
<1>8. CreatorCounts'
  <2>1. ASSUME NEW g \in Handles \ {h}, pc[g] \in Creating, file[g] \notin disturbed
        PROVE  active'[file[g]] = active[file[g]]
    BY <1>1, <1>2, <1>4, <2>1 DEF CreatorAlone, Creating, TypeOK
  <2> QED BY <1>1, <1>2, <1>4, <2>1 DEF CreatorCounts
<1>9. LocalInv'
  BY <1>1, <1>2, <1>4 DEF LocalInv, Creating, TypeOK
<1>10. CountExact'
  BY <1>1, <1>2, <1>4, CountUp
<1> QED BY <1>3, <1>5, <1>6, <1>7, <1>8, <1>9, <1>10 DEF IInv

\* create returns.
LEMMA ResetSlotsKeeps ==
  ASSUME IInv, NEW h \in Handles, ResetSlots(h)
  PROVE  IInv'
<1> USE DEF geometry, contents, locals, marks, HeaderInv
<1>1. TypeOK /\ HeaderInv /\ CreatorAlone /\ CreatorCounts /\ LocalInv /\ CountExact
  BY DEF IInv
<1>2. /\ pc[h] = "resetSlots" /\ file[h] \in Files
      /\ pc' = [pc EXCEPT ![h] = "live"]
      /\ UNCHANGED <<path, length, geometry, active, file, opts, mapped, toStore, producer,
                     orphans, marks, kills>>
  BY <1>1 DEF ResetSlots, Goto, TypeOK
<1>3. TypeOK'
  BY <1>1, <1>2, LayoutAssumption DEF TypeOK, Labels
<1>4. /\ pc'[h] = "live" /\ \A g \in Handles \ {h} : pc'[g] = pc[g]
  BY <1>1, <1>2 DEF TypeOK
<1>5. GeometryInv' /\ LocalInv'
  BY <1>1, <1>2, <1>4 DEF GeometryInv, Unset, PartlyStored, LocalInv, Creating
<1>6. CreatorInv'
  <2>1. \A g \in Handles \ {h} : Missing(g)' = Missing(g)
    BY <1>2, <1>4 DEF Missing
  <2> QED BY <1>1, <1>2, <1>4, <2>1 DEF CreatorInv, Creating
<1>7. UserInv'
  <2>1. file[h] \notin reused =>
          /\ opts[h] \in Options /\ Stored(file[h], opts[h]) /\ length[file[h]] = opts[h].size
          /\ mapped[h] = length[file[h]] /\ length[file[h]] # 0
    <3>1. opts[h] \in Options /\ toStore[h] = {}
      BY <1>1, <1>2 DEF LocalInv, Creating
    <3>2. opts[h].size # 0 /\ Missing(h) = {}
      BY <1>2, <3>1, LayoutAssumption DEF Missing
    <3> QED BY <1>1, <1>2, <3>1, <3>2 DEF CreatorInv, Creating, Stored
  <2> QED BY <1>1, <1>2, <1>4, <2>1 DEF UserInv, Stored
<1>8. CreatorApart' /\ CreatorAlone' /\ CreatorCounts' /\ CountExact'
  BY <1>1, <1>2, <1>4, MovesKept DEF Creating
<1> QED BY <1>3, <1>5, <1>6, <1>7, <1>8 DEF IInv

\* An open finds no create at work, or the file counts as opened early.
LEMMA OpenFileKeeps ==
  ASSUME IInv, NEW h \in Handles, OpenFile(h)
  PROVE  IInv'
<1> USE DEF geometry, contents, locals, marks, HeaderInv
<1>1. TypeOK /\ HeaderInv /\ CreatorAlone /\ CreatorCounts /\ LocalInv /\ CountExact
  BY DEF IInv
<1>2. /\ pc[h] = "closed" /\ path \in Files /\ ~producer[h] /\ file[h] = NoFile
      /\ pc' = [pc EXCEPT ![h] = "mapOld"] /\ file' = [file EXCEPT ![h] = path]
      /\ early' = IF \E g \in Handles : pc[g] \in Creating /\ file[g] = path
                  THEN early \cup {path} ELSE early
      /\ UNCHANGED <<path, contents, opts, mapped, toStore, producer, orphans, reused, kills>>
  BY <1>1 DEF OpenFile, Goto, TypeOK, LocalInv
<1>3. /\ disturbed \subseteq disturbed'
      /\ \A g \in Handles : pc[g] \in Creating /\ file[g] \notin disturbed' => file[g] # path
  BY <1>2 DEF disturbed
<1>4. TypeOK'
  BY <1>1, <1>2, LayoutAssumption DEF TypeOK, Labels, Opening
<1>5. /\ pc'[h] = "mapOld" /\ file'[h] = path
      /\ \A g \in Handles \ {h} : pc'[g] = pc[g] /\ file'[g] = file[g]
      /\ \A g \in Handles : pc'[g] \in Creating => g # h
  BY <1>1, <1>2 DEF TypeOK, Creating
<1>6. GeometryInv' /\ LocalInv'
  BY <1>1, <1>2, <1>5 DEF GeometryInv, Unset, PartlyStored, LocalInv, Creating
<1>7. CreatorApart'
  BY <1>1, <1>2, <1>5 DEF CreatorApart
<1>8. CreatorInv'
  <2>1. \A g \in Handles \ {h} : Missing(g)' = Missing(g)
    BY <1>2, <1>5 DEF Missing
  <2> QED BY <1>1, <1>2, <1>5, <2>1 DEF CreatorInv
<1>9. UserInv'
  BY <1>1, <1>2, <1>5 DEF UserInv, Stored
<1>10. CreatorAlone' /\ CreatorCounts'
  BY <1>1, <1>2, <1>3, <1>5 DEF CreatorAlone, CreatorCounts
<1>11. CountExact'
  <2>1. \A f \in Files : Registered(f)' = Registered(f)
    BY <1>2, <1>5 DEF Registered
  <2>2. ASSUME NEW f \in Files \ disturbed'
        PROVE  active'[f] = Cardinality(Registered(f)') + orphans'[f]
    BY <1>1, <1>2, <1>3, <2>1 DEF CountExact
  <2> QED BY <2>2 DEF CountExact
<1> QED BY <1>4, <1>6, <1>7, <1>8, <1>9, <1>10, <1>11 DEF IInv

\* validate: a header whose sizes are all there has them from one create.
LEMMA ValidateKeeps ==
  ASSUME IInv, NEW h \in Handles, Validate(h)
  PROVE  IInv'
<1> USE DEF geometry, contents, locals, marks, HeaderInv
<1>1. TypeOK /\ HeaderInv /\ CreatorAlone /\ CreatorCounts /\ LocalInv /\ CountExact
  BY DEF IInv
<1>2. pc[h] = "validate" /\ file[h] \in Files
      /\ UNCHANGED <<path, contents, orphans, marks, kills>>
  BY <1>1 DEF Validate, TypeOK
<1>3. CASE Forget(h)
  BY <1>1, <1>2, <1>3, ForgetKeeps DEF LocalInv
<1>4. CASE /\ size[file[h]] > HeaderSize /\ slotSize[file[h]] > 0 /\ slotCount[file[h]] > 0
           /\ Goto(h, "validate", "loadSizes")
           /\ UNCHANGED <<file, opts, mapped, toStore, producer>>
  <2>1. /\ pc' = [pc EXCEPT ![h] = "loadSizes"]
        /\ pc'[h] = "loadSizes" /\ \A g \in Handles \ {h} : pc'[g] = pc[g]
    BY <1>1, <1>4 DEF Goto, TypeOK
  <2>2. size[file[h]] # 0 /\ slotSize[file[h]] # 0
    BY <1>1, <1>2, <1>4, LayoutAssumption DEF TypeOK
  <2>3. TypeOK'
    BY <1>1, <1>2, <1>4, <2>1 DEF TypeOK, Labels, Opening
  <2>4. GeometryInv' /\ LocalInv'
    BY <1>1, <1>2, <1>4, <2>1 DEF GeometryInv, Unset, PartlyStored, LocalInv, Creating
  <2>5. CreatorInv'
    <3>1. \A g \in Handles \ {h} : Missing(g)' = Missing(g)
      BY <1>4, <2>1 DEF Missing
    <3> QED BY <1>1, <1>2, <1>4, <2>1, <3>1 DEF CreatorInv, Creating
  <2>6. UserInv'
    <3>1. file[h] \notin reused =>
            \E o \in Options : Stored(file[h], o) /\ length[file[h]] = o.size
      BY <1>1, <1>2, <2>2 DEF GeometryInv, Unset, PartlyStored, Stored
    <3> QED BY <1>1, <1>2, <1>4, <2>1, <3>1 DEF UserInv, Stored
  <2>7. CreatorApart' /\ CreatorAlone' /\ CreatorCounts' /\ CountExact'
    BY <1>1, <1>2, <1>4, <2>1, MovesKept DEF Creating
  <2> QED BY <2>3, <2>4, <2>5, <2>6, <2>7 DEF IInv
<1> QED BY <1>3, <1>4 DEF Validate

\* open returns.
LEMMA LoadSizesKeeps ==
  ASSUME IInv, NEW h \in Handles, LoadSizes(h)
  PROVE  IInv'
<1> USE DEF geometry, contents, locals, marks, HeaderInv
<1>1. TypeOK /\ HeaderInv /\ CreatorAlone /\ CreatorCounts /\ LocalInv /\ CountExact
  BY DEF IInv
<1>2. /\ pc[h] = "loadSizes" /\ file[h] \in Files
      /\ pc' = [pc EXCEPT ![h] = "live"]
      /\ opts' = [opts EXCEPT ![h] =
                    [size |-> size[file[h]], slotSize |-> slotSize[file[h]]]]
      /\ UNCHANGED <<path, contents, file, mapped, toStore, producer,
                     orphans, marks, kills>>
  BY <1>1 DEF LoadSizes, Goto, TypeOK
<1>3. TypeOK'
  BY <1>1, <1>2 DEF TypeOK, Labels
<1>4. /\ pc'[h] = "live" /\ opts'[h] = [size |-> size[file[h]], slotSize |-> slotSize[file[h]]]
      /\ \A g \in Handles \ {h} : pc'[g] = pc[g] /\ opts'[g] = opts[g]
  BY <1>1, <1>2 DEF TypeOK
<1>5. GeometryInv' /\ LocalInv'
  BY <1>1, <1>2, <1>4 DEF GeometryInv, Unset, PartlyStored, LocalInv, Creating
<1>6. CreatorInv'
  <2>1. \A g \in Handles \ {h} : Missing(g)' = Missing(g)
    BY <1>2, <1>4 DEF Missing
  <2> QED BY <1>1, <1>2, <1>4, <2>1 DEF CreatorInv, Creating
<1>7. UserInv'
  <2>1. ASSUME file[h] \notin reused
        PROVE  /\ opts'[h] \in Options /\ Stored(file[h], opts'[h])
               /\ length[file[h]] = opts'[h].size
    <3>1. PICK o \in Options : Stored(file[h], o) /\ length[file[h]] = o.size
      BY <1>1, <1>2, <2>1 DEF UserInv
    <3>2. o \in [size : Nat, slotSize : Nat]
      BY LayoutAssumption
    <3>3. opts'[h] = o
      BY <1>4, <3>1, <3>2 DEF Stored
    <3> QED BY <3>1, <3>3
  <2> QED BY <1>1, <1>2, <1>4, <2>1 DEF UserInv, Stored
<1>8. CreatorApart' /\ CreatorAlone' /\ CreatorCounts' /\ CountExact'
  BY <1>1, <1>2, <1>4, MovesKept DEF Creating
<1> QED BY <1>3, <1>5, <1>6, <1>7, <1>8 DEF IInv

\* A handle in use that stays where it is: only the count and who is a producer
\* may change.
LEMMA UseKept ==
  ASSUME TypeOK, HeaderInv, CreatorAlone, CreatorCounts,
         NEW h \in Handles, pc[h] = "live", file[h] \in Files,
         UNCHANGED <<length, geometry, pc, file, opts, mapped, toStore, orphans, marks>>,
         \A f \in Files : f # file[h] => active'[f] = active[f]
  PROVE  HeaderInv' /\ CreatorAlone' /\ CreatorCounts'
<1> USE DEF geometry, marks, HeaderInv
<1>1. GeometryInv' /\ CreatorApart' /\ UserInv'
  BY DEF GeometryInv, Unset, PartlyStored, Stored, CreatorApart, UserInv
<1>2. CreatorInv'
  BY DEF CreatorInv, Missing
<1>3. disturbed' = disturbed
  BY DEF disturbed
<1>4. CreatorAlone'
  BY <1>3 DEF CreatorAlone
<1>5. CreatorCounts'
  <2>1. ASSUME NEW g \in Handles, pc[g] \in Creating, file[g] \notin disturbed
        PROVE  active'[file[g]] = active[file[g]]
    BY <2>1 DEF CreatorAlone, Creating, TypeOK
  <2> QED BY <1>3, <2>1 DEF CreatorCounts
<1> QED BY <1>1, <1>2, <1>4, <1>5

LEMMA RegisterKeeps ==
  ASSUME IInv, NEW h \in Handles, RegisterAsProducer(h)
  PROVE  IInv'
<1> USE DEF geometry, contents, locals, marks
<1>1. TypeOK /\ HeaderInv /\ CreatorAlone /\ CreatorCounts /\ LocalInv /\ CountExact
  BY DEF IInv
<1>2. /\ pc[h] = "live" /\ file[h] \in Files /\ ~producer[h]
      /\ active' = [active EXCEPT ![file[h]] = (@ + 1) % CountLimit]
      /\ producer' = [producer EXCEPT ![h] = TRUE]
      /\ UNCHANGED <<path, length, geometry, pc, file, opts, mapped, toStore,
                     orphans, marks, kills>>
  BY <1>1 DEF RegisterAsProducer, TypeOK
<1>3. TypeOK'
  <2>1. active' \in [Files -> 0..(CountLimit - 1)]
    BY <1>1, <1>2, Counting DEF TypeOK
  <2> QED BY <1>1, <1>2, <2>1 DEF TypeOK
<1>4. \A f \in Files : f # file[h] => active'[f] = active[f]
  BY <1>1, <1>2 DEF TypeOK
<1>5. HeaderInv' /\ CreatorAlone' /\ CreatorCounts'
  BY <1>1, <1>2, <1>4, UseKept
<1>6. LocalInv'
  BY <1>1, <1>2 DEF LocalInv, TypeOK
<1>7. CountExact'
  <2>1. disturbed' = disturbed
    BY <1>2 DEF disturbed
  <2> QED BY <1>1, <1>2, <2>1, CountUp
<1> QED BY <1>3, <1>5, <1>6, <1>7 DEF IInv

LEMMA UnregisterKeeps ==
  ASSUME IInv, NEW h \in Handles, UnregisterAsProducer(h)
  PROVE  IInv'
<1> USE DEF geometry, contents, locals, marks
<1>1. TypeOK /\ HeaderInv /\ CreatorAlone /\ CreatorCounts /\ LocalInv /\ CountExact
  BY DEF IInv
<1>2. /\ pc[h] = "live" /\ file[h] \in Files /\ producer[h] /\ CountDown(file[h])
      /\ producer' = [producer EXCEPT ![h] = FALSE]
      /\ UNCHANGED <<path, length, geometry, pc, file, opts, mapped, toStore,
                     orphans, marks, kills>>
  BY <1>1 DEF UnregisterAsProducer, TypeOK
<1>3. TypeOK'
  <2>1. active' \in [Files -> 0..(CountLimit - 1)]
    BY <1>1, <1>2, Counting DEF TypeOK, CountDown
  <2> QED BY <1>1, <1>2, <2>1 DEF TypeOK
<1>4. \A f \in Files : f # file[h] => active'[f] = active[f]
  BY <1>1, <1>2 DEF TypeOK, CountDown
<1>5. HeaderInv' /\ CreatorAlone' /\ CreatorCounts'
  BY <1>1, <1>2, <1>4, UseKept
<1>6. LocalInv'
  BY <1>1, <1>2 DEF LocalInv, TypeOK
<1>7. CountExact'
  <2>1. \A f \in Files : Registered(f)' = Registered(f) \ {h}
    BY <1>1, <1>2 DEF Registered, TypeOK
  <2>2. disturbed' = disturbed
    BY <1>2 DEF disturbed
  <2> QED BY <1>1, <1>2, <2>1, <2>2, CountedOut
<1> QED BY <1>3, <1>5, <1>6, <1>7 DEF IInv

LEMMA DropKeeps ==
  ASSUME IInv, NEW h \in Handles, DropHandle(h)
  PROVE  IInv'
<1> USE DEF geometry, contents, locals, marks
<1>1. TypeOK /\ HeaderInv /\ CreatorAlone /\ CreatorCounts /\ LocalInv /\ CountExact
  BY DEF IInv
<1>2. CASE ~producer[h]
  <2>1. pc[h] # "closed" /\ Forget(h) /\ UNCHANGED <<path, contents, orphans, marks, kills>>
    BY <1>2 DEF DropHandle
  <2> QED BY <1>2, <2>1, ForgetKeeps
<1>3. CASE producer[h]
  <2>1. /\ pc[h] = "live" /\ file[h] \in Files /\ CountDown(file[h]) /\ Forget(h)
        /\ UNCHANGED <<path, length, geometry, orphans, marks, kills>>
    BY <1>1, <1>3 DEF DropHandle, TypeOK
  <2>2. TypeOK'
    <3>1. active' \in [Files -> 0..(CountLimit - 1)]
      BY <1>1, <2>1, Counting DEF TypeOK, CountDown
    <3> QED BY <1>1, <2>1, <3>1 DEF TypeOK, Forget, Labels, NoOpts
  <2>3. \A f \in Files : f # file[h] => active'[f] = active[f] /\ orphans'[f] = orphans[f]
    BY <1>1, <2>1 DEF TypeOK, CountDown
  <2>4. HeaderInv' /\ CreatorAlone' /\ CreatorCounts'
    BY <1>1, <2>1, <2>3, ForgetKept
  <2>5. LocalInv'
    BY <1>1, <2>1 DEF LocalInv, Forget, Creating, TypeOK
  <2>6. CountExact'
    <3>1. \A f \in Files : Registered(f)' = Registered(f) \ {h}
      BY <1>1, <2>1, LayoutAssumption DEF Registered, Forget, TypeOK
    <3>2. disturbed' = disturbed
      BY <2>1 DEF disturbed
    <3> QED BY <1>1, <1>3, <2>1, <3>1, <3>2, CountedOut
  <2> QED BY <2>2, <2>4, <2>5, <2>6 DEF IInv
<1> QED BY <1>2, <1>3

\* A killed producer becomes an orphan: the sum stays.
LEMMA KillKeeps ==
  ASSUME IInv, NEW h \in Handles, Kill(h)
  PROVE  IInv'
<1> USE DEF geometry, contents, locals, marks
<1>1. TypeOK /\ HeaderInv /\ CreatorAlone /\ CreatorCounts /\ LocalInv /\ CountExact
  BY DEF IInv
<1>2. /\ pc[h] # "closed" /\ file[h] \in Files /\ Forget(h)
      /\ kills < MaxKills /\ kills' = kills + 1
      /\ orphans' = IF producer[h] THEN [orphans EXCEPT ![file[h]] = @ + 1] ELSE orphans
      /\ UNCHANGED <<path, contents, marks>>
  BY <1>1 DEF Kill, TypeOK
<1>3. TypeOK'
  <2>1. orphans' \in [Files -> Nat] /\ kills' \in 0..MaxKills
    BY <1>1, <1>2, LayoutAssumption DEF TypeOK
  <2> QED BY <1>1, <1>2, <2>1 DEF TypeOK, Forget, Labels, NoOpts
<1>4. \A f \in Files : f # file[h] => active'[f] = active[f] /\ orphans'[f] = orphans[f]
  BY <1>1, <1>2 DEF TypeOK
<1>5. HeaderInv' /\ CreatorAlone' /\ CreatorCounts'
  BY <1>1, <1>2, <1>4, ForgetKept
<1>6. LocalInv'
  <2>1. \A f \in Files : orphans'[f] <= kills'
    BY <1>1, <1>2 DEF LocalInv, TypeOK
  <2> QED BY <1>1, <1>2, <2>1 DEF LocalInv, Forget, Creating, TypeOK
<1>7. CountExact'
  <2>1. \A f \in Files : Registered(f)' = Registered(f) \ {h}
    BY <1>1, <1>2, LayoutAssumption DEF Registered, Forget, TypeOK
  <2>2. ASSUME NEW f \in Files \ disturbed
        PROVE  active'[f] = Cardinality(Registered(f)') + orphans'[f]
    <3>1. /\ active[f] = Cardinality(Registered(f)) + orphans[f] /\ orphans[f] \in Nat
          /\ active' = active
      BY <1>1, <1>2 DEF CountExact, TypeOK
    <3>2. CASE h \in Registered(f)
      <4>1. orphans'[f] = orphans[f] + 1
        BY <1>1, <1>2, <3>2 DEF Registered, TypeOK
      <4> QED BY <2>1, <3>1, <3>2, <4>1, OneLess, RegisteredFinite
    <3>3. CASE h \notin Registered(f)
      <4>1. orphans'[f] = orphans[f]
        BY <1>1, <1>2, <1>4, <3>3 DEF Registered, TypeOK
      <4>2. Registered(f) \ {h} = Registered(f)
        BY <3>3
      <4> QED BY <2>1, <3>1, <4>1, <4>2
    <3> QED BY <3>2, <3>3
  <2>3. disturbed' = disturbed
    BY <1>2 DEF disturbed
  <2> QED BY <2>2, <2>3 DEF CountExact
<1> QED BY <1>3, <1>5, <1>6, <1>7 DEF IInv

\* No page goes missing under a file that was not created again in use.
LEMMA FaultKeeps ==
  ASSUME IInv, NEW h \in Handles, Fault(h)
  PROVE  IInv'
<1>1. TypeOK /\ CreatorInv /\ UserInv
  BY DEF IInv, HeaderInv
<1>2. pc[h] # "closed" /\ Forget(h) /\ UNCHANGED <<path, contents, orphans, marks, kills>>
  BY DEF Fault, Attached
<1>3. file[h] \in disturbed
  BY <1>1 DEF Fault, Attached, Present, CreatorInv, UserInv, Creating, TypeOK, disturbed
<1> QED BY <1>2, <1>3, ForgetKeeps

LEMMA RemovePathKeeps ==
  ASSUME IInv, RemovePath
  PROVE  IInv'
<1> USE DEF geometry, contents, locals, marks
<1>1. TypeOK /\ HeaderInv /\ CreatorAlone /\ CreatorCounts /\ LocalInv /\ CountExact
  BY DEF IInv
<1>2. path' = NoFile /\ UNCHANGED <<contents, locals, orphans, marks, kills>>
  BY DEF RemovePath
<1>3. disturbed' = disturbed
  BY <1>2 DEF disturbed
<1>4. TypeOK' /\ LocalInv' /\ CreatorAlone' /\ CreatorCounts'
  BY <1>1, <1>2, <1>3 DEF TypeOK, LocalInv, CreatorAlone, CreatorCounts
<1>5. HeaderInv'
  BY <1>1, <1>2 DEF HeaderInv, GeometryInv, Unset, PartlyStored, Stored, CreatorApart, CreatorInv,
     Missing, UserInv
<1>6. CountExact'
  <2>1. \A f \in Files : Registered(f)' = Registered(f)
    BY <1>2 DEF Registered
  <2> QED BY <1>1, <1>2, <1>3, <2>1, CountKept
<1> QED BY <1>4, <1>5, <1>6 DEF IInv

LEMMA InitEstablishes == Init => IInv
<1> SUFFICES ASSUME Init PROVE IInv
  OBVIOUS
<1>1. TypeOK
  BY LayoutAssumption DEF Init, TypeOK, Labels, NoOpts
<1>2. HeaderInv
  BY DEF Init, HeaderInv, GeometryInv, Unset, CreatorApart, CreatorInv, UserInv, Creating
<1>3. CreatorAlone /\ CreatorCounts /\ LocalInv
  BY DEF Init, CreatorAlone, CreatorCounts, LocalInv, Creating
<1>4. CountExact
  <2>1. ASSUME NEW f \in Files PROVE Registered(f) = {}
    BY DEF Init, Registered
  <2>2. ASSUME NEW f \in Files \ disturbed
        PROVE  active[f] = Cardinality(Registered(f)) + orphans[f]
    BY <2>1, FS_EmptySet DEF Init
  <2> QED BY <2>2 DEF CountExact
<1> QED BY <1>1, <1>2, <1>3, <1>4 DEF IInv

LEMMA StepPreserves == IInv /\ [Next]_vars => IInv'
<1> SUFFICES ASSUME IInv, [Next]_vars PROVE IInv'
  OBVIOUS
<1>1. ASSUME NEW h \in Handles, CreateStep(h) PROVE IInv'
  BY <1>1, CreateFileKeeps, SetLenKeeps, MapFileKeeps, StoreSizesKeeps, StoreCountersKeeps,
     CreateRegistersKeeps, ResetSlotsKeeps DEF CreateStep
<1>2. ASSUME NEW h \in Handles, OpenStep(h) PROVE IInv'
  BY <1>2, OpenFileKeeps, MapFileKeeps, ValidateKeeps, LoadSizesKeeps DEF OpenStep
<1>3. ASSUME NEW h \in Handles, UseStep(h) PROVE IInv'
  BY <1>3, RegisterKeeps, UnregisterKeeps, DropKeeps DEF UseStep
<1>4. ASSUME UNCHANGED vars PROVE IInv'
  <2> USE DEF vars, contents, geometry, locals, marks
  <2>1. disturbed' = disturbed
    BY <1>4 DEF disturbed
  <2>2. TypeOK' /\ LocalInv' /\ CreatorAlone' /\ CreatorCounts'
    BY <1>4, <2>1 DEF IInv, TypeOK, LocalInv, CreatorAlone, CreatorCounts
  <2>3. HeaderInv'
    BY <1>4 DEF IInv, HeaderInv, GeometryInv, Unset, PartlyStored, Stored, CreatorApart,
       CreatorInv, Missing, UserInv
  <2>4. CountExact'
    <3>1. \A f \in Files : Registered(f)' = Registered(f)
      BY <1>4 DEF Registered
    <3> QED BY <1>4, <2>1, <3>1, CountKept DEF IInv
  <2> QED BY <2>2, <2>3, <2>4 DEF IInv
<1> QED BY <1>1, <1>2, <1>3, <1>4, KillKeeps, FaultKeeps, RemovePathKeeps DEF Next

LEMMA Invariant == Spec => []IInv
<1> QED BY InitEstablishes, StepPreserves, PTL DEF Spec

-----------------------------------------------------------------------------
(* The theorems.                                                            *)

\* Every variable has its type in every reachable state: active_producers stays
\* in its width, whatever is registered, dropped, killed and created again.
THEOREM LifeTypeCorrect == Spec => []TypeOK
<1>1. IInv => TypeOK
  BY DEF IInv
<1> QED BY <1>1, Invariant, PTL

\* register_as_producer, unregister_as_producer and Drop keep active_producers
\* equal to the number of producers, for any number of processes.
THEOREM ProducersAreCounted == Spec => []CountExact
<1>1. IInv => CountExact
  BY DEF IInv
<1> QED BY <1>1, Invariant, PTL

\* What create and open return has a whole header, of one create, and all of its file
\* mapped, although open may come between the stores of a create, or after a create that
\* was killed between them.
THEOREM ReturnedIsInitialised == Spec => []LiveIsInitialised
<1>1. IInv => LiveIsInitialised
  BY DEF IInv, HeaderInv, UserInv, LiveIsInitialised
<1> QED BY <1>1, Invariant, PTL

\* get_slot stays inside the mapping, for every size and slot size.
THEOREM SlotsStayMapped == Spec => []SlotsFit
<1>1. IInv => SlotsFit
  <2> SUFFICES ASSUME IInv, NEW h \in Handles, pc[h] = "live", file[h] \notin reused
               PROVE  HeaderSize + slotCount[file[h]] * opts[h].slotSize <= mapped[h]
    BY DEF SlotsFit
  <2>1. /\ opts[h] \in Options /\ slotCount[file[h]] = SlotsOf(opts[h])
        /\ mapped[h] = opts[h].size
    BY DEF IInv, HeaderInv, UserInv, Stored
  <2> QED BY <2>1, SlotsRoundDown
<1> QED BY <1>1, Invariant, PTL

=============================================================================
