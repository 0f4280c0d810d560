--------------------------- MODULE RingFifoProofs ---------------------------
(***************************************************************************)
(* The ring of callers that keep reads and writes apart and keep fewer       *)
(* messages unread than there are slots: it is the first-in first-out queue  *)
(* of FifoContract.tla, for every number of producers, slots and messages.  *)
(***************************************************************************)
EXTENDS RingBufferProofs, SequenceTheorems

-----------------------------------------------------------------------------
(* The invariant.                                                           *)

\* The discipline of the callers, and no call is killed.
JoinedCallers == Joined /\ MaxCrashes = 0 /\ MaxUnread < SlotCount

\* From slot c round the ring to slot s.
Distance(c, s) == IF s >= c THEN s - c ELSE s - c + SlotCount

\* Positions the consumer index has moved past.  A claimed message waits from its
\* compare-and-swap until then, and the slot of the next one to take is 0 ahead.
Taken    == Len(delivered) + (IF cpc \in ReadingSection THEN 1 ELSE 0)
Waiting  == Len(claimed) - Taken
Ahead(s) == Distance(consumerIdx, s)
Turn(s)  == claimed[Taken + Ahead(s) + 1]

\* A read has the ring to itself, and knows whether anything waits.
ReadsAlone ==
  /\ cpc # "idle" => \A p \in Producers : pc[p] = "idle"
  /\ cpc # "idle" <=> lastRead = "running"
  /\ cpc \notin ResettingSection /\ lastRead # "skipped"
  /\ cpc = "loadC" => cidx = producerIdx
  /\ cpc = "take" => Waiting > 0

\* A message has one position, and no write that began is refused.
ClaimsOnce ==
  /\ Waiting >= 0
  /\ \A k \in 1..Len(claimed) :
       claimed[k] <= written /\ outcome[claimed[k]] \in {"pending", "ok"}
  /\ \A k, l \in 1..Len(claimed) : claimed[k] = claimed[l] => k = l
  /\ \A m \in Messages : /\ outcome[m] \notin {"full", "killed"}
                         /\ m > written => outcome[m] = "uncalled"

UnreadBounded == Unread <= MaxUnread

\* The producer index is as far ahead as messages wait.
IndicesApart == Ahead(producerIdx) = Waiting

\* A write call is in the slot of its own position, which is free for it.
WritersInTurn ==
  \A p \in Producers : pc[p] # "idle" =>
    /\ msg[p] <= written /\ outcome[msg[p]] = "pending"
    /\ \A q \in Producers \ {p} : pc[q] # "idle" => msg[q] # msg[p]
    /\ pc[p] \in HoldingSection => Ahead(idx[p]) < Waiting /\ Turn(idx[p]) = msg[p]
    /\ pc[p] \notin HoldingSection => \A k \in 1..Len(claimed) : claimed[k] # msg[p]
    /\ pc[p] = "chkEmpty" => status[idx[p]] \in {"Empty", "Complete"}
    /\ pc[p] = "chkComplete" => status[idx[p]] = "Complete"

\* The slots from the consumer index on hold the messages that wait, in order, or
\* have their writers in them.  The other slots are free.
SlotsInTurn ==
  \A s \in Slots :
    /\ Ahead(s) < Waiting =>
         \/ status[s] = "Ready" /\ slot[s] = Whole(Turn(s))
         \/ \E p \in Producers : pc[p] \in HoldingSection /\ idx[p] = s
    /\ Ahead(s) >= Waiting =>
         status[s] \in {"Empty", "Complete"} \/ (cpc \in ReadingSection /\ s = cidx)

\* A read has the message whose turn it is, in its slot and then in its hands.
ReadInTurn ==
  cpc \in ReadingSection =>
    /\ Ahead(cidx) = SlotCount - 1
    /\ cpc = "chkReady" => status[cidx] = "Ready"
    /\ cpc # "count" => slot[cidx] = Whole(claimed[Taken])
    /\ cpc = "count" => got = Whole(claimed[Taken]) /\ status[cidx] = "Complete"

DeliveredInTurn == \A i \in 1..Len(delivered) : delivered[i] = Whole(claimed[i])

JoinedInv ==
  /\ ~conflicted /\ ReadsAlone /\ ClaimsOnce /\ UnreadBounded /\ IndicesApart
  /\ WritersInTurn /\ SlotsInTurn /\ ReadInTurn /\ DeliveredInTurn

-----------------------------------------------------------------------------
(* Distances round the ring, and how many messages wait.                    *)

LEMMA Distances ==
  ASSUME NEW c \in Slots, NEW s \in Slots
  PROVE  /\ Distance(c, s) \in 0..(SlotCount - 1)
         /\ Distance(c, s) = 0 <=> s = c
         /\ \A r \in Slots : Distance(c, r) = Distance(c, s) => r = s
         /\ s # c => Distance(NextIdx(c), s) = Distance(c, s) - 1
         /\ Distance(NextIdx(c), c) = SlotCount - 1
         /\ Distance(c, s) + 1 < SlotCount => Distance(c, NextIdx(s)) = Distance(c, s) + 1
<1>1. SlotCount \in Nat \ {0} /\ Slots = 0..(SlotCount - 1)
  BY SlotCountAssumption DEF Slots
<1>2. /\ NextIdx(c) = IF c + 1 = SlotCount THEN 0 ELSE c + 1
      /\ NextIdx(s) = IF s + 1 = SlotCount THEN 0 ELSE s + 1
  BY NextIdxCases
<1> QED BY <1>1, <1>2 DEF Distance

\* Every message claimed and not read counts as unread: fewer wait than there are slots.
LEMMA FewWait ==
  ASSUME JoinedCallers, TypeOK, ClaimsOnce, UnreadBounded
  PROVE  /\ Len(claimed) \in Nat /\ Len(delivered) \in Nat /\ Taken \in Nat
         /\ Len(claimed) - Len(delivered) <= MaxUnread
         /\ Waiting \in Nat /\ Waiting < SlotCount
         /\ cpc \in ReadingSection => Waiting + 1 < SlotCount
<1>1. /\ Len(claimed) \in Nat /\ Len(delivered) \in Nat /\ claimed \in Seq(Messages)
      /\ MaxUnread \in Nat /\ SlotCount \in Nat /\ MaxUnread < SlotCount
  BY SlotCountAssumption, BoundsAssumption DEF TypeOK, JoinedCallers
<1> DEFINE S == {m \in Messages : outcome[m] \in {"pending", "ok"}}
           f == [k \in 1..Len(claimed) |-> claimed[k]]
<1>2. IsFiniteSet(S) /\ Cardinality(S) \in Nat
  BY MessagesFinite
<1>3. f \in Injection(1..Len(claimed), S)
  <2>1. \A k \in 1..Len(claimed) : claimed[k] \in S
    BY <1>1 DEF ClaimsOnce
  <2>2. f \in [1..Len(claimed) -> S] /\ IsInjective(f)
    BY <2>1 DEF IsInjective, ClaimsOnce
  <2> QED BY <2>2 DEF Injection
<1>4. Cardinality(1..Len(claimed)) <= Cardinality(S)
  <2> HIDE DEF S, f
  <2> QED BY <1>2, <1>3, FS_Injection
<1>5. Cardinality(1..Len(claimed)) = Len(claimed)
  <2>1. PICK n \in Nat : n = Len(claimed)
    BY <1>1
  <2>2. Cardinality(1..n) = IF 1 > n THEN 0 ELSE n - 1 + 1
    BY FS_Interval
  <2> QED BY <2>1, <2>2
<1>6. Cardinality(S) - Len(delivered) <= MaxUnread
  BY DEF UnreadBounded, Unread
<1>7. Len(claimed) - Len(delivered) <= MaxUnread
  <2> HIDE DEF S
  <2> QED BY <1>1, <1>2, <1>4, <1>5, <1>6
<1> QED BY <1>1, <1>7 DEF Waiting, Taken, ClaimsOnce

\* One more message that is pending or accepted, or one that changes from the one
\* to the other.
LEMMA UnreadGrows ==
  ASSUME TypeOK, NEW m \in Messages, NEW v \in Outcomes, outcome' = [outcome EXCEPT ![m] = v],
         UNCHANGED delivered, Unread \in Int
  PROVE  /\ v = "pending" /\ outcome[m] = "uncalled" => Unread' = Unread + 1
         /\ v = "ok" /\ outcome[m] = "pending" => Unread' = Unread
         /\ v = "too_large" /\ outcome[m] = "uncalled" => Unread' = Unread
<1> DEFINE S == {n \in Messages : outcome[n] \in {"pending", "ok"}}
<1>1. S' = IF v \in {"pending", "ok"} THEN S \cup {m} ELSE S \ {m}
  BY DEF TypeOK
<1>2. m \in S <=> outcome[m] \in {"pending", "ok"}
  OBVIOUS
<1>3. IsFiniteSet(S) /\ Cardinality(S) \in Nat
  BY MessagesFinite
<1>4. Unread = Cardinality(S) - Len(delivered) /\ Unread' = Cardinality(S') - Len(delivered)
      /\ Len(delivered) \in Nat
  BY DEF Unread, TypeOK
<1>5. Cardinality(S \cup {m}) = IF m \in S THEN Cardinality(S) ELSE Cardinality(S) + 1
  <2> HIDE DEF S
  <2> QED BY <1>3, FS_AddElement
<1>6. m \notin S => S \ {m} = S
  OBVIOUS
<1>7. /\ v \in {"pending", "ok"} => Cardinality(S') = Cardinality(S \cup {m})
      /\ v \notin {"pending", "ok"} /\ m \notin S => Cardinality(S') = Cardinality(S)
  <2> HIDE DEF S
  <2> QED BY <1>1, <1>6
<1>8. /\ v = "pending" /\ outcome[m] = "uncalled" => Cardinality(S') = Cardinality(S) + 1
      /\ v = "ok" /\ outcome[m] = "pending" => Cardinality(S') = Cardinality(S)
      /\ v = "too_large" /\ outcome[m] = "uncalled" => Cardinality(S') = Cardinality(S)
  <2> HIDE DEF S
  <2> QED BY <1>2, <1>5, <1>7
<1> HIDE DEF S
<1> QED BY <1>3, <1>4, <1>8

\* The same of the next state.
LEMMA FewWaitNext ==
  (JoinedCallers /\ TypeOK /\ ClaimsOnce /\ UnreadBounded => Waiting \in Nat /\ Waiting < SlotCount)'
<1>1. JoinedCallers /\ TypeOK /\ ClaimsOnce /\ UnreadBounded => Waiting \in Nat /\ Waiting < SlotCount
  BY FewWait
<1> QED BY <1>1, PTL

\* Calls that are in the ring in turn do not meet.
LEMMA InTurnIsApart ==
  ASSUME WritersInTurn', ReadsAlone', RecordConflict, ~conflicted
  PROVE  ~conflicted'
<1> SUFFICES ASSUME Conflict' PROVE FALSE
  BY DEF RecordConflict
<1>1. PICK p \in Producers :
        /\ pc'[p] \in WritingSection
        /\ \/ \E q \in Producers \ {p} : pc'[q] \in WritingSection /\ idx'[q] = idx'[p]
           \/ cpc' \in ResettingSection
  BY DEF Conflict
<1>2. cpc' \notin ResettingSection
  BY DEF ReadsAlone
<1>3. PICK q \in Producers \ {p} : pc'[q] \in WritingSection /\ idx'[q] = idx'[p]
  BY <1>1, <1>2
<1>4. \A r \in {p, q} : pc'[r] \in HoldingSection /\ pc'[r] # "idle"
  BY <1>1, <1>3 DEF HoldingSection, WritingSection
<1>5. msg'[p] = claimed'[Taken' + Distance(consumerIdx', idx'[p]) + 1]
      /\ msg'[q] = claimed'[Taken' + Distance(consumerIdx', idx'[q]) + 1]
  BY <1>4 DEF WritersInTurn, Turn, Ahead
<1> QED BY <1>3, <1>4, <1>5 DEF WritersInTurn

\* A write call that goes on, in its own slot or before it has one.
LEMMA WriterMoves ==
  ASSUME JoinedCallers, TypeOK, JoinedInv, RecordConflict,
         NEW p \in Producers, NEW to \in ProducerLabels \ {"idle", "chkEmpty"}, pc[p] # "idle",
         pc' = [pc EXCEPT ![p] = to], to \in HoldingSection <=> pc[p] \in HoldingSection,
         \A q \in Producers : pc[q] \in HoldingSection => idx'[q] = idx[q],
         \A s \in Slots : status'[s] # status[s] \/ slot'[s] # slot[s] =>
           pc[p] \in HoldingSection /\ s = idx[p],
         to = "chkComplete" => status'[idx[p]] = "Complete",
         UNCHANGED <<producerIdx, consumerIdx, msg, outcome, written, delivered, lastRead,
                     claimed, cpc, cidx, got>>
  PROVE  JoinedInv'
<1>1. /\ ~conflicted /\ ReadsAlone /\ ClaimsOnce /\ UnreadBounded /\ IndicesApart
      /\ WritersInTurn /\ SlotsInTurn /\ ReadInTurn /\ DeliveredInTurn
  BY DEF JoinedInv
<1>2. /\ cpc = "idle" /\ Waiting' = Waiting /\ Taken' = Taken
      /\ pc'[p] = to /\ \A q \in Producers \ {p} : pc'[q] = pc[q]
      /\ \A q \in Producers : idx[q] \in Slots
  BY <1>1 DEF ReadsAlone, Waiting, Taken, TypeOK
<1>3. ReadsAlone' /\ ClaimsOnce' /\ UnreadBounded' /\ IndicesApart' /\ DeliveredInTurn'
  BY <1>1, <1>2 DEF ReadsAlone, ResettingSection, ClaimsOnce, UnreadBounded, Unread,
     IndicesApart, Ahead, DeliveredInTurn
<1>4. ReadInTurn'
  BY <1>2 DEF ReadInTurn, ReadingSection, ResettingSection
<1>5. \A q \in Producers \ {p} :
        pc[p] \in HoldingSection /\ pc[q] \in HoldingSection => idx[q] # idx[p]
  <2> SUFFICES ASSUME NEW q \in Producers \ {p}, pc[p] \in HoldingSection,
                      pc[q] \in HoldingSection, idx[q] = idx[p]
               PROVE  FALSE
    OBVIOUS
  <2>1. pc[q] # "idle"
    BY DEF HoldingSection, WritingSection
  <2> QED BY <1>1, <2>1 DEF WritersInTurn
<1>6. WritersInTurn'
  <2> SUFFICES ASSUME NEW r \in Producers, pc'[r] # "idle"
      PROVE  /\ msg[r] <= written /\ outcome[msg[r]] = "pending"
             /\ \A q \in Producers \ {r} : pc'[q] # "idle" => msg[q] # msg[r]
             /\ pc'[r] \in HoldingSection =>
                  /\ Distance(consumerIdx, idx'[r]) < Waiting
                  /\ claimed[Taken + Distance(consumerIdx, idx'[r]) + 1] = msg[r]
             /\ pc'[r] \notin HoldingSection => \A k \in 1..Len(claimed) : claimed[k] # msg[r]
             /\ pc'[r] = "chkEmpty" => status'[idx'[r]] \in {"Empty", "Complete"}
             /\ pc'[r] = "chkComplete" => status'[idx'[r]] = "Complete"
    BY <1>2 DEF WritersInTurn, Ahead, Turn
  <2>1. pc[r] # "idle" /\ (pc'[r] \in HoldingSection <=> pc[r] \in HoldingSection)
    BY <1>2
  <2>2. /\ msg[r] <= written /\ outcome[msg[r]] = "pending"
        /\ \A q \in Producers \ {r} : pc'[q] # "idle" => msg[q] # msg[r]
        /\ pc'[r] \in HoldingSection =>
             /\ Distance(consumerIdx, idx'[r]) < Waiting
             /\ claimed[Taken + Distance(consumerIdx, idx'[r]) + 1] = msg[r]
        /\ pc'[r] \notin HoldingSection => \A k \in 1..Len(claimed) : claimed[k] # msg[r]
    BY <1>1, <1>2, <2>1 DEF WritersInTurn, Ahead, Turn
  <2>3. CASE r = p
    BY <1>2, <2>1, <2>2, <2>3 DEF HoldingSection
  <2>4. CASE r # p
    <3>1. pc[r] \in {"chkEmpty", "chkComplete"} => pc[r] \in HoldingSection
      BY DEF HoldingSection
    <3>2. pc[r] \in HoldingSection => status'[idx[r]] = status[idx[r]]
      BY <1>2, <1>5, <2>4
    <3> QED BY <1>1, <1>2, <2>1, <2>2, <2>4, <3>1, <3>2 DEF WritersInTurn
  <2> QED BY <2>3, <2>4
<1>7. SlotsInTurn'
  <2> SUFFICES ASSUME NEW s \in Slots
      PROVE  /\ Distance(consumerIdx, s) < Waiting =>
                  \/ /\ status'[s] = "Ready"
                     /\ slot'[s] = Whole(claimed[Taken + Distance(consumerIdx, s) + 1])
                  \/ \E q \in Producers : pc'[q] \in HoldingSection /\ idx'[q] = s
             /\ Distance(consumerIdx, s) >= Waiting =>
                  status'[s] \in {"Empty", "Complete"} \/ (cpc \in ReadingSection /\ s = cidx)
    BY <1>2 DEF SlotsInTurn, Ahead, Turn
  <2>1. \A q \in Producers : pc[q] \in HoldingSection =>
          pc'[q] \in HoldingSection /\ idx'[q] = idx[q]
    BY <1>2
  <2>2. CASE pc[p] \in HoldingSection /\ s = idx[p]
    <3>1. ~(Distance(consumerIdx, s) >= Waiting)
      <4>1. Distance(consumerIdx, s) < Waiting
        BY <1>1, <2>2 DEF WritersInTurn, Ahead
      <4>2. Waiting \in Nat
        BY <1>1, FewWait
      <4>3. Distance(consumerIdx, s) \in Nat
        <5>1. consumerIdx \in Slots /\ SlotCount \in Nat
          BY SlotCountAssumption DEF TypeOK
        <5>2. Distance(consumerIdx, s) \in 0..(SlotCount - 1)
          BY <5>1, Distances
        <5> QED BY <5>1, <5>2
      <4> QED BY <4>1, <4>2, <4>3
    <3> QED BY <2>1, <2>2, <3>1
  <2>3. CASE ~(pc[p] \in HoldingSection /\ s = idx[p])
    BY <1>1, <2>1, <2>3 DEF SlotsInTurn, Ahead, Turn
  <2> QED BY <2>2, <2>3
<1>8. ~conflicted'
  BY <1>1, <1>3, <1>6, InTurnIsApart
<1> QED BY <1>3, <1>4, <1>6, <1>7, <1>8 DEF JoinedInv

\* A step of a write call that neither claims a position nor returns: it meets no full
\* ring and no slot that is not free.
LEMMA WriterGoesOn ==
  ASSUME JoinedCallers, TypeOK, JoinedInv, NEW p \in Producers,
         \/ LoadProducerIdx(p) \/ LoadConsumerIdx(p) \/ LoadCurrent(p)
         \/ idx[p] # producerIdx /\ CasProducerIdx(p)
         \/ CheckEmpty(p) \/ CheckComplete(p) \/ ResetForWrite(p) \/ SetOperation(p)
         \/ MarkWriting(p) \/ FillSlot(p)
  PROVE  JoinedInv'
<1> USE DEF header, slots, writers, reader, callers, laps, Alive, Goto
<1>1. /\ pc \in [Producers -> ProducerLabels] /\ idx \in [Producers -> Slots]
      /\ status \in [Slots -> Statuses] /\ slot \in [Slots -> SlotParts]
      /\ producerIdx \in Slots /\ consumerIdx \in Slots /\ idx[p] \in Slots
  BY DEF TypeOK
<1>2. /\ pc[p] = "chkEmpty" => status[idx[p]] \in {"Empty", "Complete"}
      /\ pc[p] = "chkComplete" => status[idx[p]] = "Complete"
  BY DEF JoinedInv, WritersInTurn
\* The steps before a position is claimed: they load indices, into idx[p] only.
<1>3. ASSUME NEW from \in {"loadP", "loadC", "loadCur", "cas"},
             NEW to \in {"loadC", "loadCur", "cas"},
             pc[p] = from, pc' = [pc EXCEPT ![p] = to],
             \A q \in Producers \ {p} : idx'[q] = idx[q],
             UNCHANGED <<status, slot, producerIdx, consumerIdx, msg, outcome, written,
                         delivered, lastRead, claimed, cpc, cidx, got>>,
             RecordConflict
      PROVE  JoinedInv'
  <2>1. /\ from \notin HoldingSection /\ to \notin HoldingSection
        /\ to \in ProducerLabels \ {"idle", "chkEmpty"} /\ pc[p] # "idle" /\ to # "chkComplete"
    BY <1>3 DEF HoldingSection, WritingSection, ProducerLabels
  <2>2. /\ to \in HoldingSection <=> pc[p] \in HoldingSection
        /\ \A q \in Producers : pc[q] \in HoldingSection => idx'[q] = idx[q]
        /\ \A s \in Slots : status'[s] = status[s] /\ slot'[s] = slot[s]
    BY <1>3, <2>1
  <2> QED BY <1>3, <2>1, <2>2, WriterMoves
\* The steps after: they store into the slot of the call only.
<1>4. ASSUME NEW to \in HoldingSection \ {"chkEmpty"}, pc[p] \in HoldingSection,
             pc' = [pc EXCEPT ![p] = to], to = "chkComplete" => status'[idx[p]] = "Complete",
             \A s \in Slots \ {idx[p]} : status'[s] = status[s] /\ slot'[s] = slot[s],
             UNCHANGED <<idx, producerIdx, consumerIdx, msg, outcome, written,
                         delivered, lastRead, claimed, cpc, cidx, got>>,
             RecordConflict
      PROVE  JoinedInv'
  <2>1. to \in ProducerLabels \ {"idle", "chkEmpty"} /\ pc[p] # "idle"
    BY <1>4 DEF HoldingSection, WritingSection, ProducerLabels
  <2> QED BY <1>4, <2>1, WriterMoves
<1>5. ASSUME NEW from, NEW to, NEW f, NEW m, StorePart(p, from, to, f, m),
             <<from, to>> \in {<<"rstOp", "rstSize">>, <<"rstSize", "setOp">>,
                               <<"setOp", "setWriting">>, <<"setSize", "copyLow">>,
                               <<"copyLow", "copyHigh">>, <<"copyHigh", "setReady">>}
      PROVE  JoinedInv'
  <2>1. from \in HoldingSection /\ to \in HoldingSection \ {"chkEmpty", "chkComplete"}
    BY <1>5 DEF HoldingSection, WritingSection
  <2>2. \A s \in Slots \ {idx[p]} : status'[s] = status[s] /\ slot'[s] = slot[s]
    BY <1>1, <1>5 DEF StorePart
  <2> QED BY <1>4, <1>5, <2>1, <2>2 DEF StorePart
<1>6. ASSUME NEW from, NEW to, NEW v, StoreStatus(p, from, to, v),
             <<from, to>> \in {<<"rstStatus", "rstOp">>, <<"setWriting", "setSize">>}
      PROVE  JoinedInv'
  <2>1. from \in HoldingSection /\ to \in HoldingSection \ {"chkEmpty", "chkComplete"}
    BY <1>6 DEF HoldingSection, WritingSection
  <2>2. \A s \in Slots \ {idx[p]} : status'[s] = status[s] /\ slot'[s] = slot[s]
    BY <1>1, <1>6 DEF StoreStatus
  <2> QED BY <1>4, <1>6, <2>1, <2>2 DEF StoreStatus
<1>7. CASE LoadProducerIdx(p) \/ LoadCurrent(p)
  BY <1>1, <1>3, <1>7 DEF LoadProducerIdx, LoadCurrent
<1>8. CASE LoadConsumerIdx(p)
  <2>1. AvailableSlots(idx[p], consumerIdx) \in 1..SlotCount
    BY <1>1, FullnessNeverSeen
  <2>2. AvailableSlots(idx[p], consumerIdx) > 0
    BY <2>1, SlotCountAssumption
  <2>3. /\ pc[p] = "loadC" /\ pc' = [pc EXCEPT ![p] = "loadCur"] /\ idx' = [idx EXCEPT ![p] = 0]
        /\ UNCHANGED <<msg, outcome>>
    BY <1>8, <2>2 DEF LoadConsumerIdx
  <2> QED BY <1>1, <1>3, <1>8, <2>3 DEF LoadConsumerIdx
<1>9. CASE idx[p] # producerIdx /\ CasProducerIdx(p)
  <2>1. pc' = [pc EXCEPT ![p] = "cas"]
    BY <1>1, <1>9 DEF CasProducerIdx
  <2> QED BY <1>1, <1>3, <1>9, <2>1 DEF CasProducerIdx
<1>10. CASE CheckEmpty(p)
  <2>1. PICK to \in {"rstStatus", "chkComplete"} :
          /\ pc' = [pc EXCEPT ![p] = to]
          /\ to = "chkComplete" => status[idx[p]] # "Empty"
    BY <1>10 DEF CheckEmpty
  <2>2. pc[p] \in HoldingSection /\ to \in HoldingSection \ {"chkEmpty"}
    BY <1>10, <2>1 DEF CheckEmpty, HoldingSection, WritingSection
  <2>3. to = "chkComplete" => status'[idx[p]] = "Complete"
    BY <1>2, <1>10, <2>1 DEF CheckEmpty
  <2> QED BY <1>4, <1>10, <2>1, <2>2, <2>3 DEF CheckEmpty
<1>11. CASE CheckComplete(p)
  <2>1. pc[p] = "chkComplete"
    BY <1>11 DEF CheckComplete, Retry, Finish
  <2>2. status[idx[p]] = "Complete"
    BY <1>2, <2>1
  <2>3. pc' = [pc EXCEPT ![p] = "rstStatus"] /\ UNCHANGED <<idx, msg, outcome>>
    BY <1>11, <2>2 DEF CheckComplete
  <2>4. pc[p] \in HoldingSection /\ "rstStatus" \in HoldingSection \ {"chkEmpty", "chkComplete"}
    BY <2>1 DEF HoldingSection, WritingSection
  <2> QED BY <1>4, <1>11, <2>3, <2>4 DEF CheckComplete
<1>12. CASE ResetForWrite(p)
  BY <1>5, <1>6, <1>12 DEF ResetForWrite
<1>13. CASE SetOperation(p) \/ FillSlot(p)
  BY <1>5, <1>13 DEF SetOperation, FillSlot
<1>14. CASE MarkWriting(p)
  BY <1>6, <1>14 DEF MarkWriting
<1> QED BY <1>7, <1>8, <1>9, <1>10, <1>11, <1>12, <1>13, <1>14

\* The compare-and-swap: the message gets the position after the last that waits, and
\* its slot is free.
LEMMA WriterTakes ==
  ASSUME JoinedCallers, TypeOK, TypeOK', JoinedInv, NEW p \in Producers,
         idx[p] = producerIdx, TakeIdx(p)
  PROVE  JoinedInv'
<1> USE DEF header, slots, writers, reader, callers, laps, Alive, Goto
<1>1. /\ ~conflicted /\ ReadsAlone /\ ClaimsOnce /\ UnreadBounded /\ IndicesApart
      /\ WritersInTurn /\ SlotsInTurn /\ ReadInTurn /\ DeliveredInTurn
  BY DEF JoinedInv
<1>2. /\ producerIdx' = NextIdx(producerIdx) /\ claimed' = Append(claimed, msg[p])
      /\ UNCHANGED <<consumerIdx, status, slot, idx, msg, outcome, written, delivered, lastRead,
                     cpc, cidx, got>>
      /\ pc[p] = "cas" /\ pc'[p] = "chkEmpty" /\ \A q \in Producers \ {p} : pc'[q] = pc[q]
      /\ RecordConflict
  BY DEF TakeIdx, TypeOK
<1>3. /\ SlotCount \in Nat \ {0} /\ consumerIdx \in Slots /\ producerIdx \in Slots
      /\ \A q \in Producers : idx[q] \in Slots
      /\ claimed \in Seq(Messages) /\ msg[p] \in Messages
  BY <1>2, SlotCountAssumption DEF TypeOK
<1>4. /\ Len(claimed) \in Nat /\ Len(delivered) \in Nat /\ Taken \in Nat /\ Waiting \in Nat
      /\ Waiting = Len(claimed) - Taken
  BY <1>1, FewWait DEF Waiting
<1>5. cpc = "idle" /\ cpc \notin ReadingSection
  BY <1>1, <1>2 DEF ReadsAlone, ReadingSection, ResettingSection
<1>6. /\ Len(claimed') = Len(claimed) + 1 /\ claimed'[Len(claimed) + 1] = msg[p]
      /\ \A k \in 1..Len(claimed) : claimed'[k] = claimed[k]
  BY <1>2, <1>3
<1>7. Taken' = Taken /\ Waiting' = Waiting + 1
  BY <1>2, <1>4, <1>6 DEF Taken, Waiting
<1>8. \A s \in Slots : Distance(consumerIdx, s) \in 0..(SlotCount - 1)
  BY <1>3, Distances
\* The slots that were waited for keep their turns; the new one has the new message.
<1>9. /\ Distance(consumerIdx, producerIdx) = Waiting
      /\ claimed'[Taken + Waiting + 1] = msg[p]
      /\ \A s \in Slots : Distance(consumerIdx, s) < Waiting =>
           claimed'[Taken + Distance(consumerIdx, s) + 1]
             = claimed[Taken + Distance(consumerIdx, s) + 1]
  <2>1. Distance(consumerIdx, producerIdx) = Waiting
    BY <1>1 DEF IndicesApart, Ahead
  <2>2. Taken + Waiting + 1 = Len(claimed) + 1
    BY <1>4
  <2>3. ASSUME NEW s \in Slots, Distance(consumerIdx, s) < Waiting
        PROVE  claimed'[Taken + Distance(consumerIdx, s) + 1]
                 = claimed[Taken + Distance(consumerIdx, s) + 1]
    <3>1. PICK d \in 0..(SlotCount - 1) : d = Distance(consumerIdx, s)
      BY <1>8
    <3>2. Taken + d + 1 \in 1..Len(claimed)
      BY <1>3, <1>4, <2>3, <3>1
    <3> QED BY <1>6, <3>1, <3>2
  <2> QED BY <1>6, <2>1, <2>2, <2>3
<1>10. msg[p] <= written /\ outcome[msg[p]] = "pending"
       /\ \A k \in 1..Len(claimed) : claimed[k] # msg[p]
  BY <1>1, <1>2 DEF WritersInTurn, HoldingSection, WritingSection
<1>11. ReadsAlone'
  BY <1>1, <1>2, <1>5 DEF ReadsAlone, ResettingSection
<1>12. ClaimsOnce'
  <2>1. Waiting' >= 0
    BY <1>4, <1>7
  <2>2. \A k \in 1..Len(claimed') :
          claimed'[k] <= written /\ outcome[claimed'[k]] \in {"pending", "ok"}
    BY <1>1, <1>4, <1>6, <1>10 DEF ClaimsOnce
  <2>3. \A k, l \in 1..Len(claimed') : claimed'[k] = claimed'[l] => k = l
    BY <1>1, <1>4, <1>6, <1>10 DEF ClaimsOnce
  <2> QED BY <1>1, <1>2, <2>1, <2>2, <2>3 DEF ClaimsOnce
<1>13. UnreadBounded'
  BY <1>1, <1>2 DEF UnreadBounded, Unread
<1>14. Waiting + 1 < SlotCount
  BY <1>7, <1>12, <1>13, FewWaitNext DEF JoinedCallers
<1>15. IndicesApart'
  <2>1. Distance(consumerIdx, NextIdx(producerIdx)) = Waiting + 1
    BY <1>3, <1>9, <1>14, Distances
  <2> QED BY <1>2, <1>7, <2>1 DEF IndicesApart, Ahead
<1>16. WritersInTurn'
  <2> SUFFICES ASSUME NEW r \in Producers, pc'[r] # "idle"
      PROVE  /\ msg[r] <= written /\ outcome[msg[r]] = "pending"
             /\ \A q \in Producers \ {r} : pc'[q] # "idle" => msg[q] # msg[r]
             /\ pc'[r] \in HoldingSection =>
                  /\ Distance(consumerIdx, idx[r]) < Waiting + 1
                  /\ claimed'[Taken + Distance(consumerIdx, idx[r]) + 1] = msg[r]
             /\ pc'[r] \notin HoldingSection => \A k \in 1..Len(claimed') : claimed'[k] # msg[r]
             /\ pc'[r] = "chkEmpty" => status[idx[r]] \in {"Empty", "Complete"}
             /\ pc'[r] = "chkComplete" => status[idx[r]] = "Complete"
    <3>1. /\ Taken' = Taken /\ Waiting' = Waiting + 1
          /\ UNCHANGED <<consumerIdx, status, idx, msg, outcome, written>>
      BY <1>2, <1>7
    <3> QED BY <3>1, SMTT(60) DEF WritersInTurn, Ahead, Turn
  <2>1. /\ pc[r] # "idle" /\ msg[r] <= written /\ outcome[msg[r]] = "pending"
        /\ \A q \in Producers \ {r} : pc'[q] # "idle" => msg[q] # msg[r]
    BY <1>1, <1>2 DEF WritersInTurn
  <2>2. CASE r = p
    <3>1. Waiting < Waiting + 1 /\ pc'[p] \in HoldingSection
      BY <1>2, <1>4 DEF HoldingSection
    <3>2. status[idx[p]] \in {"Empty", "Complete"}
      <4>1. Distance(consumerIdx, idx[p]) >= Waiting
        BY <1>4, <1>9
      <4> QED BY <1>1, <1>3, <1>5, <4>1 DEF SlotsInTurn, Ahead
    <3> QED BY <1>2, <1>9, <2>1, <2>2, <3>1, <3>2
  <2>3. CASE r # p
    <3>1. pc'[r] = pc[r] /\ idx[r] \in Slots /\ msg[r] # msg[p]
      BY <1>2, <1>3, <2>1, <2>3
    <3>2. pc[r] \in HoldingSection =>
            /\ Distance(consumerIdx, idx[r]) < Waiting
            /\ claimed[Taken + Distance(consumerIdx, idx[r]) + 1] = msg[r]
      BY <1>1, <2>1 DEF WritersInTurn, Ahead, Turn
    <3>3. pc[r] \in HoldingSection =>
            /\ Distance(consumerIdx, idx[r]) < Waiting + 1
            /\ claimed'[Taken + Distance(consumerIdx, idx[r]) + 1] = msg[r]
      <4>1. Distance(consumerIdx, idx[r]) \in 0..(SlotCount - 1)
        BY <1>8, <3>1
      <4> QED BY <1>3, <1>4, <1>9, <3>1, <3>2, <4>1
    <3>4. pc[r] \notin HoldingSection => \A k \in 1..Len(claimed') : claimed'[k] # msg[r]
      <4>1. pc[r] \notin HoldingSection => \A k \in 1..Len(claimed) : claimed[k] # msg[r]
        BY <1>1, <2>1 DEF WritersInTurn
      <4> QED BY <1>4, <1>6, <3>1, <4>1
    <3>5. /\ pc[r] = "chkEmpty" => status[idx[r]] \in {"Empty", "Complete"}
          /\ pc[r] = "chkComplete" => status[idx[r]] = "Complete"
      BY <1>1, <2>1 DEF WritersInTurn
    <3> QED BY <2>1, <3>1, <3>3, <3>4, <3>5
  <2> QED BY <2>2, <2>3
<1>17. SlotsInTurn'
  <2> SUFFICES ASSUME NEW s \in Slots
      PROVE  /\ Distance(consumerIdx, s) < Waiting + 1 =>
                  \/ /\ status[s] = "Ready"
                     /\ slot[s] = Whole(claimed'[Taken + Distance(consumerIdx, s) + 1])
                  \/ \E q \in Producers : pc'[q] \in HoldingSection /\ idx[q] = s
             /\ Distance(consumerIdx, s) >= Waiting + 1 =>
                  status[s] \in {"Empty", "Complete"} \/ (cpc \in ReadingSection /\ s = cidx)
    BY <1>2, <1>7 DEF SlotsInTurn, Ahead, Turn
  <2>1. pc'[p] \in HoldingSection /\ pc[p] \notin HoldingSection
    BY <1>2 DEF HoldingSection, WritingSection
  <2>2. PICK d \in 0..(SlotCount - 1) : d = Distance(consumerIdx, s)
    BY <1>8
  <2>3. CASE d < Waiting
    <3>1. \/ /\ status[s] = "Ready"
             /\ slot[s] = Whole(claimed[Taken + Distance(consumerIdx, s) + 1])
          \/ \E q \in Producers : pc[q] \in HoldingSection /\ idx[q] = s
      BY <1>1, <2>2, <2>3 DEF SlotsInTurn, Ahead, Turn
    <3>2. ~(d >= Waiting + 1)
      BY <1>4, <2>2, <2>3
    <3> QED BY <1>2, <1>9, <2>1, <2>2, <2>3, <3>1, <3>2
  <2>4. CASE d = Waiting
    <3>1. Distance(consumerIdx, s) = Distance(consumerIdx, producerIdx)
      BY <1>9, <2>2, <2>4
    <3>2. s = producerIdx
      BY <1>3, <3>1, Distances
    <3>3. ~(d >= Waiting + 1)
      BY <1>4, <2>4
    <3> QED BY <2>1, <2>2, <3>2, <3>3
  <2>5. CASE d > Waiting
    <3>1. ~(d < Waiting + 1) /\ d >= Waiting
      BY <1>3, <1>4, <2>2, <2>5
    <3> QED BY <1>1, <2>2, <3>1 DEF SlotsInTurn, Ahead
  <2> QED BY <1>3, <1>4, <2>2, <2>3, <2>4, <2>5
<1>18. ReadInTurn'
  BY <1>2, <1>5 DEF ReadInTurn
<1>19. DeliveredInTurn'
  <2>1. \A i \in 1..Len(delivered) : i \in 1..Len(claimed)
    <3>1. Len(delivered) <= Len(claimed)
      BY <1>4, <1>5 DEF Taken
    <3> QED BY <1>4, <3>1
  <2> QED BY <1>1, <1>2, <1>6, <2>1 DEF DeliveredInTurn
<1>20. ~conflicted'
  BY <1>1, <1>2, <1>11, <1>16, InTurnIsApart
<1> QED BY <1>11, <1>12, <1>13, <1>15, <1>16, <1>17, <1>18, <1>19, <1>20 DEF JoinedInv

\* No other call is in the slot of a call that holds one.
LEMMA HoldersApart ==
  ASSUME WritersInTurn, NEW p \in Producers, pc[p] \in HoldingSection
  PROVE  \A q \in Producers \ {p} : pc[q] \in HoldingSection => idx[q] # idx[p]
<1> SUFFICES ASSUME NEW q \in Producers \ {p}, pc[q] \in HoldingSection, idx[q] = idx[p]
             PROVE  FALSE
  OBVIOUS
<1>1. pc[p] # "idle" /\ pc[q] # "idle"
  BY DEF HoldingSection, WritingSection
<1> QED BY <1>1 DEF WritersInTurn

\* What the callers' discipline bounds is a number.
LEMMA UnreadIsInt == TypeOK => Unread \in Int
<1> SUFFICES ASSUME TypeOK PROVE Unread \in Int
  OBVIOUS
<1> DEFINE S == {m \in Messages : outcome[m] \in {"pending", "ok"}}
<1>1. Cardinality(S) \in Nat
  BY MessagesFinite
<1>2. Len(delivered) \in Nat
  BY DEF TypeOK
<1> QED BY <1>1, <1>2 DEF Unread

\* The store of Ready: the slot has the message whose turn it is.
LEMMA WriterReturns ==
  ASSUME JoinedCallers, TypeOK, ContentsInv, JoinedInv, NEW p \in Producers, SetReady(p)
  PROVE  JoinedInv'
<1> USE DEF header, slots, writers, reader, callers, laps, Alive, Goto
<1>1. /\ ~conflicted /\ ReadsAlone /\ ClaimsOnce /\ UnreadBounded /\ IndicesApart
      /\ WritersInTurn /\ SlotsInTurn /\ ReadInTurn /\ DeliveredInTurn
  BY DEF JoinedInv
<1>2. /\ outcome' = [outcome EXCEPT ![msg[p]] = "ok"] /\ status' = [status EXCEPT ![idx[p]] = "Ready"]
      /\ UNCHANGED <<producerIdx, consumerIdx, slot, written, delivered, lastRead, claimed,
                     cpc, cidx, got>>
      /\ pc[p] = "setReady" /\ pc'[p] = "idle"
      /\ \A q \in Producers \ {p} : pc'[q] = pc[q] /\ msg'[q] = msg[q] /\ idx'[q] = idx[q]
      /\ RecordConflict
  BY DEF SetReady, Finish, TypeOK
<1>3. /\ msg[p] \in Messages /\ \A q \in Producers : idx[q] \in Slots
      /\ \A q \in Producers : pc[q] # "idle" => msg[q] \in Messages
      /\ consumerIdx \in Slots /\ status \in [Slots -> Statuses]
      /\ outcome \in [Messages -> Outcomes] /\ written \in Nat
      /\ claimed \in Seq(Messages) /\ SlotCount \in Nat \ {0}
  BY <1>2, SlotCountAssumption, BoundsAssumption DEF TypeOK
<1>4. Taken' = Taken /\ Waiting' = Waiting /\ Waiting \in Nat
  BY <1>1, <1>2, FewWait DEF Taken, Waiting
<1>5. /\ pc[p] \in HoldingSection /\ msg[p] <= written /\ outcome[msg[p]] = "pending"
      /\ \A q \in Producers \ {p} : pc[q] # "idle" => msg[q] # msg[p]
      /\ Distance(consumerIdx, idx[p]) < Waiting
      /\ claimed[Taken + Distance(consumerIdx, idx[p]) + 1] = msg[p]
      /\ \A q \in Producers \ {p} : pc[q] \in HoldingSection => idx[q] # idx[p]
  <2>1. pc[p] \in HoldingSection
    BY <1>2 DEF HoldingSection, WritingSection
  <2> QED BY <1>1, <1>2, <2>1, HoldersApart DEF WritersInTurn, Ahead, Turn
<1>6. slot[idx[p]] = Whole(msg[p])
  BY <1>1, <1>2, SlotIsFull
<1>7. ReadsAlone' /\ IndicesApart' /\ DeliveredInTurn'
  BY <1>1, <1>2, <1>4 DEF ReadsAlone, IndicesApart, Ahead, DeliveredInTurn
<1>8. ClaimsOnce'
  <2>1. \A k \in 1..Len(claimed) : claimed[k] <= written /\ outcome'[claimed[k]] \in {"pending", "ok"}
    <3>1. \A k \in 1..Len(claimed) : claimed[k] \in Messages
      BY <1>3
    <3> QED BY <1>1, <1>2, <1>3, <3>1 DEF ClaimsOnce
  <2>2. \A m \in Messages : /\ outcome'[m] \notin {"full", "killed"}
                            /\ m > written => outcome'[m] = "uncalled"
    <3>1. ~(msg[p] > written)
      BY <1>3, <1>5 DEF Messages
    <3> QED BY <1>1, <1>2, <1>3, <3>1 DEF ClaimsOnce
  <2> QED BY <1>1, <1>2, <1>4, <2>1, <2>2 DEF ClaimsOnce
<1>9. UnreadBounded'
  <2>1. Unread' = Unread
    BY <1>2, <1>3, <1>5, UnreadGrows, UnreadIsInt DEF Outcomes
  <2> QED BY <1>1, <2>1 DEF UnreadBounded
<1>10. WritersInTurn'
  <2> SUFFICES ASSUME NEW r \in Producers, pc'[r] # "idle"
      PROVE  /\ msg'[r] <= written /\ outcome'[msg'[r]] = "pending"
             /\ \A q \in Producers \ {r} : pc'[q] # "idle" => msg'[q] # msg'[r]
             /\ pc'[r] \in HoldingSection =>
                  /\ Distance(consumerIdx, idx'[r]) < Waiting
                  /\ claimed[Taken + Distance(consumerIdx, idx'[r]) + 1] = msg'[r]
             /\ pc'[r] \notin HoldingSection => \A k \in 1..Len(claimed) : claimed[k] # msg'[r]
             /\ pc'[r] = "chkEmpty" => status'[idx'[r]] \in {"Empty", "Complete"}
             /\ pc'[r] = "chkComplete" => status'[idx'[r]] = "Complete"
    <3>1. /\ Taken' = Taken /\ Waiting' = Waiting /\ UNCHANGED <<consumerIdx, written, claimed>>
      BY <1>2, <1>4
    <3> QED BY <3>1, SMTT(60) DEF WritersInTurn, Ahead, Turn
  <2>1. r # p /\ pc'[r] = pc[r] /\ msg'[r] = msg[r] /\ idx'[r] = idx[r] /\ msg[r] # msg[p]
    BY <1>2, <1>5
  <2>2. outcome'[msg[r]] = outcome[msg[r]]
    BY <1>2, <1>3, <2>1
  <2>3. pc[r] \in {"chkEmpty", "chkComplete"} => status'[idx[r]] = status[idx[r]]
    <3>1. pc[r] \in {"chkEmpty", "chkComplete"} => pc[r] \in HoldingSection
      BY DEF HoldingSection
    <3> QED BY <1>2, <1>3, <1>5, <2>1, <3>1
  <2>4. /\ msg[r] <= written /\ outcome[msg[r]] = "pending"
        /\ \A q \in Producers \ {r} : pc'[q] # "idle" => msg'[q] # msg[r]
    BY <1>1, <1>2, <2>1 DEF WritersInTurn
  <2>5. /\ pc[r] \in HoldingSection =>
             /\ Distance(consumerIdx, idx[r]) < Waiting
             /\ claimed[Taken + Distance(consumerIdx, idx[r]) + 1] = msg[r]
        /\ pc[r] \notin HoldingSection => \A k \in 1..Len(claimed) : claimed[k] # msg[r]
        /\ pc[r] = "chkEmpty" => status[idx[r]] \in {"Empty", "Complete"}
        /\ pc[r] = "chkComplete" => status[idx[r]] = "Complete"
    BY <1>1, <2>1 DEF WritersInTurn, Ahead, Turn
  <2> QED BY <2>1, <2>2, <2>3, <2>4, <2>5
<1>11. SlotsInTurn'
  <2> SUFFICES ASSUME NEW s \in Slots
      PROVE  /\ Distance(consumerIdx, s) < Waiting =>
                  \/ /\ status'[s] = "Ready"
                     /\ slot[s] = Whole(claimed[Taken + Distance(consumerIdx, s) + 1])
                  \/ \E q \in Producers : pc'[q] \in HoldingSection /\ idx'[q] = s
             /\ Distance(consumerIdx, s) >= Waiting =>
                  status'[s] \in {"Empty", "Complete"} \/ (cpc \in ReadingSection /\ s = cidx)
    BY <1>2, <1>4 DEF SlotsInTurn, Ahead, Turn
  <2>1. CASE s = idx[p]
    <3>1. Distance(consumerIdx, s) \in 0..(SlotCount - 1)
      BY <1>3, Distances
    <3>2. ~(Distance(consumerIdx, s) >= Waiting)
      BY <1>3, <1>4, <1>5, <2>1, <3>1
    <3> QED BY <1>2, <1>3, <1>5, <1>6, <2>1, <3>2
  <2>2. CASE s # idx[p]
    <3>1. status'[s] = status[s]
      BY <1>2, <1>3, <2>2
    <3>2. \A q \in Producers : pc[q] \in HoldingSection /\ idx[q] = s =>
            pc'[q] \in HoldingSection /\ idx'[q] = s
      BY <1>2, <2>2
    <3> QED BY <1>1, <3>1, <3>2 DEF SlotsInTurn, Ahead, Turn
  <2> QED BY <2>1, <2>2
<1>12. ReadInTurn'
  <2>1. cpc = "idle"
    BY <1>1, <1>2 DEF ReadsAlone
  <2> QED BY <1>2, <2>1 DEF ReadInTurn, ReadingSection, ResettingSection
<1>13. ~conflicted'
  BY <1>1, <1>2, <1>7, <1>10, InTurnIsApart
<1> QED BY <1>7, <1>8, <1>9, <1>10, <1>11, <1>12, <1>13 DEF JoinedInv

\* A new call, refused for its size or begun, comes with a new message.
LEMMA WriteBegins ==
  ASSUME JoinedCallers, TypeOK, JoinedInv, NEW p \in Producers, RejectOversized(p) \/ BeginWrite(p)
  PROVE  JoinedInv'
<1> USE DEF header, slots, writers, reader, callers, laps, Alive, Goto
<1>1. /\ ~conflicted /\ ReadsAlone /\ ClaimsOnce /\ UnreadBounded /\ IndicesApart
      /\ WritersInTurn /\ SlotsInTurn /\ ReadInTurn /\ DeliveredInTurn
  BY DEF JoinedInv
<1>2. PICK v \in {"too_large", "pending"} :
        /\ outcome' = [outcome EXCEPT ![written + 1] = v] /\ written' = written + 1
        /\ written + 1 \in Messages
        /\ v = "pending" => Unread < MaxUnread
        /\ \/ v = "too_large" /\ UNCHANGED <<pc, msg>>
           \/ v = "pending" /\ pc'[p] = "loadP" /\ msg'[p] = written + 1
  <2>1. written < MaxWrites => written + 1 \in Messages
    BY Constants DEF TypeOK, Messages
  <2>2. CASE RejectOversized(p)
    BY <2>1, <2>2 DEF RejectOversized
  <2>3. CASE BeginWrite(p)
    BY <2>1, <2>3 DEF BeginWrite, JoinedCallers, TypeOK
  <2> QED BY <2>2, <2>3
<1>3. /\ pc[p] = "idle" /\ cpc = "idle"
      /\ \A q \in Producers \ {p} : pc'[q] = pc[q] /\ msg'[q] = msg[q]
      /\ UNCHANGED <<producerIdx, consumerIdx, status, slot, idx, delivered, lastRead, claimed,
                     cpc, cidx, got>>
      /\ RecordConflict
  BY DEF RejectOversized, BeginWrite, JoinedCallers, TypeOK
<1>4. /\ written \in Nat /\ outcome \in [Messages -> Outcomes] /\ claimed \in Seq(Messages)
      /\ Messages \subseteq Nat
      /\ \A q \in Producers : pc[q] # "idle" => msg[q] \in Messages
  BY BoundsAssumption DEF TypeOK, Messages
<1>5. Taken' = Taken /\ Waiting' = Waiting
  BY <1>3 DEF Taken, Waiting
<1>6. outcome[written + 1] = "uncalled"
  <2>1. written + 1 > written
    BY <1>4
  <2> QED BY <1>1, <1>2, <2>1 DEF ClaimsOnce
<1>7. /\ \A q \in Producers \ {p} : pc[q] # "idle" =>
           msg[q] <= written /\ msg[q] # written + 1 /\ outcome'[msg[q]] = "pending"
      /\ \A k \in 1..Len(claimed) : claimed[k] <= written /\ claimed[k] # written + 1
           /\ outcome'[claimed[k]] = outcome[claimed[k]]
  <2>1. \A m \in Messages : m <= written => m # written + 1 /\ outcome'[m] = outcome[m]
    BY <1>2, <1>4
  <2>2. \A q \in Producers \ {p} : pc[q] # "idle" =>
          msg[q] \in Messages /\ msg[q] <= written /\ outcome[msg[q]] = "pending"
    BY <1>1, <1>4 DEF WritersInTurn
  <2>3. \A k \in 1..Len(claimed) : claimed[k] \in Messages /\ claimed[k] <= written
    BY <1>1, <1>4 DEF ClaimsOnce
  <2> QED BY <2>1, <2>2, <2>3
<1>8. /\ \A q \in Producers : pc'[q] \in HoldingSection <=> pc[q] \in HoldingSection
      /\ pc'[p] \in {"idle", "loadP"}
      /\ \A q \in {"idle", "loadP"} : q \notin HoldingSection
  BY <1>2, <1>3 DEF HoldingSection, WritingSection
<1>9. ReadsAlone' /\ IndicesApart' /\ DeliveredInTurn' /\ ReadInTurn'
  BY <1>1, <1>3, <1>5 DEF ReadsAlone, IndicesApart, Ahead, DeliveredInTurn, ReadInTurn,
     ReadingSection, ResettingSection
<1>10. ClaimsOnce'
  <2>1. \A k \in 1..Len(claimed) :
          claimed[k] <= written + 1 /\ outcome'[claimed[k]] \in {"pending", "ok"}
    <3> SUFFICES ASSUME NEW k \in 1..Len(claimed)
                 PROVE  claimed[k] <= written + 1 /\ outcome'[claimed[k]] \in {"pending", "ok"}
      OBVIOUS
    <3>1. claimed[k] \in Messages
      BY <1>4
    <3>2. claimed[k] \in Nat
      BY <1>4, <3>1
    <3> QED BY <1>1, <1>4, <1>7, <3>2 DEF ClaimsOnce
  <2>2. \A m \in Messages : /\ outcome'[m] \notin {"full", "killed"}
                            /\ m > written + 1 => outcome'[m] = "uncalled"
    BY <1>1, <1>2, <1>4 DEF ClaimsOnce
  <2> QED BY <1>1, <1>2, <1>3, <1>5, <2>1, <2>2 DEF ClaimsOnce
<1>11. UnreadBounded'
  <2>1. Unread \in Int /\ MaxUnread \in Nat
    BY UnreadIsInt, BoundsAssumption
  <2>2. Unread' = IF v = "pending" THEN Unread + 1 ELSE Unread
    BY <1>2, <1>3, <1>6, <2>1, UnreadGrows DEF Outcomes
  <2> QED BY <1>1, <1>2, <2>1, <2>2 DEF UnreadBounded
<1>12. WritersInTurn'
  <2> SUFFICES ASSUME NEW r \in Producers, pc'[r] # "idle"
      PROVE  /\ msg'[r] <= written + 1 /\ outcome'[msg'[r]] = "pending"
             /\ \A q \in Producers \ {r} : pc'[q] # "idle" => msg'[q] # msg'[r]
             /\ pc'[r] \in HoldingSection =>
                  /\ Distance(consumerIdx, idx[r]) < Waiting
                  /\ claimed[Taken + Distance(consumerIdx, idx[r]) + 1] = msg'[r]
             /\ pc'[r] \notin HoldingSection => \A k \in 1..Len(claimed) : claimed[k] # msg'[r]
             /\ pc'[r] = "chkEmpty" => status[idx[r]] \in {"Empty", "Complete"}
             /\ pc'[r] = "chkComplete" => status[idx[r]] = "Complete"
    <3>1. /\ Taken' = Taken /\ Waiting' = Waiting
          /\ UNCHANGED <<consumerIdx, claimed, status, idx>> /\ written' = written + 1
      BY <1>2, <1>3, <1>5
    <3> QED BY <3>1, SMTT(60) DEF WritersInTurn, Ahead, Turn
  <2>1. CASE r = p
    <3>1. v = "pending" /\ pc'[p] = "loadP" /\ msg'[p] = written + 1
      BY <1>2, <1>3, <2>1
    <3>2. \A q \in Producers \ {p} : pc'[q] # "idle" => msg'[q] # written + 1
      BY <1>3, <1>7
    <3>3. written + 1 <= written + 1 /\ outcome'[written + 1] = "pending"
      BY <1>2, <1>4, <3>1
    <3> QED BY <1>7, <1>8, <2>1, <3>1, <3>2, <3>3
  <2>2. CASE r # p
    <3>1. pc'[r] = pc[r] /\ msg'[r] = msg[r] /\ msg[r] \in Nat
      BY <1>3, <1>4, <2>2
    <3>2. /\ msg[r] <= written + 1 /\ outcome'[msg[r]] = "pending"
      BY <1>4, <1>7, <2>2, <3>1
    <3>3. \A q \in Producers \ {r} : pc'[q] # "idle" => msg'[q] # msg[r]
      <4>1. pc'[p] # "idle" => msg'[p] # msg[r]
        BY <1>2, <1>3, <1>7, <2>2, <3>1
      <4>2. \A q \in Producers \ {p, r} : pc'[q] # "idle" => msg'[q] # msg[r]
        BY <1>1, <1>3, <3>1 DEF WritersInTurn
      <4> QED BY <4>1, <4>2
    <3>4. /\ pc[r] \in HoldingSection =>
             /\ Distance(consumerIdx, idx[r]) < Waiting
             /\ claimed[Taken + Distance(consumerIdx, idx[r]) + 1] = msg[r]
          /\ pc[r] \notin HoldingSection => \A k \in 1..Len(claimed) : claimed[k] # msg[r]
          /\ pc[r] = "chkEmpty" => status[idx[r]] \in {"Empty", "Complete"}
          /\ pc[r] = "chkComplete" => status[idx[r]] = "Complete"
      BY <1>1, <3>1 DEF WritersInTurn, Ahead, Turn
    <3> QED BY <3>1, <3>2, <3>3, <3>4
  <2> QED BY <2>1, <2>2
<1>13. SlotsInTurn'
  BY <1>1, <1>3, <1>5, <1>8 DEF SlotsInTurn, Ahead, Turn
<1>14. ~conflicted'
  BY <1>1, <1>3, <1>9, <1>12, InTurnIsApart
<1> QED BY <1>9, <1>10, <1>11, <1>12, <1>13, <1>14 DEF JoinedInv

-----------------------------------------------------------------------------
(* The steps of a read, which has the ring to itself.                       *)

\* A step of a read outside its slot: before it takes one, or when it finds nothing.
LEMMA ReaderLooks ==
  ASSUME JoinedCallers, TypeOK, JoinedInv, BeginRead \/ CheckForData
  PROVE  JoinedInv'
<1> USE DEF header, slots, writers, reader, callers, laps, Alive, CGoto
<1>1. /\ ~conflicted /\ ReadsAlone /\ ClaimsOnce /\ UnreadBounded /\ IndicesApart
      /\ WritersInTurn /\ SlotsInTurn /\ ReadInTurn /\ DeliveredInTurn
  BY DEF JoinedInv
<1>2. /\ UNCHANGED <<producerIdx, consumerIdx, status, slot, pc, idx, msg, written, outcome,
                     delivered, claimed>>
      /\ cpc \in {"idle", "loadC"} /\ cpc' \in {"idle", "loadC", "take"}
      /\ RecordConflict
  BY DEF BeginRead, CheckForData, EndRead
<1>3. cpc \notin ReadingSection /\ cpc' \notin ReadingSection /\ cpc' \notin ResettingSection
  BY <1>2 DEF ReadingSection, ResettingSection
<1>4. Taken' = Taken /\ Waiting' = Waiting /\ Waiting \in Nat
  BY <1>1, <1>2, <1>3, FewWait DEF Taken, Waiting
<1>5. \A p \in Producers : pc[p] = "idle"
  BY <1>1 DEF ReadsAlone, BeginRead, CheckForData, EndRead, JoinedCallers
<1>6. cpc' = "take" => Waiting > 0
  <2> SUFFICES ASSUME cpc' = "take" PROVE Waiting # 0
    BY <1>4
  <2>1. cpc = "loadC" /\ cidx # consumerIdx
    BY DEF BeginRead, CheckForData, EndRead
  <2>2. producerIdx # consumerIdx
    BY <1>1, <2>1 DEF ReadsAlone
  <2>3. producerIdx \in Slots /\ consumerIdx \in Slots
    BY DEF TypeOK
  <2>4. Distance(consumerIdx, producerIdx) # 0
    BY <2>2, <2>3, Distances
  <2> QED BY <1>1, <2>4 DEF IndicesApart, Ahead
<1>7. ReadsAlone'
  <2>1. (cpc' # "idle" <=> lastRead' = "running") /\ lastRead' # "skipped"
        /\ (cpc' = "loadC" => cidx' = producerIdx')
    BY <1>1 DEF ReadsAlone, BeginRead, CheckForData, EndRead
  <2> QED BY <1>2, <1>3, <1>4, <1>5, <1>6, <2>1 DEF ReadsAlone
<1>8. ClaimsOnce' /\ UnreadBounded' /\ IndicesApart' /\ DeliveredInTurn'
  BY <1>1, <1>2, <1>4 DEF ClaimsOnce, UnreadBounded, Unread, IndicesApart, Ahead, DeliveredInTurn
<1>9. WritersInTurn' /\ ReadInTurn'
  BY <1>2, <1>3, <1>5 DEF WritersInTurn, ReadInTurn
<1>10. SlotsInTurn'
  BY <1>1, <1>2, <1>3, <1>4 DEF SlotsInTurn, Ahead, Turn
<1>11. ~conflicted'
  BY <1>1, <1>2, <1>7, <1>9, InTurnIsApart
<1> QED BY <1>7, <1>8, <1>9, <1>10, <1>11 DEF JoinedInv

\* The increment of the consumer index: the read has the first slot that is waited
\* for, and every other one is a position closer.
LEMMA ReaderTakes ==
  ASSUME JoinedCallers, TypeOK, JoinedInv, TakeConsumerIdx
  PROVE  JoinedInv'
<1> USE DEF header, slots, writers, reader, callers, laps, Alive, CGoto
<1>1. /\ ~conflicted /\ ReadsAlone /\ ClaimsOnce /\ UnreadBounded /\ IndicesApart
      /\ WritersInTurn /\ SlotsInTurn /\ ReadInTurn /\ DeliveredInTurn
  BY DEF JoinedInv
<1>2. /\ UNCHANGED <<producerIdx, status, slot, pc, idx, msg, written, outcome, delivered,
                     lastRead, claimed, got>>
      /\ cpc = "take" /\ cpc' = "chkReady" /\ cidx' = consumerIdx
      /\ consumerIdx' = NextIdx(consumerIdx)
      /\ RecordConflict
  BY DEF TakeConsumerIdx
<1>3. cpc \notin ReadingSection /\ cpc' \in ReadingSection /\ cpc' \notin ResettingSection
  BY <1>2 DEF ReadingSection, ResettingSection
<1>4. /\ SlotCount \in Nat \ {0} /\ consumerIdx \in Slots /\ producerIdx \in Slots
      /\ Len(claimed) \in Nat /\ Len(delivered) \in Nat /\ Taken \in Nat
      /\ Waiting \in Nat /\ Waiting < SlotCount /\ Waiting > 0
  BY <1>1, <1>2, FewWait, SlotCountAssumption DEF TypeOK, ReadsAlone
<1>5. Taken' = Taken + 1 /\ Waiting' = Waiting - 1
  <2>1. Taken' = Taken + 1
    BY <1>2, <1>3, <1>4 DEF Taken
  <2> QED BY <1>2, <1>4, <2>1 DEF Waiting
<1>6. \A p \in Producers : pc[p] = "idle" /\ pc[p] \notin HoldingSection
  BY <1>1, <1>2 DEF ReadsAlone, HoldingSection, WritingSection
<1>7. /\ Distance(consumerIdx, consumerIdx) = 0
      /\ Distance(consumerIdx', consumerIdx) = SlotCount - 1
      /\ \A s \in Slots : Distance(consumerIdx, s) \in 0..(SlotCount - 1)
      /\ \A s \in Slots \ {consumerIdx} :
           Distance(consumerIdx', s) = Distance(consumerIdx, s) - 1
  BY <1>2, <1>4, Distances
<1>8. ReadsAlone'
  BY <1>1, <1>2, <1>3 DEF ReadsAlone
<1>9. ClaimsOnce'
  <2>1. Waiting' >= 0
    BY <1>4, <1>5
  <2> QED BY <1>1, <1>2, <2>1 DEF ClaimsOnce
<1>10. UnreadBounded' /\ DeliveredInTurn'
  BY <1>1, <1>2 DEF UnreadBounded, Unread, DeliveredInTurn
<1>11. IndicesApart'
  <2>1. Distance(consumerIdx, producerIdx) = Waiting
    BY <1>1 DEF IndicesApart, Ahead
  <2>2. producerIdx # consumerIdx
    BY <1>4, <1>7, <2>1
  <2>3. Distance(consumerIdx', producerIdx) = Waiting - 1
    BY <1>4, <1>7, <2>1, <2>2
  <2> QED BY <1>2, <1>5, <2>3 DEF IndicesApart, Ahead
<1>12. WritersInTurn'
  BY <1>2, <1>6 DEF WritersInTurn
<1>13. \A s \in Slots : Distance(consumerIdx, s) < Waiting =>
          status[s] = "Ready" /\ slot[s] = Whole(claimed[Taken + Distance(consumerIdx, s) + 1])
  BY <1>1, <1>6 DEF SlotsInTurn, Ahead, Turn
<1>14. SlotsInTurn'
  <2> SUFFICES ASSUME NEW s \in Slots
      PROVE  /\ Distance(consumerIdx', s) < Waiting - 1 =>
                  /\ status[s] = "Ready"
                  /\ slot[s] = Whole(claimed[Taken + 1 + Distance(consumerIdx', s) + 1])
             /\ Distance(consumerIdx', s) >= Waiting - 1 =>
                  status[s] \in {"Empty", "Complete"} \/ s = consumerIdx
    BY <1>2, <1>3, <1>5 DEF SlotsInTurn, Ahead, Turn
  <2>1. CASE s = consumerIdx
    <3>1. ~(Distance(consumerIdx', s) < Waiting - 1)
      BY <1>4, <1>7, <2>1
    <3> QED BY <2>1, <3>1
  <2>2. CASE s # consumerIdx
    <3>1. PICK d \in 0..(SlotCount - 1) : d = Distance(consumerIdx, s)
      BY <1>7
    <3>2. Distance(consumerIdx', s) = d - 1
      BY <1>7, <2>2, <3>1
    <3>3. d - 1 < Waiting - 1 => d < Waiting /\ Taken + 1 + (d - 1) + 1 = Taken + d + 1
      BY <1>4, <3>1
    <3>4. d - 1 >= Waiting - 1 => d >= Waiting
      BY <1>4, <3>1
    <3>5. d >= Waiting => status[s] \in {"Empty", "Complete"}
      BY <1>1, <1>3, <3>1 DEF SlotsInTurn, Ahead
    <3> QED BY <1>13, <3>1, <3>2, <3>3, <3>4, <3>5
  <2> QED BY <2>1, <2>2
<1>15. ReadInTurn'
  <2>1. /\ status[consumerIdx] = "Ready"
        /\ slot[consumerIdx] = Whole(claimed[Taken + 1])
    <3>1. 0 < Waiting /\ Taken + 0 + 1 = Taken + 1
      BY <1>4
    <3> QED BY <1>4, <1>7, <1>13, <3>1
  <2> QED BY <1>2, <1>5, <1>7, <2>1 DEF ReadInTurn, Ahead
<1>16. ~conflicted'
  BY <1>1, <1>2, <1>8, <1>12, InTurnIsApart
<1> QED BY <1>8, <1>9, <1>10, <1>11, <1>12, <1>14, <1>15, <1>16 DEF JoinedInv

\* A step of a read that stays in its slot, after the first test of the status.
LEMMA ReaderMoves ==
  ASSUME JoinedCallers, TypeOK, JoinedInv, RecordConflict,
         cpc \in ReadingSection \ {"count"},
         cpc' \in ReadingSection \ ({"chkReady"} \cup ResettingSection),
         cpc' = "count" => got' = slot[cidx] /\ status'[cidx] = "Complete",
         \A s \in Slots \ {cidx} : status'[s] = status[s],
         UNCHANGED <<producerIdx, consumerIdx, slot, pc, idx, msg, written, outcome, delivered,
                     lastRead, claimed, cidx>>
  PROVE  JoinedInv'
<1>1. /\ ~conflicted /\ ReadsAlone /\ ClaimsOnce /\ UnreadBounded /\ IndicesApart
      /\ WritersInTurn /\ SlotsInTurn /\ ReadInTurn /\ DeliveredInTurn
  BY DEF JoinedInv
<1>2. /\ cpc # "idle" /\ cpc' # "idle" /\ cpc' \notin {"loadC", "take", "chkReady"}
      /\ \A p \in Producers : pc[p] = "idle" /\ pc[p] \notin HoldingSection
  <2>1. cpc # "idle" /\ cpc' # "idle" /\ cpc' \notin {"loadC", "take", "chkReady"}
    BY DEF ReadingSection, ResettingSection
  <2> QED BY <1>1, <2>1 DEF ReadsAlone, HoldingSection, WritingSection
<1>3. Taken' = Taken /\ Waiting' = Waiting
  BY DEF Taken, Waiting
<1>4. ReadsAlone' /\ ClaimsOnce' /\ UnreadBounded' /\ IndicesApart' /\ DeliveredInTurn'
  BY <1>1, <1>2, <1>3 DEF ReadsAlone, ClaimsOnce, UnreadBounded, Unread, IndicesApart, Ahead,
     DeliveredInTurn
<1>5. WritersInTurn'
  BY <1>2 DEF WritersInTurn
<1>6. ReadInTurn'
  BY <1>1, <1>2, <1>3 DEF ReadInTurn, Ahead
<1>7. SlotsInTurn'
  <2> SUFFICES ASSUME NEW s \in Slots
      PROVE  /\ Distance(consumerIdx, s) < Waiting =>
                  /\ status'[s] = "Ready"
                  /\ slot[s] = Whole(claimed[Taken + Distance(consumerIdx, s) + 1])
             /\ Distance(consumerIdx, s) >= Waiting =>
                  status'[s] \in {"Empty", "Complete"} \/ s = cidx
    BY <1>3 DEF SlotsInTurn, Ahead, Turn
  <2>1. CASE s = cidx
    <3>1. Waiting \in Nat /\ Waiting + 1 < SlotCount /\ SlotCount \in Nat
      BY <1>1, FewWait, SlotCountAssumption
    <3>2. Distance(consumerIdx, s) = SlotCount - 1
      BY <1>1, <2>1 DEF ReadInTurn, Ahead
    <3>3. ~(Distance(consumerIdx, s) < Waiting)
      BY <3>1, <3>2
    <3> QED BY <2>1, <3>3
  <2>2. CASE s # cidx
    BY <1>1, <1>2, <2>2 DEF SlotsInTurn, Ahead, Turn
  <2> QED BY <2>1, <2>2
<1>8. ~conflicted'
  BY <1>1, <1>4, <1>5, InTurnIsApart
<1> QED BY <1>4, <1>5, <1>6, <1>7, <1>8 DEF JoinedInv

\* The two tests find the slot Ready, the copy is the whole message, and nothing is
\* left to reset.
LEMMA ReaderCopies ==
  ASSUME JoinedCallers, TypeOK, StatusInv, ContentsInv, JoinedInv,
         CheckReady \/ LoadSlot \/ SetReading \/ SetComplete \/ ResetAfterRead
  PROVE  JoinedInv'
<1> USE DEF header, slots, writers, reader, callers, laps, Alive, CGoto
<1>1. ~conflicted /\ ReadsAlone /\ ReadInTurn /\ ReaderSees
      /\ cidx \in Slots /\ status \in [Slots -> Statuses]
  BY DEF JoinedInv, StatusInv, TypeOK
<1>2. CASE CheckReady
  <2>1. PICK from \in {"chkReady", "recheck"}, to \in {"loadOp", "setReading"} :
          TestReady(from, to)
    BY <1>2 DEF CheckReady
  <2>2. cpc \in ReadingSection /\ cpc \in {"chkReady", "recheck"}
    BY <2>1 DEF TestReady, ReadingSection
  <2>3. status[cidx] = "Ready"
    BY <1>1, <2>2 DEF ReadInTurn, ReaderSees
  <2>4. cpc' = to
    BY <2>1, <2>3 DEF TestReady
  <2>5. cpc' \in ReadingSection \ ({"chkReady", "count"} \cup ResettingSection)
    BY <2>4 DEF ReadingSection, ResettingSection
  <2> QED BY <2>1, <2>2, <2>5, ReaderMoves DEF TestReady
<1>3. ASSUME NEW from, NEW to, NEW f, LoadPart(from, to, f),
             <<from, to>> \in {<<"loadOp", "recheck">>, <<"loadSize", "copyLow">>,
                               <<"copyLow", "copyHigh">>, <<"copyHigh", "setComplete">>}
      PROVE  JoinedInv'
  <2>1. /\ from \in ReadingSection \ {"count"}
        /\ to \in ReadingSection \ ({"chkReady", "count"} \cup ResettingSection)
    BY <1>3 DEF ReadingSection, ResettingSection
  <2> QED BY <1>3, <2>1, ReaderMoves DEF LoadPart
<1>4. CASE LoadSlot
  BY <1>3, <1>4 DEF LoadSlot
<1>5. CASE SetReading \/ SetComplete
  <2>1. /\ cpc \in ReadingSection \ {"count"}
        /\ cpc' \in ReadingSection \ ({"chkReady"} \cup ResettingSection)
    BY <1>5 DEF SetReading, SetComplete, ReaderStoresStatus, ReadingSection, ResettingSection
  <2>2. cpc' = "count" => got = slot[cidx] /\ status'[cidx] = "Complete"
    BY <1>1, <1>5, CopyIsFull DEF SetReading, SetComplete, ReaderStoresStatus
  <2>3. \A s \in Slots \ {cidx} : status'[s] = status[s]
    BY <1>1, <1>5 DEF SetReading, SetComplete, ReaderStoresStatus
  <2> QED BY <1>5, <2>1, <2>2, <2>3, ReaderMoves DEF SetReading, SetComplete, ReaderStoresStatus
<1>6. CASE ResetAfterRead
  <2>1. cpc \in ResettingSection
    BY <1>6 DEF ResetAfterRead, ReaderStoresStatus, EndRead, ResettingSection
  <2> QED BY <1>1, <2>1 DEF ReadsAlone
<1> QED BY <1>2, <1>4, <1>5, <1>6

\* The return of a read: the message it took is the next one delivered.
LEMMA ReaderReturns ==
  ASSUME JoinedCallers, TypeOK, JoinedInv, ReturnData
  PROVE  JoinedInv'
<1> USE DEF header, slots, writers, reader, callers, laps, Alive, CGoto
<1>1. /\ ~conflicted /\ ReadsAlone /\ ClaimsOnce /\ UnreadBounded /\ IndicesApart
      /\ WritersInTurn /\ SlotsInTurn /\ ReadInTurn /\ DeliveredInTurn
  BY DEF JoinedInv
<1>2. /\ UNCHANGED <<producerIdx, consumerIdx, status, slot, pc, idx, msg, written, outcome,
                     claimed>>
      /\ cpc = "count" /\ cpc' = "idle" /\ lastRead' = "data"
      /\ delivered' = Append(delivered, got)
      /\ RecordConflict
  BY DEF ReturnData, EndRead
<1>3. cpc \in ReadingSection /\ cpc' \notin ReadingSection /\ cpc' \notin ResettingSection
  BY <1>2 DEF ReadingSection, ResettingSection
<1>4. /\ delivered \in Seq(SlotParts) /\ got \in SlotParts /\ Len(delivered) \in Nat
      /\ Taken = Len(delivered) + 1
  BY <1>3 DEF TypeOK, Taken
<1>5. /\ Len(delivered') = Len(delivered) + 1 /\ delivered'[Len(delivered) + 1] = got
      /\ \A i \in 1..Len(delivered) : delivered'[i] = delivered[i]
  BY <1>2, <1>4
<1>6. Taken' = Taken /\ Waiting' = Waiting
  <2>1. Taken' = Taken
    BY <1>3, <1>4, <1>5 DEF Taken
  <2> QED BY <1>2, <2>1 DEF Waiting
<1>7. \A p \in Producers : pc[p] = "idle"
  BY <1>1, <1>2 DEF ReadsAlone
<1>8. got = Whole(claimed[Taken]) /\ status[cidx] = "Complete"
  BY <1>1, <1>2, <1>3 DEF ReadInTurn
<1>9. ReadsAlone'
  BY <1>2, <1>3, <1>7 DEF ReadsAlone
<1>10. ClaimsOnce' /\ IndicesApart'
  BY <1>1, <1>2, <1>6 DEF ClaimsOnce, IndicesApart, Ahead
<1>11. UnreadBounded'
  <2> DEFINE S == {m \in Messages : outcome[m] \in {"pending", "ok"}}
  <2>1. Cardinality(S) \in Nat /\ MaxUnread \in Nat
    BY MessagesFinite, BoundsAssumption
  <2>2. Unread = Cardinality(S) - Len(delivered) /\ Unread' = Cardinality(S) - Len(delivered')
    BY <1>2 DEF Unread
  <2> HIDE DEF S
  <2> QED BY <1>1, <1>4, <1>5, <2>1, <2>2 DEF UnreadBounded
<1>12. WritersInTurn' /\ ReadInTurn'
  BY <1>2, <1>3, <1>7 DEF WritersInTurn, ReadInTurn
<1>13. SlotsInTurn'
  <2> SUFFICES ASSUME NEW s \in Slots
      PROVE  /\ Distance(consumerIdx, s) < Waiting =>
                  \/ /\ status[s] = "Ready"
                     /\ slot[s] = Whole(claimed[Taken + Distance(consumerIdx, s) + 1])
                  \/ \E q \in Producers : pc[q] \in HoldingSection /\ idx[q] = s
             /\ Distance(consumerIdx, s) >= Waiting => status[s] \in {"Empty", "Complete"}
    BY <1>2, <1>3, <1>6 DEF SlotsInTurn, Ahead, Turn
  <2> QED BY <1>1, <1>8 DEF SlotsInTurn, Ahead, Turn
<1>14. DeliveredInTurn'
  BY <1>1, <1>2, <1>4, <1>5, <1>8 DEF DeliveredInTurn
<1>15. ~conflicted'
  BY <1>1, <1>2, <1>9, <1>12, InTurnIsApart
<1> QED BY <1>9, <1>10, <1>11, <1>12, <1>13, <1>14, <1>15 DEF JoinedInv

-----------------------------------------------------------------------------
(* The theorems.                                                            *)

LEMMA JoinedInit == JoinedCallers /\ Init => JoinedInv
<1> SUFFICES ASSUME JoinedCallers, Init PROVE JoinedInv
  OBVIOUS
<1>1. /\ Len(claimed) = 0 /\ Len(delivered) = 0 /\ Taken = 0 /\ Waiting = 0
  <2>1. Len(claimed) = 0 /\ Len(delivered) = 0
    BY DEF Init
  <2>2. cpc \notin ReadingSection
    BY DEF Init, ReadingSection, ResettingSection
  <2>3. Taken = 0
    BY <2>1, <2>2 DEF Taken
  <2> QED BY <2>1, <2>3 DEF Waiting
<1>2. \A p \in Producers : pc[p] = "idle"
  BY DEF Init
<1>3. 0 \in Slots
  BY Constants
<1>4. ReadsAlone /\ WritersInTurn /\ ReadInTurn /\ DeliveredInTurn
  BY <1>1, <1>2 DEF Init, ReadsAlone, WritersInTurn, ReadInTurn, DeliveredInTurn,
     ReadingSection, ResettingSection
<1>5. ClaimsOnce
  BY <1>1 DEF Init, ClaimsOnce
<1>6. UnreadBounded
  <2>1. {m \in Messages : outcome[m] \in {"pending", "ok"}} = {}
    BY DEF Init
  <2>2. Unread = 0
    BY <1>1, <2>1, FS_EmptySet DEF Unread
  <2> QED BY <2>2, BoundsAssumption DEF UnreadBounded
<1>7. IndicesApart
  <2>1. Distance(0, 0) = 0
    BY <1>3, Distances
  <2> QED BY <1>1, <2>1 DEF Init, IndicesApart, Ahead
<1>8. SlotsInTurn
  <2> SUFFICES ASSUME NEW s \in Slots
               PROVE  ~(Distance(0, s) < 0) /\ status[s] = "Empty"
    BY <1>1 DEF Init, SlotsInTurn, Ahead
  <2>1. Distance(0, s) \in 0..(SlotCount - 1)
    BY <1>3, Distances
  <2> QED BY <2>1, SlotCountAssumption DEF Init
<1> QED BY <1>4, <1>5, <1>6, <1>7, <1>8 DEF Init, JoinedInv

LEMMA JoinedStep ==
  ASSUME JoinedCallers, TypeOK, StatusInv, ContentsInv, JoinedInv, [Next]_vars
  PROVE  JoinedInv'
<1>1. TypeOK'
  BY StepTyped
<1>2. ~(crashes < MaxCrashes)
  BY DEF JoinedCallers, TypeOK
<1>3. ASSUME NEW p \in Producers, WriteStep(p)
      PROVE  JoinedInv'
  <2>1. CASE CasProducerIdx(p)
    <3>1. (idx[p] = producerIdx /\ TakeIdx(p)) \/ idx[p] # producerIdx
      BY <2>1 DEF CasProducerIdx
    <3> QED BY <1>1, <2>1, <3>1, WriterTakes, WriterGoesOn
  <2>2. CASE SetReady(p)
    BY <2>2, WriterReturns
  <2> QED BY <1>3, <2>1, <2>2, WriterGoesOn DEF WriteStep
<1>4. ASSUME NEW p \in Producers, RejectOversized(p) \/ BeginWrite(p) \/ CrashWrite(p)
      PROVE  JoinedInv'
  BY <1>2, <1>4, WriteBegins DEF CrashWrite
<1>5. CASE BeginRead \/ CheckForData
  BY <1>5, ReaderLooks
<1>6. CASE TakeConsumerIdx
  BY <1>6, ReaderTakes
<1>7. CASE CheckReady \/ LoadSlot \/ SetReading \/ SetComplete \/ ResetAfterRead
  BY <1>7, ReaderCopies
<1>8. CASE ReturnData
  BY <1>8, ReaderReturns
<1>9. CASE CrashRead
  BY <1>2, <1>9 DEF CrashRead
<1>10. CASE UNCHANGED vars
  <2>1. UNCHANGED <<producerIdx, consumerIdx, status, slot, pc, idx, msg, cpc, cidx, got,
                    written, outcome, delivered, lastRead, claimed, conflicted>>
    BY <1>10 DEF vars, header, slots, writers, reader, callers
  <2>2. Taken' = Taken /\ Waiting' = Waiting
    BY <2>1 DEF Taken, Waiting
  <2> QED BY <2>1, <2>2 DEF JoinedInv, ReadsAlone, ClaimsOnce, UnreadBounded, Unread,
       IndicesApart, WritersInTurn, SlotsInTurn, ReadInTurn, DeliveredInTurn, Ahead, Turn
<1> QED BY <1>3, <1>4, <1>5, <1>6, <1>7, <1>8, <1>9, <1>10 DEF Next, ReadStep

\* With the layers about the status and the contents of a slot, it is inductive.
FullInv == TypeOK /\ StatusInv /\ ContentsInv /\ JoinedInv

LEMMA FullInvariant == ASSUME JoinedCallers PROVE Spec => []FullInv
<1>1. Init => FullInv
  BY InitTyped, StatusInit, ContentsInit, JoinedInit DEF FullInv
<1>2. FullInv /\ [Next]_vars => FullInv'
  BY StepTyped, StatusStep, ContentsStep, JoinedStep DEF FullInv
<1> QED BY <1>1, <1>2, PTL DEF Spec

\* Callers that keep reads apart from writes and fewer messages unread than there are
\* slots: no two calls meet in a slot, no write finds the ring full, no read finds its
\* slot not Ready, for every number of producers, slots and messages.
THEOREM JoinedCallsNeverMeet == ASSUME JoinedCallers PROVE Spec => []CallsNeverMeet
<1>1. FullInv => CallsNeverMeet
  BY DEF FullInv, JoinedInv, ClaimsOnce, ReadsAlone, CallsNeverMeet
<1> QED BY <1>1, FullInvariant, PTL

-----------------------------------------------------------------------------
(* The ring is the queue of the contract.                                   *)

\* The messages that the slots read stand for: what the contract calls out.
Sent(d) == [i \in DOMAIN d |-> IF d[i] = Whole(d[i].low) THEN d[i].low ELSE NoMsg]

LEMMA SentOfNone == Sent(<<>>) = <<>>
BY DEF Sent

LEMMA SentAppends ==
  ASSUME NEW d \in Seq(SlotParts), NEW m \in Messages
  PROVE  Sent(Append(d, Whole(m))) = Append(Sent(d), m)
<1>1. PICK n \in Nat : n = Len(d)
  OBVIOUS
<1>2. Messages \subseteq MsgField /\ NoMsg \in MsgField
  BY Constants
<1>3. Whole(m) \in SlotParts /\ Whole(m).low = m
  BY <1>2 DEF Whole, SlotParts, Parts
<1>4. /\ Append(d, Whole(m)) \in Seq(SlotParts) /\ Len(Append(d, Whole(m))) = n + 1
      /\ Append(d, Whole(m))[n + 1] = Whole(m)
      /\ \A i \in 1..n : Append(d, Whole(m))[i] = d[i]
  BY <1>1, <1>3
<1>5. \A i \in 1..n : d[i] \in SlotParts /\ d[i].low \in MsgField
  BY <1>1 DEF SlotParts, Parts
<1>6. Sent(d) \in [1..n -> MsgField]
  <2>1. DOMAIN d = 1..n
    BY <1>1
  <2> QED BY <1>2, <1>5, <2>1 DEF Sent
<1>7. Sent(d) \in Seq(MsgField) /\ Len(Sent(d)) = n
  BY <1>6, SeqDef
<1>8. /\ Append(Sent(d), m) \in Seq(MsgField) /\ Len(Append(Sent(d), m)) = n + 1
      /\ Append(Sent(d), m)[n + 1] = m
      /\ \A i \in 1..n : Append(Sent(d), m)[i] = Sent(d)[i]
  BY <1>2, <1>7, AppendProperties
<1>9. DOMAIN Append(d, Whole(m)) = 1..(n + 1)
  BY <1>4
<1>10. Sent(Append(d, Whole(m))) \in [1..(n + 1) -> MsgField]
  <2>1. \A i \in 1..(n + 1) : Append(d, Whole(m))[i].low \in MsgField
    BY <1>2, <1>3, <1>4, <1>5
  <2> QED BY <1>2, <1>9, <2>1 DEF Sent
<1>11. Append(Sent(d), m) \in [1..(n + 1) -> MsgField]
  BY <1>8, LenProperties
<1>12. \A i \in 1..(n + 1) : Sent(Append(d, Whole(m)))[i] = Append(Sent(d), m)[i]
  <2> SUFFICES ASSUME NEW i \in 1..(n + 1)
               PROVE  Sent(Append(d, Whole(m)))[i] = Append(Sent(d), m)[i]
    OBVIOUS
  <2>1. CASE i = n + 1
    BY <1>3, <1>4, <1>8, <1>9, <2>1 DEF Sent
  <2>2. CASE i # n + 1
    <3>1. i \in 1..n /\ DOMAIN d = 1..n
      BY <1>1, <2>2
    <3> QED BY <1>4, <1>8, <1>9, <3>1 DEF Sent
  <2> QED BY <2>1, <2>2
<1> QED BY <1>10, <1>11, <1>12

\* One more at the end of a sequence is one more at the end of what is left of it.
LEMMA SubSeqAppend ==
  ASSUME NEW S, NEW s \in Seq(S), NEW x \in S, NEW k \in 1..(Len(s) + 1)
  PROVE  SubSeq(Append(s, x), k, Len(s) + 1) = Append(SubSeq(s, k, Len(s)), x)
<1>1. PICK n \in Nat : n = Len(s)
  OBVIOUS
<1>2. PICK t \in Seq(S) : t = Append(s, x)
  BY AppendProperties
<1>3. Len(t) = n + 1 /\ t[n + 1] = x /\ \A i \in 1..n : t[i] = s[i]
  BY <1>1, <1>2, AppendProperties
<1>4. SubSeq(t, k, n + 1) = SubSeq(t, k, n) \o <<x>>
  <2>1. SubSeq(t, k, n + 1) = SubSeq(t, k, (n + 1) - 1) \o <<t[n + 1]>>
    <3>1. k \in 1..Len(t) /\ n + 1 \in k..Len(t)
      BY <1>1, <1>3
    <3> QED BY <3>1, SubSeqRecursiveSecond
  <2>2. (n + 1) - 1 = n
    OBVIOUS
  <2> QED BY <1>3, <2>1, <2>2
<1>5. SubSeq(t, k, n) = SubSeq(s, k, n) /\ SubSeq(s, k, n) \in Seq(S)
  <2>1. CASE k <= n
    <3>1. t = s \o <<x>>
      BY <1>2, AppendIsConcat
    <3>2. k \in 1..Len(s) /\ n \in 1..Len(s) /\ <<x>> \in Seq(S)
      BY <1>1, <2>1
    <3>3. SubSeq(t, k, n) = SubSeq(s, k, n)
      BY <3>1, <3>2, SubSeqOfConcat1
    <3> QED BY <1>1, <3>2, <3>3, SubSeqProperties
  <2>2. CASE ~(k <= n)
    BY <1>1, <2>2, SubSeqEmpty
  <2> QED BY <2>1, <2>2
<1> QED BY <1>1, <1>2, <1>4, <1>5, AppendIsConcat

LEMMA ContractInit == Init => Contract!Init
<1> SUFFICES ASSUME Init PROVE Contract!Init
  OBVIOUS
<1>1. claimed = <<>> /\ delivered = <<>> /\ lastRead = "none"
  BY DEF Init
<1>2. SubSeq(claimed, Len(delivered) + 1, Len(claimed)) = <<>>
  <2>1. Len(claimed) = 0 /\ Len(delivered) + 1 = 1
    BY <1>1
  <2> QED BY <2>1, SubSeqEmpty
<1>3. Sent(delivered) = <<>>
  BY <1>1, SentOfNone
<1> QED BY <1>1, <1>2, <1>3 DEF Contract!Init, Sent

\* Every step is a step of the contract, or nothing to it: the compare-and-swap puts,
\* the begin of a read asks, the test that finds no data and the return of the data answer.
LEMMA ContractStep ==
  ASSUME JoinedCallers, FullInv, [Next]_vars
  PROVE  [Contract!Next]_Contract!vars
<1> USE DEF header, slots, writers, reader, callers, laps, Alive, Goto, CGoto
<1>1. /\ TypeOK /\ ReadsAlone /\ ClaimsOnce /\ UnreadBounded /\ IndicesApart /\ ReadInTurn
      /\ DeliveredInTurn
  BY DEF FullInv, JoinedInv
<1>2. /\ claimed \in Seq(Messages) /\ delivered \in Seq(SlotParts)
      /\ Len(claimed) \in Nat /\ Len(delivered) \in Nat /\ Taken \in Nat /\ Waiting \in Nat
      /\ Waiting = Len(claimed) - Taken
  BY <1>1, FewWait DEF TypeOK, Waiting
<1>3. Len(delivered) <= Taken
  BY <1>2 DEF Taken
<1>4. CASE UNCHANGED <<claimed, delivered, lastRead>>
  BY <1>4 DEF Contract!vars
<1>5. ASSUME NEW p \in Producers, TakeIdx(p)
      PROVE  Contract!Next
  <2>1. msg[p] \in Messages /\ claimed' = Append(claimed, msg[p]) /\ UNCHANGED <<delivered, lastRead>>
    BY <1>1, <1>5 DEF TakeIdx, TypeOK
  <2>2. Len(claimed') = Len(claimed) + 1
    BY <1>2, <2>1
  <2>3. SubSeq(claimed', Len(delivered') + 1, Len(claimed'))
          = Append(SubSeq(claimed, Len(delivered) + 1, Len(claimed)), msg[p])
    <3>1. Len(delivered) + 1 \in 1..(Len(claimed) + 1)
      BY <1>2, <1>3
    <3> QED BY <1>2, <2>1, <2>2, <3>1, SubSeqAppend
  <2> QED BY <2>1, <2>3 DEF Contract!Next, Contract!Put
<1>6. CASE BeginRead
  <2>1. lastRead # "running" /\ lastRead' = "running" /\ UNCHANGED <<claimed, delivered>>
    BY <1>1, <1>6 DEF BeginRead, ReadsAlone
  <2> QED BY <2>1 DEF Contract!Next, Contract!Ask
<1>7. CASE CheckForData
  <2>1. CASE cidx = consumerIdx
    <3>1. cpc = "loadC" /\ lastRead' = "empty" /\ UNCHANGED <<claimed, delivered>>
      BY <1>7, <2>1 DEF CheckForData, EndRead
    <3>2. lastRead = "running" /\ producerIdx = consumerIdx /\ cpc \notin ReadingSection
      BY <1>1, <2>1, <3>1 DEF ReadsAlone, ReadingSection, ResettingSection
    <3>3. consumerIdx \in Slots
      BY <1>1 DEF TypeOK
    <3>4. Waiting = 0
      BY <1>1, <3>2, <3>3, Distances DEF IndicesApart, Ahead
    <3>5. Len(delivered) = Len(claimed)
      BY <1>2, <3>2, <3>4 DEF Taken
    <3>6. SubSeq(claimed, Len(delivered) + 1, Len(claimed)) = <<>>
      BY <1>2, <3>5, SubSeqEmpty
    <3> QED BY <3>1, <3>2, <3>6 DEF Contract!Next, Contract!Nothing
  <2>2. CASE cidx # consumerIdx
    BY <1>4, <1>7, <2>2 DEF CheckForData
  <2> QED BY <2>1, <2>2
<1>8. CASE ReturnData
  <2>1. /\ cpc = "count" /\ lastRead' = "data" /\ delivered' = Append(delivered, got)
        /\ UNCHANGED claimed
    BY <1>8 DEF ReturnData, EndRead
  <2>2. cpc \in ReadingSection /\ lastRead = "running"
    BY <1>1, <2>1 DEF ReadsAlone, ReadingSection
  <2>3. PICK n \in Nat : n = Len(delivered)
    BY <1>2
  <2>4. Taken = n + 1 /\ n + 1 \in 1..Len(claimed)
    BY <1>2, <2>2, <2>3 DEF Taken
  <2>5. got = Whole(claimed[n + 1]) /\ claimed[n + 1] \in Messages
    BY <1>1, <1>2, <2>1, <2>2, <2>4 DEF ReadInTurn
  <2>6. Sent(delivered') = Append(Sent(delivered), claimed[n + 1])
    BY <1>2, <2>1, <2>5, SentAppends
  <2>7. Len(delivered') = n + 1
    BY <1>2, <2>1, <2>3
  <2>8. /\ Head(SubSeq(claimed, n + 1, Len(claimed))) = claimed[n + 1]
        /\ Tail(SubSeq(claimed, n + 1, Len(claimed))) = SubSeq(claimed, n + 1 + 1, Len(claimed))
        /\ SubSeq(claimed, n + 1, Len(claimed)) # <<>>
    <3>1. Len(claimed) \in (n + 1)..Len(claimed)
      BY <1>2, <2>4
    <3>2. \A i \in (n + 1)..Len(claimed) : claimed[i] \in Messages
      BY <1>2, <2>4
    <3>3. Len(SubSeq(claimed, n + 1, Len(claimed))) # 0
      BY <1>2, <2>4, <3>2, SubSeqProperties
    <3>4. SubSeq(claimed, n + 1, Len(claimed)) # <<>>
      BY <3>3, EmptySeq
    <3> QED BY <1>2, <2>4, <3>1, <3>4, HeadTailOfSubSeq
  <2> QED BY <2>1, <2>2, <2>3, <2>6, <2>7, <2>8 DEF Contract!Next, Contract!Take, Sent
<1>9. ASSUME NEW p \in Producers, WriteStep(p)
      PROVE  TakeIdx(p) \/ UNCHANGED <<claimed, delivered, lastRead>>
  BY <1>9 DEF WriteStep, LoadProducerIdx, LoadConsumerIdx, LoadCurrent, CasProducerIdx,
     CheckEmpty, CheckComplete, ResetForWrite, SetOperation, MarkWriting, FillSlot,
     StoreStatus, StorePart, SetReady
<1>10. ASSUME NEW p \in Producers, RejectOversized(p) \/ BeginWrite(p) \/ CrashWrite(p)
       PROVE  UNCHANGED <<claimed, delivered, lastRead>>
  BY <1>10 DEF RejectOversized, BeginWrite, CrashWrite
<1>11. CASE \/ TakeConsumerIdx \/ CheckReady \/ LoadSlot \/ SetReading \/ SetComplete
            \/ UNCHANGED vars
  BY <1>4, <1>11 DEF TakeConsumerIdx, CheckReady, TestReady, LoadSlot, LoadPart, SetReading,
     SetComplete, ReaderStoresStatus, vars
<1>12. CASE ResetAfterRead \/ CrashRead
  <2>1. ~CrashRead
    BY <1>1 DEF CrashRead, JoinedCallers, TypeOK
  <2>2. ~ResetAfterRead
    BY <1>1 DEF ReadsAlone, ResetAfterRead, ReaderStoresStatus, EndRead, ResettingSection
  <2> QED BY <1>12, <2>1, <2>2
<1> QED BY <1>4, <1>5, <1>6, <1>7, <1>8, <1>9, <1>10, <1>11, <1>12 DEF Next, ReadStep

\* For those callers the ring is a queue, first in, first out: no message is lost,
\* doubled, mixed with another or overtaken, and read answers None only when every
\* message that has a position was delivered.
THEOREM RingImplementsContract == ASSUME JoinedCallers PROVE Spec => ImplementsContract
<1>1. Init => Contract!Init
  BY ContractInit
<1>2. FullInv /\ [Next]_vars => [Contract!Next]_Contract!vars
  BY ContractStep
<1> QED BY <1>1, <1>2, FullInvariant, PTL DEF Spec, Contract!Spec, ImplementsContract

=============================================================================
