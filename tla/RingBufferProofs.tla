-------------------------- MODULE RingBufferProofs --------------------------
(***************************************************************************)
(* Theorems about the ring of RingBuffer.tla, for every number of           *)
(* producers, slots, attempts and messages, in both calling disciplines:    *)
(* types and indices, the positions handed out, and then the status field   *)
(* and what becomes of the messages.                                        *)
(***************************************************************************)
EXTENDS RingBuffer, FiniteSetTheorems, TLAPS

-----------------------------------------------------------------------------
(* Index arithmetic.                                                        *)

\* The wrapped increment of next_producer_idx and next_consumer_idx, as a case
\* distinction: the next slot, or slot 0 after the last one.
LEMMA NextIdxCases ==
  ASSUME NEW i \in Slots
  PROVE  /\ NextIdx(i) \in Slots
         /\ NextIdx(i) = IF i + 1 = SlotCount THEN 0 ELSE i + 1
<1>1. SlotCount \in Nat \ {0} /\ i \in 0..(SlotCount - 1)
  BY SlotCountAssumption DEF Slots
<1>2. CASE i + 1 = SlotCount
  <2>1. (i + 1) % SlotCount = 0
    BY <1>1, <1>2
  <2> QED BY <1>1, <1>2, <2>1 DEF NextIdx, Slots
<1>3. CASE i + 1 # SlotCount
  <2>1. i + 1 \in 0..(SlotCount - 1)
    BY <1>1, <1>3
  <2>2. (i + 1) % SlotCount = i + 1
    BY <1>1, <2>1
  <2> QED BY <1>1, <1>3, <2>1, <2>2 DEF NextIdx, Slots
<1> QED BY <1>2, <1>3

\* The fullness test of wait_for_slot can never fail: whatever the two indices
\* are, it counts at least one free slot, so a full ring goes unnoticed.
THEOREM FullnessNeverSeen ==
  ASSUME NEW p \in Slots, NEW c \in Slots
  PROVE  AvailableSlots(p, c) \in 1..SlotCount
BY SlotCountAssumption DEF AvailableSlots, Slots

-----------------------------------------------------------------------------
(* Type correctness.                                                        *)

\* The sets a step's typing depends on.
LEMMA Constants ==
  /\ SlotCount \in Nat \ {0} /\ MaxAttempts \in Nat /\ MaxWrites \in Nat /\ MaxCrashes \in Nat
  /\ 0 \in Slots /\ NoMsg \in MsgField /\ Messages \subseteq MsgField
  /\ Blank \in SlotParts
BY SlotCountAssumption, BoundsAssumption
   DEF Slots, MsgField, Messages, NoMsg, Blank, SlotParts

\* The initial state is well typed.
LEMMA InitTyped == Init => TypeOK
<1> SUFFICES ASSUME Init PROVE TypeOK
  OBVIOUS
<1>1. /\ status \in [Slots -> Statuses]
      /\ slot \in [Slots -> SlotParts]
      /\ outcome \in [Messages -> Outcomes]
  BY Constants DEF Init, Statuses, Outcomes
<1>2. /\ pc \in [Producers -> ProducerLabels]
      /\ idx \in [Producers -> Slots]
      /\ attempt \in [Producers -> 0..MaxAttempts]
      /\ msg \in [Producers -> MsgField]
      /\ lap \in [Producers -> Nat]
      /\ \A p \in Producers : pc[p] # "idle" => msg[p] \in Messages
  BY Constants DEF Init, ProducerLabels
<1>3. /\ cpc \in ReaderLabels /\ cidx \in Slots /\ got \in SlotParts
      /\ lastRead \in Replies
  BY Constants DEF Init, ReaderLabels, Replies
<1>4. delivered \in Seq(SlotParts) /\ claimed \in Seq(Messages)
  BY DEF Init
<1> QED BY <1>1, <1>2, <1>3, <1>4, Constants DEF Init, TypeOK

\* The two ways a write call leaves its loop or its last store.
LEMMA FinishTyped ==
  ASSUME TypeOK, NEW p \in Producers, NEW from, NEW result \in Outcomes,
         from # "idle", Finish(p, from, result)
  PROVE  /\ pc' \in [Producers -> ProducerLabels]
         /\ idx' \in [Producers -> Slots]
         /\ attempt' \in [Producers -> 0..MaxAttempts]
         /\ msg' \in [Producers -> MsgField]
         /\ \A q \in Producers : pc'[q] # "idle" => msg'[q] \in Messages
         /\ outcome' \in [Messages -> Outcomes]
         /\ lap' \in [Producers -> Nat]
BY Constants DEF TypeOK, Finish, Goto, ProducerLabels

LEMMA RetryTyped ==
  ASSUME TypeOK, NEW p \in Producers, NEW from, from # "idle", Retry(p, from)
  PROVE  /\ pc' \in [Producers -> ProducerLabels]
         /\ idx' \in [Producers -> Slots]
         /\ attempt' \in [Producers -> 0..MaxAttempts]
         /\ msg' \in [Producers -> MsgField]
         /\ \A q \in Producers : pc'[q] # "idle" => msg'[q] \in Messages
         /\ outcome' \in [Messages -> Outcomes]
         /\ lap' \in [Producers -> Nat]
<1>1. CASE Finish(p, from, "full")
  BY <1>1, FinishTyped DEF Outcomes
<1>2. CASE /\ attempt[p] + 1 <= MaxAttempts
           /\ Goto(p, from, "loadP")
           /\ attempt' = [attempt EXCEPT ![p] = @ + 1]
           /\ idx' = [idx EXCEPT ![p] = 0]
           /\ lap' = [lap EXCEPT ![p] = 0]
           /\ UNCHANGED <<msg, outcome>>
  BY <1>2, Constants DEF TypeOK, Goto, ProducerLabels
<1> QED BY <1>1, <1>2 DEF Retry

\* Every step of a write call keeps the types.
LEMMA WriteTyped ==
  ASSUME TypeOK, NEW p \in Producers, WriteStep(p)
  PROVE  TypeOK'
<1> USE DEF header, slots, writers, reader, callers, laps, Alive
<1>1. CASE LoadProducerIdx(p)
  BY <1>1 DEF LoadProducerIdx, Goto, TypeOK, ProducerLabels, RecordConflict
<1>2. CASE LoadConsumerIdx(p)
  <2>1. CASE AvailableSlots(idx[p], consumerIdx) > 0
    BY <1>2, <2>1, Constants DEF LoadConsumerIdx, Goto, TypeOK, ProducerLabels, RecordConflict
  <2>2. CASE ~(AvailableSlots(idx[p], consumerIdx) > 0)
    <3>1. Retry(p, "loadC")
      BY <1>2, <2>2 DEF LoadConsumerIdx
    <3>2. QED BY <1>2, <3>1, RetryTyped DEF LoadConsumerIdx, TypeOK, RecordConflict
  <2> QED BY <2>1, <2>2
<1>3. CASE LoadCurrent(p)
  BY <1>3 DEF LoadCurrent, Goto, TypeOK, ProducerLabels, RecordConflict
<1>4. CASE CasProducerIdx(p)
  <2>1. CASE idx[p] = producerIdx /\ TakeIdx(p)
    <3>1. NextIdx(idx[p]) \in Slots
      BY NextIdxCases DEF TypeOK
    <3>2. msg[p] \in Messages
      BY <2>1 DEF TakeIdx, Goto, TypeOK
    <3> QED BY <2>1, <3>1, <3>2 DEF TakeIdx, Goto, TypeOK, ProducerLabels,
                                     HoldingSection, RecordConflict
  <2>2. CASE pc[p] = "cas" /\ idx[p] # producerIdx
    BY <1>4, <2>2 DEF CasProducerIdx, TakeIdx, TypeOK, RecordConflict
  <2> QED BY <1>4, <2>1, <2>2 DEF CasProducerIdx
<1>5. CASE CheckEmpty(p)
  BY <1>5 DEF CheckEmpty, Goto, TypeOK, ProducerLabels, HoldingSection, WritingSection,
              RecordConflict
<1>6. CASE CheckComplete(p)
  <2>1. CASE status[idx[p]] = "Complete"
    BY <1>6, <2>1 DEF CheckComplete, Goto, TypeOK, ProducerLabels, HoldingSection,
                      WritingSection, RecordConflict
  <2>2. CASE status[idx[p]] # "Complete"
    <3>1. Retry(p, "chkComplete")
      BY <1>6, <2>2 DEF CheckComplete
    <3>2. QED BY <1>6, <3>1, RetryTyped DEF CheckComplete, TypeOK, RecordConflict
  <2> QED BY <2>1, <2>2
<1>7. ASSUME NEW from, NEW to \in WritingSection, NEW s \in Statuses, from # "idle",
             StoreStatus(p, from, to, s)
      PROVE  TypeOK'
  BY <1>7 DEF StoreStatus, Goto, TypeOK, ProducerLabels, HoldingSection, RecordConflict
<1>8. ASSUME NEW from, NEW to \in WritingSection, NEW f \in Parts, NEW m \in MsgField,
             from # "idle", StorePart(p, from, to, f, m)
      PROVE  TypeOK'
  <2>1. slot' \in [Slots -> SlotParts]
    BY <1>8 DEF StorePart, TypeOK, SlotParts
  <2> QED BY <1>8, <2>1 DEF StorePart, Goto, TypeOK, ProducerLabels, HoldingSection,
                            RecordConflict
<1>9. NoMsg \in MsgField /\ msg[p] \in MsgField
  BY Constants DEF TypeOK
<1>10. CASE ResetForWrite(p)
  BY <1>7, <1>8, <1>9, <1>10 DEF ResetForWrite, WritingSection, Statuses, Parts
<1>11. CASE SetOperation(p)
  BY <1>8, <1>9, <1>11 DEF SetOperation, WritingSection, Parts
<1>12. CASE MarkWriting(p)
  BY <1>7, <1>12 DEF MarkWriting, WritingSection, Statuses
<1>13. CASE FillSlot(p)
  BY <1>8, <1>9, <1>13 DEF FillSlot, WritingSection, Parts
<1>14. CASE SetReady(p)
  <2>1. Finish(p, "setReady", "ok") /\ "ok" \in Outcomes
    BY <1>14 DEF SetReady, Outcomes
  <2> QED BY <1>14, <2>1, FinishTyped DEF SetReady, TypeOK, Statuses, RecordConflict
<1> QED BY <1>1, <1>2, <1>3, <1>4, <1>5, <1>6, <1>10, <1>11, <1>12, <1>13, <1>14
        DEF WriteStep

\* Every step of a read call keeps the types.
LEMMA ReadTyped ==
  ASSUME TypeOK, ReadStep
  PROVE  TypeOK'
<1> USE DEF header, slots, writers, reader, callers, laps, Alive
<1>1. ASSUME NEW from, NEW reply \in Replies, EndRead(from, reply)
      PROVE  cpc' \in ReaderLabels /\ cidx' \in Slots /\ got' \in SlotParts
             /\ lastRead' \in Replies
  BY <1>1, Constants DEF EndRead, CGoto, ReaderLabels
<1>2. CASE CheckForData
  <2>1. CASE cidx = consumerIdx /\ EndRead("loadC", "empty")
    BY <1>1, <1>2, <2>1 DEF CheckForData, TypeOK, Replies, RecordConflict
  <2>2. CASE cidx # consumerIdx
    BY <1>2, <2>2 DEF CheckForData, CGoto, TypeOK, ReaderLabels, RecordConflict
  <2> QED BY <1>2, <2>1, <2>2 DEF CheckForData
<1>3. CASE TakeConsumerIdx
  <2>1. NextIdx(consumerIdx) \in Slots
    BY NextIdxCases DEF TypeOK
  <2> QED BY <1>3, <2>1 DEF TakeConsumerIdx, CGoto, TypeOK, ReaderLabels,
                            ReadingSection, RecordConflict
<1>4. ASSUME NEW from, NEW to \in ReaderLabels, TestReady(from, to)
      PROVE  TypeOK'
  BY <1>4 DEF TestReady, CGoto, TypeOK, ReaderLabels, ReadingSection,
              ResettingSection, RecordConflict
<1>5. ASSUME NEW from, NEW to \in ReaderLabels, NEW f \in Parts, LoadPart(from, to, f)
      PROVE  TypeOK'
  <2>1. got' \in SlotParts
    BY <1>5 DEF LoadPart, TypeOK, SlotParts
  <2> QED BY <1>5, <2>1 DEF LoadPart, CGoto, TypeOK, RecordConflict
<1>6. ASSUME NEW from, NEW to \in ReaderLabels, NEW s \in Statuses,
             ReaderStoresStatus(from, to, s)
      PROVE  TypeOK'
  BY <1>6 DEF ReaderStoresStatus, CGoto, TypeOK, RecordConflict
<1>7. {"loadOp", "setReading", "recheck", "copyLow", "copyHigh", "setComplete",
       "loadSize", "count", "rstOp", "rstSize"} \subseteq ReaderLabels
  BY DEF ReaderLabels, ReadingSection, ResettingSection
<1>8. CASE CheckReady
  BY <1>4, <1>7, <1>8 DEF CheckReady
<1>9. CASE LoadSlot
  BY <1>5, <1>7, <1>9 DEF LoadSlot, Parts
<1>10. CASE SetReading \/ SetComplete
  BY <1>6, <1>7, <1>10 DEF SetReading, SetComplete, Statuses
<1>11. CASE ReturnData
  <2>1. EndRead("count", "data") /\ "data" \in Replies
    BY <1>11 DEF ReturnData, Replies
  <2>2. completed' \in Nat /\ delivered' \in Seq(SlotParts)
    BY <1>11 DEF ReturnData, TypeOK
  <2> QED BY <1>1, <1>11, <2>1, <2>2 DEF ReturnData, TypeOK, RecordConflict
<1>12. CASE ResetAfterRead
  <2>1. ASSUME NEW f \in Parts, slot' = [slot EXCEPT ![cidx][f] = NoMsg]
        PROVE  slot' \in [Slots -> SlotParts]
    BY <2>1, Constants DEF TypeOK, SlotParts
  <2>2. CASE ReaderStoresStatus("rstStatus", "rstOp", "Empty")
    BY <1>6, <1>7, <2>2 DEF Statuses
  <2>3. CASE cpc = "rstOp" /\ cpc' = "rstSize"
    BY <1>7, <1>12, <2>1, <2>3 DEF ResetAfterRead, ReaderStoresStatus, EndRead, CGoto,
       TypeOK, Parts, RecordConflict
  <2>4. CASE EndRead("rstSize", "skipped")
    BY <1>1, <1>12, <2>1, <2>4 DEF ResetAfterRead, ReaderStoresStatus, EndRead, CGoto,
       TypeOK, Parts, Replies, RecordConflict
  <2> QED BY <1>12, <2>2, <2>3, <2>4 DEF ResetAfterRead, CGoto
<1> QED BY <1>2, <1>3, <1>8, <1>9, <1>10, <1>11, <1>12 DEF ReadStep

\* The steps that start a call keep the types.
LEMMA BeginTyped ==
  ASSUME TypeOK
  PROVE  /\ BeginRead => TypeOK'
         /\ \A p \in Producers : BeginWrite(p) \/ RejectOversized(p) => TypeOK'
<1> USE DEF header, slots, writers, reader, callers, laps, Alive
<1>1. CASE BeginRead
  BY <1>1 DEF BeginRead, CGoto, TypeOK, ReaderLabels, Replies, RecordConflict
<1>2. ASSUME NEW p \in Producers, written < MaxWrites
      PROVE  written + 1 \in Messages /\ written + 1 \in 0..MaxWrites
  BY <1>2, Constants DEF TypeOK, Messages
<1>3. ASSUME NEW p \in Producers, BeginWrite(p)
      PROVE  TypeOK'
  <2>1. written + 1 \in Messages /\ written + 1 \in 0..MaxWrites
    BY <1>2, <1>3 DEF BeginWrite
  <2> QED BY <1>3, <2>1, Constants DEF BeginWrite, Goto, TypeOK, ProducerLabels,
                                       Outcomes, RecordConflict
<1>4. ASSUME NEW p \in Producers, RejectOversized(p)
      PROVE  TypeOK'
  <2>1. written + 1 \in Messages /\ written + 1 \in 0..MaxWrites
    BY <1>2, <1>4 DEF RejectOversized
  <2> QED BY <1>4, <2>1 DEF RejectOversized, TypeOK, Outcomes, RecordConflict
<1> QED BY <1>1, <1>3, <1>4

\* A crash keeps the types.
LEMMA CrashTyped ==
  ASSUME TypeOK
  PROVE  /\ CrashRead => TypeOK'
         /\ \A p \in Producers : CrashWrite(p) => TypeOK'
<1> USE DEF header, slots, writers, reader, callers, laps
<1>1. ASSUME crashes < MaxCrashes, crashes' = crashes + 1
      PROVE  crashes' \in 0..MaxCrashes
  BY <1>1, Constants DEF TypeOK
<1>2. CASE CrashRead
  BY <1>1, <1>2, Constants DEF CrashRead, EndRead, CGoto, TypeOK, ReaderLabels, Replies,
     RecordConflict
<1>3. ASSUME NEW p \in Producers, CrashWrite(p)
      PROVE  TypeOK'
  <2>1. Finish(p, pc[p], "killed") /\ "killed" \in Outcomes /\ pc[p] # "idle"
    BY <1>3 DEF CrashWrite, Outcomes
  <2> QED BY <1>1, <1>3, <2>1, FinishTyped DEF CrashWrite, TypeOK, RecordConflict
<1> QED BY <1>2, <1>3

LEMMA StepTyped == TypeOK /\ [Next]_vars => TypeOK'
<1> SUFFICES ASSUME TypeOK, [Next]_vars PROVE TypeOK'
  OBVIOUS
<1>1. CASE Next
  BY <1>1, WriteTyped, ReadTyped, BeginTyped, CrashTyped DEF Next
<1>2. CASE UNCHANGED vars
  BY <1>2 DEF vars, header, slots, writers, reader, callers, laps, TypeOK
<1> QED BY <1>1, <1>2

\* Type correctness: the indices always name a slot of the ring, every status is
\* one of the five of SlotStatus, and no call retries more than MaxAttempts times.
THEOREM RingTypeCorrect == Spec => []TypeOK
<1>1. Init => TypeOK
  BY InitTyped
<1>2. TypeOK /\ [Next]_vars => TypeOK'
  BY StepTyped
<1> QED BY <1>1, <1>2, PTL DEF Spec

-----------------------------------------------------------------------------
(* The order of the two indices.                                            *)

\* An increment moves a position forward, and never past one that was ahead.
LEMMA Advance ==
  ASSUME NEW l \in Nat, NEW i \in Slots, NEW m \in Nat, NEW j \in Slots,
         NEW k, k = IF NextIdx(i) = 0 THEN l + 1 ELSE l
  PROVE  /\ k \in Nat
         /\ Before(l, i, k, NextIdx(i))
         /\ Before(l, i, m, j) => AtOrBefore(k, NextIdx(i), m, j)
<1>1. NextIdx(i) = IF i + 1 = SlotCount THEN 0 ELSE i + 1
  BY NextIdxCases
<1> QED BY <1>1, SlotCountAssumption DEF Slots, Before, AtOrBefore

\* Between the loads of read and its increment, producer_idx has not fallen
\* behind the value loaded, on some lap, and that value not behind consumer_idx.
LoadedBetween ==
  cpc = "loadC" =>
    \E l \in Nat : /\ AtOrBefore(consumerLap, consumerIdx, l, cidx)
                   /\ AtOrBefore(l, cidx, producerLap, producerIdx)

\* After the comparison of read there is a claimed slot the reader has not taken.
TakeHasTarget ==
  cpc = "take" => Before(consumerLap, consumerIdx, producerLap, producerIdx)

OrderInv == ConsumerNeverOvertakes /\ LoadedBetween /\ TakeHasTarget

LEMMA OrderInit == Init => OrderInv
BY DEF Init, OrderInv, ConsumerNeverOvertakes, LoadedBetween, TakeHasTarget, AtOrBefore

\* A step that moves no index and does not move the reader between its labels,
\* or moves it to where nothing is claimed, keeps the order.
LEMMA OrderKept ==
  ASSUME OrderInv,
         UNCHANGED <<producerIdx, consumerIdx, producerLap, consumerLap>>,
         \/ UNCHANGED <<cpc, cidx>>
         \/ cpc' \notin {"loadC", "take"}
  PROVE  OrderInv'
BY DEF OrderInv, ConsumerNeverOvertakes, LoadedBetween, TakeHasTarget

LEMMA OrderStep ==
  ASSUME TypeOK, OrderInv, [Next]_vars
  PROVE  OrderInv'
<1> USE DEF header, slots, writers, reader, callers, laps, Alive
<1>1. CASE UNCHANGED vars
  BY <1>1, OrderKept DEF vars
<1>2. ASSUME NEW p \in Producers,
             WriteStep(p) \/ BeginWrite(p) \/ RejectOversized(p) \/ CrashWrite(p)
      PROVE  OrderInv'
  <2>1. CASE idx[p] = producerIdx /\ TakeIdx(p)
    <3> DEFINE k == IF NextIdx(producerIdx) = 0 THEN producerLap + 1 ELSE producerLap
    <3>1. /\ producerIdx' = NextIdx(producerIdx) /\ producerLap' = k
          /\ UNCHANGED <<consumerIdx, consumerLap, cpc, cidx>>
      BY <2>1 DEF TakeIdx
    <3>2. /\ producerLap \in Nat /\ producerIdx \in Slots /\ consumerLap \in Nat
          /\ consumerIdx \in Slots /\ cidx \in Slots
      BY DEF TypeOK
    <3>3. Before(producerLap, producerIdx, k, NextIdx(producerIdx)) /\ k \in Nat
      BY <3>2, Advance
    <3>4. NextIdx(producerIdx) \in Nat
      BY <3>2, NextIdxCases DEF Slots
    <3> HIDE DEF k
    <3>5. ASSUME NEW l \in Nat, NEW i \in Nat,
                 AtOrBefore(l, i, producerLap, producerIdx)
          PROVE  Before(l, i, k, NextIdx(producerIdx))
      BY <3>2, <3>3, <3>4, <3>5 DEF Before, AtOrBefore, Slots
    <3>6. ASSUME NEW l \in Nat, NEW i \in Nat, Before(l, i, k, NextIdx(producerIdx))
          PROVE  AtOrBefore(l, i, k, NextIdx(producerIdx))
      BY <3>3, <3>4, <3>6 DEF Before, AtOrBefore
    <3>7. consumerIdx \in Nat /\ cidx \in Nat
      BY <3>2 DEF Slots
    <3>8. ConsumerNeverOvertakes'
      <4>1. Before(consumerLap, consumerIdx, k, NextIdx(producerIdx))
        BY <3>2, <3>5, <3>7 DEF OrderInv, ConsumerNeverOvertakes
      <4>2. AtOrBefore(consumerLap, consumerIdx, k, NextIdx(producerIdx))
        BY <3>2, <3>6, <3>7, <4>1
      <4> QED BY <3>1, <4>2 DEF ConsumerNeverOvertakes
    <3>9. LoadedBetween'
      BY <3>1, <3>2, <3>5, <3>6, <3>7 DEF OrderInv, LoadedBetween
    <3>10. TakeHasTarget'
      BY <3>1, <3>2, <3>5, <3>7 DEF OrderInv, ConsumerNeverOvertakes, TakeHasTarget
    <3> QED BY <3>8, <3>9, <3>10 DEF OrderInv
  <2>2. CASE ~(idx[p] = producerIdx /\ TakeIdx(p))
    <3>1. BeginWrite(p) \/ RejectOversized(p) \/ LoadProducerIdx(p) \/ LoadConsumerIdx(p)
          \/ LoadCurrent(p) \/ CasProducerIdx(p)
          => UNCHANGED <<producerIdx, consumerIdx, producerLap, consumerLap, cpc, cidx>>
      BY <2>2 DEF BeginWrite, RejectOversized, LoadProducerIdx, LoadConsumerIdx,
         LoadCurrent, CasProducerIdx
    <3>2. CheckEmpty(p) \/ CheckComplete(p) \/ SetReady(p) \/ CrashWrite(p)
          => UNCHANGED <<producerIdx, consumerIdx, producerLap, consumerLap, cpc, cidx>>
      BY DEF CheckEmpty, CheckComplete, SetReady, CrashWrite
    <3>3. ResetForWrite(p) \/ SetOperation(p) \/ MarkWriting(p) \/ FillSlot(p)
          => UNCHANGED <<producerIdx, consumerIdx, producerLap, consumerLap, cpc, cidx>>
      BY DEF ResetForWrite, SetOperation, MarkWriting, FillSlot, StoreStatus, StorePart
    <3> QED BY <1>2, <3>1, <3>2, <3>3, OrderKept DEF WriteStep
  <2> QED BY <2>1, <2>2
<1>3. CASE BeginRead
  <2>1. /\ cpc' = "loadC" /\ cidx' = producerIdx
        /\ UNCHANGED <<producerIdx, consumerIdx, producerLap, consumerLap>>
    BY <1>3 DEF BeginRead, CGoto
  <2>2. producerLap \in Nat /\ AtOrBefore(producerLap, producerIdx, producerLap, producerIdx)
    BY DEF TypeOK, AtOrBefore, Slots
  <2> QED BY <2>1, <2>2 DEF OrderInv, ConsumerNeverOvertakes, LoadedBetween, TakeHasTarget
<1>4. CASE CheckForData
  <2>1. CASE cidx # consumerIdx
    <3>1. /\ cpc = "loadC" /\ cpc' = "take" /\ UNCHANGED cidx
          /\ UNCHANGED <<producerIdx, consumerIdx, producerLap, consumerLap>>
      BY <1>4, <2>1 DEF CheckForData, CGoto
    <3>2. PICK l \in Nat : /\ AtOrBefore(consumerLap, consumerIdx, l, cidx)
                           /\ AtOrBefore(l, cidx, producerLap, producerIdx)
      BY <3>1 DEF OrderInv, LoadedBetween
    <3>3. Before(consumerLap, consumerIdx, producerLap, producerIdx)
      BY <2>1, <3>2 DEF Before, AtOrBefore, TypeOK, Slots
    <3> QED BY <3>1, <3>3 DEF OrderInv, ConsumerNeverOvertakes, LoadedBetween, TakeHasTarget
  <2>2. CASE cidx = consumerIdx
    BY <1>4, <2>2, OrderKept DEF CheckForData, EndRead, CGoto
  <2> QED BY <2>1, <2>2
<1>5. CASE TakeConsumerIdx
  <2>1. /\ cpc = "take" /\ cpc' = "chkReady"
        /\ consumerIdx' = NextIdx(consumerIdx)
        /\ consumerLap' = IF NextIdx(consumerIdx) = 0 THEN consumerLap + 1 ELSE consumerLap
        /\ UNCHANGED <<producerIdx, producerLap>>
    BY <1>5 DEF TakeConsumerIdx, CGoto
  <2>2. AtOrBefore(consumerLap', consumerIdx', producerLap, producerIdx)
    BY <2>1, Advance DEF OrderInv, TakeHasTarget, TypeOK
  <2> QED BY <2>1, <2>2 DEF OrderInv, ConsumerNeverOvertakes, LoadedBetween, TakeHasTarget
<1>6. CASE CheckReady \/ LoadSlot \/ SetReading \/ SetComplete \/ ReturnData
           \/ ResetAfterRead \/ CrashRead
  <2>1. /\ cpc' \notin {"loadC", "take"}
        /\ UNCHANGED <<producerIdx, consumerIdx, producerLap, consumerLap>>
    BY <1>6 DEF CheckReady, TestReady, LoadSlot, LoadPart, SetReading, SetComplete,
       ReturnData, ResetAfterRead, CrashRead, ReaderStoresStatus, EndRead, CGoto
  <2> QED BY <2>1, OrderKept
<1> QED BY <1>1, <1>2, <1>3, <1>4, <1>5, <1>6 DEF Next, ReadStep

\* next_consumer_idx never overtakes next_producer_idx.
THEOREM ReaderStaysBehind == Spec => []ConsumerNeverOvertakes
<1>1. Init => TypeOK /\ OrderInv
  BY InitTyped, OrderInit
<1>2. TypeOK /\ OrderInv /\ [Next]_vars => (TypeOK /\ OrderInv)'
  BY StepTyped, OrderStep
<1>3. OrderInv => ConsumerNeverOvertakes
  BY DEF OrderInv
<1> QED BY <1>1, <1>2, <1>3, PTL DEF Spec

-----------------------------------------------------------------------------
(* Who is in a slot.                                                        *)

\* Every slot handed out lies behind producer_idx, and no two calls were handed
\* the same position of the unrolled ring.
HoldersInv ==
  /\ \A p \in Producers : pc[p] \in HoldingSection =>
       Before(lap[p], idx[p], producerLap, producerIdx)
  /\ LappedWritersOnly

LEMMA HoldersInit == Init => HoldersInv
BY DEF Init, HoldersInv, LappedWritersOnly, HoldingSection, WritingSection

\* A step of one call that takes no index: the call keeps its position or gives
\* it up, and nobody else's changes.
LEMMA HoldersKept ==
  ASSUME TypeOK, HoldersInv, NEW p \in Producers,
         UNCHANGED <<producerIdx, producerLap>>,
         \A q \in Producers \ {p} : pc'[q] = pc[q] /\ idx'[q] = idx[q] /\ lap'[q] = lap[q],
         \/ pc'[p] \notin HoldingSection
         \/ pc[p] \in HoldingSection /\ idx'[p] = idx[p] /\ lap'[p] = lap[p]
  PROVE  HoldersInv'
<1>1. ASSUME NEW q \in Producers, pc'[q] \in HoldingSection
      PROVE  pc[q] \in HoldingSection /\ idx'[q] = idx[q] /\ lap'[q] = lap[q]
  BY <1>1
<1>2. \A q \in Producers : pc'[q] \in HoldingSection =>
        Before(lap'[q], idx'[q], producerLap', producerIdx')
  BY <1>1 DEF HoldersInv
<1>3. LappedWritersOnly'
  BY <1>1 DEF HoldersInv, LappedWritersOnly
<1> QED BY <1>2, <1>3 DEF HoldersInv

LEMMA HoldersStep ==
  ASSUME TypeOK, HoldersInv, [Next]_vars
  PROVE  HoldersInv'
<1> USE DEF header, slots, writers, reader, callers, laps, Alive
<1>1. CASE UNCHANGED vars \/ BeginRead \/ ReadStep \/ CrashRead
  <2>1. UNCHANGED <<producerIdx, producerLap, pc, idx, lap>>
    <3>1. UNCHANGED vars \/ BeginRead \/ CheckForData \/ TakeConsumerIdx \/ ReturnData
          \/ CrashRead => UNCHANGED <<producerIdx, producerLap, pc, idx, lap>>
      BY DEF vars, BeginRead, CheckForData, TakeConsumerIdx, ReturnData, CrashRead
    <3>2. CheckReady \/ LoadSlot \/ SetReading \/ SetComplete \/ ResetAfterRead
          => UNCHANGED <<producerIdx, producerLap, pc, idx, lap>>
      BY DEF CheckReady, LoadSlot, SetReading, SetComplete, ResetAfterRead,
         ReaderStoresStatus, TestReady, LoadPart
    <3> QED BY <1>1, <3>1, <3>2 DEF ReadStep
  <2> QED BY <2>1 DEF HoldersInv, LappedWritersOnly
<1>2. ASSUME NEW p \in Producers,
             WriteStep(p) \/ BeginWrite(p) \/ RejectOversized(p) \/ CrashWrite(p)
      PROVE  HoldersInv'
  <2> USE DEF TypeOK, Goto
  <2>1. CASE idx[p] = producerIdx /\ TakeIdx(p)
    <3> DEFINE k == IF NextIdx(producerIdx) = 0 THEN producerLap + 1 ELSE producerLap
    <3>1. /\ producerIdx' = NextIdx(producerIdx) /\ producerLap' = k
          /\ UNCHANGED idx /\ lap'[p] = producerLap /\ idx[p] = producerIdx
          /\ \A q \in Producers \ {p} : pc'[q] = pc[q] /\ lap'[q] = lap[q]
      BY <2>1 DEF TakeIdx
    <3>2. Before(producerLap, producerIdx, k, NextIdx(producerIdx)) /\ k \in Nat
      BY Advance
    <3>3. ASSUME NEW q \in Producers \ {p}, pc[q] \in HoldingSection
          PROVE  /\ Before(lap[q], idx[q], k, NextIdx(producerIdx))
                 /\ ~(lap[q] = producerLap /\ idx[q] = producerIdx)
      <4>1. Before(lap[q], idx[q], producerLap, producerIdx)
        BY <3>3 DEF HoldersInv
      <4>2. lap[q] \in Nat /\ idx[q] \in Nat /\ NextIdx(producerIdx) \in Nat
            /\ producerLap \in Nat /\ producerIdx \in Nat
        BY NextIdxCases DEF Slots
      <4> HIDE DEF k
      <4> QED BY <3>2, <4>1, <4>2 DEF Before
    <3> HIDE DEF k
    <3>4. \A q \in Producers : pc'[q] \in HoldingSection =>
            Before(lap'[q], idx'[q], producerLap', producerIdx')
      BY <3>1, <3>2, <3>3
    <3>5. LappedWritersOnly'
      BY <3>1, <3>3 DEF HoldersInv, LappedWritersOnly
    <3> QED BY <3>4, <3>5 DEF HoldersInv
  <2>2. CASE ~(idx[p] = producerIdx /\ TakeIdx(p))
    <3> DEFINE Kept == /\ UNCHANGED <<producerIdx, producerLap>>
                       /\ \A q \in Producers \ {p} :
                            pc'[q] = pc[q] /\ idx'[q] = idx[q] /\ lap'[q] = lap[q]
                       /\ \/ pc'[p] \notin HoldingSection
                          \/ pc[p] \in HoldingSection /\ idx'[p] = idx[p] /\ lap'[p] = lap[p]
    <3>1. ASSUME NEW from, NEW result, Finish(p, from, result),
                 UNCHANGED <<producerIdx, producerLap>>
          PROVE  Kept
      BY <3>1 DEF Finish, HoldingSection, WritingSection
    <3>2. ASSUME NEW from, Retry(p, from), UNCHANGED <<producerIdx, producerLap>>
          PROVE  Kept
      BY <3>1, <3>2 DEF Retry, HoldingSection, WritingSection
    <3>3. BeginWrite(p) \/ RejectOversized(p) \/ LoadProducerIdx(p) \/ LoadCurrent(p)
          => Kept
      BY DEF BeginWrite, RejectOversized, LoadProducerIdx, LoadCurrent, HoldingSection,
         WritingSection
    <3>4. LoadConsumerIdx(p) => Kept
      <4>1. CASE AvailableSlots(idx[p], consumerIdx) > 0
        BY <4>1 DEF LoadConsumerIdx, HoldingSection, WritingSection
      <4>2. CASE ~(AvailableSlots(idx[p], consumerIdx) > 0)
        BY <3>2, <4>2 DEF LoadConsumerIdx
      <4> QED BY <4>1, <4>2
    <3>5. CasProducerIdx(p) => Kept
      BY <2>2 DEF CasProducerIdx, HoldingSection, WritingSection
    <3>6. CheckEmpty(p) => Kept
      BY DEF CheckEmpty, HoldingSection
    <3>7. CheckComplete(p) => Kept
      <4>1. CASE status[idx[p]] = "Complete"
        BY <4>1 DEF CheckComplete, HoldingSection
      <4>2. CASE status[idx[p]] # "Complete"
        BY <3>2, <4>2 DEF CheckComplete
      <4> QED BY <4>1, <4>2
    <3>8. SetReady(p) \/ CrashWrite(p) => Kept
      BY <3>1 DEF SetReady, CrashWrite
    <3>9. ResetForWrite(p) \/ SetOperation(p) \/ MarkWriting(p) \/ FillSlot(p) => Kept
      BY DEF ResetForWrite, SetOperation, MarkWriting, FillSlot, StoreStatus, StorePart,
         HoldingSection, WritingSection
    <3>10. Kept
      BY <1>2, <3>3, <3>4, <3>5, <3>6, <3>7, <3>8, <3>9 DEF WriteStep
    <3> QED BY <3>10, HoldersKept
  <2> QED BY <2>1, <2>2
<1> QED BY <1>1, <1>2 DEF Next

\* Two write calls share a slot only when the ring has lapped one of them: the
\* compare-and-swap gives every position to one call.
THEOREM PositionsAreUnique == Spec => []LappedWritersOnly
<1>1. Init => TypeOK /\ HoldersInv
  BY InitTyped, HoldersInit
<1>2. TypeOK /\ HoldersInv /\ [Next]_vars => (TypeOK /\ HoldersInv)'
  BY StepTyped, HoldersStep
<1>3. HoldersInv => LappedWritersOnly
  BY DEF HoldersInv
<1> QED BY <1>1, <1>2, <1>3, PTL DEF Spec

-----------------------------------------------------------------------------
(* What the status field of a slot guarantees as long as no two calls have  *)
(* been changing one slot at a time: the order of its states, and that a    *)
(* message is delivered whole, once, and lost only with a killed call.      *)
(* Every claim from here on has that premise, ~conflicted.                  *)

-----------------------------------------------------------------------------
(* The invariant, in four layers that rest on one another.                  *)

FillingSection == {"setSize", "copyLow", "copyHigh", "setReady"}
CopyingSection == {"loadSize", "copyLow", "copyHigh", "setComplete"}

\* The status of the slot a write call is changing is the one it stored last.
WriterSees(p) ==
  /\ pc[p] = "rstStatus" => status[idx[p]] \in {"Empty", "Complete"}
  /\ pc[p] \in {"rstOp", "rstSize", "setOp", "setWriting"} => status[idx[p]] = "Empty"
  /\ pc[p] \in FillingSection => status[idx[p]] = "Writing"

\* So is the status of the slot read has found Ready, or is resetting; one it
\* resets while it is Writing or Reading was left by a call that was killed.
ReaderSees ==
  /\ cpc \in {"loadOp", "recheck", "setReading"} => status[cidx] = "Ready"
  /\ cpc \in CopyingSection => status[cidx] = "Reading"
  /\ cpc = "rstStatus" =>
       /\ status[cidx] # "Ready"
       /\ status[cidx] \in {"Writing", "Reading"} => crashes > 0
  /\ cpc \in {"rstOp", "rstSize"} => status[cidx] = "Empty"

\* A slot that is Writing or Reading has a call in it, unless a call was killed.
Attended ==
  \A s \in Slots :
    /\ status[s] = "Writing" =>
         crashes > 0 \/ \E p \in Producers : pc[p] \in FillingSection /\ idx[p] = s
    /\ status[s] = "Reading" => crashes > 0 \/ (cpc \in CopyingSection /\ cidx = s)

StatusInv ==
  ~conflicted =>
    ~Conflict /\ (\A p \in Producers : WriterSees(p)) /\ ReaderSees /\ Attended

\* What a write has stored so far is in its slot.
WriterFilled(p) ==
  /\ pc[p] \in {"setWriting"} \cup FillingSection => slot[idx[p]]["op"] = msg[p]
  /\ pc[p] \in FillingSection \ {"setSize"} => slot[idx[p]]["size"] = msg[p]
  /\ pc[p] \in {"copyHigh", "setReady"} => slot[idx[p]]["low"] = msg[p]
  /\ pc[p] = "setReady" => slot[idx[p]]["high"] = msg[p]

\* What a read has loaded so far is what its slot still holds.
ReaderGot ==
  /\ cpc \in {"recheck", "setReading"} \cup CopyingSection => got["op"] = slot[cidx]["op"]
  /\ cpc \in CopyingSection \ {"loadSize"} => got["size"] = slot[cidx]["size"]
  /\ cpc \in {"copyHigh", "setComplete"} => got["low"] = slot[cidx]["low"]
  /\ cpc = "setComplete" => got["high"] = slot[cidx]["high"]

InCall(p, m) == pc[p] # "idle" /\ msg[p] = m
InSlot(s, m) == status[s] \in {"Ready", "Reading"} /\ slot[s] = Whole(m)
InHand(m)    == cpc = "count" /\ got = Whole(m)
Out(i, m)    == delivered[i] = Whole(m)

\* A slot that is Ready or Reading holds one message, so does a read that is about
\* to return, and so did every read that has.
ContentsInv ==
  ~conflicted =>
    /\ \A p \in Producers : WriterFilled(p)
    /\ ReaderGot
    /\ \A s \in Slots : status[s] \in {"Ready", "Reading"} => \E m \in Messages : slot[s] = Whole(m)
    /\ cpc = "count" => \E m \in Messages : got = Whole(m)
    /\ \A i \in DOMAIN delivered : \E m \in Messages : delivered[i] = Whole(m)

\* A message is in one place.
UniqueInv ==
  ~conflicted =>
    \A m \in Messages :
      /\ \A p \in Producers : InCall(p, m) =>
           /\ m <= written
           /\ \A q \in Producers \ {p} : ~InCall(q, m)
           /\ \A s \in Slots : ~InSlot(s, m)
           /\ ~InHand(m)
           /\ \A i \in DOMAIN delivered : ~Out(i, m)
      /\ \A s \in Slots : InSlot(s, m) =>
           /\ m <= written
           /\ \A r \in Slots \ {s} : ~InSlot(r, m)
           /\ ~InHand(m)
           /\ \A i \in DOMAIN delivered : ~Out(i, m)
      /\ InHand(m) => m <= written /\ \A i \in DOMAIN delivered : ~Out(i, m)
      /\ \A i \in DOMAIN delivered : Out(i, m) =>
           m <= written /\ \A j \in DOMAIN delivered \ {i} : ~Out(j, m)

\* The messages accepted that no read will return: lost, or in a slot that a killed
\* read left Reading.
Doomed ==
  {m \in Messages :
     /\ outcome[m] = "ok"
     /\ \A i \in DOMAIN delivered : ~Out(i, m)
     /\ \A s \in Slots : status[s] = "Ready" => slot[s] # Whole(m)
     /\ cpc \in CopyingSection => slot[cidx] # Whole(m)
     /\ ~InHand(m)}

DoomedInv == ~conflicted => Cardinality(Doomed) <= crashes

-----------------------------------------------------------------------------
(* Layer 1: the status field.                                               *)

\* As long as there was no conflict up to and including a step, nobody shares a slot.
LEMMA QuietStep ==
  ASSUME TypeOK, StatusInv, RecordConflict, ~conflicted'
  PROVE  ~conflicted /\ ~Conflict /\ ~Conflict'
<1>1. ~conflicted /\ ~Conflict'
  BY DEF RecordConflict
<1>2. ~Conflict
  BY <1>1 DEF StatusInv
<1> QED BY <1>1, <1>2

\* The use of ~Conflict: the slot of a call that is changing it is its own.
LEMMA SlotIsOwn ==
  ASSUME ~Conflict, NEW p \in Producers, pc[p] \in WritingSection
  PROVE  /\ \A q \in Producers \ {p} : pc[q] \in WritingSection => idx[q] # idx[p]
         /\ cpc \in ResettingSection => cidx # idx[p]
BY DEF Conflict

\* A step of a write call that stores no status, and either stays where it was with
\* respect to its slot or has just found it free.
LEMMA StatusKeptByWriter ==
  ASSUME TypeOK, StatusInv, ~conflicted, ~Conflict', NEW p \in Producers,
         pc' \in [Producers -> ProducerLabels], idx' \in [Producers -> Slots],
         \A q \in Producers \ {p} : pc'[q] = pc[q] /\ idx'[q] = idx[q],
         WriterSees(p)', pc[p] \in FillingSection => pc'[p] \in FillingSection /\ idx'[p] = idx[p],
         UNCHANGED <<status, cpc, cidx, crashes>>
  PROVE  StatusInv'
<1>1. (\A q \in Producers : WriterSees(q)) /\ ReaderSees /\ Attended
  BY DEF StatusInv
<1>2. \A q \in Producers : WriterSees(q)'
  BY <1>1 DEF WriterSees
<1>3. ReaderSees'
  BY <1>1 DEF ReaderSees
<1>4. Attended'
  BY <1>1 DEF Attended
<1> QED BY <1>2, <1>3, <1>4 DEF StatusInv

\* A store of a status by the write call that has the slot.
LEMMA StatusStoredByWriter ==
  ASSUME TypeOK, StatusInv, ~conflicted, ~Conflict, ~Conflict', NEW p \in Producers,
         NEW v \in {"Empty", "Writing", "Ready"},
         pc[p] \in WritingSection, status' = [status EXCEPT ![idx[p]] = v],
         pc' \in [Producers -> ProducerLabels], idx' \in [Producers -> Slots],
         \A q \in Producers \ {p} : pc'[q] = pc[q] /\ idx'[q] = idx[q],
         WriterSees(p)', v = "Writing" => pc'[p] \in FillingSection /\ idx'[p] = idx[p],
         UNCHANGED <<cpc, cidx, crashes>>
  PROVE  StatusInv'
<1>1. (\A q \in Producers : WriterSees(q)) /\ ReaderSees /\ Attended
  BY DEF StatusInv
<1>2. /\ \A q \in Producers \ {p} : pc[q] \in WritingSection => idx[q] # idx[p]
      /\ cpc \in ResettingSection => cidx # idx[p]
  BY SlotIsOwn
<1>3. idx[p] \in Slots /\ cidx \in Slots /\ status \in [Slots -> Statuses]
  BY DEF TypeOK
<1>4. status[idx[p]] \in {"Empty", "Complete", "Writing"}
  BY <1>1 DEF WriterSees, WritingSection, FillingSection
<1>5. ASSUME NEW q \in Producers \ {p} PROVE WriterSees(q)'
  <2>1. idx[q] \in Slots
    BY DEF TypeOK
  <2> QED BY <1>1, <1>2, <1>3, <2>1 DEF WriterSees, WritingSection, FillingSection
<1>6. ReaderSees'
  BY <1>1, <1>2, <1>3, <1>4 DEF ReaderSees, ResettingSection, CopyingSection
<1>7. Attended'
  BY <1>1, <1>2, <1>3, <1>4 DEF Attended, WritingSection, FillingSection
<1> QED BY <1>5, <1>6, <1>7 DEF StatusInv

\* What a step may do to the status of a slot.
StatusMoves ==
  \A s \in Slots : status'[s] # status[s] =>
    \/ <<status[s], status'[s]>> \in NextStatus
    \/ crashes > 0 /\ <<status[s], status'[s]>> \in Abandoned

\* Every step of a write call.
LEMMA StatusWrite ==
  ASSUME TypeOK, StatusInv, TypeOK', ~conflicted', NEW p \in Producers, WriteStep(p)
  PROVE  StatusInv' /\ StatusMoves
<1> USE DEF header, slots, writers, reader, callers, laps, Alive
<1>1. RecordConflict
  BY DEF WriteStep, LoadProducerIdx, LoadConsumerIdx, LoadCurrent, CasProducerIdx, TakeIdx,
         CheckEmpty, CheckComplete, ResetForWrite, SetOperation, MarkWriting, FillSlot,
         StoreStatus, StorePart, SetReady
<1>2. ~conflicted /\ ~Conflict /\ ~Conflict'
  BY <1>1, QuietStep
<1>3. WriterSees(p) /\ pc[p] \in ProducerLabels /\ idx[p] \in Slots /\ pc \in [Producers -> ProducerLabels]
      /\ idx \in [Producers -> Slots] /\ status \in [Slots -> Statuses]
      /\ pc' \in [Producers -> ProducerLabels] /\ idx' \in [Producers -> Slots]
  BY <1>2 DEF StatusInv, TypeOK
<1>4. ASSUME UNCHANGED <<status, cpc, cidx, crashes>>,
             \A q \in Producers \ {p} : pc'[q] = pc[q] /\ idx'[q] = idx[q],
             WriterSees(p)',
             pc[p] \in FillingSection => pc'[p] \in FillingSection /\ idx'[p] = idx[p]
      PROVE  StatusInv' /\ StatusMoves
  BY <1>2, <1>3, <1>4, StatusKeptByWriter DEF StatusMoves
<1>5. ASSUME NEW from, NEW to, NEW f, NEW m, StorePart(p, from, to, f, m),
             <<from, to>> \in {<<"rstOp", "rstSize">>, <<"rstSize", "setOp">>,
                               <<"setOp", "setWriting">>, <<"setSize", "copyLow">>,
                               <<"copyLow", "copyHigh">>, <<"copyHigh", "setReady">>}
      PROVE  StatusInv' /\ StatusMoves
  <2>1. /\ UNCHANGED <<status, cpc, cidx, crashes, idx>>
        /\ pc[p] = from /\ pc'[p] = to
        /\ \A q \in Producers \ {p} : pc'[q] = pc[q]
    BY <1>3, <1>5 DEF StorePart, Goto
  <2>2. WriterSees(p)' /\ (pc[p] \in FillingSection => pc'[p] \in FillingSection)
    BY <1>3, <1>5, <2>1 DEF WriterSees, FillingSection
  <2> QED BY <1>4, <2>1, <2>2
<1>6. ASSUME NEW from \in WritingSection, NEW to, NEW v \in {"Empty", "Writing"},
             StoreStatus(p, from, to, v),
             <<from, to, v>> \in {<<"rstStatus", "rstOp", "Empty">>,
                                  <<"setWriting", "setSize", "Writing">>}
      PROVE  StatusInv' /\ StatusMoves
  <2>1. /\ UNCHANGED <<cpc, cidx, crashes, idx>>
        /\ status' = [status EXCEPT ![idx[p]] = v]
        /\ pc[p] = from /\ pc'[p] = to
        /\ \A q \in Producers \ {p} : pc'[q] = pc[q]
    BY <1>3, <1>6 DEF StoreStatus, Goto
  <2>2. WriterSees(p)' /\ (v = "Writing" => pc'[p] \in FillingSection)
    BY <1>3, <1>6, <2>1 DEF WriterSees, FillingSection
  <2>3. StatusMoves
    BY <1>3, <1>6, <2>1 DEF StatusMoves, WriterSees, NextStatus
  <2> QED BY <1>2, <1>3, <1>6, <2>1, <2>2, <2>3, StatusStoredByWriter
<1>7. CASE LoadProducerIdx(p) \/ LoadConsumerIdx(p) \/ LoadCurrent(p) \/ CasProducerIdx(p)
  <2>1. /\ UNCHANGED <<status, cpc, cidx, crashes>>
        /\ pc[p] \notin FillingSection
        /\ \A q \in Producers \ {p} : pc'[q] = pc[q] /\ idx'[q] = idx[q]
        /\ pc'[p] \notin WritingSection
    BY <1>3, <1>7 DEF LoadProducerIdx, LoadConsumerIdx, LoadCurrent, CasProducerIdx, TakeIdx,
         Retry, Finish, Goto, FillingSection, WritingSection
  <2>2. WriterSees(p)'
    BY <2>1 DEF WriterSees, WritingSection, FillingSection
  <2> QED BY <1>4, <2>1, <2>2
<1>8. CASE CheckEmpty(p) \/ CheckComplete(p)
  <2>1. /\ UNCHANGED <<status, cpc, cidx, crashes>>
        /\ pc[p] \notin FillingSection
        /\ \A q \in Producers \ {p} : pc'[q] = pc[q] /\ idx'[q] = idx[q]
        /\ \/ pc'[p] \notin WritingSection
           \/ /\ pc'[p] = "rstStatus" /\ idx'[p] = idx[p]
              /\ status[idx[p]] \in {"Empty", "Complete"}
    BY <1>3, <1>8 DEF CheckEmpty, CheckComplete, Retry, Finish, Goto, FillingSection,
         WritingSection
  <2>2. WriterSees(p)'
    BY <2>1 DEF WriterSees, WritingSection, FillingSection
  <2> QED BY <1>4, <2>1, <2>2
<1>9. CASE ResetForWrite(p)
  BY <1>5, <1>6, <1>9 DEF ResetForWrite, WritingSection
<1>10. CASE SetOperation(p)
  BY <1>5, <1>10 DEF SetOperation
<1>11. CASE MarkWriting(p)
  BY <1>6, <1>11 DEF MarkWriting, WritingSection
<1>12. CASE FillSlot(p)
  BY <1>5, <1>12 DEF FillSlot
<1>13. CASE SetReady(p)
  <2>1. /\ UNCHANGED <<cpc, cidx, crashes>>
        /\ status' = [status EXCEPT ![idx[p]] = "Ready"]
        /\ pc[p] = "setReady" /\ pc'[p] = "idle"
        /\ \A q \in Producers \ {p} : pc'[q] = pc[q] /\ idx'[q] = idx[q]
    BY <1>3, <1>13 DEF SetReady, Finish, Goto
  <2>2. WriterSees(p)' /\ pc[p] \in WritingSection
    BY <2>1 DEF WriterSees, FillingSection, WritingSection
  <2>3. StatusMoves
    BY <1>3, <2>1 DEF StatusMoves, WriterSees, NextStatus, FillingSection
  <2> QED BY <1>2, <1>3, <2>1, <2>2, <2>3, StatusStoredByWriter
<1> QED BY <1>7, <1>8, <1>9, <1>10, <1>11, <1>12, <1>13 DEF WriteStep

\* Every step of a read call.
LEMMA StatusRead ==
  ASSUME TypeOK, StatusInv, TypeOK', ~conflicted', BeginRead \/ ReadStep
  PROVE  StatusInv' /\ StatusMoves
<1> USE DEF header, slots, writers, reader, callers, laps, Alive
<1>1. RecordConflict
  BY DEF BeginRead, ReadStep, CheckForData, TakeConsumerIdx, CheckReady, TestReady, LoadSlot,
         LoadPart, SetReading, SetComplete, ReaderStoresStatus, ReturnData, ResetAfterRead
<1>2. ~conflicted /\ ~Conflict /\ ~Conflict'
  BY <1>1, QuietStep
<1>3. /\ (\A p \in Producers : WriterSees(p)) /\ ReaderSees /\ Attended
      /\ cidx \in Slots /\ cidx' \in Slots /\ status \in [Slots -> Statuses]
      /\ \A p \in Producers : idx[p] \in Slots
  BY <1>2 DEF StatusInv, TypeOK
<1>4. UNCHANGED <<pc, idx, crashes>>
  BY DEF BeginRead, ReadStep, CheckForData, TakeConsumerIdx, CheckReady, TestReady, LoadSlot,
         LoadPart, SetReading, SetComplete, ReaderStoresStatus, ReturnData, ResetAfterRead
\* The reader stores no status.
<1>5. ASSUME UNCHANGED status, ReaderSees',
             cpc \in CopyingSection => cpc' \in CopyingSection /\ cidx' = cidx
      PROVE  StatusInv' /\ StatusMoves
  <2>1. \A p \in Producers : WriterSees(p)'
    BY <1>3, <1>4, <1>5 DEF WriterSees
  <2>2. Attended'
    BY <1>3, <1>4, <1>5 DEF Attended
  <2> QED BY <1>2, <1>5, <2>1, <2>2 DEF StatusInv, StatusMoves
\* The reader stores the status of a slot that no writer is changing.
<1>6. ASSUME NEW v \in {"Empty", "Reading", "Complete"},
             status' = [status EXCEPT ![cidx] = v], cidx' = cidx, ReaderSees',
             \A p \in Producers : pc[p] \in WritingSection => idx[p] # cidx,
             v = "Reading" => cpc' \in CopyingSection,
             \/ <<status[cidx], v>> \in NextStatus \/ status[cidx] = v
             \/ crashes > 0 /\ <<status[cidx], v>> \in Abandoned
      PROVE  StatusInv' /\ StatusMoves
  <2>1. \A p \in Producers : WriterSees(p)'
    BY <1>3, <1>4, <1>6 DEF WriterSees, WritingSection, FillingSection
  <2>2. Attended'
    BY <1>3, <1>4, <1>6 DEF Attended
  <2>3. StatusMoves
    BY <1>3, <1>6 DEF StatusMoves
  <2> QED BY <1>2, <1>6, <2>1, <2>2, <2>3 DEF StatusInv
<1>7. CASE BeginRead \/ CheckForData \/ TakeConsumerIdx \/ ReturnData
  <2>1. /\ UNCHANGED status /\ cpc \notin CopyingSection
        /\ cpc' \in {"loadC", "idle", "take", "chkReady"}
    BY <1>7 DEF BeginRead, CheckForData, TakeConsumerIdx, ReturnData, EndRead, CGoto,
                CopyingSection
  <2>2. ReaderSees'
    BY <2>1 DEF ReaderSees, CopyingSection
  <2> QED BY <1>5, <2>1, <2>2
<1>8. CASE CheckReady
  <2>1. /\ UNCHANGED <<status, cidx>> /\ cpc \notin CopyingSection
        /\ \/ cpc' \in {"loadOp", "setReading"} /\ status[cidx] = "Ready"
           \/ cpc' = "rstStatus" /\ status[cidx] # "Ready"
    BY <1>8 DEF CheckReady, TestReady, CGoto, CopyingSection
  <2>2. ASSUME cpc' = "rstStatus", status[cidx] \in {"Writing", "Reading"}
        PROVE  crashes > 0
    <3>1. ~\E p \in Producers : pc[p] \in WritingSection /\ idx[p] = cidx
      BY <1>2, <1>4, <2>1, <2>2 DEF Conflict, ResettingSection
    <3> QED BY <1>3, <2>1, <2>2, <3>1 DEF Attended, WritingSection, FillingSection
  <2>3. ReaderSees'
    BY <1>4, <2>1, <2>2 DEF ReaderSees, CopyingSection
  <2> QED BY <1>5, <2>1, <2>3
<1>9. CASE LoadSlot
  <2>1. /\ UNCHANGED <<status, cidx>>
        /\ <<cpc, cpc'>> \in {<<"loadOp", "recheck">>, <<"loadSize", "copyLow">>,
                             <<"copyLow", "copyHigh">>, <<"copyHigh", "setComplete">>}
    BY <1>9 DEF LoadSlot, LoadPart, CGoto
  <2>2. ReaderSees' /\ (cpc \in CopyingSection => cpc' \in CopyingSection)
    BY <1>3, <1>4, <2>1 DEF ReaderSees, CopyingSection
  <2> QED BY <1>5, <2>1, <2>2
<1>10. CASE SetReading \/ SetComplete
  <2>1. PICK v \in {"Reading", "Complete"} :
          /\ <<cpc, cpc', v>> \in {<<"setReading", "loadSize", "Reading">>,
                                  <<"setComplete", "count", "Complete">>}
          /\ status' = [status EXCEPT ![cidx] = v] /\ cidx' = cidx
    BY <1>10 DEF SetReading, SetComplete, ReaderStoresStatus, CGoto
  <2>2. status[cidx] = (IF v = "Reading" THEN "Ready" ELSE "Reading")
    BY <1>3, <2>1 DEF ReaderSees, CopyingSection
  <2>3. \A p \in Producers : pc[p] \in WritingSection => idx[p] # cidx
    BY <1>3, <2>1, <2>2 DEF WriterSees, WritingSection, FillingSection
  <2>4. ReaderSees' /\ (v = "Reading" => cpc' \in CopyingSection)
    BY <1>3, <2>1 DEF ReaderSees, CopyingSection
  <2>5. <<status[cidx], v>> \in NextStatus
    BY <2>1, <2>2 DEF NextStatus
  <2> QED BY <1>6, <2>1, <2>3, <2>4, <2>5
<1>11. CASE ResetAfterRead
  <2>1. CASE ReaderStoresStatus("rstStatus", "rstOp", "Empty")
    <3>1. /\ cpc = "rstStatus" /\ cpc' = "rstOp" /\ cidx' = cidx
          /\ status' = [status EXCEPT ![cidx] = "Empty"]
      BY <2>1 DEF ReaderStoresStatus, CGoto
    <3>2. \A p \in Producers : pc[p] \in WritingSection => idx[p] # cidx
      BY <1>2, <3>1, SlotIsOwn DEF ResettingSection
    <3>3. \/ <<status[cidx], "Empty">> \in NextStatus \/ status[cidx] = "Empty"
          \/ crashes > 0 /\ <<status[cidx], "Empty">> \in Abandoned
      <4>1. status[cidx] \in {"Empty", "Writing", "Reading", "Complete"}
            /\ (status[cidx] \in {"Writing", "Reading"} => crashes > 0)
        BY <1>3, <3>1 DEF ReaderSees, Statuses
      <4> QED BY <4>1 DEF NextStatus, Abandoned
    <3>4. ReaderSees'
      BY <1>3, <3>1 DEF ReaderSees, CopyingSection
    <3> QED BY <1>6, <3>1, <3>2, <3>3, <3>4
  <2>2. CASE ~ReaderStoresStatus("rstStatus", "rstOp", "Empty")
    <3>1. /\ UNCHANGED status /\ cpc \in {"rstOp", "rstSize"}
          /\ cpc' = "idle" \/ (cpc' = "rstSize" /\ cidx' = cidx)
      BY <1>11, <2>2 DEF ResetAfterRead, EndRead, CGoto
    <3>2. ReaderSees' /\ cpc \notin CopyingSection
      BY <1>3, <3>1 DEF ReaderSees, CopyingSection
    <3> QED BY <1>5, <3>1, <3>2
  <2> QED BY <2>1, <2>2
<1> QED BY <1>7, <1>8, <1>9, <1>10, <1>11 DEF ReadStep

\* The calls that begin, or are refused, or are killed.
LEMMA StatusOther ==
  ASSUME TypeOK, StatusInv, TypeOK', ~conflicted',
         \/ \E p \in Producers : RejectOversized(p) \/ BeginWrite(p) \/ CrashWrite(p)
         \/ CrashRead \/ UNCHANGED vars
  PROVE  StatusInv' /\ StatusMoves
<1> USE DEF header, slots, writers, reader, callers, laps, Alive
<1>1. CASE UNCHANGED vars
  BY <1>1 DEF vars, StatusInv, StatusMoves, Conflict, WriterSees, ReaderSees, Attended
<1>2. CASE ~UNCHANGED vars
  <2>1. RecordConflict
    BY <1>2 DEF RejectOversized, BeginWrite, CrashWrite, CrashRead
  <2>2. ~conflicted /\ ~Conflict /\ ~Conflict'
    BY <2>1, QuietStep
  <2>3. (\A p \in Producers : WriterSees(p)) /\ ReaderSees /\ Attended
    BY <2>2 DEF StatusInv
  <2>4. ASSUME NEW p \in Producers, RejectOversized(p) \/ BeginWrite(p)
        PROVE  StatusInv' /\ StatusMoves
    <3>1. /\ UNCHANGED <<status, cpc, cidx, crashes, idx>>
          /\ \A q \in Producers \ {p} : pc'[q] = pc[q]
          /\ pc[p] = "idle" /\ pc'[p] \in {"idle", "loadP"}
      BY <2>4 DEF RejectOversized, BeginWrite, Goto, TypeOK
    <3>2. WriterSees(p)' /\ pc[p] \notin FillingSection
      BY <3>1 DEF WriterSees, FillingSection
    <3>3. StatusInv'
      BY <2>2, <3>1, <3>2, StatusKeptByWriter DEF TypeOK
    <3> QED BY <3>1, <3>3 DEF StatusMoves
  <2>5. ASSUME NEW p \in Producers, CrashWrite(p)
        PROVE  StatusInv' /\ StatusMoves
    <3>1. /\ UNCHANGED <<status, cpc, cidx>> /\ crashes' > 0
          /\ \A q \in Producers \ {p} : pc'[q] = pc[q] /\ idx'[q] = idx[q]
          /\ pc'[p] = "idle"
      BY <2>5 DEF CrashWrite, Finish, Goto, TypeOK
    <3>2. \A q \in Producers : WriterSees(q)'
      BY <2>3, <3>1 DEF WriterSees, FillingSection
    <3>3. ReaderSees' /\ Attended'
      BY <2>3, <3>1 DEF ReaderSees, Attended
    <3> QED BY <2>2, <3>1, <3>2, <3>3 DEF StatusInv, StatusMoves
  <2>6. CASE CrashRead
    <3>1. UNCHANGED <<status, pc, idx>> /\ crashes' > 0 /\ cpc' = "idle"
      BY <2>6 DEF CrashRead, EndRead, CGoto, TypeOK
    <3>2. (\A q \in Producers : WriterSees(q)') /\ ReaderSees' /\ Attended'
      BY <2>3, <3>1 DEF WriterSees, ReaderSees, Attended, CopyingSection
    <3> QED BY <2>2, <3>1, <3>2 DEF StatusInv, StatusMoves
  <2> QED BY <1>2, <2>4, <2>5, <2>6
<1> QED BY <1>1, <1>2

\* Every step keeps the invariant of the status field and the order of its states.
LEMMA StatusStep ==
  ASSUME TypeOK, StatusInv, [Next]_vars
  PROVE  StatusInv' /\ (~conflicted' => StatusMoves)
<1>1. TypeOK'
  BY StepTyped
<1>2. CASE conflicted'
  BY <1>2 DEF StatusInv
<1>3. CASE ~conflicted'
  BY <1>1, <1>3, StatusWrite, StatusRead, StatusOther DEF Next
<1> QED BY <1>2, <1>3

LEMMA StatusInit == Init => StatusInv
BY DEF Init, StatusInv, Conflict, WriterSees, ReaderSees, Attended, WritingSection,
       FillingSection, CopyingSection

\* The documented life of a slot: without a conflict its status only ever moves on to
\* the next state of SlotStatus, and a slot of a killed call is freed by read.
THEOREM SlotsFollowProtocol == Spec => StatusProtocol
<1>1. Init => TypeOK /\ StatusInv
  BY InitTyped, StatusInit
<1>2. TypeOK /\ StatusInv /\ [Next]_vars => (TypeOK /\ StatusInv)'
  BY StepTyped, StatusStep
<1>3. TypeOK /\ StatusInv /\ [Next]_vars =>
        [\A s \in Slots :
           ~conflicted' /\ status'[s] # status[s] =>
             \/ <<status[s], status'[s]>> \in NextStatus
             \/ crashes > 0 /\ <<status[s], status'[s]>> \in Abandoned]_vars
  BY StatusStep DEF StatusMoves
<1> QED BY <1>1, <1>2, <1>3, PTL DEF Spec, StatusProtocol

-----------------------------------------------------------------------------
(* Layer 2: what the slots, the calls and the callers hold.                 *)

\* Without a conflict a step changes no slot that is Ready or Reading, and no slot of
\* a write call that does not move.
LEMMA PartsStay ==
  ASSUME TypeOK, StatusInv, [Next]_vars, ~conflicted'
  PROVE  /\ ~conflicted
         /\ \A s \in Slots : status[s] \in {"Ready", "Reading"} => slot'[s] = slot[s]
         /\ \A q \in Producers : pc[q] \in WritingSection /\ pc'[q] = pc[q] =>
              idx'[q] = idx[q] /\ msg'[q] = msg[q] /\ slot'[idx[q]] = slot[idx[q]]
<1> USE DEF header, slots, writers, reader, callers, laps, Alive
<1>1. ~conflicted /\ ~Conflict
  <2>1. CASE UNCHANGED vars
    BY <2>1 DEF vars, StatusInv
  <2>2. CASE Next
    <3>1. RecordConflict
      BY <2>2 DEF Next, WriteStep, LoadProducerIdx, LoadConsumerIdx, LoadCurrent, CasProducerIdx,
         TakeIdx, CheckEmpty, CheckComplete, ResetForWrite, SetOperation, MarkWriting, FillSlot,
         StoreStatus, StorePart, SetReady, BeginRead, ReadStep, CheckForData, TakeConsumerIdx,
         CheckReady, TestReady, LoadSlot, LoadPart, SetReading, SetComplete, ReaderStoresStatus,
         ReturnData, ResetAfterRead, RejectOversized, BeginWrite, CrashWrite, CrashRead
    <3> QED BY <3>1, QuietStep
  <2> QED BY <2>1, <2>2
<1>2. /\ \A p \in Producers : WriterSees(p) /\ idx[p] \in Slots
      /\ ReaderSees /\ cidx \in Slots /\ slot \in [Slots -> SlotParts]
      /\ pc \in [Producers -> ProducerLabels] /\ idx \in [Producers -> Slots]
      /\ msg \in [Producers -> MsgField]
  BY <1>1 DEF StatusInv, TypeOK
<1>3. CASE UNCHANGED vars
  BY <1>1, <1>3 DEF vars
<1>4. ASSUME NEW p \in Producers, NEW from \in WritingSection, NEW to, NEW f, NEW m, from # to,
             StorePart(p, from, to, f, m)
      PROVE  /\ \A s \in Slots : status[s] \in {"Ready", "Reading"} => slot'[s] = slot[s]
             /\ \A q \in Producers : pc[q] \in WritingSection /\ pc'[q] = pc[q] =>
                  idx'[q] = idx[q] /\ msg'[q] = msg[q] /\ slot'[idx[q]] = slot[idx[q]]
  <2>1. /\ pc[p] = from /\ pc'[p] = to /\ UNCHANGED <<idx, msg>>
        /\ \A s \in Slots : s # idx[p] => slot'[s] = slot[s]
    BY <1>2, <1>4 DEF StorePart, Goto
  <2>2. status[idx[p]] \notin {"Ready", "Reading"}
    BY <1>2, <1>4, <2>1 DEF WriterSees, WritingSection, FillingSection
  <2>3. \A q \in Producers \ {p} : pc[q] \in WritingSection => idx[q] # idx[p]
    BY <1>1, <1>4, <2>1, SlotIsOwn
  <2> QED BY <1>2, <1>4, <2>1, <2>2, <2>3
<1>5. ASSUME NEW p \in Producers, WriteStep(p)
      PROVE  /\ \A s \in Slots : status[s] \in {"Ready", "Reading"} => slot'[s] = slot[s]
             /\ \A q \in Producers : pc[q] \in WritingSection /\ pc'[q] = pc[q] =>
                  idx'[q] = idx[q] /\ msg'[q] = msg[q] /\ slot'[idx[q]] = slot[idx[q]]
  <2>1. CASE ResetForWrite(p) \/ SetOperation(p) \/ FillSlot(p)
    <3>1. CASE StoreStatus(p, "rstStatus", "rstOp", "Empty")
      BY <1>2, <3>1 DEF StoreStatus, Goto
    <3> QED BY <1>4, <2>1, <3>1 DEF ResetForWrite, SetOperation, FillSlot, WritingSection
  <2>2. CASE ~(ResetForWrite(p) \/ SetOperation(p) \/ FillSlot(p))
    <3>1. UNCHANGED slot /\ pc[p] \in ProducerLabels
      BY <1>2, <1>5, <2>2 DEF WriteStep, LoadProducerIdx, LoadConsumerIdx, LoadCurrent,
         CasProducerIdx, TakeIdx, CheckEmpty, CheckComplete, MarkWriting, StoreStatus, SetReady
    <3>2. /\ \A q \in Producers \ {p} : pc'[q] = pc[q] /\ idx'[q] = idx[q] /\ msg'[q] = msg[q]
          /\ pc[p] \in WritingSection => pc'[p] # pc[p]
      BY <1>2, <1>5, <2>2 DEF WriteStep, LoadProducerIdx, LoadConsumerIdx, LoadCurrent,
         CasProducerIdx, TakeIdx, CheckEmpty, CheckComplete, MarkWriting, StoreStatus, SetReady,
         Retry, Finish, Goto, WritingSection
    <3> QED BY <3>1, <3>2
  <2> QED BY <2>1, <2>2
<1>6. ASSUME NEW p \in Producers, RejectOversized(p) \/ BeginWrite(p) \/ CrashWrite(p)
      PROVE  /\ UNCHANGED slot
             /\ \A q \in Producers : pc[q] \in WritingSection /\ pc'[q] = pc[q] =>
                  idx'[q] = idx[q] /\ msg'[q] = msg[q] /\ slot'[idx[q]] = slot[idx[q]]
  BY <1>2, <1>6 DEF RejectOversized, BeginWrite, CrashWrite, Finish, Goto, WritingSection
<1>7. ASSUME BeginRead \/ ReadStep \/ CrashRead
      PROVE  /\ \A s \in Slots : status[s] \in {"Ready", "Reading"} => slot'[s] = slot[s]
             /\ \A q \in Producers : pc[q] \in WritingSection =>
                  idx'[q] = idx[q] /\ msg'[q] = msg[q] /\ slot'[idx[q]] = slot[idx[q]]
  <2>1. UNCHANGED <<pc, idx, msg>>
    BY <1>7 DEF BeginRead, ReadStep, CheckForData, TakeConsumerIdx, CheckReady, TestReady,
         LoadSlot, LoadPart, SetReading, SetComplete, ReaderStoresStatus, ReturnData,
         ResetAfterRead, CrashRead
  <2>2. \/ UNCHANGED slot
        \/ /\ cpc \in {"rstOp", "rstSize"}
           /\ \A s \in Slots : s # cidx => slot'[s] = slot[s]
    BY <1>2, <1>7 DEF BeginRead, ReadStep, CheckForData, TakeConsumerIdx, CheckReady, TestReady,
         LoadSlot, LoadPart, SetReading, SetComplete, ReaderStoresStatus, ReturnData,
         ResetAfterRead, CrashRead, EndRead, CGoto
  <2>3. CASE cpc \in {"rstOp", "rstSize"}
    <3>1. status[cidx] = "Empty" /\ \A q \in Producers : pc[q] \in WritingSection => cidx # idx[q]
      BY <1>1, <1>2, <2>3, SlotIsOwn DEF ReaderSees, ResettingSection
    <3> QED BY <1>2, <2>1, <2>2, <3>1
  <2> QED BY <2>1, <2>2, <2>3
<1> QED BY <1>1, <1>3, <1>5, <1>6, <1>7 DEF Next

\* A write call keeps what it has stored.
LEMMA FilledStep ==
  ASSUME TypeOK, StatusInv, ContentsInv, [Next]_vars, ~conflicted'
  PROVE  \A q \in Producers : WriterFilled(q)'
<1> USE DEF header, slots, writers, reader, callers, laps, Alive
<1> SUFFICES ASSUME NEW q \in Producers PROVE WriterFilled(q)'
  OBVIOUS
<1>1. /\ WriterFilled(q) /\ idx[q] \in Slots /\ slot \in [Slots -> SlotParts]
      /\ pc \in [Producers -> ProducerLabels] /\ idx \in [Producers -> Slots]
      /\ msg \in [Producers -> MsgField]
  BY PartsStay DEF ContentsInv, TypeOK
<1>2. CASE pc'[q] = pc[q]
  <2>1. pc[q] \in WritingSection =>
          idx'[q] = idx[q] /\ msg'[q] = msg[q] /\ slot'[idx[q]] = slot[idx[q]]
    BY <1>2, PartsStay
  <2> QED BY <1>1, <1>2, <2>1 DEF WriterFilled, WritingSection, FillingSection
<1>3. CASE pc'[q] # pc[q]
  <2>1. WriteStep(q) \/ BeginWrite(q) \/ CrashWrite(q)
    <3>1. ASSUME BeginRead \/ ReadStep \/ CrashRead \/ UNCHANGED vars PROVE UNCHANGED pc
      BY <3>1 DEF BeginRead, ReadStep, CheckForData, TakeConsumerIdx, CheckReady, TestReady,
         LoadSlot, LoadPart, SetReading, SetComplete, ReaderStoresStatus, ReturnData,
         ResetAfterRead, CrashRead, vars
    <3>2. ASSUME NEW p \in Producers \ {q},
                 RejectOversized(p) \/ BeginWrite(p) \/ WriteStep(p) \/ CrashWrite(p)
          PROVE  pc'[q] = pc[q]
      BY <1>1, <3>2 DEF RejectOversized, BeginWrite, CrashWrite, WriteStep, LoadProducerIdx,
         LoadConsumerIdx, LoadCurrent, CasProducerIdx, TakeIdx, CheckEmpty, CheckComplete,
         ResetForWrite, SetOperation, MarkWriting, FillSlot, StoreStatus, StorePart, SetReady,
         Retry, Finish, Goto
    <3>3. RejectOversized(q) => pc'[q] = pc[q]
      BY DEF RejectOversized
    <3> QED BY <1>3, <3>1, <3>2, <3>3 DEF Next
  <2>2. CASE ResetForWrite(q) \/ SetOperation(q) \/ FillSlot(q) \/ MarkWriting(q)
    <3>1. UNCHANGED <<idx, msg>>
      BY <2>2 DEF ResetForWrite, SetOperation, FillSlot, MarkWriting, StoreStatus, StorePart
    <3>2. CASE MarkWriting(q) \/ ResetForWrite(q)
      BY <1>1, <3>1, <3>2 DEF ResetForWrite, MarkWriting, StoreStatus, StorePart, Goto,
         WriterFilled, FillingSection
    <3>3. CASE SetOperation(q)
      BY <1>1, <3>1, <3>3 DEF SetOperation, StorePart, Goto, WriterFilled, FillingSection,
         SlotParts, Parts
    <3>4. CASE FillSlot(q)
      BY <1>1, <3>1, <3>4 DEF FillSlot, StorePart, Goto, WriterFilled, FillingSection,
         SlotParts, Parts
    <3> QED BY <2>2, <3>2, <3>3, <3>4
  <2>3. CASE ~(ResetForWrite(q) \/ SetOperation(q) \/ FillSlot(q) \/ MarkWriting(q))
    <3>1. pc'[q] \notin {"setWriting"} \cup FillingSection
      BY <1>1, <2>1, <2>3 DEF BeginWrite, CrashWrite, WriteStep, LoadProducerIdx,
         LoadConsumerIdx, LoadCurrent, CasProducerIdx, TakeIdx, CheckEmpty, CheckComplete,
         SetReady, Retry, Finish, Goto, FillingSection
    <3> QED BY <3>1 DEF WriterFilled, FillingSection
  <2> QED BY <2>2, <2>3
<1> QED BY <1>2, <1>3

\* A read call keeps what it has loaded, and what it has loaded stays in the slot.
LEMMA GotStep ==
  ASSUME TypeOK, StatusInv, ContentsInv, [Next]_vars, ~conflicted'
  PROVE  ReaderGot'
<1> USE DEF header, slots, writers, reader, callers, laps, Alive
<1>1. /\ ~conflicted /\ ReaderGot /\ ReaderSees /\ cidx \in Slots /\ got \in SlotParts
  BY PartsStay DEF ContentsInv, StatusInv, TypeOK
<1>2. cpc \in {"loadOp", "recheck", "setReading"} \cup CopyingSection =>
        slot'[cidx] = slot[cidx]
  BY <1>1, PartsStay DEF ReaderSees
<1>3. CASE UNCHANGED <<cpc, cidx, got>>
  BY <1>1, <1>2, <1>3 DEF ReaderGot, CopyingSection
<1>4. CASE cpc' \notin {"recheck", "setReading"} \cup CopyingSection
  BY <1>4 DEF ReaderGot, CopyingSection
<1>5. CASE ~UNCHANGED <<cpc, cidx, got>> /\ cpc' \in {"recheck", "setReading"} \cup CopyingSection
  <2>1. TestReady("recheck", "setReading") \/ LoadSlot \/ SetReading
    <3>1. ASSUME NEW p \in Producers,
                 RejectOversized(p) \/ BeginWrite(p) \/ WriteStep(p) \/ CrashWrite(p)
          PROVE  UNCHANGED <<cpc, cidx, got>>
      BY <3>1 DEF RejectOversized, BeginWrite, CrashWrite, WriteStep, LoadProducerIdx,
         LoadConsumerIdx, LoadCurrent, CasProducerIdx, TakeIdx, CheckEmpty, CheckComplete,
         ResetForWrite, SetOperation, MarkWriting, FillSlot, StoreStatus, StorePart, SetReady
    <3>2. ASSUME \/ BeginRead \/ CheckForData \/ TakeConsumerIdx \/ SetComplete \/ ReturnData
                 \/ ResetAfterRead \/ CrashRead \/ TestReady("chkReady", "loadOp")
          PROVE  cpc' \notin {"recheck", "setReading"} \cup CopyingSection
      BY <3>2 DEF BeginRead, CheckForData, TakeConsumerIdx, TestReady, SetComplete,
         ReaderStoresStatus, ReturnData, ResetAfterRead, CrashRead, EndRead, CGoto, CopyingSection
    <3>3. UNCHANGED vars => UNCHANGED <<cpc, cidx, got>>
      BY DEF vars
    <3> QED BY <1>5, <3>1, <3>2, <3>3 DEF Next, ReadStep, CheckReady
  <2>2. CASE TestReady("recheck", "setReading") \/ SetReading
    BY <1>1, <1>2, <1>5, <2>2 DEF TestReady, SetReading, ReaderStoresStatus, CGoto, ReaderGot,
       CopyingSection
  <2>3. CASE LoadSlot
    BY <1>1, <1>2, <2>3 DEF LoadSlot, LoadPart, CGoto, ReaderGot, CopyingSection, SlotParts, Parts
  <2> QED BY <2>1, <2>2, <2>3
<1> QED BY <1>3, <1>4, <1>5

\* A step that moves no message on its way from a write call to a slot, to the read
\* call and out.
Calm ==
  /\ \A p \in Producers : pc'[p] # "idle" => pc[p] # "idle" /\ msg'[p] = msg[p]
  /\ \A s \in Slots :
       /\ status[s] = "Ready" <=> status'[s] = "Ready"
       /\ status'[s] = "Reading" => status[s] = "Reading"
  /\ cpc \in CopyingSection => cpc' \in CopyingSection /\ cidx' = cidx
  /\ cpc = "count" <=> cpc' = "count"
  /\ cpc = "count" => got' = got
  /\ delivered' = delivered
  /\ written' >= written
  /\ \A m \in Messages : outcome'[m] = "ok" => outcome[m] = "ok"

\* The ends of a write call that did not store Ready.
LEMMA FinishCalm ==
  ASSUME TypeOK, NEW p \in Producers, NEW from, NEW result \in {"full", "killed"},
         pc[p] # "idle", Finish(p, from, result)
  PROVE  /\ \A q \in Producers : pc'[q] # "idle" => pc[q] # "idle" /\ msg'[q] = msg[q]
         /\ \A m \in Messages : outcome'[m] = "ok" => outcome[m] = "ok"
BY DEF Finish, Goto, TypeOK

\* The steps that move a message.
LEMMA Moves ==
  ASSUME TypeOK, StatusInv, [Next]_vars, ~conflicted'
  PROVE  \/ Calm
         \/ \E p \in Producers : BeginWrite(p) \/ SetReady(p)
         \/ SetReading \/ SetComplete \/ ReturnData \/ CrashRead
<1> USE DEF header, slots, writers, reader, callers, laps, Alive
<1>1. /\ ~conflicted /\ ReaderSees /\ cidx \in Slots /\ cpc \in ReaderLabels
      /\ \A p \in Producers : WriterSees(p) /\ idx[p] \in Slots
      /\ pc \in [Producers -> ProducerLabels] /\ msg \in [Producers -> MsgField]
      /\ status \in [Slots -> Statuses] /\ written \in Nat
      /\ outcome \in [Messages -> Outcomes]
  BY PartsStay, BoundsAssumption DEF StatusInv, TypeOK
<1>2. CASE UNCHANGED vars
  BY <1>1, <1>2 DEF vars, Calm
<1>3. ASSUME NEW p \in Producers, RejectOversized(p) PROVE Calm
  BY <1>1, <1>3 DEF RejectOversized, Calm
<1>4. ASSUME NEW p \in Producers, CrashWrite(p) PROVE Calm
  <2>1. pc[p] # "idle" /\ Finish(p, pc[p], "killed")
        /\ UNCHANGED <<status, cpc, cidx, got, delivered, written>>
    BY <1>4 DEF CrashWrite
  <2> QED BY <1>1, <2>1, FinishCalm DEF Calm
<1>5. ASSUME NEW p \in Producers, WriteStep(p), ~SetReady(p) PROVE Calm
  <2>1. UNCHANGED <<cpc, cidx, got, delivered, written>>
    BY <1>5 DEF WriteStep, LoadProducerIdx, LoadConsumerIdx, LoadCurrent, CasProducerIdx,
       TakeIdx, CheckEmpty, CheckComplete, ResetForWrite, SetOperation, MarkWriting, FillSlot,
       StoreStatus, StorePart
  <2>2. \A s \in Slots : /\ status[s] = "Ready" <=> status'[s] = "Ready"
                         /\ status'[s] = "Reading" => status[s] = "Reading"
    <3>1. \/ UNCHANGED status
          \/ /\ pc[p] \in {"rstStatus", "setWriting"}
             /\ \E v \in {"Empty", "Writing"} : status' = [status EXCEPT ![idx[p]] = v]
      BY <1>5 DEF WriteStep, LoadProducerIdx, LoadConsumerIdx, LoadCurrent, CasProducerIdx,
         TakeIdx, CheckEmpty, CheckComplete, ResetForWrite, SetOperation, MarkWriting, FillSlot,
         StoreStatus, StorePart, Goto
    <3> QED BY <1>1, <3>1 DEF WriterSees
  <2>3. /\ \A q \in Producers : pc'[q] # "idle" => pc[q] # "idle" /\ msg'[q] = msg[q]
        /\ \A m \in Messages : outcome'[m] = "ok" => outcome[m] = "ok"
    <3>1. CASE UNCHANGED <<msg, outcome>> /\ pc[p] # "idle"
      BY <1>1, <1>5, <3>1 DEF WriteStep, LoadProducerIdx, LoadConsumerIdx, LoadCurrent,
         CasProducerIdx, TakeIdx, CheckEmpty, CheckComplete, ResetForWrite, SetOperation,
         MarkWriting, FillSlot, StoreStatus, StorePart, Retry, Finish, Goto
    <3>2. CASE ~(UNCHANGED <<msg, outcome>> /\ pc[p] # "idle")
      <4>1. \E from \in {"loadC", "chkComplete"} : Finish(p, from, "full")
        BY <1>5, <3>2 DEF WriteStep, LoadProducerIdx, LoadConsumerIdx, LoadCurrent,
         CasProducerIdx, TakeIdx, CheckEmpty, CheckComplete, ResetForWrite, SetOperation,
         MarkWriting, FillSlot, StoreStatus, StorePart, Retry, Goto
      <4>2. pc[p] # "idle"
        BY <4>1 DEF Finish, Goto
      <4> QED BY <4>1, <4>2, FinishCalm
    <3> QED BY <3>1, <3>2
  <2> QED BY <1>1, <2>1, <2>2, <2>3 DEF Calm
<1>6. ASSUME BeginRead \/ CheckForData \/ TakeConsumerIdx \/ CheckReady \/ LoadSlot
             \/ ResetAfterRead
      PROVE  Calm
  <2>1. UNCHANGED <<pc, msg, delivered, written, outcome>>
    BY <1>6 DEF BeginRead, CheckForData, TakeConsumerIdx, CheckReady, TestReady, LoadSlot,
       LoadPart, ReaderStoresStatus, ResetAfterRead
  <2>2. /\ cpc \in CopyingSection => cpc' \in CopyingSection /\ cidx' = cidx
        /\ cpc # "count" /\ cpc' # "count"
    BY <1>6 DEF BeginRead, CheckForData, TakeConsumerIdx, CheckReady, TestReady, LoadSlot,
       LoadPart, ReaderStoresStatus, ResetAfterRead, EndRead, CGoto, CopyingSection
  <2>3. \/ UNCHANGED status
        \/ cpc = "rstStatus" /\ status' = [status EXCEPT ![cidx] = "Empty"]
    BY <1>6 DEF BeginRead, CheckForData, TakeConsumerIdx, CheckReady, TestReady, LoadSlot,
       LoadPart, ReaderStoresStatus, ResetAfterRead, CGoto
  <2>4. \A s \in Slots : /\ status[s] = "Ready" <=> status'[s] = "Ready"
                         /\ status'[s] = "Reading" => status[s] = "Reading"
    BY <1>1, <2>3 DEF ReaderSees
  <2> QED BY <1>1, <2>1, <2>2, <2>4 DEF Calm
<1> QED BY <1>2, <1>3, <1>4, <1>5, <1>6 DEF Next, ReadStep

\* Two slot contents that agree in every part.
LEMMA SameParts ==
  ASSUME NEW a \in SlotParts, NEW b \in SlotParts,
         a["op"] = b["op"], a["size"] = b["size"], a["low"] = b["low"], a["high"] = b["high"]
  PROVE  a = b
BY DEF SlotParts, Parts

\* What a write call has stored when it is about to store Ready.
LEMMA SlotIsFull ==
  ASSUME TypeOK, ContentsInv, ~conflicted, NEW p \in Producers, pc[p] = "setReady"
  PROVE  slot[idx[p]] = Whole(msg[p])
<1>1. WriterFilled(p) /\ slot[idx[p]] \in SlotParts /\ Whole(msg[p]) \in SlotParts
  BY DEF ContentsInv, TypeOK, Whole, SlotParts
<1>2. \A f \in Parts : Whole(msg[p])[f] = msg[p]
  BY DEF Whole
<1> QED BY <1>1, <1>2, SameParts DEF WriterFilled, FillingSection, Parts

\* What a read call has loaded when it is about to store Complete.
LEMMA CopyIsFull ==
  ASSUME TypeOK, ContentsInv, ~conflicted, cpc = "setComplete"
  PROVE  got = slot[cidx]
<1>1. ReaderGot /\ got \in SlotParts /\ slot[cidx] \in SlotParts
  BY DEF ContentsInv, TypeOK
<1> QED BY <1>1, SameParts DEF ReaderGot, CopyingSection

\* Every step keeps the second layer.
LEMMA ContentsStep ==
  ASSUME TypeOK, StatusInv, ContentsInv, [Next]_vars
  PROVE  ContentsInv'
<1> USE DEF header, slots, writers, reader, callers, laps, Alive
<1> SUFFICES ASSUME ~conflicted'
             PROVE  /\ \A s \in Slots : status'[s] \in {"Ready", "Reading"} =>
                         \E m \in Messages : slot'[s] = Whole(m)
                    /\ cpc' = "count" => \E m \in Messages : got' = Whole(m)
                    /\ \A i \in DOMAIN delivered' :
                         \E m \in Messages : delivered'[i] = Whole(m)
  BY FilledStep, GotStep DEF ContentsInv, Whole
<1>1. /\ ~conflicted /\ StatusInv /\ cidx \in Slots
      /\ \A s \in Slots : status[s] \in {"Ready", "Reading"} => slot'[s] = slot[s]
      /\ \A s \in Slots : status[s] \in {"Ready", "Reading"} => \E m \in Messages : slot[s] = Whole(m)
      /\ cpc = "count" => \E m \in Messages : got = Whole(m)
      /\ \A i \in DOMAIN delivered : \E m \in Messages : delivered[i] = Whole(m)
      /\ delivered \in Seq(SlotParts) /\ got \in SlotParts /\ status \in [Slots -> Statuses]
  BY PartsStay DEF ContentsInv, TypeOK
<1>2. CASE Calm
  BY <1>1, <1>2 DEF Calm
<1>3. ASSUME NEW p \in Producers, BeginWrite(p)
      PROVE  UNCHANGED <<status, slot, cpc, got, delivered>>
  BY <1>3 DEF BeginWrite
<1>4. ASSUME NEW p \in Producers, SetReady(p)
      PROVE  \A s \in Slots : status'[s] \in {"Ready", "Reading"} =>
               \E m \in Messages : slot'[s] = Whole(m)
  <2>1. /\ pc[p] = "setReady" /\ status' = [status EXCEPT ![idx[p]] = "Ready"]
        /\ slot' = slot /\ msg[p] \in Messages
    BY <1>4 DEF SetReady, Finish, Goto, TypeOK
  <2>2. slot[idx[p]] = Whole(msg[p])
    BY <1>1, <2>1, SlotIsFull
  <2> QED BY <1>1, <2>1, <2>2
<1>5. ASSUME NEW p \in Producers, SetReady(p) PROVE UNCHANGED <<cpc, got, delivered>>
  BY <1>5 DEF SetReady
<1>6. CASE SetReading
  <2>1. /\ status' = [status EXCEPT ![cidx] = "Reading"] /\ UNCHANGED <<slot, delivered>>
        /\ cpc = "setReading" /\ cpc' = "loadSize"
    BY <1>6 DEF SetReading, ReaderStoresStatus, CGoto
  <2>2. status[cidx] = "Ready"
    BY <1>1, <2>1 DEF StatusInv, ReaderSees
  <2> QED BY <1>1, <2>1, <2>2
<1>7. CASE SetComplete
  <2>1. /\ status' = [status EXCEPT ![cidx] = "Complete"] /\ UNCHANGED <<slot, got, delivered>>
        /\ cpc = "setComplete" /\ cpc' = "count"
    BY <1>7 DEF SetComplete, ReaderStoresStatus, CGoto
  <2>2. status[cidx] = "Reading" /\ got = slot[cidx]
    BY <1>1, <2>1, CopyIsFull DEF StatusInv, ReaderSees, CopyingSection
  <2> QED BY <1>1, <2>1, <2>2
<1>8. CASE ReturnData
  <2>1. /\ UNCHANGED <<status, slot>> /\ cpc = "count" /\ cpc' = "idle"
        /\ delivered' = Append(delivered, got)
    BY <1>8 DEF ReturnData, EndRead, CGoto
  <2> QED BY <1>1, <2>1
<1>9. CASE CrashRead
  <2>1. UNCHANGED <<status, slot, delivered>> /\ cpc' = "idle"
    BY <1>9 DEF CrashRead, EndRead, CGoto
  <2> QED BY <1>1, <2>1
<1> QED BY <1>1, <1>2, <1>3, <1>4, <1>5, <1>6, <1>7, <1>8, <1>9, Moves

LEMMA ContentsInit == Init => ContentsInv
BY DEF Init, ContentsInv, WriterFilled, ReaderGot, FillingSection, CopyingSection

-----------------------------------------------------------------------------
(* Layer 3: a message is in one place.                                      *)

LEMMA WholeIsOne ==
  ASSUME NEW m, NEW n, Whole(m) = Whole(n)
  PROVE  m = n
<1>1. Whole(m)["op"] = m /\ Whole(n)["op"] = n
  BY DEF Whole, Parts
<1> QED BY <1>1

\* The invariant only forbids: a step that puts no message anywhere keeps it.
LEMMA UniqueKept ==
  ASSUME TypeOK, UniqueInv, ~conflicted, written' \in Nat, written' >= written,
         \A p \in Producers, m \in Messages : InCall(p, m)' => InCall(p, m),
         \A s \in Slots, m \in Messages : InSlot(s, m)' => InSlot(s, m),
         \A m \in Messages : InHand(m)' => InHand(m),
         delivered' = delivered
  PROVE  UniqueInv'
<1>1. written \in Nat /\ Messages \subseteq Nat
  BY BoundsAssumption DEF TypeOK, Messages
<1>2. \A i, m : Out(i, m)' <=> Out(i, m)
  BY DEF Out, Whole
<1>3. \A m \in Messages : m <= written => m <= written'
  BY <1>1
<1> HIDE DEF InCall, InSlot, InHand, Out
<1> QED BY <1>2, <1>3 DEF UniqueInv

\* Every step keeps the third layer.
LEMMA UniqueStep ==
  ASSUME TypeOK, StatusInv, ContentsInv, UniqueInv, [Next]_vars
  PROVE  UniqueInv'
<1> USE DEF header, slots, writers, reader, callers, laps, Alive
<1> SUFFICES ASSUME ~conflicted' PROVE UniqueInv'
  BY DEF UniqueInv
<1>1. /\ ~conflicted /\ cidx \in Slots /\ ReaderSees
      /\ \A p \in Producers : WriterSees(p) /\ idx[p] \in Slots
      /\ \A s \in Slots : status[s] \in {"Ready", "Reading"} => slot'[s] = slot[s]
      /\ status \in [Slots -> Statuses] /\ pc \in [Producers -> ProducerLabels]
      /\ msg \in [Producers -> MsgField] /\ written \in Nat /\ written' \in Nat
      /\ delivered \in Seq(SlotParts) /\ got \in SlotParts
  <2>1. /\ ~conflicted
        /\ \A s \in Slots : status[s] \in {"Ready", "Reading"} => slot'[s] = slot[s]
    BY PartsStay
  <2>2. ReaderSees /\ \A p \in Producers : WriterSees(p)
    BY <2>1 DEF StatusInv
  <2>3. written' \in Nat
    BY StepTyped, BoundsAssumption DEF TypeOK
  <2>4. /\ cidx \in Slots /\ \A p \in Producers : idx[p] \in Slots
        /\ status \in [Slots -> Statuses] /\ pc \in [Producers -> ProducerLabels]
        /\ msg \in [Producers -> MsgField] /\ written \in Nat
        /\ delivered \in Seq(SlotParts) /\ got \in SlotParts
    BY BoundsAssumption DEF TypeOK
  <2> QED BY <2>1, <2>2, <2>3, <2>4
<1>2. \A i, m : delivered' = delivered => (Out(i, m)' <=> Out(i, m))
  BY DEF Out, Whole
<1>3. CASE Calm
  <2>1. \A p \in Producers, m \in Messages : InCall(p, m)' => InCall(p, m)
    BY <1>3 DEF Calm, InCall
  <2>2. \A s \in Slots, m \in Messages : InSlot(s, m)' => InSlot(s, m)
    BY <1>1, <1>3 DEF Calm, InSlot, Whole
  <2>3. \A m \in Messages : InHand(m)' => InHand(m)
    BY <1>3 DEF Calm, InHand, Whole
  <2>4. delivered' = delivered /\ written' >= written
    BY <1>3 DEF Calm
  <2> QED BY <1>1, <2>1, <2>2, <2>3, <2>4, UniqueKept
<1>4. ASSUME NEW p \in Producers, BeginWrite(p)
      PROVE  UniqueInv'
  <2>1. /\ UNCHANGED <<status, slot, cpc, got, delivered>>
        /\ written' = written + 1 /\ pc[p] = "idle"
        /\ \A q \in Producers \ {p} : pc'[q] = pc[q] /\ msg'[q] = msg[q]
        /\ msg'[p] = written + 1
    BY <1>1, <1>4 DEF BeginWrite, Goto
  <2>2. \A q \in Producers, m \in Messages :
          InCall(q, m)' => InCall(q, m) \/ (q = p /\ m = written + 1)
    BY <2>1 DEF InCall
  <2>3. \A s \in Slots, m \in Messages : InSlot(s, m)' <=> InSlot(s, m)
    BY <2>1 DEF InSlot, Whole
  <2>4. \A m \in Messages : InHand(m)' <=> InHand(m)
    BY <2>1 DEF InHand, Whole
  <2>5. \A m \in Messages : m <= written => m <= written' /\ m # written + 1
    BY <1>1, <2>1, BoundsAssumption DEF Messages
  <2>6. \A m \in Messages : m = written + 1 => m <= written'
    BY <1>1, <2>1, BoundsAssumption DEF Messages
  <2> QED BY <1>1, <1>2, <2>1, <2>2, <2>3, <2>4, <2>5, <2>6 DEF UniqueInv
<1>5. ASSUME NEW p \in Producers, SetReady(p)
      PROVE  UniqueInv'
  <2>1. /\ UNCHANGED <<slot, cpc, got, delivered, written>>
        /\ status' = [status EXCEPT ![idx[p]] = "Ready"]
        /\ pc[p] = "setReady" /\ pc'[p] = "idle"
        /\ \A q \in Producers \ {p} : pc'[q] = pc[q] /\ msg'[q] = msg[q]
    BY <1>1, <1>5 DEF SetReady, Finish, Goto
  <2>2. slot[idx[p]] = Whole(msg[p]) /\ InCall(p, msg[p])
    BY <1>1, <2>1, SlotIsFull DEF InCall
  <2>3. \A q \in Producers, m \in Messages : InCall(q, m)' => InCall(q, m) /\ q # p
    BY <2>1 DEF InCall
  <2>4. \A s \in Slots, m \in Messages :
          InSlot(s, m)' => InSlot(s, m) \/ (s = idx[p] /\ m = msg[p])
    <3>1. ASSUME NEW s \in Slots, NEW m \in Messages, InSlot(s, m)', s = idx[p]
          PROVE  m = msg[p]
      <4>1. slot[idx[p]] = Whole(m)
        BY <2>1, <3>1 DEF InSlot, Whole
      <4> QED BY <2>2, <4>1, WholeIsOne
    <3>2. ASSUME NEW s \in Slots, NEW m \in Messages, InSlot(s, m)', s # idx[p]
          PROVE  InSlot(s, m)
      BY <1>1, <2>1, <3>2 DEF InSlot, Whole
    <3> QED BY <3>1, <3>2
  <2>5. \A m \in Messages : InHand(m)' <=> InHand(m)
    BY <2>1 DEF InHand, Whole
  <2> QED BY <1>1, <1>2, <2>1, <2>2, <2>3, <2>4, <2>5 DEF UniqueInv
<1>6. CASE SetReading
  <2>1. /\ UNCHANGED <<slot, pc, msg, delivered, written>>
        /\ status' = [status EXCEPT ![cidx] = "Reading"]
        /\ cpc = "setReading" /\ cpc' = "loadSize"
    BY <1>6 DEF SetReading, ReaderStoresStatus, CGoto
  <2>2. status[cidx] = "Ready"
    BY <1>1, <2>1 DEF ReaderSees
  <2>3. \A p \in Producers, m \in Messages : InCall(p, m)' => InCall(p, m)
    BY <2>1 DEF InCall
  <2>4. \A s \in Slots, m \in Messages : InSlot(s, m)' => InSlot(s, m)
    BY <1>1, <2>1, <2>2 DEF InSlot, Whole
  <2>5. \A m \in Messages : InHand(m)' => InHand(m)
    BY <2>1 DEF InHand
  <2> QED BY <1>1, <2>1, <2>3, <2>4, <2>5, UniqueKept
<1>7. CASE SetComplete
  <2>1. /\ UNCHANGED <<slot, pc, msg, got, delivered, written>>
        /\ status' = [status EXCEPT ![cidx] = "Complete"]
        /\ cpc = "setComplete" /\ cpc' = "count"
    BY <1>7 DEF SetComplete, ReaderStoresStatus, CGoto
  <2>2. status[cidx] = "Reading" /\ got = slot[cidx]
    BY <1>1, <2>1, CopyIsFull DEF ReaderSees, CopyingSection
  <2>3. \A p \in Producers, m \in Messages : InCall(p, m)' <=> InCall(p, m)
    BY <2>1 DEF InCall
  <2>4. \A s \in Slots, m \in Messages : InSlot(s, m)' => InSlot(s, m) /\ s # cidx
    BY <1>1, <2>1 DEF InSlot, Whole
  <2>5. \A m \in Messages : InHand(m)' => InSlot(cidx, m)
    BY <2>1, <2>2 DEF InHand, InSlot, Whole
  <2> QED BY <1>1, <1>2, <2>1, <2>3, <2>4, <2>5 DEF UniqueInv
<1>8. CASE ReturnData
  <2>1. /\ UNCHANGED <<status, slot, pc, msg, written>>
        /\ cpc = "count" /\ cpc' = "idle" /\ delivered' = Append(delivered, got)
    BY <1>8 DEF ReturnData, EndRead, CGoto
  <2>2. \A p \in Producers, m \in Messages : InCall(p, m)' <=> InCall(p, m)
    BY <2>1 DEF InCall
  <2>3. \A s \in Slots, m \in Messages : InSlot(s, m)' <=> InSlot(s, m)
    BY <2>1 DEF InSlot, Whole
  <2>4. \A m \in Messages : ~InHand(m)'
    BY <2>1 DEF InHand
  <2>5. /\ DOMAIN delivered' = DOMAIN delivered \cup {Len(delivered) + 1}
        /\ Len(delivered) + 1 \notin DOMAIN delivered
        /\ delivered'[Len(delivered) + 1] = got
        /\ \A i \in DOMAIN delivered : delivered'[i] = delivered[i]
    BY <1>1, <2>1
  <2>6. \A i \in DOMAIN delivered, m \in Messages : Out(i, m)' <=> Out(i, m)
    BY <2>5 DEF Out, Whole
  <2>7. \A i \in DOMAIN delivered' \ DOMAIN delivered, m \in Messages :
          /\ Out(i, m)' => InHand(m)
          /\ DOMAIN delivered' = DOMAIN delivered \cup {i}
    BY <2>1, <2>5 DEF Out, InHand, Whole
  <2>8. DOMAIN delivered \subseteq DOMAIN delivered'
    BY <2>5
  <2> QED BY <1>1, <2>1, <2>2, <2>3, <2>4, <2>6, <2>7, <2>8 DEF UniqueInv
<1>9. CASE CrashRead
  <2>1. UNCHANGED <<status, slot, pc, msg, written, delivered>> /\ cpc' = "idle"
    BY <1>9 DEF CrashRead, EndRead, CGoto
  <2>2. \A p \in Producers, m \in Messages : InCall(p, m)' => InCall(p, m)
    BY <2>1 DEF InCall
  <2>3. \A s \in Slots, m \in Messages : InSlot(s, m)' => InSlot(s, m)
    BY <2>1 DEF InSlot, Whole
  <2>4. \A m \in Messages : ~InHand(m)'
    BY <2>1 DEF InHand
  <2> QED BY <1>1, <2>1, <2>2, <2>3, <2>4, UniqueKept
<1> QED BY <1>3, <1>4, <1>5, <1>6, <1>7, <1>8, <1>9, Moves

LEMMA UniqueInit == Init => UniqueInv
BY DEF Init, UniqueInv, InCall, InSlot, InHand, Out

-----------------------------------------------------------------------------
(* Layer 4: one killed call, one lost message at most.                      *)

\* A message that is not doomed stays so, unless the read that holds it is killed.
LEMMA DoomedStep ==
  ASSUME TypeOK, StatusInv, ContentsInv, [Next]_vars, ~conflicted', ~CrashRead
  PROVE  Doomed' \subseteq Doomed
<1> USE DEF header, slots, writers, reader, callers, laps, Alive
<1>1. /\ ~conflicted /\ cidx \in Slots /\ ReaderSees
      /\ \A s \in Slots : status[s] \in {"Ready", "Reading"} => slot'[s] = slot[s]
      /\ status \in [Slots -> Statuses] /\ \A p \in Producers : idx[p] \in Slots
      /\ delivered \in Seq(SlotParts) /\ got \in SlotParts
      /\ outcome \in [Messages -> Outcomes]
  BY PartsStay DEF StatusInv, TypeOK
<1> SUFFICES ASSUME NEW m \in Messages, m \in Doomed' PROVE m \in Doomed
  BY DEF Doomed
<1>2. /\ outcome'[m] = "ok"
      /\ \A i \in DOMAIN delivered' : delivered'[i] # Whole(m)
      /\ \A s \in Slots : status'[s] = "Ready" => slot'[s] # Whole(m)
      /\ cpc' \in CopyingSection => slot'[cidx'] # Whole(m)
      /\ ~(cpc' = "count" /\ got' = Whole(m))
  BY DEF Doomed, Out, InHand, Whole
<1> SUFFICES /\ outcome[m] = "ok"
             /\ \A i \in DOMAIN delivered : delivered[i] # Whole(m)
             /\ \A s \in Slots : status[s] = "Ready" => slot[s] # Whole(m)
             /\ cpc \in CopyingSection => slot[cidx] # Whole(m)
             /\ ~(cpc = "count" /\ got = Whole(m))
  BY DEF Doomed, Out, InHand
<1>3. cpc \in CopyingSection => slot'[cidx] = slot[cidx]
  BY <1>1 DEF ReaderSees
<1>4. CASE Calm
  BY <1>1, <1>2, <1>3, <1>4 DEF Calm
<1>5. ASSUME NEW p \in Producers, BeginWrite(p)
      PROVE  UNCHANGED <<status, slot, cpc, cidx, got, delivered>> /\ outcome[m] = "ok"
  BY <1>1, <1>2, <1>5 DEF BeginWrite
<1>6. ASSUME NEW p \in Producers, SetReady(p)
      PROVE  /\ UNCHANGED <<slot, cpc, cidx, got, delivered>> /\ outcome[m] = "ok"
             /\ \A s \in Slots : status[s] = "Ready" => status'[s] = "Ready"
  <2>1. /\ UNCHANGED <<slot, cpc, cidx, got, delivered>> /\ pc[p] = "setReady"
        /\ status' = [status EXCEPT ![idx[p]] = "Ready"]
        /\ outcome' = [outcome EXCEPT ![msg[p]] = "ok"]
    BY <1>6 DEF SetReady, Finish, Goto
  <2>2. slot[idx[p]] = Whole(msg[p])
    BY <1>1, <2>1, SlotIsFull
  <2>3. m # msg[p]
    BY <1>1, <1>2, <2>1, <2>2
  <2> QED BY <1>1, <1>2, <2>1, <2>3
<1>7. CASE SetReading
  <2>1. /\ UNCHANGED <<slot, cidx, delivered, outcome>>
        /\ status' = [status EXCEPT ![cidx] = "Reading"]
        /\ cpc = "setReading" /\ cpc' = "loadSize"
    BY <1>7 DEF SetReading, ReaderStoresStatus, CGoto
  <2>2. slot[cidx] # Whole(m)
    BY <1>2, <2>1 DEF CopyingSection
  <2>3. cpc \notin CopyingSection
    BY <2>1 DEF CopyingSection
  <2> QED BY <1>1, <1>2, <2>1, <2>2, <2>3
<1>8. CASE SetComplete
  <2>1. /\ UNCHANGED <<slot, cidx, got, delivered, outcome>>
        /\ status' = [status EXCEPT ![cidx] = "Complete"]
        /\ cpc = "setComplete" /\ cpc' = "count"
    BY <1>8 DEF SetComplete, ReaderStoresStatus, CGoto
  <2>2. got = slot[cidx] /\ status[cidx] = "Reading"
    BY <1>1, <2>1, CopyIsFull DEF ReaderSees, CopyingSection
  <2> QED BY <1>1, <1>2, <2>1, <2>2
<1>9. CASE ReturnData
  <2>1. /\ UNCHANGED <<status, slot, outcome>>
        /\ cpc = "count" /\ delivered' = Append(delivered, got)
    BY <1>9 DEF ReturnData, EndRead, CGoto
  <2>2. /\ delivered'[Len(delivered) + 1] = got /\ Len(delivered) + 1 \in DOMAIN delivered'
        /\ \A i \in DOMAIN delivered : i \in DOMAIN delivered' /\ delivered'[i] = delivered[i]
    BY <1>1, <2>1
  <2>3. cpc \notin CopyingSection
    BY <2>1 DEF CopyingSection
  <2> QED BY <1>2, <2>1, <2>2, <2>3
<1> QED BY <1>2, <1>4, <1>5, <1>6, <1>7, <1>8, <1>9, Moves

\* A killed read dooms no more than the message it holds.
LEMMA DoomedByCrash ==
  ASSUME TypeOK, ContentsInv, ~conflicted, CrashRead
  PROVE  \E x : Doomed' \subseteq Doomed \cup {x}
<1> USE DEF header, slots, writers, reader, callers, laps
<1>1. UNCHANGED <<status, slot, outcome, delivered>> /\ cpc' = "idle"
  BY DEF CrashRead, EndRead, CGoto
<1> DEFINE held == IF cpc = "count" THEN got ELSE slot[cidx]
<1>2. \A m \in Messages : m \in Doomed' /\ m \notin Doomed => held = Whole(m)
  BY <1>1 DEF Doomed, Out, InHand, Whole, CopyingSection
<1>3. CASE \E m \in Messages : held = Whole(m)
  <2>1. PICK x \in Messages : held = Whole(x)
    BY <1>3
  <2>2. \A m \in Messages : m \in Doomed' /\ m \notin Doomed => m = x
    BY <1>2, <2>1, WholeIsOne
  <2>3. Doomed' \subseteq Messages
    BY DEF Doomed
  <2> QED BY <2>2, <2>3
<1>4. CASE ~\E m \in Messages : held = Whole(m)
  <2>1. Doomed' \subseteq Messages
    BY DEF Doomed
  <2> QED BY <1>2, <1>4, <2>1
<1> QED BY <1>3, <1>4

LEMMA MessagesFinite ==
  ASSUME NEW S, S \subseteq Messages
  PROVE  IsFiniteSet(S) /\ Cardinality(S) \in Nat
<1>1. IsFiniteSet(Messages)
  BY FS_Interval, BoundsAssumption DEF Messages
<1> QED BY <1>1, FS_Subset, FS_CardinalityType

\* Every step keeps the fourth layer.
LEMMA DoomedInvStep ==
  ASSUME TypeOK, StatusInv, ContentsInv, DoomedInv, [Next]_vars
  PROVE  DoomedInv'
<1> USE DEF header, slots, writers, reader, callers, laps, Alive
<1> SUFFICES ASSUME ~conflicted' PROVE Cardinality(Doomed') <= crashes'
  BY DEF DoomedInv, Doomed
<1>1. ~conflicted /\ Cardinality(Doomed) <= crashes /\ crashes \in Nat /\ crashes' \in Nat
  BY PartsStay, StepTyped, BoundsAssumption DEF DoomedInv, TypeOK
<1>2. /\ IsFiniteSet(Doomed) /\ Cardinality(Doomed) \in Nat
      /\ IsFiniteSet(Doomed') /\ Cardinality(Doomed') \in Nat
  <2>1. Doomed \subseteq Messages /\ Doomed' \subseteq Messages
    BY DEF Doomed
  <2> QED BY <2>1, MessagesFinite
<1>3. CASE ~CrashRead
  <2>1. crashes' = crashes \/ \E p \in Producers : CrashWrite(p)
    BY <1>3 DEF Next, WriteStep, LoadProducerIdx, LoadConsumerIdx, LoadCurrent,
       CasProducerIdx, TakeIdx, CheckEmpty, CheckComplete, ResetForWrite, SetOperation,
       MarkWriting, FillSlot, StoreStatus, StorePart, SetReady, BeginRead, ReadStep,
       CheckForData, TakeConsumerIdx, CheckReady, TestReady, LoadSlot, LoadPart, SetReading,
       SetComplete, ReaderStoresStatus, ReturnData, ResetAfterRead, RejectOversized, BeginWrite,
       vars
  <2>2. crashes <= crashes'
    BY <1>1, <2>1 DEF CrashWrite
  <2>3. Cardinality(Doomed') <= Cardinality(Doomed)
    BY <1>2, <1>3, DoomedStep, FS_Subset
  <2> QED BY <1>1, <1>2, <2>2, <2>3
<1>4. CASE CrashRead
  <2>1. PICK x : Doomed' \subseteq Doomed \cup {x}
    BY <1>1, <1>4, DoomedByCrash
  <2>2. /\ IsFiniteSet(Doomed \cup {x}) /\ Cardinality(Doomed \cup {x}) \in Nat
        /\ Cardinality(Doomed \cup {x}) <= Cardinality(Doomed) + 1
    <3>1. IsFiniteSet(Doomed \cup {x})
      BY <1>2, FS_AddElement
    <3>2. Cardinality(Doomed \cup {x}) = Cardinality(Doomed)
          \/ Cardinality(Doomed \cup {x}) = Cardinality(Doomed) + 1
      <4>1. CASE x \in Doomed
        <5>1. Doomed \cup {x} = Doomed
          BY <4>1
        <5> QED BY <5>1
      <4>2. CASE x \notin Doomed
        BY <1>2, <4>2, FS_AddElement
      <4> QED BY <4>1, <4>2
    <3> QED BY <1>2, <3>1, <3>2
  <2>3. Cardinality(Doomed') <= Cardinality(Doomed \cup {x})
    BY <2>1, <2>2, FS_Subset
  <2>4. crashes' = crashes + 1
    BY <1>4 DEF CrashRead
  <2> QED BY <1>1, <1>2, <2>2, <2>3, <2>4
<1> QED BY <1>3, <1>4

LEMMA DoomedInit == Init => DoomedInv
<1> SUFFICES ASSUME Init PROVE Cardinality(Doomed) <= crashes
  BY DEF DoomedInv
<1>1. Doomed = {}
  BY DEF Init, Doomed
<1> QED BY <1>1, FS_EmptySet DEF Init

-----------------------------------------------------------------------------
(* The theorem.                                                             *)

\* A message that is lost is doomed: a slot that is Reading without a read copying it
\* will never be read again, but it still holds its message.
LEMMA LostIsDoomed ==
  ASSUME TypeOK, StatusInv, ~conflicted
  PROVE  Lost \subseteq Doomed
<1>1. cidx \in Slots /\ (cpc \in CopyingSection => status[cidx] = "Reading")
  BY DEF StatusInv, ReaderSees, TypeOK
<1> QED BY <1>1 DEF Lost, Doomed, Out, InHand

LEMMA HeldOnce ==
  ASSUME TypeOK, StatusInv, ContentsInv, UniqueInv, DoomedInv
  PROVE  AcceptedIsHeldOnce
<1> SUFFICES ASSUME ~conflicted
             PROVE  /\ \A i \in DOMAIN delivered : \E m \in Messages : delivered[i] = Whole(m)
                    /\ \A i, j \in DOMAIN delivered : delivered[i] = delivered[j] => i = j
                    /\ Cardinality(Lost) <= crashes
  BY DEF AcceptedIsHeldOnce
<1>1. \A i \in DOMAIN delivered : \E m \in Messages : Out(i, m)
  BY DEF ContentsInv, Out
<1>2. \A i, j \in DOMAIN delivered : delivered[i] = delivered[j] => i = j
  <2> SUFFICES ASSUME NEW i \in DOMAIN delivered, NEW j \in DOMAIN delivered,
                      delivered[i] = delivered[j], i # j
               PROVE  FALSE
    OBVIOUS
  <2>1. PICK m \in Messages : Out(i, m)
    BY <1>1
  <2>2. Out(j, m)
    BY <2>1 DEF Out
  <2> QED BY <2>1, <2>2 DEF UniqueInv
<1>3. Lost \subseteq Doomed /\ Doomed \subseteq Messages
  BY LostIsDoomed DEF Doomed
<1>4. Cardinality(Lost) <= Cardinality(Doomed) /\ Cardinality(Lost) \in Nat
      /\ Cardinality(Doomed) \in Nat
  BY <1>3, MessagesFinite, FS_Subset
<1>5. Cardinality(Doomed) <= crashes /\ crashes \in Nat
  BY BoundsAssumption DEF DoomedInv, TypeOK
<1> QED BY <1>1, <1>2, <1>4, <1>5 DEF Out

\* What the status field is for: without a conflict, whatever the number of producers,
\* slots, messages and killed calls, every message read is whole and read once, and no
\* more accepted messages are lost than calls were killed.
THEOREM MessagesHeldOnce == Spec => []AcceptedIsHeldOnce
<1> DEFINE IInv == TypeOK /\ StatusInv /\ ContentsInv /\ UniqueInv /\ DoomedInv
<1>1. Init => IInv
  BY InitTyped, StatusInit, ContentsInit, UniqueInit, DoomedInit
<1>2. IInv /\ [Next]_vars => IInv'
  BY StepTyped, StatusStep, ContentsStep, UniqueStep, DoomedInvStep
<1>3. IInv => AcceptedIsHeldOnce
  BY HeldOnce
<1> QED BY <1>1, <1>2, <1>3, PTL DEF Spec

=============================================================================
