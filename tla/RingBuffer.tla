----------------------------- MODULE RingBuffer -----------------------------
(***************************************************************************)
(* The shared-memory ring of elgate-core/src/ring: RingBuffer::write and    *)
(* RingBuffer::read of buffer.rs, with the calls they make into header.rs   *)
(* (next_producer_idx, next_consumer_idx, increment_completed) and slot.rs  *)
(* (reset, write_data, read_data).                                          *)
(*                                                                          *)
(* One action is one access to shared memory, in program order: a load, a   *)
(* store, a compare-and-swap, or half of a payload copy.  Any number of     *)
(* Producers call write concurrently; one consumer calls read, as the       *)
(* module documentation of ring/mod.rs says.  A write call carries a        *)
(* message, its number; the operation, size and payload fields of a slot    *)
(* hold the number of the message that last stored them (NoMsg after a      *)
(* reset), so a mix of two messages shows.  The id and timestamp fields are *)
(* written next to the operation and the size and never read: they are part *)
(* of those two stores here.                                                *)
(***************************************************************************)
EXTENDS Integers, Sequences, FiniteSets

CONSTANTS
  Producers,    \* threads or processes that call write
  SlotCount,    \* header.slot_count
  MaxAttempts,  \* max_attempts of wait_for_slot (10 in the code)
  MaxWrites,    \* bound: number of write calls in a behaviour
  Oversized,    \* messages longer than max_payload_size
  MaxCrashes,   \* bound: number of calls killed in a behaviour
  Joined,       \* TRUE: callers never overlap a read with a write
  MaxUnread     \* bound the callers keep on messages not yet read

ASSUME SlotCountAssumption == SlotCount \in Nat \ {0}
ASSUME BoundsAssumption ==
  /\ MaxAttempts \in Nat
  /\ MaxWrites \in Nat
  /\ MaxCrashes \in Nat
  /\ MaxUnread \in Nat
  /\ Joined \in BOOLEAN
  /\ Oversized \subseteq 1..MaxWrites

Slots    == 0..(SlotCount - 1)
Messages == 1..MaxWrites
NoMsg    == 0
MsgField == Messages \cup {NoMsg}

Statuses == {"Empty", "Writing", "Ready", "Reading", "Complete"}

VARIABLES
  producerIdx, consumerIdx, completed,      \* RingHeader counters
  status, slot,                             \* the slots: status, and the rest
  pc, idx, attempt, msg,                    \* locals of each write call
  cpc, cidx, got,                           \* locals of the read call
  written, outcome, delivered, lastRead,    \* what the callers saw
  claimed,                                  \* history: messages in CAS order
  producerLap, consumerLap, lap,            \* history: trips round the ring
  crashes,                                  \* calls killed so far
  conflicted                                \* history: a slot was contended

header   == <<producerIdx, consumerIdx, completed>>
slots    == <<status, slot>>
writers  == <<pc, idx, attempt, msg>>
reader   == <<cpc, cidx, got>>
callers  == <<written, outcome, delivered, lastRead>>
laps     == <<producerLap, consumerLap, lap>>
vars     == <<header, slots, writers, reader, callers, claimed, laps, crashes, conflicted>>

-----------------------------------------------------------------------------
(* Index arithmetic.                                                        *)

\* A wrap that is forgotten: the counter runs past the last slot.
NextIdxNoWrap(i) == i + 1

\* `(current + 1) % slot_count` of next_producer_idx and next_consumer_idx.
NextIdx(i) == (i + 1) % SlotCount

\* available_slots of wait_for_slot.
AvailableSlots(p, c) ==
  IF p >= c THEN SlotCount - (p - c) ELSE c - p

-----------------------------------------------------------------------------
(* Sections of the calls: each label names the next access to make.         *)

\* After the check of wait_for_slot and before the store of Ready.
WritingSection == {"rstStatus", "rstOp", "rstSize", "setOp", "setWriting",
                   "setSize", "copyLow", "copyHigh", "setReady"}

\* After a successful compare-and-swap on producer_idx.
HoldingSection == {"chkEmpty", "chkComplete"} \cup WritingSection

ProducerLabels == {"idle", "loadP", "loadC", "loadCur", "cas"} \cup HoldingSection

\* The reset at the end of read.
ResettingSection == {"rstStatus", "rstOp", "rstSize"}

\* After next_consumer_idx has handed out a slot.
ReadingSection == {"chkReady", "loadOp", "recheck", "setReading", "loadSize",
                   "copyLow", "copyHigh", "setComplete", "count"}
                  \cup ResettingSection

ReaderLabels == {"idle", "loadC", "take"} \cup ReadingSection

Parts     == {"op", "size", "low", "high"}
Blank     == [f \in Parts |-> NoMsg]
SlotParts == [Parts -> MsgField]
Whole(m)  == [f \in Parts |-> m]

Outcomes == {"uncalled", "pending", "ok", "full", "too_large", "killed"}
Replies  == {"none", "running", "empty", "skipped", "data", "killed"}

\* Two calls are changing the same slot: two writers, or a writer and the
\* reset of a read that found the slot not Ready.
Conflict ==
  \E p \in Producers :
    /\ pc[p] \in WritingSection
    /\ \/ \E q \in Producers \ {p} : pc[q] \in WritingSection /\ idx[q] = idx[p]
       \/ cpc \in ResettingSection /\ cidx = idx[p]

RecordConflict == conflicted' = (conflicted \/ Conflict')

\* Every step but a crash.
Alive == UNCHANGED crashes /\ RecordConflict

\* Messages a caller has handed over and not got back.
Unread ==
  Cardinality({m \in Messages : outcome[m] \in {"pending", "ok"}}) - Len(delivered)

Init ==
  /\ producerIdx = 0 /\ consumerIdx = 0 /\ completed = 0
  /\ status = [s \in Slots |-> "Empty"]
  /\ slot = [s \in Slots |-> Blank]
  /\ pc = [p \in Producers |-> "idle"]
  /\ idx = [p \in Producers |-> 0]
  /\ attempt = [p \in Producers |-> 0]
  /\ msg = [p \in Producers |-> NoMsg]
  /\ cpc = "idle" /\ cidx = 0 /\ got = Blank
  /\ written = 0
  /\ outcome = [m \in Messages |-> "uncalled"]
  /\ delivered = <<>>
  /\ lastRead = "none"
  /\ claimed = <<>>
  /\ producerLap = 0 /\ consumerLap = 0
  /\ lap = [p \in Producers |-> 0]
  /\ crashes = 0
  /\ conflicted = FALSE

-----------------------------------------------------------------------------
(* RingBuffer::write.                                                       *)

Goto(p, from, to) == pc[p] = from /\ pc' = [pc EXCEPT ![p] = to]

Finish(p, from, result) ==
  /\ Goto(p, from, "idle")
  /\ outcome' = [outcome EXCEPT ![msg[p]] = result]
  /\ idx' = [idx EXCEPT ![p] = 0]
  /\ lap' = [lap EXCEPT ![p] = 0]
  /\ attempt' = [attempt EXCEPT ![p] = 0]
  /\ msg' = [msg EXCEPT ![p] = NoMsg]

\* The size check of write: "Data too large for slot".
RejectOversized(p) ==
  /\ pc[p] = "idle" /\ written < MaxWrites /\ written + 1 \in Oversized
  /\ Joined => cpc = "idle"
  /\ written' = written + 1
  /\ outcome' = [outcome EXCEPT ![written + 1] = "too_large"]
  /\ UNCHANGED <<header, slots, writers, reader, delivered, lastRead, claimed, laps>>
  /\ Alive

BeginWrite(p) ==
  /\ Goto(p, "idle", "loadP")
  /\ written < MaxWrites /\ written + 1 \notin Oversized
  /\ Joined => cpc = "idle" /\ Unread < MaxUnread
  /\ written' = written + 1
  /\ msg' = [msg EXCEPT ![p] = written + 1]
  /\ outcome' = [outcome EXCEPT ![written + 1] = "pending"]
  /\ UNCHANGED <<header, slots, idx, attempt, reader, delivered, lastRead, claimed, laps>>
  /\ Alive

\* A loop that tests the slot it has again and counts no attempt.
RetryUncounted(p, from) ==
  /\ Goto(p, from, "chkEmpty")
  /\ UNCHANGED <<idx, lap, attempt, msg, outcome>>

\* "Ring is full or slot not available": the end of the loop body.
Retry(p, from) ==
  \/ /\ attempt[p] + 1 > MaxAttempts
     /\ Finish(p, from, "full")
  \/ /\ attempt[p] + 1 <= MaxAttempts
     /\ Goto(p, from, "loadP")
     /\ attempt' = [attempt EXCEPT ![p] = @ + 1]
     /\ idx' = [idx EXCEPT ![p] = 0]
     /\ lap' = [lap EXCEPT ![p] = 0]
     /\ UNCHANGED <<msg, outcome>>

LoadProducerIdx(p) ==
  /\ Goto(p, "loadP", "loadC")
  /\ idx' = [idx EXCEPT ![p] = producerIdx]
  /\ UNCHANGED <<header, slots, attempt, msg, reader, callers, claimed, laps>>
  /\ Alive

LoadConsumerIdx(p) ==
  /\ IF AvailableSlots(idx[p], consumerIdx) > 0
     THEN /\ Goto(p, "loadC", "loadCur")
          /\ idx' = [idx EXCEPT ![p] = 0]
          /\ UNCHANGED <<attempt, msg, outcome, lap>>
     ELSE Retry(p, "loadC")
  /\ UNCHANGED <<header, slots, reader, written, delivered, lastRead, claimed,
                 producerLap, consumerLap>>
  /\ Alive

\* The load at the start of next_producer_idx.
LoadCurrent(p) ==
  /\ Goto(p, "loadCur", "cas")
  /\ idx' = [idx EXCEPT ![p] = producerIdx]
  /\ UNCHANGED <<header, slots, attempt, msg, reader, callers, claimed, laps>>
  /\ Alive

TakeIdx(p) ==
  /\ Goto(p, "cas", "chkEmpty")
  /\ producerIdx' = NextIdx(idx[p])
  /\ producerLap' = IF NextIdx(idx[p]) = 0 THEN producerLap + 1 ELSE producerLap
  /\ lap' = [lap EXCEPT ![p] = producerLap]
  /\ claimed' = Append(claimed, msg[p])
  /\ UNCHANGED <<consumerIdx, completed, slots, idx, attempt, msg, reader, callers,
                 consumerLap>>
  /\ Alive

\* A store in place of the compare-and-swap.
StoreProducerIdx(p) == TakeIdx(p)

\* The compare-and-swap of next_producer_idx.  A spurious failure of
\* compare_exchange_weak reloads the value it had: a stuttering step.
CasProducerIdx(p) ==
  \/ /\ idx[p] = producerIdx
     /\ TakeIdx(p)
  \/ /\ pc[p] = "cas" /\ idx[p] # producerIdx
     /\ idx' = [idx EXCEPT ![p] = producerIdx]
     /\ UNCHANGED <<header, slots, pc, attempt, msg, reader, callers, claimed, laps>>
     /\ Alive

\* The first of the two status loads: `slot.status() == SlotStatus::Empty`.
CheckEmpty(p) ==
  /\ Goto(p, "chkEmpty", IF status[idx[p]] = "Empty" THEN "rstStatus" ELSE "chkComplete")
  /\ UNCHANGED <<header, slots, idx, attempt, msg, reader, callers, claimed, laps>>
  /\ Alive

\* A check that takes every slot nobody is writing.
CheckNotWriting(p) ==
  /\ \/ /\ status[idx[p]] # "Writing"
        /\ Goto(p, "chkComplete", "rstStatus")
        /\ UNCHANGED <<idx, attempt, msg, outcome, lap>>
     \/ /\ status[idx[p]] = "Writing"
        /\ Retry(p, "chkComplete")
  /\ UNCHANGED <<header, slots, reader, written, delivered, lastRead, claimed,
                 producerLap, consumerLap>>
  /\ Alive

\* The second load: `slot.status() == SlotStatus::Complete`.
CheckComplete(p) ==
  /\ \/ /\ status[idx[p]] = "Complete"
        /\ Goto(p, "chkComplete", "rstStatus")
        /\ UNCHANGED <<idx, attempt, msg, outcome, lap>>
     \/ /\ status[idx[p]] # "Complete"
        /\ Retry(p, "chkComplete")
  /\ UNCHANGED <<header, slots, reader, written, delivered, lastRead, claimed,
                 producerLap, consumerLap>>
  /\ Alive

\* One store of the status, or of one part, of the slot the call holds.
StoreStatus(p, from, to, s) ==
  /\ Goto(p, from, to)
  /\ status' = [status EXCEPT ![idx[p]] = s]
  /\ UNCHANGED <<header, slot, idx, attempt, msg, reader, callers, claimed, laps>>
  /\ Alive

StorePart(p, from, to, f, m) ==
  /\ Goto(p, from, to)
  /\ slot' = [slot EXCEPT ![idx[p]][f] = m]
  /\ UNCHANGED <<header, status, idx, attempt, msg, reader, callers, claimed, laps>>
  /\ Alive

\* Slot::reset, called by wait_for_slot.
ResetForWrite(p) ==
  \/ StoreStatus(p, "rstStatus", "rstOp", "Empty")
  \/ StorePart(p, "rstOp", "rstSize", "op", NoMsg)
  \/ StorePart(p, "rstSize", "setOp", "size", NoMsg)

\* A write that never calls set_operation.
ForgetOperation(p) == StorePart(p, "setOp", "setWriting", "op", NoMsg)

\* set_operation and set_id.
SetOperation(p) == StorePart(p, "setOp", "setWriting", "op", msg[p])

\* A write_data that announces the slot before filling it.
MarkReadyEarly(p) == StoreStatus(p, "setWriting", "setSize", "Ready")

\* write_data up to its last store.
MarkWriting(p) == StoreStatus(p, "setWriting", "setSize", "Writing")

FillSlot(p) ==
  \/ StorePart(p, "setSize", "copyLow", "size", msg[p])
  \/ StorePart(p, "copyLow", "copyHigh", "low", msg[p])
  \/ StorePart(p, "copyHigh", "setReady", "high", msg[p])

\* The store of Ready, with which write returns the slot index.
SetReady(p) ==
  /\ Finish(p, "setReady", "ok")
  /\ status' = [status EXCEPT ![idx[p]] = "Ready"]
  /\ UNCHANGED <<header, slot, reader, written, delivered, lastRead, claimed,
                 producerLap, consumerLap>>
  /\ Alive

WriteStep(p) ==
  \/ LoadProducerIdx(p) \/ LoadConsumerIdx(p) \/ LoadCurrent(p) \/ CasProducerIdx(p)
  \/ CheckEmpty(p) \/ CheckComplete(p) \/ ResetForWrite(p) \/ SetOperation(p)
  \/ MarkWriting(p) \/ FillSlot(p) \/ SetReady(p)

-----------------------------------------------------------------------------
(* RingBuffer::read.                                                        *)

CGoto(from, to) == cpc = from /\ cpc' = to

EndRead(from, reply) ==
  /\ CGoto(from, "idle")
  /\ cidx' = 0 /\ got' = Blank
  /\ lastRead' = reply

BeginRead ==
  /\ CGoto("idle", "loadC")
  /\ Joined => \A p \in Producers : pc[p] = "idle"
  /\ cidx' = producerIdx
  /\ lastRead' = "running"
  /\ UNCHANGED <<header, slots, writers, got, written, outcome, delivered, claimed, laps>>
  /\ Alive

\* A read that never finds the ring empty.
CheckNothing ==
  /\ CGoto("loadC", "take")
  /\ UNCHANGED <<cidx, got, lastRead, header, slots, writers, written, outcome,
                 delivered, claimed, laps>>
  /\ Alive

\* A read that expects the producer index to be the larger one.
CheckGreater ==
  /\ \/ /\ cidx <= consumerIdx
        /\ EndRead("loadC", "empty")
     \/ /\ cidx > consumerIdx
        /\ CGoto("loadC", "take")
        /\ UNCHANGED <<cidx, got, lastRead>>
  /\ UNCHANGED <<header, slots, writers, written, outcome, delivered, claimed, laps>>
  /\ Alive

\* `producer_idx == consumer_idx`: "No new data".
CheckForData ==
  /\ \/ /\ cidx = consumerIdx
        /\ EndRead("loadC", "empty")
     \/ /\ cidx # consumerIdx
        /\ CGoto("loadC", "take")
        /\ UNCHANGED <<cidx, got, lastRead>>
  /\ UNCHANGED <<header, slots, writers, written, outcome, delivered, claimed, laps>>
  /\ Alive

\* next_consumer_idx: one step, since only this call stores consumer_idx.
TakeConsumerIdx ==
  /\ CGoto("take", "chkReady")
  /\ cidx' = consumerIdx
  /\ consumerIdx' = NextIdx(consumerIdx)
  /\ consumerLap' = IF NextIdx(consumerIdx) = 0 THEN consumerLap + 1 ELSE consumerLap
  /\ UNCHANGED <<producerIdx, completed, slots, writers, got, callers, claimed,
                 producerLap, lap>>
  /\ Alive

\* The two status tests, of read and of read_data.
TestReady(from, to) ==
  /\ CGoto(from, IF status[cidx] = "Ready" THEN to ELSE "rstStatus")
  /\ UNCHANGED <<header, slots, writers, cidx, got, callers, claimed, laps>>
  /\ Alive

CheckReady ==
  \/ TestReady("chkReady", "loadOp")
  \/ TestReady("recheck", "setReading")

LoadPart(from, to, f) ==
  /\ CGoto(from, to)
  /\ got' = [got EXCEPT ![f] = slot[cidx][f]]
  /\ UNCHANGED <<header, slots, writers, cidx, callers, claimed, laps>>
  /\ Alive

\* The loads of operation and of read_data.  A stored size never exceeds the
\* payload area (write refuses such a message), so that branch is left out.
LoadSlot ==
  \/ LoadPart("loadOp", "recheck", "op")
  \/ LoadPart("loadSize", "copyLow", "size")
  \/ LoadPart("copyLow", "copyHigh", "low")
  \/ LoadPart("copyHigh", "setComplete", "high")

ReaderStoresStatus(from, to, s) ==
  /\ CGoto(from, to)
  /\ status' = [status EXCEPT ![cidx] = s]
  /\ UNCHANGED <<header, slot, writers, cidx, got, callers, claimed, laps>>
  /\ Alive

SetReading == ReaderStoresStatus("setReading", "loadSize", "Reading")

\* A read_data that returns without releasing the slot.
LeaveReading == ReaderStoresStatus("setComplete", "count", "Reading")

SetComplete == ReaderStoresStatus("setComplete", "count", "Complete")

\* increment_completed, and the return of the data.
ReturnData ==
  /\ EndRead("count", "data")
  /\ completed' = completed + 1
  /\ delivered' = Append(delivered, got)
  /\ UNCHANGED <<producerIdx, consumerIdx, slots, writers, written, outcome, claimed, laps>>
  /\ Alive

\* Slot::reset, called by read on a slot it could not read.
ResetAfterRead ==
  \/ ReaderStoresStatus("rstStatus", "rstOp", "Empty")
  \/ /\ CGoto("rstOp", "rstSize")
     /\ slot' = [slot EXCEPT ![cidx]["op"] = NoMsg]
     /\ UNCHANGED <<header, status, writers, cidx, got, callers, claimed, laps>>
     /\ Alive
  \/ /\ EndRead("rstSize", "skipped")
     /\ slot' = [slot EXCEPT ![cidx]["size"] = NoMsg]
     /\ UNCHANGED <<header, status, writers, written, outcome, delivered, claimed, laps>>
     /\ Alive

ReadStep ==
  \/ CheckForData \/ TakeConsumerIdx \/ CheckReady \/ LoadSlot
  \/ SetReading \/ SetComplete \/ ReturnData \/ ResetAfterRead

-----------------------------------------------------------------------------
(* A process is killed inside a call.  The slot it holds stays as it is; the  *)
(* process, or another one, may call again.                                 *)

CrashWrite(p) ==
  /\ pc[p] # "idle"
  /\ crashes < MaxCrashes /\ crashes' = crashes + 1
  /\ Finish(p, pc[p], "killed")
  /\ UNCHANGED <<header, slots, reader, written, delivered, lastRead, claimed,
                 producerLap, consumerLap>>
  /\ RecordConflict

CrashRead ==
  /\ cpc # "idle"
  /\ crashes < MaxCrashes /\ crashes' = crashes + 1
  /\ EndRead(cpc, "killed")
  /\ UNCHANGED <<header, slots, writers, written, outcome, delivered, claimed, laps>>
  /\ RecordConflict

-----------------------------------------------------------------------------
Next ==
  \/ \E p \in Producers : RejectOversized(p) \/ BeginWrite(p) \/ WriteStep(p)
                            \/ CrashWrite(p)
  \/ BeginRead \/ ReadStep \/ CrashRead

Spec == Init /\ [][Next]_vars

\* A thread that is inside a call keeps running.
FairSpec ==
  /\ Spec
  /\ \A p \in Producers : WF_vars(WriteStep(p))
  /\ WF_vars(ReadStep)

\* And the consumer polls, as examples/ring_buffer.rs does.
PollingSpec == FairSpec /\ WF_vars(BeginRead)

-----------------------------------------------------------------------------
(* Properties.                                                              *)

\* Every variable has its type: in particular the two indices stay inside the
\* ring, so that get_slot's assertion `idx < slot_count` never fails.
TypeOK ==
  /\ producerIdx \in Slots /\ consumerIdx \in Slots /\ completed \in Nat
  /\ status \in [Slots -> Statuses]
  /\ slot \in [Slots -> SlotParts]
  /\ pc \in [Producers -> ProducerLabels]
  /\ idx \in [Producers -> Slots]
  /\ attempt \in [Producers -> 0..MaxAttempts]
  /\ msg \in [Producers -> MsgField]
  /\ \A p \in Producers : pc[p] # "idle" => msg[p] \in Messages
  /\ cpc \in ReaderLabels /\ cidx \in Slots
  /\ got \in SlotParts
  /\ written \in 0..MaxWrites
  /\ outcome \in [Messages -> Outcomes]
  /\ delivered \in Seq(SlotParts)
  /\ lastRead \in Replies
  /\ claimed \in Seq(Messages)
  /\ producerLap \in Nat /\ consumerLap \in Nat
  /\ lap \in [Producers -> Nat]
  /\ crashes \in 0..MaxCrashes
  /\ conflicted \in BOOLEAN

\* Positions on the unrolled ring, <<lap, index>>, in order.
Before(l, i, m, j)     == l < m \/ (l = m /\ i < j)
AtOrBefore(l, i, m, j) == l < m \/ (l = m /\ i <= j)

\* next_consumer_idx never hands out a slot next_producer_idx has not handed
\* out before it: the test of read on two separate loads is enough for that,
\* however many writes move producer_idx between the loads and the increment.
ConsumerNeverOvertakes ==
  AtOrBefore(consumerLap, consumerIdx, producerLap, producerIdx)

\* next_producer_idx gives each position to one call: two write calls are in
\* the same slot only when one of them has been lapped by the ring.
LappedWritersOnly ==
  \A p, q \in Producers :
    /\ p # q
    /\ pc[p] \in HoldingSection /\ pc[q] \in HoldingSection
    /\ idx[p] = idx[q]
    => lap[p] # lap[q]

\* The messages accepted and then neither delivered nor kept anywhere.
Lost ==
  {m \in Messages :
     /\ outcome[m] = "ok"
     /\ \A i \in DOMAIN delivered : delivered[i] # Whole(m)
     /\ \A s \in Slots : status[s] \in {"Ready", "Reading"} => slot[s] # Whole(m)
     /\ ~(cpc = "count" /\ got = Whole(m))}

\* What the status field is there for: as long as no two calls have been
\* changing the same slot at a time, every message read came whole from one
\* write and came once, and no more writes that returned Ok are lost than calls
\* were killed: the message is in a slot, in the hands of a read, or delivered.
AcceptedIsHeldOnce ==
  ~conflicted =>
    /\ \A i \in DOMAIN delivered : \E m \in Messages : delivered[i] = Whole(m)
    /\ \A i, j \in DOMAIN delivered : delivered[i] = delivered[j] => i = j
    /\ Cardinality(Lost) <= crashes

\* The life of a slot documented at SlotStatus, and the return of a slot whose
\* call was killed.
NextStatus == {<<"Empty", "Writing">>, <<"Writing", "Ready">>, <<"Ready", "Reading">>,
               <<"Reading", "Complete">>, <<"Complete", "Empty">>}
Abandoned  == {<<"Writing", "Empty">>, <<"Reading", "Empty">>}

\* Without a conflict a slot goes through its documented states in order: no
\* write or read skips one or goes back, except that read frees the slot of a
\* call that was killed.
StatusProtocol ==
  [][\A s \in Slots :
       ~conflicted' /\ status'[s] # status[s] =>
         \/ <<status[s], status'[s]>> \in NextStatus
         \/ crashes > 0 /\ <<status[s], status'[s]>> \in Abandoned]_vars

\* Every call of write and of read that is not killed returns, on a full ring and
\* on slots that a killed call has left in use too: a write whose slot is taken
\* tries the next one, up to max_attempts, and gives up, and no call waits for
\* another one.
EveryCallReturns ==
  /\ \A p \in Producers : pc[p] # "idle" ~> pc[p] = "idle"
  /\ cpc # "idle" ~> cpc = "idle"

\* With fewer unread messages than slots, and reads that do not overlap writes,
\* no two calls meet in a slot, no write is refused, no read skips a slot.
CallsNeverMeet ==
  /\ ~conflicted
  /\ \A m \in Messages : outcome[m] # "full"
  /\ lastRead # "skipped"

\* And a polling consumer gets every accepted message.
EventuallyDelivered ==
  \A m \in Messages :
    outcome[m] = "ok" ~> \E i \in DOMAIN delivered : delivered[i] = Whole(m)

\* What read promises of every message: the operation kind and the data of one
\* write (buffer.rs: "returns the operation kind and data").
DeliveredIntact ==
  \A i \in DOMAIN delivered : \E m \in Messages : delivered[i] = Whole(m)

\* The contract the joined callers get: a queue that is first in, first out.
Contract == INSTANCE FifoContract WITH
  queue <- SubSeq(claimed, Len(delivered) + 1, Len(claimed)),
  out   <- [i \in DOMAIN delivered |->
              IF delivered[i] = Whole(delivered[i].low) THEN delivered[i].low ELSE NoMsg],
  reply <- lastRead

ImplementsContract == Contract!Spec

=============================================================================
