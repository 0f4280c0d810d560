------------------------ MODULE FallbackEnginesProofs ------------------------
(***************************************************************************)
(* Theorems about the engines without io_uring, FallbackEngines.tla, for    *)
(* every set of callers, scenarios, channel capacity, number of threads,    *)
(* descriptors, writes and dropped calls.                                   *)
(***************************************************************************)
EXTENDS FallbackEngines, FiniteSetTheorems, SequenceTheorems, WellFoundedInduction, TLAPS

-----------------------------------------------------------------------------
(* Where jobs are.                                                          *)

\* Spot 0 of an engine is its worker, spot i the i-th place of its channel.
Spot(e, i)  == i \in 0..Len(chan[e]) /\ (i = 0 => worker[e] # NoJob)
JobAt(e, i) == IF i = 0 THEN worker[e] ELSE chan[e][i]

\* A caller still waits for this job.
Awaited(c, e, i) == Spot(e, i) /\ JobAt(e, i).by = c /\ JobAt(e, i).live

-----------------------------------------------------------------------------
(* The first layer of the inductive invariant: the shape of calls and jobs. *)

\* A call on a socket names a handle, and no other call does.
Fits(j) == j \in Jobs /\ (j.handle # NoHandle <=> j.op \in OnSocket)

CallShape ==
  \A c \in Callers : IF pc[c] = "idle" THEN call[c] = NoJob
                     ELSE Fits(call[c]) /\ call[c].by = c /\ call[c].live

\* A job is with its own engine; one that is awaited is what its caller is at.
JobShape ==
  \A e \in Engines : \A i \in Nat : Spot(e, i) =>
    /\ Fits(JobAt(e, i)) /\ EngineOf(JobAt(e, i).op) = e
    /\ JobAt(e, i).live => /\ pc[JobAt(e, i).by] = "waiting"
                           /\ call[JobAt(e, i).by] = JobAt(e, i)

\* A caller that waits has one job or its answer.
PlacedOnce ==
  \A c \in Callers :
    /\ pc[c] = "waiting" /\ answer[c] = NoAnswer =>
         \E e \in Engines : \E i \in Nat : Awaited(c, e, i)
    /\ \A e \in Engines : \A i \in Nat : Awaited(c, e, i) =>
         /\ answer[c] = NoAnswer
         /\ \A f \in Engines : \A k \in Nat : Awaited(c, f, k) => f = e /\ k = i

\* Writes that are sent or about to be sent.
WritesBounded == IsFiniteSet(Writing) /\ sent + Cardinality(Writing) <= MaxWrites

\* Nobody is in a call of an engine that was dropped, and a worker that has
\* ended has left nothing behind.
DroppedIdle ==
  \A e \in Engines :
    /\ state[e] # "up" => \A c \in Callers : pc[c] # "idle" => EngineOf(call[c].op) # e
    /\ state[e] = "down" => worker[e] = NoJob /\ chan[e] = <<>>

ShapeInv == TypeOK /\ CallShape /\ JobShape /\ PlacedOnce /\ WritesBounded /\ DroppedIdle

-----------------------------------------------------------------------------
(* The second layer: writes are done in the order they were sent.           *)

DiskJob(i) == JobAt("disk", i)

\* Writes among a job: none or one.
Writes(j) == IF j.op = "write_file" THEN 1 ELSE 0

\* The newest write the worker of the disk engine is done with.
Processed ==
  IF Spot("disk", 0) THEN DiskJob(0).upto - Writes(DiskJob(0))
  ELSE IF Spot("disk", 1) THEN DiskJob(1).upto - Writes(DiskJob(1)) ELSE sent

\* The jobs of the disk engine number the writes without a gap, up to the last one sent.
SentInOrder ==
  /\ Processed \in Nat
  /\ \A i \in Nat : Spot("disk", i) =>
       /\ Spot("disk", i + 1) =>
            DiskJob(i + 1).upto = DiskJob(i).upto + Writes(DiskJob(i + 1))
       /\ ~Spot("disk", i + 1) => DiskJob(i).upto = sent

\* Writes that were done and left their data, the newest first to be seen.
FileIsNewest ==
  state["disk"] # "down" =>
    /\ skipped \subseteq 1..Processed
    /\ file = Absent => 1..Processed \subseteq skipped
    /\ file # Absent => /\ file \in (0..Processed) \ skipped
                        /\ \A n \in (0..Processed) \ skipped : n <= file

\* An answer of the disk engine is about what was done by then.
AnsweredInTime ==
  \A c \in Callers : answer[c] # NoAnswer /\ EngineOf(call[c].op) = "disk" =>
    call[c].upto <= Processed

OrderInv == SentInOrder /\ FileIsNewest /\ AnsweredInTime /\ AnswersInOrder

-----------------------------------------------------------------------------
(* The third layer: handles, and the sockets they lead to.                  *)

Reaches(h) == table[h[1]] = h[2]

\* Sockets have been made before anyone knows them.
KnownMade ==
  /\ \A d \in Fds : table[d] <= made
  /\ \A h \in tainted : h[2] <= made
  /\ \A c \in Callers : /\ \A h \in hold[c] : h[2] <= made
                        /\ answer[c] # NoAnswer => answer[c].handle[2] <= made

\* A handle is one caller's.  A new one nobody has seen, and a call is made on a
\* handle its caller keeps for as long as the call lasts.
HandlesApart ==
  \A c \in Callers :
    /\ pc[c] # "idle" /\ call[c].handle # NoHandle => call[c].handle \in hold[c]
    /\ \A b \in Callers \ {c} : \A h \in hold[c] : h \notin hold[b]
    /\ answer[c] # NoAnswer /\ answer[c].handle # NoHandle =>
         /\ answer[c].handle \notin tainted
         /\ \A b \in Callers :
              /\ answer[c].handle \notin hold[b]
              /\ b # c /\ answer[b] # NoAnswer => answer[b].handle # answer[c].handle

\* A socket that was closed for its caller is gone for good.
ClosedIsGone ==
  \A c \in Callers :
    answer[c] # NoAnswer /\ answer[c].ok /\ call[c].op = "close" => ~Reaches(call[c].handle)

\* The call has cost its caller the handle, which it is about to hear.
Lost(c, h) == /\ answer[c] # NoAnswer /\ call[c].handle = h
              /\ ~answer[c].ok \/ call[c].op \in {"accept", "close"}

\* No call is under way on a handle that was lost before ...
CallsClean == \A c \in Callers : pc[c] # "idle" => call[c].handle \notin tainted

\* ... the handles of a caller lead to their sockets, those in answers too ...
HeldReach ==
  \A c \in Callers : \A h \in hold[c] \ tainted : Reaches(h) \/ Lost(c, h)

NewReach ==
  \A c \in Callers :
    answer[c] # NoAnswer /\ answer[c].handle # NoHandle => Reaches(answer[c].handle)

\* ... and so do those of the jobs, each of them in one job only.
JobsReach ==
  \A e \in Engines : \A i \in Nat : Spot(e, i) /\ JobAt(e, i).handle # NoHandle =>
    /\ Reaches(JobAt(e, i).handle)
    /\ JobAt(e, i).handle \in hold[JobAt(e, i).by]
    /\ ~JobAt(e, i).live => JobAt(e, i).handle \in tainted
    /\ \A f \in Engines : \A k \in Nat :
         Spot(f, k) /\ JobAt(f, k).handle = JobAt(e, i).handle => f = e /\ k = i

\* As long as nobody goes on with a handle it has lost.
SocketsKept == ~misused => CallsClean /\ HeldReach /\ NewReach /\ JobsReach

SocketInv == KnownMade /\ HandlesApart /\ ClosedIsGone /\ SocketsKept /\ NoLeak

-----------------------------------------------------------------------------
(* The values that stand for nothing.                                       *)

LEMMA Nothings ==
  /\ NoJob \notin Jobs /\ NoAnswer \notin Answers /\ NoHandle \notin Handles
  /\ \A ok, seen, h : [ok |-> ok, seen |-> seen, handle |-> h] # NoAnswer
<1>1. NoJob \notin Jobs
  BY DEF NoJob, Jobs, DiskOps, NetOps, OnSocket
<1>2. NoAnswer \notin Answers
  BY DEF NoAnswer, Answers
<1>3. NoHandle \notin Handles
  BY FallbackAssumption DEF NoHandle, Handles, Fds
<1>4. \A ok, seen, h : [ok |-> ok, seen |-> seen, handle |-> h] # NoAnswer
  BY DEF NoAnswer
<1> QED BY <1>1, <1>2, <1>3, <1>4

\* The lowest free descriptor exists when there is a free one.
LEMMA SmallestOf ==
  ASSUME NEW T, T \subseteq Nat, T # {}
  PROVE  \E x \in T : \A y \in T : x <= y
<1> DEFINE R == {ss \in Nat \X Nat : ss[1] < ss[2]}
<1>1. IsWellFoundedOn(R, Nat)
  BY NatLessThanWellFounded, Zenon DEF OpToRel
<1>2. PICK x \in T : \A y \in T : <<y, x>> \notin R
  <2> HIDE DEF R
  <2> QED BY <1>1, WFMin
<1>3. \A y \in T : ~(y < x)
  BY <1>2
<1> QED BY <1>2, <1>3

LEMMA NewSocket ==
  ASSUME TypeOK, CanOpen
  PROVE  /\ LowestFd \in Fds /\ table[LowestFd] = NoSocket
         /\ NextSocket \in Sockets /\ NextSocket = made + 1 /\ NextSocket # NoSocket
         /\ NewHandle \in Handles /\ NewHandle # NoHandle
<1>1. FreeFds # {} /\ FreeFds \subseteq Nat
  BY FallbackAssumption DEF CanOpen, FreeFds, Fds
<1>2. \E f \in FreeFds : \A g \in FreeFds : f <= g
  BY <1>1, SmallestOf
<1>3. LowestFd \in Fds /\ table[LowestFd] = NoSocket
  BY <1>2 DEF LowestFd, FreeFds
<1>4. NextSocket \in Sockets /\ NextSocket = made + 1 /\ NextSocket # NoSocket
  BY FallbackAssumption DEF TypeOK, CanOpen, Sockets, NextSocket, NoSocket
<1> QED BY <1>3, <1>4, Nothings DEF NewHandle, Handles

-----------------------------------------------------------------------------
(* How jobs move.                                                           *)

LEMMA ChannelTypes ==
  ASSUME TypeOK, NEW e \in Engines
  PROVE  /\ chan[e] \in Seq(Jobs) /\ Len(chan[e]) \in Nat
         /\ \A i \in 1..Len(chan[e]) : chan[e][i] \in Jobs
         /\ worker[e] \in Jobs \cup {NoJob}
BY DEF TypeOK

\* A job enters a channel at its end.
LEMMA Enters ==
  ASSUME TypeOK, NEW E \in Engines, NEW j \in Jobs, NEW m \in Nat, m = Len(chan[E]) + 1,
         chan' = [chan EXCEPT ![E] = Append(@, j)], UNCHANGED worker
  PROVE  /\ \A e \in Engines : \A i \in Nat :
              /\ Spot(e, i)' <=> Spot(e, i) \/ (e = E /\ i = m)
              /\ Spot(e, i) => JobAt(e, i)' = JobAt(e, i)
         /\ ~Spot(E, m) /\ JobAt(E, m)' = j
<1>1. chan[E] \in Seq(Jobs) /\ Len(chan[E]) \in Nat
  BY ChannelTypes
<1>2. /\ Len(chan'[E]) = m /\ chan'[E][m] = j
      /\ \A i \in 1..Len(chan[E]) : chan'[E][i] = chan[E][i]
      /\ \A e \in Engines \ {E} : chan'[e] = chan[e]
  BY <1>1 DEF TypeOK
<1>3. ASSUME NEW e \in Engines, NEW i \in Nat
      PROVE  /\ Spot(e, i)' <=> Spot(e, i) \/ (e = E /\ i = m)
             /\ Spot(e, i) => JobAt(e, i)' = JobAt(e, i)
  <2>1. CASE e = E
    BY <1>1, <1>2, <2>1 DEF Spot, JobAt
  <2>2. CASE e # E
    BY <1>2, <2>2 DEF Spot, JobAt
  <2> QED BY <2>1, <2>2
<1>4. ~Spot(E, m) /\ JobAt(E, m)' = j
  BY <1>1, <1>2 DEF Spot, JobAt
<1> QED BY <1>3, <1>4

\* The worker takes the first job.
LEMMA Advances ==
  ASSUME TypeOK, NEW E \in Engines, Recv(E)
  PROVE  /\ \A e \in Engines \ {E} : \A i \in Nat :
              (Spot(e, i)' <=> Spot(e, i)) /\ JobAt(e, i)' = JobAt(e, i)
         /\ \A i \in Nat : /\ Spot(E, i)' <=> Spot(E, i + 1)
                           /\ Spot(E, i)' => JobAt(E, i)' = JobAt(E, i + 1)
         /\ ~Spot(E, 0)
<1>1. /\ chan[E] \in Seq(Jobs) /\ chan[E] # <<>> /\ worker[E] = NoJob
      /\ \A i \in 1..Len(chan[E]) : chan[E][i] \in Jobs
  BY ChannelTypes DEF Recv
<1>2. Len(chan[E]) \in Nat /\ Len(chan[E]) > 0 /\ Head(chan[E]) = chan[E][1] /\ chan[E][1] # NoJob
  BY <1>1, Nothings
<1>3. /\ worker'[E] = chan[E][1] /\ Len(chan'[E]) = Len(chan[E]) - 1
      /\ \A i \in 1..(Len(chan[E]) - 1) : chan'[E][i] = chan[E][i + 1]
      /\ \A e \in Engines \ {E} : chan'[e] = chan[e] /\ worker'[e] = worker[e]
  BY <1>1, <1>2 DEF TypeOK, Recv
<1>4. ASSUME NEW i \in Nat
      PROVE  (Spot(E, i)' <=> Spot(E, i + 1)) /\ (Spot(E, i)' => JobAt(E, i)' = JobAt(E, i + 1))
  BY <1>2, <1>3 DEF Spot, JobAt
<1> QED BY <1>1, <1>3, <1>4 DEF Spot, JobAt

\* The worker is done with its job.
LEMMA Leaves ==
  ASSUME TypeOK, NEW E \in Engines, worker' = [worker EXCEPT ![E] = NoJob], UNCHANGED chan
  PROVE  \A e \in Engines : \A i \in Nat :
           /\ Spot(e, i)' <=> Spot(e, i) /\ ~(e = E /\ i = 0)
           /\ Spot(e, i)' => JobAt(e, i)' = JobAt(e, i)
BY DEF TypeOK, Spot, JobAt

\* The jobs of a caller are left behind.
LEMMA GoDead ==
  ASSUME TypeOK, NEW c \in Callers,
         chan' = [e \in Engines |-> [i \in DOMAIN chan[e] |-> Dead(c, chan[e][i])]],
         worker' = [e \in Engines |-> Dead(c, worker[e])]
  PROVE  /\ \A e \in Engines : \A i \in Nat :
              /\ Spot(e, i)' <=> Spot(e, i)
              /\ Spot(e, i) => JobAt(e, i)' = Dead(c, JobAt(e, i))
         /\ chan' \in [Engines -> Seq(Jobs)] /\ worker' \in [Engines -> Jobs \cup {NoJob}]
         /\ \A e \in Engines : Len(chan'[e]) = Len(chan[e])
<1>1. \A j \in Jobs : Dead(c, j) \in Jobs /\ Dead(c, j) # NoJob
  BY Nothings DEF Dead, Jobs
<1>2. Dead(c, NoJob) = NoJob
  BY DEF Dead
<1>3. ASSUME NEW e \in Engines
      PROVE  chan'[e] \in Seq(Jobs) /\ Len(chan'[e]) = Len(chan[e])
             /\ \A i \in 1..Len(chan[e]) : chan'[e][i] = Dead(c, chan[e][i])
  <2>1. chan[e] \in Seq(Jobs) /\ Len(chan[e]) \in Nat /\ DOMAIN chan[e] = 1..Len(chan[e])
        /\ \A i \in 1..Len(chan[e]) : chan[e][i] \in Jobs
    BY ChannelTypes
  <2>2. chan'[e] = [i \in 1..Len(chan[e]) |-> Dead(c, chan[e][i])]
    BY <2>1
  <2>3. chan'[e] \in [1..Len(chan[e]) -> Jobs]
    BY <1>1, <2>1, <2>2
  <2> DEFINE n == Len(chan[e])
  <2>4. [1..n -> Jobs] \in {[1..k -> Jobs] : k \in Nat}
    BY <2>1, Zenon
  <2>5. chan'[e] \in Seq(Jobs)
    BY <2>3, <2>4, SeqDef, Zenon
  <2>6. DOMAIN chan'[e] = 1..n /\ DOMAIN chan'[e] = 1..Len(chan'[e]) /\ Len(chan'[e]) \in Nat
    BY <2>3, <2>5, LenProperties
  <2>7. Len(chan'[e]) = n
    BY <2>1, <2>6
  <2> QED BY <2>1, <2>2, <2>5, <2>7
<1>4. ASSUME NEW e \in Engines
      PROVE  worker'[e] \in Jobs \cup {NoJob} /\ (worker'[e] = NoJob <=> worker[e] = NoJob)
             /\ worker'[e] = Dead(c, worker[e])
  BY <1>1, <1>2, ChannelTypes
<1>5. ASSUME NEW e \in Engines, NEW i \in Nat
      PROVE  (Spot(e, i)' <=> Spot(e, i)) /\ (Spot(e, i) => JobAt(e, i)' = Dead(c, JobAt(e, i)))
  BY <1>3, <1>4 DEF Spot, JobAt
<1> QED BY <1>3, <1>4, <1>5

\* A channel is dropped.
LEMMA Cleared ==
  ASSUME TypeOK, NEW E \in Engines, chan' = [chan EXCEPT ![E] = <<>>], UNCHANGED worker
  PROVE  \A e \in Engines : \A i \in Nat :
           /\ Spot(e, i)' => Spot(e, i) /\ JobAt(e, i)' = JobAt(e, i)
           /\ e # E \/ i = 0 => (Spot(e, i)' <=> Spot(e, i))
<1>1. ASSUME NEW e \in Engines, NEW i \in Nat
      PROVE  /\ Spot(e, i)' => Spot(e, i) /\ JobAt(e, i)' = JobAt(e, i)
             /\ e # E \/ i = 0 => (Spot(e, i)' <=> Spot(e, i))
  <2>1. Len(<<>>) = 0 /\ Len(chan[e]) \in Nat
    BY ChannelTypes
  <2> QED BY <2>1 DEF TypeOK, Spot, JobAt
<1> QED BY <1>1

-----------------------------------------------------------------------------
(* The first layer holds.                                                   *)

LEMMA WorkerSpot ==
  ASSUME NEW e \in Engines, TypeOK, worker[e] # NoJob
  PROVE  Spot(e, 0) /\ JobAt(e, 0) = worker[e]
BY ChannelTypes DEF Spot, JobAt

LEMMA ListenShape ==
  ASSUME ShapeInv, NEW c \in Callers, Listen(c)
  PROVE  ShapeInv'
<1> USE DEF callers, history
<1>1. TypeOK /\ CallShape /\ JobShape /\ PlacedOnce /\ WritesBounded /\ DroppedIdle
  BY DEF ShapeInv
<1>2. /\ CanOpen /\ OpenSocket("listener") /\ hold' = [hold EXCEPT ![c] = @ \cup {NewHandle}]
      /\ UNCHANGED <<uses, chan, worker, state, callers, answer, file, sent, history>>
  BY DEF Listen
<1>3. TypeOK'
  <2>1. hold' \in [Callers -> SUBSET Handles]
    BY <1>1, <1>2, NewSocket DEF TypeOK
  <2>2. /\ table' \in [Fds -> Sockets \cup {NoSocket}] /\ made' \in 0..MaxSockets
        /\ kind' \in [Fds -> {"closed", "listener", "accepted", "connected"}]
    BY <1>1, <1>2, NewSocket DEF TypeOK, OpenSocket, Sockets
  <2> QED BY <1>1, <1>2, <2>1, <2>2 DEF TypeOK
<1>4. CallShape' /\ JobShape' /\ PlacedOnce' /\ WritesBounded' /\ DroppedIdle'
  BY <1>1, <1>2 DEF CallShape, JobShape, PlacedOnce, Awaited, WritesBounded, Writing, DroppedIdle,
     Spot, JobAt
<1> QED BY <1>3, <1>4 DEF ShapeInv

LEMMA BeginShape ==
  ASSUME ShapeInv, NEW c \in Callers, NEW op \in uses[c], NEW h,
         IF op \in OnSocket THEN h \in hold[c] ELSE h = NoHandle,
         Begin(c, op, h)
  PROVE  ShapeInv'
<1> USE DEF callers, history
<1>1. TypeOK /\ CallShape /\ JobShape /\ PlacedOnce /\ WritesBounded /\ DroppedIdle
  BY DEF ShapeInv
<1> DEFINE j == [op |-> op, by |-> c, handle |-> h, upto |-> 0, live |-> TRUE]
<1>2. /\ pc[c] = "idle" /\ state[EngineOf(op)] = "up"
      /\ op = "write_file" => sent + Cardinality(Writing) < MaxWrites
      /\ pc' = [pc EXCEPT ![c] = "sending"] /\ call' = [call EXCEPT ![c] = j]
      /\ misused' = (misused \/ h \in tainted)
      /\ UNCHANGED <<uses, chan, worker, state, answer, sockets, file, hold, sent, skipped,
                     tainted, orphans, dropped>>
  BY DEF Begin
<1>3. Fits(j) /\ j.by = c /\ j.live /\ j.op = op
  <2>1. op \in DiskOps \cup NetOps
    BY <1>1, FallbackAssumption DEF TypeOK
  <2>2. h \in Handles \cup {NoHandle} /\ (h # NoHandle <=> op \in OnSocket)
    BY <1>1, Nothings DEF TypeOK
  <2>3. 0 \in Stamps
    BY FallbackAssumption DEF Stamps
  <2> QED BY <2>1, <2>2, <2>3 DEF Fits, Jobs
<1> HIDE DEF j
<1>4. TypeOK'
  BY <1>1, <1>2, <1>3 DEF TypeOK, Fits, sockets
<1>5. CallShape'
  BY <1>1, <1>2, <1>3 DEF CallShape, TypeOK
<1>6. /\ \A b \in Callers : pc'[b] = "waiting" <=> pc[b] = "waiting"
      /\ \A b \in Callers : pc[b] = "waiting" => call'[b] = call[b]
  BY <1>1, <1>2 DEF TypeOK
<1>7. JobShape'
  BY <1>1, <1>2, <1>6 DEF JobShape, Spot, JobAt, Fits, Jobs
<1>8. PlacedOnce'
  BY <1>1, <1>2, <1>6 DEF PlacedOnce, Awaited, Spot, JobAt
<1>9. WritesBounded'
  <2>1. CASE op = "write_file"
    <3>1. Writing' = Writing \cup {c} /\ c \notin Writing
      BY <1>1, <1>2, <1>3, <2>1 DEF Writing, TypeOK
    <3>2. /\ IsFiniteSet(Writing \cup {c})
          /\ Cardinality(Writing \cup {c}) = Cardinality(Writing) + 1
          /\ Cardinality(Writing) \in Nat
      BY <1>1, <3>1, FS_AddElement, FS_CardinalityType DEF WritesBounded
    <3>3. sent \in Nat /\ MaxWrites \in Nat
      BY <1>1, FallbackAssumption DEF TypeOK, Stamps
    <3>4. /\ sent' = sent /\ sent + Cardinality(Writing) < MaxWrites
      BY <1>2, <2>1
    <3> QED BY <3>1, <3>2, <3>3, <3>4 DEF WritesBounded
  <2>2. CASE op # "write_file"
    <3>1. Writing' = Writing
      BY <1>1, <1>2, <1>3, <2>2 DEF Writing, TypeOK
    <3> QED BY <1>1, <1>2, <3>1 DEF WritesBounded
  <2> QED BY <2>1, <2>2
<1>10. DroppedIdle'
  BY <1>1, <1>2, <1>3 DEF DroppedIdle, TypeOK
<1> QED BY <1>4, <1>5, <1>7, <1>8, <1>9, <1>10 DEF ShapeInv

\* A write is sent: one fewer is about to be, one more was.
LEMMA SendShape ==
  ASSUME ShapeInv, NEW c \in Callers, Send(c)
  PROVE  ShapeInv'
<1> USE DEF callers, history
<1>1. TypeOK /\ CallShape /\ JobShape /\ PlacedOnce /\ WritesBounded /\ DroppedIdle
  BY DEF ShapeInv
<1>15. PICK E \in Engines : E = EngineOf(call[c].op)
  BY DEF Engines, EngineOf
<1>16. PICK n : n = IF call[c].op = "write_file" THEN sent + 1 ELSE sent
  OBVIOUS
<1>17. PICK j : j = [call[c] EXCEPT !.upto = IF E = "disk" THEN n ELSE 0]
  OBVIOUS
<1>2. /\ pc[c] = "sending" /\ Len(chan[E]) < Capacity
      /\ sent' = n /\ chan' = [chan EXCEPT ![E] = Append(@, j)]
      /\ call' = [call EXCEPT ![c] = j] /\ pc' = [pc EXCEPT ![c] = "waiting"]
      /\ UNCHANGED <<uses, worker, state, answer, sockets, file, hold, history>>
  BY <1>15, <1>16, <1>17 DEF Send
<1>3. Fits(call[c]) /\ call[c].by = c /\ call[c].live
  BY <1>1, <1>2 DEF CallShape
<1>4. sent \in Nat /\ MaxWrites \in Nat
  BY <1>1, FallbackAssumption DEF TypeOK, Stamps
<1>5. WritesBounded' /\ n \in Stamps
  <2>1. CASE call[c].op = "write_file"
    <3>1. Writing' = Writing \ {c} /\ c \in Writing
      BY <1>1, <1>2, <2>1 DEF Writing, TypeOK
    <3>2. /\ IsFiniteSet(Writing \ {c}) /\ Cardinality(Writing \ {c}) = Cardinality(Writing) - 1
          /\ Cardinality(Writing \ {c}) \in Nat /\ Cardinality(Writing) \in Nat
      BY <1>1, <3>1, FS_RemoveElement, FS_CardinalityType DEF WritesBounded
    <3>3. n = sent + 1 /\ sent' = sent + 1
      BY <1>2, <1>16, <2>1
    <3>4. n + Cardinality(Writing') <= MaxWrites
      BY <1>1, <1>4, <3>1, <3>2, <3>3 DEF WritesBounded
    <3> QED BY <1>4, <3>1, <3>2, <3>3, <3>4 DEF WritesBounded, Stamps
  <2>2. CASE call[c].op # "write_file"
    <3>1. Writing' = Writing
      BY <1>1, <1>2, <2>2 DEF Writing, TypeOK
    <3> QED BY <1>1, <1>2, <1>16, <2>2, <3>1 DEF WritesBounded, TypeOK
  <2> QED BY <2>1, <2>2
<1>6. /\ Fits(j) /\ j.by = c /\ j.live /\ EngineOf(j.op) = E
  <2>1. (IF E = "disk" THEN n ELSE 0) \in Stamps
    BY <1>5, FallbackAssumption DEF Stamps
  <2> QED BY <1>3, <1>15, <1>17, <2>1 DEF Fits, Jobs
<1>7. TypeOK'
  <2>1. chan' \in [Engines -> Seq(Jobs)] /\ \A e \in Engines : Len(chan'[e]) <= Capacity
    <3>1. chan[E] \in Seq(Jobs) /\ Len(Append(chan[E], j)) = Len(chan[E]) + 1
          /\ Append(chan[E], j) \in Seq(Jobs) /\ Len(chan[E]) \in Nat
      BY <1>1, <1>3, <1>6, ChannelTypes DEF Fits
    <3>2. Len(Append(chan[E], j)) <= Capacity
      BY <1>2, <3>1, FallbackAssumption
    <3> QED BY <1>1, <1>2, <1>3, <3>1, <3>2 DEF TypeOK
  <2>2. sent' \in Stamps
    BY <1>2, <1>5
  <2>3. call' \in [Callers -> Jobs \cup {NoJob}] /\ pc' \in [Callers -> {"idle", "sending", "waiting"}]
    BY <1>1, <1>2, <1>6 DEF TypeOK, Fits
  <2>4. \A b \in Callers : answer'[b] # NoAnswer => pc'[b] = "waiting"
    BY <1>1, <1>2 DEF TypeOK
  <2> QED BY <1>1, <1>2, <2>1, <2>2, <2>3, <2>4 DEF TypeOK, sockets
<1>8. CallShape'
  BY <1>1, <1>2, <1>6 DEF CallShape, TypeOK
<1>14. PICK m \in Nat : m = Len(chan[E]) + 1
  BY <1>1, ChannelTypes
<1>9. /\ \A e \in Engines : \A i \in Nat :
           /\ Spot(e, i)' <=> Spot(e, i) \/ (e = E /\ i = m)
           /\ Spot(e, i) => JobAt(e, i)' = JobAt(e, i)
      /\ ~Spot(E, m) /\ JobAt(E, m)' = j
  <2>1. /\ TypeOK /\ j \in Jobs /\ UNCHANGED worker
        /\ chan' = [chan EXCEPT ![E] = Append(@, j)]
    BY <1>1, <1>2, <1>6 DEF Fits
  <2>2. \A e \in Engines : \A i \in Nat : Spot(e, i) => JobAt(e, i)' = JobAt(e, i)
    BY <1>14, <2>1, Enters
  <2>3. \A e \in Engines : \A i \in Nat : (Spot(e, i)' <=> Spot(e, i) \/ (e = E /\ i = m))
    BY <1>14, <2>1, Enters
  <2>4. ~Spot(E, m)
    BY <1>14, <2>1, ChannelTypes DEF Spot
  <2>5. JobAt(E, m)' = j
    BY <1>14, <2>1, Enters
  <2> QED BY <2>2, <2>3, <2>4, <2>5
<1>10. pc'[c] = "waiting" /\ call'[c] = j /\ answer'[c] = NoAnswer
       /\ \A b \in Callers \ {c} : pc'[b] = pc[b] /\ call'[b] = call[b] /\ answer'[b] = answer[b]
  BY <1>1, <1>2 DEF TypeOK
<1>11. JobShape'
  <2> SUFFICES ASSUME NEW e \in Engines, NEW i \in Nat, Spot(e, i)'
               PROVE  /\ Fits(JobAt(e, i)') /\ EngineOf(JobAt(e, i)'.op) = e
                      /\ JobAt(e, i)'.live => /\ pc'[JobAt(e, i)'.by] = "waiting"
                                              /\ call'[JobAt(e, i)'.by] = JobAt(e, i)'
    BY DEF JobShape, Fits
  <2>1. CASE Spot(e, i)
    <3>1. Fits(JobAt(e, i)) /\ EngineOf(JobAt(e, i).op) = e /\ JobAt(e, i)' = JobAt(e, i)
      BY <1>1, <1>9, <2>1 DEF JobShape
    <3>2. JobAt(e, i).live => JobAt(e, i).by # c /\ JobAt(e, i).by \in Callers
                              /\ pc[JobAt(e, i).by] = "waiting"
                              /\ call[JobAt(e, i).by] = JobAt(e, i)
      BY <1>1, <1>2, <2>1, <3>1 DEF JobShape, Fits, Jobs
    <3> QED BY <1>10, <3>1, <3>2
  <2>2. CASE ~Spot(e, i)
    <3>1. e = E /\ JobAt(e, i)' = j
      BY <1>9, <2>2
    <3> QED BY <1>6, <1>10, <3>1
  <2> QED BY <2>1, <2>2
<1>12. PlacedOnce'
  <2>1. \A e \in Engines : \A i \in Nat : ~Awaited(c, e, i)
    BY <1>1, <1>2 DEF Awaited, JobShape
  <2>2. \A e \in Engines : \A i \in Nat : Awaited(c, e, i)' <=> e = E /\ i = m
    BY <1>6, <1>9, <2>1 DEF Awaited
  <2>3. \A b \in Callers \ {c} : \A e \in Engines : \A i \in Nat :
          Awaited(b, e, i)' <=> Awaited(b, e, i)
    BY <1>6, <1>9 DEF Awaited
  <2>5. ASSUME NEW b \in Callers
        PROVE  /\ pc'[b] = "waiting" /\ answer'[b] = NoAnswer =>
                    \E e \in Engines : \E i \in Nat : Awaited(b, e, i)'
               /\ \A e \in Engines : \A i \in Nat : Awaited(b, e, i)' =>
                    /\ answer'[b] = NoAnswer
                    /\ \A f \in Engines : \A k \in Nat : Awaited(b, f, k)' => f = e /\ k = i
    <3>1. CASE b = c
      BY <1>10, <1>14, <2>2, <3>1
    <3>2. CASE b # c
      BY <1>1, <1>10, <2>3, <3>2 DEF PlacedOnce
    <3> QED BY <3>1, <3>2
  <2> QED BY <2>5 DEF PlacedOnce
<1>13. DroppedIdle'
  <2>1. state[E] = "up"
    BY <1>1, <1>2, <1>15 DEF DroppedIdle, TypeOK
  <2> QED BY <1>1, <1>2, <1>6, <2>1 DEF DroppedIdle, TypeOK
<1> QED BY <1>5, <1>7, <1>8, <1>11, <1>12, <1>13 DEF ShapeInv

\* An answer is taken: its caller has no job any more.
LEMMA ReceiveShape ==
  ASSUME ShapeInv, NEW c \in Callers, Receive(c)
  PROVE  ShapeInv'
<1> USE DEF callers, history
<1>1. TypeOK /\ CallShape /\ JobShape /\ PlacedOnce /\ WritesBounded /\ DroppedIdle
  BY DEF ShapeInv
<1>2. /\ pc[c] = "waiting" /\ answer[c] # NoAnswer
      /\ pc' = [pc EXCEPT ![c] = "idle"] /\ call' = [call EXCEPT ![c] = NoJob]
      /\ answer' = [answer EXCEPT ![c] = NoAnswer]
      /\ hold' = [hold EXCEPT ![c] =
                    (IF call[c].op = "close" /\ answer[c].ok THEN @ \ {call[c].handle} ELSE @)
                    \cup ({answer[c].handle} \ {NoHandle})]
      /\ \/ tainted' = tainted \cup ({call[c].handle} \ {NoHandle})
         \/ tainted' \subseteq tainted
      /\ UNCHANGED <<uses, chan, worker, state, sockets, file, sent, skipped, misused, orphans,
                     dropped>>
  BY DEF Receive
<1>3. /\ call[c].handle \in Handles \cup {NoHandle} /\ answer[c].handle \in Handles \cup {NoHandle}
  BY <1>1, <1>2 DEF CallShape, Fits, Jobs, Answers, TypeOK
<1>4. TypeOK'
  <2>1. hold' \in [Callers -> SUBSET Handles] /\ tainted' \subseteq Handles
    BY <1>1, <1>2, <1>3 DEF TypeOK
  <2>2. /\ pc' \in [Callers -> {"idle", "sending", "waiting"}]
        /\ call' \in [Callers -> Jobs \cup {NoJob}]
        /\ answer' \in [Callers -> Answers \cup {NoAnswer}]
        /\ \A b \in Callers : answer'[b] # NoAnswer => pc'[b] = "waiting"
    BY <1>1, <1>2 DEF TypeOK
  <2> QED BY <1>1, <1>2, <2>1, <2>2 DEF TypeOK, sockets
<1>5. pc'[c] = "idle" /\ call'[c] = NoJob /\ answer'[c] = NoAnswer
      /\ \A b \in Callers \ {c} : pc'[b] = pc[b] /\ call'[b] = call[b] /\ answer'[b] = answer[b]
  BY <1>1, <1>2 DEF TypeOK
<1>6. CallShape'
  BY <1>1, <1>5 DEF CallShape, Fits
<1>7. /\ \A e \in Engines : \A i \in Nat : (Spot(e, i)' <=> Spot(e, i)) /\ JobAt(e, i)' = JobAt(e, i)
      /\ \A b \in Callers : \A e \in Engines : \A i \in Nat : Awaited(b, e, i)' <=> Awaited(b, e, i)
  BY <1>2 DEF Spot, JobAt, Awaited
<1>8. \A e \in Engines : \A i \in Nat : ~Awaited(c, e, i)
  BY <1>1, <1>2 DEF PlacedOnce
<1>9. JobShape'
  <2> SUFFICES ASSUME NEW e \in Engines, NEW i \in Nat, Spot(e, i)
               PROVE  /\ Fits(JobAt(e, i)) /\ EngineOf(JobAt(e, i).op) = e
                      /\ JobAt(e, i).live => /\ pc'[JobAt(e, i).by] = "waiting"
                                             /\ call'[JobAt(e, i).by] = JobAt(e, i)
    BY <1>7 DEF JobShape, Fits
  <2>1. Fits(JobAt(e, i)) /\ JobAt(e, i).by \in Callers
    BY <1>1 DEF JobShape, Fits, Jobs
  <2>2. JobAt(e, i).live => JobAt(e, i).by # c
    BY <1>8 DEF Awaited
  <2> QED BY <1>1, <1>5, <2>1, <2>2 DEF JobShape
<1>10. PlacedOnce'
  BY <1>1, <1>5, <1>7, <1>8 DEF PlacedOnce
<1>11. WritesBounded'
  <2>1. Writing' = Writing
    BY <1>2, <1>5 DEF Writing
  <2> QED BY <1>1, <1>2, <2>1 DEF WritesBounded
<1>12. DroppedIdle'
  BY <1>1, <1>2, <1>5 DEF DroppedIdle
<1> QED BY <1>4, <1>6, <1>9, <1>10, <1>11, <1>12 DEF ShapeInv

\* A caller gives up: its job, if it was sent, answers nobody.
LEMMA AbandonShape ==
  ASSUME ShapeInv, NEW c \in Callers, Abandon(c)
  PROVE  ShapeInv'
<1> USE DEF callers, history
<1>1. TypeOK /\ CallShape /\ JobShape /\ PlacedOnce /\ WritesBounded /\ DroppedIdle
  BY DEF ShapeInv
<1>2. /\ pc[c] \in {"sending", "waiting"} /\ dropped < MaxDropped /\ dropped' = dropped + 1
      /\ chan' = [e \in Engines |-> [i \in DOMAIN chan[e] |-> Dead(c, chan[e][i])]]
      /\ worker' = [e \in Engines |-> Dead(c, worker[e])]
      /\ tainted' \subseteq tainted \cup ({call[c].handle} \ {NoHandle})
      /\ orphans' = IF answer[c] = NoAnswer THEN orphans
                    ELSE orphans \cup ({answer[c].handle[2]} \ {NoSocket})
      /\ pc' = [pc EXCEPT ![c] = "idle"] /\ call' = [call EXCEPT ![c] = NoJob]
      /\ answer' = [answer EXCEPT ![c] = NoAnswer]
      /\ UNCHANGED <<uses, state, sockets, file, hold, sent, skipped, misused>>
  BY DEF Abandon
<1>3. /\ \A e \in Engines : \A i \in Nat :
           /\ Spot(e, i)' <=> Spot(e, i)
           /\ Spot(e, i) => JobAt(e, i)' = Dead(c, JobAt(e, i))
      /\ chan' \in [Engines -> Seq(Jobs)] /\ worker' \in [Engines -> Jobs \cup {NoJob}]
      /\ \A e \in Engines : Len(chan'[e]) = Len(chan[e])
  BY <1>1, <1>2, GoDead
<1>4. TypeOK'
  <2>1. call[c].handle \in Handles \cup {NoHandle}
    BY <1>1, <1>2 DEF CallShape, Fits, Jobs
  <2>2. tainted' \subseteq Handles
    BY <1>1, <1>2, <2>1 DEF TypeOK
  <2>3. orphans' \subseteq Sockets
    <3>1. CASE answer[c] = NoAnswer
      BY <1>1, <1>2, <3>1 DEF TypeOK
    <3>2. CASE answer[c] # NoAnswer
      <4>1. answer[c].handle \in Handles \/ answer[c].handle = NoHandle
        BY <1>1, <3>2 DEF TypeOK, Answers
      <4>2. answer[c].handle[2] \in Sockets \cup {NoSocket}
        BY <4>1 DEF Handles, NoHandle
      <4> QED BY <1>1, <1>2, <3>2, <4>2 DEF TypeOK
    <3> QED BY <3>1, <3>2
  <2>4. /\ pc' \in [Callers -> {"idle", "sending", "waiting"}]
        /\ call' \in [Callers -> Jobs \cup {NoJob}]
        /\ answer' \in [Callers -> Answers \cup {NoAnswer}]
        /\ \A b \in Callers : answer'[b] # NoAnswer => pc'[b] = "waiting"
    BY <1>1, <1>2 DEF TypeOK
  <2>5. dropped' \in 0..MaxDropped
    BY <1>1, <1>2, FallbackAssumption DEF TypeOK
  <2> QED BY <1>1, <1>2, <1>3, <2>2, <2>3, <2>4, <2>5 DEF TypeOK, sockets
<1>5. pc'[c] = "idle" /\ call'[c] = NoJob /\ answer'[c] = NoAnswer
      /\ \A b \in Callers \ {c} : pc'[b] = pc[b] /\ call'[b] = call[b] /\ answer'[b] = answer[b]
  BY <1>1, <1>2 DEF TypeOK
<1>6. CallShape'
  BY <1>1, <1>5 DEF CallShape, Fits
<1>7. ASSUME NEW e \in Engines, NEW i \in Nat, Spot(e, i)
      PROVE  /\ Fits(JobAt(e, i)') /\ JobAt(e, i)'.op = JobAt(e, i).op
             /\ JobAt(e, i)'.by = JobAt(e, i).by /\ JobAt(e, i).by \in Callers
             /\ JobAt(e, i)'.live <=> JobAt(e, i).live /\ JobAt(e, i).by # c
             /\ JobAt(e, i)'.live => JobAt(e, i)' = JobAt(e, i)
  <2>1. Fits(JobAt(e, i)) /\ JobAt(e, i) # NoJob
    BY <1>1, <1>7, Nothings DEF JobShape, Fits
  <2>2. JobAt(e, i)' = Dead(c, JobAt(e, i))
    BY <1>3, <1>7
  <2>3. ASSUME NEW j \in Jobs, Fits(j), j # NoJob
        PROVE  /\ Fits(Dead(c, j)) /\ Dead(c, j).op = j.op /\ Dead(c, j).by = j.by
               /\ j.by \in Callers
               /\ Dead(c, j).live <=> j.live /\ j.by # c
               /\ Dead(c, j).live => Dead(c, j) = j
    <3>1. CASE j.by = c
      <4>1. Dead(c, j) = [j EXCEPT !.live = FALSE]
        BY <2>3, <3>1 DEF Dead
      <4> QED BY <2>3, <3>1, <4>1 DEF Fits, Jobs
    <3>2. CASE j.by # c
      BY <2>3, <3>2 DEF Dead, Jobs
    <3> QED BY <3>1, <3>2
  <2>4. JobAt(e, i) \in Jobs
    BY <2>1 DEF Fits
  <2> QED BY <2>1, <2>2, <2>3, <2>4
<1>8. JobShape'
  <2> SUFFICES ASSUME NEW e \in Engines, NEW i \in Nat, Spot(e, i)
               PROVE  /\ Fits(JobAt(e, i)') /\ EngineOf(JobAt(e, i)'.op) = e
                      /\ JobAt(e, i)'.live => /\ pc'[JobAt(e, i)'.by] = "waiting"
                                              /\ call'[JobAt(e, i)'.by] = JobAt(e, i)'
    BY <1>3 DEF JobShape, Fits
  <2> QED BY <1>1, <1>5, <1>7 DEF JobShape
<1>9. \A b \in Callers : \A e \in Engines : \A i \in Nat :
        Awaited(b, e, i)' <=> Awaited(b, e, i) /\ b # c
  BY <1>3, <1>7 DEF Awaited
<1>10. PlacedOnce'
  BY <1>1, <1>5, <1>9 DEF PlacedOnce
<1>11. WritesBounded'
  <2>1. Writing' \subseteq Writing
    BY <1>5 DEF Writing
  <2>2. /\ IsFiniteSet(Writing') /\ Cardinality(Writing') <= Cardinality(Writing)
        /\ Cardinality(Writing') \in Nat /\ Cardinality(Writing) \in Nat
    BY <1>1, <2>1, FS_Subset, FS_CardinalityType DEF WritesBounded
  <2>3. sent \in Nat /\ MaxWrites \in Nat /\ sent' = sent
    BY <1>1, <1>2, FallbackAssumption DEF TypeOK, Stamps
  <2> QED BY <1>1, <2>2, <2>3 DEF WritesBounded
<1>12. DroppedIdle'
  <2>1. ASSUME NEW e \in Engines, state'[e] = "down" PROVE worker'[e] = NoJob /\ chan'[e] = <<>>
    <3>1. worker[e] = NoJob /\ chan[e] = <<>>
      BY <1>1, <1>2, <2>1 DEF DroppedIdle
    <3>2. worker'[e] = NoJob
      BY <1>2, <3>1 DEF Dead
    <3>3. Len(chan'[e]) = 0 /\ chan'[e] \in Seq(Jobs)
      BY <1>3, <3>1
    <3> QED BY <3>2, <3>3
  <2> QED BY <1>1, <1>2, <1>5, <2>1 DEF DroppedIdle
<1> QED BY <1>4, <1>6, <1>8, <1>10, <1>11, <1>12 DEF ShapeInv

LEMMA DropShape ==
  ASSUME ShapeInv, NEW E \in Engines, DropEngine(E) \/ Aborted(E)
  PROVE  ShapeInv'
<1> USE DEF callers, history
<1>1. TypeOK /\ CallShape /\ JobShape /\ PlacedOnce /\ WritesBounded /\ DroppedIdle
  BY DEF ShapeInv
<1>2. /\ \A c \in Callers : pc[c] # "idle" => EngineOf(call[c].op) # E
      /\ \/ worker[E] = NoJob /\ state' = [state EXCEPT ![E] = "down"]
            /\ chan' = [chan EXCEPT ![E] = <<>>]
         \/ state' = [state EXCEPT ![E] = "aborting"] /\ chan' = chan
      /\ UNCHANGED <<uses, worker, callers, answer, sockets, file, hold, sent, history>>
  BY <1>1 DEF DropEngine, Aborted, DroppedIdle
<1>3. TypeOK'
  <2>1. chan' \in [Engines -> Seq(Jobs)] /\ \A e \in Engines : Len(chan'[e]) <= Capacity
    <3>1. <<>> \in Seq(Jobs) /\ Len(<<>>) = 0 /\ 0 <= Capacity
      BY FallbackAssumption
    <3> QED BY <1>1, <1>2, <3>1 DEF TypeOK
  <2>2. state' \in [Engines -> {"up", "aborting", "down"}]
    BY <1>1, <1>2 DEF TypeOK
  <2> QED BY <1>1, <1>2, <2>1, <2>2 DEF TypeOK, sockets
<1>4. /\ \A e \in Engines : \A i \in Nat :
           /\ Spot(e, i)' => Spot(e, i) /\ JobAt(e, i)' = JobAt(e, i)
           /\ e # E => (Spot(e, i)' <=> Spot(e, i))
  <2>1. CASE UNCHANGED chan
    BY <1>2, <2>1 DEF Spot, JobAt
  <2>2. CASE chan' = [chan EXCEPT ![E] = <<>>]
    BY <1>1, <1>2, <2>2, Cleared
  <2> QED BY <1>2, <2>1, <2>2
<1>5. JobShape'
  BY <1>1, <1>2, <1>4 DEF JobShape, Fits
<1>6. \A c \in Callers : \A i \in Nat : ~Awaited(c, E, i)
  BY <1>1, <1>2 DEF Awaited, JobShape
<1>7. \A c \in Callers : \A e \in Engines : \A i \in Nat : Awaited(c, e, i)' <=> Awaited(c, e, i)
  BY <1>4, <1>6 DEF Awaited
<1>8. CallShape' /\ PlacedOnce' /\ WritesBounded'
  BY <1>1, <1>2, <1>7 DEF CallShape, PlacedOnce, WritesBounded, Writing
<1>9. DroppedIdle'
  BY <1>1, <1>2 DEF DroppedIdle, TypeOK
<1> QED BY <1>3, <1>5, <1>8, <1>9 DEF ShapeInv

LEMMA RecvShape ==
  ASSUME ShapeInv, NEW E \in Engines, Recv(E)
  PROVE  ShapeInv'
<1> USE DEF callers, history
<1>1. TypeOK /\ CallShape /\ JobShape /\ PlacedOnce /\ WritesBounded /\ DroppedIdle
  BY DEF ShapeInv
<1>2. /\ worker[E] = NoJob /\ chan[E] # <<>>
      /\ worker' = [worker EXCEPT ![E] = Head(chan[E])]
      /\ chan' = [chan EXCEPT ![E] = Tail(@)]
      /\ UNCHANGED <<uses, state, callers, answer, sockets, file, hold, sent, history>>
  BY DEF Recv
<1>3. TypeOK'
  <2>1. /\ chan[E] \in Seq(Jobs) /\ Head(chan[E]) \in Jobs /\ Tail(chan[E]) \in Seq(Jobs)
        /\ Len(chan[E]) \in Nat /\ Len(Tail(chan[E])) = Len(chan[E]) - 1
    BY <1>1, <1>2, ChannelTypes
  <2>2. Len(Tail(chan[E])) <= Capacity
    BY <1>1, <2>1, FallbackAssumption DEF TypeOK
  <2>3. chan' \in [Engines -> Seq(Jobs)] /\ \A e \in Engines : Len(chan'[e]) <= Capacity
    BY <1>1, <1>2, <2>1, <2>2 DEF TypeOK
  <2>4. worker' \in [Engines -> Jobs \cup {NoJob}]
    BY <1>1, <1>2, <2>1 DEF TypeOK
  <2> QED BY <1>1, <1>2, <2>3, <2>4 DEF TypeOK, sockets
<1>4. /\ \A e \in Engines \ {E} : \A i \in Nat :
           (Spot(e, i)' <=> Spot(e, i)) /\ JobAt(e, i)' = JobAt(e, i)
      /\ \A i \in Nat : /\ Spot(E, i)' <=> Spot(E, i + 1)
                        /\ Spot(E, i)' => JobAt(E, i)' = JobAt(E, i + 1)
      /\ ~Spot(E, 0)
  BY <1>1, Advances
<1>5. JobShape'
  <2> SUFFICES ASSUME NEW e \in Engines, NEW i \in Nat, Spot(e, i)'
               PROVE  /\ Fits(JobAt(e, i)') /\ EngineOf(JobAt(e, i)'.op) = e
                      /\ JobAt(e, i)'.live => /\ pc[JobAt(e, i)'.by] = "waiting"
                                              /\ call[JobAt(e, i)'.by] = JobAt(e, i)'
    BY <1>2 DEF JobShape, Fits
  <2>1. CASE e = E
    <3>1. i + 1 \in Nat /\ Spot(E, i + 1) /\ JobAt(e, i)' = JobAt(E, i + 1)
      BY <1>4, <2>1
    <3> QED BY <1>1, <2>1, <3>1 DEF JobShape
  <2>2. CASE e # E
    <3>1. Spot(e, i) /\ JobAt(e, i)' = JobAt(e, i)
      BY <1>4, <2>2
    <3> QED BY <1>1, <3>1 DEF JobShape
  <2> QED BY <2>1, <2>2
<1>6. PlacedOnce'
  <2>1. \A c \in Callers : \A e \in Engines \ {E} : \A i \in Nat :
          Awaited(c, e, i)' <=> Awaited(c, e, i)
    BY <1>4 DEF Awaited
  <2>2. \A c \in Callers : \A i \in Nat : Awaited(c, E, i)' <=> Awaited(c, E, i + 1)
    BY <1>4 DEF Awaited
  <2>3. \A c \in Callers : \A i \in Nat :
          Awaited(c, E, i) => \E k \in Nat : k + 1 = i /\ Awaited(c, E, k)'
    <3>1. ASSUME NEW c \in Callers, NEW i \in Nat, Awaited(c, E, i)
          PROVE  \E k \in Nat : k + 1 = i /\ Awaited(c, E, k)'
      <4>1. i # 0
        BY <1>4, <3>1 DEF Awaited
      <4>2. PICK k \in Nat : k + 1 = i
        BY <4>1
      <4> QED BY <2>2, <3>1, <4>2
    <3> QED BY <3>1
  <2>4. ASSUME NEW c \in Callers
        PROVE  /\ pc[c] = "waiting" /\ answer[c] = NoAnswer =>
                    \E e \in Engines : \E i \in Nat : Awaited(c, e, i)'
               /\ \A e \in Engines : \A i \in Nat : Awaited(c, e, i)' =>
                    /\ answer[c] = NoAnswer
                    /\ \A f \in Engines : \A k \in Nat : Awaited(c, f, k)' => f = e /\ k = i
    <3>1. pc[c] = "waiting" /\ answer[c] = NoAnswer =>
            \E e \in Engines : \E i \in Nat : Awaited(c, e, i)'
      BY <1>1, <2>1, <2>3 DEF PlacedOnce
    <3>2. ASSUME NEW e \in Engines, NEW i \in Nat, Awaited(c, e, i)'
          PROVE  /\ answer[c] = NoAnswer
                 /\ \A f \in Engines : \A k \in Nat : Awaited(c, f, k)' => f = e /\ k = i
      <4>1. PICK n \in Nat : Awaited(c, e, n) /\ n = IF e = E THEN i + 1 ELSE i
        BY <2>1, <2>2, <3>2
      <4>2. ASSUME NEW f \in Engines, NEW k \in Nat, Awaited(c, f, k)' PROVE f = e /\ k = i
        <5>1. PICK m \in Nat : Awaited(c, f, m) /\ m = IF f = E THEN k + 1 ELSE k
          BY <2>1, <2>2, <4>2
        <5>2. f = e /\ m = n
          BY <1>1, <4>1, <5>1 DEF PlacedOnce
        <5> QED BY <4>1, <5>1, <5>2
      <4> QED BY <1>1, <4>1, <4>2 DEF PlacedOnce
    <3> QED BY <3>1, <3>2
  <2> QED BY <1>2, <2>4 DEF PlacedOnce
<1>7. CallShape' /\ WritesBounded'
  BY <1>1, <1>2 DEF CallShape, WritesBounded, Writing, Fits
<1>8. DroppedIdle'
  BY <1>1, <1>2 DEF DroppedIdle, TypeOK
<1> QED BY <1>3, <1>5, <1>6, <1>7, <1>8 DEF ShapeInv

\* A worker answers: the job it had becomes the answer, if anyone waits for it.
LEMMA DoneShape ==
  ASSUME ShapeInv, NEW E \in Engines, worker[E] # NoJob,
         NEW ok \in BOOLEAN, NEW seen \in Stamps \cup {Absent}, NEW h \in Handles \cup {NoHandle},
         Callback(E, ok, seen, h),
         UNCHANGED <<uses, chan, state, callers, hold, sent, tainted, misused, dropped>>,
         table' \in [Fds -> Sockets \cup {NoSocket}], made' \in 0..MaxSockets,
         kind' \in [Fds -> {"closed", "listener", "accepted", "connected"}],
         file' \in Stamps \cup {Absent}, skipped' \subseteq Stamps
  PROVE  ShapeInv'
<1> USE DEF callers
<1>1. TypeOK /\ CallShape /\ JobShape /\ PlacedOnce /\ WritesBounded /\ DroppedIdle
  BY DEF ShapeInv
<1>2. PICK j \in Jobs : j = worker[E]
  BY <1>1 DEF TypeOK
<1>3. /\ worker' = [worker EXCEPT ![E] = NoJob]
      /\ answer' = IF j.live
                   THEN [answer EXCEPT ![j.by] = [ok |-> ok, seen |-> seen, handle |-> h]]
                   ELSE answer
      /\ orphans' = IF j.live THEN orphans ELSE orphans \cup ({h[2]} \ {NoSocket})
  BY <1>2 DEF Callback
<1>4. /\ Spot(E, 0) /\ JobAt(E, 0) = j /\ j.by \in Callers
      /\ j.live => pc[j.by] = "waiting" /\ call[j.by] = j /\ Awaited(j.by, E, 0)
  <2>1. Spot(E, 0) /\ JobAt(E, 0) = j
    BY <1>1, <1>2, WorkerSpot
  <2> QED BY <1>1, <1>2, <2>1 DEF JobShape, Awaited, Jobs
<1>5. TypeOK'
  <2>1. answer' \in [Callers -> Answers \cup {NoAnswer}]
    BY <1>1, <1>3, <1>4 DEF TypeOK, Answers
  <2>2. \A c \in Callers : answer'[c] # NoAnswer => pc[c] = "waiting"
    BY <1>1, <1>3, <1>4 DEF TypeOK
  <2>3. orphans' \subseteq Sockets
    <3>1. h[2] \in Sockets \cup {NoSocket}
      BY DEF Handles, NoHandle
    <3> QED BY <1>1, <1>3, <3>1 DEF TypeOK
  <2>4. worker' \in [Engines -> Jobs \cup {NoJob}]
    BY <1>1, <1>3 DEF TypeOK
  <2> QED BY <1>1, <2>1, <2>2, <2>3, <2>4 DEF TypeOK
<1>6. \A e \in Engines : \A i \in Nat :
        /\ Spot(e, i)' <=> Spot(e, i) /\ ~(e = E /\ i = 0)
        /\ Spot(e, i)' => JobAt(e, i)' = JobAt(e, i)
  BY <1>1, <1>3, Leaves
<1>7. JobShape'
  BY <1>1, <1>6 DEF JobShape, Fits
<1>8. /\ \A c \in Callers : c # j.by => answer'[c] = answer[c]
      /\ j.live => answer'[j.by] # NoAnswer
      /\ ~j.live => answer' = answer
  BY <1>1, <1>3, <1>4, Nothings DEF TypeOK
<1>9. /\ \A c \in Callers : \A e \in Engines : \A i \in Nat :
           Awaited(c, e, i)' <=> Awaited(c, e, i) /\ ~(e = E /\ i = 0)
      /\ \A c \in Callers : ~(c = j.by /\ j.live) => ~Awaited(c, E, 0)
  BY <1>4, <1>6 DEF Awaited
<1>10. PlacedOnce'
  <2>1. ASSUME NEW c \in Callers
        PROVE  /\ pc[c] = "waiting" /\ answer'[c] = NoAnswer =>
                    \E e \in Engines : \E i \in Nat : Awaited(c, e, i)'
               /\ \A e \in Engines : \A i \in Nat : Awaited(c, e, i)' =>
                    /\ answer'[c] = NoAnswer
                    /\ \A f \in Engines : \A k \in Nat : Awaited(c, f, k)' => f = e /\ k = i
    <3>1. CASE c = j.by /\ j.live
      <4>1. \A e \in Engines : \A i \in Nat : ~Awaited(c, e, i)'
        BY <1>1, <1>4, <1>9, <3>1 DEF PlacedOnce
      <4> QED BY <1>8, <3>1, <4>1
    <3>2. CASE ~(c = j.by /\ j.live)
      BY <1>1, <1>8, <1>9, <3>2 DEF PlacedOnce
    <3> QED BY <3>1, <3>2
  <2> QED BY <2>1 DEF PlacedOnce
<1>11. CallShape' /\ WritesBounded'
  BY <1>1 DEF CallShape, WritesBounded, Writing, Fits
<1>12. DroppedIdle'
  BY <1>1, <1>3 DEF DroppedIdle, TypeOK
<1> QED BY <1>5, <1>7, <1>10, <1>11, <1>12 DEF ShapeInv

\* What the worker of the disk engine can do with its job.
LEMMA DiskDoes ==
  ASSUME ShapeInv, DiskWork
  PROVE  /\ worker["disk"] # NoJob /\ "disk" \in Engines
         /\ \E ok \in BOOLEAN, seen \in Stamps \cup {Absent}, contents \in Stamps \cup {Absent} :
              /\ DiskDone(ok, seen, contents)
              /\ ~At("disk", {"write_file"}) => contents = file
              /\ At("disk", {"write_file"}) => \/ contents \in {file, worker["disk"].upto}
                                               \/ file = Absent /\ contents = 0
              /\ ok /\ At("disk", {"read_file", "sync_file"}) => file # Absent /\ seen = file
<1>1. TypeOK /\ "disk" \in Engines
  BY DEF ShapeInv, Engines
<1>2. At("disk", {"read_file", "sync_file"}) \/ At("disk", {"write_file"}) \/ At("disk", {"close_file"})
  BY DEF DiskWork, ReadFails, WriteFails, ReadFile, WriteFile, CloseFile
<1>3. worker["disk"] # NoJob
  BY <1>2 DEF At, NoJob
<1>4. /\ worker["disk"].upto \in Stamps /\ file \in Stamps \cup {Absent}
      /\ 0 \in Stamps /\ Absent \in Stamps \cup {Absent}
  BY <1>1, <1>3, FallbackAssumption DEF TypeOK, Jobs, Stamps
<1>5. CASE ReadFails
  <2>1. DiskDone(FALSE, Absent, file) /\ At("disk", {"read_file", "sync_file"})
        /\ ~At("disk", {"write_file"})
    BY <1>5 DEF ReadFails, At
  <2> QED BY <1>1, <1>3, <1>4, <2>1
<1>6. CASE ReadFile
  <2>1. DiskDone(TRUE, file, file) /\ file # Absent /\ ~At("disk", {"write_file"})
    BY <1>6 DEF ReadFile, At
  <2> QED BY <1>1, <1>3, <1>4, <2>1
<1>7. CASE CloseFile
  <2>1. DiskDone(TRUE, Absent, file) /\ ~At("disk", {"write_file"})
        /\ ~At("disk", {"read_file", "sync_file"})
    BY <1>7 DEF CloseFile, At
  <2> QED BY <1>1, <1>3, <1>4, <2>1
<1>8. CASE WriteFile
  <2>1. DiskDone(TRUE, Absent, worker["disk"].upto) /\ At("disk", {"write_file"})
        /\ ~At("disk", {"read_file", "sync_file"})
    BY <1>8 DEF WriteFile, At
  <2> QED BY <1>1, <1>3, <1>4, <2>1
<1>9. CASE WriteFails
  <2>1. At("disk", {"write_file"}) /\ ~At("disk", {"read_file", "sync_file"})
    BY <1>9 DEF WriteFails, At
  <2>2. PICK contents \in {file, worker["disk"].upto} \cup (IF file = Absent THEN {0} ELSE {}) :
          DiskDone(FALSE, Absent, contents)
    BY <1>9 DEF WriteFails
  <2>3. \/ contents \in {file, worker["disk"].upto}
        \/ file = Absent /\ contents = 0
    BY <2>2
  <2> QED BY <1>1, <1>3, <1>4, <2>1, <2>2, <2>3
<1> QED BY <1>5, <1>6, <1>7, <1>8, <1>9 DEF DiskWork

\* What the worker of the network engine can do with its job.
LEMMA NetDoes ==
  ASSUME ShapeInv, NetWork
  PROVE  /\ worker["net"] # NoJob /\ "net" \in Engines
         /\ \E ok \in BOOLEAN, h \in Handles \cup {NoHandle} :
              /\ NetDone(ok, h)
              /\ \/ /\ h = NoHandle /\ UNCHANGED sockets
                    /\ (At("net", {"transfer"}) /\ ok) \/ (At("net", {"connect"}) /\ ~ok)
                 \/ /\ h = NoHandle /\ CloseFd /\ At("net", OnSocket)
                    /\ ok <=> At("net", {"close"})
                 \/ /\ h = NewHandle /\ ok /\ CanOpen /\ At("net", {"connect"})
                    /\ OpenSocket("connected")
                 \/ /\ h = NewHandle /\ ok /\ CanOpen /\ At("net", {"accept"})
                    /\ table' = [table EXCEPT ![LowestFd] = NextSocket, ![JobFd] = NoSocket]
                    /\ kind' = [kind EXCEPT ![LowestFd] = "accepted", ![JobFd] = "closed"]
                    /\ made' = NextSocket
<1>1. TypeOK /\ "net" \in Engines
  BY DEF ShapeInv, Engines
<1>2. worker["net"] # NoJob
  <2>1. worker["net"].op \in NetOps
    BY DEF NetWork, Accept, Connect, ConnectFails, Transfer, Close, NetFails, At, NetOps, OnSocket
  <2>2. NoJob.op = "none"
    BY DEF NoJob
  <2> QED BY <2>1, <2>2 DEF NetOps, OnSocket
<1>3. CASE Accept
  <2>1. CanOpen /\ NetDone(TRUE, NewHandle)
    BY <1>3 DEF Accept
  <2>2. NewHandle \in Handles
    BY <1>1, <2>1, NewSocket
  <2> QED BY <1>1, <1>2, <1>3, <2>1, <2>2 DEF Accept
<1>4. CASE Connect
  <2>1. CanOpen /\ NetDone(TRUE, NewHandle)
    BY <1>4 DEF Connect
  <2>2. NewHandle \in Handles
    BY <1>1, <2>1, NewSocket
  <2> QED BY <1>1, <1>2, <1>4, <2>1, <2>2 DEF Connect
<1>5. CASE ConnectFails
  BY <1>1, <1>2, <1>5 DEF ConnectFails
<1>6. CASE Transfer
  BY <1>1, <1>2, <1>6 DEF Transfer
<1>7. CASE Close
  <2>1. At("net", OnSocket) /\ At("net", {"close"}) /\ NetDone(TRUE, NoHandle) /\ CloseFd
    BY <1>7 DEF Close, At, OnSocket
  <2> QED BY <1>1, <1>2, <2>1
<1>8. CASE NetFails
  <2>1. At("net", OnSocket) /\ ~At("net", {"close"}) /\ NetDone(FALSE, NoHandle) /\ CloseFd
    BY <1>8 DEF NetFails, At, OnSocket
  <2> QED BY <1>1, <1>2, <2>1
<1> QED BY <1>3, <1>4, <1>5, <1>6, <1>7, <1>8 DEF NetWork

LEMMA DiskWorkShape ==
  ASSUME ShapeInv, DiskWork
  PROVE  ShapeInv'
<1>1. TypeOK
  BY DEF ShapeInv
<1>2. worker["disk"] # NoJob /\ "disk" \in Engines
  BY DiskDoes
<1>3. PICK ok \in BOOLEAN, seen \in Stamps \cup {Absent}, contents \in Stamps \cup {Absent} :
        DiskDone(ok, seen, contents)
  BY DiskDoes
<1>4. /\ file' = contents /\ Callback("disk", ok, seen, NoHandle)
      /\ skipped' \subseteq skipped \cup {worker["disk"].upto}
      /\ UNCHANGED <<uses, chan, state, callers, sockets, hold, sent, tainted, misused, dropped>>
  BY <1>3 DEF DiskDone
<1>5. worker["disk"].upto \in Stamps
  BY <1>1, <1>2 DEF TypeOK, Jobs
<1>6. /\ table' \in [Fds -> Sockets \cup {NoSocket}] /\ made' \in 0..MaxSockets
      /\ kind' \in [Fds -> {"closed", "listener", "accepted", "connected"}]
      /\ file' \in Stamps \cup {Absent} /\ skipped' \subseteq Stamps
  BY <1>1, <1>4, <1>5 DEF TypeOK, sockets
<1> QED BY <1>2, <1>4, <1>6, DoneShape

LEMMA NetWorkShape ==
  ASSUME ShapeInv, NetWork
  PROVE  ShapeInv'
<1>1. TypeOK
  BY DEF ShapeInv
<1>2. worker["net"] # NoJob /\ "net" \in Engines
  BY NetDoes
<1>3. PICK ok \in BOOLEAN, h \in Handles \cup {NoHandle} :
        /\ NetDone(ok, h)
        /\ \/ UNCHANGED sockets \/ CloseFd
           \/ CanOpen /\ OpenSocket("connected")
           \/ /\ CanOpen /\ made' = NextSocket
              /\ table' = [table EXCEPT ![LowestFd] = NextSocket, ![JobFd] = NoSocket]
              /\ kind' = [kind EXCEPT ![LowestFd] = "accepted", ![JobFd] = "closed"]
  BY NetDoes
<1>4. /\ Callback("net", ok, Absent, h)
      /\ UNCHANGED <<uses, chan, state, callers, file, hold, sent, skipped, tainted, misused, dropped>>
  BY <1>3 DEF NetDone
<1>5. /\ table' \in [Fds -> Sockets \cup {NoSocket}] /\ made' \in 0..MaxSockets
      /\ kind' \in [Fds -> {"closed", "listener", "accepted", "connected"}]
  <2>1. CanOpen => NextSocket \in Sockets
    BY <1>1, NewSocket
  <2>2. \A s \in Sockets : s \in 0..MaxSockets
    BY FallbackAssumption DEF Sockets
  <2>3. /\ table \in [Fds -> Sockets \cup {NoSocket}] /\ made \in 0..MaxSockets
        /\ kind \in [Fds -> {"closed", "listener", "accepted", "connected"}]
    BY <1>1 DEF TypeOK
  <2>4. CASE UNCHANGED sockets
    BY <2>3, <2>4 DEF sockets
  <2>5. CASE CloseFd
    BY <2>3, <2>5 DEF CloseFd
  <2>6. CASE CanOpen /\ OpenSocket("connected")
    BY <2>1, <2>2, <2>3, <2>6 DEF OpenSocket
  <2>7. CASE /\ CanOpen /\ made' = NextSocket
             /\ table' = [table EXCEPT ![LowestFd] = NextSocket, ![JobFd] = NoSocket]
             /\ kind' = [kind EXCEPT ![LowestFd] = "accepted", ![JobFd] = "closed"]
    BY <2>1, <2>2, <2>3, <2>7
  <2> QED BY <1>3, <2>4, <2>5, <2>6, <2>7
<1>6. /\ file' \in Stamps \cup {Absent} /\ skipped' \subseteq Stamps /\ Absent \in Stamps \cup {Absent}
  BY <1>1, <1>4 DEF TypeOK
<1> QED BY <1>2, <1>4, <1>5, <1>6, DoneShape

LEMMA InitShape == Init => ShapeInv
<1> SUFFICES ASSUME Init PROVE ShapeInv
  OBVIOUS
<1>1. TypeOK
  <2>1. <<>> \in Seq(Jobs) /\ Len(<<>>) = 0 /\ 0 <= Capacity
    BY FallbackAssumption
  <2>2. 0 \in Stamps /\ 0 \in 0..MaxSockets /\ 0 \in 0..MaxDropped
    BY FallbackAssumption DEF Stamps
  <2> QED BY <2>1, <2>2 DEF Init, TypeOK
<1>2. \A e \in Engines : \A i \in Nat : ~Spot(e, i)
  <2>1. Len(<<>>) = 0
    OBVIOUS
  <2> QED BY <2>1 DEF Init, Spot
<1>3. Writing = {}
  BY DEF Init, Writing
<1>4. WritesBounded
  BY <1>3, FS_EmptySet, FallbackAssumption DEF Init, WritesBounded
<1> QED BY <1>1, <1>2, <1>4 DEF Init, ShapeInv, CallShape, JobShape, PlacedOnce, Awaited, DroppedIdle

LEMMA StepShape == ShapeInv /\ [Next]_vars => ShapeInv'
<1> SUFFICES ASSUME ShapeInv, [Next]_vars PROVE ShapeInv'
  OBVIOUS
<1>1. ASSUME NEW c \in Callers, NEW op \in uses[c] \ OnSocket, Begin(c, op, NoHandle) PROVE ShapeInv'
  BY <1>1, BeginShape
<1>2. ASSUME NEW c \in Callers, NEW op \in uses[c] \cap OnSocket, NEW h \in hold[c], Begin(c, op, h)
      PROVE  ShapeInv'
  BY <1>2, BeginShape
<1>3. ASSUME UNCHANGED vars PROVE ShapeInv'
  BY <1>3 DEF vars, callers, sockets, history, ShapeInv, TypeOK, CallShape, JobShape, PlacedOnce,
     Awaited, WritesBounded, Writing, DroppedIdle, Spot, JobAt, Fits
<1> QED BY <1>1, <1>2, <1>3, ListenShape, SendShape, ReceiveShape, AbandonShape, RecvShape,
       DropShape, DiskWorkShape, NetWorkShape DEF Next

LEMMA ShapeInvariant == Spec => []ShapeInv
<1> QED BY InitShape, StepShape, PTL DEF Spec

\* The places that OneAnswerPerCall counts are those of one job or of one answer.
LEMMA OnePlace == ShapeInv => OneAnswerPerCall
<1> SUFFICES ASSUME ShapeInv PROVE OneAnswerPerCall
  OBVIOUS
<1> DEFINE Mine(c, j)  == j # NoJob /\ j.by = c /\ j.live
           InChannel(c) == {p \in Engines \X (1..Capacity) :
                              p[2] <= Len(chan[p[1]]) /\ Mine(c, chan[p[1]][p[2]])}
           AtWorker(c)  == {<<e, 0>> : e \in {e \in Engines : Mine(c, worker[e])}}
           InAnswer(c)  == IF answer[c] # NoAnswer THEN {<<"answer", 0>>} ELSE {}
           Places(c)    == InChannel(c) \cup AtWorker(c) \cup InAnswer(c)
<1>1. TypeOK /\ JobShape /\ PlacedOnce
  BY DEF ShapeInv
<1>2. ASSUME NEW c \in Callers
      PROVE  /\ \A p \in InChannel(c) \cup AtWorker(c) :
                  \E e \in Engines, i \in Nat : p = <<e, i>> /\ Awaited(c, e, i)
             /\ \A e \in Engines : \A i \in Nat :
                  Awaited(c, e, i) => <<e, i>> \in InChannel(c) \cup AtWorker(c)
  <2>1. ASSUME NEW p \in InChannel(c)
        PROVE  \E e \in Engines, i \in Nat : p = <<e, i>> /\ Awaited(c, e, i)
    <3>1. /\ p[1] \in Engines /\ p[2] \in 1..Capacity /\ p = <<p[1], p[2]>>
          /\ p[2] <= Len(chan[p[1]]) /\ Mine(c, chan[p[1]][p[2]])
      BY <2>1
    <3>2. Awaited(c, p[1], p[2]) /\ p[2] \in Nat
      BY <1>1, <3>1, ChannelTypes, FallbackAssumption DEF Awaited, Spot, JobAt
    <3> QED BY <3>1, <3>2
  <2>2. ASSUME NEW p \in AtWorker(c)
        PROVE  \E e \in Engines, i \in Nat : p = <<e, i>> /\ Awaited(c, e, i)
    <3>1. PICK e \in Engines : p = <<e, 0>> /\ Mine(c, worker[e])
      BY <2>2
    <3>2. Awaited(c, e, 0)
      BY <1>1, <3>1, WorkerSpot DEF Awaited
    <3> QED BY <3>1, <3>2
  <2>3. ASSUME NEW e \in Engines, NEW i \in Nat, Awaited(c, e, i)
        PROVE  <<e, i>> \in InChannel(c) \cup AtWorker(c)
    <3>1. JobAt(e, i) # NoJob /\ JobAt(e, i).by = c /\ JobAt(e, i).live /\ Spot(e, i)
      BY <1>1, <2>3, Nothings DEF Awaited, JobShape, Fits
    <3>2. CASE i = 0
      BY <3>1, <3>2 DEF JobAt
    <3>3. CASE i # 0
      <4>1. i \in 1..Capacity /\ i <= Len(chan[e]) /\ Mine(c, chan[e][i])
        BY <1>1, <3>1, <3>3, ChannelTypes, FallbackAssumption DEF JobAt, Spot, TypeOK
      <4> QED BY <4>1
    <3> QED BY <3>2, <3>3
  <2> QED BY <2>1, <2>2, <2>3
<1>3. ASSUME NEW c \in Callers
      PROVE  Cardinality(Places(c)) = IF pc[c] = "waiting" THEN 1 ELSE 0
  <2> HIDE DEF InChannel, AtWorker
  <2>1. CASE pc[c] # "waiting"
    <3>1. answer[c] = NoAnswer /\ \A e \in Engines : \A i \in Nat : ~Awaited(c, e, i)
      BY <1>1, <2>1 DEF TypeOK, JobShape, Awaited
    <3>2. Places(c) = {}
      BY <1>2, <3>1
    <3> QED BY <2>1, <3>2, FS_EmptySet
  <2>2. CASE pc[c] = "waiting" /\ answer[c] # NoAnswer
    <3>1. \A e \in Engines : \A i \in Nat : ~Awaited(c, e, i)
      BY <1>1, <2>2 DEF PlacedOnce
    <3>2. Places(c) = {<<"answer", 0>>}
      BY <1>2, <2>2, <3>1
    <3> QED BY <2>2, <3>2, FS_Singleton
  <2>3. CASE pc[c] = "waiting" /\ answer[c] = NoAnswer
    <3>1. PICK e \in Engines, i \in Nat : Awaited(c, e, i)
      BY <1>1, <2>3 DEF PlacedOnce
    <3>2. \A f \in Engines : \A k \in Nat : Awaited(c, f, k) => f = e /\ k = i
      BY <1>1, <3>1 DEF PlacedOnce
    <3>3. Places(c) = {<<e, i>>}
      BY <1>2, <2>3, <3>1, <3>2
    <3> QED BY <2>3, <3>3, FS_Singleton
  <2> QED BY <2>1, <2>2, <2>3
<1> QED BY <1>3 DEF OneAnswerPerCall

-----------------------------------------------------------------------------
(* The second layer holds.                                                  *)

\* Steps that leave the jobs of the disk engine, the file and its answers alone.
LEMMA OrderStill ==
  ASSUME OrderInv,
         \A i \in Nat : /\ Spot("disk", i)' <=> Spot("disk", i)
                        /\ Spot("disk", i) => /\ DiskJob(i)'.upto = DiskJob(i).upto
                                              /\ Writes(DiskJob(i))' = Writes(DiskJob(i)),
         UNCHANGED <<sent, file, skipped>>, state'["disk"] = state["disk"],
         \A c \in Callers : answer'[c] # NoAnswer /\ EngineOf(call'[c].op) = "disk" =>
           answer'[c] = answer[c] /\ call'[c] = call[c]
  PROVE  OrderInv'
<1>1. SentInOrder /\ FileIsNewest /\ AnsweredInTime /\ AnswersInOrder
  BY DEF OrderInv
<1>2. Processed' = Processed
  BY DEF Processed
<1>3. SentInOrder'
  <2>1. ASSUME NEW i \in Nat, Spot("disk", i)
        PROVE  /\ Spot("disk", i + 1)' =>
                    DiskJob(i + 1)'.upto = DiskJob(i)'.upto + Writes(DiskJob(i + 1))'
               /\ ~Spot("disk", i + 1)' => DiskJob(i)'.upto = sent
    <3>1. i + 1 \in Nat
      OBVIOUS
    <3> QED BY <1>1, <2>1, <3>1 DEF SentInOrder
  <2> QED BY <1>1, <1>2, <2>1 DEF SentInOrder
<1>4. FileIsNewest'
  BY <1>1, <1>2 DEF FileIsNewest
<1>5. AnsweredInTime'
  BY <1>1, <1>2 DEF AnsweredInTime
<1>6. AnswersInOrder'
  BY <1>1 DEF AnswersInOrder, EngineOf, DiskOps
<1> QED BY <1>3, <1>4, <1>5, <1>6 DEF OrderInv

\* A job of the disk engine is sent: it gets the next number if it is a write.
LEMMA SendOrder ==
  ASSUME ShapeInv, OrderInv, NEW c \in Callers, Send(c)
  PROVE  OrderInv'
<1> USE DEF callers, history
<1>1. /\ TypeOK /\ CallShape /\ JobShape /\ DroppedIdle
      /\ SentInOrder /\ FileIsNewest /\ AnsweredInTime /\ AnswersInOrder
  BY DEF ShapeInv, OrderInv
<1>2. PICK E \in Engines : E = EngineOf(call[c].op)
  BY DEF Engines, EngineOf
<1>3. PICK n : n = IF call[c].op = "write_file" THEN sent + 1 ELSE sent
  OBVIOUS
<1>4. PICK j : j = [call[c] EXCEPT !.upto = IF E = "disk" THEN n ELSE 0]
  OBVIOUS
<1>5. /\ pc[c] = "sending" /\ sent' = n /\ chan' = [chan EXCEPT ![E] = Append(@, j)]
      /\ call' = [call EXCEPT ![c] = j]
      /\ UNCHANGED <<uses, worker, state, answer, sockets, file, hold, history>>
  BY <1>2, <1>3, <1>4 DEF Send
<1>6. /\ call[c] \in Jobs /\ answer[c] = NoAnswer
      /\ \A b \in Callers : answer[b] # NoAnswer => call'[b] = call[b]
  BY <1>1, <1>5 DEF CallShape, Fits, TypeOK
<1>7. sent \in Nat
  BY <1>1 DEF TypeOK, Stamps
<1>8. ShapeInv'
  BY SendShape
<1>9. sent' \in Stamps /\ n \in Nat /\ 0 \in Stamps
  BY <1>5, <1>8, FallbackAssumption DEF ShapeInv, TypeOK, Stamps
<1>10. j \in Jobs /\ j.op = call[c].op /\ (E = "disk" => j.upto = n)
  <2>1. (IF E = "disk" THEN n ELSE 0) \in Stamps
    BY <1>5, <1>9
  <2> QED BY <1>4, <1>6, <2>1 DEF Jobs
<1>11. PICK m \in Nat : m = Len(chan[E]) + 1
  BY <1>1, ChannelTypes
<1>12. /\ \A e \in Engines : \A i \in Nat :
            /\ Spot(e, i)' <=> Spot(e, i) \/ (e = E /\ i = m)
            /\ Spot(e, i) => JobAt(e, i)' = JobAt(e, i)
       /\ JobAt(E, m)' = j
  <2>1. TypeOK /\ j \in Jobs /\ m = Len(chan[E]) + 1
    BY <1>1, <1>10, <1>11
  <2>2. chan' = [chan EXCEPT ![E] = Append(@, j)] /\ UNCHANGED worker
    BY <1>5
  <2> QED BY <2>1, <2>2, Enters
<1>13. CASE E = "net"
  <2>1. call[c].op # "write_file" /\ sent' = sent
    BY <1>2, <1>3, <1>5, <1>13 DEF EngineOf, DiskOps
  <2>2. \A i \in Nat : /\ Spot("disk", i)' <=> Spot("disk", i)
                       /\ Spot("disk", i) => DiskJob(i)' = DiskJob(i)
    BY <1>12, <1>13 DEF Engines, DiskJob
  <2> QED BY <1>5, <1>6, <2>1, <2>2, OrderStill DEF Writes
<1>14. CASE E = "disk"
  <2>1. /\ \A i \in Nat : /\ Spot("disk", i)' <=> Spot("disk", i) \/ i = m
                          /\ Spot("disk", i) => DiskJob(i)' = DiskJob(i)
        /\ DiskJob(m)' = j
    BY <1>12, <1>14 DEF Engines, DiskJob
  <2>2. /\ m # 0 /\ ~Spot("disk", m)
        /\ \A i \in Nat : Spot("disk", i) => i < m /\ (i + 1 < m => Spot("disk", i + 1))
        /\ ~Spot("disk", 0) /\ m # 1 => Spot("disk", 1)
    BY <1>1, <1>11, <1>14, ChannelTypes DEF Spot, Engines
  <2>3. j.upto = n /\ n = sent + Writes(j) /\ Writes(j) \in {0, 1}
    BY <1>3, <1>7, <1>10, <1>14 DEF Writes
  <2>4. Processed' = Processed
    <3>1. CASE Spot("disk", 0)
      BY <2>1, <2>2, <3>1 DEF Processed, Writes
    <3>2. CASE ~Spot("disk", 0) /\ Spot("disk", 1)
      BY <2>1, <2>2, <3>2 DEF Processed, Writes
    <3>3. CASE ~Spot("disk", 0) /\ ~Spot("disk", 1)
      <4>1. m = 1 /\ Processed = sent
        BY <2>2, <3>3 DEF Processed
      <4>2. Processed' = n - Writes(j)
        BY <2>1, <2>2, <2>3, <3>3, <4>1 DEF Processed, Writes
      <4> QED BY <1>7, <2>3, <4>1, <4>2
    <3> QED BY <3>1, <3>2, <3>3
  <2>5. SentInOrder'
    <3> SUFFICES ASSUME NEW i \in Nat, Spot("disk", i)'
                 PROVE  /\ Spot("disk", i + 1)' =>
                             DiskJob(i + 1)'.upto = DiskJob(i)'.upto + Writes(DiskJob(i + 1))'
                        /\ ~Spot("disk", i + 1)' => DiskJob(i)'.upto = sent'
      BY <1>1, <2>4 DEF SentInOrder
    <3>1. i + 1 \in Nat
      OBVIOUS
    <3>2. CASE i = m
      <4>1. ~Spot("disk", i + 1)'
        BY <2>1, <2>2, <3>1, <3>2
      <4> QED BY <1>5, <2>1, <2>3, <3>2, <4>1
    <3>3. CASE i # m /\ i + 1 = m
      <4>1. Spot("disk", i) /\ ~Spot("disk", i + 1) /\ DiskJob(i)' = DiskJob(i)
        BY <2>1, <2>2, <3>3
      <4>2. DiskJob(i).upto = sent
        BY <1>1, <4>1 DEF SentInOrder
      <4>3. Spot("disk", i + 1)' /\ DiskJob(i + 1)' = j
        BY <2>1, <3>1, <3>3
      <4> QED BY <2>3, <4>1, <4>2, <4>3 DEF Writes
    <3>4. CASE i # m /\ i + 1 # m
      <4>1. /\ Spot("disk", i) /\ DiskJob(i)' = DiskJob(i)
            /\ Spot("disk", i + 1) /\ DiskJob(i + 1)' = DiskJob(i + 1) /\ Spot("disk", i + 1)'
        BY <2>1, <2>2, <3>1, <3>4
      <4> QED BY <1>1, <4>1 DEF SentInOrder, Writes
    <3> QED BY <3>2, <3>3, <3>4
  <2>6. FileIsNewest'
    BY <1>1, <1>5, <2>4 DEF FileIsNewest
  <2>7. AnsweredInTime'
    BY <1>1, <1>5, <1>6, <2>4 DEF AnsweredInTime
  <2>8. AnswersInOrder'
    BY <1>1, <1>5, <1>6 DEF AnswersInOrder
  <2> QED BY <2>5, <2>6, <2>7, <2>8 DEF OrderInv
<1> QED BY <1>13, <1>14 DEF Engines

LEMMA RecvOrder ==
  ASSUME ShapeInv, OrderInv, NEW E \in Engines, Recv(E)
  PROVE  OrderInv'
<1> USE DEF callers, history
<1>1. TypeOK /\ SentInOrder /\ FileIsNewest /\ AnsweredInTime /\ AnswersInOrder
  BY DEF ShapeInv, OrderInv
<1>2. UNCHANGED <<state, callers, answer, file, sent, history>>
  BY DEF Recv
<1>3. /\ \A e \in Engines \ {E} : \A i \in Nat :
           (Spot(e, i)' <=> Spot(e, i)) /\ JobAt(e, i)' = JobAt(e, i)
      /\ \A i \in Nat : /\ Spot(E, i)' <=> Spot(E, i + 1)
                        /\ Spot(E, i)' => JobAt(E, i)' = JobAt(E, i + 1)
      /\ ~Spot(E, 0)
  BY <1>1, Advances
<1>4. CASE E = "net"
  <2>1. \A i \in Nat : (Spot("disk", i)' <=> Spot("disk", i)) /\ DiskJob(i)' = DiskJob(i)
    BY <1>3, <1>4 DEF Engines, DiskJob
  <2> QED BY <1>2, <2>1, OrderStill DEF Writes
<1>5. CASE E = "disk"
  <2>1. \A i \in Nat : /\ Spot("disk", i)' <=> Spot("disk", i + 1)
                       /\ Spot("disk", i)' => DiskJob(i)' = DiskJob(i + 1)
    BY <1>3, <1>5 DEF DiskJob
  <2>2. Spot("disk", 1) /\ ~Spot("disk", 0)
    <3>1. Len(chan["disk"]) > 0 /\ Len(chan["disk"]) \in Nat
      BY <1>1, <1>5, ChannelTypes DEF Recv
    <3> QED BY <1>3, <1>5, <3>1 DEF Spot
  <2>3. Processed' = Processed
    <3>1. Spot("disk", 0)' /\ DiskJob(0)' = DiskJob(1)
      <4>1. Spot("disk", 0 + 1) /\ DiskJob(0 + 1) = DiskJob(1)
        BY <2>2
      <4> QED BY <2>1, <4>1
    <3> QED BY <2>2, <3>1 DEF Processed, Writes
  <2>4. SentInOrder'
    <3> SUFFICES ASSUME NEW i \in Nat, Spot("disk", i)'
                 PROVE  /\ Spot("disk", i + 1)' =>
                             DiskJob(i + 1)'.upto = DiskJob(i)'.upto + Writes(DiskJob(i + 1))'
                        /\ ~Spot("disk", i + 1)' => DiskJob(i)'.upto = sent
      BY <1>1, <1>2, <2>3 DEF SentInOrder
    <3>1. PICK k \in Nat : k = i + 1
      OBVIOUS
    <3>2. /\ Spot("disk", k) /\ DiskJob(i)' = DiskJob(k)
          /\ Spot("disk", k)' <=> Spot("disk", k + 1)
          /\ Spot("disk", k)' => DiskJob(k)' = DiskJob(k + 1)
      BY <2>1, <3>1
    <3>3. /\ Spot("disk", k + 1) => DiskJob(k + 1).upto = DiskJob(k).upto + Writes(DiskJob(k + 1))
          /\ ~Spot("disk", k + 1) => DiskJob(k).upto = sent
      BY <1>1, <3>2 DEF SentInOrder
    <3>4. /\ Spot("disk", k)' => DiskJob(k)'.upto = DiskJob(i)'.upto + Writes(DiskJob(k))'
          /\ ~Spot("disk", k)' => DiskJob(i)'.upto = sent
      BY <3>2, <3>3 DEF Writes
    <3> QED BY <3>1, <3>4
  <2>5. FileIsNewest'
    BY <1>1, <1>2, <2>3 DEF FileIsNewest
  <2>6. AnsweredInTime'
    BY <1>1, <1>2, <2>3 DEF AnsweredInTime
  <2>7. AnswersInOrder'
    BY <1>1, <1>2 DEF AnswersInOrder
  <2> QED BY <2>4, <2>5, <2>6, <2>7 DEF OrderInv
<1> QED BY <1>4, <1>5 DEF Engines

\* The disk engine is dropped: nobody is left to read what the file holds.
LEMMA DropOrder ==
  ASSUME ShapeInv, OrderInv, NEW E \in Engines, DropEngine(E) \/ Aborted(E)
  PROVE  OrderInv'
<1> USE DEF callers, history
<1>1. /\ TypeOK /\ CallShape /\ DroppedIdle
      /\ SentInOrder /\ FileIsNewest /\ AnsweredInTime /\ AnswersInOrder
  BY DEF ShapeInv, OrderInv
<1>2. /\ \A c \in Callers : pc[c] # "idle" => EngineOf(call[c].op) # E
      /\ \/ /\ worker[E] = NoJob /\ chan' = [chan EXCEPT ![E] = <<>>]
            /\ state' = [state EXCEPT ![E] = "down"]
         \/ state' = [state EXCEPT ![E] = "aborting"] /\ chan' = chan /\ state[E] = "up"
      /\ UNCHANGED <<uses, worker, callers, answer, sockets, file, hold, sent, history>>
  BY <1>1 DEF DropEngine, Aborted, DroppedIdle
<1>3. \A e \in Engines : \A i \in Nat :
        /\ Spot(e, i)' => Spot(e, i) /\ JobAt(e, i)' = JobAt(e, i)
        /\ e # E \/ chan' = chan => (Spot(e, i)' <=> Spot(e, i))
  <2>1. CASE UNCHANGED chan
    BY <1>2, <2>1 DEF Spot, JobAt
  <2>2. CASE chan' = [chan EXCEPT ![E] = <<>>]
    BY <1>1, <1>2, <2>1, <2>2, Cleared
  <2> QED BY <1>2, <2>1, <2>2
<1>4. CASE E = "net"
  <2>1. \A i \in Nat : /\ Spot("disk", i)' <=> Spot("disk", i)
                       /\ Spot("disk", i) => DiskJob(i)' = DiskJob(i)
    BY <1>3, <1>4 DEF Engines, DiskJob
  <2>2. state'["disk"] = state["disk"]
    BY <1>1, <1>2, <1>4 DEF TypeOK, Engines
  <2> QED BY <1>2, <2>1, <2>2, OrderStill DEF Writes
<1>5. CASE E = "disk" /\ chan' = chan /\ state[E] = "up"
  <2>1. \A i \in Nat : /\ Spot("disk", i)' <=> Spot("disk", i)
                       /\ Spot("disk", i) => DiskJob(i)' = DiskJob(i)
    BY <1>3, <1>5 DEF Engines, DiskJob
  <2>2. Processed' = Processed
    BY <1>2, <2>1 DEF Processed, Writes
  <2>3. SentInOrder'
    <3>1. ASSUME NEW i \in Nat, Spot("disk", i)
          PROVE  /\ Spot("disk", i + 1)' =>
                      DiskJob(i + 1)'.upto = DiskJob(i)'.upto + Writes(DiskJob(i + 1))'
                 /\ ~Spot("disk", i + 1)' => DiskJob(i)'.upto = sent
      <4>1. i + 1 \in Nat
        OBVIOUS
      <4> QED BY <1>1, <2>1, <3>1, <4>1 DEF SentInOrder, Writes
    <3> QED BY <1>1, <1>2, <2>1, <2>2, <3>1 DEF SentInOrder
  <2>4. FileIsNewest' /\ AnsweredInTime' /\ AnswersInOrder'
    BY <1>1, <1>2, <1>5, <2>2 DEF FileIsNewest, AnsweredInTime, AnswersInOrder
  <2> QED BY <2>3, <2>4 DEF OrderInv
<1>6. CASE E = "disk" /\ worker[E] = NoJob /\ chan' = [chan EXCEPT ![E] = <<>>]
           /\ state' = [state EXCEPT ![E] = "down"]
  <2>1. \A i \in Nat : ~Spot("disk", i)'
    <3>1. chan'["disk"] = <<>> /\ worker'["disk"] = NoJob /\ Len(<<>>) = 0
      BY <1>1, <1>2, <1>6 DEF TypeOK
    <3> QED BY <3>1 DEF Spot
  <2>2. state'["disk"] = "down"
    BY <1>1, <1>6 DEF TypeOK
  <2>3. \A c \in Callers : answer[c] # NoAnswer => EngineOf(call[c].op) # "disk"
    BY <1>1, <1>2, <1>6 DEF TypeOK
  <2>4. SentInOrder'
    <3>1. sent \in Nat
      BY <1>1 DEF TypeOK, Stamps
    <3> QED BY <1>2, <2>1, <3>1 DEF SentInOrder, Processed
  <2>5. FileIsNewest' /\ AnsweredInTime'
    BY <1>2, <2>2, <2>3 DEF FileIsNewest, AnsweredInTime
  <2>6. AnswersInOrder'
    BY <1>2, <2>3 DEF AnswersInOrder, EngineOf, DiskOps
  <2> QED BY <2>4, <2>5, <2>6 DEF OrderInv
<1> QED BY <1>2, <1>4, <1>5, <1>6 DEF Engines

\* The worker of the disk engine has done one more job.
LEMMA DiskWorkOrder ==
  ASSUME ShapeInv, OrderInv, DiskWork
  PROVE  OrderInv'
<1> USE DEF callers
<1>1. /\ TypeOK /\ JobShape /\ DroppedIdle
      /\ SentInOrder /\ FileIsNewest /\ AnsweredInTime /\ AnswersInOrder
  BY DEF ShapeInv, OrderInv
<1>2. worker["disk"] # NoJob /\ "disk" \in Engines
  BY DiskDoes
<1>3. PICK ok \in BOOLEAN, seen \in Stamps \cup {Absent}, contents \in Stamps \cup {Absent} :
        /\ DiskDone(ok, seen, contents)
        /\ ~At("disk", {"write_file"}) => contents = file
        /\ At("disk", {"write_file"}) => \/ contents \in {file, worker["disk"].upto}
                                         \/ file = Absent /\ contents = 0
        /\ ok /\ At("disk", {"read_file", "sync_file"}) => file # Absent /\ seen = file
  BY DiskDoes
<1>4. PICK j \in Jobs : j = worker["disk"]
  BY <1>1, <1>2 DEF TypeOK
<1>5. /\ file' = contents
      /\ skipped' = IF j.op = "write_file" /\ contents # j.upto THEN skipped \cup {j.upto}
                    ELSE skipped
      /\ worker' = [worker EXCEPT !["disk"] = NoJob]
      /\ answer' = IF j.live
                   THEN [answer EXCEPT ![j.by] = [ok |-> ok, seen |-> seen, handle |-> NoHandle]]
                   ELSE answer
      /\ UNCHANGED <<uses, chan, state, callers, sent>>
  BY <1>3, <1>4 DEF DiskDone, Callback, At
<1>6. /\ j.op # "write_file" => contents = file
      /\ j.op = "write_file" => contents \in {file, j.upto} \/ (file = Absent /\ contents = 0)
      /\ ok /\ j.op \in {"read_file", "sync_file"} => file # Absent /\ seen = file
  BY <1>3, <1>4 DEF At
<1>7. Spot("disk", 0) /\ DiskJob(0) = j /\ (j.live => call[j.by] = j /\ j.by \in Callers)
  BY <1>1, <1>2, <1>4, WorkerSpot DEF DiskJob, JobShape, Jobs
<1>8. \A i \in Nat : /\ Spot("disk", i)' <=> Spot("disk", i) /\ i # 0
                     /\ Spot("disk", i)' => DiskJob(i)' = DiskJob(i)
  BY <1>1, <1>2, <1>5, Leaves DEF DiskJob
<1>9. /\ Processed = j.upto - Writes(j) /\ Processed \in Nat /\ j.upto \in Nat
      /\ Writes(j) = IF j.op = "write_file" THEN 1 ELSE 0
  BY <1>1, <1>7 DEF Processed, Writes, SentInOrder, Jobs, Stamps
<1>10. Processed' = j.upto
  <2>1. ~Spot("disk", 0)'
    BY <1>8
  <2>2. 0 + 1 = 1 /\ 0 \in Nat /\ 1 \in Nat
    OBVIOUS
  <2>3. CASE Spot("disk", 1)
    <3>1. DiskJob(1).upto = j.upto + Writes(DiskJob(1)) /\ Writes(DiskJob(1)) \in {0, 1}
      BY <1>1, <1>7, <2>2, <2>3 DEF SentInOrder, Writes
    <3>2. Spot("disk", 1)' /\ DiskJob(1)' = DiskJob(1)
      BY <1>8, <2>3
    <3>3. Processed' = DiskJob(1).upto - Writes(DiskJob(1))
      BY <2>1, <3>2 DEF Processed, Writes
    <3> QED BY <1>9, <3>1, <3>3
  <2>4. CASE ~Spot("disk", 1)
    <3>1. j.upto = sent
      BY <1>1, <1>7, <2>2, <2>4 DEF SentInOrder
    <3> QED BY <1>5, <1>8, <2>1, <2>4, <3>1 DEF Processed
  <2> QED BY <2>3, <2>4
<1>11. SentInOrder'
  <2>1. ASSUME NEW i \in Nat, Spot("disk", i)'
        PROVE  /\ Spot("disk", i + 1)' =>
                    DiskJob(i + 1)'.upto = DiskJob(i)'.upto + Writes(DiskJob(i + 1))'
               /\ ~Spot("disk", i + 1)' => DiskJob(i)'.upto = sent
    <3>1. PICK k \in Nat : k = i + 1 /\ k # 0
      OBVIOUS
    <3>2. /\ Spot("disk", i) /\ DiskJob(i)' = DiskJob(i)
          /\ Spot("disk", k)' <=> Spot("disk", k)
          /\ Spot("disk", k)' => DiskJob(k)' = DiskJob(k)
      BY <1>8, <2>1, <3>1
    <3>3. /\ Spot("disk", k)' => DiskJob(k)'.upto = DiskJob(i)'.upto + Writes(DiskJob(k))'
          /\ ~Spot("disk", k)' => DiskJob(i)'.upto = sent
      BY <1>1, <3>1, <3>2 DEF SentInOrder, Writes
    <3> QED BY <3>1, <3>3
  <2> QED BY <1>5, <1>9, <1>10, <2>1 DEF SentInOrder
<1>12. state["disk"] # "down" /\ FileIsNewest
  BY <1>1, <1>2 DEF DroppedIdle
<1>13. FileIsNewest'
  <2>1. CASE j.op # "write_file"
    BY <1>5, <1>6, <1>9, <1>10, <1>12, <2>1 DEF FileIsNewest
  <2>2. CASE j.op = "write_file"
    <3>1. j.upto = Processed + 1
      BY <1>9, <2>2
    <3>2. CASE contents = j.upto
      BY <1>5, <1>9, <1>10, <1>12, <2>2, <3>1, <3>2 DEF FileIsNewest, Absent
    <3>3. CASE contents # j.upto
      <4>1. skipped' = skipped \cup {j.upto}
        BY <1>5, <2>2, <3>3
      <4>2. contents = file \/ (file = Absent /\ contents = 0)
        BY <1>6, <2>2, <3>3
      <4> QED BY <1>5, <1>9, <1>10, <1>12, <3>1, <4>1, <4>2 DEF FileIsNewest, Absent
    <3> QED BY <3>2, <3>3
  <2> QED BY <2>1, <2>2
<1>14. \A c \in Callers : answer'[c] # NoAnswer =>
         \/ answer'[c] = answer[c]
         \/ /\ c = j.by /\ j.live /\ call[c] = j
            /\ answer'[c] = [ok |-> ok, seen |-> seen, handle |-> NoHandle]
  BY <1>1, <1>5, <1>7 DEF TypeOK
<1>15. AnsweredInTime'
  <2>1. Processed <= j.upto /\ \A c \in Callers : call[c] \in Jobs => call[c].upto \in Nat
    BY <1>9 DEF Jobs, Stamps
  <2>2. ASSUME NEW c \in Callers, answer'[c] # NoAnswer, EngineOf(call[c].op) = "disk"
        PROVE  call[c].upto <= j.upto
    <3>1. CASE answer'[c] = answer[c]
      <4>1. call[c].upto <= Processed /\ call[c] \in Jobs
        BY <1>1, <2>2, <3>1 DEF AnsweredInTime, ShapeInv, CallShape, Fits, TypeOK
      <4> QED BY <1>9, <2>1, <4>1
    <3>2. CASE call[c] = j
      BY <1>9, <3>2
    <3> QED BY <1>14, <2>2, <3>1, <3>2
  <2> QED BY <1>5, <1>10, <2>2 DEF AnsweredInTime
<1>16. AnswersInOrder'
  <2> SUFFICES ASSUME NEW c \in Callers, answer'[c] # NoAnswer, answer'[c].ok,
                      call[c].op \in {"read_file", "sync_file"}
               PROVE  /\ answer'[c].seen \in (0..call[c].upto) \ skipped'
                      /\ \A n \in (0..call[c].upto) \ skipped' : n <= answer'[c].seen
    BY <1>5 DEF AnswersInOrder
  <2>1. CASE answer'[c] = answer[c]
    <3>1. /\ answer[c].seen \in (0..call[c].upto) \ skipped
          /\ \A n \in (0..call[c].upto) \ skipped : n <= answer[c].seen
          /\ call[c].upto <= Processed
      BY <1>1, <2>1 DEF AnswersInOrder, AnsweredInTime, EngineOf, DiskOps
    <3>2. call[c].upto \in Nat
      BY <1>1, <2>1 DEF ShapeInv, CallShape, Fits, TypeOK, Jobs, Stamps
    <3>3. \A n \in 0..call[c].upto : n \in skipped' <=> n \in skipped
      BY <1>5, <1>9, <3>1, <3>2
    <3> QED BY <2>1, <3>1, <3>3
  <2>2. CASE call[c] = j /\ answer'[c] = [ok |-> ok, seen |-> seen, handle |-> NoHandle]
    <3>1. ok /\ seen = file /\ file # Absent /\ j.op # "write_file"
      BY <1>6, <2>2
    <3>2. Processed = j.upto /\ skipped' = skipped
      BY <1>5, <1>9, <3>1
    <3> QED BY <1>12, <2>2, <3>1, <3>2 DEF FileIsNewest
  <2> QED BY <1>14, <2>1, <2>2
<1> QED BY <1>11, <1>13, <1>15, <1>16 DEF OrderInv

\* Callers that begin, listen, take an answer or give up, and the other engine.
LEMMA CallerOrder ==
  ASSUME ShapeInv, OrderInv, NEW c \in Callers,
         Listen(c) \/ (\E op \in uses[c] : \E h : Begin(c, op, h)) \/ Receive(c) \/ Abandon(c)
  PROVE  OrderInv'
<1> USE DEF callers, history
<1>1. TypeOK /\ CallShape /\ JobShape
  BY DEF ShapeInv
<1>2. UNCHANGED <<state, sent, file, skipped>>
  BY DEF Listen, Begin, Receive, Abandon
<1>3. \A b \in Callers : answer'[b] # NoAnswer => answer'[b] = answer[b] /\ call'[b] = call[b]
  BY <1>1 DEF Listen, Begin, Receive, Abandon, TypeOK
<1>4. CASE Abandon(c)
  <2>1. \A e \in Engines : \A i \in Nat :
          /\ Spot(e, i)' <=> Spot(e, i)
          /\ Spot(e, i) => JobAt(e, i)' = Dead(c, JobAt(e, i))
    BY <1>1, <1>4, GoDead DEF Abandon
  <2>2. \A j \in Jobs : Dead(c, j).upto = j.upto /\ Dead(c, j).op = j.op
    BY DEF Dead, Jobs
  <2>3. \A i \in Nat : /\ Spot("disk", i)' <=> Spot("disk", i)
                       /\ Spot("disk", i) => /\ DiskJob(i)'.upto = DiskJob(i).upto
                                             /\ Writes(DiskJob(i))' = Writes(DiskJob(i))
    BY <1>1, <2>1, <2>2 DEF Engines, DiskJob, Writes, JobShape, Fits
  <2> QED BY <1>2, <1>3, <2>3, OrderStill
<1>5. CASE UNCHANGED <<chan, worker>>
  <2>1. \A i \in Nat : (Spot("disk", i)' <=> Spot("disk", i)) /\ DiskJob(i)' = DiskJob(i)
    BY <1>5 DEF Spot, DiskJob, JobAt
  <2> QED BY <1>2, <1>3, <2>1, OrderStill DEF Writes
<1> QED BY <1>4, <1>5 DEF Listen, Begin, Receive

LEMMA NetWorkOrder ==
  ASSUME ShapeInv, OrderInv, NetWork
  PROVE  OrderInv'
<1> USE DEF callers
<1>1. TypeOK /\ JobShape
  BY DEF ShapeInv
<1>2. worker["net"] # NoJob /\ "net" \in Engines
  BY NetDoes
<1>3. PICK ok \in BOOLEAN, h \in Handles \cup {NoHandle} : NetDone(ok, h)
  BY NetDoes
<1>4. /\ Callback("net", ok, Absent, h)
      /\ UNCHANGED <<uses, chan, state, callers, file, hold, sent, skipped, tainted, misused, dropped>>
  BY <1>3 DEF NetDone
<1>5. \A i \in Nat : /\ Spot("disk", i)' <=> Spot("disk", i)
                     /\ Spot("disk", i) => DiskJob(i)' = DiskJob(i)
  BY <1>1, <1>4, Leaves DEF Engines, DiskJob, Callback
<1>6. PICK j \in Jobs : j = worker["net"]
  BY <1>1, <1>2 DEF TypeOK
<1>7. EngineOf(j.op) = "net" /\ j.by \in Callers /\ (j.live => call[j.by] = j)
  BY <1>1, <1>2, <1>6, WorkerSpot DEF JobShape, Jobs
<1>8. \A c \in Callers : answer'[c] # NoAnswer /\ EngineOf(call[c].op) = "disk" =>
        answer'[c] = answer[c]
  BY <1>1, <1>4, <1>6, <1>7 DEF Callback, TypeOK
<1> QED BY <1>4, <1>5, <1>8, OrderStill DEF Writes

LEMMA InitOrder == Init => OrderInv
<1> SUFFICES ASSUME Init PROVE OrderInv
  OBVIOUS
<1>1. \A i \in Nat : ~Spot("disk", i)
  <2>1. Len(<<>>) = 0
    OBVIOUS
  <2> QED BY <2>1 DEF Init, Spot, Engines
<1>2. Processed = 0
  BY <1>1 DEF Init, Processed
<1>3. SentInOrder
  BY <1>1, <1>2 DEF SentInOrder
<1>4. FileIsNewest /\ AnsweredInTime /\ AnswersInOrder
  BY <1>2 DEF Init, FileIsNewest, AnsweredInTime, AnswersInOrder, Absent
<1> QED BY <1>3, <1>4 DEF OrderInv

LEMMA StepOrder == ShapeInv /\ OrderInv /\ [Next]_vars => OrderInv'
<1> SUFFICES ASSUME ShapeInv, OrderInv, [Next]_vars PROVE OrderInv'
  OBVIOUS
<1>1. ASSUME UNCHANGED vars PROVE OrderInv'
  <2>1. /\ \A i \in Nat : (Spot("disk", i)' <=> Spot("disk", i)) /\ DiskJob(i)' = DiskJob(i)
        /\ UNCHANGED <<sent, file, skipped, state, answer, call>>
    BY <1>1 DEF vars, callers, history, Spot, DiskJob, JobAt
  <2> QED BY <2>1, OrderStill DEF Writes
<1> QED BY <1>1, CallerOrder, SendOrder, RecvOrder, DropOrder, DiskWorkOrder, NetWorkOrder DEF Next

-----------------------------------------------------------------------------
(* The third layer holds.                                                   *)

LEMMA HandleParts ==
  ASSUME NEW h \in Handles
  PROVE  h[1] \in Fds /\ h[2] \in Sockets /\ h = <<h[1], h[2]>> /\ h[2] # NoSocket /\ h[2] \in Nat
BY FallbackAssumption DEF Handles, Fds, Sockets, NoSocket

\* Who has a call knows the handle of it.
LEMMA CallHandles ==
  ASSUME ShapeInv, KnownMade, HandlesApart, NEW c \in Callers, pc[c] # "idle",
         call[c].handle # NoHandle
  PROVE  call[c].handle \in hold[c] /\ call[c].handle \in Handles /\ call[c].handle[2] <= made
BY DEF ShapeInv, CallShape, Fits, Jobs, HandlesApart, KnownMade

\* The application listens: a new handle in its own hands.
LEMMA ListenSockets ==
  ASSUME ShapeInv, SocketInv, NEW c \in Callers, Listen(c)
  PROVE  SocketInv'
<1> USE DEF callers, history
<1>1. /\ TypeOK /\ CallShape /\ JobShape
      /\ KnownMade /\ HandlesApart /\ ClosedIsGone /\ SocketsKept /\ NoLeak
  BY DEF ShapeInv, SocketInv
<1>2. PICK new \in Handles : new = NewHandle
  BY <1>1, NewSocket DEF Listen
<1>3. /\ new[1] \in Fds /\ table[new[1]] = NoSocket /\ new[2] = made + 1 /\ made' = made + 1
      /\ table' = [table EXCEPT ![new[1]] = new[2]]
      /\ hold' = [hold EXCEPT ![c] = @ \cup {new}]
      /\ UNCHANGED <<uses, chan, worker, state, callers, answer, file, sent, history>>
  BY <1>1, <1>2, NewSocket DEF Listen, OpenSocket, NewHandle
<1>4. made \in Nat /\ NoSocket = 0
  BY <1>1 DEF TypeOK, NoSocket
<1>5. \A g \in Handles : g[2] <= made => (Reaches(g)' <=> Reaches(g))
  BY <1>1, <1>3, <1>4, HandleParts DEF Reaches, TypeOK
<1>6. /\ hold'[c] = hold[c] \cup {new} /\ \A b \in Callers \ {c} : hold'[b] = hold[b]
      /\ \A b \in Callers : hold[b] \subseteq Handles
      /\ Reaches(new)' /\ new \notin tainted /\ new # NoHandle
      /\ \A b \in Callers : new \notin hold[b]
                            /\ (answer[b] # NoAnswer => answer[b].handle # new)
  <2>1. new \notin tainted /\ \A b \in Callers : new \notin hold[b]
                              /\ (answer[b] # NoAnswer => answer[b].handle # new)
    BY <1>1, <1>3, <1>4 DEF KnownMade
  <2> QED BY <1>1, <1>3, <2>1, Nothings DEF TypeOK, Reaches
<1>7. KnownMade'
  <2>1. \A d \in Fds : table'[d] <= made'
    BY <1>1, <1>3, <1>4 DEF KnownMade, TypeOK, Sockets
  <2>2. \A h \in Handles : h[2] <= made => h[2] <= made'
    BY <1>3, <1>4, HandleParts
  <2>3. /\ \A h \in tainted' : h[2] <= made'
        /\ \A b \in Callers : \A h \in hold'[b] : h[2] <= made'
    BY <1>1, <1>3, <1>4, <1>6, <2>2 DEF KnownMade, TypeOK
  <2>4. \A b \in Callers : answer[b] # NoAnswer => answer[b].handle[2] <= made'
    <3>1. \A b \in Callers : answer[b] # NoAnswer =>
            answer[b].handle \in Handles \/ answer[b].handle[2] = 0
      BY <1>1 DEF TypeOK, Answers, NoHandle, NoSocket
    <3> QED BY <1>1, <1>3, <1>4, <2>2, <3>1 DEF KnownMade
  <2> QED BY <1>3, <2>1, <2>3, <2>4 DEF KnownMade
<1>8. HandlesApart'
  BY <1>1, <1>3, <1>6 DEF HandlesApart
<1>9. ClosedIsGone'
  <2>1. ASSUME NEW b \in Callers, answer[b] # NoAnswer, answer[b].ok, call[b].op = "close"
        PROVE  ~(table'[call[b].handle[1]] = call[b].handle[2])
    <3>1. pc[b] # "idle" /\ call[b].handle # NoHandle
      BY <1>1, <2>1 DEF TypeOK, CallShape, Fits, OnSocket
    <3>2. call[b].handle \in Handles /\ call[b].handle[2] <= made
      BY <1>1, <3>1, CallHandles
    <3> QED BY <1>1, <1>5, <2>1, <3>2 DEF ClosedIsGone, Reaches
  <2> QED BY <1>3, <2>1 DEF ClosedIsGone, Reaches
<1>10. SocketsKept'
  <2> SUFFICES ASSUME ~misused PROVE CallsClean' /\ HeldReach' /\ NewReach' /\ JobsReach'
    BY <1>3 DEF SocketsKept
  <2>1. CallsClean /\ HeldReach /\ NewReach /\ JobsReach
    BY <1>1 DEF SocketsKept
  <2>2. CallsClean'
    BY <1>3, <2>1 DEF CallsClean
  <2>3. HeldReach'
    <3> SUFFICES ASSUME NEW b \in Callers, NEW g \in hold'[b] \ tainted
                 PROVE  Reaches(g)' \/ Lost(b, g)'
      BY <1>3 DEF HeldReach
    <3>1. CASE g = new
      BY <1>6, <3>1
    <3>2. CASE g # new
      <4>1. g \in hold[b] /\ g \in Handles /\ g[2] <= made
        BY <1>1, <1>6, <3>2 DEF KnownMade
      <4>2. Lost(b, g)' <=> Lost(b, g)
        BY <1>3 DEF Lost
      <4> QED BY <1>5, <2>1, <4>1, <4>2 DEF HeldReach
    <3> QED BY <3>1, <3>2
  <2>4. NewReach'
    <3>1. ASSUME NEW b \in Callers, answer[b] # NoAnswer, answer[b].handle # NoHandle
          PROVE  table'[answer[b].handle[1]] = answer[b].handle[2]
      <4>1. answer[b].handle \in Handles /\ answer[b].handle[2] <= made
        BY <1>1, <3>1 DEF KnownMade, TypeOK, Answers
      <4> QED BY <1>5, <2>1, <3>1, <4>1 DEF NewReach, Reaches
    <3> QED BY <1>3, <3>1 DEF NewReach, Reaches
  <2>5. JobsReach'
    <3>1. \A e \in Engines : \A i \in Nat : (Spot(e, i)' <=> Spot(e, i)) /\ JobAt(e, i)' = JobAt(e, i)
      BY <1>3 DEF Spot, JobAt
    <3> SUFFICES ASSUME NEW e \in Engines, NEW i \in Nat, Spot(e, i), JobAt(e, i).handle # NoHandle
                 PROVE  /\ table'[JobAt(e, i).handle[1]] = JobAt(e, i).handle[2]
                        /\ JobAt(e, i).handle \in hold'[JobAt(e, i).by]
                        /\ ~JobAt(e, i).live => JobAt(e, i).handle \in tainted
                        /\ \A f \in Engines : \A k \in Nat :
                             Spot(f, k) /\ JobAt(f, k).handle = JobAt(e, i).handle => f = e /\ k = i
      BY <1>3, <3>1 DEF JobsReach, Reaches
    <3>2. JobAt(e, i).by \in Callers /\ JobAt(e, i).handle \in Handles
      BY <1>1 DEF JobShape, Fits, Jobs
    <3>3. JobAt(e, i).handle \in hold[JobAt(e, i).by] /\ JobAt(e, i).handle[2] <= made
      BY <1>1, <2>1, <3>2 DEF JobsReach, KnownMade
    <3> QED BY <1>5, <1>6, <2>1, <3>2, <3>3 DEF JobsReach, Reaches
  <2> QED BY <2>2, <2>3, <2>4, <2>5
<1>11. NoLeak'
  <2> SUFFICES ASSUME NEW d \in Fds, table'[d] # NoSocket
               PROVE  \/ \E b \in Callers : <<d, table'[d]>> \in hold'[b]
                      \/ \E b \in Callers : answer'[b] # NoAnswer
                                            /\ answer'[b].handle = <<d, table'[d]>>
                      \/ table'[d] \in orphans'
    BY DEF NoLeak
  <2>1. CASE d = new[1]
    <3>1. <<d, table'[d]>> = new
      BY <1>1, <1>3, <2>1, HandleParts DEF TypeOK
    <3> QED BY <1>6, <3>1
  <2>2. CASE d # new[1]
    BY <1>1, <1>3, <1>6, <2>2 DEF TypeOK, NoLeak
  <2> QED BY <2>1, <2>2
<1> QED BY <1>7, <1>8, <1>9, <1>10, <1>11 DEF SocketInv

\* Jobs move on, each to one place, or are dropped, and nothing else changes.
LEMMA MoveSockets ==
  ASSUME SocketInv, UNCHANGED <<pc, call, answer, table, made, hold, tainted, misused, orphans>>,
         NEW from \in [Engines -> [Nat -> Nat]],
         \A e \in Engines : \A i \in Nat : Spot(e, i)' =>
           Spot(e, from[e][i]) /\ JobAt(e, i)' = JobAt(e, from[e][i]),
         \A e \in Engines : \A i, k \in Nat : from[e][i] = from[e][k] => i = k
  PROVE  SocketInv'
<1>1. KnownMade /\ HandlesApart /\ ClosedIsGone /\ SocketsKept /\ NoLeak
  BY DEF SocketInv
<1>2. KnownMade' /\ HandlesApart' /\ ClosedIsGone' /\ NoLeak'
  BY <1>1 DEF KnownMade, HandlesApart, ClosedIsGone, NoLeak, Reaches
<1>3. SocketsKept'
  <2> SUFFICES ASSUME ~misused PROVE CallsClean' /\ HeldReach' /\ NewReach' /\ JobsReach'
    BY DEF SocketsKept
  <2>1. CallsClean /\ HeldReach /\ NewReach /\ JobsReach
    BY <1>1 DEF SocketsKept
  <2>2. CallsClean' /\ HeldReach' /\ NewReach'
    BY <2>1 DEF CallsClean, HeldReach, NewReach, Reaches, Lost
  <2>3. JobsReach'
    <3> SUFFICES ASSUME NEW e \in Engines, NEW i \in Nat, Spot(e, i)',
                        JobAt(e, i)'.handle # NoHandle
                 PROVE  /\ table[JobAt(e, i)'.handle[1]] = JobAt(e, i)'.handle[2]
                        /\ JobAt(e, i)'.handle \in hold[JobAt(e, i)'.by]
                        /\ ~JobAt(e, i)'.live => JobAt(e, i)'.handle \in tainted
                        /\ \A f \in Engines : \A k \in Nat :
                             Spot(f, k)' /\ JobAt(f, k)'.handle = JobAt(e, i)'.handle =>
                               f = e /\ k = i
      BY DEF JobsReach, Reaches
    <3>1. PICK n \in Nat : n = from[e][i]
      OBVIOUS
    <3>2. Spot(e, n) /\ JobAt(e, i)' = JobAt(e, n)
      BY <3>1
    <3>3. ASSUME NEW f \in Engines, NEW k \in Nat, Spot(f, k)',
                 JobAt(f, k)'.handle = JobAt(e, i)'.handle
          PROVE  f = e /\ k = i
      <4>1. PICK l \in Nat : l = from[f][k]
        OBVIOUS
      <4>2. Spot(f, l) /\ JobAt(f, k)' = JobAt(f, l)
        BY <3>3, <4>1
      <4>3. f = e /\ l = n
        BY <2>1, <3>2, <3>3, <4>2 DEF JobsReach
      <4> QED BY <3>1, <4>1, <4>3
    <3> QED BY <2>1, <3>2, <3>3 DEF JobsReach, Reaches
  <2> QED BY <2>2, <2>3
<1> QED BY <1>2, <1>3 DEF SocketInv

LEMMA RecvSockets ==
  ASSUME ShapeInv, SocketInv, NEW E \in Engines, Recv(E)
  PROVE  SocketInv'
<1>1. PICK from : from = [e \in Engines |-> [i \in Nat |-> IF e = E THEN i + 1 ELSE i]]
  OBVIOUS
<1>2. from \in [Engines -> [Nat -> Nat]]
  BY <1>1
<1>3. \A e \in Engines : \A i \in Nat : from[e][i] = IF e = E THEN i + 1 ELSE i
  BY <1>1
<1>4. \A e \in Engines : \A i, k \in Nat : from[e][i] = from[e][k] => i = k
  BY <1>3
<1>5. TypeOK
  BY DEF ShapeInv
<1>6. \A e \in Engines : \A i \in Nat : Spot(e, i)' =>
        Spot(e, from[e][i]) /\ JobAt(e, i)' = JobAt(e, from[e][i])
  <2> SUFFICES ASSUME NEW e \in Engines, NEW i \in Nat, Spot(e, i)'
               PROVE  \E k \in Nat : k = from[e][i] /\ Spot(e, k) /\ JobAt(e, i)' = JobAt(e, k)
    BY Zenon
  <2>1. CASE e = E
    <3>1. PICK k \in Nat : k = i + 1
      OBVIOUS
    <3> QED BY <1>3, <1>5, <2>1, <3>1, Advances
  <2>2. CASE e # E
    BY <1>3, <1>5, <2>2, Advances
  <2> QED BY <2>1, <2>2
<1>7. UNCHANGED <<pc, call, answer, table, made, hold, tainted, misused, orphans>>
  BY DEF Recv, callers, sockets, history
<1> QED BY <1>2, <1>4, <1>6, <1>7, MoveSockets

\* Nothing of it depends on the state of an engine.
LEMMA StaySockets ==
  ASSUME SocketInv, UNCHANGED <<pc, call, answer, table, made, hold, tainted, misused, orphans>>,
         \A e \in Engines : \A i \in Nat : Spot(e, i)' => Spot(e, i) /\ JobAt(e, i)' = JobAt(e, i)
  PROVE  SocketInv'
<1>1. PICK from : from = [e \in Engines |-> [i \in Nat |-> i]]
  OBVIOUS
<1>2. from \in [Engines -> [Nat -> Nat]] /\ \A e \in Engines : \A i \in Nat : from[e][i] = i
  BY <1>1
<1>3. \A e \in Engines : \A i \in Nat : Spot(e, i)' =>
        Spot(e, from[e][i]) /\ JobAt(e, i)' = JobAt(e, from[e][i])
  <2> SUFFICES ASSUME NEW e \in Engines, NEW i \in Nat, Spot(e, i)'
               PROVE  \E k \in Nat : k = from[e][i] /\ Spot(e, k) /\ JobAt(e, i)' = JobAt(e, k)
    BY Zenon
  <2> QED BY <1>2
<1>4. \A e \in Engines : \A i, k \in Nat : from[e][i] = from[e][k] => i = k
  BY <1>2
<1> QED BY <1>2, <1>3, <1>4, MoveSockets

LEMMA DropSockets ==
  ASSUME ShapeInv, SocketInv, NEW E \in Engines, DropEngine(E) \/ Aborted(E)
  PROVE  SocketInv'
<1>1. TypeOK
  BY DEF ShapeInv
<1>2. UNCHANGED <<pc, call, answer, table, made, hold, tainted, misused, orphans, worker>>
  BY DEF DropEngine, Aborted, callers, sockets, history
<1>3. chan' = chan \/ chan' = [chan EXCEPT ![E] = <<>>]
  BY DEF DropEngine, Aborted
<1>4. \A e \in Engines : \A i \in Nat : Spot(e, i)' => Spot(e, i) /\ JobAt(e, i)' = JobAt(e, i)
  <2>1. CASE chan' = chan
    BY <1>2, <2>1 DEF Spot, JobAt
  <2>2. CASE chan' = [chan EXCEPT ![E] = <<>>]
    BY <1>1, <1>2, <2>2, Cleared
  <2> QED BY <1>3, <2>1, <2>2
<1> QED BY <1>2, <1>4, StaySockets

\* A caller begins a call, on a handle of its own.
LEMMA BeginSockets ==
  ASSUME ShapeInv, SocketInv, NEW c \in Callers, NEW op \in uses[c], NEW h,
         IF op \in OnSocket THEN h \in hold[c] ELSE h = NoHandle,
         Begin(c, op, h)
  PROVE  SocketInv'
<1> USE DEF callers, history
<1>1. /\ TypeOK /\ CallShape
      /\ KnownMade /\ HandlesApart /\ ClosedIsGone /\ SocketsKept /\ NoLeak
  BY DEF ShapeInv, SocketInv
<1>2. PICK j : j = [op |-> op, by |-> c, handle |-> h, upto |-> 0, live |-> TRUE]
  OBVIOUS
<1>3. /\ pc[c] = "idle" /\ pc' = [pc EXCEPT ![c] = "sending"] /\ call' = [call EXCEPT ![c] = j]
      /\ misused' = (misused \/ h \in tainted)
      /\ UNCHANGED <<chan, worker, answer, table, made, hold, tainted, orphans>>
  BY <1>2 DEF Begin, sockets
<1>4. /\ pc'[c] = "sending" /\ call'[c] = j /\ j.handle = h /\ answer[c] = NoAnswer
      /\ \A b \in Callers \ {c} : pc'[b] = pc[b] /\ call'[b] = call[b]
  BY <1>1, <1>2, <1>3 DEF TypeOK
<1>5. KnownMade' /\ NoLeak'
  BY <1>1, <1>3 DEF KnownMade, NoLeak
<1>6. h # NoHandle => h \in hold[c]
  OBVIOUS
<1>7. HandlesApart'
  BY <1>1, <1>3, <1>4, <1>6 DEF HandlesApart
<1>8. ClosedIsGone'
  BY <1>1, <1>3, <1>4 DEF ClosedIsGone, Reaches
<1>9. SocketsKept'
  <2> SUFFICES ASSUME ~misused, h \notin tainted
               PROVE  CallsClean' /\ HeldReach' /\ NewReach' /\ JobsReach'
    BY <1>3 DEF SocketsKept
  <2>1. CallsClean /\ HeldReach /\ NewReach /\ JobsReach
    BY <1>1 DEF SocketsKept
  <2>2. CallsClean'
    BY <1>3, <1>4, <2>1 DEF CallsClean
  <2>3. HeldReach'
    BY <1>3, <1>4, <2>1 DEF HeldReach, Lost, Reaches
  <2>4. NewReach' /\ JobsReach'
    BY <1>3, <2>1 DEF NewReach, JobsReach, Reaches, Spot, JobAt
  <2> QED BY <2>2, <2>3, <2>4
<1> QED BY <1>5, <1>7, <1>8, <1>9 DEF SocketInv

\* The job names a socket that no other job does: its caller has no other job
\* it did not give up, and with that it gave up the handle.
LEMMA SendSockets ==
  ASSUME ShapeInv, SocketInv, NEW c \in Callers, Send(c)
  PROVE  SocketInv'
<1> USE DEF callers, history
<1>1. /\ TypeOK /\ CallShape /\ JobShape
      /\ KnownMade /\ HandlesApart /\ ClosedIsGone /\ SocketsKept /\ NoLeak
  BY DEF ShapeInv, SocketInv
<1>2. PICK E \in Engines : E = EngineOf(call[c].op)
  BY DEF Engines, EngineOf
<1>3. pc[c] = "sending" /\ Fits(call[c]) /\ call[c].by = c /\ call[c].live
  BY <1>1 DEF Send, CallShape
<1>4. PICK n : n = IF call[c].op = "write_file" THEN sent + 1 ELSE sent
  OBVIOUS
<1>5. PICK j : j = [call[c] EXCEPT !.upto = IF E = "disk" THEN n ELSE 0]
  OBVIOUS
<1>6. /\ chan' = [chan EXCEPT ![E] = Append(@, j)] /\ call' = [call EXCEPT ![c] = j]
      /\ pc' = [pc EXCEPT ![c] = "waiting"]
      /\ UNCHANGED <<worker, answer, table, made, hold, tainted, misused, orphans>>
  BY <1>2, <1>4, <1>5 DEF Send, sockets
<1>7. j.handle = call[c].handle /\ j.op = call[c].op /\ j.by = c /\ j.live
  BY <1>3, <1>5 DEF Fits, Jobs
<1>8. /\ pc'[c] = "waiting" /\ call'[c] = j /\ answer[c] = NoAnswer
      /\ \A b \in Callers \ {c} : pc'[b] = pc[b] /\ call'[b] = call[b]
  BY <1>1, <1>3, <1>6 DEF TypeOK
<1>9. KnownMade' /\ NoLeak'
  BY <1>1, <1>6 DEF KnownMade, NoLeak
<1>10. HandlesApart'
  BY <1>1, <1>3, <1>6, <1>7, <1>8 DEF HandlesApart
<1>11. ClosedIsGone'
  BY <1>1, <1>6, <1>8 DEF ClosedIsGone, Reaches
<1>12. PICK m \in Nat : m = Len(chan[E]) + 1
  BY <1>1, ChannelTypes
<1>13. j \in Jobs
  <2>1. ShapeInv'
    BY SendShape
  <2>2. call'[c] \in Jobs
    BY <1>8, <2>1 DEF ShapeInv, CallShape, Fits
  <2> QED BY <1>8, <2>2
<1>14. /\ \A e \in Engines : \A i \in Nat :
            /\ Spot(e, i)' <=> Spot(e, i) \/ (e = E /\ i = m)
            /\ Spot(e, i) => JobAt(e, i)' = JobAt(e, i)
       /\ ~Spot(E, m) /\ JobAt(E, m)' = j
  <2>1. chan' = [chan EXCEPT ![E] = Append(@, j)] /\ UNCHANGED worker /\ TypeOK
    BY <1>1, <1>6
  <2>2. \A e \in Engines : \A i \in Nat :
          /\ Spot(e, i)' <=> Spot(e, i) \/ (e = E /\ i = m)
          /\ Spot(e, i) => JobAt(e, i)' = JobAt(e, i)
    BY <1>12, <1>13, <2>1, Enters
  <2>3. JobAt(E, m)' = j
    BY <1>12, <1>13, <2>1, Enters
  <2>4. ~Spot(E, m)
    BY <1>1, <1>12, ChannelTypes DEF Spot
  <2> QED BY <2>2, <2>3, <2>4
<1>15. SocketsKept'
  <2> SUFFICES ASSUME ~misused PROVE CallsClean' /\ HeldReach' /\ NewReach' /\ JobsReach'
    BY <1>6 DEF SocketsKept
  <2>1. CallsClean /\ HeldReach /\ NewReach /\ JobsReach
    BY <1>1 DEF SocketsKept
  <2>2. CallsClean'
    BY <1>3, <1>6, <1>7, <1>8, <2>1 DEF CallsClean
  <2>3. HeldReach' /\ NewReach'
    BY <1>6, <1>8, <2>1 DEF HeldReach, NewReach, Lost, Reaches
  <2>4. j.handle # NoHandle =>
          Reaches(j.handle) /\ j.handle \in hold[c] /\ j.handle \notin tainted
    BY <1>1, <1>3, <1>7, <1>8, <2>1 DEF CallsClean, HeldReach, HandlesApart, Lost
  <2>5. ASSUME NEW f \in Engines, NEW k \in Nat, Spot(f, k), j.handle # NoHandle
        PROVE  JobAt(f, k).handle # j.handle
    <3> SUFFICES ASSUME JobAt(f, k).handle = j.handle PROVE FALSE
      OBVIOUS
    <3>1. JobAt(f, k).by \in Callers /\ (JobAt(f, k).live => pc[JobAt(f, k).by] = "waiting")
      BY <1>1, <2>5 DEF JobShape, Fits, Jobs
    <3>2. /\ JobAt(f, k).handle \in hold[JobAt(f, k).by]
          /\ ~JobAt(f, k).live => JobAt(f, k).handle \in tainted
      BY <2>1, <2>5 DEF JobsReach
    <3>3. JobAt(f, k).by = c
      BY <1>1, <2>4, <2>5, <3>1, <3>2 DEF HandlesApart
    <3> QED BY <1>3, <2>4, <2>5, <3>1, <3>2, <3>3
  <2>6. JobsReach'
    <3> SUFFICES ASSUME NEW e \in Engines, NEW i \in Nat, Spot(e, i)',
                        JobAt(e, i)'.handle # NoHandle
                 PROVE  /\ table[JobAt(e, i)'.handle[1]] = JobAt(e, i)'.handle[2]
                        /\ JobAt(e, i)'.handle \in hold[JobAt(e, i)'.by]
                        /\ ~JobAt(e, i)'.live => JobAt(e, i)'.handle \in tainted
                        /\ \A f \in Engines : \A k \in Nat :
                             Spot(f, k)' /\ JobAt(f, k)'.handle = JobAt(e, i)'.handle =>
                               f = e /\ k = i
      BY <1>6 DEF JobsReach, Reaches
    <3>1. CASE e = E /\ i = m
      <4>1. JobAt(e, i)' = j
        BY <1>14, <3>1
      <4> QED BY <1>7, <1>14, <2>4, <2>5, <3>1, <4>1 DEF Reaches
    <3>2. CASE ~(e = E /\ i = m)
      <4>1. Spot(e, i) /\ JobAt(e, i)' = JobAt(e, i)
        BY <1>14, <3>2
      <4> QED BY <1>14, <2>1, <2>5, <4>1 DEF JobsReach, Reaches
    <3> QED BY <3>1, <3>2
  <2> QED BY <2>2, <2>3, <2>6
<1> QED BY <1>9, <1>10, <1>11, <1>15 DEF SocketInv

\* The answer is taken: its socket is in the caller's hands, and the handle of
\* the call is lost or not, as the answer says.
LEMMA ReceiveSockets ==
  ASSUME ShapeInv, SocketInv, NEW c \in Callers, Receive(c)
  PROVE  SocketInv'
<1> USE DEF callers, history
<1>1. /\ TypeOK /\ CallShape /\ JobShape
      /\ KnownMade /\ HandlesApart /\ ClosedIsGone /\ SocketsKept /\ NoLeak
  BY DEF ShapeInv, SocketInv
<1>2. PICK a \in Answers : a = answer[c] /\ a # NoAnswer
  BY <1>1 DEF Receive, TypeOK
<1>3. pc[c] = "waiting" /\ Fits(call[c])
  BY <1>1 DEF Receive, CallShape
<1>4. PICK h \in Handles \cup {NoHandle} : h = call[c].handle
  BY <1>3 DEF Fits, Jobs
<1>5. PICK gone \in BOOLEAN : gone <=> call[c].op = "close" /\ a.ok
  OBVIOUS
<1>6. /\ hold' = [hold EXCEPT ![c] = (IF gone THEN @ \ {h} ELSE @) \cup ({a.handle} \ {NoHandle})]
      /\ pc' = [pc EXCEPT ![c] = "idle"] /\ call' = [call EXCEPT ![c] = NoJob]
      /\ answer' = [answer EXCEPT ![c] = NoAnswer]
      /\ UNCHANGED <<chan, worker, table, made, misused, orphans>>
  BY <1>2, <1>4, <1>5 DEF Receive, sockets
<1>7. /\ tainted' \subseteq tainted \cup ({h} \ {NoHandle})
      /\ \A g \in tainted : g \in tainted' \/ (g = h /\ gone)
      /\ (~a.ok \/ call[c].op = "accept") /\ h # NoHandle => h \in tainted'
  BY <1>2, <1>4, <1>5 DEF Receive
<1>8. /\ pc'[c] = "idle" /\ answer'[c] = NoAnswer
      /\ hold'[c] = (IF gone THEN hold[c] \ {h} ELSE hold[c]) \cup ({a.handle} \ {NoHandle})
      /\ \A b \in Callers \ {c} : /\ pc'[b] = pc[b] /\ call'[b] = call[b]
                                  /\ answer'[b] = answer[b] /\ hold'[b] = hold[b]
  BY <1>1, <1>6 DEF TypeOK
<1>9. NoHandle \notin tainted' /\ \A b \in Callers : hold[b] \subseteq Handles
  BY <1>1, <1>7, Nothings DEF TypeOK
<1>10. h # NoHandle => h \in hold[c] /\ h[2] <= made
  BY <1>1, <1>3, <1>4, CallHandles
<1>11. a.handle # NoHandle =>
         /\ a.handle \in Handles /\ a.handle[2] <= made /\ a.handle \notin tainted
         /\ \A b \in Callers : a.handle \notin hold[b]
         /\ \A b \in Callers \ {c} : answer[b] # NoAnswer => answer[b].handle # a.handle
  BY <1>1, <1>2 DEF HandlesApart, KnownMade, Answers
<1>12. gone => table[h[1]] # h[2]
  BY <1>1, <1>2, <1>4, <1>5 DEF ClosedIsGone, Reaches
<1>13. KnownMade'
  BY <1>1, <1>6, <1>7, <1>8, <1>10, <1>11 DEF KnownMade
<1>14. HandlesApart'
  <2> SUFFICES ASSUME NEW b \in Callers
      PROVE  /\ pc'[b] # "idle" /\ call'[b].handle # NoHandle => call'[b].handle \in hold'[b]
             /\ \A d \in Callers \ {b} : \A g \in hold'[b] : g \notin hold'[d]
             /\ answer'[b] # NoAnswer /\ answer'[b].handle # NoHandle =>
                  /\ answer'[b].handle \notin tainted'
                  /\ \A d \in Callers :
                       /\ answer'[b].handle \notin hold'[d]
                       /\ d # b /\ answer'[d] # NoAnswer => answer'[d].handle # answer'[b].handle
    BY DEF HandlesApart
  <2>1. pc'[b] # "idle" /\ call'[b].handle # NoHandle => call'[b].handle \in hold'[b]
    BY <1>1, <1>8 DEF HandlesApart
  <2>2. \A d \in Callers \ {b} : \A g \in hold'[b] : g \notin hold'[d]
    BY <1>1, <1>8, <1>11 DEF HandlesApart
  <2>3. ASSUME answer'[b] # NoAnswer, answer'[b].handle # NoHandle
        PROVE  /\ answer'[b].handle \notin tainted'
               /\ \A d \in Callers :
                    /\ answer'[b].handle \notin hold'[d]
                    /\ d # b /\ answer'[d] # NoAnswer => answer'[d].handle # answer'[b].handle
    <3>1. b # c /\ answer'[b] = answer[b]
      BY <1>8, <2>3
    <3> QED BY <1>1, <1>2, <1>7, <1>8, <1>10, <2>3, <3>1 DEF HandlesApart
  <2> QED BY <2>1, <2>2, <2>3
<1>15. ClosedIsGone'
  BY <1>1, <1>6, <1>8 DEF ClosedIsGone, Reaches
<1>16. SocketsKept'
  <2> SUFFICES ASSUME ~misused PROVE CallsClean' /\ HeldReach' /\ NewReach' /\ JobsReach'
    BY <1>6 DEF SocketsKept
  <2>1. CallsClean /\ HeldReach /\ NewReach /\ JobsReach
    BY <1>1 DEF SocketsKept
  <2>2. CallsClean'
    <3> SUFFICES ASSUME NEW b \in Callers \ {c}, pc[b] # "idle", call[b].handle \in tainted'
                 PROVE  FALSE
      BY <1>8 DEF CallsClean
    <3>1. call[b].handle \notin tainted /\ call[b].handle # NoHandle
      BY <1>9, <2>1 DEF CallsClean
    <3>2. call[b].handle = h /\ call[b].handle \in hold[b] /\ h \in hold[c]
      BY <1>1, <1>7, <1>10, <3>1 DEF HandlesApart
    <3> QED BY <1>1, <3>2 DEF HandlesApart
  <2>3. HeldReach'
    <3> SUFFICES ASSUME NEW b \in Callers, NEW g \in hold'[b] \ tainted'
                 PROVE  Reaches(g)' \/ Lost(b, g)'
      BY DEF HeldReach
    <3>1. CASE b # c
      <4>1. g \in hold[b] /\ g # h
        BY <1>1, <1>8, <1>9, <1>10, <3>1, Nothings DEF HandlesApart
      <4>2. g \notin tainted
        BY <1>7, <4>1
      <4> QED BY <1>6, <1>8, <2>1, <3>1, <4>1, <4>2 DEF HeldReach, Reaches, Lost
    <3>2. CASE b = c
      <4>1. CASE g = a.handle /\ g # NoHandle
        BY <1>2, <1>6, <2>1, <4>1 DEF NewReach, Reaches
      <4>2. CASE g # a.handle \/ g = NoHandle
        <5>1. g \in hold[c] /\ (gone => g # h) /\ g # NoHandle
          BY <1>8, <1>9, <3>2, <4>2, Nothings
        <5>2. g \notin tainted
          BY <1>7, <5>1
        <5>3. ~Lost(c, g)
          BY <1>2, <1>4, <1>5, <1>7, <5>1 DEF Lost
        <5> QED BY <1>6, <2>1, <5>1, <5>2, <5>3 DEF HeldReach, Reaches
      <4> QED BY <4>1, <4>2
    <3> QED BY <3>1, <3>2
  <2>4. NewReach'
    BY <1>6, <1>8, <2>1 DEF NewReach, Reaches
  <2>5. JobsReach'
    <3>1. \A e \in Engines : \A i \in Nat :
            (Spot(e, i)' <=> Spot(e, i)) /\ JobAt(e, i)' = JobAt(e, i)
      BY <1>6 DEF Spot, JobAt
    <3> SUFFICES ASSUME NEW e \in Engines, NEW i \in Nat, Spot(e, i), JobAt(e, i).handle # NoHandle
                 PROVE  /\ JobAt(e, i).handle \in hold'[JobAt(e, i).by]
                        /\ ~JobAt(e, i).live => JobAt(e, i).handle \in tainted'
      BY <1>6, <2>1, <3>1 DEF JobsReach, Reaches
    <3>2. JobAt(e, i).by \in Callers
      BY <1>1 DEF JobShape, Fits, Jobs
    <3>3. /\ Reaches(JobAt(e, i).handle) /\ JobAt(e, i).handle \in hold[JobAt(e, i).by]
          /\ ~JobAt(e, i).live => JobAt(e, i).handle \in tainted
      BY <2>1 DEF JobsReach
    <3>4. gone => JobAt(e, i).handle # h
      BY <1>12, <3>3 DEF Reaches
    <3> QED BY <1>7, <1>8, <3>2, <3>3, <3>4
  <2> QED BY <2>2, <2>3, <2>4, <2>5
<1>17. NoLeak'
  <2> SUFFICES ASSUME NEW d \in Fds, table[d] # NoSocket
               PROVE  \/ \E b \in Callers : <<d, table[d]>> \in hold'[b]
                      \/ \E b \in Callers : answer'[b] # NoAnswer
                                            /\ answer'[b].handle = <<d, table[d]>>
                      \/ table[d] \in orphans
    BY <1>6 DEF NoLeak
  <2>1. CASE \E b \in Callers : <<d, table[d]>> \in hold[b]
    <3>1. gone => h # <<d, table[d]>>
      BY <1>12
    <3> QED BY <1>8, <2>1, <3>1
  <2>2. CASE \E b \in Callers : answer[b] # NoAnswer /\ answer[b].handle = <<d, table[d]>>
    <3>1. <<d, table[d]>> # NoHandle
      BY FallbackAssumption DEF NoHandle, Fds
    <3> QED BY <1>2, <1>8, <2>2, <3>1
  <2> QED BY <1>1, <2>1, <2>2 DEF NoLeak
<1> QED BY <1>13, <1>14, <1>15, <1>16, <1>17 DEF SocketInv

\* A call is given up, and with it its handle, if the job may already be at work.
LEMMA AbandonSockets ==
  ASSUME ShapeInv, SocketInv, NEW c \in Callers, Abandon(c)
  PROVE  SocketInv'
<1> USE DEF callers, history
<1>1. /\ TypeOK /\ CallShape /\ JobShape
      /\ KnownMade /\ HandlesApart /\ ClosedIsGone /\ SocketsKept /\ NoLeak
  BY DEF ShapeInv, SocketInv
<1>2. pc[c] # "idle" /\ Fits(call[c])
  BY <1>1 DEF Abandon, CallShape
<1>3. PICK h \in Handles \cup {NoHandle} : h = call[c].handle
  BY <1>2 DEF Fits, Jobs
<1>4. /\ chan' = [e \in Engines |-> [i \in DOMAIN chan[e] |-> Dead(c, chan[e][i])]]
      /\ worker' = [e \in Engines |-> Dead(c, worker[e])]
      /\ pc' = [pc EXCEPT ![c] = "idle"] /\ call' = [call EXCEPT ![c] = NoJob]
      /\ answer' = [answer EXCEPT ![c] = NoAnswer]
      /\ UNCHANGED <<hold, table, made, misused>>
  BY DEF Abandon, sockets
<1>5. /\ tainted \subseteq tainted' /\ tainted' \subseteq tainted \cup ({h} \ {NoHandle})
      /\ pc[c] = "waiting" /\ h # NoHandle => h \in tainted'
      /\ orphans \subseteq orphans'
      /\ answer[c] # NoAnswer => answer[c].handle[2] \in orphans' \cup {NoSocket}
  BY <1>3 DEF Abandon
<1>6. /\ pc'[c] = "idle" /\ answer'[c] = NoAnswer
      /\ \A b \in Callers \ {c} : pc'[b] = pc[b] /\ call'[b] = call[b] /\ answer'[b] = answer[b]
  BY <1>1, <1>4 DEF TypeOK
<1>7. h # NoHandle => h \in hold[c] /\ h[2] <= made
  BY <1>1, <1>2, <1>3, CallHandles
<1>8. KnownMade'
  BY <1>1, <1>4, <1>5, <1>6, <1>7 DEF KnownMade
<1>9. HandlesApart'
  BY <1>1, <1>4, <1>5, <1>6, <1>7 DEF HandlesApart
<1>10. ClosedIsGone'
  BY <1>1, <1>4, <1>6 DEF ClosedIsGone, Reaches
<1>11. NoLeak'
  <2> SUFFICES ASSUME NEW d \in Fds, table[d] # NoSocket
               PROVE  \/ \E b \in Callers : <<d, table[d]>> \in hold[b]
                      \/ \E b \in Callers : answer'[b] # NoAnswer
                                            /\ answer'[b].handle = <<d, table[d]>>
                      \/ table[d] \in orphans'
    BY <1>4 DEF NoLeak
  <2>1. PICK s : s = table[d] /\ s # NoSocket
    OBVIOUS
  <2>2. CASE answer[c] # NoAnswer /\ answer[c].handle = <<d, s>>
    <3>1. answer[c].handle[2] = s
      BY <2>2
    <3> QED BY <1>5, <2>1, <2>2, <3>1
  <2>3. CASE \E b \in Callers \ {c} : answer[b] # NoAnswer /\ answer[b].handle = <<d, s>>
    BY <1>6, <2>1, <2>3
  <2> QED BY <1>1, <1>5, <2>1, <2>2, <2>3 DEF NoLeak
<1>12. SocketsKept'
  <2> SUFFICES ASSUME ~misused PROVE CallsClean' /\ HeldReach' /\ NewReach' /\ JobsReach'
    BY <1>4 DEF SocketsKept
  <2>1. CallsClean /\ HeldReach /\ NewReach /\ JobsReach
    BY <1>1 DEF SocketsKept
  <2>2. CallsClean'
    <3> SUFFICES ASSUME NEW b \in Callers \ {c}, pc[b] # "idle", call[b].handle \in tainted'
                 PROVE  FALSE
      BY <1>6 DEF CallsClean
    <3>1. call[b].handle \notin tainted
      BY <2>1 DEF CallsClean
    <3>2. call[b].handle = h /\ h # NoHandle
      BY <1>5, <3>1
    <3> QED BY <1>1, <1>7, <3>2 DEF HandlesApart
  <2>3. HeldReach'
    <3> SUFFICES ASSUME NEW b \in Callers, NEW g \in hold[b] \ tainted'
                 PROVE  Reaches(g)' \/ Lost(b, g)'
      BY <1>4 DEF HeldReach
    <3>1. CASE b # c
      BY <1>4, <1>5, <1>6, <2>1, <3>1 DEF HeldReach, Reaches, Lost
    <3>2. CASE b = c
      <4>1. g # NoHandle
        BY <1>1, Nothings DEF TypeOK
      <4>2. ~Lost(c, g)
        BY <1>1, <1>3, <1>5, <4>1 DEF Lost, TypeOK
      <4> QED BY <1>4, <1>5, <2>1, <3>2, <4>2 DEF HeldReach, Reaches
    <3> QED BY <3>1, <3>2
  <2>4. NewReach'
    BY <1>4, <1>6, <2>1 DEF NewReach, Reaches
  <2>5. JobsReach'
    <3>1. \A e \in Engines : \A i \in Nat :
            /\ Spot(e, i)' <=> Spot(e, i)
            /\ Spot(e, i) => JobAt(e, i)' = Dead(c, JobAt(e, i))
      BY <1>1, <1>4, GoDead
    <3>2. \A j \in Jobs : /\ Dead(c, j).handle = j.handle /\ Dead(c, j).by = j.by
                          /\ ~Dead(c, j).live => ~j.live \/ j.by = c
      BY DEF Dead, Jobs
    <3>3. \A e \in Engines : \A i \in Nat : Spot(e, i) =>
            /\ JobAt(e, i)'.handle = JobAt(e, i).handle /\ JobAt(e, i)'.by = JobAt(e, i).by
            /\ ~JobAt(e, i)'.live => ~JobAt(e, i).live \/ JobAt(e, i).by = c
      BY <1>1, <3>1, <3>2 DEF JobShape, Fits
    <3> SUFFICES ASSUME NEW e \in Engines, NEW i \in Nat, Spot(e, i), JobAt(e, i).handle # NoHandle,
                        ~JobAt(e, i)'.live
                 PROVE  JobAt(e, i).handle \in tainted'
      BY <1>4, <2>1, <3>1, <3>3 DEF JobsReach, Reaches
    <3>4. CASE ~JobAt(e, i).live
      BY <1>5, <2>1, <3>4 DEF JobsReach
    <3>5. CASE JobAt(e, i).live /\ JobAt(e, i).by = c
      BY <1>1, <1>3, <1>5, <3>5 DEF JobShape
    <3> QED BY <3>3, <3>4, <3>5
  <2> QED BY <2>2, <2>3, <2>4, <2>5
<1> QED BY <1>8, <1>9, <1>10, <1>11, <1>12 DEF SocketInv

\* A worker is done with its job.  It has made the socket of h, or none, and if
\* it shut the job's descriptor, the answer says so.
LEMMA DoneSockets ==
  ASSUME ShapeInv, SocketInv, NEW E \in Engines, NEW j \in Jobs, j = worker[E],
         NEW ok \in BOOLEAN, NEW seen, NEW h \in Handles \cup {NoHandle}, NEW shut \in BOOLEAN,
         Callback(E, ok, seen, h),
         UNCHANGED <<chan, pc, call, hold, tainted, misused>>,
         \A g \in Handles : g[2] <= made =>
           (table'[g[1]] = g[2] <=> table[g[1]] = g[2] /\ ~(shut /\ g[1] = j.handle[1])),
         \A d \in Fds : table'[d] # NoSocket => table'[d] = table[d] \/ <<d, table'[d]>> = h,
         made' \in Nat, made <= made', h = NoHandle \/ (h[2] = made + 1 /\ made' = made + 1),
         ~misused /\ h # NoHandle => table'[h[1]] = h[2],
         shut => j.op \in OnSocket /\ (~ok \/ j.op \in {"accept", "close"}),
         ok /\ j.op = "close" => shut
  PROVE  SocketInv'
<1>1. /\ TypeOK /\ CallShape /\ JobShape /\ PlacedOnce
      /\ KnownMade /\ HandlesApart /\ ClosedIsGone /\ SocketsKept /\ NoLeak
  BY DEF ShapeInv, SocketInv
<1>2. j # NoJob
  BY Nothings
<1>3. Spot(E, 0) /\ JobAt(E, 0) = j /\ 0 \in Nat
  BY <1>1, <1>2, WorkerSpot
<1>4. /\ Fits(j) /\ j.by \in Callers
      /\ j.live => call[j.by] = j /\ answer[j.by] = NoAnswer /\ pc[j.by] = "waiting"
  BY <1>1, <1>3 DEF JobShape, PlacedOnce, Awaited, Fits, Jobs
<1>5. PICK a : a = [ok |-> ok, seen |-> seen, handle |-> h]
  OBVIOUS
<1>6. a.ok = ok /\ a.handle = h /\ a # NoAnswer
  BY <1>5, Nothings
<1>7. /\ worker' = [worker EXCEPT ![E] = NoJob]
      /\ \A b \in Callers :
           \/ answer'[b] = answer[b]
           \/ b = j.by /\ j.live /\ answer'[b] = a /\ answer[b] = NoAnswer /\ call[b] = j
      /\ j.live => answer'[j.by] = a
      /\ orphans \subseteq orphans' /\ (~j.live => h[2] \in orphans' \cup {NoSocket})
  BY <1>1, <1>4, <1>5 DEF Callback, TypeOK
<1>8. made \in Nat /\ NoHandle[2] = 0
  BY <1>1 DEF TypeOK, NoHandle, NoSocket
<1>9. h # NoHandle =>
        /\ h \notin tainted
        /\ \A b \in Callers : h \notin hold[b] /\ (answer[b] # NoAnswer => answer[b].handle # h)
  BY <1>1, <1>8 DEF KnownMade
<1>10. KnownMade'
  <2>1. \A d \in Fds : table'[d] <= made'
    <3> SUFFICES ASSUME NEW d \in Fds PROVE table'[d] <= made'
      OBVIOUS
    <3>1. CASE table'[d] = NoSocket
      BY <1>8, <3>1 DEF NoSocket
    <3>2. CASE table'[d] = table[d]
      <4>1. table[d] <= made
        BY <1>1 DEF KnownMade
      <4>2. table[d] \in Nat
        BY <1>1 DEF TypeOK, Sockets, NoSocket
      <4> QED BY <1>8, <3>2, <4>1, <4>2
    <3>3. CASE <<d, table'[d]>> = h /\ table'[d] # NoSocket
      <4>1. h[2] = table'[d] /\ h # NoHandle
        BY <1>8, <3>3 DEF NoHandle, NoSocket
      <4> QED BY <1>8, <4>1
    <3> QED BY <3>1, <3>2, <3>3
  <2>2. \A g \in Handles \cup {NoHandle} : g[2] <= made => g[2] <= made'
    <3>1. \A g \in Handles \cup {NoHandle} : g[2] \in Nat
      BY <1>8, HandleParts
    <3> QED BY <1>8, <3>1
  <2>3. h[2] <= made'
    BY <1>8
  <2>4. \A b \in Callers : answer[b] # NoAnswer => answer[b].handle \in Handles \cup {NoHandle}
    BY <1>1 DEF TypeOK, Answers
  <2>5. /\ \A g \in tainted : g[2] <= made'
        /\ \A b \in Callers : \A g \in hold[b] : g[2] <= made'
    BY <1>1, <2>2 DEF KnownMade, TypeOK
  <2>6. \A b \in Callers : answer'[b] # NoAnswer => answer'[b].handle[2] <= made'
    <3> SUFFICES ASSUME NEW b \in Callers, answer'[b] # NoAnswer
                 PROVE  answer'[b].handle[2] <= made'
      OBVIOUS
    <3>1. CASE answer'[b] = answer[b]
      BY <1>1, <2>2, <2>4, <3>1 DEF KnownMade
    <3>2. CASE answer'[b] = a
      BY <1>6, <2>3, <3>2
    <3> QED BY <1>7, <3>1, <3>2
  <2> QED BY <2>1, <2>5, <2>6 DEF KnownMade
<1>11. HandlesApart'
  <2> SUFFICES ASSUME NEW b \in Callers, answer'[b] # NoAnswer, answer'[b].handle # NoHandle
      PROVE  /\ answer'[b].handle \notin tainted
             /\ \A d \in Callers :
                  /\ answer'[b].handle \notin hold[d]
                  /\ d # b /\ answer'[d] # NoAnswer => answer'[d].handle # answer'[b].handle
    BY <1>1 DEF HandlesApart
  <2>1. CASE answer'[b] = answer[b]
    BY <1>1, <1>6, <1>7, <1>9, <2>1 DEF HandlesApart
  <2>2. CASE b = j.by /\ answer'[b] = a
    BY <1>6, <1>7, <1>9, <2>2
  <2> QED BY <1>7, <2>1, <2>2
<1>12. ClosedIsGone'
  <2> SUFFICES ASSUME NEW b \in Callers, answer'[b] # NoAnswer, answer'[b].ok,
                      call[b].op = "close"
               PROVE  ~(table'[call[b].handle[1]] = call[b].handle[2])
    BY DEF ClosedIsGone, Reaches
  <2>1. pc[b] # "idle"
    BY <1>1, <1>4, <1>7 DEF TypeOK
  <2>2. call[b].handle # NoHandle
    BY <1>1, <2>1 DEF CallShape, Fits, OnSocket
  <2>3. call[b].handle \in Handles /\ call[b].handle[2] <= made
    BY <1>1, <2>1, <2>2, CallHandles
  <2>4. CASE answer'[b] = answer[b]
    BY <1>1, <2>3, <2>4 DEF ClosedIsGone, Reaches
  <2>5. CASE call[b] = j /\ answer'[b] = a
    BY <1>6, <2>3, <2>5
  <2> QED BY <1>7, <2>4, <2>5
<1>13. SocketsKept'
  <2> SUFFICES ASSUME ~misused PROVE CallsClean' /\ HeldReach' /\ NewReach' /\ JobsReach'
    BY DEF SocketsKept
  <2>1. CallsClean /\ HeldReach /\ NewReach /\ JobsReach
    BY <1>1 DEF SocketsKept
  <2>2. CallsClean'
    BY <2>1 DEF CallsClean
  <2>3. shut => /\ j.handle \in Handles /\ table[j.handle[1]] = j.handle[2]
                /\ j.handle \in hold[j.by] /\ (~j.live => j.handle \in tainted)
    BY <1>3, <1>4, <2>1 DEF Fits, Jobs, JobsReach, Reaches
  <2>4. ASSUME NEW g \in Handles, shut, g[1] = j.handle[1], Reaches(g)
        PROVE  g = j.handle
    BY <2>3, <2>4, HandleParts DEF Reaches
  <2>5. HeldReach'
    <3> SUFFICES ASSUME NEW b \in Callers, NEW g \in hold[b] \ tainted
                 PROVE  table'[g[1]] = g[2] \/ Lost(b, g)'
      BY DEF HeldReach, Reaches
    <3>1. g \in Handles /\ g[2] <= made
      BY <1>1 DEF KnownMade, TypeOK
    <3>2. CASE Lost(b, g)
      BY <1>7, <3>2 DEF Lost
    <3>3. CASE Reaches(g) /\ shut /\ g[1] = j.handle[1]
      <4>1. g = j.handle
        BY <2>4, <3>1, <3>3
      <4>2. b = j.by /\ j.live
        BY <1>1, <1>4, <2>3, <3>3, <4>1 DEF HandlesApart
      <4> QED BY <1>4, <1>6, <1>7, <3>3, <4>1, <4>2 DEF Lost
    <3>4. CASE Reaches(g) /\ ~(shut /\ g[1] = j.handle[1])
      BY <3>1, <3>4 DEF Reaches
    <3> QED BY <2>1, <3>2, <3>3, <3>4 DEF HeldReach
  <2>6. NewReach'
    <3> SUFFICES ASSUME NEW b \in Callers, answer'[b] # NoAnswer, answer'[b].handle # NoHandle
                 PROVE  table'[answer'[b].handle[1]] = answer'[b].handle[2]
      BY DEF NewReach, Reaches
    <3>1. CASE answer'[b] = answer[b]
      <4>1. PICK g \in Handles : g = answer[b].handle /\ g[2] <= made
        BY <1>1, <3>1 DEF KnownMade, TypeOK, Answers
      <4>2. Reaches(g) /\ \A d \in Callers : g \notin hold[d]
        BY <1>1, <2>1, <3>1, <4>1 DEF NewReach, HandlesApart
      <4>3. ~(shut /\ g[1] = j.handle[1])
        BY <1>4, <2>3, <2>4, <4>2
      <4> QED BY <3>1, <4>1, <4>2, <4>3 DEF Reaches
    <3>2. CASE answer'[b] = a
      BY <1>6, <3>2
    <3> QED BY <1>7, <3>1, <3>2
  <2>7. JobsReach'
    <3>1. \A e \in Engines : \A i \in Nat :
            /\ Spot(e, i)' <=> Spot(e, i) /\ ~(e = E /\ i = 0)
            /\ Spot(e, i)' => JobAt(e, i)' = JobAt(e, i)
      BY <1>1, <1>7, Leaves
    <3> SUFFICES ASSUME NEW e \in Engines, NEW i \in Nat, Spot(e, i), ~(e = E /\ i = 0),
                        JobAt(e, i).handle # NoHandle
                 PROVE  table'[JobAt(e, i).handle[1]] = JobAt(e, i).handle[2]
      BY <2>1, <3>1 DEF JobsReach, Reaches
    <3>2. PICK g \in Handles : g = JobAt(e, i).handle
      BY <1>1 DEF JobShape, Fits, Jobs
    <3>3. Reaches(g) /\ g \in hold[JobAt(e, i).by] /\ JobAt(e, i).by \in Callers
      BY <1>1, <2>1, <3>2 DEF JobsReach, JobShape, Fits, Jobs
    <3>4. g[2] <= made
      BY <1>1, <3>3 DEF KnownMade
    <3>5. shut => g # j.handle
      BY <1>3, <2>1, <3>2 DEF JobsReach
    <3> QED BY <2>4, <3>2, <3>3, <3>4, <3>5 DEF Reaches
  <2> QED BY <2>2, <2>5, <2>6, <2>7
<1>14. NoLeak'
  <2> SUFFICES ASSUME NEW d \in Fds, table'[d] # NoSocket
               PROVE  \/ \E b \in Callers : <<d, table'[d]>> \in hold[b]
                      \/ \E b \in Callers : answer'[b] # NoAnswer
                                            /\ answer'[b].handle = <<d, table'[d]>>
                      \/ table'[d] \in orphans'
    BY DEF NoLeak
  <2>1. PICK s : s = table'[d] /\ s # NoSocket
    OBVIOUS
  <2>2. CASE <<d, s>> = h
    <3>1. h[2] = s
      BY <2>2
    <3>2. ~j.live => s \in orphans'
      BY <1>7, <2>1, <3>1
    <3>3. j.live => answer'[j.by] # NoAnswer /\ answer'[j.by].handle = <<d, s>>
      BY <1>6, <1>7, <2>2
    <3>4. j.by \in Callers
      BY <1>4
    <3>5. CASE j.live
      BY <2>1, <3>3, <3>4, <3>5
    <3>6. CASE ~j.live
      BY <2>1, <3>2, <3>6
    <3> QED BY <3>5, <3>6
  <2>3. CASE table[d] = s
    <3>1. CASE \E b \in Callers : answer[b] # NoAnswer /\ answer[b].handle = <<d, s>>
      <4>1. PICK b \in Callers : answer[b] # NoAnswer /\ answer[b].handle = <<d, s>>
        BY <3>1
      <4>2. answer'[b] = answer[b]
        BY <1>7, <4>1
      <4> QED BY <2>1, <4>1, <4>2
    <3> QED BY <1>1, <1>7, <2>1, <2>3, <3>1 DEF NoLeak
  <2> QED BY <2>1, <2>2, <2>3
<1> QED BY <1>10, <1>11, <1>12, <1>13, <1>14 DEF SocketInv

LEMMA DiskWorkSockets ==
  ASSUME ShapeInv, SocketInv, DiskWork
  PROVE  SocketInv'
<1> USE DEF callers
<1>1. TypeOK /\ JobShape /\ KnownMade
  BY DEF ShapeInv, SocketInv
<1>2. worker["disk"] # NoJob /\ "disk" \in Engines
  BY DiskDoes
<1>3. PICK ok \in BOOLEAN, seen \in Stamps \cup {Absent}, contents \in Stamps \cup {Absent} :
        DiskDone(ok, seen, contents)
  BY DiskDoes
<1>4. PICK j \in Jobs : j = worker["disk"]
  BY <1>1, <1>2 DEF TypeOK
<1>5. EngineOf(j.op) = "disk"
  BY <1>1, <1>2, <1>4, WorkerSpot DEF JobShape
<1>6. j.op # "close"
  BY <1>5 DEF EngineOf, DiskOps
<1>7. /\ Callback("disk", ok, seen, NoHandle) /\ made' \in Nat /\ made <= made'
      /\ UNCHANGED <<chan, pc, call, hold, tainted, misused, table, made>>
  BY <1>1, <1>3 DEF DiskDone, sockets, TypeOK
<1>8. /\ \A g \in Handles : g[2] <= made =>
           (table'[g[1]] = g[2] <=> table[g[1]] = g[2] /\ ~(FALSE /\ g[1] = j.handle[1]))
      /\ \A d \in Fds : table'[d] # NoSocket =>
           table'[d] = table[d] \/ <<d, table'[d]>> = NoHandle
  BY <1>7
<1> QED BY <1>2, <1>4, <1>6, <1>7, <1>8, DoneSockets

\* An accept closes the listener it was made on, a failed call the stream, and
\* both say so in their answer; what they make, nobody has seen.
LEMMA NetWorkSockets ==
  ASSUME ShapeInv, SocketInv, NetWork
  PROVE  SocketInv'
<1> USE DEF callers
<1>1. TypeOK /\ JobShape /\ KnownMade /\ SocketsKept
  BY DEF ShapeInv, SocketInv
<1>2. worker["net"] # NoJob /\ "net" \in Engines
  BY NetDoes
<1>3. PICK j \in Jobs : j = worker["net"]
  BY <1>1, <1>2 DEF TypeOK
<1>4. PICK ok \in BOOLEAN, h \in Handles \cup {NoHandle} :
        /\ NetDone(ok, h)
        /\ \/ /\ h = NoHandle /\ UNCHANGED sockets /\ j.op # "close"
           \/ /\ h = NoHandle /\ CloseFd /\ j.op \in OnSocket /\ (ok <=> j.op = "close")
           \/ /\ h = NewHandle /\ CanOpen /\ j.op = "connect" /\ OpenSocket("connected")
           \/ /\ h = NewHandle /\ CanOpen /\ j.op = "accept"
              /\ table' = [table EXCEPT ![LowestFd] = NextSocket, ![JobFd] = NoSocket]
              /\ made' = NextSocket
  <2>1. PICK ok \in BOOLEAN, h \in Handles \cup {NoHandle} :
          /\ NetDone(ok, h)
          /\ \/ /\ h = NoHandle /\ UNCHANGED sockets
                /\ (At("net", {"transfer"}) /\ ok) \/ (At("net", {"connect"}) /\ ~ok)
             \/ /\ h = NoHandle /\ CloseFd /\ At("net", OnSocket)
                /\ ok <=> At("net", {"close"})
             \/ /\ h = NewHandle /\ ok /\ CanOpen /\ At("net", {"connect"})
                /\ OpenSocket("connected")
             \/ /\ h = NewHandle /\ ok /\ CanOpen /\ At("net", {"accept"})
                /\ table' = [table EXCEPT ![LowestFd] = NextSocket, ![JobFd] = NoSocket]
                /\ made' = NextSocket
    BY NetDoes
  <2>2. \A ops : At("net", ops) <=> j.op \in ops
    BY <1>3 DEF At
  <2> QED BY <2>1, <2>2
<1>5. /\ Callback("net", ok, Absent, h)
      /\ UNCHANGED <<chan, pc, call, hold, tainted, misused>>
  BY <1>4 DEF NetDone
<1>6. /\ Fits(j) /\ Spot("net", 0) /\ JobAt("net", 0) = j /\ JobFd = j.handle[1]
      /\ j.op \in OnSocket => j.handle \in Handles /\ j.handle[1] \in Fds /\ j.handle[2] # NoSocket
  BY <1>1, <1>2, <1>3, WorkerSpot, HandleParts DEF JobShape, Fits, Jobs, JobFd
<1>7. made \in Nat /\ NoSocket = 0 /\ table \in [Fds -> Sockets \cup {NoSocket}]
      /\ \A g \in Handles : g[1] \in Fds /\ g[2] \in Nat /\ g[2] # NoSocket
  BY <1>1, HandleParts DEF TypeOK, NoSocket
<1> DEFINE Effect(shut) ==
      /\ \A g \in Handles : g[2] <= made =>
           (table'[g[1]] = g[2] <=> table[g[1]] = g[2] /\ ~(shut /\ g[1] = j.handle[1]))
      /\ \A d \in Fds : table'[d] # NoSocket => table'[d] = table[d] \/ <<d, table'[d]>> = h
      /\ made' \in Nat /\ made <= made' /\ (h = NoHandle \/ (h[2] = made + 1 /\ made' = made + 1))
      /\ ~misused /\ h # NoHandle => table'[h[1]] = h[2]
      /\ shut => j.op \in OnSocket /\ (~ok \/ j.op \in {"accept", "close"})
      /\ ok /\ j.op = "close" => shut
<1>12. ASSUME NEW shut \in BOOLEAN, Effect(shut) PROVE SocketInv'
  BY <1>2, <1>3, <1>5, <1>12, DoneSockets
<1> HIDE DEF Effect
<1>8. CASE h = NoHandle /\ UNCHANGED sockets /\ j.op # "close"
  <2>1. /\ \A g \in Handles : g[2] <= made =>
             (table'[g[1]] = g[2] <=> table[g[1]] = g[2] /\ ~(FALSE /\ g[1] = j.handle[1]))
        /\ \A d \in Fds : table'[d] # NoSocket => table'[d] = table[d] \/ <<d, table'[d]>> = h
        /\ made' \in Nat /\ made <= made'
    BY <1>7, <1>8 DEF sockets
  <2>2. Effect(FALSE)
    BY <1>8, <2>1 DEF Effect
  <2> QED BY <2>2, <1>12
<1>9. CASE h = NoHandle /\ CloseFd /\ j.op \in OnSocket /\ (ok <=> j.op = "close")
  <2>1. table' = [table EXCEPT ![j.handle[1]] = NoSocket] /\ made' = made
    BY <1>6, <1>9 DEF CloseFd
  <2>2. /\ \A g \in Handles : g[2] <= made =>
             (table'[g[1]] = g[2] <=> table[g[1]] = g[2] /\ ~(TRUE /\ g[1] = j.handle[1]))
        /\ \A d \in Fds : table'[d] # NoSocket => table'[d] = table[d] \/ <<d, table'[d]>> = h
        /\ made' \in Nat /\ made <= made'
    BY <1>7, <2>1
  <2>3. Effect(TRUE)
    BY <1>9, <2>2 DEF Effect
  <2> QED BY <2>3, <1>12
<1>10. CASE h = NewHandle /\ CanOpen /\ j.op = "connect" /\ OpenSocket("connected")
  <2>1. /\ h \in Handles /\ table[h[1]] = NoSocket /\ h[2] = made + 1 /\ made' = made + 1
        /\ table' = [table EXCEPT ![h[1]] = h[2]]
    BY <1>1, <1>10, NewSocket DEF NewHandle, OpenSocket
  <2>2. /\ \A g \in Handles : g[2] <= made =>
             (table'[g[1]] = g[2] <=> table[g[1]] = g[2] /\ ~(FALSE /\ g[1] = j.handle[1]))
        /\ table'[h[1]] = h[2] /\ made' \in Nat /\ made <= made'
    BY <1>7, <2>1
  <2>3. \A d \in Fds : table'[d] # NoSocket => table'[d] = table[d] \/ <<d, table'[d]>> = h
    BY <1>7, <2>1, HandleParts
  <2>4. h[2] = made + 1 /\ made' = made + 1 /\ j.op = "connect" /\ FALSE \in BOOLEAN
    BY <1>10, <2>1
  <2>5. Effect(FALSE)
    BY <2>2, <2>3, <2>4 DEF Effect
  <2> QED BY <2>5, <1>12
<1>11. CASE /\ h = NewHandle /\ CanOpen /\ j.op = "accept" /\ made' = NextSocket
            /\ table' = [table EXCEPT ![LowestFd] = NextSocket, ![JobFd] = NoSocket]
  <2>1. /\ h \in Handles /\ table[h[1]] = NoSocket /\ h[2] = made + 1 /\ made' = made + 1
        /\ table' = [table EXCEPT ![h[1]] = h[2], ![j.handle[1]] = NoSocket]
    BY <1>1, <1>6, <1>11, NewSocket DEF NewHandle
  <2>2. j.op \in OnSocket
    BY <1>11 DEF OnSocket
  <2>3. ~misused => h[1] # j.handle[1]
    <3>1. ~misused => table[j.handle[1]] = j.handle[2]
      BY <1>1, <1>2, <1>6, <2>2, Nothings DEF SocketsKept, JobsReach, Reaches
    <3> QED BY <1>6, <2>1, <2>2, <3>1
  <2>4. /\ \A g \in Handles : g[2] <= made =>
             (table'[g[1]] = g[2] <=> table[g[1]] = g[2] /\ ~(TRUE /\ g[1] = j.handle[1]))
        /\ ~misused => table'[h[1]] = h[2]
        /\ made' \in Nat /\ made <= made'
    BY <1>6, <1>7, <2>1, <2>2, <2>3
  <2>5. \A d \in Fds : table'[d] # NoSocket => table'[d] = table[d] \/ <<d, table'[d]>> = h
    <3> SUFFICES ASSUME NEW d \in Fds, table'[d] # NoSocket
                 PROVE  table'[d] = table[d] \/ <<d, table'[d]>> = h
      OBVIOUS
    <3>1. d = j.handle[1] => table'[d] = NoSocket
      BY <1>6, <1>7, <2>1, <2>2
    <3>2. d # j.handle[1] => table'[d] = IF d = h[1] THEN h[2] ELSE table[d]
      BY <1>7, <2>1
    <3>3. h = <<h[1], h[2]>>
      BY <2>1, HandleParts
    <3> QED BY <3>1, <3>2, <3>3
  <2>6. h[2] = made + 1 /\ made' = made + 1 /\ j.op = "accept" /\ TRUE \in BOOLEAN
    BY <1>11, <2>1
  <2>7. Effect(TRUE)
    BY <2>2, <2>4, <2>5, <2>6 DEF Effect
  <2> QED BY <2>7, <1>12
<1> QED BY <1>4, <1>8, <1>9, <1>10, <1>11

LEMMA InitSockets == Init => SocketInv
<1> SUFFICES ASSUME Init PROVE SocketInv
  OBVIOUS
<1>1. \A e \in Engines : \A i \in Nat : ~Spot(e, i)
  <2>1. Len(<<>>) = 0
    OBVIOUS
  <2> QED BY <2>1 DEF Init, Spot, Engines
<1>2. KnownMade /\ HandlesApart /\ ClosedIsGone /\ NoLeak
  BY DEF Init, KnownMade, HandlesApart, ClosedIsGone, NoLeak, NoSocket
<1>3. SocketsKept
  BY <1>1 DEF Init, SocketsKept, CallsClean, HeldReach, NewReach, JobsReach
<1> QED BY <1>2, <1>3 DEF SocketInv

LEMMA StepSockets == ShapeInv /\ SocketInv /\ [Next]_vars => SocketInv'
<1> SUFFICES ASSUME ShapeInv, SocketInv, [Next]_vars PROVE SocketInv'
  OBVIOUS
<1>1. ASSUME UNCHANGED vars PROVE SocketInv'
  <2>1. /\ UNCHANGED <<pc, call, answer, table, made, hold, tainted, misused, orphans>>
        /\ \A e \in Engines : \A i \in Nat : Spot(e, i)' => Spot(e, i) /\ JobAt(e, i)' = JobAt(e, i)
    BY <1>1 DEF vars, callers, sockets, history, Spot, JobAt
  <2> QED BY <2>1, StaySockets
<1>2. ASSUME NEW c \in Callers, NEW op \in uses[c] \ OnSocket, Begin(c, op, NoHandle)
      PROVE  SocketInv'
  BY <1>2, BeginSockets
<1>3. ASSUME NEW c \in Callers, NEW op \in uses[c] \cap OnSocket, NEW h \in hold[c], Begin(c, op, h)
      PROVE  SocketInv'
  BY <1>3, BeginSockets
<1>4. ASSUME NEW c \in Callers, Listen(c) \/ Send(c) \/ Receive(c) \/ Abandon(c)
      PROVE  SocketInv'
  BY <1>4, ListenSockets, SendSockets, ReceiveSockets, AbandonSockets
<1>5. ASSUME NEW e \in Engines, Recv(e) \/ Aborted(e) \/ DropEngine(e)
      PROVE  SocketInv'
  BY <1>5, RecvSockets, DropSockets
<1> QED BY <1>1, <1>2, <1>3, <1>4, <1>5, DiskWorkSockets, NetWorkSockets DEF Next

-----------------------------------------------------------------------------
(* The theorems.                                                            *)

LEMMA Invariant == Spec => [](ShapeInv /\ OrderInv /\ SocketInv)
<1>1. Init => ShapeInv /\ OrderInv /\ SocketInv
  BY InitShape, InitOrder, InitSockets
<1>2. (ShapeInv /\ OrderInv /\ SocketInv) /\ [Next]_vars => (ShapeInv /\ OrderInv /\ SocketInv)'
  BY StepShape, StepOrder, StepSockets
<1> QED BY <1>1, <1>2, PTL DEF Spec

\* What a caller has and did not lose leads to its socket, for all of its calls
\* that are in a channel.
LEMMA OwnSockets == ShapeInv /\ SocketInv => OwnSocket
<1> SUFFICES ASSUME ShapeInv, SocketInv, ~misused
             PROVE  /\ \A c \in Callers : \A h \in hold[c] \ tainted :
                         pc[c] = "idle" \/ call[c].handle # h => table[h[1]] = h[2]
                    /\ \A e \in Engines : \A i \in DOMAIN chan[e] :
                         chan[e][i].handle # NoHandle =>
                           table[chan[e][i].handle[1]] = chan[e][i].handle[2]
  BY DEF OwnSocket
<1>1. TypeOK /\ HeldReach /\ JobsReach
  BY DEF ShapeInv, SocketInv, SocketsKept
<1>2. \A c \in Callers : pc[c] = "idle" => answer[c] = NoAnswer
  BY <1>1 DEF TypeOK
<1>3. \A c \in Callers : \A h \in hold[c] \ tainted :
        pc[c] = "idle" \/ call[c].handle # h => table[h[1]] = h[2]
  BY <1>1, <1>2 DEF HeldReach, Lost, Reaches
<1>4. ASSUME NEW e \in Engines, NEW i \in DOMAIN chan[e], chan[e][i].handle # NoHandle
      PROVE  table[chan[e][i].handle[1]] = chan[e][i].handle[2]
  <2>1. i \in 1..Len(chan[e]) /\ Len(chan[e]) \in Nat
    BY <1>1, ChannelTypes
  <2>2. i \in Nat /\ Spot(e, i) /\ JobAt(e, i) = chan[e][i]
    BY <2>1 DEF Spot, JobAt
  <2> QED BY <1>1, <1>4, <2>2 DEF JobsReach, Reaches
<1> QED BY <1>3, <1>4

\* Types, and the channels' bounds: an answer is only ever there for a caller that
\* waits, so the callback of a dropped call finds nobody and no later call
\* of its caller gets it.
THEOREM EnginesTypeCorrect == Spec => []TypeOK
<1>1. ShapeInv => TypeOK
  BY DEF ShapeInv
<1> QED BY <1>1, ShapeInvariant, PTL

\* A caller that waits has one job at an engine or its own answer, never both and
\* never two, however often it gave up a call before.
THEOREM EachCallIsAnsweredOnce == Spec => []OneAnswerPerCall
BY OnePlace, ShapeInvariant, PTL

\* read_file and sync_file see the newest write sent before them, and no later one.
THEOREM ReadsFollowWrites == Spec => []AnswersInOrder
<1>1. OrderInv => AnswersInOrder
  BY DEF OrderInv
<1> QED BY <1>1, Invariant, PTL

\* Descriptors are reused, and still a job reaches the socket its caller means, if
\* no caller goes on with a handle that an accept, an error or a dropped call
\* has cost it.
THEOREM JobsReachTheirSockets == Spec => []OwnSocket
BY OwnSockets, Invariant, PTL

\* What is open is in a caller's hands, on its way there, or was made for a
\* call that had been dropped.
THEOREM OnlyDroppedCallsLeak == Spec => []NoLeak
<1>1. SocketInv => NoLeak
  BY DEF SocketInv
<1> QED BY <1>1, Invariant, PTL

=============================================================================
