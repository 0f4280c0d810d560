-------------------------- MODULE FallbackEngines --------------------------
(***************************************************************************)
(* The engines of disk/fallback.rs and net/fallback.rs on one tokio         *)
(* runtime.  A call sends a job through a bounded channel and waits for a   *)
(* oneshot answer.  Each engine has one worker task, whatever               *)
(* worker_threads says, and the worker makes blocking calls: while it is in *)
(* one it keeps a thread of the runtime.  A caller may drop a call it is    *)
(* tired of; its job stays in the channel.                                  *)
(*                                                                          *)
(* A job of the network engine names a descriptor.  from_raw_fd makes the   *)
(* worker its owner: what is not forgotten is closed.                       *)
(***************************************************************************)
EXTENDS Integers, Sequences, FiniteSets

CONSTANTS
  Callers,
  Scenarios,    \* which operations each caller makes
  Capacity,     \* worker_threads * 32
  Threads,      \* threads of the runtime
  MaxFd,        \* bound: descriptors of the process
  MaxSockets,   \* bound: sockets made
  MaxWrites,    \* bound: write_file jobs sent
  MaxDropped    \* bound: calls dropped by their callers

DiskOps  == {"read_file", "write_file", "sync_file", "close_file"}
OnSocket == {"accept", "transfer", "close"}   \* transfer: read or write
NetOps   == OnSocket \cup {"connect"}

ASSUME FallbackAssumption ==
  /\ Scenarios \subseteq [Callers -> SUBSET (DiskOps \cup NetOps)]
  /\ Capacity \in Nat \ {0} /\ Threads \in Nat \ {0}
  /\ MaxFd \in Nat /\ MaxSockets \in Nat /\ MaxWrites \in Nat /\ MaxDropped \in Nat

Engines  == {"disk", "net"}
EngineOf(op) == IF op \in DiskOps THEN "disk" ELSE "net"

Fds      == 1..MaxFd
Sockets  == 1..MaxSockets
NoSocket == 0
Handles  == Fds \X Sockets    \* a descriptor and the socket its caller means
NoHandle == <<0, NoSocket>>
Stamps   == 0..MaxWrites      \* writes are numbered as they are sent
Absent   == -1                \* no file

\* upto: for a job on the file, the newest write sent up to it; live: the
\* caller still waits.
Jobs == [op : DiskOps \cup NetOps, by : Callers, handle : Handles \cup {NoHandle},
         upto : Stamps, live : BOOLEAN]
NoJob    == [op |-> "none"]
Answers  == [ok : BOOLEAN, seen : Stamps \cup {Absent}, handle : Handles \cup {NoHandle}]
NoAnswer == [op |-> "none"]

VARIABLES
  uses,      \* the scenario
  chan,      \* the channel of each engine
  worker,    \* the job each worker is at
  state,     \* of each engine: "up", "aborting" or "down"
  pc, call, answer,  \* each caller: section, job, what the oneshot holds
  table,     \* the kernel's descriptor table
  kind,      \* what each descriptor is: an "accepted" stream blocks, a "connected" one not
  made,      \* sockets made so far
  file,      \* newest write in the file
  hold,      \* handles each caller has
  sent,      \* history: writes sent
  skipped,   \* history: writes that failed and left nothing in the file
  tainted,   \* history: handles given to an accept, or to a call that failed or was dropped
  misused,   \* history: a call was made on a tainted handle
  orphans,   \* history: sockets made for a call that had been dropped
  dropped    \* calls dropped so far

sockets == <<table, kind, made>>
callers == <<pc, call>>
history == <<skipped, tainted, misused, orphans, dropped>>
vars    == <<uses, chan, worker, state, callers, answer, sockets, file, hold, sent, history>>

Init ==
  /\ uses \in Scenarios
  /\ chan = [e \in Engines |-> <<>>] /\ worker = [e \in Engines |-> NoJob]
  /\ state = [e \in Engines |-> "up"]
  /\ pc = [c \in Callers |-> "idle"] /\ call = [c \in Callers |-> NoJob]
  /\ answer = [c \in Callers |-> NoAnswer]
  /\ table = [d \in Fds |-> NoSocket] /\ kind = [d \in Fds |-> "closed"] /\ made = 0
  /\ file = Absent /\ hold = [c \in Callers |-> {}]
  /\ sent = 0 /\ skipped = {}
  /\ tainted = {} /\ misused = FALSE /\ orphans = {} /\ dropped = 0

\* A runtime with one thread (tokio's current_thread flavour).
CurrentThread == \A e \in Engines : worker[e] = NoJob

\* A task of the runtime can run: a blocked worker keeps its thread.
ThreadFree == Cardinality({e \in Engines : worker[e] # NoJob}) < Threads

FreeFds     == {d \in Fds : table[d] = NoSocket}
LowestFd    == CHOOSE d \in FreeFds : \A f \in FreeFds : d <= f
NextSocket  == made + 1
CanOpen     == FreeFds # {} /\ made < MaxSockets
NewHandle   == <<LowestFd, NextSocket>>

OpenSocket(sort) ==
  /\ table' = [table EXCEPT ![LowestFd] = NextSocket]
  /\ kind' = [kind EXCEPT ![LowestFd] = sort]
  /\ made' = NextSocket

-----------------------------------------------------------------------------
(* Callers.                                                                 *)

\* The application binds a listener and has its descriptor.
Listen(c) ==
  /\ pc[c] = "idle" /\ "accept" \in uses[c] /\ ThreadFree /\ CanOpen
  /\ OpenSocket("listener")
  /\ hold' = [hold EXCEPT ![c] = @ \cup {NewHandle}]
  /\ UNCHANGED <<uses, chan, worker, state, callers, answer, file, sent, history>>

\* Callers with a write that is not sent yet.
Writing == {c \in Callers : pc[c] = "sending" /\ call[c].op = "write_file"}

Begin(c, op, h) ==
  /\ pc[c] = "idle" /\ ThreadFree /\ state[EngineOf(op)] = "up"
  /\ op = "write_file" => sent + Cardinality(Writing) < MaxWrites
  /\ pc' = [pc EXCEPT ![c] = "sending"]
  /\ call' = [call EXCEPT ![c] = [op |-> op, by |-> c, handle |-> h, upto |-> 0,
                                  live |-> TRUE]]
  /\ misused' = (misused \/ h \in tainted)
  /\ UNCHANGED <<uses, chan, worker, state, answer, sockets, file, hold, sent, skipped, tainted,
                 orphans, dropped>>

\* tx.send(..).await: waits while the channel is full.
Send(c) ==
  LET e == EngineOf(call[c].op)
      n == IF call[c].op = "write_file" THEN sent + 1 ELSE sent
      j == [call[c] EXCEPT !.upto = IF e = "disk" THEN n ELSE 0]
  IN /\ pc[c] = "sending" /\ ThreadFree
     /\ Len(chan[e]) < Capacity
     /\ sent' = n
     /\ chan' = [chan EXCEPT ![e] = Append(@, j)]
     /\ call' = [call EXCEPT ![c] = j]
     /\ pc' = [pc EXCEPT ![c] = "waiting"]
     /\ UNCHANGED <<uses, worker, state, answer, sockets, file, hold, history>>

\* rx.await?
Receive(c) ==
  LET a == answer[c]
      h == call[c].handle
  IN /\ pc[c] = "waiting" /\ a # NoAnswer /\ ThreadFree
     /\ hold' = [hold EXCEPT ![c] = (IF call[c].op = "close" /\ a.ok THEN @ \ {h} ELSE @)
                                    \cup ({a.handle} \ {NoHandle})]
     /\ tainted' = IF ~a.ok \/ call[c].op = "accept" THEN tainted \cup ({h} \ {NoHandle})
                   ELSE IF call[c].op = "close" THEN tainted \ {h} ELSE tainted
     /\ pc' = [pc EXCEPT ![c] = "idle"] /\ call' = [call EXCEPT ![c] = NoJob]
     /\ answer' = [answer EXCEPT ![c] = NoAnswer]
     /\ UNCHANGED <<uses, chan, worker, state, sockets, file, sent, skipped, misused, orphans,
                    dropped>>

\* A dropped call that leaves the oneshot open.
StillLive(c, j) == j

\* What is left of a job when its caller drops the receiver of the oneshot.
Dead(c, j) == IF j # NoJob /\ j.by = c THEN [j EXCEPT !.live = FALSE] ELSE j

\* The call's future is dropped, as a timeout around it does: a job not yet
\* sent is gone, one in the channel stays, an answer not yet taken is lost.
Abandon(c) ==
  /\ pc[c] \in {"sending", "waiting"} /\ ThreadFree
  /\ dropped < MaxDropped /\ dropped' = dropped + 1
  /\ chan' = [e \in Engines |-> [i \in DOMAIN chan[e] |-> Dead(c, chan[e][i])]]
  /\ worker' = [e \in Engines |-> Dead(c, worker[e])]
  /\ tainted' = IF pc[c] = "waiting" THEN tainted \cup ({call[c].handle} \ {NoHandle})
                ELSE tainted
  /\ orphans' = IF answer[c] = NoAnswer THEN orphans
                ELSE orphans \cup ({answer[c].handle[2]} \ {NoSocket})
  /\ pc' = [pc EXCEPT ![c] = "idle"] /\ call' = [call EXCEPT ![c] = NoJob]
  /\ answer' = [answer EXCEPT ![c] = NoAnswer]
  /\ UNCHANGED <<uses, state, sockets, file, hold, sent, skipped, misused>>

\* Drop: abort() ends a worker that waits in recv; the jobs of the channel
\* are dropped with it.  Calls borrow the engine: none is under way.
DropEngine(e) ==
  /\ state[e] = "up" /\ ThreadFree
  /\ \A c \in Callers : pc[c] # "idle" => EngineOf(call[c].op) # e
  /\ state' = [state EXCEPT ![e] = IF worker[e] = NoJob THEN "down" ELSE "aborting"]
  /\ chan' = IF worker[e] = NoJob THEN [chan EXCEPT ![e] = <<>>] ELSE chan
  /\ UNCHANGED <<uses, worker, callers, answer, sockets, file, hold, sent, history>>

-----------------------------------------------------------------------------
(* Workers.                                                                 *)

\* A worker that takes the newest job first.
RecvNewest(e) ==
  /\ worker[e] = NoJob /\ chan[e] # <<>> /\ ThreadFree
  /\ worker' = [worker EXCEPT ![e] = chan[e][Len(chan[e])]]
  /\ chan' = [chan EXCEPT ![e] = SubSeq(@, 1, Len(@) - 1)]
  /\ UNCHANGED <<uses, state, callers, answer, sockets, file, hold, sent, history>>

\* A worker that leaves its job at the head of the channel.
RecvKeeps(e) ==
  /\ worker[e] = NoJob /\ chan[e] # <<>> /\ ThreadFree
  /\ worker' = [worker EXCEPT ![e] = Head(chan[e])]
  /\ UNCHANGED <<uses, chan, state, callers, answer, sockets, file, hold, sent, history>>

\* rx.recv().await: with a job at hand the worker goes on, aborted or not.
Recv(e) ==
  /\ worker[e] = NoJob /\ chan[e] # <<>> /\ ThreadFree
  /\ worker' = [worker EXCEPT ![e] = Head(chan[e])]
  /\ chan' = [chan EXCEPT ![e] = Tail(@)]
  /\ UNCHANGED <<uses, state, callers, answer, sockets, file, hold, sent, history>>

\* The abort takes hold when the worker next yields.
Aborted(e) ==
  /\ state[e] = "aborting" /\ worker[e] = NoJob
  /\ state' = [state EXCEPT ![e] = "down"]
  /\ chan' = [chan EXCEPT ![e] = <<>>]
  /\ UNCHANGED <<uses, worker, callers, answer, sockets, file, hold, sent, history>>

\* callback(result): `let _ = tx.send(..)`, nobody may be there to take it.
Callback(e, ok, seen, h) ==
  LET j == worker[e]
  IN /\ worker' = [worker EXCEPT ![e] = NoJob]
     /\ answer' = IF j.live
                  THEN [answer EXCEPT ![j.by] = [ok |-> ok, seen |-> seen, handle |-> h]]
                  ELSE answer
     /\ orphans' = IF j.live THEN orphans ELSE orphans \cup ({h[2]} \ {NoSocket})

At(e, ops) == worker[e].op \in ops

\* What the worker of the disk engine does with its job, then the callback.
DiskDone(ok, seen, contents) ==
  /\ file' = contents
  /\ skipped' = IF At("disk", {"write_file"}) /\ contents # worker["disk"].upto
                THEN skipped \cup {worker["disk"].upto} ELSE skipped
  /\ Callback("disk", ok, seen, NoHandle)
  /\ UNCHANGED <<uses, chan, state, callers, sockets, hold, sent, tainted, misused, dropped>>

\* open, seek, read or sync_all fails; there may be no file to open.
ReadFails == At("disk", {"read_file", "sync_file"}) /\ DiskDone(FALSE, Absent, file)

\* A failed write may have created the file, and may have stored a part.
WriteFails ==
  /\ At("disk", {"write_file"})
  /\ \E contents \in {file, worker["disk"].upto} \cup (IF file = Absent THEN {0} ELSE {}) :
       DiskDone(FALSE, Absent, contents)

ReadFile ==
  At("disk", {"read_file", "sync_file"}) /\ file # Absent /\ DiskDone(TRUE, file, file)

WriteFile == At("disk", {"write_file"}) /\ DiskDone(TRUE, Absent, worker["disk"].upto)

CloseFile == At("disk", {"close_file"}) /\ DiskDone(TRUE, Absent, file)

\* The worker of the network engine has done its system call: the callback.
NetDone(ok, h) ==
  /\ Callback("net", ok, Absent, h)
  /\ UNCHANGED <<uses, chan, state, callers, file, hold, sent, skipped, tainted, misused,
                 dropped>>

\* The descriptor of the worker's job, and what it is by now.
JobFd  == worker["net"].handle[1]
Target == kind[JobFd]

\* The TcpStream or TcpListener made by from_raw_fd is dropped.
CloseFd ==
  /\ table' = [table EXCEPT ![JobFd] = NoSocket]
  /\ kind' = [kind EXCEPT ![JobFd] = "closed"]
  /\ UNCHANGED made

\* The new stream is forgotten; the listener is dropped, which closes it.
Accept ==
  /\ At("net", {"accept"}) /\ Target = "listener" /\ CanOpen
  /\ table' = [table EXCEPT ![LowestFd] = NextSocket, ![JobFd] = NoSocket]
  /\ kind' = [kind EXCEPT ![LowestFd] = "accepted", ![JobFd] = "closed"]
  /\ made' = NextSocket
  /\ NetDone(TRUE, NewHandle)

Connect ==
  At("net", {"connect"}) /\ CanOpen /\ OpenSocket("connected") /\ NetDone(TRUE, NewHandle)

\* A transfer that drops the stream when it has succeeded, too.
TransferDrops ==
  /\ At("net", {"transfer"}) /\ Target \in {"accepted", "connected"}
  /\ CloseFd /\ NetDone(TRUE, NoHandle)

\* read or write: the stream is forgotten again.
Transfer ==
  /\ At("net", {"transfer"}) /\ Target \in {"accepted", "connected"}
  /\ NetDone(TRUE, NoHandle) /\ UNCHANGED sockets

\* A close that forgets the stream.
CloseForgets == At("net", {"close"}) /\ NetDone(TRUE, NoHandle) /\ UNCHANGED sockets

Close == At("net", {"close"}) /\ CloseFd /\ NetDone(TRUE, NoHandle)

\* A worker that tries a failed operation again.
NetRetries == At("net", OnSocket \ {"close"}) /\ UNCHANGED vars

\* WouldBlock, a peer's reset, a descriptor of the wrong kind, none at all:
\* the stream or listener is dropped with the error.
NetFails == At("net", OnSocket \ {"close"}) /\ CloseFd /\ NetDone(FALSE, NoHandle)

ConnectFails == At("net", {"connect"}) /\ NetDone(FALSE, NoHandle) /\ UNCHANGED sockets

-----------------------------------------------------------------------------
\* The worker is in a system call that ends when a peer does something.
NetBlocked ==
  \/ At("net", {"accept"}) /\ Target = "listener"
  \/ At("net", {"transfer"}) /\ Target = "accepted"

DiskWork == ReadFile \/ ReadFails \/ WriteFile \/ WriteFails \/ CloseFile
NetWork  == Accept \/ Connect \/ ConnectFails \/ Transfer \/ Close \/ NetFails

Next ==
  \/ \E c \in Callers :
       \/ Listen(c) \/ Send(c) \/ Receive(c) \/ Abandon(c)
       \/ \E op \in uses[c] \ OnSocket : Begin(c, op, NoHandle)
       \/ \E op \in uses[c] \cap OnSocket, h \in hold[c] : Begin(c, op, h)
  \/ \E e \in Engines : Recv(e) \/ Aborted(e) \/ DropEngine(e)
  \/ DiskWork \/ NetWork

Spec == Init /\ [][Next]_vars

\* A task that can run gets a thread when threads come free again and again
\* (tokio's run queue), a waiting send gets its turn (its semaphore is fair), and
\* system calls end unless they wait for a peer.
FairSpec ==
  /\ Spec
  /\ \A c \in Callers : SF_vars(Send(c) \/ Receive(c))
  /\ \A e \in Engines : WF_vars(Recv(e))
  /\ WF_vars(DiskWork) /\ WF_vars(~NetBlocked /\ NetWork)

-----------------------------------------------------------------------------
(* Properties.                                                              *)

\* Every variable has its type; an answer is only ever there for a caller that
\* waits for it, so no call gets the answer of an earlier one that was dropped.
TypeOK ==
  /\ uses \in Scenarios
  /\ chan \in [Engines -> Seq(Jobs)] /\ \A e \in Engines : Len(chan[e]) <= Capacity
  /\ worker \in [Engines -> Jobs \cup {NoJob}]
  /\ state \in [Engines -> {"up", "aborting", "down"}]
  /\ pc \in [Callers -> {"idle", "sending", "waiting"}]
  /\ call \in [Callers -> Jobs \cup {NoJob}]
  /\ answer \in [Callers -> Answers \cup {NoAnswer}]
  /\ table \in [Fds -> Sockets \cup {NoSocket}]
  /\ kind \in [Fds -> {"closed", "listener", "accepted", "connected"}] /\ made \in 0..MaxSockets
  /\ file \in Stamps \cup {Absent}
  /\ hold \in [Callers -> SUBSET Handles]
  /\ sent \in Stamps /\ skipped \subseteq Stamps
  /\ tainted \subseteq Handles /\ misused \in BOOLEAN /\ orphans \subseteq Sockets
  /\ dropped \in 0..MaxDropped
  /\ \A c \in Callers : answer[c] # NoAnswer => pc[c] = "waiting"

\* A job is where its caller's oneshot says it is: a caller that waits has one
\* job in the channel or at the worker, or its own answer, and never two of them.
\* Calls that were dropped leave jobs behind, which answer nobody.
OneAnswerPerCall ==
  \A c \in Callers :
    LET mine(j) == j # NoJob /\ j.by = c /\ j.live
        places  == {p \in Engines \X (1..Capacity) :
                      p[2] <= Len(chan[p[1]]) /\ mine(chan[p[1]][p[2]])}
                   \cup {<<e, 0>> : e \in {e \in Engines : mine(worker[e])}}
                   \cup (IF answer[c] # NoAnswer THEN {<<"answer", 0>>} ELSE {})
    IN Cardinality(places) = IF pc[c] = "waiting" THEN 1 ELSE 0

\* read_file and sync_file see the newest write sent before them and none sent
\* after them, also when a write was dropped by its caller and still lay in the
\* channel then; only a write that failed without storing anything is passed over.
AnswersInOrder ==
  \A c \in Callers :
    answer[c] # NoAnswer /\ answer[c].ok /\ call[c].op \in {"read_file", "sync_file"} =>
      LET stored == (0..call[c].upto) \ skipped
      IN answer[c].seen \in stored /\ \A n \in stored : n <= answer[c].seen

\* A job reaches the socket its caller means, although descriptors are reused, as
\* long as no caller goes on with a handle that an accept, an error or a
\* dropped call has cost it: the engine closes such descriptors by itself.
OwnSocket ==
  ~misused =>
    /\ \A c \in Callers : \A h \in hold[c] \ tainted :
         pc[c] = "idle" \/ call[c].handle # h => table[h[1]] = h[2]
    /\ \A e \in Engines : \A i \in DOMAIN chan[e] :
         chan[e][i].handle # NoHandle => table[chan[e][i].handle[1]] = chan[e][i].handle[2]

\* A descriptor that is open is one a caller has or is about to get, or it was
\* made for a call that nobody waits for any more: accept and connect leak
\* only when they are dropped.
NoLeak ==
  \A d \in Fds : table[d] # NoSocket =>
    \/ \E c \in Callers : <<d, table[d]>> \in hold[c]
    \/ \E c \in Callers : answer[c] # NoAnswer /\ answer[c].handle = <<d, table[d]>>
    \/ table[d] \in orphans

InCall(c, e) == pc[c] # "idle" /\ EngineOf(call[c].op) = e

\* A call of the disk engine returns, also while the network engine's worker
\* waits in a system call for a peer that never comes: the runtime has two worker
\* threads or more, and the network engine's worker holds one of them.
DiskCallsReturn == \A c \in Callers : []<>~InCall(c, "disk")

\* A call of the network engine returns, however many calls share the channel,
\* unless the one worker stays in a system call that no peer ever ends.
NetCallsReturn == <>[]NetBlocked \/ \A c \in Callers : []<>~InCall(c, "net")

=============================================================================
