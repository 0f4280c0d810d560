----------------------------- MODULE NetEngine -----------------------------
(***************************************************************************)
(* NetworkEngine of elgate-core/src/net/io_uring.rs: accept, connect, read, *)
(* write, close and Drop.  The engine's streams cannot leave the thread     *)
(* they were made on, so every call is a task of one executor: what a call  *)
(* does between two awaits is one action, and a task that waits for the     *)
(* std::sync::Mutex of the connection cache stops the whole thread.         *)
(*                                                                          *)
(* The kernel's descriptor table is part of the state, because the engine   *)
(* hands out bare descriptor numbers: a new socket takes the lowest free    *)
(* one.  A socket has a number of its own, which is never used again, so    *)
(* that a descriptor that has changed hands shows.                          *)
(***************************************************************************)
EXTENDS Naturals

CONSTANTS
  Tasks,        \* callers of the engine
  NoTask,
  Addrs,        \* remote addresses, the keys of `connections`
  NoAddr,
  MaxFd,        \* bound: descriptors of the process
  MaxSockets    \* bound: sockets made in a behaviour

ASSUME EngineAssumption ==
  /\ NoTask \notin Tasks /\ NoAddr \notin Addrs
  /\ MaxFd \in Nat /\ MaxSockets \in Nat

VARIABLES
  table,       \* the descriptor table: socket behind each descriptor, or Closed
  made,        \* sockets made so far
  connections, \* the connection cache: a stream for each address, or NoStream
  guard,       \* the task that holds the cache's mutex
  stuck,       \* the task that waits for it, and keeps the thread
  alive,       \* FALSE when the engine has been dropped
  pc, target, stream, bound,   \* each call: section, address, stream, listener
  handle,      \* the descriptor connect or accept returned to the caller
  listener,    \* the caller's own listening socket
  notice,      \* last notification in the ring about each address
  missed,      \* addresses one of whose notifications the ring refused
  shared,      \* history: an address was connected while it was in use
  strayClose   \* history: a descriptor was closed in place of another one

kernel == <<table, made>>
engine == <<connections, guard, stuck, alive>>
calls  == <<pc, target, stream, bound>>
users  == <<handle, listener>>
ring   == <<notice, missed>>
flags  == <<shared, strayClose>>
vars   == <<kernel, engine, calls, users, ring, flags>>

Fds      == 1..MaxFd
Closed   == 0
Sockets  == 1..MaxSockets
Streams  == [fd : Fds, socket : Sockets]
NoStream == [fd |-> 0, socket |-> 0]

InData   == {"reading", "writing"}
Labels   == {"idle", "connecting", "accepting", "accepted"} \cup InData
Openings == {"NetworkSend", "NetworkReceive"}
Notices  == {"none", "NetworkClose"} \cup Openings

Init ==
  /\ table = [f \in Fds |-> Closed] /\ made = 0
  /\ connections = [a \in Addrs |-> NoStream]
  /\ guard = NoTask /\ stuck = NoTask /\ alive = TRUE
  /\ pc = [t \in Tasks |-> "idle"]
  /\ target = [t \in Tasks |-> NoAddr]
  /\ stream = [t \in Tasks |-> NoStream]
  /\ bound = [t \in Tasks |-> NoStream]
  /\ handle = [t \in Tasks |-> NoStream]
  /\ listener = [t \in Tasks |-> NoStream]
  /\ notice = [a \in Addrs |-> "none"] /\ missed = {}
  /\ shared = FALSE /\ strayClose = FALSE

-----------------------------------------------------------------------------
(* Descriptors.                                                             *)

CanOpen == made < MaxSockets /\ \E f \in Fds : table[f] = Closed

LowestFree == CHOOSE f \in Fds :
                table[f] = Closed /\ \A g \in Fds : table[g] = Closed => f <= g

\* The stream for the next socket, and the table with it.
Fresh   == [fd |-> LowestFree, socket |-> made + 1]
Opening == table' = [table EXCEPT ![LowestFree] = made + 1] /\ made' = made + 1

\* The table when the owners of these streams have been dropped: close(2) goes
\* by the number, whatever socket is behind it by now.
Closing(streams) ==
  [f \in Fds |-> IF \E s \in streams : s.fd = f THEN Closed ELSE table[f]]

Stray(s) == s # NoStream /\ table[s.fd] \notin {Closed, s.socket}

-----------------------------------------------------------------------------
(* The engine's cache, its lock and its notifications.                      *)

\* A task of a running thread, about to start a call.
Free(t) == stuck = NoTask /\ alive /\ pc[t] = "idle"

\* `self.connections.lock()`: the holder runs on this thread too, so waiting for
\* it stops the thread.
Locking(t, Then) ==
  \/ /\ guard = NoTask
     /\ Then
  \/ /\ guard # NoTask
     /\ stuck' = t
     /\ UNCHANGED <<kernel, connections, guard, alive, calls, users, ring, flags>>

\* `let _ = self.ring_buffer.write(..)`: an error is ignored.
Notify(kind, a) ==
  \/ notice' = [notice EXCEPT ![a] = kind] /\ missed' = missed
  \/ notice' = notice /\ missed' = missed \cup {a}

\* An insertion that keeps the stream it replaces open.
InsertBeside(a, s, dropped) ==
  /\ connections' = [connections EXCEPT ![a] = s]
  /\ table' = Closing(dropped)

\* HashMap::insert drops the stream it replaces; `dropped` goes with the call.
Insert(a, s, dropped) ==
  /\ connections' = [connections EXCEPT ![a] = s]
  /\ table' = Closing(dropped \cup {connections[a]})

InUse(a) ==
  \/ connections[a] # NoStream
  \/ \E t \in Tasks : target[t] = a /\ pc[t] \in {"connecting", "accepted"}

Return(t) ==
  /\ pc' = [pc EXCEPT ![t] = "idle"]
  /\ target' = [target EXCEPT ![t] = NoAddr]
  /\ stream' = [stream EXCEPT ![t] = NoStream]
  /\ bound' = [bound EXCEPT ![t] = NoStream]

-----------------------------------------------------------------------------
(* connect.                                                                 *)

\* A connect that locks the cache before it awaits, as read and write do.
StartConnectLocked(t, a) ==
  /\ Free(t) /\ handle[t] = NoStream /\ CanOpen
  /\ Locking(t,
       /\ Opening /\ guard' = t
       /\ pc' = [pc EXCEPT ![t] = "connecting"]
       /\ target' = [target EXCEPT ![t] = a]
       /\ stream' = [stream EXCEPT ![t] = Fresh]
       /\ shared' = (shared \/ InUse(a))
       /\ UNCHANGED <<connections, stuck, alive, bound, users, ring, strayClose>>)

StartConnect(t, a) ==
  /\ Free(t) /\ handle[t] = NoStream /\ CanOpen /\ Opening
  /\ pc' = [pc EXCEPT ![t] = "connecting"]
  /\ target' = [target EXCEPT ![t] = a]
  /\ stream' = [stream EXCEPT ![t] = Fresh]
  /\ shared' = (shared \/ InUse(a))
  /\ UNCHANGED <<engine, bound, users, ring, strayClose>>

\* "Failed to connect": the socket goes with the future.
ConnectFails(t) ==
  /\ stuck = NoTask /\ pc[t] = "connecting"
  /\ table' = Closing({stream[t]})
  /\ Return(t)
  /\ UNCHANGED <<made, engine, users, ring, flags>>

ConnectDone(t) ==
  /\ stuck = NoTask /\ pc[t] = "connecting"
  /\ Locking(t,
       /\ Insert(target[t], stream[t], {})
       /\ Notify("NetworkSend", target[t])
       /\ handle' = [handle EXCEPT ![t] = stream[t]]
       /\ Return(t)
       /\ UNCHANGED <<made, guard, stuck, alive, listener, flags>>)

-----------------------------------------------------------------------------
(* accept.                                                                  *)

\* TcpListener::from_raw_fd owns the caller's descriptor until accept returns.
\* local_addr needs an open socket; bind, on an address that is in use, may fail.
AcceptRefused(t) ==
  /\ Free(t) /\ handle[t] = NoStream /\ listener[t] # NoStream
  /\ table' = Closing({listener[t]})
  /\ strayClose' = (strayClose \/ Stray(listener[t]))
  /\ UNCHANGED <<made, engine, calls, users, ring, shared>>

StartAccept(t) ==
  /\ Free(t) /\ handle[t] = NoStream /\ listener[t] # NoStream
  /\ table[listener[t].fd] # Closed
  /\ CanOpen /\ Opening
  /\ pc' = [pc EXCEPT ![t] = "accepting"]
  /\ bound' = [bound EXCEPT ![t] = Fresh]
  /\ UNCHANGED <<engine, target, stream, users, ring, flags>>

\* The kernel completes the accept: the descriptor is there before the task runs.
PeerArrives(t, a) ==
  /\ pc[t] = "accepting" /\ CanOpen /\ Opening
  /\ pc' = [pc EXCEPT ![t] = "accepted"]
  /\ target' = [target EXCEPT ![t] = a]
  /\ stream' = [stream EXCEPT ![t] = Fresh]
  /\ shared' = (shared \/ InUse(a))
  /\ UNCHANGED <<engine, bound, users, ring, strayClose>>

\* "Failed to accept connection".
AcceptFails(t) ==
  /\ stuck = NoTask /\ pc[t] = "accepting"
  /\ table' = Closing({bound[t], listener[t]})
  /\ strayClose' = (strayClose \/ Stray(listener[t]))
  /\ Return(t)
  /\ UNCHANGED <<made, engine, users, ring, shared>>

\* The return drops `listener` and `std_listener` with their descriptors.
AcceptDone(t) ==
  /\ stuck = NoTask /\ pc[t] = "accepted"
  /\ Locking(t,
       /\ Insert(target[t], stream[t], {bound[t], listener[t]})
       /\ Notify("NetworkReceive", target[t])
       /\ strayClose' = (strayClose \/ Stray(listener[t]))
       /\ handle' = [handle EXCEPT ![t] = stream[t]]
       /\ Return(t)
       /\ UNCHANGED <<made, guard, stuck, alive, listener, shared>>)

-----------------------------------------------------------------------------
(* read and write.                                                          *)

\* The addresses whose stream has the descriptor: the iteration stops at one.
Found(fd) == {a \in Addrs : connections[a].fd = fd}

\* A read or write that gives the lock back before it awaits.
StartDataUnlocked(t, section) ==
  /\ Free(t) /\ handle[t] # NoStream
  /\ Locking(t, \E a \in Found(handle[t].fd) :
       /\ pc' = [pc EXCEPT ![t] = section]
       /\ target' = [target EXCEPT ![t] = a]
       /\ UNCHANGED <<kernel, engine, stream, bound, users, ring, flags>>)

\* "No connection found for fd" changes nothing.  The second lock, on the stream,
\* is held across the await.
StartData(t, section) ==
  /\ Free(t) /\ handle[t] # NoStream
  /\ Locking(t, \E a \in Found(handle[t].fd) :
       /\ guard' = t
       /\ pc' = [pc EXCEPT ![t] = section]
       /\ target' = [target EXCEPT ![t] = a]
       /\ UNCHANGED <<kernel, connections, stuck, alive, stream, bound, users,
                      ring, flags>>)

StartRead(t)  == StartData(t, "reading")
StartWrite(t) == StartData(t, "writing")

DataDone(t, section, kind) ==
  /\ stuck = NoTask /\ pc[t] = section
  /\ guard' = NoTask
  /\ Notify(kind, target[t])
  /\ Return(t)
  /\ UNCHANGED <<kernel, connections, stuck, alive, users, flags>>

ReadDone(t)  == DataDone(t, "reading", "NetworkReceive")
WriteDone(t) == DataDone(t, "writing", "NetworkSend")

\* An error return that loses the guard.
DataFailsLocked(t) ==
  /\ stuck = NoTask /\ pc[t] \in InData
  /\ Return(t)
  /\ UNCHANGED <<kernel, engine, users, ring, flags>>

\* "Failed to read from socket", "Failed to write to socket".
DataFails(t) ==
  /\ stuck = NoTask /\ pc[t] \in InData
  /\ guard' = NoTask
  /\ Return(t)
  /\ UNCHANGED <<kernel, connections, stuck, alive, users, ring, flags>>

-----------------------------------------------------------------------------
(* close, Drop, and the caller's listener.                                  *)

Remove(t, addrs) ==
  /\ handle' = [handle EXCEPT ![t] = NoStream]
  /\ \/ \E a \in addrs :
          /\ connections' = [connections EXCEPT ![a] = NoStream]
          /\ table' = Closing({connections[a]})
          /\ Notify("NetworkClose", a)
     \/ /\ addrs = {}
        /\ UNCHANGED <<connections, table, ring>>
  /\ UNCHANGED <<made, guard, stuck, alive, calls, listener, flags>>

\* A close that takes the first stream of the cache.
CloseFirst(t) ==
  /\ Free(t) /\ handle[t] # NoStream
  /\ Locking(t, Remove(t, {a \in Addrs : connections[a] # NoStream}))

\* close locks the cache twice with nothing awaited in between.
Close(t) ==
  /\ Free(t) /\ handle[t] # NoStream
  /\ Locking(t, Remove(t, Found(handle[t].fd)))

\* Drop of the engine: no call is in flight, and nothing is notified.
DropEngine ==
  /\ stuck = NoTask /\ alive /\ \A t \in Tasks : pc[t] = "idle"
  /\ alive' = FALSE
  /\ table' = Closing({connections[a] : a \in Addrs})
  /\ connections' = [a \in Addrs |-> NoStream]
  /\ UNCHANGED <<made, guard, stuck, calls, users, ring, flags>>

OpenListener(t) ==
  /\ Free(t) /\ listener[t] = NoStream /\ CanOpen /\ Opening
  /\ listener' = [listener EXCEPT ![t] = Fresh]
  /\ UNCHANGED <<engine, calls, handle, ring, flags>>

\* The caller drops the listener whose descriptor it passed to accept, as the
\* tests do.
DropListener(t) ==
  /\ stuck = NoTask /\ pc[t] = "idle" /\ listener[t] # NoStream
  /\ table' = Closing({listener[t]})
  /\ strayClose' = (strayClose \/ Stray(listener[t]))
  /\ listener' = [listener EXCEPT ![t] = NoStream]
  /\ UNCHANGED <<made, engine, calls, handle, ring, shared>>

Next ==
  \/ \E t \in Tasks :
       \/ \E a \in Addrs : StartConnect(t, a) \/ PeerArrives(t, a)
       \/ ConnectFails(t) \/ ConnectDone(t)
       \/ AcceptRefused(t) \/ StartAccept(t) \/ AcceptFails(t) \/ AcceptDone(t)
       \/ StartRead(t) \/ StartWrite(t) \/ ReadDone(t) \/ WriteDone(t) \/ DataFails(t)
       \/ Close(t)
       \/ OpenListener(t) \/ DropListener(t)
  \/ DropEngine

Spec == Init /\ [][Next]_vars

-----------------------------------------------------------------------------
(* Properties.                                                              *)

\* Every variable has its type, and the mutex is held by the data call that is
\* in flight, if there is one, and by nobody else: no error path loses it.
TypeOK ==
  /\ table \in [Fds -> Sockets \cup {Closed}] /\ made \in 0..MaxSockets
  /\ connections \in [Addrs -> Streams \cup {NoStream}]
  /\ guard \in Tasks \cup {NoTask} /\ stuck \in Tasks \cup {NoTask}
  /\ alive \in BOOLEAN
  /\ pc \in [Tasks -> Labels]
  /\ target \in [Tasks -> Addrs \cup {NoAddr}]
  /\ stream \in [Tasks -> Streams \cup {NoStream}]
  /\ bound \in [Tasks -> Streams \cup {NoStream}]
  /\ handle \in [Tasks -> Streams \cup {NoStream}]
  /\ listener \in [Tasks -> Streams \cup {NoStream}]
  /\ notice \in [Addrs -> Notices] /\ missed \subseteq Addrs
  /\ shared \in BOOLEAN /\ strayClose \in BOOLEAN
  /\ \A t \in Tasks : guard = t <=> pc[t] \in InData

\* The descriptor a caller was given leads read, write and close to the stream it
\* was given for, until the caller closes it, however many other connections
\* come and go; two connections to one address at a time void that.
HandleMeansConnection ==
  alive /\ ~shared /\ ~strayClose =>
    \A t \in Tasks : handle[t] # NoStream =>
      \E a \in Addrs : connections[a] = handle[t] /\ Found(handle[t].fd) = {a}

\* s is open under its own descriptor.
IsOpen(s) == table[s.fd] = s.socket

\* The cache and the calls hold what they think they hold, and the whole descriptor
\* table is accounted for: a cached stream ("Connection cache to maintain open
\* handles"), the stream of a call across its await and the listener an accept has
\* bound have their own sockets behind their descriptors, and every open
\* descriptor has an owner, so that no error path, replacement or drop of the
\* engine leaks one.  Of a caller's listener nothing of the kind is said: accept
\* closes it (ListenerStaysOpen).  Somebody closing a number that is no longer
\* theirs (accept and its caller can, between them) voids all of it.
DescriptorsOwned ==
  ~strayClose =>
    /\ \A a \in Addrs : connections[a] # NoStream => IsOpen(connections[a])
    /\ \A t \in Tasks : \A s \in {stream[t], bound[t]} \ {NoStream} : IsOpen(s)
    /\ \A f \in Fds : table[f] # Closed =>
         LET s == [fd |-> f, socket |-> table[f]]
         IN \/ \E a \in Addrs : connections[a] = s
            \/ \E t \in Tasks : s \in {stream[t], bound[t], listener[t]}

\* What the ring last said of an address agrees with the cache, whatever the
\* order in which calls on it end: a read or write never reports on an address
\* after its close.
NoticesTrackCache ==
  alive => \A a \in Addrs \ missed :
    connections[a] # NoStream <=> notice[a] \in Openings

\* Only a read or write in flight makes another task stop the thread.
StuckBehindData ==
  stuck # NoTask => guard \notin {NoTask, stuck} /\ pc[guard] \in InData

\* accept leaves the caller's listening socket as it was (io_uring.rs:132:
\* "Important: Don't close the original fd").
ListenerStaysOpen ==
  \A t \in Tasks : listener[t] # NoStream =>
    table[listener[t].fd] = listener[t].socket

=============================================================================
