-------------------------- MODULE NetEngineProofs --------------------------
(***************************************************************************)
(* Theorems about the network engine of NetEngine.tla, for every number of  *)
(* tasks, addresses, descriptors and sockets.                               *)
(***************************************************************************)
EXTENDS NetEngine, WellFoundedInduction, TLAPS

-----------------------------------------------------------------------------
(* The inductive invariant.                                                 *)

\* What each section of a call has in hand.
CallShape ==
  \A t \in Tasks :
    /\ stream[t] # NoStream => pc[t] \in {"connecting", "accepted"}
    /\ pc[t] \in {"connecting", "accepted"} => stream[t] \in Streams /\ target[t] \in Addrs
    /\ bound[t] # NoStream => pc[t] \in {"accepting", "accepted"}
    /\ pc[t] \in {"accepting", "accepted"} => bound[t] \in Streams /\ listener[t] \in Streams
    /\ pc[t] \in InData => target[t] \in Addrs /\ connections[target[t]] # NoStream

\* Socket numbers are handed out once.
Numbered ==
  /\ \A f \in Fds : table[f] <= made
  /\ \A a \in Addrs : connections[a].socket <= made
  /\ \A t \in Tasks :
       /\ stream[t].socket <= made /\ bound[t].socket <= made
       /\ handle[t].socket <= made /\ listener[t].socket <= made

\* A stream has one owner: the cache, a call or the caller's listener; and one caller.
OneOwner ==
  /\ \A a, b \in Addrs : connections[a] # NoStream /\ connections[a] = connections[b] => a = b
  /\ \A a \in Addrs, t \in Tasks :
       connections[a] # NoStream => connections[a] \notin {stream[t], bound[t], listener[t]}
  /\ \A t, u \in Tasks :
       /\ stream[t] # NoStream => stream[t] \notin {bound[u], listener[u], handle[u]}
       /\ stream[t] # NoStream /\ stream[t] = stream[u] => t = u
       /\ bound[t] # NoStream => bound[t] # listener[u]
       /\ bound[t] # NoStream /\ bound[t] = bound[u] => t = u
       /\ handle[t] # NoStream /\ handle[t] = handle[u] => t = u

\* A stream that the cache or a call owns is open, under its own descriptor.
Owned(s) == \/ \E a \in Addrs : connections[a] = s
            \/ \E t \in Tasks : s \in {stream[t], bound[t]}
OwnedOpen == ~strayClose => \A s \in Streams : Owned(s) => table[s.fd] = s.socket

\* And a descriptor that is open is owned.
Owner(s)  == Owned(s) \/ \E t \in Tasks : s = listener[t]
OpenOwned == ~strayClose => \A s \in Streams : table[s.fd] = s.socket => Owner(s)

\* As long as no address has been connected while it was in use, a connection on its
\* way to the cache finds no other one there, or on its way.
AddressesApart ==
  ~shared =>
    \A t \in Tasks : pc[t] \in {"connecting", "accepted"} =>
      /\ connections[target[t]] = NoStream
      /\ \A u \in Tasks \ {t} : pc[u] \in {"connecting", "accepted"} => target[u] # target[t]

\* And the stream behind a handle is in the cache, if nobody closed a stray number.
HandlesCached ==
  alive /\ ~shared /\ ~strayClose =>
    \A t \in Tasks : handle[t] # NoStream => \E a \in Addrs : connections[a] = handle[t]

IInv ==
  /\ TypeOK /\ CallShape /\ Numbered /\ OneOwner /\ OwnedOpen /\ OpenOwned
  /\ AddressesApart /\ HandlesCached /\ NoticesTrackCache /\ StuckBehindData

-----------------------------------------------------------------------------
(* Descriptors.                                                             *)

\* A set of numbers that is not empty has a smallest one.
LEMMA SmallestOf ==
  ASSUME NEW T, T \subseteq Nat, T # {}
  PROVE  \E x \in T : \A y \in T : x <= y
<1> DEFINE R == {ss \in Nat \X Nat : ss[1] < ss[2]}
<1>1. IsWellFoundedOn(R, Nat)
  BY NatLessThanWellFounded, Zenon DEF OpToRel
<1>2. PICK x \in T : \A y \in T : <<y, x>> \notin R
  <2> HIDE DEF R
  <2> QED BY <1>1, WFMin
<1>3. \A y \in T : ~(y < x)
  BY <1>2
<1> QED BY <1>2, <1>3

\* open(2) finds a free descriptor when there is one.
LEMMA FreshStream ==
  ASSUME TypeOK, CanOpen
  PROVE  /\ LowestFree \in Fds /\ table[LowestFree] = Closed
         /\ made + 1 \in Sockets /\ Fresh \in Streams
         /\ Fresh.fd = LowestFree /\ Fresh.socket = made + 1
<1> DEFINE free == {f \in Fds : table[f] = Closed}
<1>1. free # {} /\ free \subseteq Nat
  BY EngineAssumption DEF CanOpen, Fds
<1>2. \E f \in free : \A g \in free : f <= g
  BY <1>1, SmallestOf
<1>3. LowestFree \in Fds /\ table[LowestFree] = Closed
  BY <1>2 DEF LowestFree
<1>4. made + 1 \in Sockets
  BY EngineAssumption DEF TypeOK, CanOpen, Sockets
<1> QED BY <1>3, <1>4 DEF Fresh, Streams

\* A new socket, taken by a call or a caller.
LEMMA OpenKept ==
  ASSUME TypeOK, OwnedOpen, OpenOwned, NEW new \in Streams, table[new.fd] = Closed,
         table' = [table EXCEPT ![new.fd] = new.socket], UNCHANGED strayClose,
         \A s \in Streams : Owned(s)' => Owned(s) \/ s = new,
         \A s \in Streams : Owner(s) => Owner(s)',
         Owner(new)'
  PROVE  OwnedOpen' /\ OpenOwned'
<1> SUFFICES ASSUME ~strayClose', NEW s \in Streams
             PROVE  /\ Owned(s)' => table'[s.fd] = s.socket
                    /\ table'[s.fd] = s.socket => Owner(s)'
  BY DEF OwnedOpen, OpenOwned
<1>1. /\ table \in [Fds -> Sockets \cup {Closed}] /\ new.fd \in Fds /\ new.socket \in Sockets
      /\ s.fd \in Fds /\ s.socket \in Sockets /\ Closed \notin Sockets
      /\ s.fd = new.fd /\ s.socket = new.socket => s = new
  BY DEF TypeOK, Streams, Sockets, Closed
<1>2. CASE s.fd = new.fd
  BY <1>1, <1>2 DEF OwnedOpen
<1>3. CASE s.fd # new.fd
  BY <1>1, <1>3 DEF OwnedOpen, OpenOwned
<1> QED BY <1>2, <1>3

\* The owners of these streams are dropped, and nobody else's number with them.
LEMMA CloseKept ==
  ASSUME TypeOK, OwnedOpen, OpenOwned, NEW S \in SUBSET (Streams \cup {NoStream}),
         ~strayClose' => ~strayClose /\ \A r \in S : ~Stray(r),
         table' = Closing(S),
         \A s \in Streams : Owned(s)' => Owned(s) /\ s \notin S,
         \A s \in Streams : Owner(s) => Owner(s)' \/ s \in S
  PROVE  OwnedOpen' /\ OpenOwned'
<1> SUFFICES ASSUME ~strayClose', NEW s \in Streams
             PROVE  /\ Owned(s)' => table'[s.fd] = s.socket
                    /\ table'[s.fd] = s.socket => Owner(s)'
  BY DEF OwnedOpen, OpenOwned
<1>1. /\ table \in [Fds -> Sockets \cup {Closed}] /\ Closed \notin Sockets
      /\ s.fd \in Fds /\ s.socket \in Sockets
  BY DEF TypeOK, Streams, Sockets, Closed
<1>2. table'[s.fd] = IF \E r \in S : r.fd = s.fd THEN Closed ELSE table[s.fd]
  BY <1>1 DEF Closing
<1>3. ASSUME Owned(s)' PROVE table'[s.fd] = s.socket
  <2>1. table[s.fd] = s.socket /\ s \notin S
    BY <1>3 DEF OwnedOpen
  <2>2. ASSUME NEW r \in S, r.fd = s.fd PROVE FALSE
    <3>1. r \in Streams
      BY <1>1, <2>2 DEF Fds, NoStream
    <3>2. r # NoStream
      BY <3>1 DEF Streams, NoStream, Fds
    <3>3. r.socket = s.socket
      BY <1>1, <2>1, <2>2, <3>2 DEF Stray
    <3>4. r = s
      BY <2>2, <3>1, <3>3 DEF Streams
    <3> QED BY <2>1, <3>4
  <2> QED BY <1>2, <2>1, <2>2
<1>4. ASSUME table'[s.fd] = s.socket PROVE Owner(s)'
  <2>1. s \notin S /\ table[s.fd] = s.socket
    BY <1>1, <1>2, <1>4
  <2> QED BY <2>1 DEF OpenOwned
<1> QED BY <1>3, <1>4

\* The property the run checks, from the two halves.
LEMMA OwnedBothWays == TypeOK /\ OwnedOpen /\ OpenOwned => DescriptorsOwned
<1> SUFFICES ASSUME TypeOK, OwnedOpen, OpenOwned, ~strayClose
             PROVE  /\ \A a \in Addrs : connections[a] # NoStream => IsOpen(connections[a])
                    /\ \A t \in Tasks : \A s \in {stream[t], bound[t]} \ {NoStream} : IsOpen(s)
                    /\ \A f \in Fds : table[f] # Closed =>
                         LET s == [fd |-> f, socket |-> table[f]]
                         IN \/ \E a \in Addrs : connections[a] = s
                            \/ \E t \in Tasks : s \in {stream[t], bound[t], listener[t]}
  BY DEF DescriptorsOwned
<1>1. ASSUME NEW a \in Addrs, connections[a] # NoStream
      PROVE  IsOpen(connections[a])
  BY <1>1 DEF OwnedOpen, Owned, TypeOK, IsOpen
<1>2. ASSUME NEW t \in Tasks, NEW s \in {stream[t], bound[t]} \ {NoStream}
      PROVE  IsOpen(s)
  BY <1>2 DEF OwnedOpen, Owned, TypeOK, IsOpen
<1>3. ASSUME NEW f \in Fds, table[f] # Closed
      PROVE  Owner([fd |-> f, socket |-> table[f]])
  <2>1. [fd |-> f, socket |-> table[f]] \in Streams
    BY <1>3 DEF Streams, TypeOK
  <2> QED BY <2>1 DEF OpenOwned
<1> QED BY <1>1, <1>2, <1>3 DEF Owner, Owned

-----------------------------------------------------------------------------
(* Every action keeps the invariant.                                        *)

\* open(2): the new stream, the table with it, and that nobody has it yet.
Opens(new) ==
  /\ new = Fresh /\ new # NoStream /\ new.socket = made + 1
  /\ table[new.fd] = Closed /\ table' = [table EXCEPT ![new.fd] = new.socket]
  /\ made \in Nat /\ made' = made + 1 /\ made' \in 0..MaxSockets
  /\ table' \in [Fds -> Sockets \cup {Closed}]
  /\ \A f \in Fds : table'[f] <= made'
  /\ \A a \in Addrs : connections[a] # new /\ connections[a].socket <= made'
  /\ \A t \in Tasks :
       /\ new \notin {stream[t], bound[t], handle[t], listener[t]}
       /\ stream[t].socket <= made' /\ bound[t].socket <= made'
       /\ handle[t].socket <= made' /\ listener[t].socket <= made'

LEMMA OpeningStream ==
  ASSUME TypeOK, Numbered, CanOpen, Opening
  PROVE  \E new \in Streams : Opens(new)
<1> DEFINE new == Fresh
<1>1. /\ new \in Streams /\ new.fd \in Fds /\ table[new.fd] = Closed
      /\ new.socket = made + 1 /\ made + 1 \in Sockets
      /\ table' = [table EXCEPT ![new.fd] = new.socket] /\ made' = made + 1
  BY FreshStream DEF Opening
<1> HIDE DEF new
<1>2. made \in Nat /\ made' \in 0..MaxSockets /\ new # NoStream
  BY <1>1, EngineAssumption DEF TypeOK, Sockets, NoStream
<1>3. /\ table \in [Fds -> Sockets \cup {Closed}]
      /\ connections \in [Addrs -> Streams \cup {NoStream}]
      /\ stream \in [Tasks -> Streams \cup {NoStream}]
      /\ bound \in [Tasks -> Streams \cup {NoStream}]
      /\ handle \in [Tasks -> Streams \cup {NoStream}]
      /\ listener \in [Tasks -> Streams \cup {NoStream}]
  BY DEF TypeOK
<1>4. \A s \in Streams \cup {NoStream} : s.socket <= made => s.socket <= made' /\ s # new
  BY <1>1, <1>2 DEF Streams, NoStream, Sockets
<1>5. /\ table' \in [Fds -> Sockets \cup {Closed}]
      /\ \A f \in Fds : table'[f] <= made'
  BY <1>1, <1>2, <1>3 DEF Numbered, Sockets, Closed
<1>6. /\ \A a \in Addrs : connections[a] # new /\ connections[a].socket <= made'
      /\ \A t \in Tasks :
           /\ stream[t] # new /\ bound[t] # new /\ handle[t] # new /\ listener[t] # new
           /\ stream[t].socket <= made' /\ bound[t].socket <= made'
           /\ handle[t].socket <= made' /\ listener[t].socket <= made'
  BY <1>3, <1>4 DEF Numbered
<1> QED BY <1>1, <1>2, <1>5, <1>6 DEF new, Opens

\* A new connection, on its way.
LEMMA StartConnectKeeps ==
  ASSUME IInv, NEW t \in Tasks, NEW a \in Addrs, StartConnect(t, a)
  PROVE  IInv'
<1> USE DEF kernel, engine, calls, users, ring, flags
<1>1. TypeOK /\ CallShape /\ OneOwner /\ Numbered
  BY DEF IInv
<1>2. CanOpen /\ Opening
  BY DEF StartConnect
<1>3. PICK new \in Streams : Opens(new)
  BY <1>1, <1>2, OpeningStream
<1>4. /\ stuck = NoTask /\ pc[t] = "idle" /\ handle[t] = NoStream
      /\ pc' = [pc EXCEPT ![t] = "connecting"] /\ target' = [target EXCEPT ![t] = a]
      /\ stream' = [stream EXCEPT ![t] = new] /\ shared' = (shared \/ InUse(a))
      /\ UNCHANGED <<connections, guard, stuck, alive, bound, handle, listener,
                     notice, missed, strayClose>>
  BY <1>3 DEF StartConnect, Free, Opens
<1>5. TypeOK'
  BY <1>1, <1>3, <1>4 DEF Opens, TypeOK, Labels, InData
<1>6. CallShape'
  BY <1>1, <1>3, <1>4 DEF Opens, TypeOK, CallShape, InData
<1>7. Numbered'
  BY <1>1, <1>3, <1>4 DEF Opens, TypeOK, Numbered
<1>8. OneOwner'
  BY <1>1, <1>3, <1>4 DEF Opens, TypeOK, OneOwner
<1>9. OwnedOpen' /\ OpenOwned'
  <2>1. stream[t] = NoStream /\ NoStream \notin Streams
    BY <1>1, <1>4 DEF CallShape, Streams, NoStream, Fds
  <2>2. \A s \in Streams : Owned(s)' => Owned(s) \/ s = new
    BY <1>1, <1>4 DEF Owned, TypeOK
  <2>3. Owned(new)' /\ \A s \in Streams : Owned(s) => Owned(s)'
    BY <1>1, <1>4, <2>1 DEF Owned, TypeOK
  <2>4. Owner(new)' /\ \A s \in Streams : Owner(s) => Owner(s)'
    BY <1>4, <2>3 DEF Owner
  <2> QED BY <1>1, <1>3, <1>4, <2>2, <2>4, OpenKept DEF Opens, IInv
<1>10. AddressesApart'
  BY <1>1, <1>4 DEF AddressesApart, TypeOK, InUse, IInv
<1>11. HandlesCached' /\ NoticesTrackCache' /\ StuckBehindData'
  BY <1>1, <1>4 DEF HandlesCached, NoticesTrackCache, StuckBehindData, TypeOK, InUse, IInv
<1> QED BY <1>5, <1>6, <1>7, <1>8, <1>9, <1>10, <1>11 DEF IInv

\* accept makes its own listening socket from the caller's.
LEMMA StartAcceptKeeps ==
  ASSUME IInv, NEW t \in Tasks, StartAccept(t)
  PROVE  IInv'
<1> USE DEF kernel, engine, calls, users, ring, flags
<1>1. TypeOK /\ CallShape /\ OneOwner /\ Numbered
  BY DEF IInv
<1>2. CanOpen /\ Opening
  BY DEF StartAccept
<1>3. PICK new \in Streams : Opens(new)
  BY <1>1, <1>2, OpeningStream
<1>4. /\ stuck = NoTask /\ pc[t] = "idle" /\ handle[t] = NoStream /\ listener[t] # NoStream
      /\ pc' = [pc EXCEPT ![t] = "accepting"] /\ bound' = [bound EXCEPT ![t] = new]
      /\ UNCHANGED <<connections, guard, stuck, alive, target, stream, handle, listener,
                     notice, missed, shared, strayClose>>
  BY <1>3 DEF StartAccept, Free, Opens
<1>5. TypeOK'
  BY <1>1, <1>3, <1>4 DEF Opens, TypeOK, Labels, InData
<1>6. CallShape'
  BY <1>1, <1>3, <1>4 DEF Opens, TypeOK, CallShape, InData
<1>7. Numbered'
  BY <1>1, <1>3, <1>4 DEF Opens, TypeOK, Numbered
<1>8. OneOwner'
  BY <1>1, <1>3, <1>4 DEF Opens, TypeOK, OneOwner
<1>9. OwnedOpen' /\ OpenOwned'
  <2>1. bound[t] = NoStream /\ NoStream \notin Streams
    BY <1>1, <1>4 DEF CallShape, Streams, NoStream, Fds
  <2>2. \A s \in Streams : Owned(s)' => Owned(s) \/ s = new
    BY <1>1, <1>4 DEF Owned, TypeOK
  <2>3. Owned(new)' /\ \A s \in Streams : Owned(s) => Owned(s)'
    BY <1>1, <1>4, <2>1 DEF Owned, TypeOK
  <2>4. Owner(new)' /\ \A s \in Streams : Owner(s) => Owner(s)'
    BY <1>4, <2>3 DEF Owner
  <2> QED BY <1>1, <1>3, <1>4, <2>2, <2>4, OpenKept DEF Opens, IInv
<1>10. AddressesApart'
  BY <1>1, <1>4 DEF AddressesApart, TypeOK, IInv
<1>11. HandlesCached' /\ NoticesTrackCache' /\ StuckBehindData'
  BY <1>1, <1>4 DEF HandlesCached, NoticesTrackCache, StuckBehindData, TypeOK, IInv
<1> QED BY <1>5, <1>6, <1>7, <1>8, <1>9, <1>10, <1>11 DEF IInv

\* A peer's connection is there before the task runs, even while the thread is stopped.
LEMMA PeerArrivesKeeps ==
  ASSUME IInv, NEW t \in Tasks, NEW a \in Addrs, PeerArrives(t, a)
  PROVE  IInv'
<1> USE DEF kernel, engine, calls, users, ring, flags
<1>1. TypeOK /\ CallShape /\ OneOwner /\ Numbered
  BY DEF IInv
<1>2. CanOpen /\ Opening
  BY DEF PeerArrives
<1>3. PICK new \in Streams : Opens(new)
  BY <1>1, <1>2, OpeningStream
<1>4. /\ pc[t] = "accepting"
      /\ pc' = [pc EXCEPT ![t] = "accepted"] /\ target' = [target EXCEPT ![t] = a]
      /\ stream' = [stream EXCEPT ![t] = new] /\ shared' = (shared \/ InUse(a))
      /\ UNCHANGED <<connections, guard, stuck, alive, bound, handle, listener,
                     notice, missed, strayClose>>
  BY <1>3 DEF PeerArrives, Opens
<1>5. TypeOK'
  BY <1>1, <1>3, <1>4 DEF Opens, TypeOK, Labels, InData
<1>6. CallShape'
  BY <1>1, <1>3, <1>4 DEF Opens, TypeOK, CallShape, InData
<1>7. Numbered'
  BY <1>1, <1>3, <1>4 DEF Opens, TypeOK, Numbered
<1>8. OneOwner'
  BY <1>1, <1>3, <1>4 DEF Opens, TypeOK, OneOwner
<1>9. OwnedOpen' /\ OpenOwned'
  <2>1. stream[t] = NoStream /\ NoStream \notin Streams
    BY <1>1, <1>4 DEF CallShape, Streams, NoStream, Fds
  <2>2. \A s \in Streams : Owned(s)' => Owned(s) \/ s = new
    BY <1>1, <1>4 DEF Owned, TypeOK
  <2>3. Owned(new)' /\ \A s \in Streams : Owned(s) => Owned(s)'
    BY <1>1, <1>4, <2>1 DEF Owned, TypeOK
  <2>4. Owner(new)' /\ \A s \in Streams : Owner(s) => Owner(s)'
    BY <1>4, <2>3 DEF Owner
  <2> QED BY <1>1, <1>3, <1>4, <2>2, <2>4, OpenKept DEF Opens, IInv
<1>10. AddressesApart'
  BY <1>1, <1>4 DEF AddressesApart, TypeOK, InUse, IInv
<1>11. HandlesCached' /\ NoticesTrackCache' /\ StuckBehindData'
  BY <1>1, <1>4 DEF HandlesCached, NoticesTrackCache, StuckBehindData, TypeOK, InData, IInv
<1> QED BY <1>5, <1>6, <1>7, <1>8, <1>9, <1>10, <1>11 DEF IInv

\* The caller opens a listening socket.
LEMMA OpenListenerKeeps ==
  ASSUME IInv, NEW t \in Tasks, OpenListener(t)
  PROVE  IInv'
<1> USE DEF kernel, engine, calls, users, ring, flags
<1>1. TypeOK /\ CallShape /\ OneOwner /\ Numbered
  BY DEF IInv
<1>2. CanOpen /\ Opening
  BY DEF OpenListener
<1>3. PICK new \in Streams : Opens(new)
  BY <1>1, <1>2, OpeningStream
<1>4. /\ pc[t] = "idle" /\ listener[t] = NoStream /\ listener' = [listener EXCEPT ![t] = new]
      /\ UNCHANGED <<connections, guard, stuck, alive, pc, target, stream, bound, handle,
                     notice, missed, shared, strayClose>>
  BY <1>3 DEF OpenListener, Free, Opens
<1>5. TypeOK'
  BY <1>1, <1>3, <1>4 DEF Opens, TypeOK
<1>6. CallShape'
  BY <1>1, <1>3, <1>4 DEF Opens, TypeOK, CallShape
<1>7. Numbered'
  BY <1>1, <1>3, <1>4 DEF Opens, TypeOK, Numbered
<1>8. OneOwner'
  BY <1>1, <1>3, <1>4 DEF Opens, TypeOK, OneOwner
<1>9. OwnedOpen' /\ OpenOwned'
  <2>1. NoStream \notin Streams
    BY DEF Streams, NoStream, Fds
  <2>2. \A s \in Streams : Owned(s)' <=> Owned(s)
    BY <1>4 DEF Owned
  <2>3. Owner(new)' /\ \A s \in Streams : Owner(s) => Owner(s)'
    BY <1>1, <1>4, <2>1, <2>2 DEF Owner, TypeOK
  <2> QED BY <1>1, <1>3, <1>4, <2>2, <2>3, OpenKept DEF Opens, IInv
<1>10. AddressesApart' /\ HandlesCached' /\ NoticesTrackCache' /\ StuckBehindData'
  BY <1>4 DEF AddressesApart, HandlesCached, NoticesTrackCache, StuckBehindData, IInv
<1> QED BY <1>5, <1>6, <1>7, <1>8, <1>9, <1>10 DEF IInv

\* A task that waits for the mutex stops the thread: only a read or write holds it.
LEMMA StuckKeeps ==
  ASSUME IInv, NEW t \in Tasks, pc[t] \notin InData, guard # NoTask, stuck' = t,
         UNCHANGED <<kernel, connections, guard, alive, calls, users, ring, flags>>
  PROVE  IInv'
<1> USE DEF kernel, calls, users, ring, flags
<1>1. TypeOK'
  BY DEF IInv, TypeOK
<1>2. StuckBehindData'
  BY EngineAssumption DEF IInv, TypeOK, StuckBehindData
<1>3. CallShape' /\ Numbered' /\ OneOwner'
  BY DEF IInv, CallShape, Numbered, OneOwner
<1>4. OwnedOpen' /\ OpenOwned'
  BY DEF IInv, OwnedOpen, OpenOwned, Owned, Owner
<1>5. AddressesApart' /\ HandlesCached' /\ NoticesTrackCache'
  BY DEF IInv, AddressesApart, HandlesCached, NoticesTrackCache
<1> QED BY <1>1, <1>2, <1>3, <1>4, <1>5 DEF IInv

\* The table after a close.
LEMMA ClosingTyped ==
  ASSUME TypeOK, Numbered, NEW S, table' = Closing(S), made' = made
  PROVE  /\ table' \in [Fds -> Sockets \cup {Closed}] /\ made' \in 0..MaxSockets
         /\ \A f \in Fds : table'[f] <= made'
BY EngineAssumption DEF TypeOK, Numbered, Closing, Closed

\* A step that only closes, and moves streams on or drops them, makes no number.
LEMMA NumberedKept ==
  ASSUME TypeOK, Numbered, NEW S, table' = Closing(S), made' = made,
         \A a \in Addrs : \/ connections'[a] \in {connections[a], NoStream}
                          \/ \E t \in Tasks : connections'[a] = stream[t],
         \A t \in Tasks : /\ stream'[t] \in {stream[t], NoStream}
                          /\ bound'[t] \in {bound[t], NoStream}
                          /\ listener'[t] \in {listener[t], NoStream}
                          /\ handle'[t] \in {handle[t], stream[t], NoStream}
  PROVE  Numbered'
<1>1. \A f \in Fds : table'[f] <= made'
  BY ClosingTyped
<1>2. made \in Nat /\ NoStream.socket = 0
  BY EngineAssumption DEF TypeOK, NoStream
<1>3. \A a \in Addrs : connections'[a].socket <= made
  BY <1>2 DEF Numbered
<1>4. \A t \in Tasks : /\ stream'[t].socket <= made /\ bound'[t].socket <= made
                       /\ handle'[t].socket <= made /\ listener'[t].socket <= made
  BY <1>2 DEF Numbered
<1> QED BY <1>1, <1>3, <1>4 DEF Numbered

\* The cache and the calls close what is theirs.
LEMMA OwnedNotStray ==
  ASSUME OwnedOpen, ~strayClose, NEW s \in Streams \cup {NoStream}, s = NoStream \/ Owned(s)
  PROVE  ~Stray(s)
BY DEF OwnedOpen, Stray

\* "Failed to connect": the new socket is closed again.
LEMMA ConnectFailsKeeps ==
  ASSUME IInv, NEW t \in Tasks, ConnectFails(t)
  PROVE  IInv'
<1> USE DEF kernel, engine, calls, users, ring, flags
<1>1. TypeOK /\ CallShape /\ OneOwner /\ Numbered
  BY DEF IInv
<1>2. /\ stuck = NoTask /\ pc[t] = "connecting" /\ stream[t] \in Streams
      /\ bound[t] = NoStream
  BY <1>1 DEF ConnectFails, CallShape, TypeOK
<1>3. /\ table' = Closing({stream[t]}) /\ made' = made
      /\ pc' = [pc EXCEPT ![t] = "idle"] /\ target' = [target EXCEPT ![t] = NoAddr]
      /\ stream' = [stream EXCEPT ![t] = NoStream] /\ bound' = [bound EXCEPT ![t] = NoStream]
      /\ UNCHANGED <<connections, guard, stuck, alive, handle, listener, notice, missed,
                     shared, strayClose>>
  BY DEF ConnectFails, Return
<1>4. TypeOK'
  BY <1>1, <1>2, <1>3, ClosingTyped DEF TypeOK, Labels, InData
<1>5. CallShape'
  BY <1>1, <1>2, <1>3 DEF TypeOK, CallShape, InData
<1>6. Numbered'
  BY <1>1, <1>2, <1>3, NumberedKept DEF TypeOK
<1>7. OneOwner'
  BY <1>1, <1>2, <1>3 DEF TypeOK, OneOwner
<1>8. OwnedOpen' /\ OpenOwned'
  <2>1. NoStream \notin Streams
    BY DEF Streams, NoStream, Fds
  <2>2. \A s \in Streams : Owned(s)' => Owned(s) /\ s \notin {stream[t]}
    BY <1>1, <1>2, <1>3, <2>1 DEF Owned, OneOwner, TypeOK
  <2>3. \A s \in Streams : Owner(s) => Owner(s)' \/ s \in {stream[t]}
    BY <1>1, <1>2, <1>3, <2>1 DEF Owner, Owned, TypeOK
  <2>4. ~strayClose' => ~strayClose /\ ~Stray(stream[t])
    BY <1>2, <1>3, OwnedNotStray DEF Owned, IInv
  <2> QED BY <1>1, <1>2, <1>3, <2>2, <2>3, <2>4, CloseKept DEF IInv
<1>9. AddressesApart'
  BY <1>1, <1>3 DEF AddressesApart, TypeOK, IInv
<1>10. HandlesCached' /\ NoticesTrackCache' /\ StuckBehindData'
  BY <1>1, <1>2, <1>3 DEF HandlesCached, NoticesTrackCache, StuckBehindData, TypeOK, IInv
<1> QED BY <1>4, <1>5, <1>6, <1>7, <1>8, <1>9, <1>10 DEF IInv

\* The connection goes into the cache and to the caller; the one it replaces is closed.
LEMMA ConnectDoneKeeps ==
  ASSUME IInv, NEW t \in Tasks, ConnectDone(t)
  PROVE  IInv'
<1> USE DEF kernel, engine, calls, users, ring, flags
<1>1. TypeOK /\ CallShape /\ OneOwner /\ Numbered
  BY DEF IInv
<1>2. /\ stuck = NoTask /\ pc[t] = "connecting" /\ stream[t] \in Streams
      /\ bound[t] = NoStream /\ target[t] \in Addrs
  BY <1>1 DEF ConnectDone, CallShape, TypeOK
<1>3. CASE guard # NoTask
  BY <1>2, <1>3, StuckKeeps DEF ConnectDone, Locking, InData
<1>4. CASE guard = NoTask
  <2> DEFINE a == target[t]
  <2>1. /\ table' = Closing({connections[a]}) /\ made' = made
        /\ connections' = [connections EXCEPT ![a] = stream[t]]
        /\ handle' = [handle EXCEPT ![t] = stream[t]]
        /\ \/ notice' = [notice EXCEPT ![a] = "NetworkSend"] /\ missed' = missed
           \/ notice' = notice /\ missed' = missed \cup {a}
        /\ pc' = [pc EXCEPT ![t] = "idle"] /\ target' = [target EXCEPT ![t] = NoAddr]
        /\ stream' = [stream EXCEPT ![t] = NoStream] /\ bound' = [bound EXCEPT ![t] = NoStream]
        /\ UNCHANGED <<guard, stuck, alive, listener, shared, strayClose>>
    BY <1>4 DEF ConnectDone, Locking, Insert, Notify, Return
  <2>2. \A u \in Tasks : pc[u] \notin InData
    BY <1>1, <1>4, EngineAssumption DEF TypeOK
  <2>3. TypeOK'
    BY <1>1, <1>2, <2>1, ClosingTyped DEF TypeOK, Labels, InData, Notices, Openings
  <2>4. CallShape'
    BY <1>1, <1>2, <2>1, <2>2 DEF TypeOK, CallShape, InData
  <2>5. Numbered'
    BY <1>1, <1>2, <2>1, NumberedKept DEF TypeOK
  <2>6. stream[t] # NoStream
    BY <1>2 DEF Streams, NoStream, Fds
  <2>7. OneOwner'
    BY <1>1, <1>2, <2>1, <2>6 DEF TypeOK, OneOwner
  <2>8. OwnedOpen' /\ OpenOwned'
    <3>1. NoStream \notin Streams
      BY DEF Streams, NoStream, Fds
    <3>2. \A s \in Streams : Owned(s)' => Owned(s) /\ s \notin {connections[a]}
      BY <1>1, <1>2, <2>1, <3>1 DEF Owned, OneOwner, TypeOK
    <3>3. \A s \in Streams : Owner(s) => Owner(s)' \/ s \in {connections[a]}
      BY <1>1, <1>2, <2>1, <3>1 DEF Owner, Owned, TypeOK
    <3>4. connections[a] \in Streams \cup {NoStream}
      BY <1>1, <1>2 DEF TypeOK
    <3>5. ~strayClose' => ~strayClose /\ ~Stray(connections[a])
      BY <1>2, <2>1, <3>4, OwnedNotStray DEF Owned, IInv
    <3> QED BY <1>1, <2>1, <3>2, <3>3, <3>4, <3>5, CloseKept DEF IInv
  <2>9. AddressesApart'
    BY <1>1, <1>2, <2>1 DEF AddressesApart, TypeOK, IInv
  <2>10. HandlesCached'
    BY <1>1, <1>2, <2>1 DEF HandlesCached, AddressesApart, TypeOK, IInv
  <2>11. NoticesTrackCache'
    BY <1>1, <1>2, <2>1, <2>6 DEF NoticesTrackCache, TypeOK, Openings, IInv
  <2>12. StuckBehindData'
    BY <1>2, <2>1 DEF StuckBehindData
  <2> QED BY <2>3, <2>4, <2>5, <2>7, <2>8, <2>9, <2>10, <2>11, <2>12 DEF IInv
<1> QED BY <1>3, <1>4

\* accept takes the caller's listener with it, whether it fails at once ...
LEMMA AcceptRefusedKeeps ==
  ASSUME IInv, NEW t \in Tasks, AcceptRefused(t)
  PROVE  IInv'
<1> USE DEF kernel, engine, calls, users, ring, flags
<1>1. TypeOK /\ OneOwner /\ Numbered
  BY DEF IInv
<1>2. /\ table' = Closing({listener[t]}) /\ made' = made /\ listener[t] \in Streams
      /\ strayClose' = (strayClose \/ Stray(listener[t]))
      /\ UNCHANGED <<connections, guard, stuck, alive, pc, target, stream, bound, handle,
                     listener, notice, missed, shared>>
  BY <1>1 DEF AcceptRefused, TypeOK
<1>3. TypeOK'
  BY <1>1, <1>2, ClosingTyped DEF TypeOK
<1>4. CallShape' /\ OneOwner' /\ Numbered'
  BY <1>1, <1>2, ClosingTyped DEF CallShape, OneOwner, Numbered, IInv
<1>5. OwnedOpen' /\ OpenOwned'
  <2>1. NoStream \notin Streams
    BY DEF Streams, NoStream, Fds
  <2>2. \A s \in Streams : Owned(s)' => Owned(s) /\ s \notin {listener[t]}
    BY <1>1, <1>2, <2>1 DEF Owned, OneOwner, TypeOK
  <2>3. \A s \in Streams : Owner(s) => Owner(s)' \/ s \in {listener[t]}
    BY <1>2 DEF Owner, Owned
  <2> QED BY <1>1, <1>2, <2>2, <2>3, CloseKept DEF IInv
<1>6. AddressesApart' /\ HandlesCached' /\ NoticesTrackCache' /\ StuckBehindData'
  BY <1>2 DEF AddressesApart, HandlesCached, NoticesTrackCache, StuckBehindData, IInv
<1> QED BY <1>3, <1>4, <1>5, <1>6 DEF IInv

\* ... or later ...
LEMMA AcceptFailsKeeps ==
  ASSUME IInv, NEW t \in Tasks, AcceptFails(t)
  PROVE  IInv'
<1> USE DEF kernel, engine, calls, users, ring, flags
<1>1. TypeOK /\ CallShape /\ OneOwner /\ Numbered
  BY DEF IInv
<1>2. /\ stuck = NoTask /\ pc[t] = "accepting" /\ bound[t] \in Streams /\ listener[t] \in Streams
      /\ stream[t] = NoStream
  BY <1>1 DEF AcceptFails, CallShape, TypeOK
<1>3. /\ table' = Closing({bound[t], listener[t]}) /\ made' = made
      /\ strayClose' = (strayClose \/ Stray(listener[t]))
      /\ pc' = [pc EXCEPT ![t] = "idle"] /\ target' = [target EXCEPT ![t] = NoAddr]
      /\ stream' = [stream EXCEPT ![t] = NoStream] /\ bound' = [bound EXCEPT ![t] = NoStream]
      /\ UNCHANGED <<connections, guard, stuck, alive, handle, listener, notice, missed,
                     shared>>
  BY DEF AcceptFails, Return
<1>4. TypeOK'
  BY <1>1, <1>2, <1>3, ClosingTyped DEF TypeOK, Labels, InData
<1>5. CallShape'
  BY <1>1, <1>2, <1>3 DEF TypeOK, CallShape, InData
<1>6. Numbered'
  BY <1>1, <1>2, <1>3, NumberedKept DEF TypeOK
<1>7. OneOwner'
  BY <1>1, <1>2, <1>3 DEF TypeOK, OneOwner
<1>8. OwnedOpen' /\ OpenOwned'
  <2>1. NoStream \notin Streams
    BY DEF Streams, NoStream, Fds
  <2>2. \A s \in Streams : Owned(s)' => Owned(s) /\ s \notin {bound[t], listener[t]}
    BY <1>1, <1>2, <1>3, <2>1 DEF Owned, OneOwner, TypeOK
  <2>3. \A s \in Streams : Owner(s) => Owner(s)' \/ s \in {bound[t], listener[t]}
    BY <1>1, <1>2, <1>3, <2>1 DEF Owner, Owned, TypeOK
  <2>4. ~strayClose' => ~strayClose /\ ~Stray(bound[t]) /\ ~Stray(listener[t])
    BY <1>2, <1>3, OwnedNotStray DEF Owned, IInv
  <2> QED BY <1>1, <1>2, <1>3, <2>2, <2>3, <2>4, CloseKept DEF IInv
<1>9. AddressesApart'
  BY <1>1, <1>2, <1>3 DEF AddressesApart, TypeOK, IInv
<1>10. HandlesCached' /\ NoticesTrackCache' /\ StuckBehindData'
  BY <1>1, <1>2, <1>3 DEF HandlesCached, NoticesTrackCache, StuckBehindData, TypeOK, IInv
<1> QED BY <1>4, <1>5, <1>6, <1>7, <1>8, <1>9, <1>10 DEF IInv

\* ... or succeeds: the connection goes into the cache and to the caller.
LEMMA AcceptDoneKeeps ==
  ASSUME IInv, NEW t \in Tasks, AcceptDone(t)
  PROVE  IInv'
<1> USE DEF kernel, engine, calls, users, ring, flags
<1>1. TypeOK /\ CallShape /\ OneOwner /\ Numbered
  BY DEF IInv
<1>2. /\ stuck = NoTask /\ pc[t] = "accepted" /\ stream[t] \in Streams
      /\ bound[t] \in Streams /\ listener[t] \in Streams /\ target[t] \in Addrs
  BY <1>1 DEF AcceptDone, CallShape, TypeOK
<1>3. CASE guard # NoTask
  BY <1>2, <1>3, StuckKeeps DEF AcceptDone, Locking, InData
<1>4. CASE guard = NoTask
  <2> DEFINE a == target[t]
             S == {bound[t], listener[t], connections[a]}
  <2>1. /\ table' = Closing(S) /\ made' = made
        /\ connections' = [connections EXCEPT ![a] = stream[t]]
        /\ handle' = [handle EXCEPT ![t] = stream[t]]
        /\ \/ notice' = [notice EXCEPT ![a] = "NetworkReceive"] /\ missed' = missed
           \/ notice' = notice /\ missed' = missed \cup {a}
        /\ pc' = [pc EXCEPT ![t] = "idle"] /\ target' = [target EXCEPT ![t] = NoAddr]
        /\ stream' = [stream EXCEPT ![t] = NoStream] /\ bound' = [bound EXCEPT ![t] = NoStream]
        /\ strayClose' = (strayClose \/ Stray(listener[t]))
        /\ UNCHANGED <<guard, stuck, alive, listener, shared>>
    <3>1. {bound[t], listener[t]} \cup {connections[a]} = S
      OBVIOUS
    <3> QED BY <1>4, <3>1 DEF AcceptDone, Locking, Insert, Notify, Return
  <2>2. \A u \in Tasks : pc[u] \notin InData
    BY <1>1, <1>4, EngineAssumption DEF TypeOK
  <2>3. TypeOK'
    BY <1>1, <1>2, <2>1, ClosingTyped DEF TypeOK, Labels, InData, Notices, Openings
  <2>4. CallShape'
    BY <1>1, <1>2, <2>1, <2>2 DEF TypeOK, CallShape, InData
  <2>5. Numbered'
    BY <1>1, <1>2, <2>1, NumberedKept DEF TypeOK
  <2>6. NoStream \notin Streams /\ stream[t] # NoStream
    BY <1>2 DEF Streams, NoStream, Fds
  <2>7. OneOwner'
    BY <1>1, <1>2, <2>1, <2>6 DEF TypeOK, OneOwner
  <2>8. OwnedOpen' /\ OpenOwned'
    <3>1. \A s \in Streams : Owned(s)' => Owned(s) /\ s \notin S
      BY <1>1, <1>2, <2>1, <2>6 DEF Owned, OneOwner, TypeOK
    <3>2. \A s \in Streams : Owner(s) => Owner(s)' \/ s \in S
      BY <1>1, <1>2, <2>1, <2>6 DEF Owner, Owned, TypeOK
    <3>3. S \in SUBSET (Streams \cup {NoStream})
      BY <1>1, <1>2 DEF TypeOK
    <3>4. ~strayClose' => ~strayClose /\ \A r \in S : ~Stray(r)
      <4>1. Owned(connections[a]) /\ Owned(bound[t])
        BY <1>2 DEF Owned
      <4> QED BY <2>1, <3>3, <4>1, OwnedNotStray DEF IInv
    <3> QED BY <1>1, <2>1, <3>1, <3>2, <3>3, <3>4, CloseKept DEF IInv
  <2>9. AddressesApart'
    BY <1>1, <1>2, <2>1 DEF AddressesApart, TypeOK, IInv
  <2>10. HandlesCached'
    BY <1>1, <1>2, <2>1 DEF HandlesCached, AddressesApart, TypeOK, IInv
  <2>11. NoticesTrackCache'
    BY <1>1, <1>2, <2>1, <2>6 DEF NoticesTrackCache, TypeOK, Openings, IInv
  <2>12. StuckBehindData'
    BY <1>2, <2>1 DEF StuckBehindData
  <2> QED BY <2>3, <2>4, <2>5, <2>7, <2>8, <2>9, <2>10, <2>11, <2>12 DEF IInv
<1> QED BY <1>3, <1>4

\* The caller closes its listener's number, whoever has it by now.
LEMMA DropListenerKeeps ==
  ASSUME IInv, NEW t \in Tasks, DropListener(t)
  PROVE  IInv'
<1> USE DEF kernel, engine, calls, users, ring, flags
<1>1. TypeOK /\ CallShape /\ OneOwner /\ Numbered
  BY DEF IInv
<1>2. /\ table' = Closing({listener[t]}) /\ made' = made /\ listener[t] \in Streams
      /\ strayClose' = (strayClose \/ Stray(listener[t])) /\ pc[t] = "idle"
      /\ listener' = [listener EXCEPT ![t] = NoStream]
      /\ UNCHANGED <<connections, guard, stuck, alive, pc, target, stream, bound, handle,
                     notice, missed, shared>>
  BY <1>1 DEF DropListener, TypeOK
<1>3. TypeOK'
  BY <1>1, <1>2, ClosingTyped DEF TypeOK
<1>4. CallShape'
  BY <1>1, <1>2 DEF CallShape, TypeOK
<1>5. Numbered'
  BY <1>1, <1>2, NumberedKept DEF TypeOK
<1>6. NoStream \notin Streams
  BY DEF Streams, NoStream, Fds
<1>7. OneOwner'
  BY <1>1, <1>2 DEF TypeOK, OneOwner
<1>8. OwnedOpen' /\ OpenOwned'
  <2>1. \A s \in Streams : Owned(s)' => Owned(s) /\ s \notin {listener[t]}
    BY <1>1, <1>2, <1>6 DEF Owned, OneOwner, TypeOK
  <2>2. \A s \in Streams : Owner(s) => Owner(s)' \/ s \in {listener[t]}
    BY <1>1, <1>2 DEF Owner, Owned, TypeOK
  <2> QED BY <1>1, <1>2, <2>1, <2>2, CloseKept DEF IInv
<1>9. AddressesApart' /\ HandlesCached' /\ NoticesTrackCache' /\ StuckBehindData'
  BY <1>2 DEF AddressesApart, HandlesCached, NoticesTrackCache, StuckBehindData, IInv
<1> QED BY <1>3, <1>4, <1>5, <1>7, <1>8, <1>9 DEF IInv

\* read and write lock the cache, and find the stream of the handle there.
LEMMA StartDataKeeps ==
  ASSUME IInv, NEW t \in Tasks, NEW section \in InData, StartData(t, section)
  PROVE  IInv'
<1> USE DEF kernel, engine, calls, users, ring, flags
<1>1. TypeOK /\ CallShape
  BY DEF IInv
<1>2. pc[t] = "idle" /\ stuck = NoTask /\ handle[t] \in Streams
  BY <1>1 DEF StartData, Free, TypeOK
<1>3. CASE guard # NoTask
  BY <1>2, <1>3, StuckKeeps DEF StartData, Locking, InData
<1>4. CASE guard = NoTask
  <2>1. PICK a \in Addrs :
          /\ connections[a].fd = handle[t].fd
          /\ guard' = t /\ pc' = [pc EXCEPT ![t] = section] /\ target' = [target EXCEPT ![t] = a]
          /\ UNCHANGED <<table, made, connections, stuck, alive, stream, bound, handle, listener,
                         notice, missed, shared, strayClose>>
    BY <1>4 DEF StartData, Locking, Found
  <2>2. connections[a] # NoStream
    BY <1>2, <2>1 DEF Streams, NoStream, Fds
  <2>3. TypeOK'
    BY <1>1, <1>2, <1>4, <2>1, EngineAssumption DEF TypeOK, Labels, InData
  <2>4. CallShape'
    BY <1>1, <1>2, <2>1, <2>2 DEF TypeOK, CallShape, InData
  <2>5. Numbered' /\ OneOwner' /\ HandlesCached' /\ NoticesTrackCache' /\ StuckBehindData'
    BY <1>2, <2>1 DEF Numbered, OneOwner, HandlesCached, NoticesTrackCache, StuckBehindData, IInv
  <2>6. OwnedOpen' /\ OpenOwned'
    BY <2>1 DEF OwnedOpen, OpenOwned, Owned, Owner, IInv
  <2>7. AddressesApart'
    BY <1>1, <2>1 DEF AddressesApart, TypeOK, InData, IInv
  <2> QED BY <2>3, <2>4, <2>5, <2>6, <2>7 DEF IInv
<1> QED BY <1>3, <1>4

\* Every way out of read and write gives the lock back.
LEMMA DataEndsKeeps ==
  ASSUME IInv, NEW t \in Tasks, ReadDone(t) \/ WriteDone(t) \/ DataFails(t)
  PROVE  IInv'
<1> USE DEF kernel, engine, calls, users, ring, flags
<1>1. TypeOK /\ CallShape
  BY DEF IInv
<1>2. /\ stuck = NoTask /\ pc[t] \in InData /\ guard' = NoTask
      /\ target[t] \in Addrs /\ connections[target[t]] # NoStream
      /\ stream[t] = NoStream /\ bound[t] = NoStream
      /\ \/ \E kind \in Openings : notice' = [notice EXCEPT ![target[t]] = kind] /\ missed' = missed
         \/ notice' = notice /\ missed' = missed \cup {target[t]}
         \/ UNCHANGED <<notice, missed>>
      /\ pc' = [pc EXCEPT ![t] = "idle"] /\ target' = [target EXCEPT ![t] = NoAddr]
      /\ stream' = [stream EXCEPT ![t] = NoStream] /\ bound' = [bound EXCEPT ![t] = NoStream]
      /\ UNCHANGED <<table, made, connections, stuck, alive, handle, listener, shared, strayClose>>
  BY <1>1 DEF ReadDone, WriteDone, DataFails, DataDone, Notify, Return, CallShape, InData, Openings
<1>3. guard = t /\ UNCHANGED <<stream, bound>>
  BY <1>1, <1>2 DEF TypeOK
<1>4. TypeOK'
  BY <1>1, <1>2, <1>3, EngineAssumption DEF TypeOK, Labels, InData, Notices
<1>5. CallShape'
  BY <1>1, <1>2 DEF TypeOK, CallShape, InData
<1>6. Numbered' /\ OneOwner' /\ HandlesCached' /\ StuckBehindData'
  BY <1>2, <1>3 DEF Numbered, OneOwner, HandlesCached, StuckBehindData, IInv
<1>7. OwnedOpen' /\ OpenOwned'
  BY <1>2, <1>3 DEF OwnedOpen, OpenOwned, Owned, Owner, IInv
<1>8. AddressesApart'
  BY <1>1, <1>2 DEF AddressesApart, TypeOK, IInv
<1>9. NoticesTrackCache'
  BY <1>1, <1>2 DEF NoticesTrackCache, TypeOK, IInv
<1> QED BY <1>4, <1>5, <1>6, <1>7, <1>8, <1>9 DEF IInv

\* The streams of one descriptor: one at most, unless somebody closed a stray number.
LEMMA FoundIsHandle ==
  ASSUME IInv, alive, ~shared, ~strayClose, NEW t \in Tasks, handle[t] # NoStream
  PROVE  \E a \in Addrs : connections[a] = handle[t] /\ Found(handle[t].fd) = {a}
<1>1. PICK a \in Addrs : connections[a] = handle[t]
  BY DEF HandlesCached, IInv
<1>2. ASSUME NEW b \in Addrs, connections[b].fd = handle[t].fd PROVE b = a
  <2>1. /\ connections[a] \in Streams /\ connections[b] \in Streams \cup {NoStream}
    BY <1>1 DEF TypeOK, IInv
  <2>2. connections[b] \in Streams
    BY <1>1, <1>2, <2>1 DEF Streams, NoStream, Fds
  <2>3. table[connections[a].fd] = connections[a].socket
        /\ table[connections[b].fd] = connections[b].socket
    BY <2>1, <2>2 DEF OwnedOpen, Owned, IInv
  <2>4. connections[a] = connections[b]
    BY <1>1, <1>2, <2>1, <2>2, <2>3 DEF Streams
  <2> QED BY <1>1, <2>4 DEF OneOwner, IInv
<1> QED BY <1>1, <1>2 DEF Found

\* close takes the stream of the handle out of the cache.
LEMMA CloseKeeps ==
  ASSUME IInv, NEW t \in Tasks, Close(t)
  PROVE  IInv'
<1> USE DEF kernel, engine, calls, users, ring, flags
<1>1. TypeOK /\ CallShape /\ OneOwner /\ Numbered
  BY DEF IInv
<1>2. stuck = NoTask /\ pc[t] = "idle" /\ handle[t] # NoStream /\ handle[t] \in Streams
  BY <1>1 DEF Close, Free, TypeOK
<1>3. CASE guard # NoTask
  BY <1>2, <1>3, StuckKeeps DEF Close, Locking, InData
<1>4. CASE guard = NoTask
  <2>1. /\ handle' = [handle EXCEPT ![t] = NoStream] /\ made' = made
        /\ UNCHANGED <<guard, stuck, alive, pc, target, stream, bound, listener, shared, strayClose>>
    BY <1>4 DEF Close, Locking, Remove
  <2>2. \A u \in Tasks : pc[u] \notin InData
    BY <1>1, <1>4, EngineAssumption DEF TypeOK
  <2>3. NoStream \notin Streams
    BY DEF Streams, NoStream, Fds
  <2>4. AddressesApart' /\ StuckBehindData' /\ HandlesCached'
         /\ CallShape' /\ Numbered' /\ OneOwner' /\ NoticesTrackCache' /\ TypeOK'
         /\ OwnedOpen' /\ OpenOwned'
    <3>1. CASE Found(handle[t].fd) = {} /\ UNCHANGED <<connections, table, ring>>
      <4>1. TypeOK' /\ CallShape' /\ Numbered' /\ OneOwner'
        BY <1>1, <2>1, <3>1, EngineAssumption DEF TypeOK, CallShape, Numbered, OneOwner, NoStream
      <4>2. AddressesApart' /\ StuckBehindData' /\ HandlesCached' /\ NoticesTrackCache'
        BY <1>1, <2>1, <3>1 DEF AddressesApart, StuckBehindData, HandlesCached,
           NoticesTrackCache, TypeOK, IInv
      <4>3. OwnedOpen' /\ OpenOwned'
        BY <2>1, <3>1 DEF OwnedOpen, OpenOwned, Owned, Owner, IInv
      <4> QED BY <4>1, <4>2, <4>3
    <3>2. ASSUME NEW a \in Found(handle[t].fd),
                 connections' = [connections EXCEPT ![a] = NoStream],
                 table' = Closing({connections[a]}), Notify("NetworkClose", a)
          PROVE  AddressesApart' /\ StuckBehindData' /\ HandlesCached'
                 /\ CallShape' /\ Numbered' /\ OneOwner' /\ NoticesTrackCache' /\ TypeOK'
                 /\ OwnedOpen' /\ OpenOwned'
      <4>1. a \in Addrs /\ connections[a] \in Streams
        BY <1>1, <1>2, <3>2 DEF Found, TypeOK, Streams, NoStream, Fds
      <4>2. TypeOK'
        BY <1>1, <2>1, <3>2, <4>1, ClosingTyped DEF TypeOK, Notify, Notices
      <4>3. CallShape' /\ OneOwner'
        BY <1>1, <2>1, <2>2, <3>2, <4>1 DEF TypeOK, CallShape, OneOwner
      <4>4. Numbered'
        BY <1>1, <2>1, <3>2, <4>1, NumberedKept DEF TypeOK
      <4>5. AddressesApart' /\ StuckBehindData'
        BY <1>1, <1>2, <2>1, <3>2, <4>1 DEF AddressesApart, StuckBehindData, TypeOK, CallShape, IInv
      <4>6. NoticesTrackCache'
        BY <1>1, <2>1, <3>2, <4>1 DEF NoticesTrackCache, TypeOK, Notify, Openings, IInv
      <4>7. HandlesCached'
        <5>1. alive /\ ~shared /\ ~strayClose => connections[a] = handle[t]
          BY <1>2, <3>2, FoundIsHandle
        <5> QED BY <1>1, <2>1, <3>2, <4>1, <5>1 DEF HandlesCached, OneOwner, TypeOK, IInv
      <4>8. OwnedOpen' /\ OpenOwned'
        <5>1. \A s \in Streams : Owned(s)' => Owned(s) /\ s \notin {connections[a]}
          BY <1>1, <2>1, <2>3, <3>2, <4>1 DEF Owned, OneOwner, TypeOK
        <5>2. \A s \in Streams : Owner(s) => Owner(s)' \/ s \in {connections[a]}
          BY <1>1, <2>1, <3>2, <4>1 DEF Owner, Owned, TypeOK
        <5>3. ~strayClose' => ~strayClose /\ ~Stray(connections[a])
          BY <2>1, <4>1, OwnedNotStray DEF Owned, IInv
        <5> QED BY <1>1, <3>2, <4>1, <5>1, <5>2, <5>3, CloseKept DEF IInv
      <4> QED BY <4>2, <4>3, <4>4, <4>5, <4>6, <4>7, <4>8
    <3> QED BY <1>4, <3>1, <3>2 DEF Close, Locking, Remove
  <2> QED BY <2>4 DEF IInv
<1> QED BY <1>3, <1>4

\* Drop of the engine closes the whole cache.
LEMMA DropEngineKeeps ==
  ASSUME IInv, DropEngine
  PROVE  IInv'
<1> USE DEF kernel, engine, calls, users, ring, flags
<1>1. TypeOK /\ CallShape /\ OneOwner /\ Numbered
  BY DEF IInv
<1> DEFINE S == {connections[a] : a \in Addrs}
<1>2. /\ stuck = NoTask /\ \A t \in Tasks : pc[t] = "idle"
      /\ alive' = FALSE /\ table' = Closing(S) /\ made' = made
      /\ connections' = [a \in Addrs |-> NoStream]
      /\ UNCHANGED <<guard, stuck, pc, target, stream, bound, handle, listener, notice, missed,
                     shared, strayClose>>
  BY DEF DropEngine
<1>3. TypeOK'
  BY <1>1, <1>2, ClosingTyped DEF TypeOK
<1>4. CallShape' /\ OneOwner'
  BY <1>1, <1>2 DEF CallShape, OneOwner, InData
<1>5. Numbered'
  BY <1>1, <1>2, NumberedKept DEF TypeOK
<1>6. OwnedOpen' /\ OpenOwned'
  <2>1. NoStream \notin Streams
    BY DEF Streams, NoStream, Fds
  <2>2. \A s \in Streams : Owned(s)' => Owned(s) /\ s \notin S
    BY <1>1, <1>2, <2>1 DEF Owned, OneOwner
  <2>3. \A s \in Streams : Owner(s) => Owner(s)' \/ s \in S
    BY <1>2 DEF Owner, Owned
  <2>4. S \in SUBSET (Streams \cup {NoStream})
    BY <1>1 DEF TypeOK
  <2>5. ~strayClose' => ~strayClose /\ \A r \in S : ~Stray(r)
    BY <1>2, <2>4, OwnedNotStray DEF Owned, IInv
  <2> QED BY <1>1, <1>2, <2>2, <2>3, <2>4, <2>5, CloseKept DEF IInv
<1>7. AddressesApart' /\ HandlesCached' /\ NoticesTrackCache' /\ StuckBehindData'
  BY <1>2 DEF AddressesApart, HandlesCached, NoticesTrackCache, StuckBehindData
<1> QED BY <1>3, <1>4, <1>5, <1>6, <1>7 DEF IInv

-----------------------------------------------------------------------------
(* The theorems.                                                            *)

LEMMA NetInit == Init => IInv
<1> SUFFICES ASSUME Init PROVE IInv
  OBVIOUS
<1>1. 0 \in 0..MaxSockets /\ NoStream.socket = 0 /\ NoStream \notin Streams
  BY EngineAssumption DEF NoStream, Streams, Fds
<1>2. TypeOK
  BY <1>1, EngineAssumption DEF Init, TypeOK, Labels, InData, Notices
<1>3. CallShape /\ Numbered /\ OneOwner
  BY <1>1 DEF Init, CallShape, Numbered, OneOwner, InData, Closed
<1>4. OwnedOpen /\ OpenOwned
  BY <1>1 DEF Init, OwnedOpen, OpenOwned, Owned, Owner, Streams, Sockets, Closed
<1>5. AddressesApart /\ HandlesCached /\ NoticesTrackCache /\ StuckBehindData
  BY <1>1 DEF Init, AddressesApart, HandlesCached, NoticesTrackCache, StuckBehindData, Openings
<1> QED BY <1>2, <1>3, <1>4, <1>5 DEF IInv

LEMMA NetStep == IInv /\ [Next]_vars => IInv'
<1> SUFFICES ASSUME IInv, [Next]_vars PROVE IInv'
  OBVIOUS
<1>1. CASE UNCHANGED vars
  BY <1>1 DEF vars, kernel, engine, calls, users, ring, flags, IInv, TypeOK, CallShape, Numbered,
     OneOwner, OwnedOpen, OpenOwned, Owned, Owner, AddressesApart, HandlesCached,
     NoticesTrackCache, StuckBehindData
<1>2. ASSUME NEW t \in Tasks, StartRead(t) \/ StartWrite(t) PROVE IInv'
  BY <1>2, StartDataKeeps DEF StartRead, StartWrite, InData
<1> QED BY <1>1, <1>2, StartConnectKeeps, PeerArrivesKeeps, ConnectFailsKeeps, ConnectDoneKeeps,
       AcceptRefusedKeeps, StartAcceptKeeps, AcceptFailsKeeps, AcceptDoneKeeps, DataEndsKeeps,
       CloseKeeps, OpenListenerKeeps, DropListenerKeeps, DropEngineKeeps DEF Next

LEMMA NetInvariant == Spec => []IInv
BY NetInit, NetStep, PTL DEF Spec

\* Type correctness, and the mutex of the cache held by the read or write in flight and by
\* nobody else, for any number of tasks, addresses and descriptors.
THEOREM NetTypeCorrect == Spec => []TypeOK
BY NetInvariant, PTL DEF IInv

\* The cache, the calls and the listeners account for every open descriptor, whatever
\* connects, accepts, fails and closes in between, as long as nobody closes a stray number.
THEOREM EveryDescriptorOwned == Spec => []DescriptorsOwned
<1>1. IInv => DescriptorsOwned
  BY OwnedBothWays DEF IInv
<1> QED BY <1>1, NetInvariant, PTL

\* The descriptor a caller holds leads to its own connection until the caller closes it.
THEOREM HandlesLeadHome == Spec => []HandleMeansConnection
<1>1. IInv => HandleMeansConnection
  BY FoundIsHandle DEF HandleMeansConnection
<1> QED BY <1>1, NetInvariant, PTL

\* What the ring last said of an address agrees with the cache, however calls overlap.
THEOREM NoticesAgree == Spec => []NoticesTrackCache
BY NetInvariant, PTL DEF IInv

\* A thread is only ever stopped by a task that waits for a read or write of another one.
THEOREM OnlyDataStops == Spec => []StuckBehindData
BY NetInvariant, PTL DEF IInv

=============================================================================
