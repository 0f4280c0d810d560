--------------------------- MODULE SessionsProofs ---------------------------
(***************************************************************************)
(* What the examples can rely on: every unit sent is in one place and comes  *)
(* in order, end_to_end reports a match exactly when there is one, and the   *)
(* unwraps of perf_benchmark fail only when a chunk was cut.  Proved for     *)
(* every size of a chunk, number of chunks and length of a connection.       *)
(***************************************************************************)
EXTENDS Sessions, SequenceTheorems, TLAPS

-----------------------------------------------------------------------------
(* The invariant.                                                           *)

\* Which ends are open in which sections.
Ends ==
  /\ cpc = "connect" => client = "none"
  /\ cpc \in {"write", "read", "close"} => client = "open"
  /\ client = "none" => sent = <<>> /\ spc \notin {"read", "write"}
  /\ serving <=> spc \in {"accept", "read", "write"}
  /\ spc = "write" => prog.echo /\ held # <<>>
  /\ spc # "write" /\ serving => held = <<>>
  /\ panicked => prog.strict

\* How much a client has sent when it is at a chunk.
SentBounded ==
  /\ cpc \in {"write", "read"} => round < prog.rounds
  /\ cpc = "connect" => Len(sent) = 0 /\ round = 0
  /\ cpc = "write" => Len(sent) + Len(rest) <= (round + 1) * Chunk
  /\ cpc = "read" => Len(sent) <= (round + 1) * Chunk
  /\ Len(sent) <= Data

\* A server has read no more than was sent, and counts its reads.
ReadsCounted ==
  /\ Len(taken) + Len(up) <= Len(sent)
  /\ prog.reads = 0 => reads + (IF spc = "write" THEN 1 ELSE 0) <= Len(taken)
  /\ prog.reads > 0 => reads <= prog.reads /\ (serving => reads < prog.reads)

\* Every unit is in one place, in the order in which it was sent.
Flow ==
  /\ serving => IF prog.echo THEN client = "open" => sent = got \o down \o held \o up
                ELSE sent = taken \o up
  /\ \E z \in Seq(Units) : sent = got \o down \o z
  /\ ~prog.echo => got = <<>> /\ down = <<>>

\* end_to_end: what was sent falls behind the loop unless every chunk was sent whole,
\* and then it is the row of the chunks so far.
ChunksSent ==
  /\ Len(sent) <= round * Chunk
  /\ Len(sent) = round * Chunk => sent = Numbers(1, round * Chunk)
  /\ cpc = "write" => rest = Numbers(round * Chunk + 1, (round + 1) * Chunk)

\* The loop is over before the close, and what is stored then is what was sent.
StoredWasSent ==
  /\ cpc \in {"close", "join"} \/ client = "closed" => round = Rounds
  /\ cpc = "join" => client = "closed"
  /\ stored => client = "closed" /\ spc = "end" /\ taken = sent
  /\ cpc = "end" /\ client = "closed" => spc = "end" /\ (result = "ok" <=> FilesMatch)

Chunks == prog.file > 0 => ChunksSent /\ StoredWasSent

\* perf_benchmark, as long as nothing was cut: one chunk is under way at a time, and
\* the server has counted its last read before the client is done.
InStep ==
  /\ cpc = "connect" => spc = "accept" /\ reads = 0 /\ up = <<>> /\ down = <<>>
  /\ cpc = "write" =>
       up = <<>> /\ down = <<>> /\ spc \in {"accept", "read"} /\ reads = round /\ Len(rest) = Chunk
  /\ cpc = "read" =>
       \/ /\ spc \in {"accept", "read"} /\ Len(up) = Chunk /\ down = <<>> /\ reads = round
       \/ /\ spc = "write" /\ up = <<>> /\ reads = round /\ Len(down) + Len(held) = Chunk
       \/ /\ spc = IF round + 1 = prog.rounds THEN "end" ELSE "read"
          /\ up = <<>> /\ Len(down) = Chunk /\ reads = round + 1
  /\ cpc \in {"close", "join"} \/ client = "closed" =>
       up = <<>> /\ down = <<>> /\ spc = "end"
  /\ cpc = "join" => client = "closed"
  /\ cpc = "end" /\ client # "closed" => client = "none" /\ spc = "accept"
  /\ spc = "accept" => reads = 0
  /\ ~upReset /\ ~downReset /\ ~panicked

Lockstep == prog.strict /\ ~pieces /\ ~refused => InStep

\* With the types it is inductive.
IInv == TypeOK /\ Ends /\ SentBounded /\ ReadsCounted /\ Flow /\ Chunks /\ Lockstep

-----------------------------------------------------------------------------
(* The examples, the chunks and the pieces of a chunk.                      *)

\* What the examples are, as far as the proofs look at it.
LEMMA Fields ==
  ASSUME NEW x \in Programs
  PROVE  /\ x.file \in Nat /\ x.rounds \in 1..Rounds /\ x.reads \in 0..Rounds
         /\ x.echo \in BOOLEAN /\ x.strict \in BOOLEAN
         /\ x.file > 0 => /\ ~x.echo /\ ~x.reply /\ ~x.whole /\ ~x.lenient /\ x.closes
                          /\ ~x.strict /\ ~x.polls /\ x.file >= Data /\ x.rounds = Rounds
         /\ ~x.echo => x.reads = 0 /\ x.file > 0
         /\ x.strict => /\ x.echo /\ x.reply /\ ~x.whole /\ ~x.lenient /\ ~x.polls
                        /\ x.closes /\ x.reads = x.rounds
<1>1. Data \in Nat \ {0} /\ Rounds \in Nat \ {0}
  BY SessionAssumption DEF Data
<1>2. CASE x.file \in Nat /\ x.file >= Data /\ x = EndToEnd(x.file)
  <2>1. PICK n : n = x.file
    OBVIOUS
  <2>2. x = EndToEnd(n)
    BY <1>2, <2>1
  <2>3. /\ x.rounds = Rounds /\ x.reads = 0 /\ x.echo = FALSE /\ x.strict = FALSE
        /\ x.reply = FALSE /\ x.whole = FALSE /\ x.lenient = FALSE /\ x.closes = TRUE
        /\ x.polls = FALSE
    BY <2>2 DEF EndToEnd, EngineSession
  <2>4. x.file \in Nat /\ x.file > 0 /\ x.rounds \in 1..Rounds /\ x.reads \in 0..Rounds
    BY <1>1, <1>2, <2>3
  <2> QED BY <1>2, <2>3, <2>4
<1>3. CASE x \in {NetworkIo, PerfBenchmark, Throughput, Traditional, LatencyProfile}
  <2>1. /\ x.file = 0 /\ x.echo = TRUE /\ x.rounds \in {1, Rounds} /\ x.reads \in {0, 1, Rounds}
        /\ x.strict \in BOOLEAN
        /\ x.strict => /\ x.echo /\ x.reply /\ ~x.whole /\ ~x.lenient /\ ~x.polls
                       /\ x.closes /\ x.reads = x.rounds
    BY <1>3 DEF NetworkIo, PerfBenchmark, Throughput, Traditional, LatencyProfile, EngineSession
  <2>2. x.file \in Nat /\ ~(x.file > 0) /\ x.rounds \in 1..Rounds /\ x.reads \in 0..Rounds
    BY <1>1, <2>1
  <2> QED BY <2>1, <2>2
<1> QED BY <1>2, <1>3, ProgramAssumption

LEMMA Sizes ==
  /\ Chunk \in Nat \ {0} /\ Rounds \in Nat \ {0} /\ Data \in Nat \ {0} /\ Rounds <= Data
  /\ Chunk <= Data
  /\ \A n \in Nat : n < Rounds =>
       /\ n * Chunk \in Nat /\ (n + 1) * Chunk = n * Chunk + Chunk /\ (n + 1) * Chunk <= Data
<1>1. Chunk \in Nat \ {0} /\ Rounds \in Nat \ {0} /\ Data \in Nat \ {0}
  BY SessionAssumption DEF Data
<1>2. ASSUME NEW n \in Nat, n < Rounds
      PROVE  n * Chunk \in Nat /\ (n + 1) * Chunk = n * Chunk + Chunk /\ (n + 1) * Chunk <= Data
  BY <1>1, <1>2 DEF Data
<1>3. Rounds <= Data /\ Chunk <= Data
  BY <1>1 DEF Data
<1> QED BY <1>1, <1>2, <1>3

\* A sequence is what was cut off it and what is left.
LEMMA Cut ==
  ASSUME NEW S, NEW s \in Seq(S), NEW k \in 1..Len(s)
  PROVE  /\ First(s, k) \in Seq(S) /\ After(s, k) \in Seq(S)
         /\ Len(First(s, k)) = k /\ Len(After(s, k)) = Len(s) - k
         /\ s = First(s, k) \o After(s, k)
<1>1. Len(s) \in Nat /\ \A i \in 1..Len(s) : s[i] \in S
  OBVIOUS
<1>2. First(s, k) \in Seq(S) /\ Len(First(s, k)) = k
  BY <1>1, SubSeqProperties DEF First
<1>3. After(s, k) \in Seq(S) /\ Len(After(s, k)) = Len(s) - k
  BY <1>1, SubSeqProperties DEF After
<1>4. SubSeq(s, 1, k) \o SubSeq(s, k + 1, Len(s)) = SubSeq(s, 1, Len(s))
  <2>1. 1 \in 1..(Len(s) + 1) /\ k \in (1 - 1)..Len(s) /\ Len(s) \in k..Len(s)
    BY <1>1
  <2> QED BY <2>1, ConcatAdjacentSubSeq
<1> QED BY <1>2, <1>3, <1>4, SubSeqFull DEF First, After

\* The numbers of a row of units, and two rows that follow one another.
LEMMA Rows ==
  ASSUME NEW a \in Nat, NEW b \in Nat, a <= b, b <= Data
  PROVE  /\ Numbers(a + 1, b) \in Seq(Units) /\ Len(Numbers(a + 1, b)) = b - a
         /\ Numbers(1, a) \o Numbers(a + 1, b) = Numbers(1, b)
<1>1. Data \in Nat
  BY Sizes
<1>2. ASSUME NEW c \in Nat, NEW d \in Nat, c <= d, d <= Data
      PROVE  /\ Numbers(c + 1, d) \in Seq(Units) /\ Len(Numbers(c + 1, d)) = d - c
             /\ \A i \in 1..(d - c) : Numbers(c + 1, d)[i] = c + i
  <2>1. PICK n \in Nat : n = d - c
    BY <1>2
  <2>2. d - (c + 1) + 1 = n
    BY <2>1
  <2>3. Numbers(c + 1, d) = [i \in 1..n |-> c + 1 + i - 1]
    BY <2>2 DEF Numbers
  <2>4. \A i \in 1..n : c + 1 + i - 1 = c + i /\ c + i \in Units
    BY <1>1, <1>2, <2>1 DEF Units
  <2>5. Numbers(c + 1, d) \in [1..n -> Units]
    BY <2>3, <2>4
  <2>6. Numbers(c + 1, d) \in Seq(Units) /\ Len(Numbers(c + 1, d)) = n
    BY <2>5, SeqDef
  <2> QED BY <2>1, <2>3, <2>4, <2>6
<1>3. /\ Numbers(1, a) \in Seq(Units) /\ Len(Numbers(1, a)) = a
      /\ \A i \in 1..a : Numbers(1, a)[i] = i
      /\ Numbers(1, b) \in Seq(Units) /\ Len(Numbers(1, b)) = b
      /\ \A i \in 1..b : Numbers(1, b)[i] = i
  <2>1. 0 + 1 = 1 /\ 0 <= a /\ a - 0 = a /\ 0 <= b /\ b - 0 = b /\ a <= Data
    BY <1>1
  <2>2. \A i \in Nat : 0 + i = i
    OBVIOUS
  <2>3. /\ Numbers(0 + 1, a) \in Seq(Units) /\ Len(Numbers(0 + 1, a)) = a - 0
        /\ \A i \in 1..(a - 0) : Numbers(0 + 1, a)[i] = 0 + i
    BY <1>2, <2>1
  <2>4. /\ Numbers(0 + 1, b) \in Seq(Units) /\ Len(Numbers(0 + 1, b)) = b - 0
        /\ \A i \in 1..(b - 0) : Numbers(0 + 1, b)[i] = 0 + i
    BY <1>2, <2>1
  <2> QED BY <2>1, <2>2, <2>3, <2>4
<1>4. /\ Numbers(a + 1, b) \in Seq(Units) /\ Len(Numbers(a + 1, b)) = b - a
      /\ \A i \in 1..(b - a) : Numbers(a + 1, b)[i] = a + i
  BY <1>2
<1>5. Numbers(1, a) \o Numbers(a + 1, b) = Numbers(1, b)
  <2>1. PICK s \in Seq(Units), t \in Seq(Units), u \in Seq(Units) :
          s = Numbers(1, a) /\ t = Numbers(a + 1, b) /\ u = Numbers(1, b)
    BY <1>3, <1>4
  <2>2. /\ Len(s) = a /\ Len(t) = b - a /\ Len(u) = b
        /\ \A i \in 1..a : s[i] = i
        /\ \A i \in 1..(b - a) : t[i] = a + i
        /\ \A i \in 1..b : u[i] = i
    BY <1>3, <1>4, <2>1
  <2>3. s \o t \in Seq(Units) /\ Len(s \o t) = Len(u)
    BY <2>2
  <2>4. \A i \in 1..Len(s \o t) : (s \o t)[i] = u[i]
    BY <2>2
  <2> QED BY <2>1, <2>3, <2>4, SeqEqual
<1> QED BY <1>4, <1>5

\* The next chunk, or the end of the loop.
LEMMA Advances ==
  ASSUME TypeOK, NEW n \in Nat, n <= prog.rounds, Advance(n)
  PROVE  /\ round' = n /\ n \in 0..prog.rounds /\ rest' \in Seq(Units)
         /\ IF n < prog.rounds
            THEN /\ cpc' = "write" /\ n < Rounds /\ Len(rest') = Chunk
                 /\ rest' = Numbers(n * Chunk + 1, (n + 1) * Chunk)
            ELSE /\ cpc' = IF prog.closes THEN "close" ELSE "join"
                 /\ n = prog.rounds
<1>1. prog.rounds \in 1..Rounds /\ prog \in Programs /\ Rounds \in Nat
  BY Fields, Sizes DEF TypeOK
<1>2. CASE n < prog.rounds
  <2>1. n < Rounds
    BY <1>1, <1>2
  <2>2. PICK a \in Nat, b \in Nat : a = n * Chunk /\ b = (n + 1) * Chunk /\ b = a + Chunk /\ b <= Data
    BY <2>1, Sizes
  <2>3. a <= b /\ b - a = Chunk
    BY <2>2, Sizes
  <2>4. Numbers(a + 1, b) \in Seq(Units) /\ Len(Numbers(a + 1, b)) = b - a
    BY <2>2, <2>3, Rows
  <2> QED BY <1>1, <1>2, <2>1, <2>2, <2>3, <2>4 DEF Advance
<1>3. CASE ~(n < prog.rounds)
  BY <1>1, <1>3 DEF Advance
<1> QED BY <1>2, <1>3

-----------------------------------------------------------------------------
(* Types, ends and bounds.                                                  *)

Flags == {serving, stored, panicked, upReset, downReset, pieces, refused} \subseteq BOOLEAN

LEMMA Typed ==
  ASSUME TypeOK
  PROVE  /\ prog \in Programs /\ capacity \in Nat \ {0} /\ round \in Nat /\ reads \in Nat
         /\ up \in Seq(Units) /\ down \in Seq(Units) /\ rest \in Seq(Units)
         /\ got \in Seq(Units) /\ held \in Seq(Units) /\ taken \in Seq(Units)
         /\ sent \in Seq(Units)
         /\ Len(up) \in Nat /\ Len(down) \in Nat /\ Len(rest) \in Nat /\ Len(got) \in Nat
         /\ Len(held) \in Nat /\ Len(taken) \in Nat /\ Len(sent) \in Nat
         /\ prog.rounds \in 1..Rounds /\ prog.reads \in 0..Rounds /\ round <= prog.rounds
<1>1. prog \in Programs /\ capacity \in Buffers /\ round \in 0..prog.rounds /\ reads \in 0..Data
      /\ {up, down, rest, got, held, taken, sent} \subseteq Seq(Units)
  BY DEF TypeOK
<1>2. prog.rounds \in 1..Rounds /\ prog.reads \in 0..Rounds
  BY <1>1, Fields
<1> QED BY <1>1, <1>2, Sizes, SessionAssumption

\* At a chunk there is a next round.
LEMMA Onward ==
  ASSUME TypeOK, SentBounded, cpc \in {"write", "read"}
  PROVE  /\ round \in Nat /\ round < prog.rounds /\ round < Rounds
         /\ round + 1 \in Nat /\ round + 1 <= prog.rounds
<1>1. round < prog.rounds
  BY DEF SentBounded
<1>2. round \in Nat /\ prog.rounds \in 1..Rounds
  BY Typed
<1>3. Rounds \in Nat
  BY Sizes
<1> QED BY <1>1, <1>2, <1>3

LEMMA FlagsTyped ==
  ASSUME TypeOK, [Next]_vars
  PROVE  Flags'
<1> USE DEF setting, clientVars, serverVars
<1>1. Flags
  BY DEF TypeOK, Flags
<1>2. prog.strict \in BOOLEAN
  BY Fields DEF TypeOK
<1>3. CASE UNCHANGED vars
  BY <1>1, <1>3 DEF vars, Flags
<1>4. ASSUME NEW to, NEW panic \in BOOLEAN, Hangup(to, panic)
      PROVE  {serving', panicked', upReset'} \subseteq BOOLEAN
  BY <1>4 DEF Hangup
<1>5. CASE Connect \/ ConnectFails \/ ReadEnd \/ Reset \/ Close \/ Join
  BY <1>1, <1>5 DEF Connect, ConnectFails, Fail, ReadEnd, LeaveLoop, Reset, Close, Join, Flags
<1>6. ASSUME NEW k \in Units, Write(k) \/ Read(k)
      PROVE  Flags'
  BY <1>1, <1>6 DEF Write, Read, Flags
<1>7. CASE Accept \/ AcceptFails \/ Store
  BY <1>1, <1>2, <1>4, <1>7 DEF Accept, AcceptFails, Store, Flags
<1>8. CASE EchoFails \/ StreamEnds \/ ReceiveFails \/ Stop
  BY <1>1, <1>2, <1>4, <1>8 DEF EchoFails, StreamEnds, ReceiveFails, Stop, HangupOnly, Flags
<1>9. ASSUME NEW k \in Units, Receive(k) \/ Echo(k)
      PROVE  Flags'
  BY <1>1, <1>4, <1>9 DEF Receive, Echo, Flags
<1> QED BY <1>3, <1>5, <1>6, <1>7, <1>8, <1>9 DEF Next, ClientStep, ServerStep

LEMMA EndsStep ==
  ASSUME TypeOK, Ends, [Next]_vars
  PROVE  Ends'
<1> USE DEF setting, clientVars, serverVars
<1>1. Flags /\ prog.strict \in BOOLEAN
  BY Fields DEF TypeOK, Flags
<1>2. CASE UNCHANGED vars
  BY <1>2 DEF vars, Ends
<1>3. CASE Connect \/ ConnectFails \/ ReadEnd \/ Reset \/ Close \/ Join
  BY <1>3 DEF Connect, ConnectFails, Fail, ReadEnd, LeaveLoop, Reset, Close, Join, Advance, Ends
<1>4. ASSUME NEW k \in Units, Write(k) \/ Read(k)
      PROVE  Ends'
  BY <1>4 DEF Write, Read, Advance, Ends
<1>5. CASE Accept \/ AcceptFails \/ Store
  <2>1. CASE Accept
    BY <2>1 DEF Accept, Ends
  <2>2. CASE AcceptFails
    BY <2>2 DEF AcceptFails, Hangup, Ends
  <2>3. CASE Store
    BY <2>3 DEF Store, Hangup, Ends
  <2> QED BY <1>5, <2>1, <2>2, <2>3
<1>6. CASE EchoFails \/ StreamEnds \/ ReceiveFails \/ Stop
  BY <1>6 DEF EchoFails, StreamEnds, ReceiveFails, Stop, HangupOnly, Hangup, AfterStream,
     Counted, Ends
<1>7. ASSUME NEW k \in Units, Receive(k)
      PROVE  Ends'
  <2>1. First(up, k) # <<>>
    <3>1. k \in 1..Len(up)
      BY <1>7, Sizes, Typed DEF Receive, Units
    <3> QED BY <3>1, Cut, Typed, EmptySeq
  <2> QED BY <1>7, <2>1 DEF Receive, Ends
<1>8. ASSUME NEW k \in Units, Echo(k)
      PROVE  Ends'
  <2>1. After(held, k) = <<>> <=> k = Len(held)
    <3>1. k \in 1..Len(held)
      BY <1>8, Sizes, Typed DEF Echo, Units
    <3> QED BY <3>1, Cut, Typed, EmptySeq
  <2> QED BY <1>8, <2>1 DEF Echo, Hangup, Counted, Ends
<1> QED BY <1>2, <1>3, <1>4, <1>5, <1>6, <1>7, <1>8 DEF Next, ClientStep, ServerStep

\* The next chunk fits what the client may have sent.
LEMMA NextChunkFits ==
  ASSUME TypeOK, NEW n \in Nat, n <= prog.rounds, Advance(n), UNCHANGED prog,
         sent' \in Seq(Units), Len(sent') <= n * Chunk, Len(sent') <= Data
  PROVE  SentBounded'
<1>1. /\ round' = n /\ cpc' \in {"write", "close", "join"}
      /\ cpc' = "write" => n < prog.rounds /\ n < Rounds /\ Len(rest') = Chunk
  BY Advances
<1>2. /\ Len(sent') \in Nat /\ Chunk \in Nat /\ n * Chunk \in Nat
      /\ n < Rounds => (n + 1) * Chunk = n * Chunk + Chunk
  BY Sizes
<1>3. cpc' = "write" => Len(sent') + Len(rest') <= (round' + 1) * Chunk
  BY <1>1, <1>2
<1> QED BY <1>1, <1>3 DEF SentBounded

\* What a write sends, and what it leaves to be sent.
LEMMA WriteSends ==
  ASSUME TypeOK, SentBounded, NEW k \in Units, Write(k)
  PROVE  /\ cpc = "write" /\ k \in 1..Len(rest) /\ round + 1 \in Nat /\ round + 1 <= prog.rounds
         /\ sent' \in Seq(Units) /\ Len(sent') \in Nat /\ Len(sent') <= Len(sent) + k
         /\ Len(sent') <= (round + 1) * Chunk /\ Len(sent') <= Data
         /\ First(rest, k) \in Seq(Units) /\ Len(First(rest, k)) = k
         /\ After(rest, k) \in Seq(Units) /\ Len(After(rest, k)) = Len(rest) - k
         /\ UNCHANGED prog
<1>1. cpc = "write" /\ k \in 1..Len(rest) /\ round \in Nat /\ round < prog.rounds /\ UNCHANGED prog
  BY Typed, Sizes DEF Write, Units, SentBounded, setting
<1>2. /\ First(rest, k) \in Seq(Units) /\ Len(First(rest, k)) = k
      /\ After(rest, k) \in Seq(Units) /\ Len(After(rest, k)) = Len(rest) - k
  BY <1>1, Typed, Cut
<1>3. \/ UNCHANGED sent
      \/ sent' = sent \o First(rest, k)
  BY DEF Write
<1>4. sent' \in Seq(Units) /\ Len(sent') \in Nat /\ Len(sent') <= Len(sent) + k
  <2>1. sent \in Seq(Units) /\ Len(sent) \in Nat /\ k \in Nat /\ Len(rest) \in Nat
    BY <1>1, Typed
  <2>2. /\ sent \o First(rest, k) \in Seq(Units)
        /\ Len(sent \o First(rest, k)) = Len(sent) + k
    BY <1>2, <2>1, ConcatProperties
  <2>3. CASE UNCHANGED sent
    BY <2>1, <2>3
  <2>4. CASE sent' = sent \o First(rest, k)
    BY <2>1, <2>2, <2>4
  <2> QED BY <1>3, <2>3, <2>4
<1>5. round + 1 \in Nat /\ round + 1 <= prog.rounds /\ round < Rounds
  BY <1>1, Typed, Sizes
<1>6. (round + 1) * Chunk \in Nat /\ (round + 1) * Chunk <= Data /\ Data \in Nat
  BY <1>1, <1>5, Sizes
<1>7. Len(sent) + Len(rest) <= (round + 1) * Chunk
  BY <1>1 DEF SentBounded
<1>8. Len(sent') <= (round + 1) * Chunk /\ Len(sent') <= Data
  <2>1. k <= Len(rest) /\ k \in Nat /\ Len(rest) \in Nat /\ Len(sent) \in Nat
    BY <1>1, Typed
  <2>2. PICK b \in Nat : b = (round + 1) * Chunk
    BY <1>6
  <2>3. Len(sent') <= b
    BY <1>4, <1>7, <2>1, <2>2
  <2> QED BY <1>4, <1>6, <2>2, <2>3
<1> QED BY <1>1, <1>2, <1>4, <1>5, <1>8

LEMMA SentBoundedStep ==
  ASSUME TypeOK, Ends, SentBounded, [Next]_vars
  PROVE  SentBounded'
<1> USE DEF setting, clientVars, serverVars
<1>1. ASSUME UNCHANGED <<prog, round, rest, sent>>, cpc' \in {cpc, "close", "join", "end"}
      PROVE  SentBounded'
  BY <1>1 DEF SentBounded
<1>2. CASE UNCHANGED vars \/ ServerStep
  BY <1>1, <1>2 DEF vars, ServerStep, Accept, AcceptFails, EchoFails, StreamEnds, ReceiveFails,
     Store, Stop, HangupOnly, Receive, Echo
<1>3. CASE Connect
  <2>1. 0 \in Nat /\ 0 <= prog.rounds /\ Len(sent') <= 0 * Chunk /\ Len(sent') <= Data
        /\ sent' \in Seq(Units)
    BY <1>3, Typed, Sizes DEF Connect, SentBounded
  <2> QED BY <1>3, <2>1, NextChunkFits DEF Connect
<1>4. CASE ConnectFails \/ Reset \/ Close \/ Join
  BY <1>1, <1>4 DEF ConnectFails, Fail, LeaveLoop, Reset, Close, Join
<1>5. ASSUME Advance(round + 1), cpc = "read", UNCHANGED <<prog, sent>>
      PROVE  SentBounded'
  <2>1. round + 1 \in Nat /\ round + 1 <= prog.rounds /\ Len(sent) <= (round + 1) * Chunk
        /\ Len(sent) <= Data
    BY <1>5, Typed DEF SentBounded
  <2> QED BY <1>5, <2>1, Typed, NextChunkFits
<1>6. CASE ReadEnd
  BY <1>1, <1>5, <1>6 DEF ReadEnd, LeaveLoop
<1>7. ASSUME NEW k \in Units, Read(k)
      PROVE  SentBounded'
  BY <1>5, <1>7 DEF Read
<1>8. ASSUME NEW k \in Units, Write(k)
      PROVE  SentBounded'
  <2>1. /\ cpc = "write" /\ k \in 1..Len(rest) /\ round + 1 \in Nat /\ round + 1 <= prog.rounds
        /\ sent' \in Seq(Units) /\ Len(sent') \in Nat /\ Len(sent') <= Len(sent) + k
        /\ Len(sent') <= (round + 1) * Chunk /\ Len(sent') <= Data
        /\ Len(After(rest, k)) = Len(rest) - k /\ UNCHANGED prog
    BY <1>8, WriteSends
  <2>2. CASE Advance(round + 1)
    BY <2>1, <2>2, NextChunkFits
  <2>3. CASE cpc' = "read" /\ UNCHANGED round
    BY <2>1, <2>3, Typed DEF SentBounded
  <2>4. CASE rest' = After(rest, k) /\ UNCHANGED <<cpc, round>>
    <3>1. Len(sent) + Len(rest) <= (round + 1) * Chunk /\ round < prog.rounds
      BY <2>1 DEF SentBounded
    <3>2. (round + 1) * Chunk \in Nat
      BY <2>1, Sizes
    <3>3. Len(sent') + Len(After(rest, k)) <= (round + 1) * Chunk
      <4>1. PICK b \in Nat : b = (round + 1) * Chunk
        BY <3>2
      <4>2. k \in Nat /\ Len(rest) \in Nat /\ Len(sent) \in Nat
        BY <2>1, Typed
      <4>3. Len(sent') + (Len(rest) - k) <= b
        BY <2>1, <3>1, <4>1, <4>2
      <4> QED BY <2>1, <4>1, <4>3
    <3> QED BY <2>1, <2>4, <3>1, <3>3 DEF SentBounded
  <2> QED BY <1>8, <2>2, <2>3, <2>4 DEF Write
<1> QED BY <1>2, <1>3, <1>4, <1>6, <1>7, <1>8 DEF Next, ClientStep

LEMMA ReadsCountedStep ==
  ASSUME TypeOK, Ends, SentBounded, ReadsCounted, [Next]_vars
  PROVE  ReadsCounted'
<1> USE DEF setting, clientVars, serverVars
<1>0. /\ Len(taken) \in Nat /\ Len(up) \in Nat /\ Len(sent) \in Nat /\ reads \in Nat
      /\ prog.reads \in Nat /\ Len(taken) + Len(up) <= Len(sent)
      /\ prog.reads = 0 => reads <= Len(taken)
      /\ prog.reads > 0 => reads <= prog.reads /\ (serving => reads < prog.reads)
  <2>1. /\ Len(taken) \in Nat /\ Len(up) \in Nat /\ Len(sent) \in Nat /\ reads \in Nat
        /\ prog.reads \in Nat
    BY Typed, Sizes
  <2> QED BY <2>1 DEF ReadsCounted
<1>1. CASE UNCHANGED vars
  BY <1>1 DEF vars, ReadsCounted
<1>2. CASE Connect \/ ConnectFails \/ ReadEnd \/ Reset \/ Close \/ Join
  BY <1>2 DEF Connect, ConnectFails, Fail, ReadEnd, LeaveLoop, Reset, Close, Join, ReadsCounted
<1>3. ASSUME NEW k \in Units, Read(k)
      PROVE  ReadsCounted'
  BY <1>3 DEF Read, ReadsCounted
<1>4. ASSUME NEW k \in Units, Write(k)
      PROVE  ReadsCounted'
  <2>1. k \in Nat /\ First(rest, k) \in Seq(Units) /\ Len(First(rest, k)) = k
    BY <1>4, WriteSends, Sizes DEF Units
  <2>2. Len(taken) + Len(up') <= Len(sent')
    <3>1. \/ UNCHANGED <<up, sent>>
          \/ up' = up \o First(rest, k) /\ sent' = sent \o First(rest, k)
      BY <1>4 DEF Write
    <3>2. /\ Len(up \o First(rest, k)) = Len(up) + k
          /\ Len(sent \o First(rest, k)) = Len(sent) + k
      BY <2>1, Typed, ConcatProperties
    <3>3. Len(taken) \in Nat /\ Len(up) \in Nat /\ Len(sent) \in Nat
          /\ Len(taken) + Len(up) <= Len(sent)
      BY Typed DEF ReadsCounted
    <3> QED BY <2>1, <3>1, <3>2, <3>3
  <2> QED BY <1>4, <2>2 DEF Write, ReadsCounted
<1>5. CASE Accept \/ AcceptFails \/ Store
  BY <1>5 DEF Accept, AcceptFails, Store, Hangup, ReadsCounted, Ends
<1>6. CASE EchoFails \/ ReceiveFails \/ Stop
  <2>1. /\ spc' \in {"again", "end"} /\ serving' = FALSE
        /\ UNCHANGED <<prog, up, taken, sent, reads>>
    BY <1>6 DEF EchoFails, ReceiveFails, Stop, HangupOnly, Hangup, AfterStream
  <2>2. reads + 0 = reads
    BY <1>0
  <2> QED BY <1>0, <2>1, <2>2 DEF ReadsCounted
<1>7. CASE StreamEnds
  <2>1. CASE prog.reads = 0
    <3>1. /\ spc' \in {"again", "end"} /\ serving' = FALSE
          /\ UNCHANGED <<prog, up, taken, sent, reads>>
      BY <1>7, <2>1 DEF StreamEnds, HangupOnly, Hangup, AfterStream
    <3>2. reads + 0 = reads
      BY <1>0
    <3> QED BY <1>0, <3>1, <3>2 DEF ReadsCounted
  <2>2. CASE prog.reads > 0
    <3>0. prog.reads # 0
      BY <2>2
    <3>1. serving /\ UNCHANGED <<prog, up, taken, sent>> /\ reads' = reads + 1
      BY <1>7, <3>0, Zenon DEF StreamEnds, Ends
    <3>2. IF reads + 1 = prog.reads THEN serving' = FALSE ELSE UNCHANGED serving /\ spc' = "read"
      BY <1>7, <3>0, Zenon DEF StreamEnds, Hangup, Counted
    <3>3. reads + 1 <= prog.reads /\ (reads + 1 # prog.reads => reads + 1 < prog.reads)
      BY <1>0, <2>2, <3>1
    <3>4. ReadsCounted' <=> /\ Len(taken) + Len(up) <= Len(sent)
                            /\ reads' <= prog.reads /\ (serving' => reads' < prog.reads)
      BY <2>2, <3>0, <3>1 DEF ReadsCounted
    <3>5. (serving' => reads' < prog.reads)
      BY <3>1, <3>2, <3>3
    <3> QED BY <1>0, <3>1, <3>3, <3>4, <3>5
  <2> QED BY <2>1, <2>2, Typed
<1>8. ASSUME NEW k \in Units, Receive(k)
      PROVE  ReadsCounted'
  <2>1. k \in 1..Len(up) /\ k \in Nat
    BY <1>8, Sizes, Typed DEF Receive, Units
  <2>2. First(up, k) \in Seq(Units) /\ Len(First(up, k)) = k /\ Len(After(up, k)) = Len(up) - k
    BY <2>1, Cut, Typed
  <2>3. Len(taken') = Len(taken) + k /\ Len(up') = Len(up) - k /\ UNCHANGED <<sent, prog, serving>>
    <3>1. Len(taken \o First(up, k)) = Len(taken) + k
      BY <2>2, Typed, ConcatProperties
    <3> QED BY <1>8, <2>2, <3>1 DEF Receive
  <2>4. Len(taken') + Len(up') <= Len(sent')
    BY <2>1, <2>3, Typed DEF ReadsCounted
  <2>5. /\ reads \in Nat /\ Len(taken) \in Nat /\ spc = "read" /\ k >= 1
        /\ prog.reads = 0 => reads <= Len(taken)
        /\ prog.reads > 0 => reads <= prog.reads /\ (serving => reads < prog.reads)
    BY <1>8, <2>1, Typed DEF Receive, ReadsCounted
  <2>6. CASE prog.echo
    <3>1. spc' = "write" /\ UNCHANGED reads
      BY <1>8, <2>6 DEF Receive
    <3>2. prog.reads = 0 => reads + 1 <= Len(taken')
      BY <2>1, <2>3, <2>5
    <3> QED BY <2>3, <2>4, <2>5, <3>1, <3>2 DEF ReadsCounted
  <2>7. CASE ~prog.echo
    <3>1. prog.reads = 0
      BY <2>7, Typed, Fields
    <3>2. reads' = reads + 1 /\ spc' = "read"
      BY <1>8, <2>5, <2>7 DEF Receive
    <3>3. reads' <= Len(taken') /\ reads' + 0 = reads'
      BY <2>1, <2>3, <2>5, <3>1, <3>2
    <3> QED BY <2>3, <2>4, <3>1, <3>2, <3>3 DEF ReadsCounted
  <2> QED BY <2>6, <2>7
<1>9. ASSUME NEW k \in Units, Echo(k)
      PROVE  ReadsCounted'
  <2>1. UNCHANGED <<prog, up, taken, sent>> /\ serving /\ spc = "write"
    BY <1>9 DEF Echo, Ends
  <2>2. /\ Len(taken) \in Nat /\ Len(up) \in Nat /\ Len(sent) \in Nat /\ reads \in Nat
        /\ prog.reads \in Nat /\ Len(held) \in Nat
        /\ prog.reads = 0 => reads + 1 <= Len(taken)
        /\ prog.reads > 0 => reads < prog.reads
        /\ Len(taken) + Len(up) <= Len(sent)
    BY <2>1, Typed, Sizes DEF ReadsCounted
  <2>3. CASE k # Len(held)
    <3>1. reads' = reads /\ spc' = "write" /\ UNCHANGED serving
      BY <1>9, <2>3 DEF Echo
    <3> QED BY <2>1, <2>2, <3>1 DEF ReadsCounted
  <2>4. CASE k = Len(held) /\ reads + 1 = prog.reads
    <3>1. reads' = reads + 1 /\ spc' = "end" /\ serving' = FALSE
      BY <1>9, <2>4 DEF Echo, Counted, Hangup
    <3> QED BY <2>1, <2>2, <2>4, <3>1 DEF ReadsCounted
  <2>5. CASE k = Len(held) /\ reads + 1 # prog.reads
    <3>1. reads' = reads + 1 /\ spc' = "read" /\ UNCHANGED serving
      BY <1>9, <2>5 DEF Echo, Counted
    <3> QED BY <2>1, <2>2, <2>5, <3>1 DEF ReadsCounted
  <2> QED BY <2>3, <2>4, <2>5
<1> QED BY <1>1, <1>2, <1>3, <1>4, <1>5, <1>6, <1>7, <1>8, <1>9 DEF Next, ClientStep, ServerStep

-----------------------------------------------------------------------------
(* Types.                                                                   *)

\* The units that a call moves.
LEMMA Moves ==
  ASSUME TypeOK, NEW k \in Units
  PROVE  /\ k \in Nat /\ k >= 1
         /\ Write(k) => /\ k \in 1..Len(rest) /\ First(rest, k) \in Seq(Units)
                        /\ After(rest, k) \in Seq(Units) /\ Len(First(rest, k)) = k
         /\ Read(k) => /\ k \in 1..Len(down) /\ First(down, k) \in Seq(Units)
                       /\ After(down, k) \in Seq(Units) /\ down = First(down, k) \o After(down, k)
                       /\ Len(First(down, k)) = k /\ Len(After(down, k)) = Len(down) - k
         /\ Receive(k) => /\ k \in 1..Len(up) /\ First(up, k) \in Seq(Units)
                          /\ After(up, k) \in Seq(Units) /\ up = First(up, k) \o After(up, k)
                          /\ Len(First(up, k)) = k /\ Len(After(up, k)) = Len(up) - k
         /\ Echo(k) => /\ k \in 1..Len(held) /\ First(held, k) \in Seq(Units)
                       /\ After(held, k) \in Seq(Units) /\ held = First(held, k) \o After(held, k)
                       /\ Len(First(held, k)) = k /\ Len(After(held, k)) = Len(held) - k
<1>1. k \in Nat /\ k >= 1
  BY Sizes DEF Units
<1>2. ASSUME NEW s \in Seq(Units), k <= Len(s)
      PROVE  /\ k \in 1..Len(s) /\ First(s, k) \in Seq(Units) /\ After(s, k) \in Seq(Units)
             /\ s = First(s, k) \o After(s, k)
             /\ Len(First(s, k)) = k /\ Len(After(s, k)) = Len(s) - k
  <2>1. k \in 1..Len(s)
    BY <1>1, <1>2
  <2> QED BY <2>1, Cut
<1>3. /\ Write(k) => k <= Len(rest)
      /\ Read(k) => k <= Len(down)
      /\ Receive(k) => k <= Len(up)
      /\ Echo(k) => k <= Len(held)
  BY DEF Write, Read, Receive, Echo
<1> QED BY <1>1, <1>2, <1>3, Typed

Queues == /\ {up, down, rest, got, held, taken, sent} \subseteq Seq(Units)
          /\ Len(up) <= capacity /\ Len(down) <= capacity

LEMMA QueuesStep ==
  ASSUME TypeOK, Ends, SentBounded, [Next]_vars
  PROVE  Queues'
<1> USE DEF setting, clientVars, serverVars
<1>1. Queues /\ <<>> \in Seq(Units)
  BY DEF TypeOK, Queues
<1>2. ASSUME NEW n \in Nat, n <= prog.rounds, Advance(n)
      PROVE  rest' \in Seq(Units)
  BY <1>2, Advances
<1>3. ASSUME UNCHANGED <<capacity, up, down, rest, got, held, taken, sent>>
      PROVE  Queues'
  BY <1>1, <1>3 DEF Queues
<1>4. CASE UNCHANGED vars
  BY <1>3, <1>4 DEF vars
<1>5. CASE Connect
  <2>1. rest' \in Seq(Units)
    BY <1>2, <1>5, Typed, Sizes DEF Connect
  <2> QED BY <1>1, <1>5, <2>1 DEF Connect, Queues
<1>6. CASE ConnectFails \/ Reset \/ Close \/ Join
  BY <1>3, <1>6 DEF ConnectFails, Fail, Reset, LeaveLoop, Close, Join
<1>7. ASSUME cpc \in {"write", "read"}, Advance(round + 1)
      PROVE  rest' \in Seq(Units)
  <2>1. round + 1 \in Nat /\ round + 1 <= prog.rounds
    BY <1>7, Onward
  <2> QED BY <1>2, <1>7, <2>1
<1>8. CASE ReadEnd
  <2>1. CASE LeaveLoop
    BY <1>3, <2>1 DEF LeaveLoop
  <2>2. CASE ~LeaveLoop
    <3>1. Advance(round + 1) /\ cpc = "read" /\ UNCHANGED <<capacity, up, down, got, held, taken, sent>>
      BY <1>8, <2>2 DEF ReadEnd
    <3>2. rest' \in Seq(Units)
      BY <1>7, <3>1
    <3> QED BY <1>1, <3>1, <3>2 DEF Queues
  <2> QED BY <2>1, <2>2
<1>9. ASSUME NEW k \in Units, Write(k)
      PROVE  Queues'
  <2>1. /\ cpc = "write" /\ sent' \in Seq(Units)
        /\ First(rest, k) \in Seq(Units) /\ Len(First(rest, k)) = k /\ After(rest, k) \in Seq(Units)
    BY <1>9, WriteSends
  <2>2. rest' \in Seq(Units)
    BY <1>1, <1>7, <1>9, <2>1 DEF Write
  <2>3. up' \in Seq(Units) /\ Len(up') <= capacity
    <3>1. up \o First(rest, k) \in Seq(Units) /\ Len(up \o First(rest, k)) = Len(up) + k
      BY <2>1, Typed, ConcatProperties
    <3> QED BY <1>1, <1>9, <3>1 DEF Write, Queues
  <2> QED BY <1>1, <1>9, <2>1, <2>2, <2>3 DEF Write, Queues
<1>10. ASSUME NEW k \in Units, Read(k)
       PROVE  Queues'
  <2>1. /\ cpc = "read" /\ First(down, k) \in Seq(Units) /\ After(down, k) \in Seq(Units)
        /\ Len(After(down, k)) = Len(down) - k /\ k \in Nat
    BY <1>10, Moves DEF Read
  <2>2. rest' \in Seq(Units)
    BY <1>7, <1>10, <2>1 DEF Read
  <2>3. got \o First(down, k) \in Seq(Units)
    BY <2>1, Typed, ConcatProperties
  <2>4. Len(After(down, k)) <= capacity
    BY <1>1, <2>1, Typed DEF Queues
  <2> QED BY <1>1, <1>10, <2>1, <2>2, <2>3, <2>4 DEF Read, Queues
<1>11. CASE Accept \/ AcceptFails \/ EchoFails \/ StreamEnds \/ ReceiveFails \/ Store \/ Stop
  BY <1>3, <1>11 DEF Accept, AcceptFails, EchoFails, StreamEnds, ReceiveFails, Store, Stop, HangupOnly
<1>12. ASSUME NEW k \in Units, Receive(k)
       PROVE  Queues'
  <2>1. /\ First(up, k) \in Seq(Units) /\ After(up, k) \in Seq(Units)
        /\ Len(After(up, k)) = Len(up) - k /\ k \in Nat
    BY <1>12, Moves
  <2>2. taken \o First(up, k) \in Seq(Units)
    BY <2>1, Typed, ConcatProperties
  <2>3. Len(After(up, k)) <= capacity
    BY <1>1, <2>1, Typed DEF Queues
  <2> QED BY <1>1, <1>12, <2>1, <2>2, <2>3 DEF Receive, Queues
<1>13. ASSUME NEW k \in Units, Echo(k)
       PROVE  Queues'
  <2>1. /\ First(held, k) \in Seq(Units) /\ After(held, k) \in Seq(Units)
        /\ Len(First(held, k)) = k
    BY <1>13, Moves
  <2>2. down \o First(held, k) \in Seq(Units) /\ Len(down \o First(held, k)) = Len(down) + k
    BY <2>1, Typed, ConcatProperties
  <2>3. down' \in Seq(Units) /\ Len(down') <= capacity
    BY <1>1, <1>13, <2>2 DEF Echo, Queues
  <2> QED BY <1>1, <1>13, <2>1, <2>3 DEF Echo, Queues
<1> QED BY <1>4, <1>5, <1>6, <1>8, <1>9, <1>10, <1>11, <1>12, <1>13 DEF Next, ClientStep, ServerStep

\* Sections, rounds and the verdict.
LEMMA SectionsStep ==
  ASSUME TypeOK, SentBounded, [Next]_vars
  PROVE  /\ UNCHANGED setting
         /\ cpc' \in {"connect", "write", "read", "close", "join", "end"}
         /\ round' \in 0..prog.rounds /\ client' \in {"none", "open", "closed"}
         /\ spc' \in {"accept", "read", "write", "again", "end"}
         /\ result' \in {"running", "ok", "failed"} /\ (result' = "running" <=> cpc' # "end")
<1> USE DEF setting, clientVars, serverVars
<1>1. /\ cpc \in {"connect", "write", "read", "close", "join", "end"}
      /\ round \in 0..prog.rounds /\ client \in {"none", "open", "closed"}
      /\ spc \in {"accept", "read", "write", "again", "end"}
      /\ result \in {"running", "ok", "failed"} /\ (result = "running" <=> cpc # "end")
  BY DEF TypeOK
<1>2. ASSUME NEW n \in Nat, n <= prog.rounds, Advance(n)
      PROVE  cpc' \in {"write", "close", "join"} /\ round' \in 0..prog.rounds
  BY <1>2, Advances
<1>3. CASE UNCHANGED vars
  BY <1>1, <1>3 DEF vars
<1>4. CASE Connect
  BY <1>1, <1>2, <1>4, Typed, Sizes DEF Connect
<1>5. CASE ConnectFails \/ Reset \/ Close \/ Join
  BY <1>1, <1>5 DEF ConnectFails, Fail, Reset, LeaveLoop, Close, Join
<1>6. ASSUME cpc \in {"write", "read"}, Advance(round + 1)
      PROVE  cpc' \in {"write", "close", "join"} /\ round' \in 0..prog.rounds
  <2>1. round + 1 \in Nat /\ round + 1 <= prog.rounds
    BY <1>6, Onward
  <2> QED BY <1>2, <1>6, <2>1
<1>7. CASE ReadEnd
  BY <1>1, <1>6, <1>7 DEF ReadEnd, LeaveLoop
<1>8. ASSUME NEW k \in Units, Write(k) \/ Read(k)
      PROVE  /\ cpc' \in {"connect", "write", "read", "close", "join"} /\ round' \in 0..prog.rounds
             /\ UNCHANGED <<setting, client, spc, result>> /\ cpc # "end"
  BY <1>1, <1>6, <1>8 DEF Write, Read
<1>9. CASE ServerStep
  <2>1. UNCHANGED <<setting, clientVars>>
    BY <1>9 DEF ServerStep, Accept, AcceptFails, EchoFails, StreamEnds, ReceiveFails, Store, Stop,
       HangupOnly, Receive, Echo
  <2>2. spc' \in {"accept", "read", "write", "again", "end"}
    BY <1>1, <1>9 DEF ServerStep, Accept, AcceptFails, EchoFails, StreamEnds, ReceiveFails, Store,
       Stop, HangupOnly, Hangup, AfterStream, Receive, Echo
  <2> QED BY <1>1, <2>1, <2>2
<1> QED BY <1>1, <1>3, <1>4, <1>5, <1>7, <1>8, <1>9 DEF Next, ClientStep

LEMMA TypeStep ==
  ASSUME TypeOK, Ends, SentBounded, ReadsCounted, [Next]_vars
  PROVE  TypeOK'
<1>1. Queues' /\ Flags' /\ SentBounded' /\ ReadsCounted'
  BY QueuesStep, FlagsTyped, SentBoundedStep, ReadsCountedStep
<1>2. /\ UNCHANGED setting
      /\ cpc' \in {"connect", "write", "read", "close", "join", "end"}
      /\ round' \in 0..prog.rounds /\ client' \in {"none", "open", "closed"}
      /\ spc' \in {"accept", "read", "write", "again", "end"}
      /\ result' \in {"running", "ok", "failed"} /\ (result' = "running" <=> cpc' # "end")
  BY SectionsStep
<1>3. UNCHANGED <<prog, capacity>>
  BY <1>2 DEF setting
<1>4. reads' \in Nat
  <2>1. reads \in Nat
    BY Typed
  <2>2. CASE UNCHANGED vars \/ ClientStep
    BY <2>1, <2>2 DEF vars, ClientStep, Connect, ConnectFails, Fail, ReadEnd, LeaveLoop, Reset,
       Close, Join, Write, Read, clientVars, serverVars
  <2>3. CASE ServerStep
    <3>1. ASSUME Accept \/ AcceptFails \/ EchoFails \/ ReceiveFails \/ Store \/ Stop
          PROVE  reads' = reads
      BY <3>1 DEF Accept, AcceptFails, EchoFails, ReceiveFails, Store, Stop, HangupOnly
    <3>2. ASSUME StreamEnds
          PROVE  reads' \in {reads, reads + 1}
      BY <3>2 DEF StreamEnds, HangupOnly
    <3>3. ASSUME NEW k \in Units, Receive(k) \/ Echo(k)
          PROVE  reads' \in {reads, reads + 1}
      BY <3>3 DEF Receive, Echo
    <3> QED BY <2>1, <2>3, <3>1, <3>2, <3>3 DEF ServerStep
  <2> QED BY <2>2, <2>3 DEF Next
<1>5. reads' <= Data
  <2>1. /\ Len(taken') \in Nat /\ Len(up') \in Nat /\ Len(sent') \in Nat
        /\ Len(taken') + Len(up') <= Len(sent') /\ Len(sent') <= Data
    BY <1>1 DEF Queues, SentBounded, ReadsCounted
  <2>2. CASE prog.reads = 0
    <3>1. reads' <= Len(taken')
      BY <1>1, <1>3, <1>4, <2>1, <2>2 DEF ReadsCounted
    <3> QED BY <1>4, <2>1, <3>1, Sizes
  <2>3. CASE prog.reads > 0
    <3>1. reads' <= prog.reads
      BY <1>1, <1>3, <2>3 DEF ReadsCounted
    <3> QED BY <1>4, <3>1, Sizes, Typed
  <2> QED BY <2>2, <2>3, Typed, Sizes
<1> QED BY <1>1, <1>2, <1>3, <1>4, <1>5, Sizes DEF TypeOK, Queues, Flags

-----------------------------------------------------------------------------
(* Every unit in its place.                                                 *)

LEMMA Regroup ==
  \A a, b, c \in Seq(Units) : a \o b \in Seq(Units) /\ (a \o b) \o c = a \o (b \o c)
<1>1. ASSUME NEW a \in Seq(Units), NEW b \in Seq(Units), NEW c \in Seq(Units)
      PROVE  a \o b \in Seq(Units) /\ (a \o b) \o c = a \o (b \o c)
  BY ConcatProperties, ConcatAssociative
<1> QED BY <1>1

\* The equation by name, for steps that need a few instances of it.
Regroups(a, b, c) == (a \o b) \o c = a \o (b \o c)

LEMMA Joins ==
  \A a, b, c \in Seq(Units) : a \o b \in Seq(Units) /\ Regroups(a, b, c)
<1>1. ASSUME NEW a \in Seq(Units), NEW b \in Seq(Units), NEW c \in Seq(Units)
      PROVE  a \o b \in Seq(Units) /\ Regroups(a, b, c)
  BY ConcatProperties, ConcatAssociative DEF Regroups
<1> QED BY <1>1, Zenon

\* When f goes from what is held to the queue, the row stays the same, however it is read.
Shifted(g, d, f, a, u) ==
  LET w == ((g \o d) \o (f \o a)) \o u
  IN w = ((g \o (d \o f)) \o a) \o u /\ w = (g \o (d \o f)) \o (a \o u)

LEMMA Shifts ==
  ASSUME NEW g \in Seq(Units), NEW d \in Seq(Units), NEW f \in Seq(Units), NEW a \in Seq(Units),
         NEW u \in Seq(Units)
  PROVE  Shifted(g, d, f, a, u)
<1>1. g \o d \in Seq(Units) /\ d \o f \in Seq(Units) /\ a \o u \in Seq(Units)
  BY Joins, Zenon
<1>2. g \o (d \o f) \in Seq(Units)
  BY <1>1, Joins, Zenon
<1>3. Regroups(g, d, f) /\ Regroups(g \o d, f, a) /\ Regroups(g \o (d \o f), a, u)
  BY <1>1, <1>2, Joins, Zenon
<1> QED BY <1>3, Zenon DEF Regroups, Shifted

LEMMA WriteFlows ==
  ASSUME TypeOK, Ends, SentBounded, Flow, NEW k \in Units, Write(k)
  PROVE  Flow'
<1> USE DEF setting, clientVars, serverVars
<1>1. /\ First(rest, k) \in Seq(Units) /\ UNCHANGED <<prog, got, down, held, taken, client, serving>>
      /\ \/ UNCHANGED <<sent, up>>
         \/ sent' = sent \o First(rest, k) /\ up' = up \o First(rest, k)
  BY Moves DEF Write
<1>2. CASE UNCHANGED <<sent, up>>
  BY <1>1, <1>2 DEF Flow
<1>3. CASE sent' = sent \o First(rest, k) /\ up' = up \o First(rest, k)
  <2>1. PICK f \in Seq(Units) : f = First(rest, k)
    BY <1>1
  <2>2. PICK z \in Seq(Units) : sent = got \o down \o z
    BY DEF Flow
  <2>3. /\ got \in Seq(Units) /\ down \in Seq(Units) /\ held \in Seq(Units) /\ up \in Seq(Units)
        /\ taken \in Seq(Units)
    BY Typed
  <2>4. PICK x \in Seq(Units) : x = got \o down
    BY <2>3, Regroup
  <2>5. z \o f \in Seq(Units) /\ sent \o f = x \o (z \o f)
    BY <2>2, <2>4, Regroup
  <2>6. sent = x \o held \o up => sent \o f = x \o held \o (up \o f)
    <3>1. PICK y \in Seq(Units) : y = x \o held
      BY <2>3, Regroup
    <3>2. \A v \in Seq(Units) : (y \o v) \o f = y \o (v \o f)
      BY Regroup
    <3>3. (y \o up) \o f = y \o (up \o f)
      BY <2>3, <3>2, Zenon
    <3> QED BY <3>1, <3>3
  <2>7. (taken \o up) \o f = taken \o (up \o f)
    <3>1. \A u, v \in Seq(Units) : (u \o v) \o f = u \o (v \o f)
      BY Regroup
    <3> QED BY <2>3, <3>1, Zenon
  <2> QED BY <1>1, <1>3, <2>1, <2>4, <2>5, <2>6, <2>7 DEF Flow
<1> QED BY <1>1, <1>2, <1>3

LEMMA ReadFlows ==
  ASSUME TypeOK, Ends, Flow, NEW k \in Units, Read(k)
  PROVE  Flow'
<1> USE DEF setting, clientVars, serverVars
<1>1. PICK f \in Seq(Units), a \in Seq(Units) :
        f = First(down, k) /\ a = After(down, k) /\ down = f \o a
  BY Moves
<1>2. /\ UNCHANGED <<prog, up, held, taken, client, serving, sent>>
      /\ got' = got \o f /\ down' = a
  BY <1>1 DEF Read
<1>3. got \in Seq(Units)
  BY Typed
<1>4. got \o down = (got \o f) \o a
  <2>1. got \o (f \o a) = (got \o f) \o a
    BY <1>3, Regroup
  <2> QED BY <1>1, <2>1
<1>5. ~prog.echo => FALSE
  <2>1. k \in 1..Len(down)
    BY Moves
  <2> QED BY <2>1, EmptySeq DEF Flow
<1> QED BY <1>2, <1>4, <1>5 DEF Flow

LEMMA ReceiveFlows ==
  ASSUME TypeOK, Ends, Flow, NEW k \in Units, Receive(k)
  PROVE  Flow'
<1> USE DEF setting, clientVars, serverVars
<1>1. PICK f \in Seq(Units), a \in Seq(Units) :
        f = First(up, k) /\ a = After(up, k) /\ up = f \o a
  BY Moves
<1>2. /\ UNCHANGED <<prog, got, down, client, serving, sent>>
      /\ taken' = taken \o f /\ up' = a
      /\ prog.echo => held' = f
      /\ ~prog.echo => UNCHANGED held
  BY <1>1 DEF Receive
<1>3. got \in Seq(Units) /\ down \in Seq(Units) /\ taken \in Seq(Units)
  BY Typed
<1>4. serving => held = <<>>
  BY DEF Ends, Receive
<1>5. PICK x \in Seq(Units) : x = got \o down
  BY <1>3, Regroup
<1>6. x \o <<>> = x /\ x \o up = (x \o f) \o a
  <2>1. x \o (f \o a) = (x \o f) \o a
    BY Regroup
  <2> QED BY <1>1, <2>1, ConcatEmptySeq
<1>7. taken \o up = (taken \o f) \o a
  <2>1. taken \o (f \o a) = (taken \o f) \o a
    <3>1. \A u \in Seq(Units) : u \o (f \o a) = (u \o f) \o a
      <4>1. f \in Seq(Units) /\ a \in Seq(Units)
        OBVIOUS
      <4>2. ASSUME NEW u \in Seq(Units)
            PROVE  (u \o f) \o a = u \o (f \o a)
        BY <4>1, Regroup, Zenon
      <4> QED BY <4>2, Zenon
    <3> QED BY <1>3, <3>1, Zenon
  <2> QED BY <1>1, <2>1
<1> QED BY <1>2, <1>4, <1>5, <1>6, <1>7 DEF Flow

LEMMA EchoFlows ==
  ASSUME TypeOK, Ends, Flow, NEW k \in Units, Echo(k)
  PROVE  Flow'
<1> USE DEF setting, clientVars, serverVars
<1>1. PICK f \in Seq(Units), a \in Seq(Units) :
        f = First(held, k) /\ a = After(held, k) /\ held = f \o a
  BY Moves
<1>2. /\ UNCHANGED <<prog, got, up, taken, client, sent>> /\ held' = a
      /\ IF client = "open" THEN down' = down \o f ELSE UNCHANGED down
  BY <1>1 DEF Echo
<1>3. prog.echo /\ serving
  BY DEF Ends, Echo
<1>4. CASE client = "open"
  <2>1. got \in Seq(Units) /\ down \in Seq(Units) /\ up \in Seq(Units)
    BY Typed
  <2>2. sent = ((got \o down) \o held) \o up
    BY <1>3, <1>4 DEF Flow
  <2>3. Shifted(got, down, f, a, up) /\ a \o up \in Seq(Units)
    BY <1>1, <2>1, Shifts, Joins, Zenon
  <2>4. sent = ((got \o (down \o f)) \o a) \o up /\ sent = (got \o (down \o f)) \o (a \o up)
    BY <1>1, <2>2, <2>3, Zenon DEF Shifted
  <2>5. \E z \in Seq(Units) : sent = (got \o (down \o f)) \o z
    BY <2>3, <2>4, Zenon
  <2> QED BY <1>2, <1>3, <1>4, <2>4, <2>5 DEF Flow
<1>5. CASE client # "open"
  BY <1>2, <1>3, <1>5 DEF Flow
<1> QED BY <1>4, <1>5

LEMMA FlowStep ==
  ASSUME TypeOK, Ends, SentBounded, ReadsCounted, Flow, [Next]_vars
  PROVE  Flow'
<1> USE DEF setting, clientVars, serverVars
<1>1. CASE UNCHANGED vars
  BY <1>1 DEF vars, Flow
<1>2. CASE Connect
  <2>1. client = "none" /\ spc # "write" /\ Len(sent) = 0
    BY <1>2 DEF Connect, Ends, SentBounded
  <2>2. PICK z \in Seq(Units) : sent = got \o down \o z
    BY DEF Flow
  <2>3. up = <<>> /\ sent = <<>>
    <3>1. Len(up) = 0
      BY <2>1, Typed DEF ReadsCounted
    <3> QED BY <2>1, <3>1, Typed, EmptySeq
  <2>4. got = <<>> /\ down = <<>>
    <3>1. got \o down = <<>>
      <4>1. got \o down \in Seq(Units)
        BY Typed, Regroup
      <4>2. (got \o down) \o z = <<>>
        BY <2>2, <2>3
      <4> QED BY <4>1, <4>2, ConcatEqualIffEmpty
    <3> QED BY <3>1, Typed, ConcatEqualIffEmpty
  <2>5. serving /\ held = <<>>
    BY <1>2, <2>1 DEF Connect, Ends
  <2>6. <<>> \o <<>> = <<>>
    <3>1. <<>> \in Seq(Units)
      OBVIOUS
    <3> QED BY <3>1, ConcatEmptySeq
  <2> QED BY <1>2, <2>3, <2>4, <2>5, <2>6 DEF Connect, Flow
<1>3. CASE ConnectFails \/ ReadEnd \/ Reset \/ Join
  <2>1. UNCHANGED <<prog, got, down, held, up, taken, client, serving, sent>>
    BY <1>3 DEF ConnectFails, Fail, ReadEnd, LeaveLoop, Reset, Join
  <2> QED BY <2>1 DEF Flow
<1>4. CASE Close
  BY <1>4 DEF Close, Flow
<1>5. CASE Accept
  BY <1>5 DEF Accept, Flow
<1>6. CASE AcceptFails \/ EchoFails \/ ReceiveFails \/ Store \/ Stop
  <2>1. /\ serving' = FALSE
        /\ UNCHANGED <<prog, got, down, sent>>
    BY <1>6 DEF AcceptFails, EchoFails, ReceiveFails, Store, Stop, HangupOnly, Hangup
  <2> QED BY <2>1 DEF Flow
<1>7. CASE StreamEnds
  <2>1. UNCHANGED <<prog, got, down, held, up, taken, client, sent>>
    BY <1>7 DEF StreamEnds, HangupOnly
  <2>2. UNCHANGED serving \/ serving' = FALSE
    BY <1>7 DEF StreamEnds, HangupOnly, Hangup
  <2>3. CASE UNCHANGED serving
    BY <2>1, <2>3 DEF Flow
  <2>4. CASE serving' = FALSE
    BY <2>1, <2>4 DEF Flow
  <2> QED BY <2>2, <2>3, <2>4
<1> QED BY <1>1, <1>2, <1>3, <1>4, <1>5, <1>6, <1>7, WriteFlows, ReadFlows, ReceiveFlows, EchoFlows
        DEF Next, ClientStep, ServerStep

-----------------------------------------------------------------------------
(* The verdict of end_to_end.                                               *)

LEMMA NextChunkInRow ==
  ASSUME TypeOK, NEW n \in Nat, n <= prog.rounds, Advance(n),
         Len(sent') <= n * Chunk, Len(sent') = n * Chunk => sent' = Numbers(1, n * Chunk)
  PROVE  ChunksSent'
<1>1. round' = n /\ (cpc' = "write" => rest' = Numbers(n * Chunk + 1, (n + 1) * Chunk))
  BY Advances
<1> QED BY <1>1 DEF ChunksSent

\* A file's client sends its chunks one after another.
LEMMA ChunkSentWhole ==
  ASSUME TypeOK, SentBounded, ChunksSent, prog.file > 0, NEW k \in Units, Write(k)
  PROVE  /\ Advance(round + 1) /\ cpc = "write"
         /\ Len(sent') <= (round + 1) * Chunk
         /\ Len(sent') = (round + 1) * Chunk => sent' = Numbers(1, (round + 1) * Chunk)
<1>1. ~prog.whole /\ ~prog.reply
  BY Fields, Typed
<1>2. /\ cpc = "write" /\ k \in 1..Len(rest) /\ round + 1 \in Nat /\ round + 1 <= prog.rounds
      /\ Len(sent') \in Nat /\ Len(sent') <= Len(sent) + k /\ Len(sent') <= (round + 1) * Chunk
      /\ Len(First(rest, k)) = k
  BY WriteSends
<1>3. Advance(round + 1)
  BY <1>1 DEF Write
<1>4. round \in Nat /\ round < Rounds
  BY <1>2, Onward
<1>5. PICK a \in Nat, b \in Nat :
        a = round * Chunk /\ b = (round + 1) * Chunk /\ b = a + Chunk /\ b <= Data
  BY <1>4, Sizes
<1>6. /\ rest = Numbers(a + 1, b) /\ Len(sent) <= a /\ (Len(sent) = a => sent = Numbers(1, a))
  BY <1>2, <1>5 DEF ChunksSent
<1>7. Len(rest) = Chunk /\ Numbers(1, a) \o rest = Numbers(1, b)
  <2>1. a <= b /\ b - a = Chunk
    BY <1>5, Sizes
  <2> QED BY <1>5, <1>6, <2>1, Rows
<1>8. ASSUME Len(sent') = b
      PROVE  sent' = Numbers(1, b)
  <2>1. Len(sent) \in Nat /\ k \in Nat /\ Chunk \in Nat \ {0}
    BY Typed, Sizes DEF Units
  <2>2. k = Chunk /\ Len(sent) = a
    BY <1>2, <1>5, <1>6, <1>7, <1>8, <2>1
  <2>3. First(rest, k) = rest
    BY <1>7, <2>2, Typed, SubSeqFull DEF First
  <2>4. sent' # sent
    BY <1>5, <1>8, <2>1, <2>2
  <2>5. sent' = sent \o rest
    BY <2>3, <2>4 DEF Write
  <2> QED BY <1>6, <1>7, <2>2, <2>5
<1> QED BY <1>2, <1>3, <1>5, <1>8

LEMMA ChunksSentStep ==
  ASSUME TypeOK, Ends, SentBounded, Flow, ChunksSent, prog.file > 0, [Next]_vars
  PROVE  ChunksSent'
<1> USE DEF setting, clientVars, serverVars
<1>1. ~prog.echo /\ ~prog.lenient
  BY Fields, Typed
<1>2. ASSUME UNCHANGED <<round, sent>>, cpc' = "write" => cpc = "write" /\ UNCHANGED rest
      PROVE  ChunksSent'
  BY <1>2 DEF ChunksSent
<1>3. CASE UNCHANGED vars \/ ServerStep
  BY <1>2, <1>3 DEF vars, ServerStep, Accept, AcceptFails, EchoFails, StreamEnds, ReceiveFails,
     Store, Stop, HangupOnly, Receive, Echo
<1>4. CASE ConnectFails \/ Reset \/ Close \/ Join
  BY <1>1, <1>2, <1>4 DEF ConnectFails, Fail, LeaveLoop, Reset, Close, Join
<1>5. CASE Connect
  <2>1. Len(sent') = 0 /\ sent' = <<>> /\ 0 * Chunk = 0
    <3>1. Len(sent) = 0 /\ UNCHANGED sent
      BY <1>5 DEF Connect, SentBounded
    <3> QED BY <3>1, Typed, EmptySeq, Sizes
  <2>2. Numbers(1, 0) = <<>>
    <3>1. 0 <= 0 /\ 0 <= Data /\ 0 + 1 = 1 /\ 0 - 0 = 0
      BY Sizes
    <3>2. Numbers(1, 0) \in Seq(Units) /\ Len(Numbers(1, 0)) = 0
      BY <3>1, Rows
    <3> QED BY <3>2, EmptySeq
  <2>3. 0 <= prog.rounds /\ Advance(0)
    BY <1>5, Typed, Sizes DEF Connect
  <2> QED BY <2>1, <2>2, <2>3, NextChunkInRow
<1>6. CASE ReadEnd
  <2>1. Advance(round + 1) /\ UNCHANGED sent /\ cpc = "read"
    BY <1>1, <1>6 DEF ReadEnd
  <2>2. round + 1 \in Nat /\ round + 1 <= prog.rounds /\ round \in Nat /\ round < Rounds
    BY <2>1, Onward
  <2>3. PICK a \in Nat : a = round * Chunk /\ (round + 1) * Chunk = a + Chunk
    BY <2>2, Sizes
  <2>4. Len(sent') <= a /\ Len(sent') \in Nat
    BY <2>1, <2>3, Typed DEF ChunksSent
  <2>5. Len(sent') <= (round + 1) * Chunk /\ Len(sent') # (round + 1) * Chunk
    BY <2>3, <2>4, Sizes
  <2> QED BY <2>1, <2>2, <2>5, NextChunkInRow
<1>7. ASSUME NEW k \in Units, Read(k)
      PROVE  FALSE
  <2>1. k \in 1..Len(down)
    BY <1>7, Moves
  <2> QED BY <1>1, <2>1, EmptySeq DEF Flow
<1>8. ASSUME NEW k \in Units, Write(k)
      PROVE  ChunksSent'
  <2>1. round + 1 \in Nat /\ round + 1 <= prog.rounds
    BY <1>8, WriteSends
  <2> QED BY <1>8, <2>1, ChunkSentWhole, NextChunkInRow
<1> QED BY <1>3, <1>4, <1>5, <1>6, <1>7, <1>8 DEF Next, ClientStep

LEMMA StoredStep ==
  ASSUME TypeOK, Ends, SentBounded, Flow, StoredWasSent, prog.file > 0, [Next]_vars
  PROVE  StoredWasSent'
<1> USE DEF setting, clientVars, serverVars
<1>1. /\ ~prog.echo /\ ~prog.lenient /\ ~prog.whole /\ ~prog.reply /\ prog.closes /\ ~prog.strict
      /\ prog.rounds = Rounds
  BY Fields, Typed
<1>2. CASE UNCHANGED vars
  BY <1>2 DEF vars, StoredWasSent, FilesMatch
<1>3. ASSUME NEW n \in Nat, n <= prog.rounds, Advance(n), UNCHANGED <<client, stored>>,
             cpc \in {"connect", "write", "read"}
      PROVE  StoredWasSent'
  <2>1. cpc' = "write" \/ (cpc' = "close" /\ round' = Rounds)
    BY <1>1, <1>3, Advances
  <2>2. client # "closed" /\ ~stored
    BY <1>3 DEF Ends, StoredWasSent
  <2> QED BY <1>3, <2>1, <2>2 DEF StoredWasSent
<1>4. ASSUME cpc \in {"write", "read"}, Advance(round + 1), UNCHANGED <<client, stored>>
      PROVE  StoredWasSent'
  <2>1. round + 1 \in Nat /\ round + 1 <= prog.rounds
    BY <1>4, Onward
  <2> QED BY <1>3, <1>4, <2>1
<1>5. CASE Connect
  <2>1. 0 \in Nat /\ 0 <= prog.rounds /\ Advance(0) /\ client = "none" /\ ~stored
    BY <1>5, Typed, Sizes DEF Connect, Ends, StoredWasSent
  <2>2. cpc' = "write" \/ (cpc' = "close" /\ round' = Rounds)
    BY <1>1, <2>1, Advances
  <2> QED BY <1>5, <2>1, <2>2 DEF Connect, StoredWasSent
<1>6. CASE ConnectFails \/ Reset
  <2>1. cpc' = "end" /\ client # "closed" /\ ~stored /\ UNCHANGED <<client, stored>>
    BY <1>1, <1>6 DEF ConnectFails, Reset, Fail, Ends, StoredWasSent
  <2> QED BY <2>1 DEF StoredWasSent
<1>7. CASE ReadEnd
  BY <1>1, <1>4, <1>7 DEF ReadEnd
<1>8. CASE Close
  <2>1. client = "open" /\ round = Rounds /\ ~stored
    BY <1>8 DEF Close, Ends, StoredWasSent
  <2> QED BY <1>8, <2>1 DEF Close, StoredWasSent
<1>9. CASE Join
  <2>1. client = "closed" /\ round = Rounds /\ ~panicked /\ spc = "end"
    BY <1>1, <1>9 DEF Join, Ends, StoredWasSent
  <2>2. result' = IF ~FilesMatch THEN "failed" ELSE "ok"
    BY <1>9, <2>1 DEF Join
  <2>3. UNCHANGED FilesMatch
    BY <1>9 DEF Join, FilesMatch
  <2>4. cpc' = "end" /\ UNCHANGED <<client, round, stored, spc, taken, sent>>
    BY <1>9 DEF Join
  <2> QED BY <2>1, <2>2, <2>3, <2>4 DEF StoredWasSent
<1>10. ASSUME NEW k \in Units, Write(k)
       PROVE  StoredWasSent'
  BY <1>1, <1>4, <1>10 DEF Write
<1>11. ASSUME NEW k \in Units, Read(k)
       PROVE  StoredWasSent'
  BY <1>4, <1>11 DEF Read
<1>12. ASSUME spc # "end", UNCHANGED <<cpc, client, round>>, ~stored'
       PROVE  StoredWasSent'
  BY <1>12 DEF StoredWasSent
<1>13. spc # "end" => ~stored
  BY DEF StoredWasSent
<1>14. CASE Accept \/ AcceptFails \/ EchoFails \/ ReceiveFails
  BY <1>12, <1>13, <1>14 DEF Accept, AcceptFails, EchoFails, ReceiveFails, HangupOnly
<1>15. CASE StreamEnds
  BY <1>1, <1>15 DEF StreamEnds
<1>16. CASE Stop
  <2>1. ~prog.polls
    BY Fields, Typed
  <2> QED BY <1>16, <2>1 DEF Stop
<1>17. ASSUME NEW k \in Units, Receive(k) \/ Echo(k)
       PROVE  StoredWasSent'
  BY <1>12, <1>13, <1>17 DEF Receive, Echo
<1>18. CASE Store
  <2>1. /\ client = "closed" /\ up = <<>> /\ serving /\ spc' = "end" /\ spc = "read"
        /\ UNCHANGED <<cpc, client, round, taken, sent>>
    BY <1>18 DEF Store, Hangup, Ends
  <2>2. taken = sent
    BY <1>1, <2>1, Typed, ConcatEmptySeq DEF Flow
  <2> QED BY <2>1, <2>2 DEF StoredWasSent
<1> QED BY <1>2, <1>5, <1>6, <1>7, <1>8, <1>9, <1>10, <1>11, <1>14, <1>15, <1>16, <1>17, <1>18
        DEF Next, ClientStep, ServerStep

-----------------------------------------------------------------------------
(* perf_benchmark in step.                                                  *)

\* A round of the client ends with all that was sent come back.
LEMMA RoundEnds ==
  ASSUME TypeOK, Ends, SentBounded, InStep, prog.strict, NEW k \in Units, Read(k), ~pieces'
  PROVE  InStep'
<1> USE DEF setting, clientVars, serverVars
<1>1. prog.closes /\ prog.reads = prog.rounds
  BY Fields, Typed
<1>2. /\ cpc = "read" /\ k <= Len(down) /\ k >= Chunk /\ k \in Nat
      /\ Len(After(down, k)) = Len(down) - k /\ After(down, k) \in Seq(Units)
      /\ Chunk \in Nat \ {0} /\ Len(down) \in Nat /\ Len(held) \in Nat
  <2>1. ~(k < Chunk)
    BY DEF Read
  <2>2. /\ k \in Nat /\ Chunk \in Nat \ {0} /\ Len(down) \in Nat /\ Len(held) \in Nat
        /\ Len(After(down, k)) = Len(down) - k /\ After(down, k) \in Seq(Units)
    BY Moves, Typed, Sizes
  <2>3. k >= Chunk
    BY <2>1, <2>2
  <2> QED BY <2>2, <2>3 DEF Read
<1>3. spc = "write" /\ Len(down) + Len(held) = Chunk => FALSE
  <2>1. spc = "write" => held # <<>>
    BY DEF Ends
  <2>2. spc = "write" => Len(held) # 0
    BY <2>1, Typed, EmptySeq
  <2> QED BY <1>2, <2>2
<1>4. /\ spc = (IF round + 1 = prog.rounds THEN "end" ELSE "read")
      /\ up = <<>> /\ Len(down) = Chunk /\ reads = round + 1
  <2>1. down # <<>>
    BY <1>2, EmptySeq
  <2> QED BY <1>2, <1>3, <2>1 DEF InStep
<1>5. down' = <<>> /\ UNCHANGED <<prog, up, spc, reads, client, upReset, downReset, panicked>>
  <2>1. Len(After(down, k)) = 0
    BY <1>2, <1>4
  <2>2. After(down, k) = <<>>
    BY <1>2, <2>1, EmptySeq
  <2> QED BY <2>2 DEF Read
<1>6. /\ round + 1 \in Nat /\ round + 1 <= prog.rounds /\ Advance(round + 1)
      /\ client = "open" /\ prog.rounds \in Nat
  <2>1. Advance(round + 1) /\ client = "open" /\ round < prog.rounds
    BY <1>2 DEF Read, Ends, SentBounded
  <2>2. round \in Nat /\ prog.rounds \in Nat
    BY Typed, Sizes
  <2> QED BY <2>1, <2>2
<1>7. /\ round' = round + 1
      /\ IF round + 1 < prog.rounds THEN cpc' = "write" /\ Len(rest') = Chunk
         ELSE cpc' = "close" /\ round + 1 = prog.rounds
  BY <1>1, <1>6, Advances
<1>8. ~upReset /\ ~downReset /\ ~panicked
  BY DEF InStep
<1>9. CASE round + 1 < prog.rounds
  <2>1. spc = "read" /\ cpc' = "write" /\ Len(rest') = Chunk /\ round' = round + 1
    BY <1>4, <1>6, <1>7, <1>9
  <2> QED BY <1>4, <1>5, <1>6, <1>8, <2>1 DEF InStep
<1>10. CASE ~(round + 1 < prog.rounds)
  <2>1. spc = "end" /\ cpc' = "close"
    BY <1>4, <1>7, <1>10
  <2> QED BY <1>4, <1>5, <1>6, <1>8, <2>1 DEF InStep
<1> QED BY <1>9, <1>10

\* A chunk is sent whole.
LEMMA ChunkStarts ==
  ASSUME TypeOK, Ends, SentBounded, InStep, prog.strict, NEW k \in Units, Write(k), ~pieces'
  PROVE  InStep'
<1> USE DEF setting, clientVars, serverVars
<1>1. prog.reply /\ ~prog.whole
  BY Fields, Typed
<1>2. cpc = "write" /\ k \in 1..Len(rest) /\ First(rest, k) \in Seq(Units)
      /\ Len(First(rest, k)) = k /\ ~(k < Len(rest))
  BY Moves DEF Write
<1>3. /\ up = <<>> /\ down = <<>> /\ spc \in {"accept", "read"} /\ reads = round
      /\ Len(rest) = Chunk /\ ~upReset /\ ~downReset /\ ~panicked /\ (spc = "accept" => reads = 0)
  BY <1>2 DEF InStep
<1>4. serving /\ client = "open"
  BY <1>2, <1>3 DEF Ends
<1>5. /\ cpc' = "read" /\ up' = up \o First(rest, k)
      /\ UNCHANGED <<prog, down, spc, reads, round, client, upReset, downReset, panicked>>
  BY <1>1, <1>4 DEF Write
<1>6. Len(up') = Chunk
  <2>1. k = Chunk
    BY <1>2, <1>3, Sizes
  <2>2. up' = First(rest, k)
    BY <1>2, <1>3, <1>5, ConcatEmptySeq
  <2> QED BY <1>2, <2>1, <2>2
<1> QED BY <1>3, <1>4, <1>5, <1>6 DEF InStep

\* The server takes it whole, ...
LEMMA ChunkArrives ==
  ASSUME TypeOK, Ends, SentBounded, InStep, prog.strict, NEW k \in Units, Receive(k), ~pieces'
  PROVE  InStep'
<1> USE DEF setting, clientVars, serverVars
<1>1. prog.echo
  BY Fields, Typed
<1>2. /\ spc = "read" /\ k <= Len(up) /\ k >= Chunk /\ k \in Nat /\ k >= 1 /\ Chunk \in Nat
      /\ First(up, k) \in Seq(Units) /\ Len(First(up, k)) = k
      /\ After(up, k) \in Seq(Units) /\ Len(After(up, k)) = Len(up) - k /\ Len(up) \in Nat
  <2>1. ~(k < Chunk)
    BY DEF Receive
  <2>2. /\ k \in Nat /\ k >= 1 /\ Chunk \in Nat /\ Len(up) \in Nat
        /\ First(up, k) \in Seq(Units) /\ Len(First(up, k)) = k
        /\ After(up, k) \in Seq(Units) /\ Len(After(up, k)) = Len(up) - k
    BY Moves, Typed, Sizes
  <2>3. k >= Chunk
    BY <2>1, <2>2
  <2> QED BY <2>2, <2>3 DEF Receive
<1>3. up # <<>>
  BY <1>2, EmptySeq
<1>4. cpc = "read" /\ Len(up) = Chunk /\ down = <<>> /\ reads = round
  <2>1. cpc \in {"connect", "write", "read", "close", "join", "end"}
    BY DEF TypeOK
  <2>2. client # "none"
    BY <1>2 DEF Ends
  <2> QED BY <1>2, <1>3, <2>1, <2>2 DEF InStep
<1>5. client = "open" /\ ~upReset /\ ~downReset /\ ~panicked
  BY <1>4 DEF Ends, InStep
<1>6. /\ spc' = "write" /\ held' = First(up, k) /\ up' = After(up, k)
      /\ UNCHANGED <<prog, cpc, round, rest, client, down, reads, upReset, downReset, panicked>>
  BY <1>1 DEF Receive
<1>7. up' = <<>> /\ Len(held') = Chunk
  <2>1. k = Chunk
    BY <1>2, <1>4
  <2>2. Len(After(up, k)) = 0
    BY <1>2, <1>4, <2>1
  <2> QED BY <1>2, <1>6, <2>1, <2>2, EmptySeq
<1>8. Len(down') + Len(held') = Chunk
  <2>1. Len(<<>>) = 0 /\ 0 + Chunk = Chunk
    BY <1>2
  <2> QED BY <1>4, <1>6, <1>7, <2>1
<1> QED BY <1>4, <1>5, <1>6, <1>7, <1>8 DEF InStep

\* ... and echoes it in one or more writes.
LEMMA ChunkReturns ==
  ASSUME TypeOK, Ends, SentBounded, InStep, prog.strict, NEW k \in Units, Echo(k)
  PROVE  InStep'
<1> USE DEF setting, clientVars, serverVars
<1>1. prog.reads = prog.rounds
  BY Fields, Typed
<1>2. /\ spc = "write" /\ k \in Nat /\ First(held, k) \in Seq(Units) /\ Len(First(held, k)) = k
      /\ After(held, k) \in Seq(Units) /\ Len(After(held, k)) = Len(held) - k
  BY Moves DEF Echo
<1>3. cpc = "read" /\ up = <<>> /\ reads = round /\ Len(down) + Len(held) = Chunk
  <2>1. cpc \in {"connect", "write", "read", "close", "join", "end"}
    BY DEF TypeOK
  <2>2. client # "none"
    BY <1>2 DEF Ends
  <2> QED BY <1>2, <2>1, <2>2 DEF InStep
<1>4. client = "open" /\ ~upReset /\ ~downReset /\ ~panicked
  BY <1>3 DEF Ends, InStep
<1>5. /\ down' = down \o First(held, k) /\ held' = After(held, k)
      /\ UNCHANGED <<prog, cpc, round, rest, client, up, downReset>>
  BY <1>4 DEF Echo
<1>6. Len(down') = Len(down) + k /\ Len(down') + Len(held') = Chunk
  <2>1. Len(down \o First(held, k)) = Len(down) + k
    BY <1>2, Typed, ConcatProperties
  <2>2. Len(down) \in Nat /\ Len(held) \in Nat
    BY Typed
  <2>3. Len(down') = Len(down) + k /\ Len(held') = Len(held) - k
    BY <1>2, <1>5, <2>1
  <2>4. Len(down) + Len(held) = Chunk
    BY <1>3
  <2>5. k \in Nat
    BY <1>2
  <2>6. (Len(down) + k) + (Len(held) - k) = Chunk
    BY <2>2, <2>4, <2>5
  <2> QED BY <2>3, <2>6
<1>7. CASE k # Len(held)
  <2>1. spc' = "write" /\ UNCHANGED <<reads, upReset, panicked>>
    BY <1>7 DEF Echo
  <2> QED BY <1>3, <1>4, <1>5, <1>6, <2>1 DEF InStep
<1>8. CASE k = Len(held)
  <2>1. reads' = round + 1 /\ Len(down') = Chunk
    <3>1. reads' = reads + 1
      BY <1>8 DEF Echo
    <3> QED BY <1>3, <1>6, <1>8, <3>1
  <2>2. /\ spc' = IF round + 1 = prog.rounds THEN "end" ELSE "read"
        /\ ~upReset' /\ ~panicked'
    <3>1. CASE reads + 1 = prog.reads
      BY <1>1, <1>3, <1>4, <1>8, <3>1 DEF Echo, Counted, Hangup
    <3>2. CASE reads + 1 # prog.reads
      BY <1>1, <1>3, <1>4, <1>8, <3>2 DEF Echo, Counted
    <3> QED BY <3>1, <3>2
  <2> QED BY <1>3, <1>4, <1>5, <2>1, <2>2 DEF InStep
<1> QED BY <1>7, <1>8

LEMMA LockstepStep ==
  ASSUME TypeOK, Ends, SentBounded, Lockstep, [Next]_vars
  PROVE  Lockstep'
<1> USE DEF setting, clientVars, serverVars
<1>1. pieces \in BOOLEAN /\ refused \in BOOLEAN /\ UNCHANGED prog
  BY SectionsStep DEF TypeOK
<1>2. pieces' \in {pieces, TRUE} /\ refused' \in {refused, TRUE}
  <2>1. CASE UNCHANGED vars
    BY <2>1 DEF vars
  <2>2. CASE Connect \/ ConnectFails \/ ReadEnd \/ Reset \/ Close \/ Join
    BY <2>2 DEF Connect, ConnectFails, Fail, ReadEnd, LeaveLoop, Reset, Close, Join
  <2>3. ASSUME NEW k \in Units, Write(k) \/ Read(k) \/ Receive(k)
        PROVE  pieces' \in {pieces, TRUE} /\ UNCHANGED refused
    BY <1>1, <2>3 DEF Write, Read, Receive
  <2>4. CASE Accept \/ AcceptFails \/ EchoFails \/ StreamEnds \/ ReceiveFails \/ Store \/ Stop
    BY <2>4 DEF Accept, AcceptFails, EchoFails, StreamEnds, ReceiveFails, Store, Stop, HangupOnly
  <2>5. ASSUME NEW k \in Units, Echo(k)
        PROVE  UNCHANGED <<pieces, refused>>
    BY <2>5 DEF Echo
  <2> QED BY <2>1, <2>2, <2>3, <2>4, <2>5 DEF Next, ClientStep, ServerStep
<1> SUFFICES ASSUME prog.strict, ~pieces, ~refused, ~pieces', ~refused', InStep
             PROVE  InStep'
  <2>1. (~pieces' => ~pieces) /\ (~refused' => ~refused)
    <3>1. ASSUME NEW a \in BOOLEAN, NEW b \in {a, TRUE}, ~b
          PROVE  ~a
      <4>1. a = TRUE \/ a = FALSE
        OBVIOUS
      <4> QED BY <3>1, <4>1
    <3> QED BY <1>1, <1>2, <3>1, Zenon
  <2> QED BY <1>1, <2>1 DEF Lockstep
<1>3. /\ prog.echo /\ prog.reply /\ ~prog.whole /\ ~prog.lenient /\ ~prog.polls /\ prog.closes
      /\ prog.reads = prog.rounds
  BY Fields, Typed
<1>4. ~upReset /\ ~downReset /\ ~panicked
  BY DEF InStep
<1>5. CASE UNCHANGED vars
  BY <1>5 DEF vars, InStep
<1>6. CASE Connect
  <2>1. spc = "accept" /\ reads = 0 /\ up = <<>> /\ down = <<>>
    BY <1>6 DEF Connect, InStep
  <2>2. 0 \in Nat /\ 0 < prog.rounds /\ 0 <= prog.rounds
    BY Typed, Sizes
  <2>3. cpc' = "write" /\ round' = 0 /\ Len(rest') = Chunk
    BY <1>6, <2>2, Advances DEF Connect
  <2>4. client' = "open" /\ UNCHANGED <<spc, reads, up, down, upReset, downReset, panicked>>
    BY <1>6 DEF Connect
  <2> QED BY <1>4, <2>1, <2>3, <2>4 DEF InStep
<1>7. CASE ConnectFails
  <2>1. /\ cpc' = "end" /\ client = "none" /\ spc = "accept" /\ reads = 0
        /\ UNCHANGED <<client, spc, reads, upReset, downReset, panicked>>
    BY <1>7 DEF ConnectFails, Fail, Ends, InStep
  <2> QED BY <1>4, <2>1 DEF InStep
<1>8. CASE ReadEnd \/ Reset
  <2>1. cpc = "read" /\ down = <<>> /\ ~serving
    BY <1>4, <1>8 DEF ReadEnd, Reset
  <2>2. Len(down) # Chunk
    BY <2>1, Sizes
  <2>3. spc \notin {"accept", "read", "write"}
    BY <2>1 DEF Ends
  <2> QED BY <2>1, <2>2, <2>3 DEF InStep
<1>9. CASE Close
  <2>1. up = <<>> /\ down = <<>> /\ spc = "end"
    BY <1>9 DEF Close, InStep
  <2>2. /\ cpc' = "join" /\ client' = "closed" /\ ~downReset'
        /\ UNCHANGED <<up, down, spc, reads, upReset, panicked>>
    BY <1>4, <1>9, <2>1 DEF Close
  <2> QED BY <1>4, <2>1, <2>2 DEF InStep
<1>10. CASE Join
  <2>1. client = "closed" /\ up = <<>> /\ down = <<>> /\ spc = "end"
    BY <1>10 DEF Join, InStep
  <2>2. cpc' = "end" /\ UNCHANGED <<client, up, down, spc, reads, upReset, downReset, panicked>>
    BY <1>10 DEF Join
  <2> QED BY <1>4, <2>1, <2>2 DEF InStep
<1>11. CASE Accept
  <2>1. /\ spc = "accept" /\ reads = 0 /\ client # "none" /\ spc' = "read"
        /\ UNCHANGED <<prog, cpc, round, rest, client, up, down, held, reads, upReset, downReset, panicked>>
    BY <1>11 DEF Accept, InStep
  <2>2. cpc \in {"write", "read"} /\ client # "closed"
    <3>1. cpc \in {"connect", "write", "read", "close", "join", "end"}
      BY DEF TypeOK
    <3> QED BY <2>1, <3>1 DEF Ends, InStep
  <2>3. CASE cpc = "write"
    BY <1>4, <2>1, <2>2, <2>3 DEF InStep
  <2>4. CASE cpc = "read"
    BY <1>4, <2>1, <2>2, <2>4 DEF InStep
  <2> QED BY <2>2, <2>3, <2>4
<1>12. CASE AcceptFails \/ Store \/ Stop
  BY <1>3, <1>12 DEF AcceptFails, Store, Stop
<1>13. CASE EchoFails
  <2>1. spc = "write" /\ client = "closed"
    BY <1>3, <1>13 DEF EchoFails
  <2> QED BY <2>1 DEF InStep
<1>14. CASE StreamEnds \/ ReceiveFails
  <2>1. spc = "read" /\ client = "closed"
    BY <1>14 DEF StreamEnds, ReceiveFails
  <2> QED BY <2>1 DEF InStep
<1> QED BY <1>5, <1>6, <1>7, <1>8, <1>9, <1>10, <1>11, <1>12, <1>13, <1>14, RoundEnds,
           ChunkStarts, ChunkArrives, ChunkReturns DEF Next, ClientStep, ServerStep

-----------------------------------------------------------------------------
(* The invariant holds.                                                     *)

LEMMA SessionsInit == Init => IInv
<1> SUFFICES ASSUME Init
             PROVE  IInv
  OBVIOUS
<1>1. /\ prog \in Programs /\ capacity \in Buffers
      /\ up = <<>> /\ down = <<>> /\ rest = <<>> /\ got = <<>> /\ held = <<>>
      /\ taken = <<>> /\ sent = <<>>
      /\ cpc = "connect" /\ round = 0 /\ client = "none" /\ result = "running"
      /\ spc = "accept" /\ reads = 0 /\ serving = TRUE /\ stored = FALSE /\ panicked = FALSE
      /\ upReset = FALSE /\ downReset = FALSE /\ pieces = FALSE /\ refused = FALSE
  BY DEF Init
<1>2. <<>> \in Seq(Units) /\ Len(<<>>) = 0
  BY EmptySeq
<1>3. capacity \in Nat \ {0} /\ Data \in Nat /\ prog.rounds \in Nat /\ prog.reads \in Nat
  BY <1>1, Fields, Sizes, SessionAssumption
<1>4. TypeOK
  <2>1. {up, down, rest, got, held, taken, sent} \subseteq Seq(Units)
    BY <1>1, <1>2
  <2>2. Len(up) <= capacity /\ Len(down) <= capacity /\ round \in 0..prog.rounds
        /\ reads \in 0..Data
    BY <1>1, <1>2, <1>3
  <2>3. {serving, stored, panicked, upReset, downReset, pieces, refused} \subseteq BOOLEAN
    BY <1>1
  <2> QED BY <1>1, <2>1, <2>2, <2>3 DEF TypeOK
<1>5. Ends
  BY <1>1 DEF Ends
<1>6. SentBounded
  BY <1>1, <1>2, <1>3 DEF SentBounded
<1>7. ReadsCounted
  <2>1. Len(taken) + Len(up) <= Len(sent)
    BY <1>1, <1>2
  <2>2. prog.reads > 0 => reads <= prog.reads /\ reads < prog.reads
    BY <1>1, <1>3
  <2>3. reads + (IF spc = "write" THEN 1 ELSE 0) <= Len(taken)
    BY <1>1, <1>2
  <2> QED BY <2>1, <2>2, <2>3 DEF ReadsCounted
<1>8. Flow
  <2>1. <<>> \o <<>> = <<>>
    BY <1>2, ConcatEmptySeq
  <2>2. sent = got \o down \o <<>> /\ sent = got \o down \o held \o up /\ sent = taken \o up
    BY <1>1, <2>1
  <2> QED BY <1>1, <1>2, <2>2 DEF Flow
<1>9. ChunksSent
  <2>1. 0 * Chunk = 0
    BY Sizes
  <2>2. Numbers(1, 0) = <<>>
    <3>1. 0 <= 0 /\ 0 <= Data /\ 0 + 1 = 1 /\ 0 - 0 = 0
      BY Sizes
    <3>2. Numbers(1, 0) \in Seq(Units) /\ Len(Numbers(1, 0)) = 0
      BY <3>1, Rows
    <3> QED BY <3>2, EmptySeq
  <2>3. round * Chunk = 0
    BY <1>1, <2>1
  <2>4. Len(sent) <= 0 /\ sent = Numbers(1, 0) /\ cpc # "write"
    BY <1>1, <1>2, <2>2
  <2> QED BY <2>3, <2>4 DEF ChunksSent
<1>10. StoredWasSent
  BY <1>1 DEF StoredWasSent
<1>11. InStep
  BY <1>1 DEF InStep
<1> QED BY <1>4, <1>5, <1>6, <1>7, <1>8, <1>9, <1>10, <1>11 DEF IInv, Chunks, Lockstep

LEMMA SessionsStep == IInv /\ [Next]_vars => IInv'
<1> SUFFICES ASSUME IInv, [Next]_vars
             PROVE  IInv'
  OBVIOUS
<1>1. TypeOK /\ Ends /\ SentBounded /\ ReadsCounted /\ Flow /\ Chunks /\ Lockstep
  BY DEF IInv
<1>2. TypeOK' /\ Ends' /\ SentBounded' /\ ReadsCounted' /\ Flow' /\ Lockstep'
  BY <1>1, TypeStep, EndsStep, SentBoundedStep, ReadsCountedStep, FlowStep, LockstepStep
<1>3. Chunks'
  <2>1. UNCHANGED prog
    BY <1>1, SectionsStep DEF setting
  <2>2. CASE prog.file > 0
    <3>1. ChunksSent /\ StoredWasSent
      BY <1>1, <2>2 DEF Chunks
    <3>2. ChunksSent' /\ StoredWasSent'
      BY <1>1, <2>2, <3>1, ChunksSentStep, StoredStep
    <3> QED BY <3>2 DEF Chunks
  <2>3. CASE ~(prog.file > 0)
    BY <2>1, <2>3 DEF Chunks
  <2> QED BY <2>2, <2>3
<1> QED BY <1>2, <1>3 DEF IInv

LEMMA SessionInvariant == Spec => []IInv
BY SessionsInit, SessionsStep, PTL DEF Spec

\* Every variable has its type in every example, and an example that is over has a verdict.
THEOREM SessionsTypeCorrect == Spec => []TypeOK
BY SessionInvariant, PTL DEF IInv

\* The first part of a sequence is a prefix of it.
LEMMA FirstPartIsPrefix ==
  ASSUME NEW s \in Seq(Units), NEW t \in Seq(Units)
  PROVE  IsPrefix(s, s \o t)
<1>1. Len(s) <= Len(s \o t) /\ Len(s) \in Nat
  BY ConcatProperties
<1>2. SubSeq(s, 1, Len(s)) = SubSeq(s \o t, 1, Len(s))
  <2>1. CASE Len(s) = 0
    <3>1. 0 < 1
      OBVIOUS
    <3>2. SubSeq(s, 1, 0) = <<>> /\ SubSeq(s \o t, 1, 0) = <<>>
      BY <3>1, SubSeqEmpty
    <3> QED BY <2>1, <3>2
  <2>2. CASE Len(s) # 0
    <3>1. 1 \in 1..Len(s) /\ Len(s) \in 1..Len(s)
      BY <1>1, <2>2
    <3> QED BY <3>1, SubSeqOfConcat1
  <2> QED BY <2>1, <2>2
<1> QED BY <1>1, <1>2 DEF IsPrefix

LEMMA FlowLosesNothing == TypeOK /\ Flow => NothingLost
<1> SUFFICES ASSUME TypeOK, Flow
             PROVE  NothingLost
  OBVIOUS
<1>1. prog.echo \in BOOLEAN
  BY Fields, Typed
<1>2. ASSUME client = "open", serving
      PROVE  sent = (IF prog.echo THEN got \o down \o held ELSE taken) \o up
  BY <1>1, <1>2 DEF Flow
<1>3. IsPrefix(got, sent)
  <2>1. PICK z \in Seq(Units) : sent = got \o down \o z
    BY DEF Flow
  <2>2. got \in Seq(Units) /\ down \in Seq(Units)
    BY Typed
  <2>3. down \o z \in Seq(Units) /\ (got \o down) \o z = got \o (down \o z)
    BY <2>1, <2>2, Regroup
  <2>4. IsPrefix(got, got \o (down \o z))
    BY <2>2, <2>3, FirstPartIsPrefix
  <2> QED BY <2>1, <2>3, <2>4
<1> QED BY <1>2, <1>3 DEF NothingLost

\* In every example and however reads and writes cut the chunks, what was sent is what the
\* client has read and what is still on its way, in order.
THEOREM NothingIsLost == Spec => []NothingLost
<1>1. IInv => NothingLost
  BY FlowLosesNothing DEF IInv
<1> QED BY <1>1, SessionInvariant, PTL

\* A match is the whole file in one buffer, every chunk of it sent whole, and stored.
LEMMA MatchExact ==
  ASSUME TypeOK, SentBounded, ChunksSent, StoredWasSent, prog.file > 0, client = "closed"
  PROVE  FilesMatch <=> stored /\ prog.file = Data /\ Len(sent) = Data
<1>1. prog.file \in Nat /\ prog.file >= Data /\ Data \in Nat
  BY Fields, Typed, Sizes
<1>2. ASSUME FilesMatch
      PROVE  stored /\ prog.file = Data /\ Len(sent) = Data
  <2>1. PICK n \in Nat : n = prog.file
    BY <1>1
  <2>2. stored /\ sent = Numbers(1, n)
    BY <1>2, <2>1 DEF FilesMatch, StoredWasSent
  <2>3. Len(Numbers(1, n)) = n
    <3>1. n - 1 + 1 = n /\ \A i \in 1..n : 1 + i - 1 \in Nat
      BY <2>1
    <3>2. Numbers(1, n) \in [1..n -> Nat]
      BY <3>1 DEF Numbers
    <3>3. Numbers(1, n) \in Seq(Nat) /\ Len(Numbers(1, n)) = n
      BY <3>2, SeqDef
    <3> QED BY <3>3
  <2>4. Len(sent) = n /\ Len(sent) <= Data
    BY <2>2, <2>3 DEF SentBounded
  <2>5. n = Data
    BY <1>1, <2>1, <2>4
  <2> QED BY <2>1, <2>2, <2>4, <2>5
<1>3. ASSUME stored, prog.file = Data, Len(sent) = Data
      PROVE  FilesMatch
  <2>1. round = Rounds /\ taken = sent
    BY <1>3 DEF StoredWasSent
  <2>2. round * Chunk = Data
    BY <2>1 DEF Data
  <2>3. sent = Numbers(1, Data)
    BY <1>3, <2>2 DEF ChunksSent
  <2> QED BY <1>3, <2>1, <2>3 DEF FilesMatch
<1> QED BY <1>2, <1>3

\* end_to_end reports a match exactly when there is one, for any length of the file, and it
\* can never report one for a file longer than the buffer it was read into.
THEOREM VerdictsAreExact == Spec => []VerdictExact
<1>1. IInv => VerdictExact
  <2> SUFFICES ASSUME IInv, prog.file > 0, cpc = "end", client = "closed"
               PROVE  result = "ok" <=> stored /\ prog.file = Data /\ Len(sent) = Data
    BY DEF VerdictExact
  <2>1. TypeOK /\ SentBounded /\ ChunksSent /\ StoredWasSent
    BY DEF IInv, Chunks
  <2>2. result = "ok" <=> FilesMatch
    BY <2>1 DEF StoredWasSent
  <2>3. FilesMatch <=> stored /\ prog.file = Data /\ Len(sent) = Data
    BY <2>1, MatchExact
  <2> QED BY <2>2, <2>3
<1> QED BY <1>1, SessionInvariant, PTL

\* The unwraps of perf_benchmark's server fail only after a read or write that moved less
\* than a chunk, or a failed accept, however many rounds are run.
THEOREM OnlyPiecesPanic == Spec => []PanicNeedsPieces
<1>1. IInv => PanicNeedsPieces
  <2> SUFFICES ASSUME IInv, panicked, ~pieces, ~refused
               PROVE  FALSE
    <3>1. {pieces, refused} \subseteq BOOLEAN \/ ~IInv
      BY DEF IInv, TypeOK
    <3> QED BY <3>1 DEF PanicNeedsPieces
  <2>1. prog.strict
    BY DEF IInv, Ends
  <2>2. InStep
    BY <2>1 DEF IInv, Lockstep
  <2> QED BY <2>2 DEF InStep
<1> QED BY <1>1, SessionInvariant, PTL

=============================================================================
