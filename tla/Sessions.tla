------------------------------ MODULE Sessions ------------------------------
(***************************************************************************)
(* The client and server pairs of elgate-core/examples over one TCP         *)
(* connection: end_to_end, network_io, perf_benchmark,                      *)
(* cross_platform_benchmark (with the engine and with std sockets) and      *)
(* latency_profile.  They are one protocol with different parameters: the   *)
(* client sends chunks, may read once after each, closes or not, and waits  *)
(* for the server; the server reads a number of times or to the end of the  *)
(* stream, echoes what it read or keeps it.                                 *)
(*                                                                          *)
(* Data is a row of numbered units.  A direction of the connection is a     *)
(* queue of units of bounded length; a read returns any nonempty part of    *)
(* what has arrived, a write takes any nonempty part of what fits.          *)
(***************************************************************************)
EXTENDS Integers, Sequences, SequencesExt

CONSTANTS
  Chunk,      \* units of a chunk
  Rounds,     \* chunks sent
  Programs,   \* the examples that are run
  Buffers     \* what a direction of the connection can hold, in units

ASSUME SessionAssumption ==
  Chunk \in Nat \ {0} /\ Rounds \in Nat \ {0} /\ Buffers \subseteq Nat \ {0}

Data == Rounds * Chunk

\* file: units of the file sent (0: no file); whole: write_all, else one write whose
\* count is not acted upon; reply: one read after each chunk; lenient: an error
\* or the end of the stream ends the client's loop only; closes: the client
\* closes before it waits for the server; take: units a client's read asks for;
\* echo, reads (0: to the end of the stream), room (units a server's read asks
\* for), strict (unwrap) and polls (nonblocking, until told to stop): the server.
EngineSession ==
  [file |-> 0, whole |-> FALSE, reply |-> TRUE, lenient |-> FALSE, closes |-> TRUE,
   take |-> Data, rounds |-> Rounds,
   echo |-> TRUE, reads |-> 0, room |-> Chunk, strict |-> FALSE, polls |-> FALSE]

\* read_file has returned what its buffer holds: Data units, of a file at least as long.
EndToEnd(size) ==
  [EngineSession EXCEPT !.file = size, !.reply = FALSE, !.echo = FALSE, !.room = Data]

NetworkIo == [EngineSession EXCEPT !.rounds = 1, !.reads = 1, !.room = Data]

PerfBenchmark == [EngineSession EXCEPT !.reads = Rounds, !.strict = TRUE]

Throughput == [EngineSession EXCEPT !.take = Chunk]

Traditional ==
  [EngineSession EXCEPT !.whole = TRUE, !.lenient = TRUE, !.closes = FALSE, !.take = Chunk]

LatencyProfile == [EngineSession EXCEPT !.room = Data, !.polls = TRUE]

\* The programs are the examples.  The Data units end_to_end sends are what read_file
\* returned, of a file of that length or of a longer one.
ASSUME ProgramAssumption ==
  \A x \in Programs :
    \/ x \in {NetworkIo, PerfBenchmark, Throughput, Traditional, LatencyProfile}
    \/ x.file \in Nat /\ x.file >= Data /\ x = EndToEnd(x.file)

VARIABLES
  prog, capacity,      \* the example, the length a direction may have
  up, down,            \* units on their way to the server and to the client
  cpc, round, rest,    \* client: section, chunks done, units left of this one
  client,              \* the client's end: "none", "open" or "closed"
  got,                 \* what the client has read
  result,              \* "running", "ok" or "failed"
  spc, reads, held,    \* server: section, reads done, units to echo
  serving,             \* the server's end is open
  taken, stored,       \* what the server has read; it is in the output file
  panicked,            \* an unwrap of the server's thread has failed
  upReset, downReset,  \* a direction ended in a reset: the client's, the server's calls fail
  sent,                \* history: units the connection has taken from the client
  pieces,              \* history: a read or write moved less than its chunk
  refused              \* history: the accept failed

clientVars  == <<cpc, round, rest, client, got, result>>
serverVars  == <<spc, reads, held, serving, taken, stored, panicked, refused>>
setting     == <<prog, capacity>>
vars == <<setting, up, down, clientVars, serverVars, upReset, downReset, sent, pieces>>

Init ==
  /\ prog \in Programs /\ capacity \in Buffers
  /\ up = <<>> /\ down = <<>>
  /\ cpc = "connect" /\ round = 0 /\ rest = <<>> /\ client = "none" /\ got = <<>>
  /\ result = "running"
  /\ spc = "accept" /\ reads = 0 /\ held = <<>> /\ serving = TRUE
  /\ taken = <<>> /\ stored = FALSE /\ panicked = FALSE
  /\ upReset = FALSE /\ downReset = FALSE
  /\ sent = <<>> /\ pieces = FALSE /\ refused = FALSE

Numbers(from, to) == [i \in 1..(to - from + 1) |-> from + i - 1]
First(s, n)       == SubSeq(s, 1, n)
After(s, n)       == SubSeq(s, n + 1, Len(s))

-----------------------------------------------------------------------------
(* The client.                                                              *)

\* The loop goes on with chunk n + 1, or is over.
Advance(n) ==
  /\ round' = n
  /\ cpc' = IF n < prog.rounds THEN "write" ELSE IF prog.closes THEN "close" ELSE "join"
  /\ rest' = IF n < prog.rounds THEN Numbers(n * Chunk + 1, (n + 1) * Chunk) ELSE <<>>

Connect ==
  /\ cpc = "connect" /\ serving
  /\ client' = "open" /\ Advance(0)
  /\ UNCHANGED <<setting, up, down, got, result, serverVars, upReset, downReset, sent,
                 pieces>>

\* An error that ends the example without a verdict.
FailQuietly ==
  /\ cpc' = "end"
  /\ UNCHANGED <<setting, up, down, round, rest, client, got, result, serverVars, upReset,
                 downReset, sent, pieces>>

\* `?` or unwrap: the example is over, the stream is not closed first.
Fail ==
  /\ cpc' = "end" /\ result' = "failed"
  /\ UNCHANGED <<setting, up, down, round, rest, client, got, serverVars, upReset,
                 downReset, sent, pieces>>

\* The server may not be listening yet, or not any more.
ConnectFails == cpc = "connect" /\ Fail

\* A client that goes on to the next chunk without reading the reply.
WriteAhead(k) ==
  /\ cpc = "write" /\ k <= Len(rest) /\ serving /\ Len(up) + k <= capacity
  /\ up' = up \o First(rest, k) /\ sent' = sent \o First(rest, k)
  /\ pieces' = (pieces \/ k < Len(rest))
  /\ Advance(round + 1)
  /\ UNCHANGED <<setting, down, client, got, result, serverVars, upReset, downReset>>

\* One write of k units; write_all writes again, the engine's callers do not.
Write(k) ==
  /\ cpc = "write" /\ k <= Len(rest)
  /\ IF serving
     THEN /\ Len(up) + k <= capacity
          /\ up' = up \o First(rest, k) /\ sent' = sent \o First(rest, k)
          /\ UNCHANGED upReset
     ELSE upReset' = TRUE /\ UNCHANGED <<up, sent>>
  /\ pieces' = (pieces \/ k < Len(rest))
  /\ IF prog.whole /\ k < Len(rest)
     THEN rest' = After(rest, k) /\ UNCHANGED <<cpc, round>>
     ELSE IF prog.reply
     THEN cpc' = "read" /\ rest' = <<>> /\ UNCHANGED round
     ELSE Advance(round + 1)
  /\ UNCHANGED <<setting, down, client, got, result, serverVars, downReset>>

Read(k) ==
  /\ cpc = "read" /\ k <= Len(down) /\ k <= prog.take
  /\ got' = got \o First(down, k) /\ down' = After(down, k)
  /\ pieces' = (pieces \/ k < Chunk)
  /\ Advance(round + 1)
  /\ UNCHANGED <<setting, up, client, result, serverVars, upReset, downReset, sent>>

\* The client's loop ends early and the example goes on behind it.
LeaveLoop ==
  /\ cpc' = IF prog.closes THEN "close" ELSE "join"
  /\ UNCHANGED <<setting, up, down, round, rest, client, got, result, serverVars,
                 upReset, downReset, sent, pieces>>

\* A read at the end of the stream: `Ok(_) => break`, or a reply of no bytes.
ReadEnd ==
  /\ cpc = "read" /\ down = <<>> /\ ~serving
  /\ \/ prog.lenient /\ LeaveLoop
     \/ /\ ~prog.lenient /\ Advance(round + 1)
        /\ UNCHANGED <<setting, up, down, client, got, result, serverVars, upReset,
                       downReset, sent, pieces>>

\* A write or read on a connection the server has reset.
Reset ==
  /\ cpc \in {"write", "read"} /\ upReset
  /\ IF prog.lenient THEN LeaveLoop ELSE Fail

\* A client that waits for the server with its stream still open.
CloseForgotten ==
  /\ cpc = "close" /\ cpc' = "join"
  /\ UNCHANGED <<setting, up, down, round, rest, client, got, result, serverVars, upReset,
                 downReset, sent, pieces>>

Close ==
  /\ cpc = "close"
  /\ cpc' = "join" /\ client' = "closed"
  /\ downReset' = (downReset \/ down # <<>>)
  /\ UNCHANGED <<setting, up, down, round, rest, got, result, serverVars, upReset, sent,
                 pieces>>

\* A comparison that stops at the end of the copy.
ComparesPrefix == stored /\ IsPrefix(taken, Numbers(1, prog.file))

\* verify_files: the output file has the contents of the original.
FilesMatch == stored /\ taken = Numbers(1, prog.file)

\* server_thread.join() or server_handle.await, then what the example makes of it.
Join ==
  /\ cpc = "join" /\ spc = "end"
  /\ cpc' = "end"
  /\ result' = IF panicked \/ (prog.file > 0 /\ ~FilesMatch) THEN "failed" ELSE "ok"
  /\ UNCHANGED <<setting, up, down, round, rest, client, got, serverVars, upReset,
                 downReset, sent, pieces>>

-----------------------------------------------------------------------------
(* The server.                                                              *)

Accept ==
  /\ spc = "accept" /\ client # "none"
  /\ spc' = "read"
  /\ UNCHANGED <<setting, up, down, clientVars, reads, held, serving, taken, stored, panicked,
                 refused, upReset, downReset, sent, pieces>>

\* The server's stream is dropped; units it has not read mean a reset.  A
\* polling server goes back to its accept, which finds nobody else.
Hangup(to, panic) ==
  /\ spc' = to /\ serving' = FALSE
  /\ panicked' = (panicked \/ panic)
  /\ upReset' = (upReset \/ up # <<>>)

HangupOnly(to, panic) ==
  /\ Hangup(to, panic)
  /\ UNCHANGED <<setting, up, down, clientVars, reads, held, taken, stored, refused, downReset,
                 sent, pieces>>

AfterStream == IF prog.polls THEN "again" ELSE "end"

AcceptFails ==
  /\ spc = "accept" /\ refused' = TRUE
  /\ Hangup("end", prog.strict)
  /\ UNCHANGED <<setting, up, down, clientVars, reads, held, taken, stored, downReset, sent,
                 pieces>>

\* One more read is done: the server goes on, or has done all it counts.
Counted(then) == IF reads + 1 = prog.reads THEN "end" ELSE then

Receive(k) ==
  /\ spc = "read" /\ k <= Len(up) /\ k <= prog.room
  /\ up' = After(up, k) /\ taken' = taken \o First(up, k)
  /\ pieces' = (pieces \/ k < Chunk)
  /\ IF prog.echo
     THEN spc' = "write" /\ held' = First(up, k) /\ UNCHANGED reads
     ELSE reads' = reads + 1 /\ UNCHANGED <<spc, held>>
  /\ UNCHANGED <<setting, down, clientVars, serving, stored, panicked, refused, upReset,
                 downReset, sent>>

\* write in place of write_all: what did not fit is forgotten.
EchoOnce(k) ==
  /\ spc = "write" /\ k <= Len(held) /\ client = "open" /\ Len(down) + k <= capacity
  /\ down' = down \o First(held, k) /\ held' = <<>>
  /\ spc' = "read" /\ reads' = reads + 1
  /\ UNCHANGED <<setting, up, clientVars, serving, taken, stored, panicked, refused, upReset,
                 downReset, sent, pieces>>

\* write_all of what was read: k units of it find room.
Echo(k) ==
  /\ spc = "write" /\ k <= Len(held)
  /\ IF client = "open"
     THEN /\ Len(down) + k <= capacity
          /\ down' = down \o First(held, k) /\ UNCHANGED downReset
     ELSE downReset' = TRUE /\ UNCHANGED down
  /\ held' = After(held, k)
  /\ LET over == k = Len(held) /\ Counted("read") = "end"
     IN /\ reads' = IF k = Len(held) THEN reads + 1 ELSE reads
        /\ IF over THEN Hangup("end", FALSE)
           ELSE /\ spc' = IF k = Len(held) THEN "read" ELSE "write"
                /\ UNCHANGED <<serving, panicked, upReset>>
  /\ UNCHANGED <<setting, up, clientVars, taken, stored, refused, sent, pieces>>

\* write_all fails: the peer has reset the connection, or the socket is
\* nonblocking and full.
EchoFails ==
  /\ spc = "write"
  /\ \/ client = "closed" /\ downReset
     \/ prog.polls /\ client = "open" /\ Len(down) = capacity
  /\ HangupOnly(AfterStream, prog.strict)

\* Ok(0): a server that counts its reads counts this one and echoes nothing.
StreamEnds ==
  /\ spc = "read" /\ up = <<>> /\ client = "closed" /\ prog.echo
  /\ \/ prog.reads = 0 /\ HangupOnly(AfterStream, FALSE)
     \/ /\ prog.reads > 0 /\ reads' = reads + 1
        /\ IF Counted("read") = "end" THEN Hangup("end", FALSE)
           ELSE UNCHANGED <<spc, serving, panicked, upReset>>
        /\ UNCHANGED <<setting, up, down, clientVars, held, taken, stored, refused, downReset,
                       sent, pieces>>

ReceiveFails ==
  /\ spc = "read" /\ up = <<>> /\ client = "closed" /\ downReset /\ prog.echo
  /\ HangupOnly(AfterStream, prog.strict)

\* end_to_end: an empty read or an error ends the loop; write_file may fail.
Store ==
  /\ spc = "read" /\ up = <<>> /\ client = "closed" /\ ~prog.echo
  /\ stored' \in BOOLEAN
  /\ Hangup("end", FALSE)
  /\ UNCHANGED <<setting, up, down, clientVars, reads, held, taken, refused, downReset, sent,
                 pieces>>

\* server_running is false: the loops of the polling server end.
Stop ==
  /\ prog.polls /\ cpc = "join" /\ spc \in {"accept", "read", "again"}
  /\ HangupOnly("end", FALSE)

-----------------------------------------------------------------------------
Units == 1..Data

ClientStep ==
  \/ Connect \/ ConnectFails \/ ReadEnd \/ Reset \/ Close \/ Join
  \/ \E k \in Units : Write(k) \/ Read(k)

ServerStep ==
  \/ Accept \/ AcceptFails \/ EchoFails \/ StreamEnds \/ ReceiveFails \/ Store \/ Stop
  \/ \E k \in Units : Receive(k) \/ Echo(k)

Next == ClientStep \/ ServerStep
Spec == Init /\ [][Next]_vars

\* Both sides are threads, or tasks of a runtime with a thread for each.
FairSpec == Spec /\ WF_vars(ClientStep) /\ WF_vars(ServerStep)

-----------------------------------------------------------------------------
(* Properties.                                                              *)

\* Every variable has its type, and the client ends with a verdict.
TypeOK ==
  /\ prog \in Programs /\ capacity \in Buffers
  /\ {up, down, rest, got, held, taken, sent} \subseteq Seq(Units)
  /\ Len(up) <= capacity /\ Len(down) <= capacity
  /\ cpc \in {"connect", "write", "read", "close", "join", "end"}
  /\ round \in 0..prog.rounds /\ client \in {"none", "open", "closed"}
  /\ spc \in {"accept", "read", "write", "again", "end"} /\ reads \in 0..Data
  /\ {serving, stored, panicked, upReset, downReset, pieces, refused} \subseteq BOOLEAN
  /\ result \in {"running", "ok", "failed"} /\ (result = "running" <=> cpc # "end")

\* Between two open ends nothing is lost, doubled or out of order: what the client
\* has read and what is on its way through the server make up what was sent,
\* however reads and writes cut the chunks.
NothingLost ==
  /\ client = "open" /\ serving =>
       sent = (IF prog.echo THEN got \o down \o held ELSE taken) \o up
  /\ IsPrefix(got, sent)

\* The verdict of end_to_end: the files match exactly when the file fits the
\* buffer of its only read_file, every write took its whole chunk, and the server
\* stored what it had; a longer file can only be reported as a mismatch.
VerdictExact ==
  prog.file > 0 /\ cpc = "end" /\ client = "closed" =>
    (result = "ok" <=> stored /\ prog.file = Data /\ Len(sent) = Data)

\* The echo server of perf_benchmark counts its reads and unwraps its results: its
\* thread panics only when some read or write moved less than a chunk.
PanicNeedsPieces == panicked => pieces \/ refused

\* The largest backlog of replies an example can have fits the connection.
BacklogFits == capacity \in {n \in Buffers : Rounds * (Chunk - 1) <= 2 * n}

\* An example that closes its stream ends, as long as the replies its single read
\* per chunk leaves behind fit the connection: nobody waits in write for a peer
\* that waits in write, and the server sees the end of the stream.
SessionEnds == (prog.closes /\ BacklogFits) => <>(cpc = "end")

\* cross_platform_benchmark, "Wait for server to complete": the server
\* completes, in every example.
ServerCompletes == BacklogFits => <>(cpc = "end")

=============================================================================
