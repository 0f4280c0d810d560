---------------------------- MODULE FifoContract ----------------------------
(***************************************************************************)
(* What elgate-core/src/ring/buffer.rs documents of a ring buffer, without  *)
(* the ring: write puts a message at the end of a queue, read takes the one *)
(* at its head, and read answers None only when there is none to take.      *)
(***************************************************************************)
EXTENDS Naturals, Sequences

CONSTANT Messages

VARIABLES
  queue,   \* messages written and not read
  out,     \* messages read, in order
  reply    \* the answer of the latest read, or that it is running

vars == <<queue, out, reply>>

Init == queue = <<>> /\ out = <<>> /\ reply = "none"

Put(m) == queue' = Append(queue, m) /\ UNCHANGED <<out, reply>>

Ask == reply # "running" /\ reply' = "running" /\ UNCHANGED <<queue, out>>

Take ==
  /\ reply = "running" /\ queue # <<>>
  /\ out' = Append(out, Head(queue))
  /\ queue' = Tail(queue)
  /\ reply' = "data"

Nothing ==
  /\ reply = "running" /\ queue = <<>>
  /\ reply' = "empty"
  /\ UNCHANGED <<queue, out>>

Next == (\E m \in Messages : Put(m)) \/ Ask \/ Take \/ Nothing

Spec == Init /\ [][Next]_vars
=============================================================================
