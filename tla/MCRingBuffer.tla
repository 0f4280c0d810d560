---------------------------- MODULE MCRingBuffer ----------------------------
(* Producers and messages for the runs of RingBuffer.  *)
EXTENDS RingBuffer, TLC

CONSTANTS p1, p2

TwoProducers == {p1, p2}
OneProducer  == {p1}
NoMessages   == {}
LastMessage  == {MaxWrites}
Interchangeable == Permutations(Producers)
=============================================================================
