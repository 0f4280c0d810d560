----------------------------- MODULE MCSessions -----------------------------
(* The examples that the runs of Sessions choose from. *)
EXTENDS Sessions

All ==
  {EndToEnd(Data), EndToEnd(Data + 1), NetworkIo, PerfBenchmark, Throughput, LatencyProfile,
   Traditional}

\* The first two are too small for the replies that a client can leave behind.
Sizes == {1, 2, 3, 12}

Unclosed == {Traditional}
Ample    == {12}
=============================================================================
