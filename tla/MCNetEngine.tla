---------------------------- MODULE MCNetEngine ----------------------------
(* Tasks and addresses for the runs of NetEngine.  *)
EXTENDS NetEngine, TLC

CONSTANTS t1, t2, a1, a2

TwoTasks == {t1, t2}
TwoAddrs == {a1, a2}
Interchangeable == Permutations(Tasks) \cup Permutations(Addrs)
=============================================================================
