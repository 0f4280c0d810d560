---------------------------- MODULE MCDiskEngine ----------------------------
(* Tasks and paths for the runs of DiskEngine.  *)
EXTENDS DiskEngine, TLC

CONSTANTS t1, t2, p1

TwoTasks == {t1, t2}
OnePath  == {p1}
Interchangeable == Permutations(Tasks)
=============================================================================
