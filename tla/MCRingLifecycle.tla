-------------------------- MODULE MCRingLifecycle --------------------------
(* Sizes and handles for the runs of RingLifecycle: a header of 2 units.    *)
EXTENDS RingLifecycle, TLC

CONSTANTS h1, h2, h3, f1, f2

ThreeHandles == {h1, h2, h3}
TwoFiles     == {f1, f2}

\* A ring with room for two slots and a remainder.
OneOption == {[size |-> 9, slotSize |-> 3]}

Interchangeable == Permutations(Handles) \cup Permutations(Files)
=============================================================================
