------------------------- MODULE MCFallbackEngines -------------------------
(* Callers and scenarios for the run of FallbackEngines. *)
EXTENDS FallbackEngines, TLC

CONSTANTS c1, c2

TwoCallers == {c1, c2}

\* Two callers of the disk engine; one caller of the network engine with every
\* operation; two callers of the network engine that share its channel; one
\* caller of each engine, where a thread can be lost to an accept.
Mixes ==
  { [c \in Callers |-> DiskOps],
    c1 :> NetOps @@ c2 :> {},
    c1 :> {"connect"} @@ c2 :> {"accept"},
    c1 :> {"sync_file"} @@ c2 :> {"accept"} }
=============================================================================
