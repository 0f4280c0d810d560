---------------------------- MODULE MCPlacement ----------------------------
(* Machines for the run of Placement.  *)
EXTENDS Placement

Machine(nodes, listed, sysfs, allowed, quota) ==
  [nodes |-> nodes, listed |-> listed, sysfs |-> sysfs, allowed |-> allowed, quota |-> quota]

Two    == << {0, 1}, {2, 3} >>    \* as the tests mock them
Mixed  == << {1, 3}, {0, 2} >>    \* read_dir gives node 1 first
Uneven == << {0}, {}, {1, 2} >>   \* a node with memory only
Five   == << {0, 1, 4}, {2, 3} >> \* one core is left for the OS
Holes  == << {0, 3}, {5} >>       \* cores offline

\* Every machine with two nodes and the cores 0, 1 and 2 online or not.
SmallMachines ==
  UNION {{Machine(ns, {1, 2}, TRUE, a, 9) : a \in (SUBSET (ns[1] \cup ns[2])) \ {{}}} :
         ns \in {x \in (SUBSET (0..2)) \X (SUBSET (0..2)) : x[1] \cap x[2] = {}}}

LargerMachines ==
  {Machine(Two, {1, 2}, TRUE, 0..3, 9), Machine(Two, {1, 2}, TRUE, 0..3, 3),
   Machine(Two, {1, 2}, TRUE, {0, 1}, 9), Machine(Two, {1, 2}, TRUE, {2, 3}, 9),
   Machine(Two, {1, 2}, FALSE, 0..3, 9), Machine(Two, {2}, TRUE, 0..3, 9),
   Machine(Two, {}, TRUE, 0..3, 2),
   Machine(Mixed, {1, 2}, TRUE, 0..3, 9), Machine(Mixed, {1, 2}, TRUE, {0, 1}, 9),
   Machine(Uneven, {1, 2, 3}, TRUE, 0..2, 9), Machine(Uneven, {1, 2, 3}, TRUE, 0..2, 1),
   Machine(Five, {1, 2}, TRUE, 0..4, 9), Machine(Five, {1, 2}, TRUE, {0, 2, 4}, 9),
   Machine(Holes, {1, 2}, TRUE, {0, 3, 5}, 9)}

AllMachines == SmallMachines \cup LargerMachines
=============================================================================
