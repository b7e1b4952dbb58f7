-------------------------- MODULE MCPrefetchServer --------------------------
(* Instances of PrefetchServer for TLC.  Tasks are numbers, so that Fresh  *)
(* always takes the lowest free address.                                   *)
EXTENDS PrefetchServer, TLC

CONSTANTS MaxTasks
MCTask == 1 .. MaxTasks
Symmetry == Permutations(Worker)
=============================================================================
