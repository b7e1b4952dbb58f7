----------------------------- MODULE MCLRUCache -----------------------------
(* Instances of LRUCache for TLC: the values of its constants are in the   *)
(* configurations.                                                         *)
EXTENDS LRUCache
=============================================================================
