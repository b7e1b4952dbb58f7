----------------------------- MODULE MCDatabase -----------------------------
(* Instances of Database for TLC.                                          *)
EXTENDS Database, TLC

Symmetry == Permutations(Thread) \cup Permutations(Key) \cup Permutations(Val)
=============================================================================
