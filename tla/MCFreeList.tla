----------------------------- MODULE MCFreeList -----------------------------
(* Instances of FreeList for TLC.                                          *)
EXTENDS FreeList

CONSTANTS b1
MCPool == <<b1>>
=============================================================================
