------------------------------ MODULE MCCacheOps ------------------------------
(* Instances of CacheOps for TLC. *)
EXTENDS CacheOps, TLC

CONSTANTS c1, c2

ClientSymmetry == Permutations(Clients)
=============================================================================
