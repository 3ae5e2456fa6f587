---------------------------- MODULE MC_HashTable ----------------------------
(* Instantiates the hash table for TLC: three keys, groups of 3 positions  *)
(* so that a table of 4 or more spans several groups.                      *)
EXTENDS HashTable, TLC

CONSTANTS k1, k2, k3

MCKeys == {k1, k2, k3}
MCSymmetry == Permutations(MCKeys)
=============================================================================
