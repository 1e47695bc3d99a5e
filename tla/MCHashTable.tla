---------------------------- MODULE MCHashTable ----------------------------
(***************************************************************************)
(* Instances of HashTable for TLC: three beacons share a chain, one is     *)
(* alone in its own.                                                       *)
(***************************************************************************)
EXTENDS HashTable, TLC

MCBeaconIndex == [i \in Ids |-> IF i = 1 THEN 1 ELSE 2 * i]
Symmetry == Permutations(Nodes)
=============================================================================
