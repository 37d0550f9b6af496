----------------------------- MODULE MCHashTable -----------------------------
(* A hash function, and symmetry, for checking HashTable with TLC. *)
EXTENDS HashTable, TLC

CONSTANTS k0, k1, k2, k8, k9

(* Of 8 buckets k0 and k8 share one, and k1 and k9; of 16 no two keys do.  *)
MCHash == k0 :> 0 @@ k1 :> 1 @@ k2 :> 2 @@ k8 :> 8 @@ k9 :> 9

MCSymmetry == Permutations(Value)

(* States that differ in the last call only are the same state.            *)
MCView == <<exists, tab, fault>>
=============================================================================
