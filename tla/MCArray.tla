------------------------------- MODULE MCArray -------------------------------
(* Blocks and symmetry for checking Array with TLC. *)
EXTENDS Array, FiniteSets, TLC

(* The blocks of one item and of all but one of them.                      *)
MCBlocks ==
  {s \in UNION {[1 .. n -> Item] : n \in {1, Cardinality(Item) - 1}} : IsInjective(s)}

(* Neither an item nor an array is special.                                *)
MCSymmetry == Permutations(Item) \cup Permutations(Handle)

(* States that differ in the last call only are the same state.            *)
MCView == <<exists, arr, live, fault>>
=============================================================================
