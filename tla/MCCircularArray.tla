-------------------------- MODULE MCCircularArray ---------------------------
(* Symmetry for checking CircularArray with TLC. *)
EXTENDS CircularArray, TLC

(* The calls treat items as opaque pointers. *)
ItemSymmetry == Permutations(Item)

(* States that differ in the last call only are the same state.            *)
MCView == <<exists, arr, live, fault>>
=============================================================================
