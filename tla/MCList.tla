------------------------------- MODULE MCList --------------------------------
(* Keys and the view for checking List with TLC. *)
EXTENDS List

(* Of the items 1 .. 5, two share a key and three share another. *)
MCKey == [v \in Item |-> v \div 3]

MCSymmetry == Permutations(Handle)

(* States that differ in the last call only are the same state.            *)
MCView == <<exists, mem>>
=============================================================================
