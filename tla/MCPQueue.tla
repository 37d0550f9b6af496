------------------------------ MODULE MCPQueue -------------------------------
(* Keys and the view for checking PQueue with TLC. *)
EXTENDS PQueue

(* Of the items 1 .. 6, one comes first, one last, and the others share a  *)
(* key in pairs.                                                           *)
MCKey == [v \in Item |-> v \div 2]

MCSymmetry == Permutations(Handle)

(* States that differ in the last call only are the same state.            *)
MCView == <<kind, exists, seq, mem, root, size, top, live, fault, misread>>
=============================================================================
