------------------------------ MODULE MCAvlTree ------------------------------
(* Nodes, pairs and symmetry for checking AvlTree with TLC. *)
EXTENDS AvlTree

CONSTANT N   (* the number of keys *)

MCKey == 1 .. N

(* The middle key is stored with two values, the others with one of them.  *)
MCPair == {<<k, IF k % 2 = 0 THEN "even" ELSE "odd">> : k \in Key} \cup {<<2, "odd">>}

(* States that differ in the last call only are the same state.            *)
MCView == <<exists, tree>>
=============================================================================
