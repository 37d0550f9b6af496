------------------------------ MODULE HeapNodes ------------------------------
(***************************************************************************)
(* What the pairing heap and the binomial heap share: nodes with a first   *)
(* child, a next sibling and a parent.  A node is named by the item it     *)
(* holds; m holds these pointers of all nodes.  The fields of a freed node *)
(* are Junk, and so is what a pointer to it is worth.                      *)
(***************************************************************************)
EXTENDS Naturals, SequencesExt

CONSTANTS
  Item,   (* the items, and the names of the nodes that hold them         *)
  Key,    (* Key[v] is what cmp looks at in item v                        *)
  NULL,   (* the null pointer                                             *)
  Junk    (* what the fields of a freed node hold                         *)

Less(v, w) == Key[v] < Key[w]

Link == Item \cup {NULL, Junk}

(* A node and those that follow it among its siblings. *)
Siblings(m, first) ==
  LET from[n \in Link, k \in 0 .. Cardinality(Item)] ==
        IF n \in Item /\ k > 0 THEN <<n>> \o from[m.sibling[n], k - 1] ELSE <<>>
  IN from[first, Cardinality(Item)]

Children(m, n) == Range(Siblings(m, m.child[n]))

(* The nodes free_heap and is_heap reach from root. *)
Nodes(m, root) ==
  LET reach[n \in Link, k \in 0 .. Cardinality(Item)] ==
        IF n \in Item /\ k > 0
        THEN {n} \cup reach[m.child[n], k - 1] \cup reach[m.sibling[n], k - 1]
        ELSE {}
  IN reach[root, Cardinality(Item)]

(* Every node below the roots points to its parent and does not come       *)
(* before it.                                                              *)
ChildrenFollow(m, root) ==
  \A n \in Nodes(m, root) : \A c \in Children(m, n) : m.parent[c] = n /\ ~Less(c, n)
=============================================================================
