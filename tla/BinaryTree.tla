----------------------------- MODULE BinaryTree ------------------------------
(***************************************************************************)
(* What the three search trees of the library share: nodes with left,      *)
(* right and parent pointers, and the walks of                             *)
(* include/cdcontainers/tree-utils.h that the AVL tree, the splay tree and *)
(* the treap instantiate.                                                  *)
(*                                                                         *)
(* A tree t is a record with a root, a size and t.node, which maps the     *)
(* addresses of the allocated nodes to their fields; cmp is < on the keys. *)
(***************************************************************************)
EXTENDS Integers, FiniteSets, SequencesExt

CONSTANTS
  Node,     (* the addresses nodes may be malloc'd at                     *)
  Null      (* the NULL pointer                                           *)

ASSUME NullAssumption == Null \notin Node

Left(t, n) == t.node[n].left
Right(t, n) == t.node[n].right
Parent(t, n) == t.node[n].parent
KeyOf(t, n) == t.node[n].key

-----------------------------------------------------------------------------
(* Walks.  A loop that follows pointers is the sequence of nodes it visits:*)
(* from n, the next node is step[n], until there is none.                  *)
Path(step, n) ==
  LET from[m \in Node \cup {Null}, i \in 0 .. Cardinality(Node)] ==
        IF m \in DOMAIN step /\ i > 0 THEN <<m>> \o from[step[m], i - 1] ELSE <<>>
  IN from[n, Cardinality(Node)]

Lefts(t) == [n \in DOMAIN t.node |-> Left(t, n)]
Rights(t) == [n \in DOMAIN t.node |-> Right(t, n)]

MinNode(t, n) == IF n = Null THEN Null ELSE Last(Path(Lefts(t), n))

MaxNode(t, n) == IF n = Null THEN Null ELSE Last(Path(Rights(t), n))

(* The way down towards k, which ends at the node of k or where k would    *)
(* hang.                                                                   *)
Towards(t, k) ==
  [n \in DOMAIN t.node |-> CASE k < KeyOf(t, n) -> Left(t, n)
                             [] k > KeyOf(t, n) -> Right(t, n)
                             [] k = KeyOf(t, n) -> Null]

FindHint(t, k) == IF t.root = Null THEN Null ELSE Last(Path(Towards(t, k), t.root))

FindNode(t, k) ==
  LET n == FindHint(t, k) IN IF n # Null /\ KeyOf(t, n) = k THEN n ELSE Null

(* The next node in key order: the first to the right, or the parent of    *)
(* the last node on the way up that is a right child; and the previous one.*)
Successor(t, n) ==
  LET climbs == [m \in DOMAIN t.node |->
                   LET p == Parent(t, m) IN IF p # Null /\ Right(t, p) = m THEN p ELSE Null]
  IN IF Right(t, n) # Null THEN MinNode(t, Right(t, n)) ELSE Parent(t, Last(Path(climbs, n)))

Predecessor(t, n) ==
  LET climbs == [m \in DOMAIN t.node |->
                   LET p == Parent(t, m) IN IF p # Null /\ Left(t, p) = m THEN p ELSE Null]
  IN IF Left(t, n) # Null THEN MaxNode(t, Left(t, n)) ELSE Parent(t, Last(Path(climbs, n)))

-----------------------------------------------------------------------------
(* Pointer assignments. *)

(* The child pointer of parent that pointed to old points to new.          *)
Replaced(t, parent, old, new) ==
  CASE parent = Null -> t
    [] parent # Null /\ Left(t, parent) = old -> [t EXCEPT !.node[parent].left = new]
    [] parent # Null /\ Left(t, parent) # old -> [t EXCEPT !.node[parent].right = new]

WithParent(t, n, parent) == IF n = Null THEN t ELSE [t EXCEPT !.node[n].parent = parent]

(* The left (right) child of n becomes c, and c's parent n.                *)
HungLeft(t, n, c) == WithParent([t EXCEPT !.node[n].left = c], c, n)
HungRight(t, n, c) == WithParent([t EXCEPT !.node[n].right = c], c, n)

Freed(t, n) == [t EXCEPT !.node = [m \in DOMAIN t.node \ {n} |-> t.node[m]]]

EmptyTree == [root |-> Null, size |-> 0, node |-> [n \in {} |-> n]]

-----------------------------------------------------------------------------
(* What a tree should be. *)

(* The nodes below and including n, in order; d bounds the depth.          *)
InOrder(t) ==
  LET below[d \in 0 .. Cardinality(Node), n \in Node \cup {Null}] ==
        IF d = 0 \/ n = Null THEN <<>>
        ELSE below[d - 1, Left(t, n)] \o <<n>> \o below[d - 1, Right(t, n)]
  IN below[Cardinality(Node), t.root]

(* The keys increase from left to right, every allocated node is in the    *)
(* tree exactly once, size counts them, and every parent pointer leads     *)
(* back to the node that points to the child.                              *)
Ordered(t) ==
  LET s == InOrder(t)
  IN \A i \in 1 .. Len(s) - 1 : KeyOf(t, s[i]) < KeyOf(t, s[i + 1])

NothingLost(t) == Range(InOrder(t)) = DOMAIN t.node

Linked(t) ==
  /\ t.root # Null => Parent(t, t.root) = Null
  /\ \A n \in Range(InOrder(t)) : \A c \in {Left(t, n), Right(t, n)} \ {Null} : Parent(t, c) = n

WellFormed(t) == Ordered(t) /\ NothingLost(t) /\ Linked(t) /\ t.size = Cardinality(DOMAIN t.node)

(* What begin and iter_next visit, and iter_prev from end.                 *)
Forward(t) ==
  IF t.root = Null THEN <<>>
  ELSE Path([n \in DOMAIN t.node |-> Successor(t, n)], MinNode(t, t.root))

Backward(t) ==
  IF t.root = Null THEN <<>>
  ELSE Path([n \in DOMAIN t.node |-> Predecessor(t, n)], MaxNode(t, t.root))

(* Iterators: the node an iterator is at, and the one before it, which it  *)
(* keeps to step back from the end.                                        *)
AtBegin(t) == [current |-> MinNode(t, t.root), prev |-> Null]

AtEnd(t) == [current |-> Null, prev |-> MaxNode(t, t.root)]

(* A mutant: the left child is taken for the node before.                  *)
AtNodeLeft(t, n) == IF n = Null THEN AtEnd(t) ELSE [current |-> n, prev |-> Left(t, n)]

AtNode(t, n) == IF n = Null THEN AtEnd(t) ELSE [current |-> n, prev |-> Predecessor(t, n)]

SteppedForward(t, p) == [current |-> Successor(t, p.current), prev |-> p.current]

SteppedBack(t, p) == [current |-> p.prev, prev |-> Predecessor(t, p.prev)]

(* The map get sees.                                                       *)
Contents(t, K) ==
  LET at == [k \in K |-> FindNode(t, k)]
  IN [k \in {x \in K : at[x] # Null} |-> t.node[at[k]].value]
=============================================================================
