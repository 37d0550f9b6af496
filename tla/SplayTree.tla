------------------------------ MODULE SplayTree ------------------------------
(***************************************************************************)
(* The splay tree (src/splay-tree.c).  A node that is looked up climbs to  *)
(* the root, two levels a turn; an insertion splits the tree at the node   *)
(* nearest to the new key, an erasure merges the two subtrees of the root. *)
(* So even get, count and find relink nodes.                               *)
(*                                                                         *)
(* A node is named by its key: a tree never holds a key twice, and a node  *)
(* keeps its key as long as it lives.  Every call is atomic (the library   *)
(* is single threaded); malloc may fail.                                   *)
(***************************************************************************)
EXTENDS BinaryTree

CONSTANTS
  Handle,   (* the trees the client may have                              *)
  Key       (* the keys the client uses                                   *)

(* What the constants must be. *)
ConstantsOK == Node = Key /\ Key \subseteq Int

VARIABLES
  exists,  (* the handles that are constructed and not destroyed          *)
  tree,    (* tree[h] is the struct cdc_splay_tree behind h               *)
  ret,     (* what the last call returned                                 *)
  call     (* the last call, its name and its arguments                   *)

vars == <<exists, tree, ret, call>>

-----------------------------------------------------------------------------
(* The left child n of p rises to p's place, and p takes n's right child.  *)
ZigRight(t, n) ==
  LET p == Parent(t, n)
      linked == WithParent(Replaced(t, Parent(t, p), p, n), n, Parent(t, p))
  IN HungRight(HungLeft(linked, p, Right(t, n)), n, p)

ZigLeft(t, n) ==
  LET p == Parent(t, n)
      linked == WithParent(Replaced(t, Parent(t, p), p, n), n, Parent(t, p))
  IN HungLeft(HungRight(linked, p, Left(t, n)), n, p)

ZigzigRight(t, n) == ZigRight(ZigRight(t, Parent(t, n)), n)

ZigzigLeft(t, n) == ZigLeft(ZigLeft(t, Parent(t, n)), n)

ZigzagRight(t, n) == ZigRight(ZigLeft(t, n), n)

ZigzagLeft(t, n) == ZigLeft(ZigRight(t, n), n)

(* One turn of the loop in splay. *)
SplayStep(t, n) ==
  LET p == Parent(t, n)
      g == Parent(t, p)
  IN CASE p = Null -> t
       [] p # Null /\ g = Null -> IF n = Left(t, p) THEN ZigRight(t, n) ELSE ZigLeft(t, n)
       [] p # Null /\ g # Null /\ n = Left(t, p) ->
            IF p = Left(t, g) THEN ZigzigRight(t, n) ELSE ZigzagLeft(t, n)
       [] p # Null /\ g # Null /\ n # Left(t, p) ->
            IF p = Right(t, g) THEN ZigzigLeft(t, n) ELSE ZigzagRight(t, n)

(* splay: n has become the root of its tree.                               *)
Splayed(t, n) ==
  LET turn[i \in 0 .. Cardinality(Node)] ==
        IF i = 0 THEN t ELSE SplayStep(turn[i - 1], n)
  IN turn[Cardinality(Node)]

(* sfind: a key that is not there leaves the tree alone.                   *)
Sfound(t, k) ==
  LET n == FindNode(t, k)
  IN IF n = Null THEN t ELSE [Splayed(t, n) EXCEPT !.root = n]

(* split at n, the node nearest to k: the roots of the two parts.          *)
Split(t, n, k) ==
  LET u == Splayed(t, n)
  IN IF k < KeyOf(u, n)
     THEN [tree |-> WithParent([u EXCEPT !.node[n].left = Null], Left(u, n), Null),
           left |-> Left(u, n), right |-> n]
     ELSE [tree |-> WithParent([u EXCEPT !.node[n].right = Null], Right(u, n), Null),
           left |-> n, right |-> Right(u, n)]

(* merge of the trees of a and b, all of whose keys are greater.           *)
Merged(t, a, b) ==
  LET m == MaxNode(t, a)
  IN CASE a = Null -> [t EXCEPT !.root = b]
       [] a # Null /\ b = Null -> [t EXCEPT !.root = a]
       [] a # Null /\ b # Null -> [HungRight(Splayed(t, m), m, b) EXCEPT !.root = m]

NewNode(k, v) == [key |-> k, value |-> v, left |-> Null, right |-> Null, parent |-> Null]

(* insert_unique: a new node of k with the two parts of the tree below it. *)
Inserted(t, k, v, near) ==
  LET made == [t EXCEPT !.size = t.size + 1, !.root = k,
                        !.node = [m \in DOMAIN t.node \cup {k} |->
                                    IF m = k THEN NewNode(k, v) ELSE t.node[m]]]
      s == Split(made, near, k)
  IN IF t.root = Null THEN made ELSE HungRight(HungLeft(s.tree, k, s.left), k, s.right)

(* A mutant: the right subtree keeps the erased node as its parent.        *)
ErasedUncut(t, n) ==
  LET u == Splayed(t, n)
  IN [Freed(Merged(WithParent(u, Left(u, n), Null), Left(u, n), Right(u, n)), n)
        EXCEPT !.size = t.size - 1]

(* erase of the node n. *)
Erased(t, n) ==
  LET u == Splayed(t, n)
      cut == WithParent(WithParent(u, Left(u, n), Null), Right(u, n), Null)
  IN [Freed(Merged(cut, Left(u, n), Right(u, n)), n) EXCEPT !.size = t.size - 1]

-----------------------------------------------------------------------------
Returned(status, done, at) == [status |-> status, done |-> done, at |-> at]

Update(h, t, done, at) ==
  /\ tree' = [tree EXCEPT ![h] = t]
  /\ ret' = Returned("OK", done, at)
  /\ UNCHANGED exists

OutOfMemory ==
  /\ ret' = Returned("BAD_ALLOC", FALSE, Null)
  /\ UNCHANGED <<exists, tree>>

-----------------------------------------------------------------------------
Ctor(h) ==
  /\ call' = <<"ctor", h>>
  /\ h \notin exists
  /\ \/ /\ exists' = exists \cup {h}
        /\ tree' = [tree EXCEPT ![h] = EmptyTree]
        /\ ret' = Returned("OK", FALSE, Null)
     \/ OutOfMemory

Dtor(h) ==
  /\ call' = <<"dtor", h>>
  /\ h \in exists
  /\ exists' = exists \ {h}
  /\ tree' = [tree EXCEPT ![h] = EmptyTree]
  /\ ret' = Returned("OK", FALSE, Null)

(* get, count and find, which differ in how they report the node.          *)
Find(h, k) ==
  /\ call' = <<"find", h, k>>
  /\ h \in exists
  /\ LET n == FindNode(tree[h], k)
     IN Update(h, Sfound(tree[h], k), n # Null, n)

(* A key that is there already is reported, and its node does not climb.   *)
Insert(h, k, v) ==
  /\ call' = <<"insert", h, k, v>>
  /\ h \in exists
  /\ LET t == tree[h]
         near == FindHint(t, k)
     IN IF near # Null /\ KeyOf(t, near) = k
        THEN Update(h, t, FALSE, k)
        ELSE Update(h, Inserted(t, k, v, near), TRUE, k) \/ OutOfMemory

InsertOrAssign(h, k, v) ==
  /\ call' = <<"insert_or_assign", h, k, v>>
  /\ h \in exists
  /\ LET t == tree[h]
         near == FindHint(t, k)
     IN IF near # Null /\ KeyOf(t, near) = k
        THEN Update(h, [t EXCEPT !.node[near].value = v], FALSE, k)
        ELSE Update(h, Inserted(t, k, v, near), TRUE, k) \/ OutOfMemory

Erase(h, k) ==
  /\ call' = <<"erase", h, k>>
  /\ h \in exists
  /\ LET n == FindNode(tree[h], k)
     IN IF n = Null THEN Update(h, tree[h], FALSE, Null)
        ELSE Update(h, Erased(tree[h], n), TRUE, Null)

Clear(h) ==
  /\ call' = <<"clear", h>>
  /\ h \in exists
  /\ Update(h, EmptyTree, FALSE, Null)

Swap(g, h) ==
  /\ call' = <<"swap", g, h>>
  /\ {g, h} \subseteq exists
  /\ tree' = [tree EXCEPT ![g] = tree[h], ![h] = tree[g]]
  /\ ret' = Returned("OK", FALSE, Null)
  /\ UNCHANGED exists
=============================================================================
