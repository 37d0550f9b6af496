------------------------------- MODULE AvlTree -------------------------------
(***************************************************************************)
(* The AVL tree (src/avl-tree.c).  Every node keeps the height of its      *)
(* subtree; after a node is hung or unlinked, balance climbs from there to *)
(* the root, rotating where the heights of two siblings differ by two.     *)
(*                                                                         *)
(* Erasing a node with two children moves the next key into it and frees   *)
(* the other node.  Addresses are not observable, so the model renames the *)
(* nodes after that step: a node is always named by the key it holds.      *)
(* Every call is atomic (the library is single threaded); malloc may fail. *)
(***************************************************************************)
EXTENDS BinaryTree

CONSTANTS
  Handle,   (* the trees the client may have                              *)
  Key,      (* the keys the client uses                                   *)
  Pair      (* the <<key, value>> pairs the client inserts                *)

(* What the constants must be. *)
ConstantsOK ==
  /\ Node = Key
  /\ Key \subseteq Int
  /\ \A p \in Pair : p[1] \in Key

VARIABLES
  exists,  (* the handles that are constructed and not destroyed          *)
  tree,    (* tree[h] is the struct cdc_avl_tree behind h                 *)
  ret,     (* what the last call returned                                 *)
  call     (* the last call, its name and its arguments                   *)

vars == <<exists, tree, ret, call>>

Value == {p[2] : p \in Pair}

-----------------------------------------------------------------------------
Height(t, n) == IF n = Null THEN 0 ELSE t.node[n].height

HeightDiff(t, n) == Height(t, Right(t, n)) - Height(t, Left(t, n))

Taller(a, b) == IF a >= b THEN a ELSE b

UpdatedHeight(t, n) ==
  [t EXCEPT !.node[n].height = Taller(Height(t, Left(t, n)), Height(t, Right(t, n))) + 1]

UpdateLink(t, parent, old, new) == Replaced(WithParent(t, new, parent), parent, old, new)

(* The left child q of n rises to n's place, and n takes q's right child.  *)
RotateRight(t, n) ==
  LET q == Left(t, n)
      linked == UpdateLink(t, Parent(t, n), n, q)
      moved == HungLeft(linked, n, Right(t, q))
  IN UpdatedHeight(UpdatedHeight(HungRight(moved, q, n), n), q)

RotateLeft(t, n) ==
  LET q == Right(t, n)
      linked == UpdateLink(t, Parent(t, n), n, q)
      moved == HungRight(linked, n, Left(t, q))
  IN UpdatedHeight(UpdatedHeight(HungLeft(moved, q, n), n), q)

(* A mutant: single rotations only.                                        *)
BalanceStepSingle(s) ==
  IF s.at = Null THEN s
  ELSE LET n == s.at
           t == UpdatedHeight(s.tree, n)
       IN CASE HeightDiff(t, n) = 2 -> [tree |-> RotateLeft(t, n), at |-> Right(t, n)]
            [] HeightDiff(t, n) = -2 -> [tree |-> RotateRight(t, n), at |-> Left(t, n)]
            [] OTHER -> [tree |-> t, at |-> IF Parent(t, n) = Null THEN n ELSE Parent(t, n)]

(* One turn of the loop in balance: s.at is its node.  At the root of a    *)
(* balanced tree a turn changes nothing.                                   *)
BalanceStep(s) ==
  IF s.at = Null THEN s
  ELSE LET n == s.at
           t == UpdatedHeight(s.tree, n)
           l == Left(t, n)
           r == Right(t, n)
       IN CASE HeightDiff(t, n) = 2 ->
                 LET ready == IF HeightDiff(t, r) < 0 THEN RotateRight(t, r) ELSE t
                 IN [tree |-> RotateLeft(ready, n), at |-> Right(ready, n)]
            [] HeightDiff(t, n) = -2 ->
                 LET ready == IF HeightDiff(t, l) > 0 THEN RotateLeft(t, l) ELSE t
                 IN [tree |-> RotateRight(ready, n), at |-> Left(ready, n)]
            [] OTHER -> [tree |-> t, at |-> IF Parent(t, n) = Null THEN n ELSE Parent(t, n)]

(* balance: the tree whose root is the node the loop ends at.  Every node  *)
(* on the way up takes at most two turns, the root one more.               *)
Balanced(t, n) ==
  LET turn[i \in 0 .. 2 * Cardinality(Node) + 1] ==
        IF i = 0 THEN [tree |-> t, at |-> n] ELSE BalanceStep(turn[i - 1])
      end == turn[2 * Cardinality(Node) + 1]
  IN [end.tree EXCEPT !.root = end.at]

NewNode(k, v, parent) ==
  [key |-> k, value |-> v, height |-> 1, left |-> Null, right |-> Null, parent |-> parent]

(* insert_unique, hanging a new node of k below near.                      *)
Inserted(t, k, v, near) ==
  LET made == [t EXCEPT !.size = t.size + 1,
                        !.node = [m \in DOMAIN t.node \cup {k} |->
                                    IF m = k THEN NewNode(k, v, near) ELSE t.node[m]]]
  IN CASE near = Null -> [made EXCEPT !.root = k]
       [] near # Null /\ k < KeyOf(t, near) -> Balanced([made EXCEPT !.node[near].left = k], near)
       [] near # Null /\ k >= KeyOf(t, near) -> Balanced([made EXCEPT !.node[near].right = k], near)

(* erase_node of a node with one child or none.                            *)
ErasedOuter(t, n) ==
  LET parent == Parent(t, n)
      child == IF Left(t, n) # Null THEN Left(t, n) ELSE Right(t, n)
      linked == WithParent(Replaced(t, parent, n, child), child, parent)
  IN Balanced(Freed(linked, n), IF parent # Null THEN parent ELSE child)

(* The node at a is now named b. *)
Renamed(t, a, b) ==
  LET name(x) == IF x = a THEN b ELSE x
      fields(f) == [f EXCEPT !.left = name(@), !.right = name(@), !.parent = name(@)]
  IN [t EXCEPT !.root = name(@),
               !.node = [x \in {name(y) : y \in DOMAIN t.node} |->
                           fields(t.node[IF x = b THEN a ELSE x])]]

(* erase_node of a node with two children: it takes the key and the value  *)
(* of the next node m, which is unlinked and freed.  When m is the right   *)
(* child itself, the right pointer is set to NULL, whatever m's own right  *)
(* child is.                                                               *)
ErasedInner(t, n) ==
  LET m == MinNode(t, Right(t, n))
      parent == Parent(t, m)
      moved == [t EXCEPT !.node[n].key = t.node[m].key, !.node[n].value = t.node[m].value]
      unlinked == IF parent = n THEN [moved EXCEPT !.node[n].right = Null]
                  ELSE HungLeft(moved, parent, Right(t, m))
  IN Renamed(Balanced(Freed(unlinked, m), parent), n, m)

(* A mutant: the value does not move with the key.                         *)
ErasedOldValue(t, n) ==
  LET inner == Left(t, n) # Null /\ Right(t, n) # Null
      next == MinNode(t, Right(t, n))
      gone == IF inner THEN [ErasedInner(t, n) EXCEPT !.node[next].value = t.node[n].value]
              ELSE ErasedOuter(t, n)
  IN [gone EXCEPT !.size = t.size - 1]

Erased(t, n) ==
  LET inner == Left(t, n) # Null /\ Right(t, n) # Null
  IN [IF inner THEN ErasedInner(t, n) ELSE ErasedOuter(t, n) EXCEPT !.size = t.size - 1]

-----------------------------------------------------------------------------
Returned(status, done, at) == [status |-> status, done |-> done, at |-> at]

Update(h, t, done, at) ==
  /\ tree' = [tree EXCEPT ![h] = t]
  /\ ret' = Returned("OK", done, at)
  /\ UNCHANGED exists

OutOfMemory ==
  /\ ret' = Returned("BAD_ALLOC", FALSE, Null)
  /\ UNCHANGED <<exists, tree>>

(* Bound: the model follows the trees until one of them loses a node.      *)
Proceeds == \A h \in exists : NothingLost(tree[h])

-----------------------------------------------------------------------------
Init ==
  /\ exists = {}
  /\ tree = [h \in Handle |-> EmptyTree]
  /\ ret = Returned("OK", FALSE, Null)
  /\ call = <<"none">>

Ctor(h) ==
  /\ call' = <<"ctor", h>>
  /\ h \notin exists
  /\ \/ /\ exists' = exists \cup {h}
        /\ tree' = [tree EXCEPT ![h] = EmptyTree]
        /\ ret' = Returned("OK", FALSE, Null)
     \/ OutOfMemory

Dtor(h) ==
  /\ call' = <<"dtor", h>>
  /\ h \in exists
  /\ exists' = exists \ {h}
  /\ tree' = [tree EXCEPT ![h] = EmptyTree]
  /\ ret' = Returned("OK", FALSE, Null)

(* The iterator of an insertion points to the node with the key.           *)
Insert(h, k, v) ==
  /\ call' = <<"insert", h, k, v>>
  /\ h \in exists
  /\ LET t == tree[h]
         near == FindHint(t, k)
     IN IF near # Null /\ KeyOf(t, near) = k
        THEN Update(h, t, FALSE, k)
        ELSE Update(h, Inserted(t, k, v, near), TRUE, k) \/ OutOfMemory

InsertOrAssign(h, k, v) ==
  /\ call' = <<"insert_or_assign", h, k, v>>
  /\ h \in exists
  /\ LET t == tree[h]
         near == FindHint(t, k)
     IN IF near # Null /\ KeyOf(t, near) = k
        THEN Update(h, [t EXCEPT !.node[near].value = v], FALSE, k)
        ELSE Update(h, Inserted(t, k, v, near), TRUE, k) \/ OutOfMemory

(* get, count and find, which differ in how they report the node.          *)
Find(h, k) ==
  /\ call' = <<"find", h, k>>
  /\ h \in exists
  /\ LET n == FindNode(tree[h], k)
     IN Update(h, tree[h], n # Null, n)

Erase(h, k) ==
  /\ call' = <<"erase", h, k>>
  /\ h \in exists
  /\ LET n == FindNode(tree[h], k)
     IN IF n = Null THEN Update(h, tree[h], FALSE, Null)
        ELSE Update(h, Erased(tree[h], n), TRUE, Null)

Clear(h) ==
  /\ call' = <<"clear", h>>
  /\ h \in exists
  /\ Update(h, EmptyTree, FALSE, Null)

Swap(g, h) ==
  /\ call' = <<"swap", g, h>>
  /\ {g, h} \subseteq exists
  /\ tree' = [tree EXCEPT ![g] = tree[h], ![h] = tree[g]]
  /\ ret' = Returned("OK", FALSE, Null)
  /\ UNCHANGED exists

Halted == ~Proceeds /\ UNCHANGED vars

Next ==
  \/ /\ Proceeds
     /\ \/ \E h \in Handle : Ctor(h) \/ Dtor(h) \/ Clear(h)
        \/ \E h \in Handle, k \in Key : Erase(h, k) \/ Find(h, k)
        \/ \E h \in Handle, p \in Pair : Insert(h, p[1], p[2]) \/ InsertOrAssign(h, p[1], p[2])
        \/ \E g, h \in Handle : Swap(g, h)
  \/ Halted

Spec == Init /\ [][Next]_vars

-----------------------------------------------------------------------------
(* Every rotation and every unlinking leaves a search tree whose pointers  *)
(* agree in both directions and whose size counts its nodes.               *)
TreeInv == \A h \in exists : Proceeds => WellFormed(tree[h])

(* The stored heights are the heights, and no two siblings differ by more  *)
(* than one: the depth stays logarithmic whatever is erased.               *)
BalanceInv ==
  Proceeds =>
    \A h \in exists : \A n \in DOMAIN tree[h].node :
      LET t == tree[h] IN
        /\ t.node[n].height = Taller(Height(t, Left(t, n)), Height(t, Right(t, n))) + 1
        /\ HeightDiff(t, n) \in {-1, 0, 1}

(* Iterating forwards and backwards visits the nodes in key order.         *)
IterationInv ==
  Proceeds =>
    \A h \in exists : /\ Forward(tree[h]) = InOrder(tree[h])
                      /\ Backward(tree[h]) = Reverse(InOrder(tree[h]))

Promise == INSTANCE Map WITH
  contents <- [h \in Handle |-> Contents(tree[h], Key)], NoKey <- Null

(* Erasing a key removes that key's element and no other.                  *)
EraseRemovesOne == [][call'[1] = "erase" => Promise!Answers(call')]_vars

(* Every call that loses no node changes the map behind its handle as the  *)
(* map table says and returns what it says.                                *)
CallsKeepPromise == [][Proceeds' => Promise!Answers(call')]_vars
=============================================================================
