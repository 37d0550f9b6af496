-------------------------------- MODULE Treap --------------------------------
(***************************************************************************)
(* The treap (src/treap.c): a search tree in which no node has a higher    *)
(* priority than its parent.  The client's priority function (rand by      *)
(* default) may say anything of a new value, other priorities' equal       *)
(* included.  A new node goes below the nodes of higher priority on its    *)
(* way and splits the subtree it comes to; an erased node is replaced by   *)
(* the merge of its two subtrees.                                          *)
(*                                                                         *)
(* A node is named by its key: a tree never holds a key twice, and a node  *)
(* keeps its key as long as it lives.  Every call is atomic (the library   *)
(* is single threaded); malloc may fail.                                   *)
(***************************************************************************)
EXTENDS BinaryTree

CONSTANTS
  Handle,     (* the treaps the client may have                           *)
  Key,        (* the keys the client uses                                 *)
  Priority    (* bound: what the priority function may return             *)

(* What the constants must be. *)
ConstantsOK == Node = Key /\ Key \subseteq Int /\ Priority \subseteq Int

VARIABLES
  exists,  (* the handles that are constructed and not destroyed          *)
  tree,    (* tree[h] is the struct cdc_treap behind h                    *)
  ret,     (* what the last call returned                                 *)
  call     (* the last call, its name and its arguments                   *)

vars == <<exists, tree, ret, call>>

-----------------------------------------------------------------------------
PriorityOf(t, n) == t.node[n].priority

(* Where find_nearest ends: at the first node on the way towards k whose   *)
(* priority is not higher, or where k would hang.                          *)
FindNearest(t, k, priority) ==
  LET down == [n \in DOMAIN t.node |->
                 CASE PriorityOf(t, n) <= priority -> Null
                   [] PriorityOf(t, n) > priority /\ k < KeyOf(t, n) -> Left(t, n)
                   [] PriorityOf(t, n) > priority /\ k >= KeyOf(t, n) -> Right(t, n)]
  IN IF t.root = Null THEN Null ELSE Last(Path(down, t.root))

(* A mutant: the subtree that changes sides keeps its old parent.          *)
SplitOldParent(t, n, k) ==
  LET split[d \in 0 .. Cardinality(Node), m \in Node \cup {Null}] ==
        IF m = Null \/ d = 0 THEN [tree |-> t, left |-> Null, right |-> Null]
        ELSE IF KeyOf(t, m) < k
             THEN LET s == split[d - 1, Right(t, m)]
                  IN [tree |-> [s.tree EXCEPT !.node[m].right = s.left], left |-> m, right |-> s.right]
             ELSE LET s == split[d - 1, Left(t, m)]
                  IN [tree |-> [s.tree EXCEPT !.node[m].left = s.right], left |-> s.left, right |-> m]
  IN split[Cardinality(Node), n]

(* split of the subtree of n: the roots of its part below k and the rest.  *)
(* d bounds the depth of the recursion.                                    *)
Split(t, n, k) ==
  LET split[d \in 0 .. Cardinality(Node), m \in Node \cup {Null}] ==
        IF m = Null \/ d = 0 THEN [tree |-> t, left |-> Null, right |-> Null]
        ELSE IF KeyOf(t, m) < k
             THEN LET s == split[d - 1, Right(t, m)]
                  IN [tree |-> WithParent(HungRight(s.tree, m, s.left), s.right, Null),
                      left |-> m, right |-> s.right]
             ELSE LET s == split[d - 1, Left(t, m)]
                  IN [tree |-> WithParent(HungLeft(s.tree, m, s.right), s.left, Null),
                      left |-> s.left, right |-> m]
  IN split[Cardinality(Node), n]

(* merge of the subtrees of l and r, all of whose keys are greater; of two *)
(* equal priorities r's stays on top.                                      *)
Merged(t, l, r) ==
  LET merge[a \in Node \cup {Null}, b \in Node \cup {Null}] ==
        CASE a = Null -> [tree |-> t, root |-> b]
          [] a # Null /\ b = Null -> [tree |-> t, root |-> a]
          [] a # Null /\ b # Null /\ PriorityOf(t, a) > PriorityOf(t, b) ->
               LET s == merge[Right(t, a), b]
               IN [tree |-> HungRight(s.tree, a, s.root), root |-> a]
          [] a # Null /\ b # Null /\ PriorityOf(t, a) <= PriorityOf(t, b) ->
               LET s == merge[a, Left(t, b)]
               IN [tree |-> HungLeft(s.tree, b, s.root), root |-> b]
  IN merge[l, r]

NewNode(k, v, priority) ==
  [key |-> k, value |-> v, priority |-> priority,
   left |-> Null, right |-> Null, parent |-> Null]

(* insert_unique: below a node of higher priority, or in the place of the  *)
(* nearest, whose subtree it splits.                                       *)
Inserted(t, k, v, priority) ==
  LET near == FindNearest(t, k, priority)
      made == [t EXCEPT !.size = t.size + 1,
                        !.node = [m \in DOMAIN t.node \cup {k} |->
                                    IF m = k THEN NewNode(k, v, priority) ELSE t.node[m]]]
      above == Parent(t, near)
      s == Split(made, near, k)
      topped == HungRight(HungLeft(s.tree, k, s.left), k, s.right)
  IN CASE near = Null -> [made EXCEPT !.root = k]
       [] near # Null /\ PriorityOf(t, near) > priority ->
            IF k < KeyOf(t, near) THEN HungLeft(made, near, k) ELSE HungRight(made, near, k)
       [] near # Null /\ PriorityOf(t, near) <= priority /\ above = Null ->
            [topped EXCEPT !.root = k]
       [] near # Null /\ PriorityOf(t, near) <= priority /\ above # Null ->
            WithParent(Replaced(topped, above, near, k), k, above)

(* erase_node *)
Erased(t, n) ==
  LET s == Merged(t, Left(t, n), Right(t, n))
      above == Parent(t, n)
      linked == WithParent(Replaced(s.tree, above, n, s.root), s.root, above)
  IN [Freed(linked, n) EXCEPT !.root = IF t.root = n THEN s.root ELSE t.root,
                              !.size = t.size - 1]

(* No node has a higher priority than its parent. *)
HeapOrdered(t) ==
  \A n \in DOMAIN t.node : \A c \in {Left(t, n), Right(t, n)} \ {Null} :
    PriorityOf(t, c) <= PriorityOf(t, n)

-----------------------------------------------------------------------------
Returned(status, done, at) == [status |-> status, done |-> done, at |-> at]

Update(h, t, done, at) ==
  /\ tree' = [tree EXCEPT ![h] = t]
  /\ ret' = Returned("OK", done, at)
  /\ UNCHANGED exists

OutOfMemory ==
  /\ ret' = Returned("BAD_ALLOC", FALSE, Null)
  /\ UNCHANGED <<exists, tree>>

-----------------------------------------------------------------------------
Ctor(h) ==
  /\ call' = <<"ctor", h>>
  /\ h \notin exists
  /\ \/ /\ exists' = exists \cup {h}
        /\ tree' = [tree EXCEPT ![h] = EmptyTree]
        /\ ret' = Returned("OK", FALSE, Null)
     \/ OutOfMemory

Dtor(h) ==
  /\ call' = <<"dtor", h>>
  /\ h \in exists
  /\ exists' = exists \ {h}
  /\ tree' = [tree EXCEPT ![h] = EmptyTree]
  /\ ret' = Returned("OK", FALSE, Null)

(* get, count and find, which differ in how they report the node.          *)
Find(h, k) ==
  /\ call' = <<"find", h, k>>
  /\ h \in exists
  /\ LET n == FindNode(tree[h], k)
     IN Update(h, tree[h], n # Null, n)

(* The priority function is asked only of a value that gets a new node.    *)
Insert(h, k, v) ==
  /\ call' = <<"insert", h, k, v>>
  /\ h \in exists
  /\ IF FindNode(tree[h], k) # Null
     THEN Update(h, tree[h], FALSE, k)
     ELSE \/ \E p \in Priority : Update(h, Inserted(tree[h], k, v, p), TRUE, k)
          \/ OutOfMemory

InsertOrAssign(h, k, v) ==
  /\ call' = <<"insert_or_assign", h, k, v>>
  /\ h \in exists
  /\ IF FindNode(tree[h], k) # Null
     THEN Update(h, [tree[h] EXCEPT !.node[FindNode(tree[h], k)].value = v], FALSE, k)
     ELSE \/ \E p \in Priority : Update(h, Inserted(tree[h], k, v, p), TRUE, k)
          \/ OutOfMemory

Erase(h, k) ==
  /\ call' = <<"erase", h, k>>
  /\ h \in exists
  /\ LET n == FindNode(tree[h], k)
     IN IF n = Null THEN Update(h, tree[h], FALSE, Null)
        ELSE Update(h, Erased(tree[h], n), TRUE, Null)

Clear(h) ==
  /\ call' = <<"clear", h>>
  /\ h \in exists
  /\ Update(h, EmptyTree, FALSE, Null)

Swap(g, h) ==
  /\ call' = <<"swap", g, h>>
  /\ {g, h} \subseteq exists
  /\ tree' = [tree EXCEPT ![g] = tree[h], ![h] = tree[g]]
  /\ ret' = Returned("OK", FALSE, Null)
  /\ UNCHANGED exists
=============================================================================
