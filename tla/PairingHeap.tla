---------------------------- MODULE PairingHeap ------------------------------
(***************************************************************************)
(* The pairing heap (src/pairing-heap.c): a tree in which no item comes    *)
(* before its parent.                                                      *)
(***************************************************************************)
EXTENDS HeapNodes

NoNodes ==
  LET junk == [n \in Item |-> Junk] IN [child |-> junk, sibling |-> junk, parent |-> junk]

(* A mutant: the children of broot are forgotten. *)
LinkedOnly(m, a, broot) ==
  [m EXCEPT !.parent[a] = broot, !.sibling[a] = NULL, !.child[broot] = a]

Linked(m, a, broot) ==
  [m EXCEPT !.parent[a] = broot, !.sibling[a] = m.child[broot], !.child[broot] = a]

(* Two trees become one; of two equal roots b's stays on top. *)
Meld(m, a, b) ==
  CASE a = NULL -> [mem |-> m, root |-> b]
    [] a # NULL /\ b = NULL -> [mem |-> m, root |-> a]
    [] OTHER -> IF Less(a, b) THEN [mem |-> Linked(m, b, a), root |-> a]
                              ELSE [mem |-> Linked(m, a, b), root |-> b]

(* two_pass_meld of a row of siblings: the first two are melded, then      *)
(* melded with what becomes of the rest.  A last node without a partner    *)
(* keeps its parent.                                                       *)
TwoPassMeld(m, first) ==
  LET s == Siblings(m, first)
      alone(u, n) == [u EXCEPT !.parent[n] = NULL, !.sibling[n] = NULL]
      two[i \in 1 .. Len(s) + 2] ==
        CASE i > Len(s) -> [mem |-> m, root |-> NULL]
          [] i = Len(s) -> [mem |-> m, root |-> s[i]]
          [] OTHER ->
               LET rest == two[i + 2]
                   pair == Meld(alone(alone(rest.mem, s[i]), s[i + 1]), s[i], s[i + 1])
               IN Meld(pair.mem, pair.root, rest.root)
  IN two[1]

FreeNodes(m, S) ==
  LET clear(f) == [n \in Item |-> IF n \in S \/ f[n] \in S THEN Junk ELSE f[n]]
  IN [child |-> clear(m.child), sibling |-> clear(m.sibling), parent |-> clear(m.parent)]

NewNode(m, v) == [m EXCEPT !.child[v] = NULL, !.sibling[v] = NULL, !.parent[v] = NULL]

Inserted(m, root, v) == Meld(NewNode(m, v), root, v)

WithoutTop(m, root) ==
  LET t == TwoPassMeld(m, m.child[root])
  IN [mem |-> FreeNodes(t.mem, {root}), root |-> t.root]

IsHeap(m, root) == ChildrenFollow(m, root)
=============================================================================
