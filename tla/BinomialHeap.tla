---------------------------- MODULE BinomialHeap -----------------------------
(***************************************************************************)
(* The binomial heap (src/binomial-heap.c): a row of trees, which are      *)
(* siblings, in each of which no item comes before its parent.  A node     *)
(* counts its children in degree.  Two rows are merged by degree, and then *)
(* neighbours of the same degree are linked.                               *)
(*                                                                         *)
(* A node is named by the item it holds, so where the code swaps the keys  *)
(* of two nodes the nodes swap their names.                                *)
(***************************************************************************)
EXTENDS HeapNodes

NoNodes ==
  LET junk == [n \in Item |-> Junk]
  IN [child |-> junk, sibling |-> junk, parent |-> junk, degree |-> junk]

NewNode(m, v) ==
  [m EXCEPT !.child[v] = NULL, !.sibling[v] = NULL, !.parent[v] = NULL, !.degree[v] = 0]

FreeNodes(m, S) ==
  LET clear(f) == [n \in Item |-> IF n \in S \/ f[n] \in S THEN Junk ELSE f[n]]
  IN [child |-> clear(m.child), sibling |-> clear(m.sibling), parent |-> clear(m.parent),
      degree |-> [n \in Item |-> IF n \in S THEN Junk ELSE m.degree[n]]]

(* link: the tree of a goes below broot. *)
Linked(m, a, broot) ==
  [m EXCEPT !.parent[a] = broot, !.sibling[a] = m.child[broot], !.child[broot] = a,
            !.degree[broot] = @ + 1]

(* merge of the rows that begin with a and b: of two equal degrees b's     *)
(* comes first.                                                            *)
MergedRow(m, a, b) ==
  LET merge[x \in Link, y \in Link] ==
        CASE x = NULL -> Siblings(m, y)
          [] x # NULL /\ y = NULL -> Siblings(m, x)
          [] x # NULL /\ y # NULL /\ m.degree[x] < m.degree[y] -> <<x>> \o merge[m.sibling[x], y]
          [] x # NULL /\ y # NULL /\ m.degree[x] >= m.degree[y] -> <<y>> \o merge[x, m.sibling[y]]
  IN merge[a, b]

(* The nodes of s become siblings in this order; the last keeps its own.   *)
InARow(m, s) ==
  LET after(n) == s[(CHOOSE i \in DOMAIN s : s[i] = n) + 1]
      linked == {s[i] : i \in 1 .. Len(s) - 1}
  IN [m EXCEPT !.sibling = [n \in Item |-> IF n \in linked THEN after(n) ELSE m.sibling[n]]]

(* One turn of the loop of meld, which stands at curr and came from prev:  *)
(* of three trees of one degree the last two are linked.  When curr goes   *)
(* below next the loop stays at curr, and so goes on among the children    *)
(* next had before: it never comes back to the rest of the row.            *)
MeldStep(s) ==
  LET m == s.mem
      next == m.sibling[s.curr]
      third == m.sibling[next]
      bypassed == [m EXCEPT !.sibling[s.curr] = third]
      replaced == IF s.prev = NULL THEN m ELSE [m EXCEPT !.sibling[s.prev] = next]
  IN CASE next = NULL -> s
       [] next # NULL /\ (m.degree[s.curr] # m.degree[next]
                          \/ (third # NULL /\ m.degree[third] = m.degree[s.curr])) ->
            [s EXCEPT !.prev = s.curr, !.curr = next]
       [] OTHER ->
            IF Less(s.curr, next)
            THEN [s EXCEPT !.mem = Linked(bypassed, next, s.curr)]
            ELSE [s EXCEPT !.mem = Linked(replaced, s.curr, next),
                           !.root = IF s.prev = NULL THEN next ELSE s.root]

(* meld of two rows: the nodes and the root the result begins with.  No    *)
(* turn comes to a node a second time as the one after curr.               *)
Meld(m, a, b) ==
  LET row == MergedRow(m, a, b)
      loop[i \in 0 .. Cardinality(Item)] ==
        IF i = 0 THEN [mem |-> InARow(m, row), root |-> row[1], prev |-> NULL, curr |-> row[1]]
        ELSE MeldStep(loop[i - 1])
  IN IF row = <<>> THEN [mem |-> m, root |-> NULL]
     ELSE [mem |-> loop[Cardinality(Item)].mem, root |-> loop[Cardinality(Item)].root]

(* find_top: find_prev_top stops before the last root, whatever the keys.  *)
FindTop(m, root) == IF root = NULL THEN NULL ELSE Last(Siblings(m, root))

(* Its loop, which ends before the last root, compares with the node m,    *)
(* the first root, until that comes before another: then m becomes the key *)
(* of the other, and the next turn, if one follows, reads it as a node.    *)
ReadsAKeyAsNode(m, root) ==
  LET row == Siblings(m, root)
  IN \E i \in 2 .. Len(row) - 2 : Less(row[1], row[i])

(* update_top with a node that may be none. *)
UpdatedTop(top, v) == IF top = NULL \/ (v # NULL /\ Less(v, top)) THEN v ELSE top

Inserted(m, root, v) == Meld(NewNode(m, v), root, v)

(* extract_top takes the last root out, and its children join the row.     *)
Extracted(m, root) ==
  LET row == Siblings(m, root)
      out == Last(row)
      kids == Children(m, out)
      freed == FreeNodes(m, {out})
      orphaned == [freed EXCEPT !.parent = [n \in Item |-> IF n \in kids THEN NULL ELSE @[n]]]
      rest == IF Len(row) = 1 THEN orphaned ELSE [orphaned EXCEPT !.sibling[row[Len(row) - 1]] = NULL]
  IN Meld(rest, IF Len(row) = 1 THEN NULL ELSE root, m.child[out])

-----------------------------------------------------------------------------
(* Two items change places, or the item of a node is replaced by one that  *)
(* has no node: in every pointer v stands for w and w for v.               *)
Renaming(v, w, n) == CASE n = v -> w [] n = w -> v [] OTHER -> n

Exchanged(m, v, w) ==
  LET move(f) == [n \in Item |-> Renaming(v, w, f[Renaming(v, w, n)])]
  IN [child |-> move(m.child), sibling |-> move(m.sibling), parent |-> move(m.parent),
      degree |-> [n \in Item |-> m.degree[Renaming(v, w, n)]]]

(* decrease_key: w rises while it comes before its parent.                 *)
DecreaseKey(h, w) ==
  LET above(g) == g.mem.parent[w]
      rises(g) == above(g) # NULL /\ Less(w, above(g))
      loop[i \in 0 .. Cardinality(Item)] ==
        IF i = 0 THEN h
        ELSE LET g == loop[i - 1]
             IN IF ~rises(g) THEN g
                ELSE [g EXCEPT !.mem = Exchanged(g.mem, w, above(g)),
                               !.root = Renaming(w, above(g), g.root),
                               !.top = Renaming(w, above(g), g.top)]
  IN loop[Cardinality(Item)]

(* increase_key: w sinks while a child comes before it, to the place of    *)
(* the first of the least of its children.                                 *)
IncreaseKey(h, w) ==
  LET kids(g) == Siblings(g.mem, g.mem.child[w])
      firsts(g) == {i \in DOMAIN kids(g) : \A j \in DOMAIN kids(g) : ~Less(kids(g)[j], kids(g)[i])}
      least(g) == kids(g)[CHOOSE i \in firsts(g) : \A j \in firsts(g) : i <= j]
      loop[i \in 0 .. Cardinality(Item)] ==
        IF i = 0 THEN h
        ELSE LET g == loop[i - 1]
             IN IF kids(g) = <<>> \/ ~Less(least(g), w) THEN g
                ELSE [g EXCEPT !.mem = Exchanged(g.mem, w, least(g)),
                               !.root = Renaming(w, least(g), g.root),
                               !.top = Renaming(w, least(g), g.top)]
  IN loop[Cardinality(Item)]

(* change_key of the node of v to w in the heap h, a record of its nodes,  *)
(* root and top.                                                           *)
Changed(h, v, w) ==
  LET named == [mem |-> Exchanged(h.mem, v, w), root |-> Renaming(v, w, h.root),
                top |-> Renaming(v, w, h.top)]
      down == DecreaseKey(named, w)
      up == IncreaseKey(named, w)
  IN CASE Less(w, v) -> [down EXCEPT !.top = UpdatedTop(@, w)]
       [] ~Less(w, v) /\ h.top = v -> [up EXCEPT !.top = FindTop(up.mem, up.root)]
       [] ~Less(w, v) /\ h.top # v -> up

(* The roots have no parent, and degree counts the children.               *)
IsHeap(m, root) ==
  /\ ChildrenFollow(m, root)
  /\ \A n \in Range(Siblings(m, root)) : m.parent[n] = NULL
  /\ \A n \in Nodes(m, root) : m.degree[n] = Cardinality(Children(m, n))
=============================================================================
