----------------------------- MODULE BinaryHeap ------------------------------
(***************************************************************************)
(* The binary heap (src/heap.c): an array in which no item comes before    *)
(* its parent.  The array is taken as the sequence module Array shows it   *)
(* to be; index i of the code is position i + 1 here, so the parent of     *)
(* position i is i \div 2 and its children are 2 * i and 2 * i + 1.        *)
(***************************************************************************)
EXTENDS Naturals, SequencesExt

CONSTANT Key   (* Key[v] is what cmp looks at in item v                    *)

Less(v, w) == Key[v] < Key[w]

Exchanged(s, i, j) == [s EXCEPT ![i] = s[j], ![j] = s[i]]

(* One round of the loops of sift_down and sift_up: where they go from i,  *)
(* i itself when they stop.                                                *)
Below(s, i) ==
  LET l == 2 * i
      r == 2 * i + 1
      m == IF l <= Len(s) /\ Less(s[l], s[i]) THEN l ELSE i
  IN IF r <= Len(s) /\ Less(s[r], s[m]) THEN r ELSE m

Above(s, i) == IF i > 1 /\ Less(s[i], s[i \div 2]) THEN i \div 2 ELSE i

(* The sequence after at most n rounds, and where the item is then.        *)
SiftDown(s, i) ==
  LET at[n \in 0 .. Len(s)] ==
        IF n = 0 THEN [seq |-> s, pos |-> i]
        ELSE LET p == at[n - 1]
                 j == Below(p.seq, p.pos)
             IN [seq |-> Exchanged(p.seq, p.pos, j), pos |-> j]
  IN at[Len(s)].seq

SiftUp(s, i) ==
  LET at[n \in 0 .. Len(s)] ==
        IF n = 0 THEN [seq |-> s, pos |-> i]
        ELSE LET p == at[n - 1]
                 j == Above(p.seq, p.pos)
             IN [seq |-> Exchanged(p.seq, p.pos, j), pos |-> j]
  IN at[Len(s)].seq

BuildHeap(s) ==
  LET n == Len(s) \div 2
  IN FoldLeft(SiftDown, s, [k \in 1 .. n |-> n + 1 - k])

Inserted(s, v) == SiftUp(Append(s, v), Len(s) + 1)

(* A mutant: the last item is not put in the place of the top. *)
WithoutLast(s) == IF Len(s) = 1 THEN <<>> ELSE SiftDown(Front(s), 1)

(* The last item takes the place of the top. *)
WithoutTop(s) ==
  IF Len(s) = 1 THEN <<>> ELSE SiftDown([Front(s) EXCEPT ![1] = Last(s)], 1)


Changed(s, i, v) ==
  IF Less(s[i], v) THEN SiftDown([s EXCEPT ![i] = v], i) ELSE SiftUp([s EXCEPT ![i] = v], i)

Merged(s, t) == BuildHeap(s \o t)

IsHeap(s) == \A i \in 2 .. Len(s) : ~Less(s[i], s[i \div 2])
=============================================================================
