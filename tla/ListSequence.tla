---------------------------- MODULE ListSequence -----------------------------
(***************************************************************************)
(* What list.h promises beyond the sequence table: ranges that move        *)
(* between lists, and the operations on a whole list.  Items are ordered   *)
(* by a key; different items may have the same one.  A range is first and  *)
(* what follows up to last, without last: list.h writes (first, last], but *)
(* list.c and the tests move first and leave last.                         *)
(***************************************************************************)
EXTENDS Sequence, Functions

CONSTANT Key   (* Key[v] is what compare and pred look at in item v        *)

InOrder(s) == \A i, j \in DOMAIN s : i < j => Key[s[i]] <= Key[s[j]]

(* The items of two sequences, for items that are nowhere twice. *)
Rearranges(s, t) == Len(s) = Len(t) /\ Range(s) = Range(t)

(* The items of s that are in S, in their order. *)
Keeping(s, S) ==
  LET kept[i \in 0 .. Len(s)] ==
        IF i = 0 THEN <<>> ELSE IF s[i] \in S THEN Append(kept[i - 1], s[i]) ELSE kept[i - 1]
  IN kept[Len(s)]

(* The first item of every group of neighbours with one key, for items     *)
(* that are nowhere twice.                                                 *)
FirstOfGroups(s) ==
  Keeping(s, {s[i] : i \in {j \in DOMAIN s : j = 1 \/ Key[s[j - 1]] # Key[s[j]]}})

(* The items first .. last - 1 of e move before index at of d. *)
Splice(d, at, e, first, last) ==
  LET block == SubSeq(contents[e], first + 1, last)
      rest == [contents EXCEPT ![e] = SubSeq(@, 1, first) \o SubSeq(@, last + 1, Len(@))]
      i == IF d = e /\ at >= last THEN at - Len(block) ELSE at
  IN /\ {d, e} \subseteq exists
     /\ contents' = [rest EXCEPT ![d] = SubSeq(@, 1, i) \o block \o SubSeq(@, i + 1, Len(@))]
     /\ ret' = "OK"
     /\ UNCHANGED exists

(* Two sorted lists become one; which of two equal items comes first is    *)
(* not said.                                                               *)
Merge(a, b) ==
  /\ {a, b} \subseteq exists
  /\ InOrder(contents'[a])
  /\ Rearranges(contents'[a], contents[a] \o contents[b])
  /\ contents' = [contents EXCEPT ![a] = contents'[a], ![b] = <<>>]
  /\ ret' = "OK"
  /\ UNCHANGED exists

Sort(d) ==
  /\ d \in exists
  /\ InOrder(contents'[d])
  /\ Rearranges(contents'[d], contents[d])
  /\ Becomes(d, contents'[d])

EraseIf(d, S) == d \in exists /\ Becomes(d, Keeping(contents[d], Item \ S))

Reversed(d) ==
  LET n == Len(contents[d])
  IN d \in exists /\ Becomes(d, [i \in 1 .. n |-> contents[d][n - i + 1]])

Unique(d) == d \in exists /\ Becomes(d, FirstOfGroups(contents[d]))

ListAnswers(c) ==
  CASE c[1] = "splice" -> Splice(c[2], c[3], c[4], c[5], c[6])
    [] c[1] = "merge" -> Merge(c[2], c[3])
    [] c[1] = "sort" -> Sort(c[2])
    [] c[1] = "erase_if" -> EraseIf(c[2], c[3])
    [] c[1] = "reverse" -> Reversed(c[2])
    [] c[1] = "unique" -> Unique(c[2])
    [] OTHER -> Answers(c)
=============================================================================
