---------------------------- MODULE Foundations -----------------------------
(***************************************************************************)
(* Facts the proofs about the components share: induction and recursion on *)
(* the naturals, in a form that needs no operator as a parameter, and what *)
(* the operations of a sequence table (src/tables/seq-*.c) do to a         *)
(* sequence, index by index: the form in which the proofs on buffers and   *)
(* rings compare it with what memmove does to the slots.                   *)
(***************************************************************************)
EXTENDS SequencesExt, SequenceTheorems, WellFoundedInduction, TLAPS

-----------------------------------------------------------------------------
(* Induction and recursion. *)

(* Every nonempty set of naturals has a least element. *)
LEMMA LeastElement ==
  ASSUME NEW T \in SUBSET Nat, T # {}
  PROVE  \E n \in T : \A m \in T : n <= m
  <1> DEFINE R == OpToRel(<, Nat)
  <1>1. IsWellFoundedOn(R, Nat)
    BY NatLessThanWellFounded, Zenon
  <1> HIDE DEF R
  <1>2. PICK x \in T : \A y \in T : ~ (<<y, x>> \in R)
    BY <1>1, WFMin
  <1>3. \A i, j \in Nat : i < j => <<i, j>> \in R
    BY DEF R, OpToRel
  <1>4. \A y \in T : ~ (y < x)
    BY <1>2, <1>3
  <1> QED
    BY <1>4

(* Induction, over a set that holds what is to be shown of all naturals.   *)
LEMMA Induction ==
  ASSUME NEW S, 0 \in S, \A n \in Nat : n \in S => n + 1 \in S
  PROVE  \A n \in Nat : n \in S
  <1>1. SUFFICES ASSUME Nat \ S # {} PROVE FALSE
    OBVIOUS
  <1>2. PICK n \in Nat \ S : \A m \in Nat \ S : n <= m
    BY <1>1, LeastElement, Nat \ S \in SUBSET Nat
  <1>3. n - 1 \in Nat /\ n - 1 \in S
    BY <1>2
  <1> QED
    BY <1>2, <1>3

(* f obeys a recursion up to n. *)
Obeys(f, b, g, n) == f[0] = b /\ \A i \in 0 .. n - 1 : f[i + 1] = g[<<i, f[i]>>]

LEMMA RecursionUnique ==
  ASSUME NEW b, NEW g, NEW n \in Nat, NEW m \in Nat, m <= n, NEW f, NEW h,
         Obeys(f, b, g, m), Obeys(h, b, g, n)
  PROVE  \A i \in 0 .. m : f[i] = h[i]
  <1> DEFINE S == {i \in Nat : i <= m => f[i] = h[i]}
  <1>1. 0 \in S
    BY DEF Obeys
  <1>2. \A i \in Nat : i \in S => i + 1 \in S
    <2> SUFFICES ASSUME NEW i \in Nat, i \in S, i + 1 <= m PROVE f[i + 1] = h[i + 1]
      OBVIOUS
    <2>1. f[i] = h[i] /\ i \in 0 .. m - 1 /\ i \in 0 .. n - 1
      OBVIOUS
    <2> QED
      BY <2>1 DEF Obeys
  <1> HIDE DEF S
  <1>3. \A i \in Nat : i \in S
    BY <1>1, <1>2, Induction
  <1> QED
    BY <1>3 DEF S

(* g gives the next value of a recursion from its index and its value.     *)
StaysIn(g, S) == \A n \in Nat, x \in S : g[<<n, x>>] \in S

Follows(f, b, g) == f[0] = b /\ \A n \in Nat : f[n + 1] = g[<<n, f[n]>>]

(* A function on the naturals may be defined by recursion. *)
LEMMA Recursion ==
  ASSUME NEW S, NEW b \in S, NEW g, StaysIn(g, S)
  PROVE  \E f \in [Nat -> S] : Follows(f, b, g)
  <1> DEFINE H(n) == {f \in [0 .. n -> S] : Obeys(f, b, g, n)}
             T == {n \in Nat : H(n) # {}}
  <1> USE DEF StaysIn
  <1>1. 0 \in T
    <2>1. [i \in 0 .. 0 |-> b] \in H(0)
      BY DEF Obeys
    <2> QED
      BY <2>1
  <1>2. \A n \in Nat : n \in T => n + 1 \in T
    <2> SUFFICES ASSUME NEW n \in Nat, NEW f \in [0 .. n -> S], Obeys(f, b, g, n) PROVE H(n + 1) # {}
      OBVIOUS
    <2> DEFINE h == [i \in 0 .. n + 1 |-> IF i = n + 1 THEN g[<<n, f[n]>>] ELSE f[i]]
    <2>1. h \in [0 .. n + 1 -> S]
      OBVIOUS
    <2>2. Obeys(h, b, g, n + 1)
      <3>1. h[0] = b
        BY DEF Obeys
      <3>2. ASSUME NEW i \in 0 .. (n + 1) - 1 PROVE h[i + 1] = g[<<i, h[i]>>]
        <4>1. h[i] = f[i]
          OBVIOUS
        <4>2. CASE i = n
          <5>1. h[n + 1] = g[<<n, f[n]>>]
            OBVIOUS
          <5> QED
            BY <5>1, <4>1, <4>2
        <4>3. CASE i # n
          <5>1. i \in 0 .. n - 1
            BY <4>3
          <5> QED
            BY <5>1, <4>1 DEF Obeys
        <4> QED
          BY <4>2, <4>3
      <3> HIDE DEF h
      <3> QED
        BY <3>1, <3>2 DEF Obeys
    <2> HIDE DEF h
    <2> QED
      BY <2>1, <2>2
  <1> HIDE DEF T
  <1>3. \A n \in Nat : n \in T
    BY <1>1, <1>2, Induction
  <1> DEFINE c == [n \in Nat |-> CHOOSE f : f \in H(n)]
             f == [n \in Nat |-> c[n][n]]
  <1>4. \A n \in Nat : c[n] \in [0 .. n -> S] /\ Obeys(c[n], b, g, n)
    BY <1>3 DEF T
  <1> HIDE DEF c
  <1>5. f \in [Nat -> S]
    BY <1>4
  <1>6. f[0] = b
    BY <1>4 DEF Obeys
  <1>7. ASSUME NEW n \in Nat PROVE f[n + 1] = g[<<n, f[n]>>]
    <2>1. c[n + 1][n] = c[n][n]
      <3>1. \A i \in 0 .. n : c[n][i] = c[n + 1][i]
        BY <1>4, RecursionUnique, n + 1 \in Nat, n <= n + 1
      <3> QED
        BY <3>1
    <2>2. c[n + 1][n + 1] = g[<<n, c[n + 1][n]>>]
      BY <1>4, n + 1 \in Nat DEF Obeys
    <2> QED
      BY <2>1, <2>2
  <1> HIDE DEF f
  <1> QED
    BY <1>5, <1>6, <1>7 DEF Follows

(* The same for a function on 0 .. k. *)
LEMMA BoundedRecursion ==
  ASSUME NEW S, NEW b \in S, NEW g, StaysIn(g, S), NEW k \in Nat
  PROVE  \E f \in [0 .. k -> S] : Obeys(f, b, g, k)
  <1>1. PICK h \in [Nat -> S] : Follows(h, b, g)
    BY Recursion
  <1> DEFINE f == [n \in 0 .. k |-> h[n]]
  <1>2. f \in [0 .. k -> S]
    OBVIOUS
  <1>3. f[0] = b /\ \A i \in 0 .. k - 1 : f[i + 1] = g[<<i, f[i]>>]
    BY <1>1 DEF Follows
  <1> QED
    BY <1>2, <1>3 DEF Obeys

-----------------------------------------------------------------------------
(* Sequences. *)

(* Two sequences of items are equal when they are so at each index.        *)
LEMMA SameItems ==
  ASSUME NEW S, NEW s \in Seq(S), NEW n \in Nat, NEW t, t \in [1 .. n -> S],
         Len(s) = n, \A j \in 1 .. n : s[j] = t[j]
  PROVE  s = t
  <1>1. s \in [1 .. n -> S]
    BY LenProperties
  <1> QED
    BY <1>1

(* u is s followed by t. *)
Joined(u, s, t) ==
  /\ Len(u) = Len(s) + Len(t)
  /\ \A i \in 1 .. Len(s) + Len(t) : u[i] = IF i <= Len(s) THEN s[i] ELSE t[i - Len(s)]

LEMMA ConcatJoins ==
  ASSUME NEW S, NEW s \in Seq(S), NEW t \in Seq(S)
  PROVE  s \o t \in Seq(S) /\ Joined(s \o t, s, t)
  BY ConcatProperties DEF Joined

(* A call of two parts, and its arguments. *)
LEMMA Concats ==
  ASSUME NEW f, NEW h, NEW x, NEW y
  PROVE  /\ <<f, h>> \o <<>> = <<f, h>>
         /\ <<f, h>> \o <<x>> = <<f, h, x>>
         /\ <<f, h>> \o <<x, y>> = <<f, h, x, y>>
<1> DEFINE V == {f, h, x, y}
<1>1. /\ <<f, h>> \in Seq(V) /\ <<>> \in Seq(V) /\ <<x>> \in Seq(V) /\ <<x, y>> \in Seq(V)
      /\ <<f, h, x>> \in [1 .. 3 -> V] /\ <<f, h, x, y>> \in [1 .. 4 -> V]
  OBVIOUS
<1> HIDE DEF V
<1>2. <<f, h>> \o <<>> = <<f, h>>
  BY <1>1
<1>3. <<f, h>> \o <<x>> = <<f, h, x>>
  <2>1. PICK s \in Seq(V) : s = <<f, h>> \o <<x>> /\ Joined(s, <<f, h>>, <<x>>)
    BY <1>1, ConcatJoins
  <2>2. Len(s) = 3 /\ s[1] = f /\ s[2] = h /\ s[3] = x
    BY <2>1 DEF Joined
  <2>3. PICK t \in [1 .. 3 -> V] : t = <<f, h, x>>
    BY <1>1
  <2>4. \A j \in 1 .. 3 : s[j] = t[j]
    BY <2>2, <2>3
  <2>5. s = t
    BY <2>2, <2>4, SameItems
  <2> QED
    BY <2>1, <2>3, <2>5
<1>4. <<f, h>> \o <<x, y>> = <<f, h, x, y>>
  <2>1. PICK s \in Seq(V) : s = <<f, h>> \o <<x, y>> /\ Joined(s, <<f, h>>, <<x, y>>)
    BY <1>1, ConcatJoins
  <2>2. Len(s) = 4 /\ s[1] = f /\ s[2] = h /\ s[3] = x /\ s[4] = y
    BY <2>1 DEF Joined
  <2>3. PICK t \in [1 .. 4 -> V] : t = <<f, h, x, y>>
    BY <1>1
  <2>4. \A j \in 1 .. 4 : s[j] = t[j]
    BY <2>2, <2>3
  <2>5. s = t
    BY <2>2, <2>4, SameItems
  <2> QED
    BY <2>1, <2>3, <2>5
<1> QED
  BY <1>2, <1>3, <1>4

(* The item at each index after an insertion and a removal.               *)
LEMMA InsertAtItems ==
  ASSUME NEW S, NEW s \in Seq(S), NEW i \in 0 .. Len(s), NEW v \in S
  PROVE  InsertAt(s, i + 1, v) =
           [j \in 1 .. Len(s) + 1 |-> IF j <= i THEN s[j] ELSE IF j = i + 1 THEN v ELSE s[j - 1]]
  <1> DEFINE n == Len(s)
             a == SubSeq(s, 1, (i + 1) - 1)
             b == SubSeq(s, i + 1, n)
             t == [j \in 1 .. n + 1 |-> IF j <= i THEN s[j] ELSE IF j = i + 1 THEN v ELSE s[j - 1]]
  <1>1. n \in Nat /\ i \in Nat /\ i <= n /\ \A j \in 1 .. n : s[j] \in S
    BY LenProperties
  <1>2. a \in Seq(S) /\ Len(a) = i /\ \A j \in 1 .. i : a[j] = s[j]
    <2>1. (i + 1) - 1 = i
      BY <1>1
    <2>2. /\ SubSeq(s, 1, i) \in Seq(S)
          /\ Len(SubSeq(s, 1, i)) = IF 1 <= i THEN i - 1 + 1 ELSE 0
          /\ \A j \in 1 .. i - 1 + 1 : SubSeq(s, 1, i)[j] = s[1 + j - 1]
      <3>1. \A j \in 1 .. i : s[j] \in S
        BY <1>1
      <3> QED
        BY <1>1, <3>1, SubSeqProperties
    <2> QED
      BY <1>1, <2>1, <2>2
  <1>3. b \in Seq(S) /\ Len(b) = n - i /\ \A j \in 1 .. n - i : b[j] = s[i + j]
    <2>1. \A j \in i + 1 .. n : s[j] \in S
      BY <1>1
    <2>2. /\ b \in Seq(S)
          /\ Len(b) = IF i + 1 <= n THEN n - (i + 1) + 1 ELSE 0
          /\ \A j \in 1 .. n - (i + 1) + 1 : b[j] = s[(i + 1) + j - 1]
      BY <1>1, <2>1, SubSeqProperties
    <2> QED
      BY <1>1, <2>2
  <1>4. <<v>> \in Seq(S) /\ Len(<<v>>) = 1 /\ <<v>>[1] = v
    OBVIOUS
  <1> HIDE DEF a, b
  <1>5. /\ a \o <<v>> \in Seq(S)
        /\ Len(a \o <<v>>) = i + 1
        /\ \A j \in 1 .. i + 1 : (a \o <<v>>)[j] = IF j <= i THEN a[j] ELSE v
    <2>1. /\ a \o <<v>> \in Seq(S)
          /\ Len(a \o <<v>>) = Len(a) + Len(<<v>>)
          /\ \A j \in 1 .. Len(a) + Len(<<v>>) :
               (a \o <<v>>)[j] = IF j <= Len(a) THEN a[j] ELSE <<v>>[j - Len(a)]
      BY <1>2, <1>4, ConcatProperties
    <2> QED
      BY <1>1, <1>2, <1>4, <2>1
  <1>6. /\ (a \o <<v>>) \o b \in Seq(S)
        /\ Len((a \o <<v>>) \o b) = n + 1
        /\ \A j \in 1 .. n + 1 :
             ((a \o <<v>>) \o b)[j] = IF j <= i + 1 THEN (a \o <<v>>)[j] ELSE b[j - (i + 1)]
    <2>1. /\ (a \o <<v>>) \o b \in Seq(S)
          /\ Len((a \o <<v>>) \o b) = Len(a \o <<v>>) + Len(b)
          /\ \A j \in 1 .. Len(a \o <<v>>) + Len(b) :
               ((a \o <<v>>) \o b)[j] = IF j <= Len(a \o <<v>>) THEN (a \o <<v>>)[j]
                                        ELSE b[j - Len(a \o <<v>>)]
      BY <1>3, <1>5, ConcatProperties
    <2> QED
      BY <1>1, <1>3, <1>5, <2>1
  <1>7. InsertAt(s, i + 1, v) = (a \o <<v>>) \o b
    BY DEF InsertAt, a, b
  <1>8. t \in [1 .. n + 1 -> S]
    BY <1>1
  <1>9. ASSUME NEW j \in 1 .. n + 1
        PROVE  ((a \o <<v>>) \o b)[j] = t[j]
    <2>1. t[j] = IF j <= i THEN s[j] ELSE IF j = i + 1 THEN v ELSE s[j - 1]
      OBVIOUS
    <2> HIDE DEF t
    <2>2. CASE j <= i
      <3>1. j \in 1 .. i /\ j \in 1 .. i + 1 /\ j <= i + 1
        BY <1>1, <2>2
      <3> QED
        BY <1>2, <1>5, <1>6, <2>1, <2>2, <3>1
    <2>3. CASE j = i + 1
      <3>1. j \in 1 .. i + 1 /\ j <= i + 1 /\ ~(j <= i)
        BY <1>1, <2>3
      <3> QED
        BY <1>5, <1>6, <2>1, <2>3, <3>1
    <2>4. CASE j > i + 1
      <3>1. /\ j - (i + 1) \in 1 .. n - i /\ i + (j - (i + 1)) = j - 1
            /\ ~(j <= i) /\ j # i + 1 /\ ~(j <= i + 1)
        BY <1>1, <2>4
      <3>2. b[j - (i + 1)] = s[j - 1]
        BY <1>3, <3>1
      <3> QED
        BY <1>6, <2>1, <3>1, <3>2
    <2>5. j <= i \/ j = i + 1 \/ j > i + 1
      BY <1>1
    <2> QED
      BY <2>2, <2>3, <2>4, <2>5, Zenon
  <1>10. n + 1 \in Nat
    BY <1>1
  <1>11. (a \o <<v>>) \o b = t
    <2> HIDE DEF t
    <2> QED
      BY <1>6, <1>8, <1>9, <1>10, SameItems
  <1> QED
    BY <1>7, <1>11

LEMMA RemoveAtItems ==
  ASSUME NEW S, NEW s \in Seq(S), NEW i \in 0 .. Len(s) - 1
  PROVE  RemoveAt(s, i + 1) =
           [j \in 1 .. Len(s) - 1 |-> IF j <= i THEN s[j] ELSE s[j + 1]]
  <1> DEFINE n == Len(s)
             a == SubSeq(s, 1, (i + 1) - 1)
             b == SubSeq(s, (i + 1) + 1, n)
             t == [j \in 1 .. n - 1 |-> IF j <= i THEN s[j] ELSE s[j + 1]]
  <1>1. n \in Nat /\ i \in Nat /\ i < n /\ \A j \in 1 .. n : s[j] \in S
    BY LenProperties
  <1>2. a \in Seq(S) /\ Len(a) = i /\ \A j \in 1 .. i : a[j] = s[j]
    <2>1. (i + 1) - 1 = i
      BY <1>1
    <2>2. /\ SubSeq(s, 1, i) \in Seq(S)
          /\ Len(SubSeq(s, 1, i)) = IF 1 <= i THEN i - 1 + 1 ELSE 0
          /\ \A j \in 1 .. i - 1 + 1 : SubSeq(s, 1, i)[j] = s[1 + j - 1]
      <3>1. \A j \in 1 .. i : s[j] \in S
        BY <1>1
      <3> QED
        BY <1>1, <3>1, SubSeqProperties
    <2> QED
      BY <1>1, <2>1, <2>2
  <1>3. b \in Seq(S) /\ Len(b) = n - i - 1 /\ \A j \in 1 .. n - i - 1 : b[j] = s[i + 1 + j]
    <2>1. \A j \in (i + 1) + 1 .. n : s[j] \in S
      BY <1>1
    <2>2. /\ b \in Seq(S)
          /\ Len(b) = IF (i + 1) + 1 <= n THEN n - ((i + 1) + 1) + 1 ELSE 0
          /\ \A j \in 1 .. n - ((i + 1) + 1) + 1 : b[j] = s[((i + 1) + 1) + j - 1]
      BY <1>1, <2>1, SubSeqProperties
    <2> QED
      BY <1>1, <2>2
  <1> HIDE DEF a, b
  <1>4. /\ a \o b \in Seq(S)
        /\ Len(a \o b) = n - 1
        /\ \A j \in 1 .. n - 1 : (a \o b)[j] = IF j <= i THEN a[j] ELSE b[j - i]
    <2>1. /\ a \o b \in Seq(S)
          /\ Len(a \o b) = Len(a) + Len(b)
          /\ \A j \in 1 .. Len(a) + Len(b) : (a \o b)[j] = IF j <= Len(a) THEN a[j] ELSE b[j - Len(a)]
      BY <1>2, <1>3, ConcatProperties
    <2> QED
      BY <1>1, <1>2, <1>3, <2>1
  <1>5. RemoveAt(s, i + 1) = a \o b
    BY DEF RemoveAt, a, b
  <1>6. t \in [1 .. n - 1 -> S] /\ n - 1 \in Nat
    BY <1>1
  <1>7. ASSUME NEW j \in 1 .. n - 1
        PROVE  (a \o b)[j] = t[j]
    <2>1. t[j] = IF j <= i THEN s[j] ELSE s[j + 1]
      OBVIOUS
    <2> HIDE DEF t
    <2>2. CASE j <= i
      <3>1. j \in 1 .. i
        BY <1>1, <2>2
      <3> QED
        BY <1>2, <1>4, <2>1, <2>2, <3>1
    <2>3. CASE ~(j <= i)
      <3>1. j - i \in 1 .. n - i - 1 /\ i + 1 + (j - i) = j + 1
        BY <1>1, <2>3
      <3>2. b[j - i] = s[j + 1]
        BY <1>3, <3>1
      <3> QED
        BY <1>4, <2>1, <2>3, <3>2
    <2> QED
      BY <2>2, <2>3
  <1>8. a \o b = t
    <2>1. PICK m \in Nat : m = n - 1
      BY <1>6
    <2>2. a \o b \in Seq(S) /\ Len(a \o b) = m
      BY <1>4, <2>1
    <2>3. t \in [1 .. m -> S] /\ \A j \in 1 .. m : (a \o b)[j] = t[j]
      BY <1>6, <1>7, <2>1
    <2> HIDE DEF t
    <2> QED
      BY <2>2, <2>3, SameItems
  <1> QED
    BY <1>5, <1>8

LEMMA AppendItems ==
  ASSUME NEW S, NEW s \in Seq(S), NEW v \in S
  PROVE  Append(s, v) = [j \in 1 .. Len(s) + 1 |-> IF j <= Len(s) THEN s[j] ELSE v]
  <1>1. PICK n \in Nat : n = Len(s)
    BY LenProperties
  <1>2. PICK u \in Seq(S) : u = Append(s, v)
    BY AppendProperties
  <1>3. /\ Len(u) = n + 1
        /\ \A j \in 1 .. n : u[j] = s[j]
        /\ u[n + 1] = v
    BY <1>1, <1>2, AppendProperties
  <1>4. u = [j \in 1 .. n + 1 |-> u[j]]
    BY <1>3, LenProperties
  <1>5. \A j \in 1 .. n + 1 : u[j] = IF j <= n THEN s[j] ELSE v
    BY <1>3
  <1> QED
    BY <1>1, <1>2, <1>4, <1>5

LEMMA PrependItems ==
  ASSUME NEW S, NEW s \in Seq(S), NEW v \in S
  PROVE  /\ <<v>> \o s = [j \in 1 .. Len(s) + 1 |-> IF j = 1 THEN v ELSE s[j - 1]]
         /\ <<v>> \o s \in Seq(S)
  <1>1. PICK n \in Nat : n = Len(s)
    BY LenProperties
  <1>2. PICK w \in Seq(S) : w = <<v>>
    <2>1. <<v>> \in Seq(S)
      OBVIOUS
    <2> QED
      BY <2>1
  <1>3. Len(w) = 1 /\ w[1] = v
    BY <1>2
  <1>4. PICK u \in Seq(S) : u = w \o s
    BY ConcatProperties
  <1>5. /\ Len(u) = n + 1
        /\ \A j \in 1 .. n + 1 : u[j] = IF j <= 1 THEN w[j] ELSE s[j - 1]
    <2>1. Joined(u, w, s)
      BY <1>4, ConcatJoins
    <2> QED
      BY <1>1, <1>3, <2>1 DEF Joined
  <1>6. u = [j \in 1 .. n + 1 |-> u[j]]
    BY <1>5, LenProperties
  <1>7. \A j \in 1 .. n + 1 : u[j] = IF j = 1 THEN v ELSE s[j - 1]
    BY <1>3, <1>5
  <1> QED
    BY <1>1, <1>2, <1>4, <1>6, <1>7

LEMMA FrontItems ==
  ASSUME NEW S, NEW s \in Seq(S), s # <<>>
  PROVE  Front(s) = [j \in 1 .. Len(s) - 1 |-> s[j]] /\ Front(s) \in Seq(S)
  <1>1. PICK n \in Nat : n = Len(s) /\ n > 0
    BY LenProperties, EmptySeq
  <1>2. PICK m \in Nat : m = n - 1
    BY <1>1
  <1>3. \A j \in 1 .. m : s[j] \in S
    BY <1>1, <1>2, LenProperties
  <1>4. PICK u : u = SubSeq(s, 1, m)
    OBVIOUS
  <1>5. /\ u \in Seq(S)
        /\ Len(u) = IF 1 <= m THEN m - 1 + 1 ELSE 0
        /\ \A j \in 1 .. m - 1 + 1 : u[j] = s[1 + j - 1]
    BY <1>3, <1>4, SubSeqProperties
  <1>6. Len(u) = m /\ \A j \in 1 .. m : u[j] = s[j]
    BY <1>5
  <1>7. u = [j \in 1 .. m |-> s[j]]
    BY <1>5, <1>6, LenProperties
  <1> QED
    BY <1>1, <1>2, <1>4, <1>5, <1>7 DEF Front

LEMMA TailItems ==
  ASSUME NEW S, NEW s \in Seq(S), s # <<>>
  PROVE  Tail(s) = [j \in 1 .. Len(s) - 1 |-> s[j + 1]] /\ Tail(s) \in Seq(S)
  <1>1. PICK n \in Nat : n = Len(s) /\ n > 0
    BY LenProperties, EmptySeq
  <1>2. PICK u \in Seq(S) : u = Tail(s)
    BY HeadTailProperties
  <1>3. Len(u) = n - 1 /\ \A j \in 1 .. n - 1 : u[j] = s[j + 1]
    BY <1>1, <1>2, HeadTailProperties
  <1>4. u = [j \in 1 .. n - 1 |-> s[j + 1]]
    BY <1>2, <1>3, LenProperties
  <1> QED
    BY <1>1, <1>2, <1>4

(* The operations of SequencesExt, as Sequence writes them.                *)
LEMMA SequenceOperators ==
  ASSUME NEW s, NEW i \in Int, NEW v
  PROVE  /\ InsertAt(s, i + 1, v) = SubSeq(s, 1, i) \o <<v>> \o SubSeq(s, i + 1, Len(s))
         /\ RemoveAt(s, i + 1) = SubSeq(s, 1, i) \o SubSeq(s, i + 2, Len(s))
         /\ ReplaceAt(s, i + 1, v) = [s EXCEPT ![i + 1] = v]
         /\ Front(s) = SubSeq(s, 1, Len(s) - 1)
  <1>1. PICK j, m, n : j = (i + 1) - 1 /\ m = (i + 1) + 1 /\ n = i + 2
    OBVIOUS
  <1>2. j = i /\ m = n
    BY <1>1
  <1>3. InsertAt(s, i + 1, v) = SubSeq(s, 1, j) \o <<v>> \o SubSeq(s, i + 1, Len(s))
    BY <1>1, Zenon DEF InsertAt
  <1>4. RemoveAt(s, i + 1) = SubSeq(s, 1, j) \o SubSeq(s, m, Len(s))
    BY <1>1, Zenon DEF RemoveAt
  <1>5. RemoveAt(s, i + 1) = SubSeq(s, 1, i) \o SubSeq(s, i + 2, Len(s))
    BY <1>1, <1>2, <1>4, Zenon
  <1> QED
    BY <1>2, <1>3, <1>5, Zenon DEF ReplaceAt, Front
=============================================================================
