------------------------------ MODULE ListProofs ------------------------------
(***************************************************************************)
(* Proofs about List.  At holds the lists C when the links of every        *)
(* list's nodes are those of its sequence; each operation is shown to take *)
(* a memory that holds some lists to one that holds the lists the sequence *)
(* table says.                                                             *)
(***************************************************************************)
EXTENDS List, Foundations, FiniteSetTheorems

-----------------------------------------------------------------------------
(* Chains. *)

(* The node at a place of a sequence, NULL outside of it. *)
At(c, i) == IF i \in 1 .. Len(c) THEN c[i] ELSE NULL

(* What head, tail and the links inside a list point at. *)
Place == Item \cup {NULL}

Nodes(c) == {c[i] : i \in 1 .. Len(c)}

Distinct(c) == \A i, j \in 1 .. Len(c) : c[i] = c[j] => i = j

(* The fields of a memory, as operators: what is proved from them need not *)
(* look at how a memory is put together.                                   *)
NextOf(s, n) == s.next[n]
PrevOf(s, n) == s.prev[n]
HeadOf(s, d) == s.head[d]
TailOf(s, d) == s.tail[d]
SizeOf(s, d) == s.size[d]

(* The nodes c, in this order, are a chain with the ends h and t. *)
Chained(s, c, h, t) ==
  /\ h = At(c, 1)
  /\ t = At(c, Len(c))
  /\ \A i \in 1 .. Len(c) : NextOf(s, c[i]) = At(c, i + 1) /\ PrevOf(s, c[i]) = At(c, i - 1)

LEMMA AtTypes ==
  ASSUME NEW c \in Seq(Item), NEW i \in Int
  PROVE  /\ At(c, i) \in Place
         /\ At(c, i) = NULL <=> ~ (1 <= i /\ i <= Len(c))
         /\ 1 <= i /\ i <= Len(c) => At(c, i) = c[i] /\ c[i] \in Item /\ i \in 1 .. Len(c)
         /\ At(c, i) \in Nodes(c) \/ At(c, i) = NULL
  <1>1. Len(c) \in Nat /\ \A j \in 1 .. Len(c) : c[j] \in Item /\ c[j] \in Nodes(c)
    BY DEF Nodes
  <1>2. i \in 1 .. Len(c) <=> 1 <= i /\ i <= Len(c)
    BY <1>1
  <1> QED
    BY <1>1, <1>2, NodesAssumption DEF At, Place

LEMMA CardinalityNat == Cardinality(Item) \in Nat
  BY NodesAssumption, FS_CardinalityType

LEMMA IntervalLength ==
  ASSUME NEW n \in Nat
  PROVE  IsFiniteSet(1 .. n) /\ Cardinality(1 .. n) = n
  BY FS_Interval

(* A sequence of different items has at most as many as there are. *)
LEMMA DistinctBound ==
  ASSUME NEW c \in Seq(Item), Distinct(c)
  PROVE  Len(c) <= Cardinality(Item)
  <1>1. IsFiniteSet(1 .. Len(c)) /\ Cardinality(1 .. Len(c)) = Len(c)
    BY IntervalLength
  <1>2. c \in [1 .. Len(c) -> Item] /\ \A i, j \in 1 .. Len(c) : c[i] = c[j] => i = j
    BY DEF Distinct
  <1>3. c \in Injection(1 .. Len(c), Item)
    BY <1>2 DEF Injection, IsInjective
  <1>4. Cardinality(1 .. Len(c)) <= Cardinality(Item)
    BY <1>3, NodesAssumption, FS_Injection
  <1> QED
    BY <1>1, <1>4

(* The walk along links that follow c is c. *)
LEMMA ChainIs ==
  ASSUME NEW link \in [Item -> Link], NEW c \in Seq(Item), Distinct(c),
         \A i \in 1 .. Len(c) : link[c[i]] = At(c, i + 1)
  PROVE  Chain(link, At(c, 1)) = c
  <1> DEFINE N == Cardinality(Item) + 1
             body(f) == [i \in 1 .. N |-> IF i = 1 THEN At(c, 1) ELSE Follow(link, f[i - 1])]
             w == [i \in 1 .. N |-> At(c, i)]
             at == CHOOSE f : f = body(f)
  <1>1. N \in Nat /\ Len(c) \in Nat /\ Len(c) < N /\ \A i \in 1 .. Len(c) : c[i] \in Item
    BY DistinctBound, CardinalityNat
  <1>2. w = body(w)
    <2> SUFFICES ASSUME NEW i \in 1 .. N, i # 1 PROVE At(c, i) = Follow(link, w[i - 1])
      BY Zenon
    <2>1. w[i - 1] = At(c, i - 1) /\ (i - 1) + 1 = i
      BY <1>1
    <2>2. CASE i - 1 <= Len(c)
      <3>1. i - 1 \in 1 .. Len(c)
        BY <1>1, <2>2
      <3> QED
        BY <1>1, <2>1, <3>1 DEF At, Follow
    <2>3. CASE ~ (i - 1 <= Len(c))
      <3>1. At(c, i - 1) = NULL /\ At(c, i) = NULL
        BY <1>1, <2>3 DEF At
      <3> QED
        BY <2>1, <3>1, NodesAssumption DEF Follow
    <2> QED
      BY <2>2, <2>3
  <1>3. at = body(at)
    BY <1>2, Zenon
  <1> HIDE DEF at
  <1>4. at = w
    <2> DEFINE S == {i \in Nat : i + 1 <= N => at[i + 1] = w[i + 1]}
    <2>1. 0 \in S
      BY <1>1, <1>3
    <2> HIDE DEF w, N
    <2>2. \A i \in Nat : i \in S => i + 1 \in S
      <3> SUFFICES ASSUME NEW i \in Nat, i \in S, (i + 1) + 1 <= N PROVE at[(i + 1) + 1] = w[(i + 1) + 1]
        OBVIOUS
      <3> DEFINE j == (i + 1) + 1
      <3>1. at[i + 1] = w[i + 1] /\ j \in 1 .. N /\ j # 1 /\ j - 1 = i + 1
        BY <1>1
      <3> HIDE DEF j
      <3>2. at[j] = Follow(link, at[j - 1])
        BY <1>3, <3>1
      <3>3. w[j] = Follow(link, w[j - 1])
        BY <1>2, <3>1
      <3> QED
        BY <3>1, <3>2, <3>3 DEF j
    <2> HIDE DEF S
    <2>3. \A i \in Nat : i \in S
      BY <2>1, <2>2, Induction
    <2>4. ASSUME NEW i \in 1 .. N PROVE at[i] = w[i]
      <3>1. i - 1 \in S /\ (i - 1) + 1 = i /\ i <= N
        BY <1>1, <2>3
      <3> QED
        BY <3>1 DEF S
    <2>5. at = [i \in 1 .. N |-> at[i]]
      BY <1>3
    <2> QED
      BY <2>4, <2>5 DEF w
  <1>5. {i \in 1 .. N : at[i] \in Item} = 1 .. Len(c)
    BY <1>1, <1>4, NodesAssumption DEF At
  <1>6. Cardinality({i \in 1 .. N : at[i] \in Item}) = Len(c)
    <2> HIDE DEF N, w
    <2> QED
      BY <1>1, <1>5, IntervalLength
  <1>7. Chain(link, At(c, 1)) = SubSeq(at, 1, Len(c))
    BY <1>6 DEF Chain, at
  <1>8. SubSeq(at, 1, Len(c)) = [i \in 1 .. Len(c) |-> c[i]]
    BY <1>1, <1>4 DEF At
  <1> QED
    BY <1>7, <1>8

-----------------------------------------------------------------------------
(* A memory that holds lists. *)

(* s holds the lists C; the nodes of L are allocated and in no list.       *)
Holds(s, C, L) ==
  /\ s \in Mem
  /\ C \in [Handle -> Seq(Item)]
  /\ L \subseteq Item
  /\ \A d \in Handle : Chained(s, C[d], HeadOf(s, d), TailOf(s, d))
  /\ \A d \in Handle : Distinct(C[d]) /\ Nodes(C[d]) \cap L = {}
  /\ \A d, e \in Handle : d # e => Nodes(C[d]) \cap Nodes(C[e]) = {}
  /\ \A n \in Item : NextOf(s, n) # Junk <=> n \in L \/ \E d \in Handle : n \in Nodes(C[d])

Sized(s, C) == \A d \in Handle : SizeOf(s, d) = Len(C[d])

LEMMA NodesAreItems ==
  ASSUME NEW c \in Seq(Item)
  PROVE  Nodes(c) \subseteq Item /\ Range(c) = Nodes(c)
  BY LenProperties DEF Nodes, Range

LEMMA ReverseItems ==
  ASSUME NEW S, NEW c \in Seq(S)
  PROVE  /\ Reverse(c) \in Seq(S)
         /\ Len(Reverse(c)) = Len(c)
         /\ \A i \in 1 .. Len(c) : Reverse(c)[i] = c[Len(c) - i + 1]
  BY DEF Reverse

LEMMA ReverseChained ==
  ASSUME NEW c \in Seq(Item), Distinct(c), NEW s, NEW h, NEW t, Chained(s, c, h, t)
  PROVE  /\ Distinct(Reverse(c))
         /\ t = At(Reverse(c), 1)
         /\ h = At(Reverse(c), Len(c))
         /\ \A i \in 1 .. Len(c) : /\ PrevOf(s, Reverse(c)[i]) = At(Reverse(c), i + 1)
                                  /\ NextOf(s, Reverse(c)[i]) = At(Reverse(c), i - 1)
  <1> DEFINE r == Reverse(c)
             n == Len(c)
  <1>1. r \in Seq(Item) /\ Len(r) = n /\ \A i \in 1 .. n : r[i] = c[n - i + 1]
    BY ReverseItems
  <1>2. n \in Nat
    OBVIOUS
  <1> HIDE DEF r
  <1>3. \A i \in Int : At(r, i) = At(c, n - i + 1)
    BY <1>1, <1>2 DEF At
  <1>4. Distinct(r)
    <2> SUFFICES ASSUME NEW i \in 1 .. n, NEW j \in 1 .. n, r[i] = r[j] PROVE i = j
      BY <1>1 DEF Distinct
    <2>1. n - i + 1 \in 1 .. n /\ n - j + 1 \in 1 .. n /\ c[n - i + 1] = c[n - j + 1]
      BY <1>1, <1>2
    <2>2. n - i + 1 = n - j + 1
      BY <2>1 DEF Distinct
    <2> QED
      BY <1>2, <2>2
  <1>5. t = At(r, 1) /\ h = At(r, n)
    <2>1. At(r, 1) = At(c, n - 1 + 1) /\ At(r, n) = At(c, n - n + 1)
      BY <1>2, <1>3
    <2> QED
      BY <1>2, <2>1 DEF Chained
  <1>6. ASSUME NEW i \in 1 .. n
        PROVE  PrevOf(s, r[i]) = At(r, i + 1) /\ NextOf(s, r[i]) = At(r, i - 1)
    <2> DEFINE j == n - i + 1
    <2>1. j \in 1 .. n /\ r[i] = c[j] /\ n - (i + 1) + 1 = j - 1 /\ n - (i - 1) + 1 = j + 1
      BY <1>1, <1>2
    <2>2. At(r, i + 1) = At(c, n - (i + 1) + 1) /\ At(r, i - 1) = At(c, n - (i - 1) + 1)
      BY <1>2, <1>3
    <2> HIDE DEF j
    <2> QED
      BY <2>1, <2>2 DEF Chained
  <1> QED
    BY <1>4, <1>5, <1>6 DEF r

LEMMA MemFields ==
  ASSUME NEW s \in Mem
  PROVE  /\ s.next \in [Item -> Link] /\ s.prev \in [Item -> Link]
         /\ s.head \in [Handle -> Item \cup {NULL}] /\ s.tail \in [Handle -> Item \cup {NULL}]
         /\ s.size \in [Handle -> Nat]
  BY DEF Mem

(* The walks find the lists the memory holds.                              *)
LEMMA ForwardIs ==
  ASSUME NEW s, NEW C, NEW L, Holds(s, C, L), NEW d \in Handle
  PROVE  Forward(s, d) = C[d] /\ Backward(s, d) = Reverse(C[d])
  <1> DEFINE c == C[d]
  <1>1. s \in Mem /\ c \in Seq(Item) /\ Distinct(c) /\ Chained(s, c, HeadOf(s, d), TailOf(s, d))
    BY DEF Holds
  <1> HIDE DEF c
  <1>2. s.next \in [Item -> Link] /\ s.prev \in [Item -> Link]
    BY <1>1, MemFields
  <1>3. Forward(s, d) = c
    <2>1. s.head[d] = At(c, 1) /\ \A i \in 1 .. Len(c) : s.next[c[i]] = At(c, i + 1)
      BY <1>1 DEF Chained, HeadOf, NextOf
    <2>2. Chain(s.next, At(c, 1)) = c
      BY <1>1, <1>2, <2>1, ChainIs
    <2> QED
      BY <2>1, <2>2 DEF Forward
  <1>4. Backward(s, d) = Reverse(c)
    <2> DEFINE r == Reverse(c)
    <2>1. r \in Seq(Item) /\ Len(r) = Len(c)
      BY <1>1, ReverseItems
    <2>2. Distinct(r) /\ s.tail[d] = At(r, 1) /\ \A i \in 1 .. Len(c) : s.prev[r[i]] = At(r, i + 1)
      BY <1>1, ReverseChained DEF TailOf, PrevOf
    <2> HIDE DEF r
    <2>3. Chain(s.prev, At(r, 1)) = r
      BY <1>2, <2>1, <2>2, ChainIs
    <2> QED
      BY <2>2, <2>3 DEF Backward, r
  <1> QED
    BY <1>3, <1>4 DEF c

(* s2 is s with the list d, which was c, made c2; the loose nodes, which   *)
(* were L, are L2; nothing else changed.                                   *)
Remade(s, s2, d, c, L, c2, L2) ==
  /\ s2 \in Mem
  /\ c2 \in Seq(Item) /\ Distinct(c2)
  /\ L2 \subseteq Item /\ Nodes(c2) \cap L2 = {}
  /\ Chained(s2, c2, HeadOf(s2, d), TailOf(s2, d))
  /\ \A e \in Handle \ {d} : HeadOf(s2, e) = HeadOf(s, e) /\ TailOf(s2, e) = TailOf(s, e)
  /\ \A n \in Item : n \notin Nodes(c) \cup L \cup Nodes(c2) \cup L2 =>
                    NextOf(s2, n) = NextOf(s, n) /\ PrevOf(s2, n) = PrevOf(s, n)
  /\ \A n \in Nodes(c2) \cup L2 : n \in Nodes(c) \cup L \/ NextOf(s, n) = Junk
  /\ \A n \in Nodes(c) \cup L : n \in Nodes(c2) \cup L2 \/ NextOf(s2, n) = Junk
  /\ \A n \in L2 : NextOf(s2, n) # Junk

LEMMA ChainedAllocated ==
  ASSUME NEW s, NEW c \in Seq(Item), NEW h, NEW t, Chained(s, c, h, t), NEW n \in Nodes(c)
  PROVE  NextOf(s, n) # Junk /\ n \in Item
  <1>1. PICK i \in 1 .. Len(c) : n = c[i]
    BY DEF Nodes
  <1>2. NextOf(s, n) = At(c, i + 1)
    BY <1>1 DEF Chained
  <1>3. At(c, i + 1) \in Item \cup {NULL}
    BY DEF At
  <1> QED
    BY <1>1, <1>2, <1>3, NodesAssumption

LEMMA HoldsAfter ==
  ASSUME NEW s, NEW C, NEW L, Holds(s, C, L), NEW d \in Handle,
         NEW s2, NEW c2, NEW L2, Remade(s, s2, d, C[d], L, c2, L2)
  PROVE  Holds(s2, [C EXCEPT ![d] = c2], L2)
  <1> DEFINE D == [C EXCEPT ![d] = c2]
  <1>1. D \in [Handle -> Seq(Item)] /\ D[d] = c2 /\ \A e \in Handle \ {d} : D[e] = C[e]
    BY DEF Holds, Remade
  <1> HIDE DEF D
  <1>2. ASSUME NEW e \in Handle \ {d}, NEW n \in Nodes(C[e])
        PROVE  /\ n \in Item /\ n \notin Nodes(C[d]) /\ n \notin L /\ n \notin Nodes(c2) /\ n \notin L2
               /\ NextOf(s2, n) = NextOf(s, n) /\ PrevOf(s2, n) = PrevOf(s, n)
    <2>1. n \notin Nodes(C[d]) /\ n \notin L
      BY DEF Holds
    <2>2. n \in Item /\ NextOf(s, n) # Junk
      BY ChainedAllocated DEF Holds
    <2>3. n \notin Nodes(c2) /\ n \notin L2
      BY <2>1, <2>2 DEF Remade
    <2> QED
      BY <2>1, <2>2, <2>3 DEF Remade
  <1>3. ASSUME NEW e \in Handle PROVE Chained(s2, D[e], HeadOf(s2, e), TailOf(s2, e))
    <2>1. CASE e = d
      BY <1>1, <2>1 DEF Remade
    <2>2. CASE e # d
      <3>1. Chained(s, C[e], HeadOf(s, e), TailOf(s, e)) /\ C[e] \in Seq(Item)
        BY DEF Holds
      <3>2. HeadOf(s2, e) = HeadOf(s, e) /\ TailOf(s2, e) = TailOf(s, e)
        BY <2>2 DEF Remade
      <3>3. \A i \in 1 .. Len(C[e]) : NextOf(s2, C[e][i]) = NextOf(s, C[e][i]) /\ PrevOf(s2, C[e][i]) = PrevOf(s, C[e][i])
        BY <1>2, <2>2 DEF Nodes
      <3> QED
        BY <1>1, <2>2, <3>1, <3>2, <3>3 DEF Chained
    <2> QED
      BY <2>1, <2>2
  <1>4. ASSUME NEW e \in Handle PROVE Distinct(D[e]) /\ Nodes(D[e]) \cap L2 = {}
    <2>1. CASE e = d
      BY <1>1, <2>1 DEF Remade
    <2>2. CASE e # d
      BY <1>1, <1>2, <2>2 DEF Holds
    <2> QED
      BY <2>1, <2>2
  <1>5. ASSUME NEW e \in Handle, NEW f \in Handle, e # f PROVE Nodes(D[e]) \cap Nodes(D[f]) = {}
    <2>1. CASE e = d
      BY <1>1, <1>2, <1>5, <2>1
    <2>2. CASE f = d
      BY <1>1, <1>2, <1>5, <2>2
    <2>3. CASE e # d /\ f # d
      BY <1>1, <1>5, <2>3 DEF Holds
    <2> QED
      BY <2>1, <2>2, <2>3
  <1>6. ASSUME NEW n \in Item
        PROVE  NextOf(s2, n) # Junk <=> n \in L2 \/ \E e \in Handle : n \in Nodes(D[e])
    <2>1. CASE n \in L2
      BY <2>1 DEF Remade
    <2>2. CASE n \in Nodes(c2)
      <3>1. NextOf(s2, n) # Junk
        BY <2>2, ChainedAllocated DEF Remade
      <3> QED
        BY <1>1, <2>2, <3>1
    <2>3. CASE n \notin L2 /\ n \notin Nodes(c2) /\ n \in Nodes(C[d]) \cup L
      <3>1. NextOf(s2, n) = Junk
        BY <2>3 DEF Remade
      <3>2. \A e \in Handle \ {d} : n \notin Nodes(C[e])
        BY <1>2, <2>3
      <3> QED
        BY <1>1, <2>3, <3>1, <3>2
    <2>4. CASE n \notin L2 /\ n \notin Nodes(c2) /\ n \notin Nodes(C[d]) \cup L
      <3>1. NextOf(s2, n) = NextOf(s, n)
        BY <2>4 DEF Remade
      <3>2. NextOf(s, n) # Junk <=> \E e \in Handle \ {d} : n \in Nodes(C[e])
        BY <2>4 DEF Holds
      <3> QED
        BY <1>1, <2>4, <3>1, <3>2
    <2> QED
      BY <2>1, <2>2, <2>3, <2>4
  <1> QED
    BY <1>1, <1>3, <1>4, <1>5, <1>6 DEF Holds, Remade, D

-----------------------------------------------------------------------------
(* A chain y is put into the list c after its first i nodes. *)

(* What a list is by itself, and the loose nodes beside it.                *)
ListIs(s, d, c, L) ==
  /\ s \in Mem
  /\ c \in Seq(Item) /\ Distinct(c)
  /\ L \subseteq Item /\ Nodes(c) \cap L = {}
  /\ Chained(s, c, HeadOf(s, d), TailOf(s, d))
  /\ \A n \in L : NextOf(s, n) # Junk

LEMMA HeldList ==
  ASSUME NEW s, NEW C, NEW L, Holds(s, C, L), NEW d \in Handle
  PROVE  ListIs(s, d, C[d], L)
  BY DEF Holds, ListIs

WithBlock(c, i, y, c2) ==
  /\ c2 \in Seq(Item)
  /\ Len(c2) = Len(c) + Len(y)
  /\ \A j \in 1 .. Len(c) + Len(y) :
       c2[j] = IF j <= i THEN c[j] ELSE IF j <= i + Len(y) THEN y[j - i] ELSE c[j - Len(y)]

(* Neighbours in y are linked. *)
Inner(s, y) == \A i \in 1 .. Len(y) - 1 : NextOf(s, y[i]) = y[i + 1] /\ PrevOf(s, y[i + 1]) = y[i]

Woven(s, s2, d, c, i, y) ==
  /\ s2 \in Mem
  /\ \A n \in Item : NextOf(s2, n) = IF n = At(c, i) THEN y[1]
                                 ELSE IF n = y[Len(y)] THEN At(c, i + 1) ELSE NextOf(s, n)
  /\ \A n \in Item : PrevOf(s2, n) = IF n = At(c, i + 1) THEN y[Len(y)]
                                 ELSE IF n = y[1] THEN At(c, i) ELSE PrevOf(s, n)
  /\ HeadOf(s2, d) = IF i = 0 THEN y[1] ELSE HeadOf(s, d)
  /\ TailOf(s2, d) = IF i = Len(c) THEN y[Len(y)] ELSE TailOf(s, d)
  /\ \A e \in Handle \ {d} : HeadOf(s2, e) = HeadOf(s, e) /\ TailOf(s2, e) = TailOf(s, e)

LEMMA WithBlockNodes ==
  ASSUME NEW c \in Seq(Item), Distinct(c), NEW i \in 0 .. Len(c), NEW y \in Seq(Item), Distinct(y),
         Nodes(y) \cap Nodes(c) = {}, NEW c2, WithBlock(c, i, y, c2)
  PROVE  Distinct(c2) /\ Nodes(c2) = Nodes(c) \cup Nodes(y)
  <1> DEFINE n == Len(c)
             m == Len(y)
  <1>1. n \in Nat /\ m \in Nat /\ i \in Nat /\ i <= n
    OBVIOUS
  <1>2. /\ c2 \in Seq(Item) /\ Len(c2) = n + m
        /\ \A j \in 1 .. n + m : c2[j] = IF j <= i THEN c[j] ELSE IF j <= i + m THEN y[j - i] ELSE c[j - m]
    BY DEF WithBlock
  <1> HIDE DEF n, m
  <1>3. \A j \in 1 .. n, k \in 1 .. m : c[j] # y[k]
    BY DEF Nodes, n, m
  <1>4. Distinct(c2)
    <2> SUFFICES ASSUME NEW j \in 1 .. n + m, NEW k \in 1 .. n + m, c2[j] = c2[k] PROVE j = k
      BY <1>2 DEF Distinct
    <2>1. /\ \A a, b \in 1 .. n : c[a] = c[b] => a = b
          /\ \A a, b \in 1 .. m : y[a] = y[b] => a = b
      BY DEF Distinct, n, m
    <2> DEFINE part(a) == IF a <= i THEN 1 ELSE IF a <= i + m THEN 2 ELSE 3
    <2>2. /\ \A a \in 1 .. n + m : a <= i => a \in 1 .. n /\ c2[a] = c[a]
          /\ \A a \in 1 .. n + m : ~ (a <= i) /\ a <= i + m => a - i \in 1 .. m /\ c2[a] = y[a - i]
          /\ \A a \in 1 .. n + m : ~ (a <= i) /\ ~ (a <= i + m) => a - m \in 1 .. n /\ c2[a] = c[a - m]
      BY <1>1, <1>2
    <2> QED
      BY <1>1, <1>3, <2>1, <2>2
  <1>5. Nodes(c2) \subseteq Nodes(c) \cup Nodes(y)
    <2> SUFFICES ASSUME NEW j \in 1 .. n + m PROVE c2[j] \in Nodes(c) \cup Nodes(y)
      BY <1>2 DEF Nodes
    <2>1. j <= i => j \in 1 .. n /\ c2[j] = c[j]
      BY <1>1, <1>2
    <2>2. ~ (j <= i) /\ j <= i + m => j - i \in 1 .. m /\ c2[j] = y[j - i]
      BY <1>1, <1>2
    <2>3. ~ (j <= i) /\ ~ (j <= i + m) => j - m \in 1 .. n /\ c2[j] = c[j - m]
      BY <1>1, <1>2
    <2> QED
      BY <2>1, <2>2, <2>3 DEF Nodes, n, m
  <1>6. ASSUME NEW j \in 1 .. n PROVE c[j] \in Nodes(c2)
    <2>1. CASE j <= i
      <3>1. j \in 1 .. n + m /\ c2[j] = c[j]
        BY <1>1, <1>2, <2>1
      <3> QED
        BY <1>2, <3>1 DEF Nodes
    <2>2. CASE ~ (j <= i)
      <3>1. j + m \in 1 .. n + m /\ ~ (j + m <= i) /\ ~ (j + m <= i + m) /\ (j + m) - m = j
        BY <1>1, <2>2
      <3>2. c2[j + m] = c[j]
        BY <1>2, <3>1
      <3> QED
        BY <1>2, <3>1, <3>2 DEF Nodes
    <2> QED
      BY <2>1, <2>2
  <1>7. ASSUME NEW j \in 1 .. m PROVE y[j] \in Nodes(c2)
    <2>1. j + i \in 1 .. n + m /\ ~ (j + i <= i) /\ j + i <= i + m /\ (j + i) - i = j
      BY <1>1
    <2>2. c2[j + i] = y[j]
      BY <1>2, <2>1
    <2> QED
      BY <1>2, <2>1, <2>2 DEF Nodes
  <1> QED
    BY <1>4, <1>5, <1>6, <1>7 DEF Nodes, n, m

LEMMA Weave ==
  ASSUME NEW s, NEW d, NEW c, NEW L, ListIs(s, d, c, L), NEW i \in 0 .. Len(c),
         NEW y \in Seq(Item), Distinct(y), y # <<>>, Nodes(y) \cap Nodes(c) = {}, Inner(s, y),
         \A n \in Nodes(y) : n \in L \/ NextOf(s, n) = Junk,
         NEW c2, WithBlock(c, i, y, c2), NEW s2, Woven(s, s2, d, c, i, y)
  PROVE  Remade(s, s2, d, c, L, c2, L \ Nodes(y))
  <1> DEFINE n == Len(c)
             m == Len(y)
  <1>1. /\ n \in Nat /\ m \in Nat /\ m >= 1 /\ i \in Nat /\ i <= n /\ c \in Seq(Item) /\ Distinct(c)
        /\ \A j \in 1 .. n : c[j] \in Item
        /\ \A j \in 1 .. m : y[j] \in Item
    BY EmptySeq DEF ListIs
  <1>2. Distinct(c2) /\ Nodes(c2) = Nodes(c) \cup Nodes(y)
    BY <1>1, WithBlockNodes
  <1>3. /\ c2 \in Seq(Item) /\ Len(c2) = n + m
        /\ \A j \in 1 .. n + m : c2[j] = IF j <= i THEN c[j] ELSE IF j <= i + m THEN y[j - i] ELSE c[j - m]
    BY DEF WithBlock
  <1> HIDE DEF n, m
  <1>4. /\ \A j \in 1 .. n, k \in 1 .. m : c[j] # y[k]
        /\ \A j, k \in 1 .. n : c[j] = c[k] => j = k
        /\ \A j, k \in 1 .. m : y[j] = y[k] => j = k
    <2>1. \A j \in 1 .. n, k \in 1 .. m : c[j] # y[k]
      BY DEF Nodes, n, m
    <2> QED
      BY <1>1, <2>1 DEF Distinct, n, m
  <1>5. /\ \A j \in Int : At(c, j) = IF 1 <= j /\ j <= n THEN c[j] ELSE NULL
        /\ \A j \in Int : At(c2, j) = IF j <= i THEN At(c, j)
                                      ELSE IF j <= i + m THEN y[j - i] ELSE At(c, j - m)
    <2>1. \A j \in Int : At(c, j) = IF 1 <= j /\ j <= n THEN c[j] ELSE NULL
      BY <1>1 DEF At, n
    <2>2. \A j \in Int : At(c2, j) = IF 1 <= j /\ j <= n + m THEN c2[j] ELSE NULL
      BY <1>1, <1>3 DEF At
    <2>3. ASSUME NEW j \in Int, 1 <= j /\ j <= n + m
          PROVE  c2[j] = IF j <= i THEN At(c, j) ELSE IF j <= i + m THEN y[j - i] ELSE At(c, j - m)
      <3>1. c2[j] = IF j <= i THEN c[j] ELSE IF j <= i + m THEN y[j - i] ELSE c[j - m]
        <4>1. j \in 1 .. n + m
          BY <1>1, <2>3
        <4> QED
          BY <1>3, <4>1
      <3>2. (j <= i => At(c, j) = c[j]) /\ (~ (j <= i) /\ ~ (j <= i + m) => At(c, j - m) = c[j - m])
        BY <1>1, <2>1, <2>3
      <3> QED
        BY <3>1, <3>2
    <2>4. ASSUME NEW j \in Int, ~ (1 <= j /\ j <= n + m)
          PROVE  NULL = IF j <= i THEN At(c, j) ELSE IF j <= i + m THEN y[j - i] ELSE At(c, j - m)
      BY <1>1, <2>1, <2>4
    <2> QED
      BY <2>1, <2>2, <2>3, <2>4
  <1>6. /\ HeadOf(s, d) = At(c, 1) /\ TailOf(s, d) = At(c, n)
        /\ \A j \in 1 .. n : NextOf(s, c[j]) = At(c, j + 1) /\ PrevOf(s, c[j]) = At(c, j - 1)
    BY DEF ListIs, Chained, n
  <1>7. /\ s2 \in Mem
        /\ \A x \in Item : NextOf(s2, x) = IF x = At(c, i) THEN y[1]
                                       ELSE IF x = y[m] THEN At(c, i + 1) ELSE NextOf(s, x)
        /\ \A x \in Item : PrevOf(s2, x) = IF x = At(c, i + 1) THEN y[m]
                                       ELSE IF x = y[1] THEN At(c, i) ELSE PrevOf(s, x)
        /\ HeadOf(s2, d) = IF i = 0 THEN y[1] ELSE HeadOf(s, d)
        /\ TailOf(s2, d) = IF i = n THEN y[m] ELSE TailOf(s, d)
        /\ \A e \in Handle \ {d} : HeadOf(s2, e) = HeadOf(s, e) /\ TailOf(s2, e) = TailOf(s, e)
    BY DEF Woven, n, m
  <1>8. \A j \in 1 .. m - 1 : NextOf(s, y[j]) = y[j + 1] /\ PrevOf(s, y[j + 1]) = y[j]
    BY DEF Inner, m
  <1>12. ASSUME NEW j \in 1 .. n
         PROVE  /\ NextOf(s2, c[j]) = IF j = i THEN y[1] ELSE At(c, j + 1)
                /\ PrevOf(s2, c[j]) = IF j = i + 1 THEN y[m] ELSE At(c, j - 1)
    <2>1. /\ (c[j] = At(c, i) <=> j = i) /\ (c[j] = At(c, i + 1) <=> j = i + 1)
          /\ c[j] # y[1] /\ c[j] # y[m] /\ c[j] \in Item
      BY <1>1, <1>4, <1>5, NodesAssumption
    <2> QED
      BY <1>6, <1>7, <2>1
  <1>13. ASSUME NEW k \in 1 .. m
         PROVE  /\ NextOf(s2, y[k]) = IF k = m THEN At(c, i + 1) ELSE y[k + 1]
                /\ PrevOf(s2, y[k]) = IF k = 1 THEN At(c, i) ELSE y[k - 1]
    <2>1. y[k] # At(c, i) /\ y[k] # At(c, i + 1) /\ y[k] \in Item
      BY <1>1, <1>4, <1>5, NodesAssumption
    <2>2. k # m => y[k] # y[m] /\ k \in 1 .. m - 1
      BY <1>1, <1>4
    <2>3. k # 1 => y[k] # y[1] /\ k - 1 \in 1 .. m - 1 /\ (k - 1) + 1 = k
      BY <1>1, <1>4
    <2> QED
      BY <1>7, <1>8, <2>1, <2>2, <2>3
  <1>9. Chained(s2, c2, HeadOf(s2, d), TailOf(s2, d))
    <2>1. HeadOf(s2, d) = At(c2, 1)
      <3>1. At(c2, 1) = IF 1 <= i THEN At(c, 1) ELSE y[1 - i]
        BY <1>1, <1>5
      <3> QED
        BY <1>1, <1>6, <1>7, <3>1
    <2>2. TailOf(s2, d) = At(c2, n + m)
      <3>1. At(c2, n + m) = IF n + m <= i + m THEN y[(n + m) - i] ELSE At(c, (n + m) - m)
        BY <1>1, <1>5
      <3>2. (n + m) - m = n /\ (n = i => (n + m) - i = m) /\ (n + m <= i + m <=> n = i)
        BY <1>1
      <3> QED
        BY <1>6, <1>7, <3>1, <3>2
    <2>3. ASSUME NEW j \in 1 .. n + m
          PROVE  NextOf(s2, c2[j]) = At(c2, j + 1) /\ PrevOf(s2, c2[j]) = At(c2, j - 1)
      <3>1. /\ At(c2, j + 1) = IF j + 1 <= i THEN At(c, j + 1)
                               ELSE IF j + 1 <= i + m THEN y[(j + 1) - i] ELSE At(c, (j + 1) - m)
            /\ At(c2, j - 1) = IF j - 1 <= i THEN At(c, j - 1)
                               ELSE IF j - 1 <= i + m THEN y[(j - 1) - i] ELSE At(c, (j - 1) - m)
        BY <1>1, <1>5
      <3>2. CASE j <= i
        <4>1. /\ j \in 1 .. n /\ c2[j] = c[j] /\ j - 1 <= i /\ j # i + 1
              /\ (j + 1 <= i <=> j # i) /\ (j = i => (j + 1) - i = 1 /\ j + 1 <= i + m)
          BY <1>1, <1>3, <3>2
        <4> QED
          BY <1>12, <3>1, <4>1
      <3>3. CASE ~ (j <= i) /\ j <= i + m
        <4> DEFINE k == j - i
        <4>1. /\ k \in 1 .. m /\ c2[j] = y[k] /\ ~ (j + 1 <= i) /\ (j + 1 <= i + m <=> k # m)
              /\ (j + 1) - i = k + 1 /\ (k = m => (j + 1) - m = i + 1)
              /\ (j - 1 <= i <=> k = 1) /\ j - 1 <= i + m /\ (j - 1) - i = k - 1 /\ (k = 1 => j - 1 = i)
          BY <1>1, <1>3, <3>3
        <4> HIDE DEF k
        <4> QED
          BY <1>13, <3>1, <4>1
      <3>4. CASE ~ (j <= i) /\ ~ (j <= i + m)
        <4> DEFINE k == j - m
        <4>1. /\ k \in 1 .. n /\ c2[j] = c[k] /\ k # i /\ ~ (j + 1 <= i) /\ ~ (j + 1 <= i + m)
              /\ (j + 1) - m = k + 1 /\ ~ (j - 1 <= i) /\ (j - 1 <= i + m <=> k = i + 1)
              /\ (j - 1) - m = k - 1 /\ (k = i + 1 => (j - 1) - i = m)
          BY <1>1, <1>3, <3>4
        <4> HIDE DEF k
        <4> QED
          BY <1>12, <3>1, <4>1
      <3> QED
        BY <3>2, <3>3, <3>4
    <2> QED
      BY <1>3, <2>1, <2>2, <2>3 DEF Chained
  <1>10. ASSUME NEW x \in Item, x \notin Nodes(c) \cup L \cup Nodes(c2) \cup (L \ Nodes(y))
         PROVE  NextOf(s2, x) = NextOf(s, x) /\ PrevOf(s2, x) = PrevOf(s, x)
    <2>1. x \notin Nodes(c) /\ x \notin Nodes(y)
      BY <1>2, <1>10
    <2>2. At(c, i) # x /\ At(c, i + 1) # x
      BY <1>1, <2>1, AtTypes, NodesAssumption
    <2>3. y[1] # x /\ y[m] # x
      BY <1>1, <2>1 DEF Nodes, m
    <2> QED
      BY <1>7, <2>2, <2>3
  <1>11. ASSUME NEW x \in L \ Nodes(y) PROVE NextOf(s2, x) # Junk
    <2>1. x \in Item /\ x \notin Nodes(c) /\ NextOf(s, x) # Junk
      BY DEF ListIs
    <2>2. (\A j \in 1 .. n : x # c[j]) /\ (\A j \in 1 .. m : x # y[j])
      BY <2>1 DEF Nodes, n, m
    <2>3. x # At(c, i) /\ x # y[m]
      BY <1>1, <1>5, <2>1, <2>2, NodesAssumption
    <2> QED
      BY <1>7, <2>1, <2>3
  <1> QED
    <2>1. L \ Nodes(y) \subseteq Item /\ Nodes(c2) \cap (L \ Nodes(y)) = {}
      BY <1>2 DEF ListIs
    <2>2. \A x \in Nodes(c2) \cup (L \ Nodes(y)) : x \in Nodes(c) \cup L \/ NextOf(s, x) = Junk
      BY <1>2
    <2>3. \A x \in Nodes(c) \cup L : x \in Nodes(c2) \cup (L \ Nodes(y)) \/ NextOf(s2, x) = Junk
      BY <1>2
    <2> QED
      BY <1>2, <1>3, <1>7, <1>9, <1>10, <1>11, <2>1, <2>2, <2>3 DEF Remade

-----------------------------------------------------------------------------
(* The nodes f + 1 .. l are taken out of the list c.                       *)

Block(c, f, l) == {c[j] : j \in f + 1 .. l}

WithoutBlock(c, f, l, c2) ==
  /\ c2 \in Seq(Item)
  /\ Len(c2) = Len(c) - (l - f)
  /\ \A j \in 1 .. Len(c) - (l - f) : c2[j] = IF j <= f THEN c[j] ELSE c[j + (l - f)]

(* The nodes of F are freed. *)
CutOut(s, s2, d, c, f, l, F) ==
  /\ s2 \in Mem
  /\ \A n \in Item : NextOf(s2, n) = IF n \in F THEN Junk
                                 ELSE IF n = At(c, f) THEN At(c, l + 1) ELSE NextOf(s, n)
  /\ \A n \in Item : PrevOf(s2, n) = IF n \in F THEN Junk
                                 ELSE IF n = At(c, l + 1) THEN At(c, f) ELSE PrevOf(s, n)
  /\ HeadOf(s2, d) = IF f = 0 THEN At(c, l + 1) ELSE HeadOf(s, d)
  /\ TailOf(s2, d) = IF l = Len(c) THEN At(c, f) ELSE TailOf(s, d)
  /\ \A e \in Handle \ {d} : HeadOf(s2, e) = HeadOf(s, e) /\ TailOf(s2, e) = TailOf(s, e)

LEMMA WithoutBlockNodes ==
  ASSUME NEW c \in Seq(Item), Distinct(c), NEW f \in 0 .. Len(c), NEW l \in f .. Len(c),
         NEW c2, WithoutBlock(c, f, l, c2)
  PROVE  Distinct(c2) /\ Nodes(c2) = Nodes(c) \ Block(c, f, l) /\ Block(c, f, l) \subseteq Nodes(c)
  <1> DEFINE n == Len(c)
             m == l - f
  <1>1. n \in Nat /\ m \in Nat /\ f \in Nat /\ l \in Nat /\ f <= l /\ l <= n /\ m = l - f
    OBVIOUS
  <1>2. /\ c2 \in Seq(Item) /\ Len(c2) = n - m
        /\ \A j \in 1 .. n - m : c2[j] = IF j <= f THEN c[j] ELSE c[j + m]
    BY DEF WithoutBlock
  <1> HIDE DEF n, m
  <1>3. \A j, k \in 1 .. n : c[j] = c[k] => j = k
    BY DEF Distinct, n
  <1>4. ASSUME NEW j \in 1 .. n - m
        PROVE  LET k == IF j <= f THEN j ELSE j + m
               IN k \in 1 .. n /\ k \notin f + 1 .. l /\ c2[j] = c[k]
    BY <1>1, <1>2
  <1>5. Distinct(c2)
    <2> SUFFICES ASSUME NEW j \in 1 .. n - m, NEW k \in 1 .. n - m, c2[j] = c2[k] PROVE j = k
      BY <1>2 DEF Distinct
    <2>1. (IF j <= f THEN j ELSE j + m) = (IF k <= f THEN k ELSE k + m)
      BY <1>3, <1>4
    <2> QED
      BY <1>1, <2>1
  <1>6. Block(c, f, l) \subseteq Nodes(c)
    <2>1. \A j \in f + 1 .. l : j \in 1 .. n
      BY <1>1
    <2> QED
      BY <2>1 DEF Block, Nodes, n
  <1>7. ASSUME NEW x \in Nodes(c2) PROVE x \in Nodes(c) \ Block(c, f, l)
    <2>1. PICK j \in 1 .. n - m : x = c2[j]
      BY <1>2 DEF Nodes
    <2>2. PICK k \in 1 .. n : k \notin f + 1 .. l /\ x = c[k]
      BY <1>4, <2>1
    <2>3. \A i \in f + 1 .. l : i \in 1 .. n
      BY <1>1
    <2> QED
      BY <1>3, <2>2, <2>3 DEF Nodes, Block, n
  <1>8. ASSUME NEW x \in Nodes(c) \ Block(c, f, l) PROVE x \in Nodes(c2)
    <2>1. PICK k \in 1 .. n : x = c[k]
      BY DEF Nodes, n
    <2>2. k \notin f + 1 .. l
      BY <1>8, <2>1 DEF Block
    <2> DEFINE j == IF k <= f THEN k ELSE k - m
    <2>3. j \in 1 .. n - m /\ (IF j <= f THEN j ELSE j + m) = k
      BY <1>1, <2>2
    <2>4. c2[j] = c[k]
      <3> HIDE DEF j
      <3> QED
        BY <1>4, <2>3
    <2> HIDE DEF j
    <2> QED
      BY <1>2, <2>1, <2>3, <2>4 DEF Nodes
  <1> QED
    BY <1>5, <1>6, <1>7, <1>8

LEMMA Cut ==
  ASSUME NEW s, NEW d, NEW c, NEW L, ListIs(s, d, c, L), NEW f \in 0 .. Len(c), NEW l \in f .. Len(c),
         NEW F \in SUBSET Block(c, f, l), NEW c2, WithoutBlock(c, f, l, c2),
         NEW s2, CutOut(s, s2, d, c, f, l, F)
  PROVE  Remade(s, s2, d, c, L, c2, L \cup (Block(c, f, l) \ F))
  <1> DEFINE n == Len(c)
             m == l - f
             B == Block(c, f, l)
             L2 == L \cup (B \ F)
  <1>1. /\ n \in Nat /\ m \in Nat /\ f \in Nat /\ l \in Nat /\ f <= l /\ l <= n /\ m = l - f
        /\ c \in Seq(Item) /\ Distinct(c)
        /\ \A j \in 1 .. n : c[j] \in Item
    BY DEF ListIs
  <1>2. Distinct(c2) /\ Nodes(c2) = Nodes(c) \ B /\ B \subseteq Nodes(c)
    BY <1>1, WithoutBlockNodes
  <1>3. /\ c2 \in Seq(Item) /\ Len(c2) = n - m
        /\ \A j \in 1 .. n - m : c2[j] = IF j <= f THEN c[j] ELSE c[j + m]
    BY DEF WithoutBlock
  <1>4. /\ \A j, k \in 1 .. n : c[j] = c[k] => j = k
        /\ \A j \in 1 .. n : c[j] \in B => j \in f + 1 .. l
    <2>1. \A j, k \in 1 .. n : c[j] = c[k] => j = k
      BY <1>1 DEF Distinct
    <2>2. \A j \in f + 1 .. l : j \in 1 .. n
      BY <1>1
    <2> QED
      BY <2>1, <2>2 DEF Block
  <1> HIDE DEF n, m, B, L2
  <1>5. /\ \A j \in Int : At(c, j) = IF 1 <= j /\ j <= n THEN c[j] ELSE NULL
        /\ \A j \in Int : At(c2, j) = IF j <= f THEN At(c, j) ELSE At(c, j + m)
    <2>1. \A j \in Int : At(c, j) = IF 1 <= j /\ j <= n THEN c[j] ELSE NULL
      BY <1>1 DEF At, n
    <2>2. \A j \in Int : At(c2, j) = IF 1 <= j /\ j <= n - m THEN c2[j] ELSE NULL
      BY <1>1, <1>3 DEF At
    <2>3. ASSUME NEW j \in Int, 1 <= j /\ j <= n - m
          PROVE  c2[j] = IF j <= f THEN At(c, j) ELSE At(c, j + m)
      <3>1. c2[j] = IF j <= f THEN c[j] ELSE c[j + m]
        <4>1. j \in 1 .. n - m
          BY <1>1, <2>3
        <4> QED
          BY <1>3, <4>1
      <3>2. (j <= f => At(c, j) = c[j]) /\ (~ (j <= f) => At(c, j + m) = c[j + m])
        BY <1>1, <2>1, <2>3
      <3> QED
        BY <3>1, <3>2
    <2>4. ASSUME NEW j \in Int, ~ (1 <= j /\ j <= n - m)
          PROVE  NULL = IF j <= f THEN At(c, j) ELSE At(c, j + m)
      BY <1>1, <2>1, <2>4
    <2> QED
      BY <2>1, <2>2, <2>3, <2>4
  <1>13. /\ (f \in 1 .. n /\ At(c, f) = c[f]) \/ (f \notin 1 .. n /\ At(c, f) = NULL)
         /\ (l + 1 \in 1 .. n /\ At(c, l + 1) = c[l + 1]) \/ (l + 1 \notin 1 .. n /\ At(c, l + 1) = NULL)
    <2>1. l + 1 \in Int /\ f \in Int
      BY <1>1
    <2> QED
      BY <1>1, <1>5, <2>1
  <1>14. NULL \notin Item /\ Junk \notin Item /\ NULL # Junk /\ \A j \in 1 .. n : c[j] # NULL /\ c[j] # Junk
    BY <1>1, NodesAssumption
  <1>6. /\ HeadOf(s, d) = At(c, 1) /\ TailOf(s, d) = At(c, n)
        /\ \A j \in 1 .. n : NextOf(s, c[j]) = At(c, j + 1) /\ PrevOf(s, c[j]) = At(c, j - 1)
    BY DEF ListIs, Chained, n
  <1>7. /\ s2 \in Mem
        /\ \A x \in Item : NextOf(s2, x) = IF x \in F THEN Junk ELSE IF x = At(c, f) THEN At(c, l + 1) ELSE NextOf(s, x)
        /\ \A x \in Item : PrevOf(s2, x) = IF x \in F THEN Junk ELSE IF x = At(c, l + 1) THEN At(c, f) ELSE PrevOf(s, x)
        /\ HeadOf(s2, d) = IF f = 0 THEN At(c, l + 1) ELSE HeadOf(s, d)
        /\ TailOf(s2, d) = IF l = n THEN At(c, f) ELSE TailOf(s, d)
        /\ \A e \in Handle \ {d} : HeadOf(s2, e) = HeadOf(s, e) /\ TailOf(s2, e) = TailOf(s, e)
    BY DEF CutOut, n
  <1>8. F \subseteq B /\ At(c, f) \notin B /\ At(c, l + 1) \notin B /\ NULL \notin Nodes(c)
    <2>1. NULL \notin Nodes(c)
      BY <1>1, NodesAssumption DEF Nodes, n
    <2> QED
      <3>1. f \notin f + 1 .. l /\ l + 1 \notin f + 1 .. l
        BY <1>1
      <3> QED
        BY <1>2, <1>4, <1>13, <2>1, <3>1 DEF B
  <1>9. ASSUME NEW j \in 1 .. n, j \notin f + 1 .. l
        PROVE  /\ NextOf(s2, c[j]) = IF j = f THEN At(c, l + 1) ELSE At(c, j + 1)
               /\ PrevOf(s2, c[j]) = IF j = l + 1 THEN At(c, f) ELSE At(c, j - 1)
    <2>1. /\ (c[j] = At(c, f) <=> j = f) /\ (c[j] = At(c, l + 1) <=> j = l + 1) /\ c[j] \in Item
      BY <1>1, <1>4, <1>13, <1>14
    <2>2. c[j] \notin F
      BY <1>4, <1>8, <1>9
    <2> QED
      BY <1>6, <1>7, <2>1, <2>2
  <1>10. Chained(s2, c2, HeadOf(s2, d), TailOf(s2, d))
    <2>1. HeadOf(s2, d) = At(c2, 1)
      <3>1. At(c2, 1) = IF 1 <= f THEN At(c, 1) ELSE At(c, 1 + m)
        BY <1>1, <1>5
      <3>2. (f = 0 => 1 + m = l + 1) /\ (1 <= f <=> f # 0)
        BY <1>1
      <3> QED
        BY <1>6, <1>7, <3>1, <3>2
    <2>2. TailOf(s2, d) = At(c2, n - m)
      <3>1. At(c2, n - m) = IF n - m <= f THEN At(c, n - m) ELSE At(c, (n - m) + m)
        BY <1>1, <1>5
      <3>2. (n - m) + m = n /\ (n = l => n - m = f) /\ (n - m <= f <=> n = l)
        BY <1>1
      <3> QED
        BY <1>6, <1>7, <3>1, <3>2
    <2>3. ASSUME NEW j \in 1 .. n - m
          PROVE  NextOf(s2, c2[j]) = At(c2, j + 1) /\ PrevOf(s2, c2[j]) = At(c2, j - 1)
      <3>1. /\ At(c2, j + 1) = IF j + 1 <= f THEN At(c, j + 1) ELSE At(c, (j + 1) + m)
            /\ At(c2, j - 1) = IF j - 1 <= f THEN At(c, j - 1) ELSE At(c, (j - 1) + m)
        BY <1>1, <1>5
      <3>2. CASE j <= f
        <4>1. /\ j \in 1 .. n /\ j \notin f + 1 .. l /\ c2[j] = c[j] /\ j - 1 <= f /\ j # l + 1
              /\ (j + 1 <= f <=> j # f) /\ (j = f => (j + 1) + m = l + 1)
          BY <1>1, <1>3, <3>2
        <4> QED
          BY <1>9, <3>1, <4>1
      <3>3. CASE ~ (j <= f)
        <4> DEFINE k == j + m
        <4>1. /\ k \in 1 .. n /\ k \notin f + 1 .. l /\ c2[j] = c[k] /\ ~ (j + 1 <= f)
              /\ (j + 1) + m = k + 1 /\ (j - 1) + m = k - 1
          <5>1. j \in 1 .. n - m /\ j \in Nat
            BY <1>1
          <5>2. c2[j] = c[k]
            BY <1>3, <3>3, <5>1
          <5>3. k \in 1 .. n /\ k \notin f + 1 .. l /\ ~ (j + 1 <= f)
            BY <1>1, <3>3, <5>1
          <5>4. (j + 1) + m = k + 1 /\ (j - 1) + m = k - 1
            BY <1>1, <5>1
          <5> QED
            BY <5>2, <5>3, <5>4
        <4>2. (j - 1 <= f <=> k = l + 1) /\ (k = l + 1 => j - 1 = f) /\ (k = f => f = l /\ j = f)
          BY <1>1, <3>3
        <4> HIDE DEF k
        <4> QED
          BY <1>9, <3>1, <3>3, <4>1, <4>2
      <3> QED
        BY <3>2, <3>3
    <2> QED
      BY <1>3, <2>1, <2>2, <2>3 DEF Chained
  <1>11. ASSUME NEW x \in Item, x \notin Nodes(c) \cup L \cup Nodes(c2) \cup L2
         PROVE  NextOf(s2, x) = NextOf(s, x) /\ PrevOf(s2, x) = PrevOf(s, x)
    <2>1. x \notin F
      BY <1>2, <1>8, <1>11
    <2>2. \A j \in 1 .. n : x # c[j]
      BY <1>11 DEF Nodes, n
    <2>3. x # At(c, f) /\ x # At(c, l + 1)
      BY <1>13, <1>14, <2>2
    <2> QED
      BY <1>7, <2>1, <2>3
  <1>12. ASSUME NEW x \in L2 PROVE NextOf(s2, x) # Junk
    <2>1. CASE x \in L
      <3>1. x \in Item /\ x \notin Nodes(c) /\ NextOf(s, x) # Junk
        BY <2>1 DEF ListIs
      <3>2. \A j \in 1 .. n : x # c[j]
        BY <3>1 DEF Nodes, n
      <3>3. x # At(c, f) /\ x \notin F
        BY <1>2, <1>8, <1>13, <1>14, <3>1, <3>2
      <3> QED
        BY <1>7, <3>1, <3>3
    <2>2. CASE x \in B \ F
      <3>1. PICK j \in 1 .. n : x = c[j]
        BY <1>2, <2>2 DEF Nodes, n
      <3>2. x \in Item /\ x # At(c, f) /\ NextOf(s, x) = At(c, j + 1)
        BY <1>1, <1>6, <1>8, <2>2, <3>1
      <3>3. At(c, j + 1) # Junk
        <4>1. j + 1 \in Int
          BY <1>1
        <4>2. At(c, j + 1) = IF 1 <= j + 1 /\ j + 1 <= n THEN c[j + 1] ELSE NULL
          BY <1>5, <4>1
        <4>3. 1 <= j + 1 /\ j + 1 <= n => j + 1 \in 1 .. n
          BY <1>1
        <4> QED
          BY <1>14, <4>2, <4>3
      <3> QED
        BY <1>7, <2>2, <3>2, <3>3
    <2> QED
      BY <2>1, <2>2 DEF L2
  <1> QED
    <2>1. L2 \subseteq Item /\ Nodes(c2) \cap L2 = {}
      BY <1>1, <1>2, NodesAreItems DEF ListIs, L2
    <2>2. \A x \in Nodes(c2) \cup L2 : x \in Nodes(c) \cup L \/ NextOf(s, x) = Junk
      BY <1>2 DEF L2
    <2>3. \A x \in Nodes(c) \cup L : x \in Nodes(c2) \cup L2 \/ NextOf(s2, x) = Junk
      <3>1. \A x \in F : x \in Item
        BY <1>1, <1>2, <1>8, NodesAreItems
      <3> QED
        BY <1>2, <1>7, <3>1 DEF L2
    <2>4. Remade(s, s2, d, c, L, c2, L2)
      BY <1>2, <1>3, <1>7, <1>10, <1>11, <1>12, <2>1, <2>2, <2>3 DEF Remade
    <2> QED
      BY <2>4 DEF L2, B

-----------------------------------------------------------------------------
(* What the operations write. *)

LEMMA FieldTypes ==
  ASSUME NEW s \in Mem
  PROVE  /\ \A n \in Item : NextOf(s, n) \in Link /\ PrevOf(s, n) \in Link
         /\ \A d \in Handle : HeadOf(s, d) \in Place /\ TailOf(s, d) \in Place
         /\ \A d \in Handle : SizeOf(s, d) \in Nat
  BY MemFields DEF NextOf, PrevOf, HeadOf, TailOf, SizeOf, Place

SameEnds(s, s2) ==
  \A d \in Handle : /\ HeadOf(s2, d) = HeadOf(s, d)
                    /\ TailOf(s2, d) = TailOf(s, d)
                    /\ SizeOf(s2, d) = SizeOf(s, d)

LEMMA SetNextFields ==
  ASSUME NEW s, s \in Mem, NEW a, a \in Place, NEW b, b \in Link
  PROVE  /\ SetNext(s, a, b) \in Mem
         /\ \A n \in Item : NextOf(SetNext(s, a, b), n) = IF n = a THEN b ELSE NextOf(s, n)
         /\ \A n \in Item : PrevOf(SetNext(s, a, b), n) = PrevOf(s, n)
         /\ SameEnds(s, SetNext(s, a, b))
  <1> USE NodesAssumption DEF SameEnds, NextOf, PrevOf, HeadOf, TailOf, SizeOf, Place
  <1>1. CASE a = NULL
    BY <1>1 DEF SetNext
  <1>2. CASE a \in Item
    BY <1>2 DEF SetNext, Mem
  <1> QED
    BY <1>1, <1>2

LEMMA SetPrevFields ==
  ASSUME NEW s, s \in Mem, NEW b, b \in Place, NEW a, a \in Link
  PROVE  /\ SetPrev(s, b, a) \in Mem
         /\ \A n \in Item : PrevOf(SetPrev(s, b, a), n) = IF n = b THEN a ELSE PrevOf(s, n)
         /\ \A n \in Item : NextOf(SetPrev(s, b, a), n) = NextOf(s, n)
         /\ SameEnds(s, SetPrev(s, b, a))
  <1> USE NodesAssumption DEF SameEnds, NextOf, PrevOf, HeadOf, TailOf, SizeOf, Place
  <1>1. CASE b = NULL
    BY <1>1 DEF SetPrev
  <1>2. CASE b \in Item
    BY <1>2 DEF SetPrev, Mem
  <1> QED
    BY <1>1, <1>2

LEMMA LinkedFields ==
  ASSUME NEW s, s \in Mem, NEW a, a \in Place, NEW b, b \in Place
  PROVE  /\ Linked(s, a, b) \in Mem
         /\ \A n \in Item : NextOf(Linked(s, a, b), n) = IF n = a THEN b ELSE NextOf(s, n)
         /\ \A n \in Item : PrevOf(Linked(s, a, b), n) = IF n = b THEN a ELSE PrevOf(s, n)
         /\ SameEnds(s, Linked(s, a, b))
  <1> DEFINE u == SetNext(s, a, b)
  <1>1. a \in Link /\ b \in Link
    BY DEF Link, Place
  <1>2. /\ u \in Mem /\ SameEnds(s, u)
        /\ \A n \in Item : NextOf(u, n) = IF n = a THEN b ELSE NextOf(s, n)
        /\ \A n \in Item : PrevOf(u, n) = PrevOf(s, n)
    BY <1>1, SetNextFields
  <1> HIDE DEF u
  <1>3. /\ SetPrev(u, b, a) \in Mem /\ SameEnds(u, SetPrev(u, b, a))
        /\ \A n \in Item : PrevOf(SetPrev(u, b, a), n) = IF n = b THEN a ELSE PrevOf(u, n)
        /\ \A n \in Item : NextOf(SetPrev(u, b, a), n) = NextOf(u, n)
    BY <1>1, <1>2, SetPrevFields
  <1>4. Linked(s, a, b) = SetPrev(u, b, a)
    BY DEF Linked, u
  <1> QED
    BY <1>2, <1>3, <1>4 DEF SameEnds

(* Both ends and the size of one list are written. *)
EndsWritten(u, d, h, t, k, r) ==
  /\ r \in Mem
  /\ \A n \in Item : NextOf(r, n) = NextOf(u, n) /\ PrevOf(r, n) = PrevOf(u, n)
  /\ HeadOf(r, d) = h /\ TailOf(r, d) = t /\ SizeOf(r, d) = k
  /\ \A e \in Handle \ {d} : /\ HeadOf(r, e) = HeadOf(u, e) /\ TailOf(r, e) = TailOf(u, e)
                             /\ SizeOf(r, e) = SizeOf(u, e)

LEMMA WriteEnds ==
  ASSUME NEW u, u \in Mem, NEW d \in Handle, NEW h, h \in Place, NEW t, t \in Place,
         NEW k, k \in Nat
  PROVE  EndsWritten(u, d, h, t, k, [u EXCEPT !.head[d] = h, !.tail[d] = t, !.size[d] = k])
  <1> DEFINE r == [u EXCEPT !.head[d] = h, !.tail[d] = t, !.size[d] = k]
             hd == [u.head EXCEPT ![d] = h]
             tl == [u.tail EXCEPT ![d] = t]
             sz == [u.size EXCEPT ![d] = k]
  <1>1. r = [next |-> u.next, prev |-> u.prev, head |-> hd, tail |-> tl, size |-> sz]
    <2>1. r = [u EXCEPT !.head[d] = h, !.tail[d] = t, !.size[d] = k]
      OBVIOUS
    <2> HIDE DEF r
    <2> QED
      BY <2>1 DEF Mem
  <1>2. /\ hd \in [Handle -> Item \cup {NULL}] /\ tl \in [Handle -> Item \cup {NULL}] /\ sz \in [Handle -> Nat]
        /\ hd[d] = h /\ tl[d] = t /\ sz[d] = k
        /\ \A e \in Handle \ {d} : hd[e] = u.head[e] /\ tl[e] = u.tail[e] /\ sz[e] = u.size[e]
    BY MemFields DEF Place
  <1> HIDE DEF hd, tl, sz, r
  <1>3. r \in Mem
    BY <1>1, <1>2, MemFields DEF Mem, Place
  <1>4. r.next = u.next /\ r.prev = u.prev /\ r.head = hd /\ r.tail = tl /\ r.size = sz
    BY <1>1
  <1>5. EndsWritten(u, d, h, t, k, r)
    BY <1>2, <1>3, <1>4 DEF EndsWritten, NextOf, PrevOf, HeadOf, TailOf, SizeOf
  <1> QED
    BY <1>5 DEF r

(* Both links of one node are written. *)
NodeWritten(s, v, p, x, w) ==
  /\ w \in Mem
  /\ \A n \in Item : NextOf(w, n) = IF n = v THEN x ELSE NextOf(s, n)
  /\ \A n \in Item : PrevOf(w, n) = IF n = v THEN p ELSE PrevOf(s, n)
  /\ SameEnds(s, w)

LEMMA WriteNode ==
  ASSUME NEW s, s \in Mem, NEW v \in Item, NEW p, p \in Link, NEW x, x \in Link
  PROVE  /\ NodeWritten(s, v, p, x, [s EXCEPT !.prev[v] = p, !.next[v] = x])
         /\ NodeWritten(s, v, p, x, [s EXCEPT !.next[v] = x, !.prev[v] = p])
  BY DEF Mem, NodeWritten, SameEnds, NextOf, PrevOf, HeadOf, TailOf, SizeOf

LEMMA EndsOfList ==
  ASSUME NEW s, NEW d, NEW c, NEW L, ListIs(s, d, c, L)
  PROVE  /\ s \in Mem /\ c \in Seq(Item) /\ Len(c) \in Nat /\ Distinct(c)
         /\ HeadOf(s, d) = At(c, 1) /\ TailOf(s, d) = At(c, Len(c))
         /\ HeadOf(s, d) \in Place /\ TailOf(s, d) \in Place
         /\ HeadOf(s, d) = NULL <=> Len(c) = 0
         /\ TailOf(s, d) = NULL <=> Len(c) = 0
         /\ \A i \in 1 .. Len(c) : NextOf(s, c[i]) = At(c, i + 1) /\ PrevOf(s, c[i]) = At(c, i - 1)
  <1>1. /\ s \in Mem /\ c \in Seq(Item) /\ Distinct(c) /\ HeadOf(s, d) = At(c, 1) /\ TailOf(s, d) = At(c, Len(c))
        /\ \A i \in 1 .. Len(c) : NextOf(s, c[i]) = At(c, i + 1) /\ PrevOf(s, c[i]) = At(c, i - 1)
    BY DEF ListIs, Chained
  <1>2. Len(c) \in Nat
    BY <1>1
  <1>3. At(c, 1) = NULL <=> Len(c) = 0
    BY <1>1, <1>2, AtTypes
  <1>4. At(c, Len(c)) = NULL <=> Len(c) = 0
    BY <1>1, <1>2, AtTypes
  <1>5. At(c, 1) \in Place /\ At(c, Len(c)) \in Place
    BY <1>1, <1>2, AtTypes
  <1> QED
    BY <1>1, <1>2, <1>3, <1>4, <1>5

LEMMA PushedBackWeaves ==
  ASSUME NEW s, NEW d \in Handle, NEW c, NEW L, ListIs(s, d, c, L), NEW v \in Item, v \notin Nodes(c)
  PROVE  /\ Woven(s, PushedBack(s, d, v), d, c, Len(c), <<v>>)
         /\ SizeOf(PushedBack(s, d, v), d) = SizeOf(s, d) + 1
         /\ \A e \in Handle \ {d} : SizeOf(PushedBack(s, d, v), e) = SizeOf(s, e)
  <1> DEFINE t == TailOf(s, d)
             w == [s EXCEPT !.prev[v] = s.tail[d], !.next[v] = NULL]
             u == SetNext(w, t, v)
             k == SizeOf(s, d) + 1
             r == PushedBack(s, d, v)
  <1>1. /\ s \in Mem /\ c \in Seq(Item) /\ Len(c) \in Nat /\ t = At(c, Len(c)) /\ t \in Place
        /\ (t = NULL <=> Len(c) = 0)
    BY EndsOfList
  <1>2. At(c, Len(c) + 1) = NULL /\ t # v /\ v # NULL
    <2>1. At(c, Len(c) + 1) = NULL
      BY <1>1, AtTypes
    <2>2. t \in Nodes(c) \/ t = NULL
      BY <1>1, AtTypes
    <2> QED
      BY <2>1, <2>2, NodesAssumption
  <1>3. NULL \in Link /\ v \in Link /\ t \in Link /\ v \in Place /\ t \in Place
    BY <1>1 DEF Place, Link
  <1>4. NodeWritten(s, v, t, NULL, w)
    BY <1>1, <1>3, WriteNode DEF TailOf
  <1> HIDE DEF t, w
  <1>5. /\ u \in Mem /\ SameEnds(w, u)
        /\ \A n \in Item : NextOf(u, n) = IF n = t THEN v ELSE NextOf(w, n)
        /\ \A n \in Item : PrevOf(u, n) = PrevOf(w, n)
    <2>1. w \in Mem
      BY <1>4 DEF NodeWritten
    <2> QED
      BY <1>3, <2>1, SetNextFields
  <1>6. r = [u EXCEPT !.head[d] = IF t = NULL THEN v ELSE HeadOf(u, d), !.tail[d] = v,
                      !.size[d] = SizeOf(u, d) + 1]
    BY DEF PushedBack, w, t, HeadOf, TailOf, SizeOf
  <1> HIDE DEF u, r
  <1>7. /\ HeadOf(u, d) = HeadOf(s, d) /\ TailOf(u, d) = TailOf(s, d) /\ SizeOf(u, d) = SizeOf(s, d)
        /\ SizeOf(u, d) + 1 \in Nat /\ HeadOf(u, d) \in Place /\ TailOf(u, d) \in Place
    <2>1. /\ HeadOf(u, d) = HeadOf(s, d) /\ TailOf(u, d) = TailOf(s, d) /\ SizeOf(u, d) = SizeOf(s, d)
      BY <1>4, <1>5 DEF NodeWritten, SameEnds
    <2> QED
      BY <1>5, <2>1, FieldTypes
  <1>8. EndsWritten(u, d, IF t = NULL THEN v ELSE HeadOf(u, d), v, SizeOf(u, d) + 1, r)
    <2>1. (IF t = NULL THEN v ELSE HeadOf(u, d)) \in Place /\ (v) \in Place
      BY <1>3, <1>7
    <2> QED
      BY <1>5, <1>6, <1>7, <2>1, WriteEnds
  <1>9. \A n \in Item : NextOf(r, n) = IF n = At(c, Len(c)) THEN v ELSE IF n = v THEN At(c, Len(c) + 1) ELSE NextOf(s, n)
    BY <1>1, <1>2, <1>4, <1>5, <1>8, NodesAssumption DEF EndsWritten, NodeWritten
  <1>10. \A n \in Item : PrevOf(r, n) = IF n = At(c, Len(c) + 1) THEN v ELSE IF n = v THEN At(c, Len(c)) ELSE PrevOf(s, n)
    BY <1>1, <1>2, <1>4, <1>5, <1>8, NodesAssumption DEF EndsWritten, NodeWritten
  <1>11. /\ r \in Mem /\ HeadOf(r, d) = (IF Len(c) = 0 THEN v ELSE HeadOf(s, d)) /\ TailOf(r, d) = (IF Len(c) = Len(c) THEN v ELSE TailOf(s, d))
         /\ SizeOf(r, d) = SizeOf(s, d) + 1
    BY <1>1, <1>7, <1>8 DEF EndsWritten
  <1>12. \A e \in Handle \ {d} : HeadOf(r, e) = HeadOf(s, e) /\ TailOf(r, e) = TailOf(s, e) /\ SizeOf(r, e) = SizeOf(s, e)
    BY <1>4, <1>5, <1>8 DEF EndsWritten, NodeWritten, SameEnds
  <1>13. Len(<<v>>) = 1 /\ <<v>>[1] = v
    OBVIOUS
  <1> QED
    BY <1>9, <1>10, <1>11, <1>12, <1>13 DEF Woven, r

LEMMA PushedFrontWeaves ==
  ASSUME NEW s, NEW d \in Handle, NEW c, NEW L, ListIs(s, d, c, L), NEW v \in Item, v \notin Nodes(c)
  PROVE  /\ Woven(s, PushedFront(s, d, v), d, c, 0, <<v>>)
         /\ SizeOf(PushedFront(s, d, v), d) = SizeOf(s, d) + 1
         /\ \A e \in Handle \ {d} : SizeOf(PushedFront(s, d, v), e) = SizeOf(s, e)
  <1> DEFINE t == HeadOf(s, d)
             w == [s EXCEPT !.next[v] = s.head[d], !.prev[v] = NULL]
             u == SetPrev(w, t, v)
             k == SizeOf(s, d) + 1
             r == PushedFront(s, d, v)
  <1>1. /\ s \in Mem /\ c \in Seq(Item) /\ Len(c) \in Nat /\ t = At(c, 1) /\ t \in Place
        /\ (t = NULL <=> Len(c) = 0)
    BY EndsOfList
  <1>2. At(c, 0) = NULL /\ t # v /\ v # NULL
    <2>1. At(c, 0) = NULL
      BY <1>1, AtTypes
    <2>2. t \in Nodes(c) \/ t = NULL
      BY <1>1, AtTypes
    <2> QED
      BY <2>1, <2>2, NodesAssumption
  <1>3. NULL \in Link /\ v \in Link /\ t \in Link /\ v \in Place /\ t \in Place
    BY <1>1 DEF Place, Link
  <1>4. NodeWritten(s, v, NULL, t, w)
    BY <1>1, <1>3, WriteNode DEF HeadOf
  <1> HIDE DEF t, w
  <1>5. /\ u \in Mem /\ SameEnds(w, u)
        /\ \A n \in Item : PrevOf(u, n) = IF n = t THEN v ELSE PrevOf(w, n)
        /\ \A n \in Item : NextOf(u, n) = NextOf(w, n)
    <2>1. w \in Mem
      BY <1>4 DEF NodeWritten
    <2> QED
      BY <1>3, <2>1, SetPrevFields
  <1>6. r = [u EXCEPT !.head[d] = v, !.tail[d] = IF t = NULL THEN v ELSE TailOf(u, d),
                      !.size[d] = SizeOf(u, d) + 1]
    BY DEF PushedFront, w, t, HeadOf, TailOf, SizeOf
  <1> HIDE DEF u, r
  <1>7. /\ HeadOf(u, d) = HeadOf(s, d) /\ TailOf(u, d) = TailOf(s, d) /\ SizeOf(u, d) = SizeOf(s, d)
        /\ SizeOf(u, d) + 1 \in Nat /\ HeadOf(u, d) \in Place /\ TailOf(u, d) \in Place
    <2>1. /\ HeadOf(u, d) = HeadOf(s, d) /\ TailOf(u, d) = TailOf(s, d) /\ SizeOf(u, d) = SizeOf(s, d)
      BY <1>4, <1>5 DEF NodeWritten, SameEnds
    <2> QED
      BY <1>5, <2>1, FieldTypes
  <1>8. EndsWritten(u, d, v, IF t = NULL THEN v ELSE TailOf(u, d), SizeOf(u, d) + 1, r)
    <2>1. (v) \in Place /\ (IF t = NULL THEN v ELSE TailOf(u, d)) \in Place
      BY <1>3, <1>7
    <2> QED
      BY <1>5, <1>6, <1>7, <2>1, WriteEnds
  <1>9. \A n \in Item : NextOf(r, n) = IF n = At(c, 0) THEN v ELSE IF n = v THEN At(c, 1) ELSE NextOf(s, n)
    BY <1>1, <1>2, <1>4, <1>5, <1>8, NodesAssumption DEF EndsWritten, NodeWritten
  <1>10. \A n \in Item : PrevOf(r, n) = IF n = At(c, 1) THEN v ELSE IF n = v THEN At(c, 0) ELSE PrevOf(s, n)
    BY <1>1, <1>2, <1>4, <1>5, <1>8, NodesAssumption DEF EndsWritten, NodeWritten
  <1>11. /\ r \in Mem /\ HeadOf(r, d) = (IF 0 = 0 THEN v ELSE HeadOf(s, d)) /\ TailOf(r, d) = (IF 0 = Len(c) THEN v ELSE TailOf(s, d))
         /\ SizeOf(r, d) = SizeOf(s, d) + 1
    BY <1>1, <1>7, <1>8 DEF EndsWritten
  <1>12. \A e \in Handle \ {d} : HeadOf(r, e) = HeadOf(s, e) /\ TailOf(r, e) = TailOf(s, e) /\ SizeOf(r, e) = SizeOf(s, e)
    BY <1>4, <1>5, <1>8 DEF EndsWritten, NodeWritten, SameEnds
  <1>13. Len(<<v>>) = 1 /\ <<v>>[1] = v
    OBVIOUS
  <1> QED
    BY <1>9, <1>10, <1>11, <1>12, <1>13 DEF Woven, r

LEMMA WriteSize ==
  ASSUME NEW u, u \in Mem, NEW d \in Handle, NEW k, k \in Nat
  PROVE  EndsWritten(u, d, HeadOf(u, d), TailOf(u, d), k, [u EXCEPT !.size[d] = k])
  BY DEF Mem, EndsWritten, NextOf, PrevOf, HeadOf, TailOf, SizeOf

LEMMA InsertedMidWeaves ==
  ASSUME NEW s, NEW d \in Handle, NEW c, NEW L, ListIs(s, d, c, L), NEW v \in Item, v \notin Nodes(c),
         NEW i \in 1 .. Len(c) - 1
  PROVE  /\ Woven(s, InsertedMid(s, d, c[i + 1], v), d, c, i, <<v>>)
         /\ SizeOf(InsertedMid(s, d, c[i + 1], v), d) = SizeOf(s, d) + 1
         /\ \A e \in Handle \ {d} : SizeOf(InsertedMid(s, d, c[i + 1], v), e) = SizeOf(s, e)
  <1> DEFINE b == c[i + 1]
             a == PrevOf(s, b)
             u == Linked(s, a, v)
             w == Linked(u, v, b)
             r == InsertedMid(s, d, b, v)
  <1> USE NodesAssumption
  <1>1. /\ s \in Mem /\ c \in Seq(Item) /\ Len(c) \in Nat /\ i \in 1 .. Len(c) /\ i + 1 \in 1 .. Len(c)
        /\ i # 0 /\ i # Len(c) /\ (i + 1) - 1 = i
        /\ b \in Item /\ c[i] \in Item
    <2>1. s \in Mem /\ c \in Seq(Item) /\ Len(c) \in Nat
      BY EndsOfList
    <2> QED
      BY <2>1
  <1>2. a = c[i] /\ a # b /\ a # v /\ b # v
    <2>1. a = At(c, (i + 1) - 1)
      BY <1>1, EndsOfList
    <2>2. a = c[i]
      BY <1>1, <2>1 DEF At
    <2>3. c[i] # c[i + 1]
      <3>1. Distinct(c) /\ i # i + 1
        BY EndsOfList
      <3> QED
        BY <1>1, <3>1 DEF Distinct
    <2> HIDE DEF a
    <2> QED
      BY <1>1, <2>2, <2>3 DEF Nodes
  <1> HIDE DEF b, a
  <1>3. a \in Item /\ At(c, i) = a /\ At(c, i + 1) = b /\ a \in Place /\ b \in Place /\ v \in Place
    BY <1>1, <1>2 DEF At, b, Place
  <1>4. /\ u \in Mem /\ SameEnds(s, u)
        /\ \A n \in Item : NextOf(u, n) = IF n = a THEN v ELSE NextOf(s, n)
        /\ \A n \in Item : PrevOf(u, n) = IF n = v THEN a ELSE PrevOf(s, n)
    BY <1>1, <1>3, LinkedFields
  <1> HIDE DEF u
  <1>5. /\ w \in Mem /\ SameEnds(u, w)
        /\ \A n \in Item : NextOf(w, n) = IF n = v THEN b ELSE NextOf(u, n)
        /\ \A n \in Item : PrevOf(w, n) = IF n = b THEN v ELSE PrevOf(u, n)
    BY <1>3, <1>4, LinkedFields
  <1>6. r = [w EXCEPT !.size[d] = SizeOf(w, d) + 1]
    BY DEF InsertedMid, u, a, PrevOf, SizeOf
  <1> HIDE DEF w, r
  <1>7. EndsWritten(w, d, HeadOf(w, d), TailOf(w, d), SizeOf(w, d) + 1, r)
    <2>1. SizeOf(w, d) + 1 \in Nat
      BY <1>5, FieldTypes
    <2> QED
      BY <1>5, <1>6, <2>1, WriteSize
  <1>8. Len(<<v>>) = 1 /\ <<v>>[1] = v
    OBVIOUS
  <1>9. \A n \in Item : NextOf(r, n) = IF n = At(c, i) THEN v ELSE IF n = v THEN At(c, i + 1) ELSE NextOf(s, n)
    BY <1>2, <1>3, <1>4, <1>5, <1>7 DEF EndsWritten
  <1>10. \A n \in Item : PrevOf(r, n) = IF n = At(c, i + 1) THEN v ELSE IF n = v THEN At(c, i) ELSE PrevOf(s, n)
    BY <1>2, <1>3, <1>4, <1>5, <1>7 DEF EndsWritten
  <1>11. r \in Mem /\ HeadOf(r, d) = HeadOf(s, d) /\ TailOf(r, d) = TailOf(s, d) /\ SizeOf(r, d) = SizeOf(s, d) + 1
    BY <1>4, <1>5, <1>7 DEF EndsWritten, SameEnds
  <1>12. \A e \in Handle \ {d} : HeadOf(r, e) = HeadOf(s, e) /\ TailOf(r, e) = TailOf(s, e) /\ SizeOf(r, e) = SizeOf(s, e)
    BY <1>4, <1>5, <1>7 DEF EndsWritten, SameEnds
  <1> QED
    BY <1>1, <1>8, <1>9, <1>10, <1>11, <1>12 DEF Woven, r, b

(* insert before the node at a place of the list, or at its end.           *)
LEMMA InsertedBeforeWeaves ==
  ASSUME NEW s, NEW d \in Handle, NEW c, NEW L, ListIs(s, d, c, L), NEW v \in Item, v \notin Nodes(c),
         NEW i \in 0 .. Len(c)
  PROVE  /\ Woven(s, InsertedBefore(s, d, At(c, i + 1), v), d, c, i, <<v>>)
         /\ SizeOf(InsertedBefore(s, d, At(c, i + 1), v), d) = SizeOf(s, d) + 1
         /\ \A e \in Handle \ {d} : SizeOf(InsertedBefore(s, d, At(c, i + 1), v), e) = SizeOf(s, e)
  <1> DEFINE b == At(c, i + 1)
  <1>1. /\ c \in Seq(Item) /\ Len(c) \in Nat /\ Distinct(c) /\ HeadOf(s, d) = At(c, 1)
        /\ i \in Nat /\ i <= Len(c) /\ i + 1 \in Int
    BY EndsOfList
  <1>2. b = HeadOf(s, d) => i = 0
    <2> SUFFICES ASSUME b = At(c, 1), i # 0 PROVE FALSE
      BY <1>1
    <2>1. Len(c) >= 1 /\ 1 \in 1 .. Len(c) /\ At(c, 1) # NULL /\ At(c, 1) = c[1]
      BY <1>1, AtTypes
    <2>2. i + 1 <= Len(c) /\ b = c[i + 1] /\ i + 1 \in 1 .. Len(c)
      BY <1>1, <2>1, AtTypes
    <2>3. i + 1 = 1
      BY <1>1, <2>1, <2>2 DEF Distinct
    <2> QED
      BY <1>1, <2>3
  <1>3. i = 0 => b = HeadOf(s, d)
    BY <1>1
  <1>4. b = NULL <=> i = Len(c)
    BY <1>1, AtTypes
  <1>5. b # NULL => b = c[i + 1]
    BY DEF At
  <1> HIDE DEF b
  <1>6. CASE b = HeadOf(s, d)
    <2>1. InsertedBefore(s, d, b, v) = PushedFront(s, d, v)
      BY <1>6 DEF InsertedBefore, HeadOf
    <2> QED
      BY <1>2, <1>6, <2>1, PushedFrontWeaves DEF b
  <1>7. CASE b # HeadOf(s, d) /\ b = NULL
    <2>1. InsertedBefore(s, d, b, v) = PushedBack(s, d, v)
      BY <1>7 DEF InsertedBefore, HeadOf
    <2> QED
      BY <1>4, <1>7, <2>1, PushedBackWeaves DEF b
  <1>8. CASE b # HeadOf(s, d) /\ b # NULL
    <2>1. InsertedBefore(s, d, b, v) = InsertedMid(s, d, b, v)
      BY <1>8 DEF InsertedBefore, HeadOf
    <2>2. i \in 1 .. Len(c) - 1
      BY <1>1, <1>3, <1>4, <1>8
    <2> DEFINE r == InsertedMid(s, d, c[i + 1], v)
    <2>3. /\ Woven(s, r, d, c, i, <<v>>) /\ SizeOf(r, d) = SizeOf(s, d) + 1
          /\ \A e \in Handle \ {d} : SizeOf(r, e) = SizeOf(s, e)
      BY <2>2, InsertedMidWeaves
    <2>4. InsertedBefore(s, d, b, v) = r
      BY <1>5, <1>8, <2>1
    <2> HIDE DEF r
    <2> QED
      BY <2>3, <2>4 DEF b
  <1> QED
    BY <1>6, <1>7, <1>8

(* Node i of the list d is taken out and freed, and size counts one less.  *)
Erases(s, r, d, c, i) ==
  /\ CutOut(s, r, d, c, i - 1, i, {c[i]})
  /\ SizeOf(r, d) = SizeOf(s, d) - 1
  /\ \A e \in Handle \ {d} : SizeOf(r, e) = SizeOf(s, e)

LEMMA PoppedBackCuts ==
  ASSUME NEW s, NEW d \in Handle, NEW c, NEW L, ListIs(s, d, c, L), Len(c) # 0, SizeOf(s, d) = Len(c)
  PROVE  Erases(s, PoppedBack(s, d), d, c, Len(c))
  <1> DEFINE v == c[Len(c)]
             t == At(c, Len(c) - 1)
             w == FreeNode(s, v)
             u == SetNext(w, t, NULL)
             r == PoppedBack(s, d)
  <1>1. /\ s \in Mem /\ c \in Seq(Item) /\ Len(c) \in Nat /\ Len(c) \in 1 .. Len(c) /\ v \in Item
        /\ TailOf(s, d) = v /\ PrevOf(s, v) = t /\ t \in Place /\ (t = NULL <=> Len(c) = 1)
        /\ At(c, Len(c) + 1) = NULL /\ t # v
    <2>1. s \in Mem /\ c \in Seq(Item) /\ Len(c) \in Nat /\ TailOf(s, d) = At(c, Len(c)) /\ Distinct(c)
      BY EndsOfList
    <2>2. Len(c) \in 1 .. Len(c) /\ 1 \in 1 .. Len(c)
      BY <2>1
    <2>3. At(c, Len(c)) = v /\ v \in Item /\ v # NULL
      BY <2>1, <2>2, NodesAssumption DEF At
    <2>4. PrevOf(s, v) = t
      BY <2>2, EndsOfList
    <2>5. t \in Place /\ (t = NULL <=> Len(c) = 1) /\ At(c, Len(c) + 1) = NULL
      BY <2>1, <2>2, AtTypes
    <2>6. t # v
      <3>1. Len(c) - 1 \in 1 .. Len(c) => c[Len(c) - 1] # c[Len(c)]
        BY <2>1, <2>2 DEF Distinct
      <3> QED
        BY <2>3, <3>1 DEF At
    <2> HIDE DEF v, t
    <2> QED
      BY <2>1, <2>2, <2>3, <2>4, <2>5, <2>6
  <1> HIDE DEF v, t
  <1>2. NodeWritten(s, v, Junk, Junk, w) /\ NULL \in Link /\ NULL \in Place
    BY <1>1, WriteNode DEF FreeNode, Link, Place
  <1> HIDE DEF w
  <1>3. w \in Mem
    BY <1>2 DEF NodeWritten
  <1>4. /\ u \in Mem /\ SameEnds(w, u)
        /\ \A n \in Item : NextOf(u, n) = IF n = t THEN NULL ELSE NextOf(w, n)
        /\ \A n \in Item : PrevOf(u, n) = PrevOf(w, n)
    BY <1>1, <1>2, <1>3, SetNextFields
  <1>5. r = [u EXCEPT !.head[d] = IF t = NULL THEN NULL ELSE HeadOf(u, d), !.tail[d] = t,
                      !.size[d] = SizeOf(u, d) - 1]
    BY <1>1 DEF PoppedBack, w, HeadOf, TailOf, SizeOf, NextOf, PrevOf
  <1> HIDE DEF u, r
  <1>6. /\ HeadOf(u, d) = HeadOf(s, d) /\ TailOf(u, d) = TailOf(s, d) /\ SizeOf(u, d) = SizeOf(s, d)
        /\ SizeOf(u, d) - 1 \in Nat /\ HeadOf(u, d) \in Place /\ TailOf(u, d) \in Place
    <2>1. /\ HeadOf(u, d) = HeadOf(s, d) /\ TailOf(u, d) = TailOf(s, d) /\ SizeOf(u, d) = SizeOf(s, d)
      BY <1>2, <1>4 DEF NodeWritten, SameEnds
    <2> QED
      BY <1>1, <1>4, <2>1, FieldTypes
  <1>7. EndsWritten(u, d, IF t = NULL THEN NULL ELSE HeadOf(u, d), t, SizeOf(u, d) - 1, r)
    <2>1. (IF t = NULL THEN NULL ELSE HeadOf(u, d)) \in Place /\ (t) \in Place
      BY <1>1, <1>2, <1>6
    <2> QED
      BY <1>4, <1>5, <1>6, <2>1, WriteEnds
  <1>8. \A n \in Item : NextOf(r, n) = IF n \in {v} THEN Junk ELSE IF n = t THEN At(c, Len(c) + 1) ELSE NextOf(s, n)
    BY <1>1, <1>2, <1>4, <1>7, NodesAssumption DEF EndsWritten, NodeWritten
  <1>9. \A n \in Item : PrevOf(r, n) = IF n \in {v} THEN Junk ELSE IF n = At(c, Len(c) + 1) THEN t ELSE PrevOf(s, n)
    BY <1>1, <1>2, <1>4, <1>7, NodesAssumption DEF EndsWritten, NodeWritten
  <1>10. /\ r \in Mem /\ SizeOf(r, d) = SizeOf(s, d) - 1
         /\ HeadOf(r, d) = (IF Len(c) - 1 = 0 THEN At(c, Len(c) + 1) ELSE HeadOf(s, d))
         /\ TailOf(r, d) = (IF Len(c) = Len(c) THEN t ELSE TailOf(s, d))
    BY <1>1, <1>6, <1>7 DEF EndsWritten
  <1>11. \A e \in Handle \ {d} : HeadOf(r, e) = HeadOf(s, e) /\ TailOf(r, e) = TailOf(s, e) /\ SizeOf(r, e) = SizeOf(s, e)
    BY <1>2, <1>4, <1>7 DEF EndsWritten, NodeWritten, SameEnds
  <1>12. At(c, Len(c) - 1) = t /\ At(c, Len(c) + 1) = At(c, Len(c) + 1)
    BY <1>1 DEF t
  <1> QED
    BY <1>8, <1>9, <1>10, <1>11, <1>12 DEF Erases, CutOut, r, v


LEMMA PoppedFrontCuts ==
  ASSUME NEW s, NEW d \in Handle, NEW c, NEW L, ListIs(s, d, c, L), Len(c) # 0, SizeOf(s, d) = Len(c)
  PROVE  Erases(s, PoppedFront(s, d), d, c, 1)
  <1> DEFINE v == c[1]
             t == At(c, 2)
             w == FreeNode(s, v)
             u == SetPrev(w, t, NULL)
             r == PoppedFront(s, d)
  <1>1. /\ s \in Mem /\ c \in Seq(Item) /\ Len(c) \in Nat /\ 1 \in 1 .. Len(c) /\ v \in Item
        /\ HeadOf(s, d) = v /\ NextOf(s, v) = t /\ t \in Place /\ (t = NULL <=> Len(c) = 1)
        /\ At(c, 0) = NULL /\ t # v
    <2>1. s \in Mem /\ c \in Seq(Item) /\ Len(c) \in Nat /\ HeadOf(s, d) = At(c, 1) /\ Distinct(c)
      BY EndsOfList
    <2>2. 1 \in 1 .. Len(c) /\ 1 \in 1 .. Len(c)
      BY <2>1
    <2>3. At(c, 1) = v /\ v \in Item /\ v # NULL
      BY <2>1, <2>2, NodesAssumption DEF At
    <2>4. NextOf(s, v) = t
      BY <2>2, EndsOfList
    <2>5. t \in Place /\ (t = NULL <=> Len(c) = 1) /\ At(c, 0) = NULL
      BY <2>1, <2>2, AtTypes
    <2>6. t # v
      <3>1. 2 \in 1 .. Len(c) => c[2] # c[1]
        BY <2>1, <2>2 DEF Distinct
      <3> QED
        BY <2>3, <3>1 DEF At
    <2> HIDE DEF v, t
    <2> QED
      BY <2>1, <2>2, <2>3, <2>4, <2>5, <2>6
  <1> HIDE DEF v, t
  <1>2. NodeWritten(s, v, Junk, Junk, w) /\ NULL \in Link /\ NULL \in Place
    BY <1>1, WriteNode DEF FreeNode, Link, Place
  <1> HIDE DEF w
  <1>3. w \in Mem
    BY <1>2 DEF NodeWritten
  <1>4. /\ u \in Mem /\ SameEnds(w, u)
        /\ \A n \in Item : PrevOf(u, n) = IF n = t THEN NULL ELSE PrevOf(w, n)
        /\ \A n \in Item : NextOf(u, n) = NextOf(w, n)
    BY <1>1, <1>2, <1>3, SetPrevFields
  <1>5. r = [u EXCEPT !.head[d] = t, !.tail[d] = IF t = NULL THEN NULL ELSE TailOf(u, d),
                      !.size[d] = SizeOf(u, d) - 1]
    BY <1>1 DEF PoppedFront, w, HeadOf, TailOf, SizeOf, NextOf, PrevOf
  <1> HIDE DEF u, r
  <1>6. /\ HeadOf(u, d) = HeadOf(s, d) /\ TailOf(u, d) = TailOf(s, d) /\ SizeOf(u, d) = SizeOf(s, d)
        /\ SizeOf(u, d) - 1 \in Nat /\ HeadOf(u, d) \in Place /\ TailOf(u, d) \in Place
    <2>1. /\ HeadOf(u, d) = HeadOf(s, d) /\ TailOf(u, d) = TailOf(s, d) /\ SizeOf(u, d) = SizeOf(s, d)
      BY <1>2, <1>4 DEF NodeWritten, SameEnds
    <2> QED
      BY <1>1, <1>4, <2>1, FieldTypes
  <1>7. EndsWritten(u, d, t, IF t = NULL THEN NULL ELSE TailOf(u, d), SizeOf(u, d) - 1, r)
    <2>1. (t) \in Place /\ (IF t = NULL THEN NULL ELSE TailOf(u, d)) \in Place
      BY <1>1, <1>2, <1>6
    <2> QED
      BY <1>4, <1>5, <1>6, <2>1, WriteEnds
  <1>8. \A n \in Item : NextOf(r, n) = IF n \in {v} THEN Junk ELSE IF n = At(c, 0) THEN t ELSE NextOf(s, n)
    BY <1>1, <1>2, <1>4, <1>7, NodesAssumption DEF EndsWritten, NodeWritten
  <1>9. \A n \in Item : PrevOf(r, n) = IF n \in {v} THEN Junk ELSE IF n = t THEN At(c, 0) ELSE PrevOf(s, n)
    BY <1>1, <1>2, <1>4, <1>7, NodesAssumption DEF EndsWritten, NodeWritten
  <1>10. /\ r \in Mem /\ SizeOf(r, d) = SizeOf(s, d) - 1
         /\ HeadOf(r, d) = (IF 0 = 0 THEN t ELSE HeadOf(s, d))
         /\ TailOf(r, d) = (IF 1 = Len(c) THEN At(c, 0) ELSE TailOf(s, d))
    BY <1>1, <1>6, <1>7 DEF EndsWritten
  <1>11. \A e \in Handle \ {d} : HeadOf(r, e) = HeadOf(s, e) /\ TailOf(r, e) = TailOf(s, e) /\ SizeOf(r, e) = SizeOf(s, e)
    BY <1>2, <1>4, <1>7 DEF EndsWritten, NodeWritten, SameEnds
  <1>12. At(c, 0) = At(c, 0) /\ At(c, 1 + 1) = t
    BY <1>1 DEF t
  <1> QED
    BY <1>8, <1>9, <1>10, <1>11, <1>12 DEF Erases, CutOut, r, v

ErasedMid(s, d, n) == [FreeNode(Linked(s, s.prev[n], s.next[n]), n) EXCEPT !.size[d] = @ - 1]

LEMMA ErasedMidCuts ==
  ASSUME NEW s, NEW d \in Handle, NEW c, NEW L, ListIs(s, d, c, L), SizeOf(s, d) = Len(c),
         NEW i \in 2 .. Len(c) - 1
  PROVE  Erases(s, ErasedMid(s, d, c[i]), d, c, i)
  <1> DEFINE v == c[i]
             a == At(c, i - 1)
             b == At(c, i + 1)
             u == Linked(s, a, b)
             w == FreeNode(u, v)
             r == ErasedMid(s, d, v)
  <1>1. /\ s \in Mem /\ c \in Seq(Item) /\ Len(c) \in Nat /\ i \in 1 .. Len(c) /\ v \in Item
        /\ PrevOf(s, v) = a /\ NextOf(s, v) = b /\ a \in Item /\ b \in Item /\ a # v /\ b # v
        /\ i - 1 # 0 /\ i # Len(c)
    <2>1. s \in Mem /\ c \in Seq(Item) /\ Len(c) \in Nat /\ Distinct(c)
      BY EndsOfList
    <2>2. i \in 1 .. Len(c) /\ i - 1 \in 1 .. Len(c) /\ i + 1 \in 1 .. Len(c) /\ i # i - 1 /\ i # i + 1
      BY <2>1
    <2>3. a = c[i - 1] /\ b = c[i + 1]
      BY <2>2 DEF At
    <2>4. c[i - 1] # c[i] /\ c[i + 1] # c[i]
      BY <2>2, <2>1 DEF Distinct
    <2>5. PrevOf(s, v) = a /\ NextOf(s, v) = b
      BY <2>2, EndsOfList
    <2>6. c[i] \in Item /\ c[i - 1] \in Item /\ c[i + 1] \in Item /\ i - 1 # 0 /\ i # Len(c)
      BY <2>1, <2>2
    <2> QED
      BY <2>1, <2>2, <2>3, <2>4, <2>5, <2>6
  <1> HIDE DEF v, a, b
  <1>2. a \in Place /\ b \in Place /\ Junk \in Link
    BY <1>1 DEF Place, Link
  <1>3. /\ u \in Mem /\ SameEnds(s, u)
        /\ \A n \in Item : NextOf(u, n) = IF n = a THEN b ELSE NextOf(s, n)
        /\ \A n \in Item : PrevOf(u, n) = IF n = b THEN a ELSE PrevOf(s, n)
    BY <1>1, <1>2, LinkedFields
  <1>4. r = [w EXCEPT !.size[d] = SizeOf(w, d) - 1]
    BY <1>1 DEF SizeOf, ErasedMid, PrevOf, NextOf
  <1> HIDE DEF u
  <1> HIDE DEF r
  <1>5. NodeWritten(u, v, Junk, Junk, w)
    BY <1>1, <1>2, <1>3, WriteNode DEF FreeNode
  <1> HIDE DEF w
  <1>6. EndsWritten(w, d, HeadOf(w, d), TailOf(w, d), SizeOf(w, d) - 1, r)
    <2>1. w \in Mem /\ SizeOf(w, d) = SizeOf(s, d)
      BY <1>3, <1>5 DEF NodeWritten, SameEnds
    <2>2. SizeOf(w, d) - 1 \in Nat
      BY <1>1, <2>1
    <2> QED
      BY <1>4, <2>1, <2>2, WriteSize
  <1>7. \A n \in Item : NextOf(r, n) = IF n \in {v} THEN Junk ELSE IF n = a THEN b ELSE NextOf(s, n)
    BY <1>3, <1>5, <1>6 DEF EndsWritten, NodeWritten
  <1>8. \A n \in Item : PrevOf(r, n) = IF n \in {v} THEN Junk ELSE IF n = b THEN a ELSE PrevOf(s, n)
    BY <1>3, <1>5, <1>6 DEF EndsWritten, NodeWritten
  <1>9. r \in Mem /\ SizeOf(r, d) = SizeOf(s, d) - 1 /\ HeadOf(r, d) = HeadOf(s, d) /\ TailOf(r, d) = TailOf(s, d)
    BY <1>3, <1>5, <1>6 DEF EndsWritten, NodeWritten, SameEnds
  <1>10. \A e \in Handle \ {d} : HeadOf(r, e) = HeadOf(s, e) /\ TailOf(r, e) = TailOf(s, e) /\ SizeOf(r, e) = SizeOf(s, e)
    BY <1>3, <1>5, <1>6 DEF EndsWritten, NodeWritten, SameEnds
  <1> QED
    BY <1>1, <1>7, <1>8, <1>9, <1>10 DEF Erases, CutOut, a, b, v, r

LEMMA ErasedNodeCuts ==
  ASSUME NEW s, NEW d \in Handle, NEW c, NEW L, ListIs(s, d, c, L), SizeOf(s, d) = Len(c),
         NEW i \in 1 .. Len(c)
  PROVE  Erases(s, ErasedNode(s, d, c[i]), d, c, i)
  <1>1. /\ c \in Seq(Item) /\ Len(c) \in Nat /\ Distinct(c) /\ Len(c) # 0
        /\ HeadOf(s, d) = c[1] /\ TailOf(s, d) = c[Len(c)] /\ 1 \in 1 .. Len(c) /\ Len(c) \in 1 .. Len(c)
    <2>1. /\ c \in Seq(Item) /\ Len(c) \in Nat /\ Distinct(c)
          /\ HeadOf(s, d) = At(c, 1) /\ TailOf(s, d) = At(c, Len(c))
      BY EndsOfList
    <2>2. 1 \in 1 .. Len(c) /\ Len(c) \in 1 .. Len(c) /\ Len(c) # 0
      BY <2>1
    <2> QED
      BY <2>1, <2>2 DEF At
  <1>2. (c[i] = c[Len(c)] => i = Len(c)) /\ (c[i] = c[1] => i = 1)
    BY <1>1 DEF Distinct
  <1>3. CASE i = Len(c)
    <2>1. ErasedNode(s, d, c[i]) = PoppedBack(s, d)
      BY <1>1, <1>3 DEF ErasedNode, TailOf
    <2>2. Erases(s, PoppedBack(s, d), d, c, Len(c))
      BY <1>1, PoppedBackCuts
    <2> QED
      BY <1>3, <2>1, <2>2
  <1>4. CASE i # Len(c) /\ i = 1
    <2>1. ErasedNode(s, d, c[i]) = PoppedFront(s, d)
      BY <1>1, <1>2, <1>4 DEF ErasedNode, TailOf, HeadOf
    <2>2. Erases(s, PoppedFront(s, d), d, c, 1)
      BY <1>1, PoppedFrontCuts
    <2> QED
      BY <1>4, <2>1, <2>2
  <1>5. CASE i # Len(c) /\ i # 1
    <2>1. ErasedNode(s, d, c[i]) = ErasedMid(s, d, c[i])
      BY <1>1, <1>2, <1>5 DEF ErasedNode, TailOf, HeadOf, ErasedMid
    <2>2. i \in 2 .. Len(c) - 1
      BY <1>1, <1>5
    <2> QED
      BY <2>1, <2>2, ErasedMidCuts
  <1> QED
    BY <1>3, <1>4, <1>5

-----------------------------------------------------------------------------
(* The memory holds the lists C and nothing else is allocated.             *)
Good(s, C) == Holds(s, C, {}) /\ Sized(s, C)

LEMMA GoodList ==
  ASSUME NEW s, NEW C, Good(s, C), NEW d \in Handle
  PROVE  /\ ListIs(s, d, C[d], {})
         /\ C[d] \in Seq(Item) /\ Len(C[d]) \in Nat /\ Distinct(C[d]) /\ s \in Mem
         /\ SizeOf(s, d) = Len(C[d])
  <1>1. ListIs(s, d, C[d], {}) /\ SizeOf(s, d) = Len(C[d])
    BY HeldList DEF Good, Sized
  <1> QED
    BY <1>1, EndsOfList

LEMMA SizedAfter ==
  ASSUME NEW s, NEW C, Holds(s, C, {}), NEW d \in Handle, NEW r, NEW c2, SizeOf(r, d) = Len(c2),
         \A e \in Handle \ {d} : SizeOf(r, e) = Len(C[e])
  PROVE  Sized(r, [C EXCEPT ![d] = c2])
  BY DEF Holds, Sized

LEMMA InsertGood ==
  ASSUME NEW s, NEW C, Good(s, C), NEW d \in Handle, NEW v \in Item, \A e \in Handle : v \notin Nodes(C[e]),
         NEW i \in 0 .. Len(C[d]), NEW c2, WithBlock(C[d], i, <<v>>, c2),
         NEW r, Woven(s, r, d, C[d], i, <<v>>), SizeOf(r, d) = SizeOf(s, d) + 1,
         \A e \in Handle \ {d} : SizeOf(r, e) = SizeOf(s, e)
  PROVE  Good(r, [C EXCEPT ![d] = c2])
  <1> DEFINE c == C[d]
             y == <<v>>
  <1>1. /\ ListIs(s, d, c, {}) /\ c \in Seq(Item) /\ Len(c) \in Nat /\ SizeOf(s, d) = Len(c)
    BY GoodList
  <1>2. /\ y \in Seq(Item) /\ Distinct(y) /\ Len(y) = 1 /\ y # <<>> /\ Nodes(y) = {v}
    BY DEF Distinct, Nodes
  <1>3. NextOf(s, v) = Junk
    BY DEF Good, Holds
  <1>4. Inner(s, y)
    BY <1>2 DEF Inner
  <1> HIDE DEF y
  <1>5. Remade(s, r, d, c, {}, c2, {} \ Nodes(y))
    <2>1. WithBlock(c, i, y, c2) /\ Woven(s, r, d, c, i, y)
      BY DEF y
    <2>2. Nodes(y) \cap Nodes(c) = {} /\ \A n \in Nodes(y) : n \in {} \/ NextOf(s, n) = Junk
      BY <1>2, <1>3
    <2> HIDE DEF c
    <2>3. i \in 0 .. Len(c)
      BY DEF c
    <2> QED
      BY <1>1, <1>2, <1>4, <2>1, <2>2, <2>3, Weave
  <1>6. {} \ Nodes(y) = {}
    OBVIOUS
  <1>7. Holds(r, [C EXCEPT ![d] = c2], {})
    BY <1>5, <1>6, HoldsAfter DEF Good
  <1>8. Len(c2) = Len(c) + 1
    BY <1>2 DEF WithBlock, y
  <1>9. SizeOf(r, d) = Len(c2) /\ \A e \in Handle \ {d} : SizeOf(r, e) = Len(C[e])
    BY <1>1, <1>8 DEF Good, Sized
  <1>10. Sized(r, [C EXCEPT ![d] = c2])
    BY <1>9, SizedAfter DEF Good
  <1> QED
    BY <1>7, <1>10 DEF Good

LEMMA EraseGood ==
  ASSUME NEW s, NEW C, Good(s, C), NEW d \in Handle, NEW i \in 1 .. Len(C[d]),
         NEW c2, WithoutBlock(C[d], i - 1, i, c2), NEW r, Erases(s, r, d, C[d], i)
  PROVE  Good(r, [C EXCEPT ![d] = c2])
  <1> DEFINE c == C[d]
  <1>1. /\ ListIs(s, d, c, {}) /\ c \in Seq(Item) /\ Len(c) \in Nat /\ SizeOf(s, d) = Len(c)
    BY GoodList
  <1>2. Erases(s, r, d, c, i) /\ WithoutBlock(c, i - 1, i, c2) /\ i \in 1 .. Len(c)
    OBVIOUS
  <1> HIDE DEF c
  <1>3. i - 1 \in 0 .. Len(c) /\ i \in i - 1 .. Len(c) /\ i - (i - 1) = 1
    BY <1>1, <1>2
  <1>4. Block(c, i - 1, i) = {c[i]}
    <2>1. (i - 1) + 1 .. i = {i}
      BY <1>1, <1>2
    <2> QED
      BY <2>1 DEF Block
  <1>5. Remade(s, r, d, c, {}, c2, {} \cup (Block(c, i - 1, i) \ {c[i]}))
    <2>1. CutOut(s, r, d, c, i - 1, i, {c[i]}) /\ {c[i]} \in SUBSET Block(c, i - 1, i)
      BY <1>2, <1>4 DEF Erases
    <2> QED
      BY <1>1, <1>2, <1>3, <2>1, Cut
  <1>6. {} \cup (Block(c, i - 1, i) \ {c[i]}) = {}
    BY <1>4
  <1>7. Holds(r, [C EXCEPT ![d] = c2], {})
    BY <1>5, <1>6, HoldsAfter DEF Good, c
  <1>8. Len(c2) = Len(c) - 1
    BY <1>1, <1>2, <1>3 DEF WithoutBlock
  <1>9. SizeOf(r, d) = Len(c2) /\ \A e \in Handle \ {d} : SizeOf(r, e) = Len(C[e])
    BY <1>1, <1>2, <1>8 DEF Good, Sized, Erases
  <1>10. Sized(r, [C EXCEPT ![d] = c2])
    BY <1>9, SizedAfter DEF Good
  <1> QED
    BY <1>7, <1>10 DEF Good

LEMMA AppendWithBlock ==
  ASSUME NEW c \in Seq(Item), NEW v \in Item
  PROVE  WithBlock(c, Len(c), <<v>>, Append(c, v))
  <1>1. Append(c, v) \in Seq(Item) /\ Len(Append(c, v)) = Len(c) + 1 /\ Len(c) \in Nat
    OBVIOUS
  <1>2. ASSUME NEW j \in 1 .. Len(c) + 1
        PROVE  Append(c, v)[j] = IF j <= Len(c) THEN c[j] ELSE v
    BY <1>1
  <1>3. Len(<<v>>) = 1 /\ <<v>>[1] = v
    OBVIOUS
  <1>4. \A j \in 1 .. Len(c) + 1 : ~ (j <= Len(c)) => j <= Len(c) + 1 /\ j - Len(c) = 1
    BY <1>1
  <1> QED
    BY <1>1, <1>2, <1>3, <1>4 DEF WithBlock

LEMMA ConsWithBlock ==
  ASSUME NEW c \in Seq(Item), NEW v \in Item
  PROVE  WithBlock(c, 0, <<v>>, <<v>> \o c)
  <1>1. <<v>> \in Seq(Item) /\ Len(<<v>>) = 1 /\ <<v>>[1] = v /\ Len(c) \in Nat
    OBVIOUS
  <1>2. <<v>> \o c \in Seq(Item) /\ Joined(<<v>> \o c, <<v>>, c)
    BY <1>1, ConcatJoins
  <1> DEFINE w == <<v>> \o c
  <1>3. Len(w) = Len(c) + 1 /\ \A j \in 1 .. Len(c) + 1 : w[j] = IF j <= 1 THEN <<v>>[j] ELSE c[j - 1]
    BY <1>1, <1>2 DEF Joined
  <1> HIDE DEF w
  <1>4. \A j \in 1 .. Len(c) + 1 : ~ (j <= 0) /\ j - 0 = j
    BY <1>1
  <1> QED
    BY <1>1, <1>2, <1>3, <1>4 DEF WithBlock, w

LEMMA InsertAtWithBlock ==
  ASSUME NEW c \in Seq(Item), NEW i \in 0 .. Len(c), NEW v \in Item
  PROVE  WithBlock(c, i, <<v>>, InsertAt(c, i + 1, v))
  <1> DEFINE w == InsertAt(c, i + 1, v)
  <1>1. Len(<<v>>) = 1 /\ <<v>>[1] = v /\ Len(c) \in Nat /\ i \in Nat /\ i <= Len(c)
    OBVIOUS
  <1>2. w = [j \in 1 .. Len(c) + 1 |-> IF j <= i THEN c[j] ELSE IF j = i + 1 THEN v ELSE c[j - 1]]
    BY InsertAtItems
  <1> HIDE DEF w
  <1>3. \A j \in 1 .. Len(c) + 1 : w[j] \in Item
    BY <1>1, <1>2
  <1>4. w \in Seq(Item) /\ Len(w) = Len(c) + 1
    BY <1>1, <1>2, <1>3, IsASeq
  <1>5. \A j \in 1 .. Len(c) + 1 : (j = i + 1 <=> ~ (j <= i) /\ j <= i + 1) /\ (j = i + 1 => j - i = 1)
    BY <1>1
  <1> QED
    BY <1>1, <1>2, <1>4, <1>5 DEF WithBlock, w

LEMMA RemoveAtWithoutBlock ==
  ASSUME NEW c \in Seq(Item), NEW i \in 1 .. Len(c)
  PROVE  /\ WithoutBlock(c, i - 1, i, RemoveAt(c, i))
         /\ i = 1 => RemoveAt(c, i) = Tail(c)
         /\ i = Len(c) => RemoveAt(c, i) = Front(c)
  <1> DEFINE w == RemoveAt(c, i)
  <1>1. Len(c) \in Nat /\ i \in Nat /\ i <= Len(c) /\ 1 <= i /\ (i - 1) + 1 = i /\ i - 1 \in 0 .. Len(c) - 1
        /\ i - (i - 1) = 1
    OBVIOUS
  <1>2. w = [j \in 1 .. Len(c) - 1 |-> IF j <= i - 1 THEN c[j] ELSE c[j + 1]]
    <2>1. RemoveAt(c, (i - 1) + 1) = [j \in 1 .. Len(c) - 1 |-> IF j <= i - 1 THEN c[j] ELSE c[j + 1]]
      BY <1>1, RemoveAtItems
    <2> QED
      BY <1>1, <2>1
  <1> HIDE DEF w
  <1>3. \A j \in 1 .. Len(c) - 1 : w[j] \in Item
    BY <1>1, <1>2
  <1>4. w \in Seq(Item) /\ Len(w) = Len(c) - 1
    BY <1>1, <1>2, <1>3, IsASeq
  <1>5. i = 1 => w = Tail(c)
    <2> SUFFICES ASSUME i = 1 PROVE w = Tail(c)
      OBVIOUS
    <2>1. c # <<>>
      BY <1>1
    <2>2. Tail(c) \in Seq(Item) /\ Len(Tail(c)) = Len(c) - 1 /\ \A j \in 1 .. Len(c) - 1 : Tail(c)[j] = c[j + 1]
      BY <2>1, HeadTailProperties
    <2>3. \A j \in 1 .. Len(c) - 1 : w[j] = Tail(c)[j]
      BY <1>1, <1>2, <2>2
    <2> QED
      BY <1>4, <2>2, <2>3, SeqEqual
  <1>6. i = Len(c) => w = Front(c)
    <2> SUFFICES ASSUME i = Len(c) PROVE w = Front(c)
      OBVIOUS
    <2>1. c # <<>>
      BY <1>1
    <2>2. Front(c) = [j \in 1 .. Len(c) - 1 |-> c[j]]
      BY <1>1, <2>1 DEF Front
    <2>3. \A j \in 1 .. Len(c) - 1 : j <= i - 1
      BY <1>1
    <2> QED
      BY <1>2, <2>2, <2>3
  <1> QED
    BY <1>1, <1>2, <1>4, <1>5, <1>6 DEF WithoutBlock, w

LEMMA FreedFields ==
  ASSUME NEW s, s \in Mem, NEW S
  PROVE  /\ FreeNodes(s, S) \in Mem /\ SameEnds(s, FreeNodes(s, S))
         /\ \A n \in Item : NextOf(FreeNodes(s, S), n) = IF n \in S THEN Junk ELSE NextOf(s, n)
         /\ \A n \in Item : PrevOf(FreeNodes(s, S), n) = IF n \in S THEN Junk ELSE PrevOf(s, n)
  BY DEF FreeNodes, Mem, Link, SameEnds, NextOf, PrevOf, HeadOf, TailOf, SizeOf

LEMMA EmptiedEnds ==
  ASSUME NEW s, s \in Mem, NEW d \in Handle
  PROVE  EndsWritten(s, d, NULL, NULL, 0, EmptyList(s, d))
  BY WriteEnds DEF EmptyList, Place

(* The block of all nodes. *)
LEMMA WholeBlock ==
  ASSUME NEW c \in Seq(Item)
  PROVE  WithoutBlock(c, 0, Len(c), <<>>) /\ Block(c, 0, Len(c)) = Nodes(c)
  <1>1. Len(c) \in Nat /\ Len(c) - (Len(c) - 0) = 0 /\ <<>> \in Seq(Item) /\ Len(<<>>) = 0 /\ 0 + 1 = 1
    OBVIOUS
  <1>2. 1 .. 0 = {}
    OBVIOUS
  <1> QED
    BY <1>1, <1>2 DEF WithoutBlock, Block, Nodes

(* clear, and the destructor. *)
LEMMA ClearGood ==
  ASSUME NEW s, NEW C, Good(s, C), NEW d \in Handle
  PROVE  Good(EmptyList(FreeNodes(s, Range(Forward(s, d))), d), [C EXCEPT ![d] = <<>>])
  <1> DEFINE c == C[d]
             S == Nodes(c)
             u == FreeNodes(s, S)
             r == EmptyList(u, d)
  <1>1. /\ ListIs(s, d, c, {}) /\ c \in Seq(Item) /\ Len(c) \in Nat /\ SizeOf(s, d) = Len(c) /\ s \in Mem
    BY GoodList
  <1>2. Range(Forward(s, d)) = S
    BY <1>1, ForwardIs, NodesAreItems DEF Good
  <1> HIDE DEF c, S
  <1>3. /\ u \in Mem /\ SameEnds(s, u)
        /\ \A n \in Item : NextOf(u, n) = IF n \in S THEN Junk ELSE NextOf(s, n)
        /\ \A n \in Item : PrevOf(u, n) = IF n \in S THEN Junk ELSE PrevOf(s, n)
    BY <1>1, FreedFields
  <1> HIDE DEF u
  <1>4. EndsWritten(u, d, NULL, NULL, 0, r)
    BY <1>3, EmptiedEnds
  <1> HIDE DEF r
  <1>5. At(c, Len(c) + 1) = NULL /\ At(c, 0) = NULL
    BY <1>1, AtTypes
  <1>6. WithoutBlock(c, 0, Len(c), <<>>) /\ Block(c, 0, Len(c)) = S
    BY <1>1, WholeBlock DEF S
  <1>7. CutOut(s, r, d, c, 0, Len(c), S)
    BY <1>3, <1>4, <1>5, NodesAssumption DEF CutOut, EndsWritten, SameEnds
  <1>8. Remade(s, r, d, c, {}, <<>>, {} \cup (Block(c, 0, Len(c)) \ S))
    <2>1. 0 \in 0 .. Len(c) /\ Len(c) \in 0 .. Len(c) /\ S \in SUBSET Block(c, 0, Len(c))
      BY <1>1, <1>6
    <2> QED
      BY <1>1, <1>6, <1>7, <2>1, Cut
  <1>9. Holds(r, [C EXCEPT ![d] = <<>>], {})
    <2>1. {} \cup (Block(c, 0, Len(c)) \ S) = {}
      BY <1>6
    <2> QED
      BY <1>8, <2>1, HoldsAfter DEF Good, c
  <1>10. SizeOf(r, d) = Len(<<>>) /\ \A e \in Handle \ {d} : SizeOf(r, e) = Len(C[e])
    BY <1>3, <1>4 DEF Good, Sized, EndsWritten, SameEnds
  <1>11. Sized(r, [C EXCEPT ![d] = <<>>])
    BY <1>10, SizedAfter DEF Good
  <1> QED
    BY <1>2, <1>9, <1>11 DEF Good, r, u

(* The constructor; the memory of the new list holds nothing yet.          *)
LEMMA CtorGood ==
  ASSUME NEW s, NEW C, Good(s, C), NEW d \in Handle, C[d] = <<>>
  PROVE  Good(EmptyList(s, d), C)
  <1> DEFINE r == EmptyList(s, d)
  <1>1. s \in Mem /\ \A e \in Handle : ListIs(s, e, C[e], {})
    BY GoodList
  <1>2. EndsWritten(s, d, NULL, NULL, 0, r)
    BY <1>1, EmptiedEnds
  <1> HIDE DEF r
  <1>3. HeadOf(s, d) = NULL /\ TailOf(s, d) = NULL /\ SizeOf(s, d) = 0
    <2>1. Len(<<>>) = 0 /\ ListIs(s, d, <<>>, {})
      BY <1>1
    <2> QED
      BY <2>1, EndsOfList DEF Good, Sized
  <1>4. /\ r \in Mem
        /\ \A n \in Item : NextOf(r, n) = NextOf(s, n) /\ PrevOf(r, n) = PrevOf(s, n)
        /\ \A e \in Handle : HeadOf(r, e) = HeadOf(s, e) /\ TailOf(r, e) = TailOf(s, e) /\ SizeOf(r, e) = SizeOf(s, e)
    BY <1>2, <1>3 DEF EndsWritten
  <1>5. \A e \in Handle : \A i \in 1 .. Len(C[e]) : C[e][i] \in Item
    BY <1>1 DEF ListIs
  <1> QED
    BY <1>4, <1>5 DEF Good, Holds, Sized, Chained, r

(* get_node finds the node at an index; past the last there is none.       *)
LEMMA GetNodeIs ==
  ASSUME NEW s, NEW C, Good(s, C), NEW d \in Handle, NEW i \in 0 .. Len(C[d])
  PROVE  GetNode(s, d, i) = At(C[d], i + 1)
  <1> DEFINE c == C[d]
             n == Len(c)
             h == n \div 2
  <1>1. c \in Seq(Item) /\ n \in Nat /\ SizeOf(s, d) = n
    BY GoodList
  <1>2. Forward(s, d) = c /\ Backward(s, d) = Reverse(c)
    BY ForwardIs DEF Good
  <1>3. \A j \in 1 .. n : Reverse(c)[j] = c[n - j + 1]
    BY <1>1, ReverseItems
  <1>4. i \in 0 .. n
    OBVIOUS
  <1> HIDE DEF c, n
  <1>5. h \in Nat /\ h <= n
    BY <1>1
  <1>6. GetNode(s, d, i) = CASE i < h -> c[i + 1]
                             [] i >= h /\ i < n -> Reverse(c)[n - i]
                             [] OTHER -> NULL
    BY <1>1, <1>2 DEF GetNode, SizeOf
  <1> HIDE DEF h
  <1>7. CASE i < h
    <2>1. i + 1 \in 1 .. n
      BY <1>1, <1>4, <1>5, <1>7
    <2>2. GetNode(s, d, i) = c[i + 1]
      <3>1. ~ (i >= h /\ i < n)
        BY <1>4, <1>5, <1>7
      <3> QED
        BY <1>6, <1>7, <3>1
    <2> QED
      BY <2>1, <2>2 DEF At, n, c
  <1>8. CASE ~ (i < h) /\ i < n
    <2>1. i + 1 \in 1 .. n /\ n - i \in 1 .. n /\ n - (n - i) + 1 = i + 1 /\ i >= h
      BY <1>1, <1>4, <1>5, <1>8
    <2>2. GetNode(s, d, i) = Reverse(c)[n - i]
      BY <1>6, <1>8, <2>1
    <2>3. Reverse(c)[n - i] = c[i + 1]
      BY <1>3, <2>1
    <2> QED
      BY <2>1, <2>2, <2>3 DEF At, n, c
  <1>9. CASE ~ (i < h) /\ ~ (i < n)
    <2>1. ~ (i + 1 \in 1 .. n) /\ ~ (i >= h /\ i < n)
      BY <1>1, <1>4, <1>9
    <2>2. GetNode(s, d, i) = NULL
      BY <1>6, <1>9, <2>1
    <2> QED
      BY <2>1, <2>2 DEF At, n, c
  <1> QED
    BY <1>7, <1>8, <1>9

(* x, or v for n. *)
Sub(n, v, x) == IF x = n THEN v ELSE x

LEMMA RenamedFields ==
  ASSUME NEW s, s \in Mem, NEW n \in Item, NEW v \in Item
  PROVE  /\ Renamed(s, n, v) \in Mem
         /\ \A x \in Item : NextOf(Renamed(s, n, v), x) =
              IF x = v THEN Sub(n, v, NextOf(s, n)) ELSE IF x = n THEN Junk ELSE Sub(n, v, NextOf(s, x))
         /\ \A x \in Item : PrevOf(Renamed(s, n, v), x) =
              IF x = v THEN Sub(n, v, PrevOf(s, n)) ELSE IF x = n THEN Junk ELSE Sub(n, v, PrevOf(s, x))
         /\ \A d \in Handle : /\ HeadOf(Renamed(s, n, v), d) = Sub(n, v, HeadOf(s, d))
                              /\ TailOf(Renamed(s, n, v), d) = Sub(n, v, TailOf(s, d))
                              /\ SizeOf(Renamed(s, n, v), d) = SizeOf(s, d)
  BY DEF Sub, Renamed, Mem, Link, NextOf, PrevOf, HeadOf, TailOf, SizeOf

(* The items of a sequence after its node i is renamed.                    *)
LEMMA ReplacedItems ==
  ASSUME NEW c \in Seq(Item), Distinct(c), NEW i \in 1 .. Len(c), NEW v \in Item, v \notin Nodes(c)
  PROVE  /\ ReplaceAt(c, i, v) \in Seq(Item) /\ Len(ReplaceAt(c, i, v)) = Len(c)
         /\ \A j \in 1 .. Len(c) : ReplaceAt(c, i, v)[j] = Sub(c[i], v, c[j])
         /\ Distinct(ReplaceAt(c, i, v))
         /\ Nodes(ReplaceAt(c, i, v)) = (Nodes(c) \ {c[i]}) \cup {v}
  <1> DEFINE w == ReplaceAt(c, i, v)
  <1>1. w \in Seq(Item) /\ Len(w) = Len(c) /\ \A j \in 1 .. Len(c) : w[j] = IF j = i THEN v ELSE c[j]
    BY DEF ReplaceAt
  <1>2. \A j \in 1 .. Len(c) : c[j] # v /\ (c[j] = c[i] <=> j = i)
    BY DEF Nodes, Distinct
  <1> HIDE DEF w
  <1>3. \A j \in 1 .. Len(c) : w[j] = Sub(c[i], v, c[j])
    BY <1>1, <1>2 DEF Sub
  <1>4. Distinct(w)
    BY <1>1, <1>2 DEF Distinct
  <1>5. Nodes(w) = (Nodes(c) \ {c[i]}) \cup {v}
    BY <1>1, <1>2 DEF Nodes
  <1> QED
    BY <1>1, <1>3, <1>4, <1>5 DEF w

LEMMA SetGood ==
  ASSUME NEW s, NEW C, Good(s, C), NEW d \in Handle, NEW i \in 1 .. Len(C[d]),
         NEW v \in Item, \A e \in Handle : v \notin Nodes(C[e])
  PROVE  Good(Renamed(s, C[d][i], v), [C EXCEPT ![d] = ReplaceAt(C[d], i, v)])
  <1> DEFINE c == C[d]
             n == c[i]
             r == Renamed(s, n, v)
             c2 == ReplaceAt(c, i, v)
             D == [C EXCEPT ![d] = c2]
  <1>1. /\ s \in Mem /\ C \in [Handle -> Seq(Item)]
        /\ \A e \in Handle : Chained(s, C[e], HeadOf(s, e), TailOf(s, e)) /\ Distinct(C[e])
        /\ \A e, f \in Handle : e # f => Nodes(C[e]) \cap Nodes(C[f]) = {}
        /\ \A x \in Item : NextOf(s, x) # Junk <=> \E e \in Handle : x \in Nodes(C[e])
        /\ \A e \in Handle : SizeOf(s, e) = Len(C[e])
    BY DEF Good, Holds, Sized
  <1>2. n \in Item /\ n \in Nodes(c) /\ n # v
    <2>1. c \in Seq(Item)
      BY <1>1
    <2> QED
      BY <2>1 DEF Nodes
  <1>3. /\ c2 \in Seq(Item) /\ Len(c2) = Len(c) /\ \A j \in 1 .. Len(c) : c2[j] = Sub(n, v, c[j])
        /\ Distinct(c2) /\ Nodes(c2) = (Nodes(c) \ {n}) \cup {v}
    BY <1>1, ReplacedItems
  <1>4. D \in [Handle -> Seq(Item)] /\ D[d] = c2 /\ \A e \in Handle \ {d} : D[e] = C[e]
    BY <1>1, <1>3
  <1> HIDE DEF c2, D, n
  <1>5. /\ \A e \in Handle : Len(D[e]) = Len(C[e]) /\ Distinct(D[e])
        /\ \A e \in Handle : \A j \in 1 .. Len(C[e]) : D[e][j] = Sub(n, v, C[e][j])
        /\ \A e \in Handle : Nodes(D[e]) = IF e = d THEN (Nodes(c) \ {n}) \cup {v} ELSE Nodes(C[e])
    <2>1. ASSUME NEW e \in Handle, e # d, NEW j \in 1 .. Len(C[e]) PROVE C[e][j] = Sub(n, v, C[e][j])
      <3>1. C[e][j] \in Nodes(C[e])
        BY DEF Nodes
      <3>2. n \notin Nodes(C[e])
        BY <1>1, <1>2, <2>1
      <3> QED
        BY <3>1, <3>2 DEF Sub
    <2>2. \A e \in Handle : Len(D[e]) = Len(C[e]) /\ Distinct(D[e])
      BY <1>1, <1>3, <1>4
    <2>3. \A e \in Handle : \A j \in 1 .. Len(C[e]) : D[e][j] = Sub(n, v, C[e][j])
      BY <1>3, <1>4, <2>1
    <2> QED
      BY <1>3, <1>4, <2>2, <2>3
  <1>6. /\ r \in Mem
        /\ \A x \in Item : NextOf(r, x) =
             IF x = v THEN Sub(n, v, NextOf(s, n)) ELSE IF x = n THEN Junk ELSE Sub(n, v, NextOf(s, x))
        /\ \A x \in Item : PrevOf(r, x) =
             IF x = v THEN Sub(n, v, PrevOf(s, n)) ELSE IF x = n THEN Junk ELSE Sub(n, v, PrevOf(s, x))
        /\ \A e \in Handle : /\ HeadOf(r, e) = Sub(n, v, HeadOf(s, e))
                             /\ TailOf(r, e) = Sub(n, v, TailOf(s, e))
                             /\ SizeOf(r, e) = SizeOf(s, e)
    <2>1. s \in Mem
      BY <1>1
    <2> QED
      BY <1>2, <2>1, RenamedFields
  <1> HIDE DEF r
  <1>7. \A e \in Handle : \A j \in Int : At(D[e], j) = Sub(n, v, At(C[e], j))
    BY <1>2, <1>5, NodesAssumption DEF At, Sub
  <1>8. \A x \in Item : x # v => /\ NextOf(r, Sub(n, v, x)) = Sub(n, v, NextOf(s, x))
                                 /\ PrevOf(r, Sub(n, v, x)) = Sub(n, v, PrevOf(s, x))
    BY <1>2, <1>6 DEF Sub
  <1>9. ASSUME NEW e \in Handle PROVE Chained(r, D[e], HeadOf(r, e), TailOf(r, e))
    <2> DEFINE b == C[e]
    <2>1. b \in Seq(Item) /\ Len(b) \in Nat /\ \A j \in 1 .. Len(b) : b[j] \in Item /\ b[j] # v
      BY <1>1 DEF Nodes
    <2>2. Chained(s, b, HeadOf(s, e), TailOf(s, e))
      BY <1>1
    <2>3. Len(D[e]) = Len(b) /\ (\A j \in 1 .. Len(b) : D[e][j] = Sub(n, v, b[j])) /\ \A j \in Int : At(D[e], j) = Sub(n, v, At(b, j))
      BY <1>5, <1>7
    <2> HIDE DEF b
    <2>4. HeadOf(r, e) = At(D[e], 1) /\ TailOf(r, e) = At(D[e], Len(D[e]))
      BY <1>6, <2>1, <2>2, <2>3 DEF Chained
    <2>5. ASSUME NEW j \in 1 .. Len(b)
          PROVE  NextOf(r, D[e][j]) = At(D[e], j + 1) /\ PrevOf(r, D[e][j]) = At(D[e], j - 1)
      <3>1. NextOf(s, b[j]) = At(b, j + 1) /\ PrevOf(s, b[j]) = At(b, j - 1)
        BY <2>2 DEF Chained
      <3>2. NextOf(r, Sub(n, v, b[j])) = Sub(n, v, NextOf(s, b[j])) /\ PrevOf(r, Sub(n, v, b[j])) = Sub(n, v, PrevOf(s, b[j]))
        BY <1>8, <2>1
      <3>3. At(D[e], j + 1) = Sub(n, v, At(b, j + 1)) /\ At(D[e], j - 1) = Sub(n, v, At(b, j - 1))
        BY <2>1, <2>3
      <3> QED
        BY <2>3, <3>1, <3>2, <3>3
    <2> QED
      BY <2>3, <2>4, <2>5 DEF Chained
  <1>10. \A e, f \in Handle : e # f => Nodes(D[e]) \cap Nodes(D[f]) = {}
    BY <1>1, <1>2, <1>5
  <1>11. ASSUME NEW x \in Item PROVE NextOf(r, x) # Junk <=> \E e \in Handle : x \in Nodes(D[e])
    <2>1. CASE x = v
      <3>1. v \in Nodes(D[d])
        BY <1>5
      <3>2. NextOf(s, n) # Junk
        BY <1>1, <1>2
      <3>3. v # Junk
        BY NodesAssumption
      <3>4. NextOf(r, v) # Junk
        BY <1>6, <3>2, <3>3 DEF Sub
      <3> QED
        BY <2>1, <3>1, <3>4
    <2>2. CASE x = n
      <3>1. \A e \in Handle : n \notin Nodes(D[e])
        BY <1>1, <1>2, <1>5
      <3> QED
        BY <1>2, <1>6, <2>2, <3>1
    <2>3. CASE x # v /\ x # n
      <3>1. \A e \in Handle : x \in Nodes(D[e]) <=> x \in Nodes(C[e])
        BY <1>5, <2>3
      <3>2. v # Junk /\ n # Junk
        BY <1>2, NodesAssumption
      <3>3. NextOf(r, x) = Junk <=> NextOf(s, x) = Junk
        BY <1>6, <2>3, <3>2 DEF Sub
      <3> QED
        BY <1>1, <3>1, <3>3
    <2> QED
      BY <2>1, <2>2, <2>3
  <1>12. Holds(r, D, {})
    BY <1>4, <1>5, <1>6, <1>9, <1>10, <1>11 DEF Holds
  <1>13. Sized(r, D)
    BY <1>1, <1>5, <1>6 DEF Sized
  <1> QED
    BY <1>12, <1>13 DEF Good, r, D, c2, n

LEMMA ReversedFields ==
  ASSUME NEW s, s \in Mem, NEW d \in Handle, NEW S, S = Range(Forward(s, d))
  PROVE  /\ ReversedList(s, d) \in Mem
         /\ \A x \in Item : NextOf(ReversedList(s, d), x) = IF x \in S THEN PrevOf(s, x) ELSE NextOf(s, x)
         /\ \A x \in Item : PrevOf(ReversedList(s, d), x) = IF x \in S THEN NextOf(s, x) ELSE PrevOf(s, x)
         /\ HeadOf(ReversedList(s, d), d) = TailOf(s, d) /\ TailOf(ReversedList(s, d), d) = HeadOf(s, d)
         /\ \A e \in Handle \ {d} : /\ HeadOf(ReversedList(s, d), e) = HeadOf(s, e)
                                    /\ TailOf(ReversedList(s, d), e) = TailOf(s, e)
         /\ \A e \in Handle : SizeOf(ReversedList(s, d), e) = SizeOf(s, e)
  BY DEF ReversedList, Mem, NextOf, PrevOf, HeadOf, TailOf, SizeOf

LEMMA ReverseGood ==
  ASSUME NEW s, NEW C, Good(s, C), NEW d \in Handle
  PROVE  Good(ReversedList(s, d), [C EXCEPT ![d] = Reverse(C[d])])
  <1> DEFINE c == C[d]
             S == Nodes(c)
             r == ReversedList(s, d)
             c2 == Reverse(c)
  <1>1. /\ ListIs(s, d, c, {}) /\ c \in Seq(Item) /\ Len(c) \in Nat /\ Distinct(c) /\ s \in Mem
        /\ SizeOf(s, d) = Len(c)
    BY GoodList
  <1>2. Range(Forward(s, d)) = S
    BY <1>1, ForwardIs, NodesAreItems DEF Good
  <1> HIDE DEF c
  <1>3. c2 \in Seq(Item) /\ Len(c2) = Len(c) /\ \A j \in 1 .. Len(c) : c2[j] = c[Len(c) - j + 1]
    BY <1>1, ReverseItems
  <1>4. /\ Distinct(c2) /\ TailOf(s, d) = At(c2, 1) /\ HeadOf(s, d) = At(c2, Len(c))
        /\ \A i \in 1 .. Len(c) : PrevOf(s, c2[i]) = At(c2, i + 1) /\ NextOf(s, c2[i]) = At(c2, i - 1)
    <2>1. Chained(s, c, HeadOf(s, d), TailOf(s, d))
      BY <1>1 DEF ListIs
    <2> QED
      BY <1>1, <2>1, ReverseChained
  <1> HIDE DEF c2
  <1>5. Nodes(c2) = S
    <2>1. \A j \in 1 .. Len(c) : Len(c) - j + 1 \in 1 .. Len(c) /\ Len(c) - (Len(c) - j + 1) + 1 = j
      BY <1>1
    <2>2. ASSUME NEW j \in 1 .. Len(c) PROVE c2[j] \in S /\ c[j] \in Nodes(c2)
      <3> DEFINE k == Len(c) - j + 1
      <3>1. k \in 1 .. Len(c) /\ c2[j] = c[k] /\ c2[k] = c[j]
        BY <1>3, <2>1
      <3> HIDE DEF k
      <3> QED
        BY <1>3, <3>1 DEF Nodes
    <2> QED
      BY <1>3, <2>2 DEF Nodes
  <1> HIDE DEF S
  <1>6. /\ r \in Mem
        /\ \A x \in Item : NextOf(r, x) = IF x \in S THEN PrevOf(s, x) ELSE NextOf(s, x)
        /\ \A x \in Item : PrevOf(r, x) = IF x \in S THEN NextOf(s, x) ELSE PrevOf(s, x)
        /\ HeadOf(r, d) = TailOf(s, d) /\ TailOf(r, d) = HeadOf(s, d)
        /\ \A e \in Handle \ {d} : HeadOf(r, e) = HeadOf(s, e) /\ TailOf(r, e) = TailOf(s, e)
        /\ \A e \in Handle : SizeOf(r, e) = SizeOf(s, e)
    BY <1>1, <1>2, ReversedFields
  <1> HIDE DEF r
  <1>7. Chained(r, c2, HeadOf(r, d), TailOf(r, d))
    <2>1. \A i \in 1 .. Len(c) : c2[i] \in Item /\ c2[i] \in S
      BY <1>3, <1>5 DEF Nodes
    <2> QED
      BY <1>3, <1>4, <1>6, <2>1 DEF Chained
  <1>8. Remade(s, r, d, c, {}, c2, {})
    <2>1. S = Nodes(c)
      BY DEF S
    <2> QED
      BY <1>3, <1>4, <1>5, <1>6, <1>7, <2>1 DEF Remade
  <1>9. Holds(r, [C EXCEPT ![d] = c2], {})
    BY <1>8, HoldsAfter DEF Good, c
  <1>10. SizeOf(r, d) = Len(c2) /\ \A e \in Handle \ {d} : SizeOf(r, e) = Len(C[e])
    BY <1>1, <1>3, <1>6 DEF Good, Sized
  <1>11. Sized(r, [C EXCEPT ![d] = c2])
    BY <1>10, SizedAfter DEF Good
  <1> QED
    BY <1>9, <1>11 DEF Good, r, c2, c

Swapped(s, a, b) ==
  [s EXCEPT !.head[a] = s.head[b], !.head[b] = s.head[a],
            !.tail[a] = s.tail[b], !.tail[b] = s.tail[a],
            !.size[a] = s.size[b], !.size[b] = s.size[a]]

(* What b is now called a, and the other way round. *)
Other(a, b, e) == IF e = a THEN b ELSE IF e = b THEN a ELSE e

LEMMA SwappedFields ==
  ASSUME NEW s, s \in Mem, NEW a \in Handle, NEW b \in Handle
  PROVE  /\ Swapped(s, a, b) \in Mem
         /\ \A x \in Item : /\ NextOf(Swapped(s, a, b), x) = NextOf(s, x)
                            /\ PrevOf(Swapped(s, a, b), x) = PrevOf(s, x)
         /\ \A e \in Handle : /\ HeadOf(Swapped(s, a, b), e) = HeadOf(s, Other(a, b, e))
                              /\ TailOf(Swapped(s, a, b), e) = TailOf(s, Other(a, b, e))
                              /\ SizeOf(Swapped(s, a, b), e) = SizeOf(s, Other(a, b, e))
  BY DEF Swapped, Mem, NextOf, PrevOf, HeadOf, TailOf, SizeOf, Other

LEMMA SwapGood ==
  ASSUME NEW s, NEW C, Good(s, C), NEW a \in Handle, NEW b \in Handle
  PROVE  Good(Swapped(s, a, b), [C EXCEPT ![a] = C[b], ![b] = C[a]])
  <1> DEFINE r == Swapped(s, a, b)
             D == [C EXCEPT ![a] = C[b], ![b] = C[a]]
             o(e) == Other(a, b, e)
  <1>1. /\ s \in Mem /\ C \in [Handle -> Seq(Item)]
        /\ \A e \in Handle : Chained(s, C[e], HeadOf(s, e), TailOf(s, e)) /\ Distinct(C[e])
        /\ \A e, f \in Handle : e # f => Nodes(C[e]) \cap Nodes(C[f]) = {}
        /\ \A x \in Item : NextOf(s, x) # Junk <=> \E e \in Handle : x \in Nodes(C[e])
        /\ \A e \in Handle : SizeOf(s, e) = Len(C[e])
    BY DEF Good, Holds, Sized
  <1>2. D \in [Handle -> Seq(Item)] /\ \A e \in Handle : D[e] = C[o(e)]
    BY <1>1 DEF Other
  <1>3. \A e \in Handle : o(e) \in Handle /\ o(o(e)) = e
    BY DEF Other
  <1> HIDE DEF D, o
  <1>4. /\ r \in Mem
        /\ \A x \in Item : NextOf(r, x) = NextOf(s, x) /\ PrevOf(r, x) = PrevOf(s, x)
        /\ \A e \in Handle : HeadOf(r, e) = HeadOf(s, o(e)) /\ TailOf(r, e) = TailOf(s, o(e)) /\ SizeOf(r, e) = SizeOf(s, o(e))
    BY <1>1, SwappedFields DEF o
  <1> HIDE DEF r
  <1>5. ASSUME NEW e \in Handle PROVE Chained(r, D[e], HeadOf(r, e), TailOf(r, e)) /\ Distinct(D[e])
    <2> DEFINE y == C[o(e)]
    <2>1. Chained(s, y, HeadOf(s, o(e)), TailOf(s, o(e))) /\ y \in Seq(Item) /\ Distinct(y)
      BY <1>1, <1>3
    <2>2. D[e] = y
      BY <1>2
    <2> HIDE DEF y
    <2>3. \A i \in 1 .. Len(y) : y[i] \in Item
      BY <2>1
    <2> QED
      BY <1>4, <2>1, <2>2, <2>3 DEF Chained
  <1>6. \A e, f \in Handle : e # f => Nodes(D[e]) \cap Nodes(D[f]) = {}
    <2>1. \A e, f \in Handle : e # f => o(e) # o(f)
      BY <1>3
    <2> QED
      BY <1>1, <1>2, <1>3, <2>1
  <1>7. ASSUME NEW x \in Item PROVE NextOf(r, x) # Junk <=> \E e \in Handle : x \in Nodes(D[e])
    <2>1. NextOf(r, x) # Junk <=> \E e \in Handle : x \in Nodes(C[e])
      BY <1>1, <1>4
    <2>2. \A e \in Handle : D[e] = C[o(e)] /\ C[e] = D[o(e)]
      BY <1>2, <1>3
    <2> QED
      BY <1>3, <2>1, <2>2
  <1>8. Sized(r, D)
    BY <1>1, <1>2, <1>3, <1>4 DEF Sized
  <1>9. Holds(r, D, {})
    BY <1>2, <1>4, <1>5, <1>6, <1>7 DEF Holds
  <1> QED
    BY <1>8, <1>9 DEF Good, r, D

-----------------------------------------------------------------------------
(* Splice. *)

LEMMA WriteHead ==
  ASSUME NEW u, u \in Mem, NEW d \in Handle, NEW h, h \in Place
  PROVE  EndsWritten(u, d, h, TailOf(u, d), SizeOf(u, d), [u EXCEPT !.head[d] = h])
  BY DEF Place, Mem, EndsWritten, NextOf, PrevOf, HeadOf, TailOf, SizeOf

LEMMA WriteTail ==
  ASSUME NEW u, u \in Mem, NEW d \in Handle, NEW t, t \in Place
  PROVE  EndsWritten(u, d, HeadOf(u, d), t, SizeOf(u, d), [u EXCEPT !.tail[d] = t])
  BY DEF Place, Mem, EndsWritten, NextOf, PrevOf, HeadOf, TailOf, SizeOf

LEMMA WriteHeadTail ==
  ASSUME NEW u, u \in Mem, NEW d \in Handle, NEW h, h \in Place, NEW t, t \in Place
  PROVE  EndsWritten(u, d, h, t, SizeOf(u, d), [u EXCEPT !.head[d] = h, !.tail[d] = t])
  BY DEF Place, Mem, EndsWritten, NextOf, PrevOf, HeadOf, TailOf, SizeOf

(* No size changes. *)
SameSizes(s, r) == \A e \in Handle : SizeOf(r, e) = SizeOf(s, e)

LEMMA DetachedCuts ==
  ASSUME NEW s, NEW e \in Handle, NEW c, NEW L, ListIs(s, e, c, L),
         NEW f \in 0 .. Len(c), NEW l \in f + 1 .. Len(c)
  PROVE  /\ CutOut(s, Detached(s, e, c[f + 1], At(c, l + 1)), e, c, f, l, {})
         /\ SameSizes(s, Detached(s, e, c[f + 1], At(c, l + 1)))
  <1> DEFINE a == At(c, f)
             b == At(c, l + 1)
             r == Detached(s, e, c[f + 1], b)
  <1>1. /\ s \in Mem /\ c \in Seq(Item) /\ Len(c) \in Nat /\ Distinct(c) /\ f + 1 \in 1 .. Len(c)
        /\ f \in Int /\ l + 1 \in Int /\ (f + 1) - 1 = f
    BY EndsOfList
  <1>2. PrevOf(s, c[f + 1]) = a
    BY <1>1, EndsOfList
  <1>3. /\ a \in Place /\ b \in Place /\ (a = NULL <=> f = 0) /\ (b = NULL <=> l = Len(c))
    BY <1>1, AtTypes
  <1> HIDE DEF a, b
  <1>4. NULL \in Link /\ a \in Link /\ b \in Link /\ NULL \in Place
    BY <1>3 DEF Link, Place
  <1>5. CASE a # NULL /\ b # NULL
    <2> DEFINE u == Linked(s, a, b)
    <2>1. r = u
      BY <1>2, <1>5 DEF Detached, PrevOf
    <2>2. /\ u \in Mem /\ SameEnds(s, u)
          /\ \A n \in Item : NextOf(u, n) = IF n = a THEN b ELSE NextOf(s, n)
          /\ \A n \in Item : PrevOf(u, n) = IF n = b THEN a ELSE PrevOf(s, n)
      BY <1>1, <1>3, LinkedFields
    <2> HIDE DEF u
    <2>3. CutOut(s, u, e, c, f, l, {}) /\ SameSizes(s, u)
      BY <1>3, <1>5, <2>2 DEF CutOut, SameEnds, SameSizes, a, b
    <2> QED
      BY <2>1, <2>3 DEF b
  <1>6. CASE a # NULL /\ b = NULL
    <2> DEFINE w == [s EXCEPT !.tail[e] = a]
               u == SetNext(w, a, NULL)
    <2>1. r = u
      <3>1. r = [s EXCEPT !.tail[e] = a, !.next[a] = NULL]
        BY <1>2, <1>6 DEF Detached, PrevOf
      <3>2. a \in Item
        BY <1>3, <1>6 DEF Place
      <3> QED
        BY <1>6, <3>1 DEF SetNext
    <2>2. EndsWritten(s, e, HeadOf(s, e), a, SizeOf(s, e), w)
      BY <1>1, <1>3, WriteTail
    <2> HIDE DEF w
    <2>3. /\ u \in Mem /\ SameEnds(w, u)
          /\ \A n \in Item : NextOf(u, n) = IF n = a THEN NULL ELSE NextOf(w, n)
          /\ \A n \in Item : PrevOf(u, n) = PrevOf(w, n)
      <3>1. w \in Mem
        BY <2>2 DEF EndsWritten
      <3> QED
        BY <1>3, <1>4, <3>1, SetNextFields
    <2> HIDE DEF u
    <2>4. CutOut(s, u, e, c, f, l, {}) /\ SameSizes(s, u)
      BY <1>3, <1>6, <2>2, <2>3, NodesAssumption DEF CutOut, SameEnds, SameSizes, EndsWritten, a, b
    <2> QED
      BY <2>1, <2>4 DEF b
  <1>7. CASE a = NULL /\ b # NULL
    <2> DEFINE w == [s EXCEPT !.head[e] = b]
               u == SetPrev(w, b, NULL)
    <2>1. r = u
      <3>1. r = [s EXCEPT !.head[e] = b, !.prev[b] = NULL]
        BY <1>2, <1>7 DEF Detached, PrevOf
      <3>2. b \in Item
        BY <1>3, <1>7 DEF Place
      <3> QED
        BY <1>7, <3>1 DEF SetPrev
    <2>2. EndsWritten(s, e, b, TailOf(s, e), SizeOf(s, e), w)
      BY <1>1, <1>3, WriteHead
    <2> HIDE DEF w
    <2>3. /\ u \in Mem /\ SameEnds(w, u)
          /\ \A n \in Item : PrevOf(u, n) = IF n = b THEN NULL ELSE PrevOf(w, n)
          /\ \A n \in Item : NextOf(u, n) = NextOf(w, n)
      <3>1. w \in Mem
        BY <2>2 DEF EndsWritten
      <3> QED
        BY <1>3, <1>4, <3>1, SetPrevFields
    <2> HIDE DEF u
    <2>4. CutOut(s, u, e, c, f, l, {}) /\ SameSizes(s, u)
      BY <1>3, <1>7, <2>2, <2>3, NodesAssumption DEF CutOut, SameEnds, SameSizes, EndsWritten, a, b
    <2> QED
      BY <2>1, <2>4 DEF b
  <1>8. CASE a = NULL /\ b = NULL
    <2> DEFINE w == [s EXCEPT !.head[e] = NULL, !.tail[e] = NULL]
    <2>1. r = w
      BY <1>2, <1>8 DEF Detached, PrevOf
    <2>2. EndsWritten(s, e, NULL, NULL, SizeOf(s, e), w)
      BY <1>1, <1>4, WriteHeadTail
    <2> HIDE DEF w
    <2>3. CutOut(s, w, e, c, f, l, {}) /\ SameSizes(s, w)
      BY <1>3, <1>8, <2>2, NodesAssumption DEF CutOut, SameSizes, EndsWritten, a, b
    <2> QED
      BY <2>1, <2>3 DEF b
  <1> QED
    BY <1>5, <1>6, <1>7, <1>8

(* The nodes y are put after the first k of the list c. *)
LEMMA AttachedWeaves ==
  ASSUME NEW s, NEW d \in Handle, NEW c, NEW L, ListIs(s, d, c, L), NEW k \in 0 .. Len(c),
         NEW y \in Seq(Item), y # <<>>, Nodes(y) \cap Nodes(c) = {},
         k = Len(c) /\ Len(c) # 0 => NextOf(s, y[Len(y)]) = NULL
  PROVE  /\ Woven(s, Attached(s, d, At(c, k + 1), y[1], y[Len(y)]), d, c, k, y)
         /\ SameSizes(s, Attached(s, d, At(c, k + 1), y[1], y[Len(y)]))
  <1> DEFINE b == At(c, k + 1)
             a == At(c, k)
             p == y[1]
             z == y[Len(y)]
             r == Attached(s, d, b, p, z)
  <1>1. /\ s \in Mem /\ c \in Seq(Item) /\ Len(c) \in Nat /\ Distinct(c) /\ k \in Int /\ k + 1 \in Int
        /\ HeadOf(s, d) = At(c, 1) /\ TailOf(s, d) = At(c, Len(c))
    BY EndsOfList
  <1>2. Len(y) \in Nat /\ Len(y) # 0 /\ 1 \in 1 .. Len(y) /\ Len(y) \in 1 .. Len(y)
    BY EmptySeq
  <1>3. p \in Item /\ z \in Item /\ p \in Nodes(y) /\ z \in Nodes(y)
    BY <1>2 DEF Nodes
  <1>4. /\ a \in Place /\ b \in Place /\ (a = NULL <=> k = 0) /\ (b = NULL <=> k = Len(c))
        /\ (a \in Nodes(c) \/ a = NULL) /\ (b \in Nodes(c) \/ b = NULL)
    BY <1>1, AtTypes
  <1>5. b # NULL => PrevOf(s, b) = a
    <2> SUFFICES ASSUME b # NULL PROVE PrevOf(s, b) = a
      OBVIOUS
    <2>1. k + 1 \in 1 .. Len(c) /\ b = c[k + 1] /\ (k + 1) - 1 = k
      BY <1>1, AtTypes
    <2> HIDE DEF b
    <2> QED
      BY <2>1, EndsOfList
  <1>6. /\ k = Len(c) /\ Len(c) # 0 => NextOf(s, z) = NULL
        /\ k = 0 => b = HeadOf(s, d)
        /\ k = Len(c) => a = TailOf(s, d)
    BY <1>1
  <1>7. a # p /\ a # z /\ b # p /\ b # z /\ p # NULL /\ z # NULL
    BY <1>3, <1>4, NodesAssumption
  <1> HIDE DEF a, b, p, z
  <1>8. NULL \in Link /\ a \in Link /\ p \in Place /\ z \in Place /\ p \in Link /\ z \in Link
    BY <1>3, <1>4 DEF Link, Place
  <1> SUFFICES Woven(s, r, d, c, k, y) /\ SameSizes(s, r)
    BY DEF a, b, p, z
  <1>9. Woven(s, r, d, c, k, y) <=>
          /\ r \in Mem
          /\ \A n \in Item : NextOf(r, n) = IF n = a THEN p ELSE IF n = z THEN b ELSE NextOf(s, n)
          /\ \A n \in Item : PrevOf(r, n) = IF n = b THEN z ELSE IF n = p THEN a ELSE PrevOf(s, n)
          /\ HeadOf(r, d) = IF k = 0 THEN p ELSE HeadOf(s, d)
          /\ TailOf(r, d) = IF k = Len(c) THEN z ELSE TailOf(s, d)
          /\ \A e \in Handle \ {d} : HeadOf(r, e) = HeadOf(s, e) /\ TailOf(r, e) = TailOf(s, e)
    <2> HIDE DEF r
    <2> QED
      BY Zenon DEF Woven, a, b, p, z
  <1>10. CASE b # NULL /\ a # NULL
    <2> DEFINE u == Linked(s, a, p)
               w == Linked(u, z, b)
    <2>1. r = w
      BY <1>5, <1>10 DEF Attached, PrevOf
    <2>2. /\ u \in Mem /\ SameEnds(s, u)
          /\ \A n \in Item : NextOf(u, n) = IF n = a THEN p ELSE NextOf(s, n)
          /\ \A n \in Item : PrevOf(u, n) = IF n = p THEN a ELSE PrevOf(s, n)
      <3>1. s \in Mem /\ a \in Place /\ b \in Place /\ p \in Place /\ z \in Place
        BY <1>1, <1>4, <1>8
      <3> QED
        BY <3>1, LinkedFields
    <2> HIDE DEF u
    <2>3. /\ w \in Mem /\ SameEnds(u, w)
          /\ \A n \in Item : NextOf(w, n) = IF n = z THEN b ELSE NextOf(u, n)
          /\ \A n \in Item : PrevOf(w, n) = IF n = b THEN z ELSE PrevOf(u, n)
      BY <1>4, <1>8, <2>2, LinkedFields
    <2> HIDE DEF w, r
    <2> QED
      BY <1>4, <1>7, <1>9, <1>10, <2>1, <2>2, <2>3 DEF SameEnds, SameSizes
  <1>11. CASE b # NULL /\ a = NULL
    <2> DEFINE u == Linked(s, z, b)
               v == [u EXCEPT !.head[d] = p]
               w == SetPrev(v, p, NULL)
    <2>1. r = w
      <3>1. r = [Linked(s, z, s.head[d]) EXCEPT !.head[d] = p, !.prev[p] = NULL]
        BY <1>5, <1>11 DEF Attached, PrevOf
      <3>2. s.head[d] = b
        BY <1>4, <1>6, <1>11 DEF HeadOf
      <3>3. r = [u EXCEPT !.head[d] = p, !.prev[p] = NULL]
        BY <3>1, <3>2
      <3> HIDE DEF u, r
      <3> QED
        BY <1>7, <3>3 DEF SetPrev
    <2>2. /\ u \in Mem /\ SameEnds(s, u)
          /\ \A n \in Item : NextOf(u, n) = IF n = z THEN b ELSE NextOf(s, n)
          /\ \A n \in Item : PrevOf(u, n) = IF n = b THEN z ELSE PrevOf(s, n)
      <3>1. s \in Mem /\ a \in Place /\ b \in Place /\ p \in Place /\ z \in Place
        BY <1>1, <1>4, <1>8
      <3> QED
        BY <3>1, LinkedFields
    <2> HIDE DEF u
    <2>3. EndsWritten(u, d, p, TailOf(u, d), SizeOf(u, d), v)
      BY <1>8, <2>2, WriteHead
    <2> HIDE DEF v
    <2>4. /\ w \in Mem /\ SameEnds(v, w)
          /\ \A n \in Item : PrevOf(w, n) = IF n = p THEN NULL ELSE PrevOf(v, n)
          /\ \A n \in Item : NextOf(w, n) = NextOf(v, n)
      <3>1. v \in Mem
        BY <2>3 DEF EndsWritten
      <3> QED
        BY <1>8, <3>1, SetPrevFields
    <2> HIDE DEF w, r
    <2>5. /\ \A n \in Item : NextOf(w, n) = IF n = a THEN p ELSE IF n = z THEN b ELSE NextOf(s, n)
      BY <1>11, <2>2, <2>3, <2>4, NodesAssumption DEF EndsWritten
    <2>6. \A n \in Item : PrevOf(w, n) = IF n = b THEN z ELSE IF n = p THEN a ELSE PrevOf(s, n)
      BY <1>7, <1>11, <2>2, <2>3, <2>4, NodesAssumption DEF EndsWritten
    <2>7. k = 0 /\ k # Len(c)
      BY <1>4, <1>11
    <2> QED
      BY <1>9, <2>1, <2>2, <2>3, <2>4, <2>5, <2>6, <2>7 DEF SameEnds, SameSizes, EndsWritten
  <1>12. CASE b = NULL /\ a # NULL
    <2> DEFINE u == Linked(s, a, p)
               w == [u EXCEPT !.tail[d] = z]
    <2>1. k = Len(c) /\ k # 0 /\ NextOf(s, z) = NULL /\ a = TailOf(s, d)
      BY <1>4, <1>6, <1>12
    <2>2. r = w
      BY <1>12, <2>1 DEF Attached, TailOf
    <2>3. /\ u \in Mem /\ SameEnds(s, u)
          /\ \A n \in Item : NextOf(u, n) = IF n = a THEN p ELSE NextOf(s, n)
          /\ \A n \in Item : PrevOf(u, n) = IF n = p THEN a ELSE PrevOf(s, n)
      <3>1. s \in Mem /\ a \in Place /\ b \in Place /\ p \in Place /\ z \in Place
        BY <1>1, <1>4, <1>8
      <3> QED
        BY <3>1, LinkedFields
    <2> HIDE DEF u
    <2>4. EndsWritten(u, d, HeadOf(u, d), z, SizeOf(u, d), w)
      BY <1>8, <2>3, WriteTail
    <2> HIDE DEF w, r
    <2>5. \A n \in Item : NextOf(w, n) = IF n = a THEN p ELSE IF n = z THEN b ELSE NextOf(s, n)
      BY <1>7, <1>12, <2>1, <2>3, <2>4 DEF EndsWritten
    <2>6. \A n \in Item : PrevOf(w, n) = IF n = b THEN z ELSE IF n = p THEN a ELSE PrevOf(s, n)
      BY <1>12, <2>3, <2>4, NodesAssumption DEF EndsWritten
    <2> QED
      BY <1>9, <2>1, <2>2, <2>3, <2>4, <2>5, <2>6 DEF SameEnds, SameSizes, EndsWritten
  <1>13. CASE b = NULL /\ a = NULL
    <2> DEFINE v == [s EXCEPT !.prev[p] = NULL, !.next[z] = NULL]
               w == [v EXCEPT !.head[d] = p, !.tail[d] = z]
    <2>1. k = Len(c) /\ k = 0 /\ TailOf(s, d) = NULL
      BY <1>4, <1>6, <1>13
    <2>2. r = w
      BY <1>13, <2>1 DEF Attached, TailOf
    <2>3. /\ v \in Mem /\ SameEnds(s, v)
          /\ \A n \in Item : NextOf(v, n) = IF n = z THEN NULL ELSE NextOf(s, n)
          /\ \A n \in Item : PrevOf(v, n) = IF n = p THEN NULL ELSE PrevOf(s, n)
      <3> DEFINE x == SetPrev(s, p, NULL)
      <3>1. v = SetNext(x, z, NULL)
        BY <1>7 DEF SetNext, SetPrev
      <3>2. /\ x \in Mem /\ SameEnds(s, x)
            /\ \A n \in Item : PrevOf(x, n) = IF n = p THEN NULL ELSE PrevOf(s, n)
            /\ \A n \in Item : NextOf(x, n) = NextOf(s, n)
        BY <1>1, <1>8, SetPrevFields
      <3> HIDE DEF x, v
      <3>3. /\ SetNext(x, z, NULL) \in Mem /\ SameEnds(x, SetNext(x, z, NULL))
            /\ \A n \in Item : NextOf(SetNext(x, z, NULL), n) = IF n = z THEN NULL ELSE NextOf(x, n)
            /\ \A n \in Item : PrevOf(SetNext(x, z, NULL), n) = PrevOf(x, n)
        BY <1>8, <3>2, SetNextFields
      <3> QED
        BY <3>1, <3>2, <3>3 DEF SameEnds
    <2> HIDE DEF v
    <2>4. EndsWritten(v, d, p, z, SizeOf(v, d), w)
      BY <1>8, <2>3, WriteHeadTail
    <2> HIDE DEF w, r
    <2>5. \A n \in Item : NextOf(w, n) = IF n = a THEN p ELSE IF n = z THEN b ELSE NextOf(s, n)
      BY <1>13, <2>3, <2>4, NodesAssumption DEF EndsWritten
    <2>6. \A n \in Item : PrevOf(w, n) = IF n = b THEN z ELSE IF n = p THEN a ELSE PrevOf(s, n)
      BY <1>13, <2>3, <2>4, NodesAssumption DEF EndsWritten
    <2> QED
      BY <1>9, <2>1, <2>2, <2>3, <2>4, <2>5, <2>6 DEF SameEnds, SameSizes, EndsWritten
  <1> QED
    BY <1>10, <1>11, <1>12, <1>13

LEMMA PartItems ==
  ASSUME NEW c \in Seq(Item), NEW f \in 0 .. Len(c), NEW l \in f .. Len(c)
  PROVE  /\ SubSeq(c, f + 1, l) \in Seq(Item) /\ Len(SubSeq(c, f + 1, l)) = l - f
         /\ \A i \in 1 .. l - f : SubSeq(c, f + 1, l)[i] = c[f + i]
  <1>1. f + 1 \in 1 .. Len(c) + 1 /\ l \in (f + 1) - 1 .. Len(c)
    OBVIOUS
  <1>2. f + 1 <= l + 1 => Len(SubSeq(c, f + 1, l)) = l - (f + 1) + 1
    BY <1>1, SubSeqProperties
  <1>3. \A i \in 1 .. l - f : SubSeq(c, f + 1, l)[i] = c[(f + 1) + i - 1] /\ (f + 1) + i - 1 = f + i
    BY <1>1, SubSeqProperties
  <1>4. SubSeq(c, f + 1, l) \in Seq(Item)
    BY <1>1, SubSeqProperties
  <1> QED
    BY <1>2, <1>3, <1>4

LEMMA TakenBlock ==
  ASSUME NEW c \in Seq(Item), Distinct(c), NEW f \in 0 .. Len(c), NEW l \in f .. Len(c)
  PROVE  /\ Nodes(SubSeq(c, f + 1, l)) = Block(c, f, l)
         /\ Distinct(SubSeq(c, f + 1, l))
         /\ WithoutBlock(c, f, l, SubSeq(c, 1, f) \o SubSeq(c, l + 1, Len(c)))
  <1> DEFINE y == SubSeq(c, f + 1, l)
             a == SubSeq(c, 1, f)
             b == SubSeq(c, l + 1, Len(c))
             w == a \o b
             n == Len(c)
  <1>1. n \in Nat /\ f \in Nat /\ l \in Nat /\ f <= l /\ l <= n
    OBVIOUS
  <1>2. y \in Seq(Item) /\ Len(y) = l - f /\ \A i \in 1 .. l - f : y[i] = c[f + i]
    BY PartItems
  <1>3. a \in Seq(Item) /\ Len(a) = f /\ \A i \in 1 .. f : a[i] = c[i]
    <2>1. 0 \in 0 .. Len(c) /\ f \in 0 .. Len(c) /\ 0 + 1 = 1 /\ f - 0 = f /\ \A i \in 1 .. f : 0 + i = i
      OBVIOUS
    <2>2. /\ SubSeq(c, 0 + 1, f) \in Seq(Item) /\ Len(SubSeq(c, 0 + 1, f)) = f - 0
          /\ \A i \in 1 .. f - 0 : SubSeq(c, 0 + 1, f)[i] = c[0 + i]
      BY <2>1, PartItems
    <2> QED
      BY <2>1, <2>2
  <1>4. b \in Seq(Item) /\ Len(b) = n - l /\ \A i \in 1 .. n - l : b[i] = c[l + i]
    <2>1. l \in 0 .. Len(c) /\ n \in l .. Len(c)
      BY <1>1
    <2> QED
      BY <2>1, PartItems
  <1>5. w \in Seq(Item) /\ Joined(w, a, b)
    BY <1>3, <1>4, ConcatJoins
  <1> HIDE DEF y, a, b, w, n
  <1>6. Len(w) = n - (l - f) /\ \A j \in 1 .. n - (l - f) : w[j] = IF j <= f THEN c[j] ELSE c[j + (l - f)]
    <2>1. f + (n - l) = n - (l - f)
      BY <1>1
    <2>2. Len(w) = n - (l - f) /\ \A j \in 1 .. n - (l - f) : w[j] = IF j <= f THEN a[j] ELSE b[j - f]
      BY <1>3, <1>4, <1>5, <2>1 DEF Joined
    <2>3. ASSUME NEW j \in 1 .. n - (l - f), j <= f PROVE w[j] = c[j]
      <3>1. j \in 1 .. f
        BY <2>3
      <3> QED
        BY <1>3, <2>2, <2>3, <3>1
    <2>4. ASSUME NEW j \in 1 .. n - (l - f), ~ (j <= f) PROVE w[j] = c[j + (l - f)]
      <3>1. j - f \in 1 .. n - l /\ l + (j - f) = j + (l - f)
        BY <1>1, <2>4
      <3> QED
        BY <1>4, <2>2, <2>4, <3>1
    <2> QED
      BY <2>2, <2>3, <2>4
  <1>7. Nodes(y) = Block(c, f, l)
    <2>1. ASSUME NEW i \in 1 .. l - f PROVE y[i] \in Block(c, f, l)
      <3>1. f + i \in f + 1 .. l
        BY <1>1
      <3> QED
        BY <1>2, <3>1 DEF Block
    <2>2. ASSUME NEW j \in f + 1 .. l PROVE c[j] \in Nodes(y)
      <3>1. j - f \in 1 .. l - f /\ f + (j - f) = j
        BY <1>1
      <3> QED
        BY <1>2, <3>1 DEF Nodes
    <2> QED
      BY <1>2, <2>1, <2>2 DEF Nodes, Block
  <1>8. Distinct(y)
    <2> SUFFICES ASSUME NEW i \in 1 .. l - f, NEW j \in 1 .. l - f, y[i] = y[j] PROVE i = j
      BY <1>2 DEF Distinct
    <2>1. f + i \in 1 .. n /\ f + j \in 1 .. n
      BY <1>1
    <2>2. f + i = f + j
      BY <1>2, <2>1 DEF Distinct, n
    <2> QED
      BY <1>1, <2>2
  <1> QED
    BY <1>5, <1>6, <1>7, <1>8 DEF WithoutBlock, y, w, a, b, n

LEMMA PutBlock ==
  ASSUME NEW c \in Seq(Item), NEW y \in Seq(Item), NEW k \in 0 .. Len(c)
  PROVE  WithBlock(c, k, y, SubSeq(c, 1, k) \o y \o SubSeq(c, k + 1, Len(c)))
  <1> DEFINE a == SubSeq(c, 1, k)
             b == SubSeq(c, k + 1, Len(c))
             v == a \o y
             w == v \o b
             n == Len(c)
             m == Len(y)
  <1>1. n \in Nat /\ k \in Nat /\ k <= n /\ m \in Nat
    OBVIOUS
  <1>2. a \in Seq(Item) /\ Len(a) = k /\ \A i \in 1 .. k : a[i] = c[i]
    <2>1. 0 \in 0 .. Len(c) /\ k \in 0 .. Len(c) /\ 0 + 1 = 1 /\ k - 0 = k /\ \A i \in 1 .. k : 0 + i = i
      OBVIOUS
    <2>2. /\ SubSeq(c, 0 + 1, k) \in Seq(Item) /\ Len(SubSeq(c, 0 + 1, k)) = k - 0
          /\ \A i \in 1 .. k - 0 : SubSeq(c, 0 + 1, k)[i] = c[0 + i]
      BY <2>1, PartItems
    <2> QED
      BY <2>1, <2>2
  <1>3. b \in Seq(Item) /\ Len(b) = n - k /\ \A i \in 1 .. n - k : b[i] = c[k + i]
    <2>1. k \in 0 .. Len(c) /\ n \in k .. Len(c)
      BY <1>1
    <2> QED
      BY <2>1, PartItems
  <1>4. v \in Seq(Item) /\ Joined(v, a, y)
    BY <1>2, ConcatJoins
  <1> HIDE DEF v, a, b
  <1>5. w \in Seq(Item) /\ Joined(w, v, b)
    BY <1>3, <1>4, ConcatJoins
  <1> HIDE DEF w, m, n
  <1>6. Len(v) = k + m /\ \A j \in 1 .. k + m : v[j] = IF j <= k THEN a[j] ELSE y[j - k]
    BY <1>2, <1>4 DEF Joined, m
  <1>7. Len(w) = n + m /\ \A j \in 1 .. n + m : w[j] = IF j <= k + m THEN v[j] ELSE b[j - (k + m)]
    <2>1. (k + m) + (n - k) = n + m
      BY <1>1
    <2> QED
      BY <1>3, <1>5, <1>6, <2>1 DEF Joined
  <1>8. ASSUME NEW j \in 1 .. n + m
        PROVE  w[j] = IF j <= k THEN c[j] ELSE IF j <= k + m THEN y[j - k] ELSE c[j - m]
    <2>1. CASE j <= k
      <3>1. j \in 1 .. k /\ j \in 1 .. k + m /\ j <= k + m
        BY <1>1, <2>1
      <3> QED
        BY <1>2, <1>6, <1>7, <2>1, <3>1
    <2>2. CASE ~ (j <= k) /\ j <= k + m
      <3>1. j \in 1 .. k + m
        BY <1>1, <2>2
      <3> QED
        BY <1>6, <1>7, <2>2, <3>1
    <2>3. CASE ~ (j <= k + m)
      <3>1. j - (k + m) \in 1 .. n - k /\ k + (j - (k + m)) = j - m /\ ~ (j <= k)
        BY <1>1, <2>3
      <3> QED
        BY <1>3, <1>7, <2>3, <3>1
    <2> QED
      BY <2>1, <2>2, <2>3
  <1> QED
    BY <1>5, <1>7, <1>8 DEF WithBlock, w, v, a, b, n, m

(* The lists without the nodes f + 1 .. l of e; where index at of d is in  *)
(* them; and y put in there.                                               *)
Rest(C, e, f, l) ==
  [C EXCEPT ![e] = SubSeq(C[e], 1, f) \o SubSeq(C[e], l + 1, Len(C[e]))]

Shifted(d, at, e, f, l) == IF d = e /\ at >= l THEN at - (l - f) ELSE at

Insertion(c, k, y) == SubSeq(c, 1, k) \o y \o SubSeq(c, k + 1, Len(c))

(* r is s with the nodes f + 1 .. l of e, y, taken out of it.              *)
TakenOut(s, r, C, e, f, l, y) ==
  /\ Holds(r, Rest(C, e, f, l), Nodes(y)) /\ SameSizes(s, r)
  /\ y \in Seq(Item) /\ Len(y) = l - f /\ Distinct(y) /\ y # <<>>
  /\ y[1] = C[e][f + 1] /\ y[Len(y)] = C[e][l]
  /\ Inner(r, y)
  /\ l = Len(C[e]) => NextOf(r, y[Len(y)]) = NULL
  /\ Len(Rest(C, e, f, l)[e]) = Len(C[e]) - (l - f)
  /\ \A j \in Int : At(Rest(C, e, f, l)[e], j) = IF j <= f THEN At(C[e], j) ELSE At(C[e], j + (l - f))

LEMMA DetachGood ==
  ASSUME NEW s, NEW C, Good(s, C), NEW e \in Handle, NEW f \in 0 .. Len(C[e]), NEW l \in f + 1 .. Len(C[e])
  PROVE  TakenOut(s, Detached(s, e, C[e][f + 1], At(C[e], l + 1)), C, e, f, l, SubSeq(C[e], f + 1, l))
  <1> DEFINE c == C[e]
             c2 == SubSeq(c, 1, f) \o SubSeq(c, l + 1, Len(c))
             n == Len(c)
             y == SubSeq(c, f + 1, l)
             r == Detached(s, e, c[f + 1], At(c, l + 1))
  <1>1. /\ ListIs(s, e, c, {}) /\ c \in Seq(Item) /\ n \in Nat /\ Distinct(c) /\ s \in Mem
        /\ C \in [Handle -> Seq(Item)]
    BY GoodList DEF Good, Holds
  <1>2. /\ f \in Nat /\ l \in Nat /\ f < l /\ l <= n /\ f \in 0 .. n /\ l \in f .. n /\ l \in f + 1 .. n
        /\ l - f \in Nat /\ l - f >= 1 /\ f + (l - f) = l
    BY <1>1
  <1>3. y = SubSeq(c, f + 1, l) /\ r = Detached(s, e, c[f + 1], At(c, l + 1)) /\ Rest(C, e, f, l)[e] = c2
    BY <1>1 DEF Rest
  <1> HIDE DEF c2, n, c, y, r
  <1>4. y \in Seq(Item) /\ Len(y) = l - f /\ \A i \in 1 .. l - f : y[i] = c[f + i]
    BY <1>1, <1>2, <1>3, PartItems DEF n
  <1>5. Nodes(y) = Block(c, f, l) /\ Distinct(y) /\ WithoutBlock(c, f, l, c2)
    BY <1>1, <1>2, <1>3, TakenBlock DEF n, c2
  <1>6. CutOut(s, r, e, c, f, l, {}) /\ SameSizes(s, r)
    BY <1>1, <1>2, <1>3, DetachedCuts DEF n
  <1>7. Holds(r, Rest(C, e, f, l), Nodes(y))
    <2>1. Remade(s, r, e, c, {}, c2, {} \cup (Block(c, f, l) \ {}))
      BY <1>1, <1>2, <1>5, <1>6, Cut DEF n
    <2>2. {} \cup (Block(c, f, l) \ {}) = Nodes(y)
      BY <1>5
    <2>3. Remade(s, r, e, C[e], {}, c2, Nodes(y))
      BY <2>1, <2>2 DEF c
    <2> QED
      BY <2>3, HoldsAfter DEF Good, Rest, c2, c
  <1>8. y # <<>> /\ y[1] = c[f + 1] /\ y[Len(y)] = c[l]
    <2>1. 1 \in 1 .. l - f /\ l - f \in 1 .. l - f
      BY <1>2
    <2>2. y[1] = c[f + 1] /\ y[l - f] = c[f + (l - f)]
      BY <1>4, <2>1
    <2>3. Len(y) # 0
      BY <1>2, <1>4
    <2> QED
      BY <1>2, <1>4, <2>2, <2>3
  <1>9. /\ \A j \in 1 .. n : NextOf(s, c[j]) = At(c, j + 1) /\ PrevOf(s, c[j]) = At(c, j - 1)
        /\ \A j \in 1 .. n : c[j] \in Item
        /\ \A i, j \in 1 .. n : c[i] = c[j] => i = j
        /\ \A j \in Int : At(c, j) = IF 1 <= j /\ j <= n THEN c[j] ELSE NULL
    <2>1. \A j \in 1 .. n : c[j] \in Item
      BY <1>1 DEF n
    <2>2. \A j \in 1 .. n : NextOf(s, c[j]) = At(c, j + 1) /\ PrevOf(s, c[j]) = At(c, j - 1)
      BY <1>1, EndsOfList DEF n
    <2>3. \A i, j \in 1 .. n : c[i] = c[j] => i = j
      BY <1>1 DEF Distinct, n
    <2>4. \A j \in Int : j \in 1 .. n <=> 1 <= j /\ j <= n
      BY <1>1
    <2>5. \A j \in Int : At(c, j) = IF 1 <= j /\ j <= n THEN c[j] ELSE NULL
      BY <2>4 DEF At, n
    <2> QED
      BY <2>1, <2>2, <2>3, <2>5
  <1>10. /\ \A j \in f + 1 .. l : NextOf(r, c[j]) = At(c, j + 1) /\ PrevOf(r, c[j]) = At(c, j - 1)
    <2> SUFFICES ASSUME NEW j \in f + 1 .. l
                 PROVE  NextOf(r, c[j]) = At(c, j + 1) /\ PrevOf(r, c[j]) = At(c, j - 1)
      OBVIOUS
    <2>1. j \in 1 .. n /\ f \in Int /\ l + 1 \in Int /\ f # j /\ l + 1 # j
      BY <1>1, <1>2
    <2>2. c[j] # At(c, f)
      <3>1. 1 <= f /\ f <= n => f \in 1 .. n
        BY <1>1, <1>2
      <3> QED
        BY <1>9, <2>1, <3>1, NodesAssumption
    <2>3. c[j] # At(c, l + 1)
      <3>1. 1 <= l + 1 /\ l + 1 <= n => l + 1 \in 1 .. n
        BY <1>1, <1>2
      <3> QED
        BY <1>9, <2>1, <3>1, NodesAssumption
    <2>4. NextOf(r, c[j]) = NextOf(s, c[j]) /\ PrevOf(r, c[j]) = PrevOf(s, c[j])
      BY <1>6, <1>9, <2>1, <2>2, <2>3 DEF CutOut
    <2> QED
      BY <1>9, <2>1, <2>4
  <1>11. Inner(r, y)
    <2> SUFFICES ASSUME NEW i \in 1 .. (l - f) - 1 PROVE NextOf(r, y[i]) = y[i + 1] /\ PrevOf(r, y[i + 1]) = y[i]
      BY <1>4 DEF Inner
    <2>1. /\ i \in 1 .. l - f /\ i + 1 \in 1 .. l - f /\ f + i \in f + 1 .. l /\ f + (i + 1) \in f + 1 .. l
          /\ (f + i) + 1 = f + (i + 1) /\ (f + (i + 1)) - 1 = f + i
          /\ f + i \in Int /\ f + (i + 1) \in Int /\ 1 <= f + i /\ f + i <= n /\ 1 <= f + (i + 1) /\ f + (i + 1) <= n
      BY <1>1, <1>2
    <2>2. y[i] = c[f + i] /\ y[i + 1] = c[f + (i + 1)]
      BY <1>4, <2>1
    <2>3. NextOf(r, c[f + i]) = At(c, f + (i + 1)) /\ PrevOf(r, c[f + (i + 1)]) = At(c, f + i)
      BY <1>10, <2>1
    <2>4. At(c, f + (i + 1)) = c[f + (i + 1)] /\ At(c, f + i) = c[f + i]
      BY <1>9, <2>1
    <2> QED
      BY <2>2, <2>3, <2>4
  <1>12. l = n => NextOf(r, y[Len(y)]) = NULL
    <2> SUFFICES ASSUME l = n PROVE NextOf(r, c[l]) = NULL
      BY <1>8
    <2>1. l \in f + 1 .. l /\ l + 1 \in Int /\ ~ (l + 1 <= n)
      BY <1>1, <1>2
    <2> QED
      BY <1>9, <1>10, <2>1
  <1>13. Len(c2) = n - (l - f) /\ \A j \in Int : At(c2, j) = IF j <= f THEN At(c, j) ELSE At(c, j + (l - f))
    <2>1. /\ Len(c2) = n - (l - f)
          /\ \A j \in 1 .. n - (l - f) : c2[j] = IF j <= f THEN c[j] ELSE c[j + (l - f)]
      BY <1>5 DEF WithoutBlock, n
    <2>2. ASSUME NEW j \in Int PROVE At(c2, j) = IF j <= f THEN At(c, j) ELSE At(c, j + (l - f))
      <3>1. CASE 1 <= j /\ j <= n - (l - f)
        <4>1. /\ j \in 1 .. n - (l - f) /\ j + (l - f) \in Int /\ 1 <= j + (l - f) /\ j + (l - f) <= n /\ j <= n
          BY <1>1, <1>2, <3>1
        <4> QED
          BY <1>9, <2>1, <3>1, <4>1 DEF At
      <3>2. CASE ~ (1 <= j /\ j <= n - (l - f))
        <4>1. /\ j \notin 1 .. n - (l - f) /\ j + (l - f) \in Int
              /\ j <= f => ~ (1 <= j /\ j <= n)
              /\ ~ (j <= f) => ~ (1 <= j + (l - f) /\ j + (l - f) <= n)
          BY <1>1, <1>2, <3>2
        <4> QED
          BY <1>9, <2>1, <4>1 DEF At
      <3> QED
        BY <3>1, <3>2
    <2> QED
      BY <2>1, <2>2
  <1> QED
    BY <1>3, <1>4, <1>5, <1>6, <1>7, <1>8, <1>11, <1>12, <1>13 DEF TakenOut, n, c, y, r

(* k nodes are counted in d that were counted in e. *)
Counted(u, d, e, k) ==
  LET v == [u EXCEPT !.size[d] = @ + k] IN [v EXCEPT !.size[e] = @ - k]

Moved(u, d, e, k, r) ==
  /\ r \in Mem
  /\ \A n \in Item : NextOf(r, n) = NextOf(u, n) /\ PrevOf(r, n) = PrevOf(u, n)
  /\ \A g \in Handle : HeadOf(r, g) = HeadOf(u, g) /\ TailOf(r, g) = TailOf(u, g)
  /\ d = e => SizeOf(r, d) = SizeOf(u, d)
  /\ d # e => SizeOf(r, d) = SizeOf(u, d) + k /\ SizeOf(r, e) = SizeOf(u, e) - k
  /\ \A g \in Handle : g # d /\ g # e => SizeOf(r, g) = SizeOf(u, g)

LEMMA CountedFields ==
  ASSUME NEW u, u \in Mem, NEW d \in Handle, NEW e \in Handle, NEW k \in Nat,
         d # e => SizeOf(u, e) - k \in Nat
  PROVE  Moved(u, d, e, k, Counted(u, d, e, k))
  <1> DEFINE v == [u EXCEPT !.size[d] = @ + k]
             r == Counted(u, d, e, k)
  <1>1. /\ \A n \in Item : NextOf(u, n) \in Link /\ PrevOf(u, n) \in Link
        /\ SizeOf(u, d) \in Nat /\ SizeOf(u, e) \in Nat
    BY FieldTypes
  <1>2. SizeOf(u, d) + k \in Nat
    BY <1>1
  <1>3. v = [u EXCEPT !.size[d] = SizeOf(u, d) + k]
    BY DEF SizeOf
  <1>4. EndsWritten(u, d, HeadOf(u, d), TailOf(u, d), SizeOf(u, d) + k, v)
    BY <1>2, <1>3, WriteSize
  <1>6. r = [v EXCEPT !.size[e] = SizeOf(v, e) - k]
    BY DEF SizeOf, Counted
  <1> HIDE DEF v, r
  <1>5. SizeOf(v, e) - k \in Nat /\ v \in Mem
    <2>1. d = e => SizeOf(v, e) = SizeOf(u, e) + k
      BY <1>4 DEF EndsWritten
    <2>2. d # e => SizeOf(v, e) = SizeOf(u, e)
      BY <1>4 DEF EndsWritten
    <2> QED
      BY <1>1, <1>4, <2>1, <2>2 DEF EndsWritten
  <1>7. EndsWritten(v, e, HeadOf(v, e), TailOf(v, e), SizeOf(v, e) - k, r)
    BY <1>5, <1>6, WriteSize
  <1> QED
    BY <1>1, <1>4, <1>7 DEF EndsWritten, Moved, r

LEMMA SpliceGood ==
  ASSUME NEW s, NEW C, Good(s, C), NEW d \in Handle, NEW e \in Handle, NEW at \in 0 .. Len(C[d]),
         NEW f \in 0 .. Len(C[e]), NEW l \in f + 1 .. Len(C[e]),
         d = e => at \notin f .. l - 1,
         at < Len(C[d]) \/ l = Len(C[e]) \/ Len(C[d]) = 0,
         NEW R, R = Rest(C, e, f, l), NEW y, y = SubSeq(C[e], f + 1, l),
         NEW k, k = Shifted(d, at, e, f, l)
  PROVE  Good(Spliced(s, d, At(C[d], at + 1), e, At(C[e], f + 1), At(C[e], l + 1), l - f),
              [R EXCEPT ![d] = Insertion(R[d], k, y)])
  <1> DEFINE p == At(C[d], at + 1)
             last == At(C[e], l + 1)
             u == Detached(s, e, C[e][f + 1], last)
             w == Attached(u, d, p, y[1], y[Len(y)])
             r == Counted(w, d, e, l - f)
             c2 == Insertion(R[d], k, y)
             D == [R EXCEPT ![d] = c2]
             n == Len(C[e])
             m == Len(C[d])
  <1>1. /\ s \in Mem /\ C[e] \in Seq(Item) /\ n \in Nat /\ m \in Nat /\ C[d] \in Seq(Item)
        /\ ListIs(s, e, C[e], {}) /\ C \in [Handle -> Seq(Item)]
        /\ \A g \in Handle : SizeOf(s, g) = Len(C[g])
    BY GoodList DEF Good, Holds, Sized
  <1>2. /\ f \in Nat /\ l \in Nat /\ f < l /\ l <= n /\ l - f \in Nat /\ l - f >= 1 /\ at \in Nat /\ at <= m
        /\ n - (l - f) \in Nat /\ at + 1 \in Int /\ l + 1 \in Int /\ f + 1 \in 1 .. n /\ l \in 1 .. n
    BY <1>1
  <1>3. /\ Holds(u, R, Nodes(y)) /\ SameSizes(s, u)
        /\ y \in Seq(Item) /\ Len(y) = l - f /\ Distinct(y) /\ y # <<>>
        /\ y[1] = C[e][f + 1] /\ y[Len(y)] = C[e][l]
        /\ Inner(u, y)
        /\ l = n => NextOf(u, y[Len(y)]) = NULL
        /\ Len(R[e]) = n - (l - f)
        /\ \A j \in Int : At(R[e], j) = IF j <= f THEN At(C[e], j) ELSE At(C[e], j + (l - f))
    <2>1. TakenOut(s, u, C, e, f, l, y)
      BY DetachGood
    <2> HIDE DEF u
    <2> QED
      BY <2>1 DEF TakenOut
  <1> HIDE DEF u
  <1>4. R \in [Handle -> Seq(Item)] /\ \A g \in Handle \ {e} : R[g] = C[g]
    <2>1. R \in [Handle -> Seq(Item)]
      BY <1>3 DEF Holds
    <2>2. \A g \in Handle \ {e} : R[g] = C[g]
      BY <1>1 DEF Rest
    <2> QED
      BY <2>1, <2>2
  <1>5. Spliced(s, d, p, e, At(C[e], f + 1), last, l - f) = r
    <2>1. At(C[e], f + 1) = C[e][f + 1]
      BY <1>2 DEF At
    <2>2. (IF last = NULL THEN s.tail[e] ELSE s.prev[last]) = y[Len(y)]
      <3>1. CASE last = NULL
        <4>1. l = n
          BY <1>1, <1>2, <3>1, AtTypes
        <4>2. TailOf(s, e) = At(C[e], n)
          BY <1>1, EndsOfList
        <4> QED
          BY <1>2, <1>3, <3>1, <4>1, <4>2 DEF TailOf, At
      <3>2. CASE last # NULL
        <4>1. l + 1 \in 1 .. n /\ last = C[e][l + 1] /\ (l + 1) - 1 = l
          BY <1>1, <1>2, <3>2, AtTypes
        <4>2. PrevOf(s, C[e][l + 1]) = At(C[e], (l + 1) - 1)
          BY <1>1, <4>1, EndsOfList
        <4>3. PrevOf(s, C[e][l + 1]) = C[e][l]
          BY <1>2, <4>1, <4>2 DEF At
        <4> QED
          BY <1>3, <3>2, <4>1, <4>3 DEF PrevOf
      <3> QED
        BY <3>1, <3>2
    <2> QED
      BY <1>3, <2>1, <2>2, Zenon DEF Spliced, Counted, u
  <1>6. k \in 0 .. Len(R[d]) /\ p = At(R[d], k + 1) /\ (k = Len(R[d]) /\ Len(R[d]) # 0 => NextOf(u, y[Len(y)]) = NULL)
    <2>1. CASE d # e
      <3>1. k = at /\ R[d] = C[d]
        BY <1>4, <2>1 DEF Shifted
      <3> QED
        BY <1>1, <1>2, <1>3, <3>1
    <2>2. CASE d = e
      <3>1. at < f \/ at >= l
        BY <1>1, <1>2, <2>2
      <3>2. CASE at < f
        <4>1. k = at /\ k + 1 <= f /\ k + 1 \in Int /\ k \in 0 .. n - (l - f) /\ k # n - (l - f)
          BY <1>2, <2>2, <3>2 DEF Shifted
        <4> QED
          BY <1>3, <2>2, <4>1
      <3>3. CASE at >= l
        <4>1. /\ k = at - (l - f) /\ k + 1 \in Int /\ ~ (k + 1 <= f) /\ (k + 1) + (l - f) = at + 1
              /\ k \in 0 .. n - (l - f) /\ (k = n - (l - f) => at = n)
          BY <1>2, <2>2, <3>3 DEF Shifted
        <4>2. at = n => l = n
          BY <1>1, <1>2, <2>2
        <4> QED
          BY <1>3, <2>2, <4>1, <4>2
      <3> QED
        BY <3>1, <3>2, <3>3
    <2> QED
      BY <2>1, <2>2
  <1>7. ListIs(u, d, R[d], Nodes(y)) /\ R[d] \in Seq(Item) /\ Nodes(y) \cap Nodes(R[d]) = {} /\ Len(R[d]) \in Nat
    <2>1. ListIs(u, d, R[d], Nodes(y))
      BY <1>3, HeldList
    <2> QED
      BY <2>1, EndsOfList DEF ListIs
  <1>8. Woven(u, w, d, R[d], k, y) /\ SameSizes(u, w)
    <2> DEFINE x == Attached(u, d, At(R[d], k + 1), y[1], y[Len(y)])
    <2>1. Woven(u, x, d, R[d], k, y) /\ SameSizes(u, x)
      BY <1>3, <1>6, <1>7, AttachedWeaves
    <2>2. w = x
      BY <1>6, Zenon
    <2> HIDE DEF x, w
    <2> QED
      BY <2>1, <2>2
  <1>9. WithBlock(R[d], k, y, c2)
    BY <1>3, <1>6, <1>7, PutBlock DEF Insertion
  <1> HIDE DEF w, c2, p, last
  <1>10. Remade(u, w, d, R[d], Nodes(y), c2, Nodes(y) \ Nodes(y))
    <2>1. \A x \in Nodes(y) : x \in Nodes(y) \/ NextOf(u, x) = Junk
      OBVIOUS
    <2> QED
      BY <1>3, <1>6, <1>7, <1>8, <1>9, <2>1, Weave
  <1>11. Holds(w, D, {})
    <2>1. Nodes(y) \ Nodes(y) = {}
      OBVIOUS
    <2>2. Remade(u, w, d, R[d], Nodes(y), c2, {})
      BY <1>10, <2>1
    <2> QED
      BY <1>3, <2>2, HoldsAfter
  <1>12. /\ r \in Mem
         /\ \A x \in Item : NextOf(r, x) = NextOf(w, x) /\ PrevOf(r, x) = PrevOf(w, x)
         /\ \A g \in Handle : HeadOf(r, g) = HeadOf(w, g) /\ TailOf(r, g) = TailOf(w, g)
         /\ d = e => SizeOf(r, d) = SizeOf(w, d)
         /\ d # e => SizeOf(r, d) = SizeOf(w, d) + (l - f) /\ SizeOf(r, e) = SizeOf(w, e) - (l - f)
         /\ \A g \in Handle : g # d /\ g # e => SizeOf(r, g) = SizeOf(w, g)
    <2> DEFINE h == l - f
    <2>1. w \in Mem
      BY <1>8 DEF Woven
    <2>2. SizeOf(w, e) = n
      BY <1>1, <1>3, <1>8 DEF SameSizes
    <2>3. SizeOf(w, e) - (l - f) \in Nat
      BY <1>2, <2>2
    <2> QED
      <3>1. SizeOf(w, e) - h \in Nat /\ h \in Nat
        BY <1>2, <2>3
      <3> HIDE DEF h
      <3>2. Moved(w, d, e, h, Counted(w, d, e, h))
        BY <2>1, <3>1, CountedFields
      <3>3. Moved(w, d, e, l - f, r)
        BY <3>2 DEF h
      <3> HIDE DEF r
      <3> QED
        BY <3>3 DEF Moved
  <1> HIDE DEF r
  <1>13. D \in [Handle -> Seq(Item)] /\ D[d] = c2 /\ \A g \in Handle \ {d} : D[g] = R[g]
    BY <1>4, <1>9 DEF WithBlock
  <1> HIDE DEF D
  <1>14. Holds(r, D, {})
    <2>1. \A g \in Handle : \A j \in 1 .. Len(D[g]) : D[g][j] \in Item
      BY <1>13
    <2> QED
      BY <1>11, <1>12, <2>1 DEF Holds, Chained
  <1>15. Sized(r, D)
    <2>1. Len(c2) = Len(R[d]) + (l - f)
      BY <1>3, <1>9 DEF WithBlock
    <2>2. \A g \in Handle : SizeOf(w, g) = Len(C[g])
      BY <1>1, <1>3, <1>8 DEF SameSizes
    <2>3. CASE d = e
      <3>1. SizeOf(r, d) = Len(D[d])
        <4>1. Len(D[d]) = (n - (l - f)) + (l - f)
          BY <1>3, <1>13, <2>1, <2>3
        <4>2. SizeOf(r, d) = n
          BY <1>12, <2>2, <2>3
        <4>3. (n - (l - f)) + (l - f) = n
          BY <1>1, <1>2
        <4> QED
          BY <4>1, <4>2, <4>3
      <3> QED
        BY <1>4, <1>12, <1>13, <2>2, <2>3, <3>1 DEF Sized
    <2>4. CASE d # e
      <3>1. SizeOf(r, d) = Len(D[d]) /\ SizeOf(r, e) = Len(D[e])
        BY <1>1, <1>3, <1>4, <1>12, <1>13, <2>1, <2>2, <2>4
      <3> QED
        BY <1>4, <1>12, <1>13, <2>2, <2>4, <3>1 DEF Sized
    <2> QED
      BY <2>3, <2>4
  <1> QED
    BY <1>5, <1>14, <1>15 DEF Good, D, c2, p, last

-----------------------------------------------------------------------------
(* Walks that keep some of the nodes and erase the others. *)

(* H[i] is what is kept of the first i items of c. *)
Keeps(H, c, K) ==
  /\ H \in [0 .. Len(c) -> Seq(Item)]
  /\ H[0] = <<>>
  /\ \A i \in 0 .. Len(c) - 1 : H[i + 1] = IF c[i + 1] \in K THEN Append(H[i], c[i + 1]) ELSE H[i]

LEMMA KeepingIs ==
  ASSUME NEW c \in Seq(Item), NEW K
  PROVE  \E H : Keeps(H, c, K) /\ Promise!Keeping(c, K) = H[Len(c)]
  <1> DEFINE n == Len(c)
             body(f) == [i \in 0 .. n |-> IF i = 0 THEN <<>> ELSE IF c[i] \in K THEN Append(f[i - 1], c[i]) ELSE f[i - 1]]
             g == [x \in Nat \X Seq(Item) |->
                     IF x[1] \in 0 .. n - 1 /\ c[x[1] + 1] \in K THEN Append(x[2], c[x[1] + 1]) ELSE x[2]]
             H == CHOOSE f : f = body(f)
  <1>1. n \in Nat /\ \A i \in 1 .. n : c[i] \in Item
    OBVIOUS
  <1>2. \E f : f = body(f)
    <2>1. <<>> \in Seq(Item)
      OBVIOUS
    <2>2. StaysIn(g, Seq(Item))
      <3> SUFFICES ASSUME NEW k \in Nat, NEW x \in Seq(Item) PROVE g[<<k, x>>] \in Seq(Item)
        BY DEF StaysIn
      <3>1. k \in 0 .. n - 1 => c[k + 1] \in Item
        BY <1>1
      <3>2. g[<<k, x>>] = IF k \in 0 .. n - 1 /\ c[k + 1] \in K THEN Append(x, c[k + 1]) ELSE x
        OBVIOUS
      <3> HIDE DEF g
      <3> QED
        BY <3>1, <3>2
    <2> HIDE DEF g
    <2>3. PICK f \in [0 .. n -> Seq(Item)] : Obeys(f, <<>>, g, n)
      BY <1>1, <2>1, <2>2, BoundedRecursion
    <2>4. ASSUME NEW i \in 0 .. n, i # 0
          PROVE  f[i] = IF c[i] \in K THEN Append(f[i - 1], c[i]) ELSE f[i - 1]
      <3> DEFINE j == i - 1
      <3>1. j \in 0 .. n - 1 /\ j \in 0 .. n /\ j \in Nat /\ j + 1 = i
        BY <1>1, <2>4
      <3> HIDE DEF j
      <3>2. f[j] \in Seq(Item)
        BY <3>1
      <3>3. g[<<j, f[j]>>] = IF c[i] \in K THEN Append(f[j], c[i]) ELSE f[j]
        BY <3>1, <3>2 DEF g
      <3>4. f[j + 1] = g[<<j, f[j]>>]
        BY <2>3, <3>1 DEF Obeys
      <3> QED
        BY <3>1, <3>3, <3>4 DEF j
    <2>5. f[0] = <<>>
      BY <2>3 DEF Obeys
    <2>6. f = [i \in 0 .. n |-> f[i]]
      OBVIOUS
    <2>7. f = body(f)
      BY <2>4, <2>5, <2>6
    <2> QED
      BY <2>7
  <1>3. H = body(H)
    BY <1>2, Zenon
  <1>4. Promise!Keeping(c, K) = H[n]
    BY DEF Promise!Keeping
  <1> HIDE DEF H
  <1>5. H[0] = <<>> /\ \A i \in 0 .. n - 1 : H[i + 1] = IF c[i + 1] \in K THEN Append(H[i], c[i + 1]) ELSE H[i]
    <2>1. H[0] = <<>>
      BY <1>1, <1>3
    <2>2. ASSUME NEW i \in 0 .. n - 1 PROVE H[i + 1] = IF c[i + 1] \in K THEN Append(H[i], c[i + 1]) ELSE H[i]
      <3> DEFINE j == i + 1
      <3>1. j \in 0 .. n /\ j # 0 /\ j - 1 = i
        BY <1>1
      <3> HIDE DEF j
      <3>2. H[j] = IF c[j] \in K THEN Append(H[j - 1], c[j]) ELSE H[j - 1]
        BY <1>3, <3>1
      <3> QED
        BY <3>1, <3>2 DEF j
    <2> QED
      BY <2>1, <2>2
  <1>6. H \in [0 .. n -> Seq(Item)]
    <2> DEFINE T == {i \in Nat : i <= n => H[i] \in Seq(Item)}
    <2>1. 0 \in T
      BY <1>5, <<>> \in Seq(Item)
    <2>2. \A i \in Nat : i \in T => i + 1 \in T
      <3> SUFFICES ASSUME NEW i \in Nat, i \in T, i + 1 <= n PROVE H[i + 1] \in Seq(Item)
        OBVIOUS
      <3>1. i \in 0 .. n - 1 /\ i + 1 \in 1 .. n /\ H[i] \in Seq(Item)
        BY <1>1
      <3>2. c[i + 1] \in Item
        BY <1>1, <3>1
      <3>3. Append(H[i], c[i + 1]) \in Seq(Item)
        BY <3>1, <3>2
      <3> QED
        BY <1>5, <3>1, <3>3
    <2> HIDE DEF T
    <2>3. \A i \in Nat : i \in T
      BY <2>1, <2>2, Induction
    <2>4. \A i \in 0 .. n : H[i] \in Seq(Item)
      BY <1>1, <2>3 DEF T
    <2> QED
      BY <1>3, <2>4
  <1> QED
    BY <1>4, <1>5, <1>6 DEF Keeps

(* a, followed by what comes after the first i items of c. *)
WithRest(a, c, i) == a \o SubSeq(c, i + 1, Len(c))

LEMMA WithRestItems ==
  ASSUME NEW c \in Seq(Item), NEW a \in Seq(Item), NEW i \in 0 .. Len(c)
  PROVE  /\ WithRest(a, c, i) \in Seq(Item)
         /\ Len(WithRest(a, c, i)) = Len(a) + (Len(c) - i)
         /\ \A j \in 1 .. Len(a) : WithRest(a, c, i)[j] = a[j]
         /\ \A j \in 1 .. Len(c) - i : WithRest(a, c, i)[Len(a) + j] = c[i + j]
  <1> DEFINE b == SubSeq(c, i + 1, Len(c))
             w == a \o b
  <1>1. b \in Seq(Item) /\ Len(b) = Len(c) - i /\ \A j \in 1 .. Len(c) - i : b[j] = c[i + j]
    <2>1. Len(c) \in i .. Len(c)
      OBVIOUS
    <2> QED
      BY <2>1, PartItems
  <1> HIDE DEF b
  <1>2. w \in Seq(Item) /\ Joined(w, a, b)
    BY <1>1, ConcatJoins
  <1>3. Len(a) \in Nat /\ Len(c) \in Nat /\ Len(b) \in Nat
    BY <1>1
  <1> HIDE DEF w
  <1>4. Len(w) = Len(a) + (Len(c) - i)
    BY <1>1, <1>2 DEF Joined
  <1>5. ASSUME NEW j \in 1 .. Len(a) PROVE w[j] = a[j]
    <2>1. j \in 1 .. Len(a) + Len(b) /\ j <= Len(a)
      BY <1>3
    <2> QED
      BY <1>2, <2>1 DEF Joined
  <1>6. ASSUME NEW j \in 1 .. Len(c) - i PROVE w[Len(a) + j] = c[i + j]
    <2>1. Len(a) + j \in 1 .. Len(a) + Len(b) /\ ~ (Len(a) + j <= Len(a)) /\ (Len(a) + j) - Len(a) = j
      BY <1>1, <1>3
    <2>2. w[Len(a) + j] = b[(Len(a) + j) - Len(a)]
      BY <1>2, <2>1 DEF Joined
    <2> QED
      BY <1>1, <2>1, <2>2
  <1> QED
    BY <1>2, <1>4, <1>5, <1>6 DEF WithRest, w, b

LEMMA KeepStays ==
  ASSUME NEW c \in Seq(Item), NEW a \in Seq(Item), NEW i \in 0 .. Len(c) - 1
  PROVE  WithRest(Append(a, c[i + 1]), c, i + 1) = WithRest(a, c, i)
  <1> DEFINE x == c[i + 1]
             a2 == Append(a, x)
             w == WithRest(a, c, i)
             w2 == WithRest(a2, c, i + 1)
             n == Len(c)
             m == Len(a)
  <1>1. n \in Nat /\ m \in Nat /\ i \in Nat /\ i + 1 \in 0 .. n /\ i \in 0 .. n /\ x \in Item
    OBVIOUS
  <1>2. a2 \in Seq(Item) /\ Len(a2) = m + 1 /\ a2[m + 1] = x /\ \A j \in 1 .. m : a2[j] = a[j]
    BY <1>1
  <1>3. /\ w \in Seq(Item) /\ Len(w) = m + (n - i)
        /\ \A j \in 1 .. m : w[j] = a[j]
        /\ \A j \in 1 .. n - i : w[m + j] = c[i + j]
    BY <1>1, WithRestItems
  <1> HIDE DEF a2, w
  <1>4. /\ w2 \in Seq(Item) /\ Len(w2) = (m + 1) + (n - (i + 1))
        /\ \A j \in 1 .. m + 1 : w2[j] = a2[j]
        /\ \A j \in 1 .. n - (i + 1) : w2[(m + 1) + j] = c[(i + 1) + j]
    <2>1. /\ w2 \in Seq(Item) /\ Len(w2) = Len(a2) + (n - (i + 1))
          /\ \A j \in 1 .. Len(a2) : w2[j] = a2[j]
          /\ \A j \in 1 .. n - (i + 1) : w2[Len(a2) + j] = c[(i + 1) + j]
      BY <1>1, <1>2, WithRestItems
    <2> HIDE DEF w2, n, m
    <2> QED
      BY <1>2, <2>1
  <1> HIDE DEF w2, x, n, m
  <1>5. Len(w2) = Len(w)
    BY <1>1, <1>3, <1>4
  <1>6. ASSUME NEW j \in 1 .. Len(w) PROVE w2[j] = w[j]
    <2>1. CASE j <= m
      <3>1. j \in 1 .. m /\ j \in 1 .. m + 1
        BY <1>1, <2>1
      <3> QED
        BY <1>2, <1>3, <1>4, <3>1
    <2>2. CASE j = m + 1
      <3>1. m + 1 \in 1 .. m + 1 /\ 1 \in 1 .. n - i
        BY <1>1
      <3>2. w[m + 1] = c[i + 1]
        BY <1>3, <3>1
      <3> QED
        BY <1>2, <1>4, <2>2, <3>1, <3>2 DEF x
    <2>3. CASE j > m + 1
      <3> DEFINE h == j - (m + 1)
      <3>1. h \in 1 .. n - (i + 1) /\ (m + 1) + h = j /\ h + 1 \in 1 .. n - i /\ m + (h + 1) = j /\ (i + 1) + h = i + (h + 1)
        BY <1>1, <1>3, <2>3
      <3> HIDE DEF h
      <3>2. w2[(m + 1) + h] = c[(i + 1) + h] /\ w[m + (h + 1)] = c[i + (h + 1)]
        BY <1>3, <1>4, <3>1
      <3> QED
        BY <3>1, <3>2
    <2> QED
      BY <1>1, <1>3, <2>1, <2>2, <2>3
  <1>7. w2 = w
    BY <1>3, <1>4, <1>5, <1>6, SeqEqual
  <1> QED
    BY <1>7 DEF w, w2, a2, x

LEMMA KeepDrops ==
  ASSUME NEW c \in Seq(Item), NEW a \in Seq(Item), NEW i \in 0 .. Len(c) - 1
  PROVE  WithoutBlock(WithRest(a, c, i), Len(a), Len(a) + 1, WithRest(a, c, i + 1))
  <1> DEFINE w == WithRest(a, c, i)
             w2 == WithRest(a, c, i + 1)
             n == Len(c)
             m == Len(a)
  <1>1. n \in Nat /\ m \in Nat /\ i \in Nat /\ i + 1 \in 0 .. n /\ i \in 0 .. n
    OBVIOUS
  <1>2. /\ w \in Seq(Item) /\ Len(w) = m + (n - i)
        /\ \A j \in 1 .. m : w[j] = a[j]
        /\ \A j \in 1 .. n - i : w[m + j] = c[i + j]
    BY <1>1, WithRestItems
  <1>3. /\ w2 \in Seq(Item) /\ Len(w2) = m + (n - (i + 1))
        /\ \A j \in 1 .. m : w2[j] = a[j]
        /\ \A j \in 1 .. n - (i + 1) : w2[m + j] = c[(i + 1) + j]
    BY <1>1, WithRestItems
  <1> HIDE DEF w, w2, n, m
  <1>4. Len(w2) = Len(w) - ((m + 1) - m)
    BY <1>1, <1>2, <1>3
  <1>5. ASSUME NEW j \in 1 .. Len(w) - ((m + 1) - m)
        PROVE  w2[j] = IF j <= m THEN w[j] ELSE w[j + ((m + 1) - m)]
    <2>1. CASE j <= m
      <3>1. j \in 1 .. m
        BY <2>1
      <3> QED
        BY <1>2, <1>3, <2>1, <3>1
    <2>2. CASE ~ (j <= m)
      <3> DEFINE h == j - m
      <3>1. /\ h \in 1 .. n - (i + 1) /\ m + h = j /\ h + 1 \in 1 .. n - i /\ m + (h + 1) = j + ((m + 1) - m)
            /\ (i + 1) + h = i + (h + 1)
        BY <1>1, <1>2, <2>2
      <3> HIDE DEF h
      <3>2. w2[m + h] = c[(i + 1) + h] /\ w[m + (h + 1)] = c[i + (h + 1)]
        BY <1>2, <1>3, <3>1
      <3> QED
        BY <2>2, <3>1, <3>2
    <2> QED
      BY <2>1, <2>2
  <1> QED
    BY <1>3, <1>4, <1>5 DEF WithoutBlock, w, w2, m

(* The walk stands at node Len(a) + 1, which is c[i + 1]. *)
LEMMA WithRestAt ==
  ASSUME NEW c \in Seq(Item), NEW a \in Seq(Item), NEW i \in 0 .. Len(c) - 1
  PROVE  /\ Len(a) + 1 \in 1 .. Len(WithRest(a, c, i)) /\ WithRest(a, c, i)[Len(a) + 1] = c[i + 1]
         /\ At(WithRest(a, c, i), (Len(a) + 1) + 1) = At(c, (i + 1) + 1)
  <1> DEFINE w == WithRest(a, c, i)
             n == Len(c)
             m == Len(a)
  <1>1. n \in Nat /\ m \in Nat /\ i \in Nat /\ i \in 0 .. n /\ 1 \in 1 .. n - i /\ m + 1 \in 1 .. m + (n - i)
    OBVIOUS
  <1>2. /\ w \in Seq(Item) /\ Len(w) = m + (n - i)
        /\ \A j \in 1 .. n - i : w[m + j] = c[i + j]
    BY <1>1, WithRestItems
  <1> HIDE DEF w, n, m
  <1>3. w[m + 1] = c[i + 1]
    BY <1>1, <1>2
  <1>4. At(w, (m + 1) + 1) = At(c, (i + 1) + 1)
    <2>1. CASE i + 1 < n
      <3>1. 2 \in 1 .. n - i /\ m + 2 = (m + 1) + 1 /\ i + 2 = (i + 1) + 1 /\ (m + 1) + 1 \in 1 .. m + (n - i) /\ (i + 1) + 1 \in 1 .. n
        BY <1>1, <2>1
      <3>2. w[m + 2] = c[i + 2]
        BY <1>2, <3>1
      <3> QED
        BY <1>2, <3>1, <3>2 DEF At, n
    <2>2. CASE ~ (i + 1 < n)
      <3>1. ~ ((m + 1) + 1 \in 1 .. m + (n - i)) /\ ~ ((i + 1) + 1 \in 1 .. n)
        BY <1>1, <2>2
      <3> QED
        BY <1>2, <3>1 DEF At, n
    <2> QED
      BY <2>1, <2>2
  <1> QED
    BY <1>1, <1>2, <1>3, <1>4 DEF w, n, m

(* The node c[i + 1] of a list that is WithRest(a, c, i) is erased.        *)
LEMMA DropGood ==
  ASSUME NEW s, NEW C, Good(s, C), NEW d \in Handle, NEW c \in Seq(Item), NEW a \in Seq(Item),
         NEW i \in 0 .. Len(c) - 1, C[d] = WithRest(a, c, i)
  PROVE  Good(ErasedNode(s, d, c[i + 1]), [C EXCEPT ![d] = WithRest(a, c, i + 1)])
  <1> DEFINE w == WithRest(a, c, i)
             w2 == WithRest(a, c, i + 1)
             p == Len(a) + 1
             r == ErasedNode(s, d, c[i + 1])
  <1>1. p \in 1 .. Len(w) /\ w[p] = c[i + 1]
    BY WithRestAt
  <1>2. WithoutBlock(w, Len(a), p, w2) /\ Len(a) = p - 1
    <2>1. Len(a) \in Nat
      OBVIOUS
    <2> QED
      BY <2>1, KeepDrops
  <1>3. WithoutBlock(w, p - 1, p, w2)
    <2> HIDE DEF w, w2, p
    <2> QED
      BY <1>2
  <1> HIDE DEF w2, p
  <1>4. ListIs(s, d, w, {}) /\ SizeOf(s, d) = Len(w)
    BY GoodList
  <1> HIDE DEF w
  <1>5. Erases(s, ErasedNode(s, d, w[p]), d, w, p)
    BY <1>1, <1>4, ErasedNodeCuts
  <1>6. Erases(s, r, d, C[d], p)
    BY <1>1, <1>5 DEF w
  <1>7. WithoutBlock(C[d], p - 1, p, w2) /\ p \in 1 .. Len(C[d])
    BY <1>1, <1>3 DEF w
  <1> HIDE DEF r
  <1>8. Good(r, [C EXCEPT ![d] = w2])
    BY <1>6, <1>7, EraseGood
  <1> QED
    BY <1>8 DEF r, w2

(* One round of each of the loops that are defined by recursion.           *)
Round(k, x, p) ==
  CASE k = "erase_if" -> EraseIfStep(x, p[1], p[2])
    [] k = "unique" -> UniqueStep(x, p[1])
    [] k = "merge" -> MergeStep(x)
    [] k = "halve" -> HalveStep(p[1], x)
    [] OTHER -> SortStep(x)

Rounds(w, N, b, k, p) == w = [i \in 0 .. N |-> IF i = 0 THEN b ELSE Round(k, w[i - 1], p)]

LEMMA RoundsExist ==
  ASSUME NEW k, NEW b, NEW p, NEW N \in Nat
  PROVE  \E w : Rounds(w, N, b, k, p)
  <1> DEFINE body(n, f) == [i \in 0 .. n |-> IF i = 0 THEN b ELSE Round(k, f[i - 1], p)]
             T == {n \in Nat : \E f : f = body(n, f)}
  <1>1. 0 \in T
    <2> DEFINE f == [i \in 0 .. 0 |-> b]
    <2>1. f = body(0, f)
      OBVIOUS
    <2> QED
      BY <2>1
  <1>2. \A n \in Nat : n \in T => n + 1 \in T
    <2> SUFFICES ASSUME NEW n \in Nat, n \in T PROVE \E h : h = body(n + 1, h)
      OBVIOUS
    <2>1. PICK f : f = body(n, f)
      OBVIOUS
    <2> DEFINE h == [i \in 0 .. n + 1 |-> IF i = n + 1 THEN Round(k, f[n], p) ELSE f[i]]
    <2>2. h[0] = b
      <3>1. f[0] = b
        BY <2>1
      <3> QED
        BY <3>1
    <2>3. ASSUME NEW i \in 0 .. n + 1, i # 0 PROVE h[i] = Round(k, h[i - 1], p)
      <3>1. i - 1 \in 0 .. n /\ h[i - 1] = f[i - 1]
        BY <2>3
      <3>2. CASE i = n + 1
        BY <3>1, <3>2
      <3>3. CASE i # n + 1
        <4>1. i \in 0 .. n
          BY <3>3
        <4>2. f[i] = Round(k, f[i - 1], p)
          BY <2>1, <2>3, <4>1
        <4> QED
          BY <3>1, <3>3, <4>2
      <3> QED
        BY <3>2, <3>3
    <2>4. h = body(n + 1, h)
      <3>1. h = [i \in 0 .. n + 1 |-> h[i]]
        OBVIOUS
      <3> HIDE DEF h
      <3> QED
        BY <2>2, <2>3, <3>1
    <2> QED
      BY <2>4
  <1> HIDE DEF T
  <1>3. \A n \in Nat : n \in T
    BY <1>1, <1>2, Induction
  <1> QED
    BY <1>3 DEF T, Rounds

(* The loop as it runs: what it starts from and what each round makes of it. *)
Runs(w, N, b, k, p) == w[0] = b /\ \A i \in 0 .. N - 1 : w[i + 1] = Round(k, w[i], p)

LEMMA RoundsRun ==
  ASSUME NEW k, NEW b, NEW p, NEW N \in Nat, NEW w, Rounds(w, N, b, k, p)
  PROVE  Runs(w, N, b, k, p)
  <1> USE DEF Rounds
  <1>1. w[0] = b
    OBVIOUS
  <1>2. ASSUME NEW i \in 0 .. N - 1 PROVE w[i + 1] = Round(k, w[i], p)
    <2> DEFINE j == i + 1
    <2>1. j \in 0 .. N /\ j # 0 /\ j - 1 = i
      OBVIOUS
    <2> HIDE DEF j
    <2>2. w[j] = Round(k, w[j - 1], p)
      BY <2>1
    <2> QED
      BY <2>1, <2>2 DEF j
  <1> QED
    BY <1>1, <1>2 DEF Runs

LEMMA ErasedIfRuns ==
  ASSUME NEW s, NEW d, NEW S
  PROVE  \E w : /\ w[0] = [mem |-> s, curr |-> s.head[d]]
                /\ \A i \in 0 .. Cardinality(Item) - 1 : w[i + 1] = EraseIfStep(w[i], d, S)
                /\ ErasedIf(s, d, S) = w[Cardinality(Item)].mem
  <1> DEFINE N == Cardinality(Item)
             b == [mem |-> s, curr |-> s.head[d]]
             p == <<d, S>>
             w == CHOOSE f : f = [i \in 0 .. N |-> IF i = 0 THEN b ELSE EraseIfStep(f[i - 1], d, S)]
             v == CHOOSE f : f = [i \in 0 .. N |-> IF i = 0 THEN b ELSE Round("erase_if", f[i - 1], p)]
  <1>1. \A x : Round("erase_if", x, p) = EraseIfStep(x, d, S)
    BY DEF Round
  <1>2. w = v
    BY <1>1, Zenon
  <1>3. Runs(v, N, b, "erase_if", p)
    <2>1. \E f : Rounds(f, N, b, "erase_if", p)
      BY CardinalityNat, RoundsExist
    <2>2. Rounds(v, N, b, "erase_if", p)
      BY <2>1, Zenon DEF Rounds
    <2> HIDE DEF v, b, p
    <2> QED
      BY <2>2, CardinalityNat, RoundsRun
  <1>4. ErasedIf(s, d, S) = w[N].mem
    BY DEF ErasedIf
  <1> HIDE DEF w, v, p
  <1> QED
    BY <1>1, <1>2, <1>3, <1>4 DEF Runs

(* A round that erases c[i + 1] or leaves it.                              *)
LEMMA EraseIfRound ==
  ASSUME NEW w, NEW C, Good(w.mem, C), NEW d \in Handle, NEW S, NEW c \in Seq(Item), NEW a \in Seq(Item),
         NEW i \in 0 .. Len(c) - 1, C[d] = WithRest(a, c, i), w.curr = c[i + 1]
  PROVE  LET r == EraseIfStep(w, d, S)
             a2 == IF c[i + 1] \in Item \ S THEN Append(a, c[i + 1]) ELSE a
         IN r.curr = At(c, (i + 1) + 1) /\ Good(r.mem, [C EXCEPT ![d] = WithRest(a2, c, i + 1)])
  <1> DEFINE x == c[i + 1]
             s == w.mem
             r == EraseIfStep(w, d, S)
             v == WithRest(a, c, i)
             p == Len(a) + 1
  <1>1. i + 1 \in 1 .. Len(c) /\ x \in Item
    OBVIOUS
  <1>2. x # NULL
    BY <1>1, NodesAssumption
  <1>3. r = [mem |-> IF x \in S THEN ErasedNode(s, d, x) ELSE s, curr |-> NextOf(s, x)]
    BY <1>2 DEF EraseIfStep, NextOf
  <1>4. NextOf(s, x) = At(c, (i + 1) + 1)
    <2>1. p \in 1 .. Len(v) /\ v[p] = x /\ At(v, p + 1) = At(c, (i + 1) + 1)
      BY WithRestAt
    <2>2. ListIs(s, d, v, {})
      BY GoodList
    <2> HIDE DEF v, p, x
    <2>3. NextOf(s, v[p]) = At(v, p + 1)
      BY <2>1, <2>2, EndsOfList
    <2> QED
      BY <2>1, <2>3
  <1> DEFINE a2 == IF x \in Item \ S THEN Append(a, x) ELSE a
  <1>5. ASSUME x \in S PROVE Good(r.mem, [C EXCEPT ![d] = WithRest(a2, c, i + 1)])
    <2>1. Good(ErasedNode(s, d, x), [C EXCEPT ![d] = WithRest(a, c, i + 1)])
      BY DropGood
    <2>2. a2 = a
      BY <1>5
    <2> HIDE DEF r, a2, x
    <2>3. r.mem = ErasedNode(s, d, x)
      BY <1>3, <1>5
    <2> QED
      BY <2>1, <2>2, <2>3
  <1>6. ASSUME x \notin S PROVE Good(r.mem, [C EXCEPT ![d] = WithRest(a2, c, i + 1)])
    <2>1. WithRest(Append(a, x), c, i + 1) = v
      BY KeepStays
    <2>2. [C EXCEPT ![d] = v] = C
      BY DEF Good, Holds
    <2>3. a2 = Append(a, x)
      BY <1>1, <1>6
    <2> HIDE DEF r, a2, x
    <2>4. r.mem = s
      BY <1>3, <1>6
    <2>5. WithRest(a2, c, i + 1) = v
      BY <2>1, <2>3
    <2> HIDE DEF v
    <2> QED
      BY <2>2, <2>4, <2>5
  <1>7. r.curr = At(c, (i + 1) + 1)
    <2> HIDE DEF r
    <2> QED
      BY <1>3, <1>4
  <1>8. Good(r.mem, [C EXCEPT ![d] = WithRest(a2, c, i + 1)])
    BY <1>5, <1>6
  <1> QED
    BY <1>7, <1>8

LEMMA WithRestEnds ==
  ASSUME NEW c \in Seq(Item), NEW a \in Seq(Item)
  PROVE  WithRest(<<>>, c, 0) = c /\ WithRest(a, c, Len(c)) = a
  <1> DEFINE e == <<>>
             w == WithRest(e, c, 0)
             v == WithRest(a, c, Len(c))
  <1>1. e \in Seq(Item) /\ Len(e) = 0 /\ Len(c) \in Nat /\ Len(a) \in Nat /\ 0 \in 0 .. Len(c) /\ Len(c) \in 0 .. Len(c)
    OBVIOUS
  <1> HIDE DEF e
  <1>2. /\ w \in Seq(Item) /\ Len(w) = 0 + (Len(c) - 0)
        /\ \A j \in 1 .. Len(c) - 0 : w[0 + j] = c[0 + j]
    <2>1. /\ w \in Seq(Item) /\ Len(w) = Len(e) + (Len(c) - 0)
          /\ \A j \in 1 .. Len(c) - 0 : w[Len(e) + j] = c[0 + j]
      BY <1>1, WithRestItems
    <2> HIDE DEF w
    <2> QED
      BY <1>1, <2>1
  <1>3. /\ v \in Seq(Item) /\ Len(v) = Len(a) + (Len(c) - Len(c))
        /\ \A j \in 1 .. Len(a) : v[j] = a[j]
    BY <1>1, WithRestItems
  <1> HIDE DEF w, v
  <1>4. w = c
    <2>1. Len(w) = Len(c) /\ \A j \in 1 .. Len(c) : j \in 1 .. Len(c) - 0 /\ 0 + j = j
      BY <1>1, <1>2
    <2>2. \A j \in 1 .. Len(c) : w[j] = c[j]
      BY <1>2, <2>1
    <2> QED
      BY <1>2, <2>1, <2>2, SeqEqual
  <1>5. v = a
    <2>1. Len(v) = Len(a)
      BY <1>1, <1>3
    <2> QED
      BY <1>3, <2>1, SeqEqual
  <1> QED
    BY <1>4, <1>5 DEF w, v, e

LEMMA EraseIfGood ==
  ASSUME NEW s, NEW C, Good(s, C), NEW d \in Handle, NEW S
  PROVE  Good(ErasedIf(s, d, S), [C EXCEPT ![d] = Promise!Keeping(C[d], Item \ S)])
  <1> DEFINE c == C[d]
             n == Len(c)
             N == Cardinality(Item)
             K == Item \ S
             G(x) == [C EXCEPT ![d] = x]
  <1>1. c \in Seq(Item) /\ n \in Nat /\ n <= N /\ N \in Nat /\ s.head[d] = At(c, 1) /\ C \in [Handle -> Seq(Item)]
    <2>1. ListIs(s, d, c, {}) /\ c \in Seq(Item) /\ n \in Nat /\ Distinct(c)
      BY GoodList
    <2>2. n <= N /\ N \in Nat
      BY <2>1, DistinctBound, CardinalityNat
    <2>3. HeadOf(s, d) = At(c, 1)
      BY <2>1, EndsOfList
    <2> QED
      BY <2>1, <2>2, <2>3 DEF HeadOf, Good, Holds
  <1>2. PICK H : Keeps(H, c, K) /\ Promise!Keeping(c, K) = H[n]
    BY <1>1, KeepingIs
  <1>3. PICK w : /\ w[0] = [mem |-> s, curr |-> s.head[d]]
                 /\ \A i \in 0 .. N - 1 : w[i + 1] = EraseIfStep(w[i], d, S)
                 /\ ErasedIf(s, d, S) = w[N].mem
    BY ErasedIfRuns
  <1>4. \A i \in 0 .. n : H[i] \in Seq(Item)
    BY <1>2 DEF Keeps
  <1>5. H[0] = <<>> /\ \A i \in 0 .. n - 1 : H[i + 1] = IF c[i + 1] \in K THEN Append(H[i], c[i + 1]) ELSE H[i]
    BY <1>2 DEF Keeps
  <1> DEFINE P(i) == w[i].curr = At(c, i + 1) /\ Good(w[i].mem, G(WithRest(H[i], c, i)))
             T == {i \in Nat : i <= n => P(i)}
  <1>6. 0 \in T
    <2>1. WithRest(H[0], c, 0) = c /\ G(c) = C
      BY <1>1, <1>5, WithRestEnds
    <2> HIDE DEF G
    <2> QED
      BY <1>1, <1>3, <2>1
  <1>7. \A i \in Nat : i \in T => i + 1 \in T
    <2> SUFFICES ASSUME NEW i \in Nat, i <= n => P(i), i + 1 <= n PROVE P(i + 1)
      <3> HIDE DEF P, n
      <3> QED
        OBVIOUS
    <2> DEFINE D == G(WithRest(H[i], c, i))
               u == w[i]
    <2>1. i \in 0 .. n - 1 /\ i \in 0 .. N - 1 /\ i \in 0 .. n /\ i <= n /\ i + 1 \in 1 .. n /\ i + 1 \in 0 .. n
      BY <1>1
    <2>2. u.curr = c[i + 1] /\ Good(u.mem, D) /\ H[i] \in Seq(Item)
      BY <1>4, <2>1 DEF At
    <2>3. D[d] = WithRest(H[i], c, i) /\ \A x : [D EXCEPT ![d] = x] = G(x)
      BY <1>1
    <2>4. w[i + 1] = EraseIfStep(u, d, S)
      BY <1>3, <2>1
    <2>5. H[i + 1] = IF c[i + 1] \in Item \ S THEN Append(H[i], c[i + 1]) ELSE H[i]
      BY <1>5, <2>1
    <2> HIDE DEF D, c, n, N, K, u
    <2>6. /\ w[i + 1].curr = At(c, (i + 1) + 1)
          /\ Good(w[i + 1].mem, [D EXCEPT ![d] = WithRest(H[i + 1], c, i + 1)])
      BY <1>1, <2>1, <2>2, <2>3, <2>4, <2>5, EraseIfRound DEF n
    <2> QED
      BY <2>3, <2>6
  <1> HIDE DEF T
  <1>8. \A i \in Nat : i \in T
    BY <1>6, <1>7, Induction
  <1>9. Good(w[n].mem, G(H[n])) /\ w[n].curr = NULL
    <2>1. WithRest(H[n], c, n) = H[n]
      BY <1>1, <1>4, WithRestEnds
    <2>2. At(c, n + 1) = NULL
      BY <1>1, AtTypes
    <2> HIDE DEF G, c, n
    <2>3. n <= n
      BY <1>1
    <2> QED
      BY <1>1, <1>8, <2>1, <2>2, <2>3 DEF T
  <1> HIDE DEF n, N
  <1> DEFINE Q(i) == w[n + i] = w[n]
             R == {i \in Nat : n + i <= N => Q(i)}
  <1>10. 0 \in R
    BY <1>1
  <1>11. \A i \in Nat : i \in R => i + 1 \in R
    <2> SUFFICES ASSUME NEW i \in Nat, n + i <= N => Q(i), n + (i + 1) <= N PROVE Q(i + 1)
      <3> HIDE DEF Q
      <3> QED
        OBVIOUS
    <2>1. n + i \in 0 .. N - 1 /\ (n + i) + 1 = n + (i + 1) /\ n + i <= N
      BY <1>1
    <2>2. w[(n + i) + 1] = EraseIfStep(w[n + i], d, S)
      BY <1>3, <2>1
    <2>3. w[n + i] = w[n]
      BY <2>1
    <2> HIDE DEF n, N
    <2> QED
      BY <1>9, <2>1, <2>2, <2>3 DEF EraseIfStep
  <1> HIDE DEF R
  <1>12. \A i \in Nat : i \in R
    BY <1>10, <1>11, Induction
  <1>13. w[N] = w[n]
    <2>1. N - n \in Nat /\ n + (N - n) = N /\ N <= N
      BY <1>1
    <2>2. Q(N - n)
      <3> HIDE DEF Q
      <3> QED
        BY <1>12, <2>1 DEF R
    <2> QED
      BY <2>1, <2>2
  <1> QED
    BY <1>2, <1>3, <1>9, <1>13

LEMMA UniquedRuns ==
  ASSUME NEW s, NEW d
  PROVE  \E w : /\ w[0] = [mem |-> s, curr |-> s.head[d]]
                /\ \A i \in 0 .. Cardinality(Item) - 1 : w[i + 1] = UniqueStep(w[i], d)
                /\ Uniqued(s, d) = w[Cardinality(Item)].mem
  <1> DEFINE N == Cardinality(Item)
             b == [mem |-> s, curr |-> s.head[d]]
             p == <<d>>
             w == CHOOSE f : f = [i \in 0 .. N |-> IF i = 0 THEN b ELSE UniqueStep(f[i - 1], d)]
             v == CHOOSE f : f = [i \in 0 .. N |-> IF i = 0 THEN b ELSE Round("unique", f[i - 1], p)]
  <1>1. \A x : Round("unique", x, p) = UniqueStep(x, d)
    BY DEF Round
  <1>2. w = v
    BY <1>1, Zenon
  <1>3. Runs(v, N, b, "unique", p)
    <2>1. \E f : Rounds(f, N, b, "unique", p)
      BY CardinalityNat, RoundsExist
    <2>2. Rounds(v, N, b, "unique", p)
      BY <2>1, Zenon DEF Rounds
    <2> HIDE DEF v, b, p
    <2> QED
      BY <2>2, CardinalityNat, RoundsRun
  <1>4. Uniqued(s, d) = w[N].mem
    BY DEF Uniqued
  <1> HIDE DEF w, v, p
  <1> QED
    BY <1>1, <1>2, <1>3, <1>4 DEF Runs

(* list_punique has seen the first i items of c and kept a of them.        *)
UniqueAt(w, C, d, c, a, i) ==
  /\ w = [mem |-> w.mem, curr |-> w.curr]
  /\ Good(w.mem, [C EXCEPT ![d] = WithRest(a, c, i)])
  /\ Len(a) >= 1 /\ w.curr = a[Len(a)] /\ Key[w.curr] = Key[c[i]]

(* A round that erases c[i + 1], which has the key of c[i], or moves on.   *)
LEMMA UniqueRound ==
  ASSUME NEW w, NEW C \in [Handle -> Seq(Item)], NEW d \in Handle, NEW c \in Seq(Item), NEW a \in Seq(Item),
         NEW i \in 1 .. Len(c) - 1, UniqueAt(w, C, d, c, a, i)
  PROVE  UniqueAt(UniqueStep(w, d), C, d, c, IF Key[c[i]] # Key[c[i + 1]] THEN Append(a, c[i + 1]) ELSE a, i + 1)
  <1> DEFINE y == c[i + 1]
             x == w.curr
             s == w.mem
             v == WithRest(a, c, i)
             D == [C EXCEPT ![d] = v]
             m == Len(a)
  <1>1. i + 1 \in 1 .. Len(c) /\ y \in Item /\ i \in 0 .. Len(c) - 1
    OBVIOUS
  <1>2. w = [mem |-> s, curr |-> x] /\ Good(s, D) /\ m >= 1 /\ x = a[m] /\ Key[x] = Key[c[i]]
    BY DEF UniqueAt
  <1>3. D[d] = v /\ \A z : [D EXCEPT ![d] = z] = [C EXCEPT ![d] = z]
    OBVIOUS
  <1>4. m \in Nat /\ m \in 1 .. m /\ x \in Item /\ x # NULL /\ y # NULL
    BY <1>1, <1>2, NodesAssumption
  <1>5. ListIs(s, d, v, {})
    <2> HIDE DEF v, s
    <2>1. Good(s, D) /\ D[d] = v
      BY <1>2, <1>3
    <2> HIDE DEF D
    <2> QED
      BY <2>1, GoodList
  <1>6. m \in 1 .. Len(v) /\ v[m] = x /\ At(v, m + 1) = y
    <2>1. /\ Len(v) = m + (Len(c) - i)
          /\ \A j \in 1 .. m : v[j] = a[j]
      BY WithRestItems
    <2>2. m + 1 \in 1 .. Len(v) /\ v[m + 1] = y
      BY <1>1, WithRestAt
    <2> HIDE DEF v, m, x, y
    <2>3. m \in 1 .. Len(v)
      <3>1. Len(c) \in Nat
        OBVIOUS
      <3> QED
        BY <1>4, <2>1, <3>1
    <2> QED
      BY <1>2, <1>4, <2>1, <2>2, <2>3 DEF At
  <1> HIDE DEF D
  <1>7. NextOf(s, x) = y
    <2> HIDE DEF v, x, y, m
    <2>1. NextOf(s, v[m]) = At(v, m + 1)
      BY <1>5, <1>6, EndsOfList
    <2> QED
      BY <1>6, <2>1
  <1>8. Follow(s.next, x) = y
    BY <1>4, <1>7 DEF Follow, NextOf
  <1> DEFINE r == UniqueStep(w, d)
  <1>9. r = IF Key[x] = Key[y] THEN [mem |-> ErasedNode(s, d, y), curr |-> x] ELSE [mem |-> s, curr |-> y]
    <2> HIDE DEF x, y, s
    <2>1. Follow(w.mem.next, w.curr) = y
      BY <1>8 DEF s, x
    <2>2. w.mem = s /\ w.curr = x
      BY DEF s, x
    <2>3. [w EXCEPT !.mem = ErasedNode(@, d, y)] = [mem |-> ErasedNode(s, d, y), curr |-> x]
      BY <1>2, <2>2
    <2>4. [w EXCEPT !.curr = y] = [mem |-> s, curr |-> y]
      BY <1>2, <2>2
    <2> QED
      BY <1>4, <2>1, <2>2, <2>3, <2>4 DEF UniqueStep
  <1>10. CASE Key[c[i]] = Key[y]
    <2>1. Good(ErasedNode(s, d, y), [D EXCEPT ![d] = WithRest(a, c, i + 1)])
      BY <1>1, <1>2, <1>3, DropGood
    <2>2. Good(ErasedNode(s, d, y), [C EXCEPT ![d] = WithRest(a, c, i + 1)])
      BY <1>3, <2>1
    <2> HIDE DEF r, x, y, s, m
    <2>3. r = [mem |-> ErasedNode(s, d, y), curr |-> x]
      BY <1>2, <1>9, <1>10
    <2>4. r.mem = ErasedNode(s, d, y) /\ r.curr = x
      BY <2>3
    <2>5. UniqueAt(r, C, d, c, a, i + 1)
      BY <1>2, <1>10, <2>2, <2>3, <2>4 DEF UniqueAt, y, m
    <2>6. a = IF Key[c[i]] # Key[y] THEN Append(a, y) ELSE a
      BY <1>10
    <2> QED
      BY <2>5, <2>6 DEF r, y
  <1>11. CASE Key[c[i]] # Key[y]
    <2> DEFINE a2 == Append(a, y)
    <2>1. WithRest(a2, c, i + 1) = v
      BY <1>1, KeepStays
    <2>2. Len(a2) >= 1 /\ a2[Len(a2)] = y
      BY <1>1
    <2> HIDE DEF r, x, y, s, m, v, a2
    <2>3. Good(s, [C EXCEPT ![d] = WithRest(a2, c, i + 1)])
      BY <1>2, <2>1 DEF D
    <2>4. r = [mem |-> s, curr |-> y]
      BY <1>2, <1>9, <1>11
    <2>5. r.mem = s /\ r.curr = y
      BY <2>4
    <2>6. UniqueAt(r, C, d, c, a2, i + 1)
      BY <2>2, <2>3, <2>4, <2>5 DEF UniqueAt, y
    <2>7. a2 = IF Key[c[i]] # Key[y] THEN Append(a, y) ELSE a
      BY <1>11 DEF a2
    <2> QED
      BY <2>6, <2>7 DEF r, y
  <1> QED
    BY <1>10, <1>11

LEMMA UniqueEnds ==
  ASSUME NEW w, NEW C, w = [mem |-> w.mem, curr |-> w.curr], Good(w.mem, C), NEW d \in Handle,
         w.curr = At(C[d], Len(C[d]))
  PROVE  UniqueStep(w, d) = w
  <1> DEFINE c == C[d]
             n == Len(c)
             s == w.mem
  <1>1. ListIs(s, d, c, {}) /\ c \in Seq(Item) /\ n \in Nat
    BY GoodList
  <1>2. Follow(s.next, At(c, n)) = NULL
    <2>1. CASE n = 0
      <3>1. At(c, n) = NULL
        BY <2>1 DEF At
      <3> HIDE DEF n, c
      <3> QED
        BY <3>1, NodesAssumption DEF Follow
    <2>2. CASE n # 0
      <3>1. n \in 1 .. n /\ ~ (n + 1 \in 1 .. n)
        BY <1>1, <2>2
      <3>2. At(c, n) = c[n] /\ c[n] \in Item /\ At(c, n + 1) = NULL
        BY <1>1, <3>1 DEF At
      <3> HIDE DEF c, s
      <3>3. NextOf(s, c[n]) = At(c, n + 1)
        BY <1>1, <3>1, EndsOfList
      <3> HIDE DEF n
      <3> QED
        BY <3>2, <3>3 DEF Follow, NextOf
    <2> QED
      BY <2>1, <2>2
  <1> HIDE DEF n, c
  <1> QED
    BY <1>2 DEF UniqueStep, c, n

LEMMA UniquedGood ==
  ASSUME NEW s, NEW C, Good(s, C), NEW d \in Handle
  PROVE  Good(Uniqued(s, d), [C EXCEPT ![d] = Promise!FirstOfGroups(C[d])])
  <1> DEFINE c == C[d]
             n == Len(c)
             N == Cardinality(Item)
             K == {c[i] : i \in {j \in DOMAIN c : j = 1 \/ Key[c[j - 1]] # Key[c[j]]}}
             G(x) == [C EXCEPT ![d] = x]
             f == Promise!FirstOfGroups(C[d])
  <1>1. /\ c \in Seq(Item) /\ n \in Nat /\ n <= N /\ N \in Nat /\ s.head[d] = At(c, 1)
        /\ C \in [Handle -> Seq(Item)] /\ Distinct(c) /\ G(c) = C
    <2>1. ListIs(s, d, c, {}) /\ c \in Seq(Item) /\ n \in Nat /\ Distinct(c)
      BY GoodList
    <2>2. n <= N /\ N \in Nat
      BY <2>1, DistinctBound, CardinalityNat
    <2>3. HeadOf(s, d) = At(c, 1)
      BY <2>1, EndsOfList
    <2> QED
      BY <2>1, <2>2, <2>3 DEF HeadOf, Good, Holds
  <1>2. PICK H : Keeps(H, c, K) /\ Promise!Keeping(c, K) = H[n]
    BY <1>1, KeepingIs
  <1>3. PICK w : /\ w[0] = [mem |-> s, curr |-> s.head[d]]
                 /\ \A i \in 0 .. N - 1 : w[i + 1] = UniqueStep(w[i], d)
                 /\ Uniqued(s, d) = w[N].mem
    BY UniquedRuns
  <1>4. \A i \in 0 .. n : H[i] \in Seq(Item)
    BY <1>2 DEF Keeps
  <1>5. H[0] = <<>> /\ \A i \in 0 .. n - 1 : H[i + 1] = IF c[i + 1] \in K THEN Append(H[i], c[i + 1]) ELSE H[i]
    BY <1>2 DEF Keeps
  <1>6. f = H[n]
    BY <1>2 DEF Promise!FirstOfGroups
  <1>7. ASSUME NEW i \in 1 .. n - 1 PROVE c[i + 1] \in K <=> Key[c[i]] # Key[c[i + 1]]
    <2>1. i + 1 \in DOMAIN c /\ (i + 1) - 1 = i /\ i + 1 # 1
      BY <1>1
    <2>2. ASSUME c[i + 1] \in K PROVE Key[c[i]] # Key[c[i + 1]]
      <3>1. PICK j \in DOMAIN c : (j = 1 \/ Key[c[j - 1]] # Key[c[j]]) /\ c[i + 1] = c[j]
        BY <2>2
      <3>2. j = i + 1
        BY <1>1, <2>1, <3>1 DEF Distinct
      <3> QED
        BY <2>1, <3>1, <3>2
    <2>3. ASSUME Key[c[i]] # Key[c[i + 1]] PROVE c[i + 1] \in K
      BY <2>1, <2>3
    <2> QED
      BY <2>2, <2>3
  <1>8. n # 0 => c[1] \in K
    <2>1. n # 0 => 1 \in DOMAIN c
      BY <1>1
    <2> QED
      BY <2>1
  <1> HIDE DEF K, f, N
  <1> DEFINE P(i) == UniqueAt(w[i], C, d, c, H[i + 1], i + 1)
             T == {i \in Nat : i + 1 <= n => P(i)}
  <1>9. 0 \in T
    <2> SUFFICES ASSUME 0 + 1 <= n PROVE P(0)
      <3> HIDE DEF P
      <3> QED
        OBVIOUS
    <2> DEFINE e == <<>>
    <2>1. 1 \in 1 .. n /\ 0 \in 0 .. n - 1 /\ n # 0 /\ c[1] \in Item /\ 0 + 1 = 1 /\ 0 \in 0 .. Len(c) - 1
      BY <1>1
    <2>2. H[1] = Append(e, c[1])
      BY <1>5, <1>8, <2>1
    <2>3. Len(H[1]) = 1 /\ H[1][1] = c[1]
      BY <2>1, <2>2
    <2>4. e \in Seq(Item) /\ WithRest(e, c, 0) = c
      BY <1>1, WithRestEnds
    <2> HIDE DEF e
    <2>5. WithRest(Append(e, c[0 + 1]), c, 0 + 1) = WithRest(e, c, 0)
      BY <1>1, <2>1, <2>4, KeepStays
    <2>6. WithRest(H[1], c, 1) = c
      BY <2>1, <2>2, <2>4, <2>5
    <2>7. w[0] = [mem |-> s, curr |-> c[1]]
      BY <1>1, <1>3, <2>1 DEF At
    <2>8. Good(s, G(WithRest(H[1], c, 1)))
      BY <1>1, <2>6
    <2> HIDE DEF c, n
    <2>9. w[0].mem = s /\ w[0].curr = c[1] /\ w[0] = [mem |-> w[0].mem, curr |-> w[0].curr]
      BY <2>7
    <2> QED
      BY <2>1, <2>3, <2>8, <2>9 DEF UniqueAt
  <1>10. \A i \in Nat : i \in T => i + 1 \in T
    <2> SUFFICES ASSUME NEW i \in Nat, i + 1 <= n => P(i), (i + 1) + 1 <= n PROVE P(i + 1)
      <3> HIDE DEF P, n
      <3> QED
        OBVIOUS
    <2> DEFINE j == i + 1
    <2>1. i \in 0 .. N - 1 /\ j \in 0 .. n - 1 /\ j \in 0 .. n /\ j \in 1 .. n - 1 /\ j <= n /\ j \in 1 .. Len(c) - 1
      BY <1>1
    <2>2. w[j] = UniqueStep(w[i], d)
      BY <1>3, <2>1
    <2>3. UniqueAt(w[i], C, d, c, H[j], j) /\ H[j] \in Seq(Item)
      BY <1>4, <2>1
    <2>4. H[j + 1] = IF c[j + 1] \in K THEN Append(H[j], c[j + 1]) ELSE H[j]
      BY <1>5, <2>1
    <2>5. c[j + 1] \in K <=> Key[c[j]] # Key[c[j + 1]]
      BY <1>7, <2>1
    <2> HIDE DEF j, c, n
    <2>6. UniqueAt(UniqueStep(w[i], d), C, d, c, IF Key[c[j]] # Key[c[j + 1]] THEN Append(H[j], c[j + 1]) ELSE H[j], j + 1)
      BY <1>1, <2>1, <2>3, UniqueRound
    <2>7. UniqueAt(w[j], C, d, c, H[j + 1], j + 1)
      BY <2>2, <2>4, <2>5, <2>6
    <2> QED
      BY <2>7 DEF j
  <1> HIDE DEF T
  <1>11. \A i \in Nat : i \in T
    BY <1>9, <1>10, Induction
  <1> DEFINE m == IF n = 0 THEN 0 ELSE n - 1
             q == w[m]
  <1>12. q = [mem |-> q.mem, curr |-> q.curr] /\ Good(q.mem, G(f)) /\ q.curr = At(f, Len(f)) /\ f \in Seq(Item)
    <2>1. CASE n = 0
      <3> DEFINE e == <<>>
      <3>1. f = e /\ c = e /\ e \in Seq(Item) /\ Len(e) = 0
        BY <1>1, <1>5, <1>6, <2>1
      <3> HIDE DEF e
      <3>2. At(e, Len(e)) = NULL /\ At(c, 1) = NULL
        BY <1>1, <2>1, <3>1 DEF At
      <3>3. q = [mem |-> s, curr |-> NULL]
        BY <1>1, <1>3, <2>1, <3>2
      <3>4. q.mem = s /\ q.curr = NULL
        BY <3>3
      <3>5. G(f) = C
        BY <1>1, <3>1
      <3> HIDE DEF q, G
      <3> QED
        BY <3>1, <3>2, <3>3, <3>4, <3>5
    <2>2. CASE n # 0
      <3>1. m \in Nat /\ m + 1 = n /\ n \in 0 .. n
        BY <1>1, <2>2
      <3>2. UniqueAt(w[m], C, d, c, H[n], n)
        <4> HIDE DEF m, n, c
        <4>1. m + 1 <= n
          BY <3>1
        <4> QED
          BY <1>11, <3>1, <4>1 DEF T
      <3>3. f \in Seq(Item)
        BY <1>4, <1>6, <3>1
      <3>4. WithRest(f, c, n) = f
        BY <1>1, <3>3, WithRestEnds
      <3> HIDE DEF q
      <3>5. UniqueAt(q, C, d, c, f, n)
        BY <1>6, <3>2 DEF q
      <3>6. Len(f) \in 1 .. Len(f)
        BY <3>3, <3>5 DEF UniqueAt
      <3>7. q.curr = At(f, Len(f))
        BY <3>5, <3>6 DEF UniqueAt, At
      <3>8. Good(q.mem, G(f)) /\ q = [mem |-> q.mem, curr |-> q.curr]
        BY <3>4, <3>5 DEF UniqueAt
      <3> QED
        BY <3>3, <3>7, <3>8
    <2> QED
      BY <2>1, <2>2
  <1>13. UniqueStep(q, d) = q
    <2> DEFINE D == G(f)
    <2>1. D[d] = f
      BY <1>1
    <2> HIDE DEF D
    <2>2. Good(q.mem, D)
      BY <1>12 DEF D
    <2> HIDE DEF q, G, c, n
    <2>3. q.curr = At(D[d], Len(D[d]))
      BY <1>12, <2>1
    <2> QED
      BY <1>12, <2>2, <2>3, UniqueEnds
  <1>14. m \in Nat /\ m <= N
    BY <1>1
  <1> HIDE DEF m, n
  <1> DEFINE Q(i) == w[m + i] = w[m]
             R == {i \in Nat : m + i <= N => Q(i)}
  <1>15. 0 \in R
    BY <1>14
  <1>16. \A i \in Nat : i \in R => i + 1 \in R
    <2> SUFFICES ASSUME NEW i \in Nat, m + i <= N => Q(i), m + (i + 1) <= N PROVE Q(i + 1)
      <3> HIDE DEF Q
      <3> QED
        OBVIOUS
    <2>1. m + i \in 0 .. N - 1 /\ (m + i) + 1 = m + (i + 1) /\ m + i <= N
      BY <1>1, <1>14
    <2>2. w[(m + i) + 1] = UniqueStep(w[m + i], d)
      BY <1>3, <2>1
    <2>3. w[m + i] = w[m]
      BY <2>1
    <2> QED
      BY <1>13, <2>1, <2>2, <2>3
  <1> HIDE DEF R
  <1>17. \A i \in Nat : i \in R
    BY <1>15, <1>16, Induction
  <1>18. w[N] = w[m]
    <2>1. N - m \in Nat /\ m + (N - m) = N /\ N <= N
      BY <1>1, <1>14
    <2>2. Q(N - m)
      <3> HIDE DEF Q
      <3> QED
        BY <1>17, <2>1 DEF R
    <2> QED
      BY <2>1, <2>2
  <1> QED
    BY <1>3, <1>12, <1>18 DEF f

-----------------------------------------------------------------------------
(* Merging.  Of the nodes of two chains X and Y of s, the first i and j    *)
(* have been taken; they are the chain P, with the ends h and t, in u.     *)
Taken(P, X, Y, i, j) ==
  /\ P \in Seq(Item) /\ Distinct(P) /\ Len(P) = i + j
  /\ Nodes(P) = Block(X, 0, i) \cup Block(Y, 0, j)
  /\ InOrder(P)
  /\ \A p \in 1 .. Len(P) : /\ i < Len(X) => Key[P[p]] <= Key[X[i + 1]]
                            /\ j < Len(Y) => Key[P[p]] <= Key[Y[j + 1]]

PartChain(s, u, P, h, t) ==
  /\ u \in Mem /\ SameEnds(s, u)
  /\ h = At(P, 1) /\ t = At(P, Len(P))
  /\ Inner(u, P) /\ (Len(P) > 0 => PrevOf(u, h) = NULL)
  /\ \A n \in Item \ Nodes(P) : NextOf(u, n) = NextOf(s, n) /\ PrevOf(u, n) = PrevOf(s, n)

Chains(s, X, Y) ==
  /\ s \in Mem
  /\ X \in Seq(Item) /\ Distinct(X) /\ InOrder(X) /\ Chained(s, X, At(X, 1), At(X, Len(X)))
  /\ Y \in Seq(Item) /\ Distinct(Y) /\ InOrder(Y) /\ Chained(s, Y, At(Y, 1), At(Y, Len(Y)))
  /\ Nodes(X) \cap Nodes(Y) = {}

LEMMA ChainsSwap ==
  ASSUME NEW s, NEW X, NEW Y, Chains(s, X, Y)
  PROVE  Chains(s, Y, X)
  BY DEF Chains

LEMMA TakenSwap ==
  ASSUME NEW P, NEW X, NEW Y, NEW i \in Nat, NEW j \in Nat, Taken(P, X, Y, i, j)
  PROVE  Taken(P, Y, X, j, i)
  BY DEF Taken

LEMMA KeyNat == \A v \in Item : Key[v] \in Nat
  BY KeyAssumption

(* The node X[i + 1] is taken. *)
LEMMA TakeNode ==
  ASSUME NEW s, NEW X, NEW Y, Chains(s, X, Y), NEW i \in 0 .. Len(X) - 1, NEW j \in 0 .. Len(Y),
         NEW P, Taken(P, X, Y, i, j), j < Len(Y) => Key[X[i + 1]] <= Key[Y[j + 1]]
  PROVE  Taken(Append(P, X[i + 1]), X, Y, i + 1, j) /\ X[i + 1] \notin Nodes(P) /\ X[i + 1] \in Item
  <1> DEFINE x == X[i + 1]
             Q == Append(P, x)
             k == Len(P)
  <1>1. /\ X \in Seq(Item) /\ Y \in Seq(Item) /\ Len(X) \in Nat /\ Len(Y) \in Nat /\ i \in Nat /\ j \in Nat
        /\ i + 1 \in 1 .. Len(X) /\ x \in Item
    BY DEF Chains
  <1>2. P \in Seq(Item) /\ k = i + j /\ k \in Nat
    BY <1>1 DEF Taken
  <1>3. Q \in Seq(Item) /\ Len(Q) = k + 1 /\ Q[k + 1] = x /\ \A p \in 1 .. k : Q[p] = P[p] /\ P[p] \in Item
    BY <1>1, <1>2
  <1>4. x \notin Nodes(P)
    <2>1. x \notin Block(X, 0, i)
      <3> SUFFICES ASSUME NEW p \in 0 + 1 .. i, X[p] = x PROVE FALSE
        BY DEF Block
      <3>1. p \in 1 .. Len(X) /\ p # i + 1
        BY <1>1
      <3> QED
        BY <1>1, <3>1 DEF Chains, Distinct
    <2>2. x \notin Block(Y, 0, j)
      <3> SUFFICES ASSUME NEW p \in 0 + 1 .. j, Y[p] = x PROVE FALSE
        BY DEF Block
      <3>1. p \in 1 .. Len(Y)
        BY <1>1
      <3>2. x \in Nodes(X) /\ x \in Nodes(Y)
        BY <1>1, <3>1 DEF Nodes
      <3> QED
        BY <3>2 DEF Chains
    <2> QED
      BY <2>1, <2>2 DEF Taken
  <1>5. \A p \in 1 .. k : P[p] \in Nodes(P)
    BY DEF Nodes
  <1> HIDE DEF Q, k, x
  <1>6. Distinct(Q)
    <2> SUFFICES ASSUME NEW p \in 1 .. k + 1, NEW q \in 1 .. k + 1, Q[p] = Q[q] PROVE p = q
      BY <1>3 DEF Distinct
    <2>1. \A a \in 1 .. k + 1 : a \in 1 .. k \/ a = k + 1
      BY <1>2
    <2>2. \A a, b \in 1 .. k : P[a] = P[b] => a = b
      BY DEF Taken, Distinct, k
    <2> QED
      BY <1>3, <1>4, <1>5, <2>1, <2>2
  <1>7. Nodes(Q) = Block(X, 0, i + 1) \cup Block(Y, 0, j)
    <2>1. Nodes(Q) = Nodes(P) \cup {x}
      <3>1. \A a \in 1 .. k + 1 : a \in 1 .. k \/ a = k + 1
        BY <1>2
      <3>2. k + 1 \in 1 .. k + 1 /\ \A a \in 1 .. k : a \in 1 .. k + 1
        BY <1>2
      <3> QED
        BY <1>3, <3>1, <3>2 DEF Nodes, k
    <2>2. Block(X, 0, i + 1) = Block(X, 0, i) \cup {x}
      <3>1. \A a \in 0 + 1 .. i + 1 : a \in 0 + 1 .. i \/ a = i + 1
        BY <1>1
      <3>2. i + 1 \in 0 + 1 .. i + 1 /\ \A a \in 0 + 1 .. i : a \in 0 + 1 .. i + 1
        BY <1>1
      <3> QED
        BY <3>1, <3>2 DEF Block, x
    <2> QED
      BY <2>1, <2>2 DEF Taken
  <1>8. \A p \in 1 .. k : Key[P[p]] <= Key[x]
    BY <1>1 DEF Taken, k, x
  <1>9. InOrder(Q)
    <2> SUFFICES ASSUME NEW p \in 1 .. k + 1, NEW q \in 1 .. k + 1, p < q PROVE Key[Q[p]] <= Key[Q[q]]
      BY <1>3 DEF InOrder
    <2>1. p \in 1 .. k /\ (q \in 1 .. k \/ q = k + 1)
      BY <1>2
    <2>2. q \in 1 .. k => Key[P[p]] <= Key[P[q]]
      BY <1>2, <2>1 DEF Taken, InOrder, k
    <2> QED
      BY <1>3, <1>8, <2>1, <2>2
  <1>10. ASSUME NEW p \in 1 .. k + 1
         PROVE  /\ i + 1 < Len(X) => Key[Q[p]] <= Key[X[(i + 1) + 1]]
                /\ j < Len(Y) => Key[Q[p]] <= Key[Y[j + 1]]
    <2>1. Key[Q[p]] <= Key[x] /\ Q[p] \in Item
      <3>1. p \in 1 .. k \/ p = k + 1
        BY <1>2
      <3>2. Key[x] <= Key[x]
        BY <1>1, KeyNat
      <3> QED
        BY <1>1, <1>3, <1>8, <3>1, <3>2
    <2>2. i + 1 < Len(X) => (i + 1) + 1 \in 1 .. Len(X) /\ i + 1 < (i + 1) + 1
      BY <1>1
    <2>3. i + 1 < Len(X) => Key[x] <= Key[X[(i + 1) + 1]] /\ X[(i + 1) + 1] \in Item
      BY <1>1, <2>2 DEF Chains, InOrder, x
    <2>4. j < Len(Y) => j + 1 \in 1 .. Len(Y) /\ Y[j + 1] \in Item
      BY <1>1
    <2>5. \A a, b, c \in Item : Key[a] <= Key[b] /\ Key[b] <= Key[c] => Key[a] <= Key[c]
      BY KeyNat
    <2>6. j < Len(Y) => Key[x] <= Key[Y[j + 1]]
      BY DEF x
    <2> QED
      BY <1>1, <2>1, <2>3, <2>4, <2>5, <2>6
  <1>11. Len(Q) = (i + 1) + j
    BY <1>1, <1>2, <1>3
  <1>12. Taken(Q, X, Y, i + 1, j)
    BY <1>3, <1>6, <1>7, <1>9, <1>10, <1>11 DEF Taken
  <1> QED
    BY <1>1, <1>4, <1>12 DEF Q, x

(* The chain P of u gets the node x at its end.                            *)
LEMMA LinkNode ==
  ASSUME NEW s, NEW u, NEW P \in Seq(Item), Distinct(P), NEW h, NEW t, PartChain(s, u, P, h, t), s \in Mem,
         NEW x \in Item, x \notin Nodes(P), Len(P) = 0 => PrevOf(s, x) = NULL
  PROVE  PartChain(s, IF h = NULL THEN u ELSE Linked(u, t, x), Append(P, x), IF h = NULL THEN x ELSE h, x)
  <1> DEFINE Q == Append(P, x)
             k == Len(P)
             v == IF h = NULL THEN u ELSE Linked(u, t, x)
             g == IF h = NULL THEN x ELSE h
  <1>1. k \in Nat /\ Q \in Seq(Item) /\ Len(Q) = k + 1 /\ Q[k + 1] = x /\ \A p \in 1 .. k : Q[p] = P[p] /\ P[p] \in Item
    OBVIOUS
  <1>2. /\ u \in Mem /\ SameEnds(s, u) /\ h = At(P, 1) /\ t = At(P, k) /\ Inner(u, P) /\ (k > 0 => PrevOf(u, h) = NULL)
        /\ \A n \in Item \ Nodes(P) : NextOf(u, n) = NextOf(s, n) /\ PrevOf(u, n) = PrevOf(s, n)
    BY DEF PartChain
  <1>3. h \in Place /\ t \in Place /\ (h = NULL <=> k = 0) /\ x \in Place /\ x # NULL
    BY <1>1, <1>2, AtTypes, NodesAssumption DEF Place
  <1>4. \A p \in 1 .. k : P[p] \in Nodes(P) /\ P[p] # x
    BY DEF Nodes
  <1>5. Nodes(Q) = Nodes(P) \cup {x}
    <2> HIDE DEF Q
    <2>1. \A a \in 1 .. k + 1 : a \in 1 .. k \/ a = k + 1
      BY <1>1
    <2>2. k + 1 \in 1 .. k + 1 /\ \A a \in 1 .. k : a \in 1 .. k + 1
      BY <1>1
    <2> QED
      BY <1>1, <2>1, <2>2 DEF Nodes
  <1> HIDE DEF Q, k
  <1>6. x = At(Q, k + 1)
    <2>1. k + 1 \in 1 .. k + 1
      BY <1>1
    <2> QED
      BY <1>1, <2>1 DEF At
  <1>7. CASE k = 0
    <2>1. v = u /\ g = x
      BY <1>3, <1>7
    <2>2. Inner(u, Q)
      <3>1. ~ \E p \in Int : p \in 1 .. Len(Q) - 1
        BY <1>1, <1>7
      <3> QED
        BY <3>1 DEF Inner
    <2>3. PrevOf(u, x) = NULL
      BY <1>2, <1>7 DEF k
    <2>4. x = At(Q, 1) /\ x = At(Q, Len(Q))
      BY <1>1, <1>6, <1>7
    <2> HIDE DEF v, g
    <2> QED
      BY <1>2, <1>5, <2>1, <2>2, <2>3, <2>4 DEF PartChain, v, g, Q
  <1>8. CASE k # 0
    <2>1. v = Linked(u, t, x) /\ g = h
      BY <1>3, <1>8
    <2>2. /\ v \in Mem /\ SameEnds(u, v)
          /\ \A n \in Item : NextOf(v, n) = IF n = t THEN x ELSE NextOf(u, n)
          /\ \A n \in Item : PrevOf(v, n) = IF n = x THEN t ELSE PrevOf(u, n)
      BY <1>2, <1>3, <2>1, LinkedFields
    <2>3. 1 \in 1 .. k /\ k \in 1 .. k /\ k > 0 /\ 1 \in 1 .. k + 1
      BY <1>1, <1>8
    <2>4. h = P[1] /\ t = P[k] /\ Q[1] = P[1]
      BY <1>1, <1>2, <2>3 DEF At, k
    <2> HIDE DEF v, g
    <2>5. ASSUME NEW p \in 1 .. (k + 1) - 1 PROVE NextOf(v, Q[p]) = Q[p + 1] /\ PrevOf(v, Q[p + 1]) = Q[p]
      <3>1. p \in 1 .. k /\ p \in Nat
        BY <1>1
      <3>2. CASE p = k
        BY <1>1, <2>2, <2>4, <3>1, <3>2
      <3>3. CASE p # k
        <4>1. p + 1 \in 1 .. k /\ p \in 1 .. k - 1
          BY <1>1, <3>1, <3>3
        <4>2. NextOf(u, P[p]) = P[p + 1] /\ PrevOf(u, P[p + 1]) = P[p]
          BY <1>2, <4>1 DEF Inner, k
        <4>3. P[p] # t /\ P[p + 1] # x
          BY <1>4, <2>3, <2>4, <3>1, <3>3, <4>1 DEF Distinct, k
        <4> QED
          BY <1>1, <2>2, <3>1, <4>1, <4>2, <4>3
      <3> QED
        BY <3>2, <3>3
    <2>6. Inner(v, Q)
      BY <1>1, <2>5 DEF Inner
    <2>7. PrevOf(v, h) = NULL
      BY <1>1, <1>2, <1>4, <2>2, <2>3, <2>4
    <2>8. h = At(Q, 1) /\ x = At(Q, Len(Q))
      BY <1>1, <1>6, <2>3, <2>4 DEF At
    <2>9. ASSUME NEW n \in Item, n \notin Nodes(Q) PROVE NextOf(v, n) = NextOf(s, n) /\ PrevOf(v, n) = PrevOf(s, n)
      BY <1>2, <1>4, <1>5, <2>2, <2>3, <2>4, <2>9
    <2>10. SameEnds(s, v)
      BY <1>2, <2>2 DEF SameEnds
    <2> QED
      BY <2>1, <2>2, <2>6, <2>7, <2>8, <2>9, <2>10 DEF PartChain, v, g, Q
  <1> QED
    BY <1>7, <1>8

(* After k rounds: i nodes are taken from X, j from Y.                     *)
Merging(m, s, X, Y, i, j, P) ==
  /\ m = [mem |-> m.mem, a |-> m.a, b |-> m.b, head |-> m.head, tail |-> m.tail]
  /\ i \in 0 .. Len(X) /\ j \in 0 .. Len(Y) /\ (i < Len(X) \/ j < Len(Y))
  /\ m.a = At(X, i + 1) /\ m.b = At(Y, j + 1)
  /\ Taken(P, X, Y, i, j)
  /\ PartChain(s, m.mem, P, m.head, m.tail)

(* What is linked to a chain that has taken i nodes of X keeps its place.  *)
StaysLinked(u, X, P, k) ==
  /\ X[k] \in Item \ Nodes(P) /\ k \in 1 .. Len(X)
  /\ NextOf(u, X[k]) = At(X, k + 1) /\ PrevOf(u, X[k]) = At(X, k - 1)

LEMMA Untaken ==
  ASSUME NEW s, NEW u, NEW X, NEW Y, Chains(s, X, Y), NEW i \in 0 .. Len(X), NEW j \in 0 .. Len(Y),
         NEW P, Taken(P, X, Y, i, j), NEW h, NEW t, PartChain(s, u, P, h, t), NEW k \in i + 1 .. Len(X)
  PROVE  StaysLinked(u, X, P, k)
  <1>1. X \in Seq(Item) /\ Y \in Seq(Item) /\ k \in 1 .. Len(X) /\ X[k] \in Item
    BY DEF Chains
  <1>2. X[k] \notin Block(X, 0, i)
    <2> SUFFICES ASSUME NEW p \in 0 + 1 .. i, X[p] = X[k] PROVE FALSE
      BY DEF Block
    <2>1. p \in 1 .. Len(X) /\ p # k
      BY <1>1
    <2> QED
      BY <1>1, <2>1 DEF Chains, Distinct
  <1>3. X[k] \notin Block(Y, 0, j)
    <2> SUFFICES ASSUME NEW p \in 0 + 1 .. j, Y[p] = X[k] PROVE FALSE
      BY DEF Block
    <2>1. p \in 1 .. Len(Y)
      BY <1>1
    <2>2. X[k] \in Nodes(X) /\ Y[p] \in Nodes(Y)
      BY <1>1, <2>1 DEF Nodes
    <2> QED
      BY <2>2 DEF Chains
  <1>4. X[k] \notin Nodes(P)
    BY <1>2, <1>3 DEF Taken
  <1>5. NextOf(s, X[k]) = At(X, k + 1) /\ PrevOf(s, X[k]) = At(X, k - 1)
    BY <1>1 DEF Chains, Chained
  <1> QED
    BY <1>1, <1>4, <1>5 DEF PartChain, StaysLinked

LEMMA TakeLinks ==
  ASSUME NEW s, NEW u, NEW X, NEW Y, Chains(s, X, Y), NEW i \in 0 .. Len(X) - 1, NEW j \in 0 .. Len(Y),
         NEW P, Taken(P, X, Y, i, j), NEW h, NEW t, PartChain(s, u, P, h, t),
         j < Len(Y) => Key[X[i + 1]] <= Key[Y[j + 1]]
  PROVE  LET x == X[i + 1]
             v == IF h = NULL THEN u ELSE Linked(u, t, x)
         IN /\ Taken(Append(P, x), X, Y, i + 1, j)
            /\ PartChain(s, v, Append(P, x), IF h = NULL THEN x ELSE h, x)
            /\ NextOf(v, x) = At(X, (i + 1) + 1)
  <1> DEFINE x == X[i + 1]
             v == IF h = NULL THEN u ELSE Linked(u, t, x)
  <1>1. Taken(Append(P, x), X, Y, i + 1, j) /\ x \notin Nodes(P) /\ x \in Item
    BY TakeNode
  <1>2. i + 1 \in i + 1 .. Len(X) /\ i \in 0 .. Len(X) /\ Len(X) \in Nat
    BY DEF Chains
  <1>3. NextOf(u, x) = At(X, (i + 1) + 1)
    <2> DEFINE k == i + 1
    <2>1. k \in i + 1 .. Len(X)
      BY <1>2
    <2> HIDE DEF k
    <2>2. StaysLinked(u, X, P, k)
      BY <1>2, <2>1, Untaken
    <2> QED
      BY <2>2 DEF k, StaysLinked
  <1>4. Len(P) = 0 => PrevOf(s, x) = NULL
    <2> SUFFICES ASSUME Len(P) = 0 PROVE PrevOf(s, x) = NULL
      OBVIOUS
    <2>1. i = 0 /\ 1 \in 1 .. Len(X)
      BY <1>2 DEF Taken
    <2>2. PrevOf(s, X[1]) = At(X, 1 - 1)
      BY <2>1 DEF Chains, Chained
    <2>3. At(X, 1 - 1) = NULL
      BY DEF At
    <2> QED
      BY <2>1, <2>2, <2>3
  <1>5. P \in Seq(Item) /\ Distinct(P) /\ s \in Mem
    BY DEF Taken, Chains
  <1> HIDE DEF x
  <1>6. PartChain(s, v, Append(P, x), IF h = NULL THEN x ELSE h, x)
    BY <1>1, <1>4, <1>5, LinkNode
  <1>7. NextOf(v, x) = NextOf(u, x)
    <2>1. CASE h = NULL
      BY <2>1
    <2>2. CASE h # NULL
      <3>1. u \in Mem /\ t = At(P, Len(P)) /\ Len(P) \in Nat
        BY <1>5 DEF PartChain
      <3>2. t \in Place /\ (t \in Nodes(P) \/ t = NULL)
        BY <1>5, <3>1, AtTypes
      <3>3. x # t /\ x \in Place
        BY <1>1, <3>2, NodesAssumption DEF Place
      <3>4. NextOf(Linked(u, t, x), x) = NextOf(u, x)
        BY <1>1, <3>1, <3>2, <3>3, LinkedFields
      <3> QED
        BY <2>2, <3>4
    <2> QED
      BY <2>1, <2>2
  <1> HIDE DEF v
  <1>8. NextOf(v, x) = At(X, (i + 1) + 1)
    BY <1>3, <1>7
  <1> QED
    BY <1>1, <1>6, <1>8 DEF x, v

LEMMA MergeRound ==
  ASSUME NEW s, NEW X, NEW Y, Chains(s, X, Y), NEW m, NEW i, NEW j, NEW P, Merging(m, s, X, Y, i, j, P),
         m.a # NULL, m.b # NULL
  PROVE  \/ Merging(MergeStep(m), s, X, Y, i + 1, j, Append(P, X[i + 1]))
         \/ Merging(MergeStep(m), s, X, Y, i, j + 1, Append(P, Y[j + 1]))
  <1>1. /\ X \in Seq(Item) /\ Y \in Seq(Item) /\ Len(X) \in Nat /\ Len(Y) \in Nat
        /\ i \in 0 .. Len(X) /\ j \in 0 .. Len(Y)
    BY DEF Merging, Chains
  <1>2. m.a = At(X, i + 1) /\ m.b = At(Y, j + 1) /\ Taken(P, X, Y, i, j) /\ PartChain(s, m.mem, P, m.head, m.tail)
    BY DEF Merging
  <1>3. i + 1 \in 1 .. Len(X) /\ j + 1 \in 1 .. Len(Y) /\ m.a = X[i + 1] /\ m.b = Y[j + 1]
    BY <1>2 DEF At
  <1>4. i \in 0 .. Len(X) - 1 /\ j \in 0 .. Len(Y) - 1 /\ i < Len(X) /\ j < Len(Y)
    BY <1>1, <1>3
  <1>5. m.a \in Item /\ m.b \in Item /\ m.a # m.b
    <2>1. m.a \in Nodes(X) /\ m.b \in Nodes(Y)
      BY <1>3 DEF Nodes
    <2> QED
      BY <1>1, <1>3, <2>1 DEF Chains
  <1> DEFINE r == MergeStep(m)
             rec(u, a, b, h, t) == [mem |-> u, a |-> a, b |-> b, head |-> h, tail |-> t]
             M(x) == IF m.head = NULL THEN m.mem ELSE Linked(m.mem, m.tail, x)
             g(x) == IF m.head = NULL THEN x ELSE m.head
  <1>6. CASE Key[m.a] < Key[m.b]
    <2> DEFINE x == m.a
               v == M(x)
    <2>1. r = rec(v, NextOf(v, x), m.b, g(x), x)
      BY <1>5, <1>6 DEF MergeStep, NextOf
    <2>2. j < Len(Y) => Key[X[i + 1]] <= Key[Y[j + 1]]
      BY <1>3, <1>5, <1>6, KeyNat
    <2>3. /\ Taken(Append(P, x), X, Y, i + 1, j)
          /\ PartChain(s, v, Append(P, x), g(x), x)
          /\ NextOf(v, x) = At(X, (i + 1) + 1)
      BY <1>1, <1>2, <1>3, <1>4, <2>2, TakeLinks
    <2>4. i + 1 \in 0 .. Len(X) /\ j < Len(Y)
      BY <1>1, <1>4
    <2> HIDE DEF r, v, x
    <2>5. r.mem = v /\ r.a = At(X, (i + 1) + 1) /\ r.b = At(Y, j + 1) /\ r.head = g(x) /\ r.tail = x
      BY <1>2, <2>1, <2>3
    <2>6. r = [mem |-> r.mem, a |-> r.a, b |-> r.b, head |-> r.head, tail |-> r.tail]
      BY <2>1
    <2> HIDE DEF g
    <2>7. Merging(r, s, X, Y, i + 1, j, Append(P, x))
      BY <1>1, <2>3, <2>4, <2>5, <2>6 DEF Merging
    <2> QED
      BY <1>3, <2>7 DEF r, x
  <1>7. CASE ~ (Key[m.a] < Key[m.b])
    <2> DEFINE x == m.b
               v == M(x)
    <2>1. r = rec(v, m.a, NextOf(v, x), g(x), x)
      BY <1>5, <1>7 DEF MergeStep, NextOf
    <2>2. i < Len(X) => Key[Y[j + 1]] <= Key[X[i + 1]]
      BY <1>3, <1>5, <1>7, KeyNat
    <2>3. Chains(s, Y, X) /\ Taken(P, Y, X, j, i)
      BY <1>1, <1>2, ChainsSwap, TakenSwap
    <2>4. /\ Taken(Append(P, x), Y, X, j + 1, i)
          /\ PartChain(s, v, Append(P, x), g(x), x)
          /\ NextOf(v, x) = At(Y, (j + 1) + 1)
      BY <1>1, <1>2, <1>3, <1>4, <2>2, <2>3, TakeLinks
    <2>5. Taken(Append(P, x), X, Y, i, j + 1)
      BY <1>1, <2>4, TakenSwap
    <2>6. j + 1 \in 0 .. Len(Y) /\ i < Len(X)
      BY <1>1, <1>4
    <2> HIDE DEF r, v, x
    <2>7. r.mem = v /\ r.a = At(X, i + 1) /\ r.b = At(Y, (j + 1) + 1) /\ r.head = g(x) /\ r.tail = x
      BY <1>2, <2>1, <2>4
    <2>8. r = [mem |-> r.mem, a |-> r.a, b |-> r.b, head |-> r.head, tail |-> r.tail]
      BY <2>1
    <2> HIDE DEF g
    <2>9. Merging(r, s, X, Y, i, j + 1, Append(P, x))
      BY <1>1, <2>4, <2>5, <2>6, <2>7, <2>8 DEF Merging
    <2> QED
      BY <1>3, <2>9 DEF r, x
  <1> QED
    BY <1>6, <1>7

(* All of Y is taken; what is left of X comes after it.                    *)
MergedItems(c, X, Y) ==
  /\ c \in Seq(Item) /\ Distinct(c) /\ Len(c) = Len(X) + Len(Y) /\ InOrder(c)
  /\ Nodes(c) = Nodes(X) \cup Nodes(Y)

LEMMA FinishItems ==
  ASSUME NEW s, NEW u, NEW X, NEW Y, Chains(s, X, Y), NEW i \in 0 .. Len(X) - 1,
         NEW P, Taken(P, X, Y, i, Len(Y)), NEW h, NEW t, PartChain(s, u, P, h, t)
  PROVE  MergedItems(WithRest(P, X, i), X, Y)
  <1> DEFINE c == WithRest(P, X, i)
             n == Len(X)
             l == Len(Y)
             m == Len(P)
  <1>1. X \in Seq(Item) /\ Y \in Seq(Item) /\ n \in Nat /\ l \in Nat /\ i \in Nat /\ i < n /\ i \in 0 .. n /\ l \in 0 .. l
    BY DEF Chains
  <1>2. P \in Seq(Item) /\ Distinct(P) /\ m = i + l /\ m \in Nat
    BY <1>1 DEF Taken
  <1>3. /\ c \in Seq(Item) /\ Len(c) = m + (n - i)
        /\ \A q \in 1 .. m : c[q] = P[q]
        /\ \A q \in 1 .. n - i : c[m + q] = X[i + q]
    BY <1>1, <1>2, WithRestItems
  <1> HIDE DEF c, m, n, l
  <1>4. \A k \in i + 1 .. n : X[k] \in Item \ Nodes(P) /\ k \in 1 .. n
    <2> SUFFICES ASSUME NEW k \in i + 1 .. n PROVE X[k] \in Item \ Nodes(P) /\ k \in 1 .. n
      OBVIOUS
    <2>1. StaysLinked(u, X, P, k)
      BY <1>1, Untaken DEF n, l
    <2> QED
      BY <2>1 DEF StaysLinked, n
  <1>5. \A q \in 1 .. Len(c) :
          \/ q \in 1 .. m /\ c[q] = P[q] /\ c[q] \in Nodes(P)
          \/ q - m + i \in i + 1 .. n /\ c[q] = X[q - m + i] /\ q > m
    <2>1. ASSUME NEW q \in 1 .. Len(c), q \in 1 .. m PROVE c[q] = P[q] /\ c[q] \in Nodes(P)
      BY <1>3, <2>1 DEF Nodes, m
    <2>2. ASSUME NEW q \in 1 .. Len(c), ~ (q \in 1 .. m)
          PROVE  q - m + i \in i + 1 .. n /\ c[q] = X[q - m + i] /\ q > m
      <3> DEFINE k == q - m
      <3>1. k \in 1 .. n - i /\ m + k = q /\ q - m + i = i + k /\ i + k \in i + 1 .. n /\ q > m
        BY <1>1, <1>2, <1>3, <2>2
      <3> HIDE DEF k
      <3>2. c[m + k] = X[i + k]
        BY <1>3, <3>1
      <3> QED
        BY <3>1, <3>2
    <2> QED
      BY <2>1, <2>2
  <1>6. Distinct(c)
    <2> SUFFICES ASSUME NEW p \in 1 .. Len(c), NEW q \in 1 .. Len(c), c[p] = c[q] PROVE p = q
      BY DEF Distinct
    <2>1. \A a, b \in 1 .. m : P[a] = P[b] => a = b
      BY <1>2 DEF Distinct, m
    <2>2. \A a, b \in i + 1 .. n : X[a] = X[b] => a = b
      BY <1>4 DEF Chains, Distinct, n
    <2>3. p - m + i = q - m + i => p = q
      <3>1. p \in Int /\ q \in Int
        OBVIOUS
      <3> QED
        BY <1>1, <1>2, <3>1
    <2> QED
      BY <1>4, <1>5, <2>1, <2>2, <2>3
  <1>7. Nodes(c) = Nodes(X) \cup Nodes(Y)
    <2>1. Nodes(P) = Block(X, 0, i) \cup Block(Y, 0, l)
      BY DEF Taken, l
    <2>2. Nodes(Y) = Block(Y, 0, l)
      <3>1. 0 + 1 .. l = 1 .. l
        OBVIOUS
      <3> QED
        BY <3>1 DEF Nodes, Block, l
    <2>3. ASSUME NEW x \in Nodes(X) PROVE x \in Nodes(c)
      <3>1. PICK k \in 1 .. n : x = X[k]
        BY DEF Nodes, n
      <3>2. CASE k <= i
        <4>1. k \in 0 + 1 .. i
          BY <1>1, <3>2
        <4>2. x \in Nodes(P)
          BY <2>1, <3>1, <4>1 DEF Block
        <4>3. PICK q \in 1 .. m : x = P[q]
          BY <4>2 DEF Nodes, m
        <4>4. q \in 1 .. Len(c) /\ c[q] = x
          BY <1>1, <1>2, <1>3, <4>3
        <4> QED
          BY <4>4 DEF Nodes
      <3>3. CASE ~ (k <= i)
        <4> DEFINE q == k - i
        <4>1. q \in 1 .. n - i /\ i + q = k /\ m + q \in 1 .. Len(c)
          BY <1>1, <1>2, <1>3, <3>3
        <4> HIDE DEF q
        <4>2. c[m + q] = x
          BY <1>3, <3>1, <4>1
        <4> QED
          BY <4>1, <4>2 DEF Nodes
      <3> QED
        BY <3>2, <3>3
    <2>4. ASSUME NEW x \in Nodes(Y) PROVE x \in Nodes(c)
      <3>1. x \in Nodes(P)
        BY <2>1, <2>2
      <3>2. PICK q \in 1 .. m : x = P[q]
        BY <3>1 DEF Nodes, m
      <3>3. q \in 1 .. Len(c) /\ c[q] = x
        BY <1>1, <1>2, <1>3, <3>2
      <3> QED
        BY <3>3 DEF Nodes
    <2>5. ASSUME NEW x \in Nodes(c) PROVE x \in Nodes(X) \cup Nodes(Y)
      <3>1. PICK q \in 1 .. Len(c) : x = c[q]
        BY DEF Nodes
      <3>2. x \in Nodes(P) \/ \E k \in i + 1 .. n : x = X[k]
        BY <1>5, <3>1
      <3>3. ASSUME NEW k \in i + 1 .. n, x = X[k] PROVE x \in Nodes(X)
        <4>1. k \in 1 .. n
          BY <1>4
        <4> QED
          BY <3>3, <4>1 DEF Nodes, n
      <3>4. Block(X, 0, i) \subseteq Nodes(X)
        <4>1. \A k \in 0 + 1 .. i : k \in 1 .. n
          BY <1>1
        <4> QED
          BY <4>1 DEF Nodes, Block, n
      <3> QED
        BY <2>1, <2>2, <3>2, <3>3, <3>4
    <2> QED
      BY <2>3, <2>4, <2>5
  <1>8. InOrder(c)
    <2> SUFFICES ASSUME NEW p \in 1 .. Len(c), NEW q \in 1 .. Len(c), p < q PROVE Key[c[p]] <= Key[c[q]]
      BY <1>3 DEF InOrder
    <2> DEFINE a == p - m + i
               b == q - m + i
    <2>1. p \in Int /\ q \in Int /\ a < b
      BY <1>1, <1>2
    <2>2. \A x, y \in 1 .. m : x < y => Key[P[x]] <= Key[P[y]]
      BY <1>2 DEF Taken, InOrder, m
    <2>3. \A x, y \in i + 1 .. n : x < y => Key[X[x]] <= Key[X[y]]
      BY <1>1, <1>4 DEF Chains, InOrder, n
    <2>4. \A x \in 1 .. m : Key[P[x]] <= Key[X[i + 1]]
      BY <1>1 DEF Taken, m, n
    <2>5. i + 1 \in i + 1 .. n /\ X[i + 1] \in Item
      BY <1>1, <1>4
    <2>6. b \in i + 1 .. n => Key[X[i + 1]] <= Key[X[b]] /\ X[b] \in Item
      <3>1. b \in i + 1 .. n => b = i + 1 \/ i + 1 < b
        BY <1>1
      <3>2. Key[X[i + 1]] <= Key[X[i + 1]]
        BY <2>5, KeyNat
      <3> HIDE DEF b
      <3> QED
        BY <1>4, <2>3, <2>5, <3>1, <3>2
    <2>7. p \in 1 .. m => Key[P[p]] \in Nat
      BY <1>2, KeyNat DEF m
    <2>8. CASE p \in 1 .. m /\ c[p] = P[p]
      <3>1. CASE q \in 1 .. m /\ c[q] = P[q]
        BY <2>2, <2>8, <3>1
      <3>2. CASE b \in i + 1 .. n /\ c[q] = X[b]
        <4>1. Key[P[p]] <= Key[X[i + 1]] /\ Key[X[i + 1]] <= Key[X[b]] /\ X[b] \in Item
          BY <2>4, <2>6, <2>8, <3>2
        <4>2. Key[P[p]] \in Nat /\ Key[X[i + 1]] \in Nat /\ Key[X[b]] \in Nat
          BY <2>5, <2>7, <2>8, <4>1, KeyNat
        <4>3. Key[P[p]] <= Key[X[b]]
          <5> HIDE DEF b
          <5> QED
            BY <4>1, <4>2
        <4> QED
          BY <2>8, <3>2, <4>3
      <3> QED
        BY <1>5, <3>1, <3>2
    <2>9. CASE a \in i + 1 .. n /\ c[p] = X[a] /\ p > m
      <3>1. ~ (q \in 1 .. m)
        BY <1>2, <2>1, <2>9
      <3>2. b \in i + 1 .. n /\ c[q] = X[b]
        BY <1>5, <3>1
      <3> HIDE DEF a, b
      <3> QED
        BY <2>1, <2>3, <2>9, <3>2
    <2> QED
      BY <1>5, <2>8, <2>9
  <1>9. Len(c) = n + l
    BY <1>1, <1>2, <1>3
  <1> QED
    BY <1>3, <1>6, <1>7, <1>8, <1>9 DEF MergedItems, c, n, l

Merged(s, r, X, Y, c, h, t) ==
  /\ r \in Mem /\ SameEnds(s, r)
  /\ MergedItems(c, X, Y)
  /\ Chained(r, c, h, t)
  /\ \A n \in Item \ (Nodes(X) \cup Nodes(Y)) : NextOf(r, n) = NextOf(s, n) /\ PrevOf(r, n) = PrevOf(s, n)

LEMMA FinishLinks ==
  ASSUME NEW s, NEW u, NEW X, NEW Y, Chains(s, X, Y), NEW i \in 0 .. Len(X) - 1, Len(Y) > 0,
         NEW P, Taken(P, X, Y, i, Len(Y)), NEW h, NEW t, PartChain(s, u, P, h, t)
  PROVE  Merged(s, Linked(u, t, X[i + 1]), X, Y, WithRest(P, X, i), h, At(X, Len(X)))
  <1> DEFINE c == WithRest(P, X, i)
             n == Len(X)
             l == Len(Y)
             m == Len(P)
             x == X[i + 1]
             v == Linked(u, t, x)
  <1>1. X \in Seq(Item) /\ n \in Nat /\ l \in Nat /\ l > 0 /\ i \in Nat /\ i < n /\ i \in 0 .. n /\ l \in 0 .. l
    BY DEF Chains
  <1>2. P \in Seq(Item) /\ Distinct(P) /\ m = i + l /\ m \in Nat /\ m > 0 /\ m \in 1 .. m /\ 1 \in 1 .. m
    BY <1>1 DEF Taken
  <1>3. /\ c \in Seq(Item) /\ Len(c) = m + (n - i)
        /\ \A q \in 1 .. m : c[q] = P[q]
        /\ \A q \in 1 .. n - i : c[m + q] = X[i + q]
    BY <1>1, <1>2, WithRestItems
  <1>4. MergedItems(c, X, Y)
    BY FinishItems
  <1>5. /\ u \in Mem /\ SameEnds(s, u) /\ h = At(P, 1) /\ t = At(P, m) /\ Inner(u, P) /\ PrevOf(u, h) = NULL
        /\ \A y \in Item \ Nodes(P) : NextOf(u, y) = NextOf(s, y) /\ PrevOf(u, y) = PrevOf(s, y)
    BY <1>2 DEF PartChain
  <1>6. h = P[1] /\ t = P[m] /\ h \in Item /\ t \in Item /\ t \in Nodes(P)
    BY <1>2, <1>5 DEF At, Nodes
  <1> HIDE DEF c, m, n, l
  <1>7. \A k \in i + 1 .. n : StaysLinked(u, X, P, k)
    BY <1>1, Untaken DEF n, l
  <1>8. x \in Item /\ x \notin Nodes(P) /\ x \in Nodes(X)
    <2>1. i + 1 \in i + 1 .. n
      BY <1>1
    <2> QED
      BY <1>7, <2>1 DEF StaysLinked, Nodes
  <1>9. /\ v \in Mem /\ SameEnds(u, v)
        /\ \A y \in Item : NextOf(v, y) = IF y = t THEN x ELSE NextOf(u, y)
        /\ \A y \in Item : PrevOf(v, y) = IF y = x THEN t ELSE PrevOf(u, y)
    <2>1. t \in Place /\ x \in Place
      BY <1>6, <1>8 DEF Place
    <2> HIDE DEF x
    <2> QED
      BY <1>5, <2>1, LinkedFields
  <1>10. SameEnds(s, v)
    BY <1>5, <1>9 DEF SameEnds
  <1> HIDE DEF v
  <1>11. Nodes(P) \subseteq Nodes(c) /\ Nodes(c) = Nodes(X) \cup Nodes(Y)
    <2>1. \A q \in 1 .. m : q \in 1 .. Len(c)
      BY <1>1, <1>2, <1>3
    <2> QED
      BY <1>3, <1>4, <2>1 DEF Nodes, m, MergedItems
  <1>12. ASSUME NEW y \in Item \ (Nodes(X) \cup Nodes(Y)) PROVE NextOf(v, y) = NextOf(s, y) /\ PrevOf(v, y) = PrevOf(s, y)
    BY <1>5, <1>6, <1>8, <1>9, <1>11
  <1>13. \A k \in 1 .. n - i + 1 : At(c, m + k) = At(X, i + k)
    <2> SUFFICES ASSUME NEW k \in 1 .. n - i + 1 PROVE At(c, m + k) = At(X, i + k)
      OBVIOUS
    <2>1. CASE k <= n - i
      <3>1. k \in 1 .. n - i /\ m + k \in 1 .. Len(c) /\ i + k \in 1 .. n
        BY <1>1, <1>2, <1>3, <2>1
      <3> QED
        BY <1>3, <3>1 DEF At, n
    <2>2. CASE ~ (k <= n - i)
      <3>1. ~ (m + k \in 1 .. Len(c)) /\ ~ (i + k \in 1 .. n)
        BY <1>1, <1>2, <1>3, <2>2
      <3> QED
        BY <3>1 DEF At, n
    <2> QED
      BY <2>1, <2>2
  <1>14. \A q \in 1 .. m : At(c, q) = P[q] /\ P[q] \in Item /\ P[q] \in Nodes(P) /\ q \in 1 .. Len(c)
    <2>1. \A q \in 1 .. m : q \in 1 .. Len(c)
      BY <1>1, <1>2, <1>3
    <2> QED
      BY <1>2, <1>3, <2>1 DEF At, Nodes, m
  <1>15. At(c, m + 1) = x
    <2>1. 1 \in 1 .. n - i + 1 /\ i + 1 \in 1 .. n
      BY <1>1
    <2> QED
      BY <1>13, <2>1 DEF At, n
  <1>16. ASSUME NEW q \in 1 .. m PROVE NextOf(v, P[q]) = At(c, q + 1) /\ PrevOf(v, P[q]) = At(c, q - 1)
    <2>1. NextOf(v, P[q]) = At(c, q + 1)
      <3>1. CASE q = m
        BY <1>6, <1>9, <1>14, <1>15, <3>1
      <3>2. CASE q # m
        <4>1. q \in 1 .. m - 1 /\ q + 1 \in 1 .. m
          BY <1>2, <3>2
        <4>2. NextOf(u, P[q]) = P[q + 1]
          BY <1>5, <4>1 DEF Inner, m
        <4>3. P[q] # t
          BY <1>2, <1>6, <3>2 DEF Distinct, m
        <4> QED
          BY <1>9, <1>14, <4>1, <4>2, <4>3
      <3> QED
        BY <3>1, <3>2
    <2>2. PrevOf(v, P[q]) = At(c, q - 1)
      <3>1. PrevOf(v, P[q]) = PrevOf(u, P[q])
        BY <1>8, <1>9, <1>14
      <3>2. CASE q = 1
        <4>1. At(c, 0) = NULL
          BY DEF At
        <4> QED
          BY <1>5, <1>6, <3>1, <3>2, <4>1
      <3>3. CASE q # 1
        <4> DEFINE p == q - 1
        <4>1. p \in 1 .. m - 1 /\ p \in 1 .. m /\ p + 1 = q
          BY <1>2, <3>3
        <4> HIDE DEF p
        <4>2. PrevOf(u, P[p + 1]) = P[p]
          BY <1>5, <4>1 DEF Inner, m
        <4>3. PrevOf(v, P[q]) = At(c, p)
          BY <1>14, <3>1, <4>1, <4>2
        <4> QED
          BY <4>3 DEF p
      <3> QED
        BY <3>2, <3>3
    <2> QED
      BY <2>1, <2>2
  <1>17. ASSUME NEW k \in 1 .. n - i
         PROVE NextOf(v, c[m + k]) = At(c, (m + k) + 1) /\ PrevOf(v, c[m + k]) = At(c, (m + k) - 1)
    <2> DEFINE y == X[i + k]
    <2>1. i + k \in i + 1 .. n /\ i + k \in 1 .. n /\ i + 1 \in 1 .. n
      BY <1>1
    <2>2. c[m + k] = y
      BY <1>3
    <2>3. y \in Item \ Nodes(P) /\ NextOf(u, y) = At(X, (i + k) + 1) /\ PrevOf(u, y) = At(X, (i + k) - 1)
      BY <1>7, <2>1 DEF StaysLinked
    <2>4. NextOf(v, y) = At(c, (m + k) + 1)
      <3>1. k + 1 \in 1 .. n - i + 1 /\ (i + k) + 1 = i + (k + 1) /\ (m + k) + 1 = m + (k + 1)
        BY <1>1, <1>2
      <3>2. At(c, m + (k + 1)) = At(X, i + (k + 1))
        BY <1>13, <3>1
      <3> HIDE DEF y
      <3>3. NextOf(v, y) = NextOf(u, y)
        BY <1>6, <1>9, <2>3
      <3> QED
        BY <2>3, <3>1, <3>2, <3>3
    <2>5. PrevOf(v, y) = At(c, (m + k) - 1)
      <3>1. CASE k = 1
        <4>1. y = x /\ (m + k) - 1 = m
          BY <1>2, <3>1
        <4> QED
          BY <1>2, <1>6, <1>8, <1>9, <1>14, <4>1
      <3>2. CASE k # 1
        <4> DEFINE p == k - 1
        <4>1. p \in 1 .. n - i + 1 /\ (i + k) - 1 = i + p /\ (m + k) - 1 = m + p /\ i + k # i + 1
          BY <1>1, <1>2, <3>2
        <4> HIDE DEF p
        <4>2. y # x
          BY <2>1, <4>1 DEF Chains, Distinct, n
        <4>3. At(c, m + p) = At(X, i + p)
          BY <1>13, <4>1
        <4> HIDE DEF y, x
        <4>4. PrevOf(v, y) = At(X, (i + k) - 1)
          BY <1>9, <2>3, <4>2
        <4> QED
          BY <4>1, <4>3, <4>4
      <3> QED
        BY <3>1, <3>2
    <2> HIDE DEF y
    <2> QED
      BY <2>2, <2>4, <2>5
  <1>18. Chained(v, c, h, At(X, n))
    <2>1. h = At(c, 1)
      BY <1>2, <1>6, <1>14
    <2>2. At(X, n) = At(c, Len(c))
      <3> DEFINE k == n - i
      <3>1. k \in 1 .. n - i + 1 /\ i + k = n /\ m + k = Len(c)
        BY <1>1, <1>2, <1>3
      <3> HIDE DEF k
      <3>2. At(c, m + k) = At(X, i + k)
        BY <1>13, <3>1
      <3> QED
        BY <3>1, <3>2
    <2>3. ASSUME NEW q \in 1 .. Len(c) PROVE NextOf(v, c[q]) = At(c, q + 1) /\ PrevOf(v, c[q]) = At(c, q - 1)
      <3>1. CASE q \in 1 .. m
        BY <1>3, <1>16, <3>1
      <3>2. CASE ~ (q \in 1 .. m)
        <4> DEFINE k == q - m
        <4>1. k \in 1 .. n - i /\ q = m + k
          BY <1>1, <1>2, <1>3, <3>2
        <4> HIDE DEF k
        <4> QED
          BY <1>17, <4>1
      <3> QED
        BY <3>1, <3>2
    <2> QED
      BY <2>1, <2>2, <2>3 DEF Chained
  <1> QED
    BY <1>4, <1>9, <1>10, <1>12, <1>18 DEF Merged, v, c, n

LEMMA MergedSwap ==
  ASSUME NEW s, NEW r, NEW X, NEW Y, Len(X) \in Nat, Len(Y) \in Nat, NEW c, NEW h, NEW t, Merged(s, r, Y, X, c, h, t)
  PROVE  Merged(s, r, X, Y, c, h, t)
  BY DEF Merged, MergedItems

LEMMA MergedNothing ==
  ASSUME NEW s, NEW X, NEW Y, Chains(s, X, Y), Len(Y) = 0
  PROVE  Merged(s, s, X, Y, X, At(X, 1), At(X, Len(X)))
  <1>1. X \in Seq(Item) /\ Len(X) \in Nat
    BY DEF Chains
  <1>2. Nodes(Y) = {}
    BY DEF Nodes
  <1>3. Len(X) = Len(X) + Len(Y)
    BY <1>1
  <1> QED
    BY <1>1, <1>2, <1>3 DEF Merged, MergedItems, SameEnds, Chains

(* After k rounds. *)
MergeAt(m, s, X, Y, k) ==
  \E i, j \in Nat : \E P : Merging(m, s, X, Y, i, j, P) /\ (i + j = k \/ m.a = NULL \/ m.b = NULL)

LEMMA MergeStarts ==
  ASSUME NEW s, NEW X, NEW Y, Chains(s, X, Y), Len(X) > 0, Len(Y) > 0
  PROVE  MergeAt([mem |-> s, a |-> At(X, 1), b |-> At(Y, 1), head |-> NULL, tail |-> NULL], s, X, Y, 0)
  <1> DEFINE m == [mem |-> s, a |-> At(X, 1), b |-> At(Y, 1), head |-> NULL, tail |-> NULL]
             P == <<>>
  <1>1. X \in Seq(Item) /\ Y \in Seq(Item) /\ Len(X) \in Nat /\ Len(Y) \in Nat
    BY DEF Chains
  <1>2. P \in Seq(Item) /\ Len(P) = 0
    OBVIOUS
  <1> HIDE DEF P
  <1>3. Distinct(P) /\ Nodes(P) = {} /\ InOrder(P) /\ Block(X, 0, 0) = {} /\ Block(Y, 0, 0) = {}
    BY <1>2 DEF Distinct, Nodes, InOrder, Block
  <1>4. Taken(P, X, Y, 0, 0)
    BY <1>2, <1>3 DEF Taken
  <1>5. PartChain(s, s, P, NULL, NULL)
    <2>1. At(P, 1) = NULL /\ At(P, Len(P)) = NULL /\ Inner(s, P)
      BY <1>2 DEF At, Inner
    <2> QED
      BY <1>2, <2>1 DEF PartChain, SameEnds, Chains
  <1>6. m.mem = s /\ m.a = At(X, 0 + 1) /\ m.b = At(Y, 0 + 1) /\ m.head = NULL /\ m.tail = NULL
    OBVIOUS
  <1>7. m = [mem |-> m.mem, a |-> m.a, b |-> m.b, head |-> m.head, tail |-> m.tail]
    OBVIOUS
  <1> HIDE DEF m
  <1>8. Merging(m, s, X, Y, 0, 0, P)
    BY <1>1, <1>4, <1>5, <1>6, <1>7 DEF Merging
  <1> QED
    BY <1>8 DEF MergeAt, m

LEMMA MergeGoesOn ==
  ASSUME NEW s, NEW X, NEW Y, Chains(s, X, Y), NEW m, NEW k \in Nat, MergeAt(m, s, X, Y, k)
  PROVE  MergeAt(MergeStep(m), s, X, Y, k + 1)
  <1>0. PICK i \in Nat, j \in Nat : \E P : Merging(m, s, X, Y, i, j, P) /\ (i + j = k \/ m.a = NULL \/ m.b = NULL)
    BY DEF MergeAt
  <1>1. PICK P : Merging(m, s, X, Y, i, j, P) /\ (i + j = k \/ m.a = NULL \/ m.b = NULL)
    BY <1>0
  <1>2. CASE m.a = NULL \/ m.b = NULL
    <2>1. MergeStep(m) = m
      BY <1>2 DEF MergeStep
    <2> QED
      BY <1>1, <1>2, <2>1 DEF MergeAt
  <1>3. CASE m.a # NULL /\ m.b # NULL
    <2>1. i + j = k /\ (i + 1) + j = k + 1 /\ i + (j + 1) = k + 1 /\ i + 1 \in Nat /\ j + 1 \in Nat
      BY <1>1, <1>3
    <2>2. \/ Merging(MergeStep(m), s, X, Y, i + 1, j, Append(P, X[i + 1]))
          \/ Merging(MergeStep(m), s, X, Y, i, j + 1, Append(P, Y[j + 1]))
      BY <1>1, <1>3, MergeRound
    <2> QED
      BY <2>1, <2>2 DEF MergeAt
  <1> QED
    BY <1>2, <1>3

(* After as many rounds as there are nodes, one of the chains is at its end. *)
LEMMA MergeEnds ==
  ASSUME NEW s, NEW X, NEW Y, Chains(s, X, Y), NEW m, MergeAt(m, s, X, Y, Cardinality(Item))
  PROVE  m.a = NULL \/ m.b = NULL
  <1> DEFINE N == Cardinality(Item)
  <1>0. PICK i \in Nat, j \in Nat : \E P : Merging(m, s, X, Y, i, j, P) /\ (i + j = N \/ m.a = NULL \/ m.b = NULL)
    BY DEF MergeAt
  <1>1. PICK P : Merging(m, s, X, Y, i, j, P) /\ (i + j = N \/ m.a = NULL \/ m.b = NULL)
    BY <1>0
  <1>2. SUFFICES ASSUME m.a # NULL, m.b # NULL PROVE FALSE
    OBVIOUS
  <1>3. i + j = N /\ N \in Nat
    BY <1>1, <1>2, CardinalityNat
  <1>4. \/ Merging(MergeStep(m), s, X, Y, i + 1, j, Append(P, X[i + 1]))
        \/ Merging(MergeStep(m), s, X, Y, i, j + 1, Append(P, Y[j + 1]))
    BY <1>1, <1>2, MergeRound
  <1>5. \E Q \in Seq(Item) : Distinct(Q) /\ Len(Q) = N + 1
    <2>1. (i + 1) + j = N + 1 /\ i + (j + 1) = N + 1
      BY <1>3
    <2> QED
      BY <1>4, <2>1 DEF Merging, Taken
  <1> HIDE DEF N
  <1>6. N + 1 <= N
    BY <1>5, DistinctBound DEF N
  <1> QED
    BY <1>3, <1>6

LEMMA CmergeRuns ==
  ASSUME NEW s, NEW ha, NEW ta, NEW hb, NEW tb, ha # NULL, hb # NULL
  PROVE  \E w : /\ w[0] = [mem |-> s, a |-> ha, b |-> hb, head |-> NULL, tail |-> NULL]
                /\ \A i \in 0 .. Cardinality(Item) - 1 : w[i + 1] = MergeStep(w[i])
                /\ LET r == w[Cardinality(Item)]
                   IN Cmerge(s, ha, ta, hb, tb) =
                        IF r.a = NULL THEN [mem |-> Linked(r.mem, r.tail, r.b), head |-> r.head, tail |-> tb]
                        ELSE [mem |-> Linked(r.mem, r.tail, r.a), head |-> r.head, tail |-> ta]
  <1> DEFINE N == Cardinality(Item)
             b == [mem |-> s, a |-> ha, b |-> hb, head |-> NULL, tail |-> NULL]
             p == <<>>
             w == CHOOSE f : f = [i \in 0 .. N |-> IF i = 0 THEN b ELSE MergeStep(f[i - 1])]
             v == CHOOSE f : f = [i \in 0 .. N |-> IF i = 0 THEN b ELSE Round("merge", f[i - 1], p)]
  <1>1. \A x : Round("merge", x, p) = MergeStep(x)
    BY DEF Round
  <1>2. w = v
    BY <1>1, Zenon
  <1>3. Runs(v, N, b, "merge", p)
    <2>1. \E f : Rounds(f, N, b, "merge", p)
      BY CardinalityNat, RoundsExist
    <2>2. Rounds(v, N, b, "merge", p)
      BY <2>1, Zenon DEF Rounds
    <2> HIDE DEF v, b, p
    <2> QED
      BY <2>2, CardinalityNat, RoundsRun
  <1>4. Cmerge(s, ha, ta, hb, tb) =
           IF w[N].a = NULL THEN [mem |-> Linked(w[N].mem, w[N].tail, w[N].b), head |-> w[N].head, tail |-> tb]
           ELSE [mem |-> Linked(w[N].mem, w[N].tail, w[N].a), head |-> w[N].head, tail |-> ta]
    BY DEF Cmerge
  <1> HIDE DEF w, v, p
  <1> QED
    BY <1>1, <1>2, <1>3, <1>4 DEF Runs

(* cmerge of two sorted chains is a sorted chain of their nodes.           *)
MergedPiece(s, p, X, Y) ==
  /\ p = [mem |-> p.mem, head |-> p.head, tail |-> p.tail]
  /\ \E c : Merged(s, p.mem, X, Y, c, p.head, p.tail)

LEMMA MergedPieceIs ==
  ASSUME NEW s, NEW u, NEW h, NEW t, NEW c, NEW X, NEW Y, Merged(s, u, X, Y, c, h, t)
  PROVE  MergedPiece(s, [mem |-> u, head |-> h, tail |-> t], X, Y)
  <1> DEFINE p == [mem |-> u, head |-> h, tail |-> t]
  <1>1. p = [mem |-> p.mem, head |-> p.head, tail |-> p.tail] /\ p.mem = u /\ p.head = h /\ p.tail = t
    OBVIOUS
  <1> HIDE DEF p
  <1>2. MergedPiece(s, p, X, Y)
    BY <1>1 DEF MergedPiece
  <1> QED
    BY <1>2 DEF p

LEMMA CmergeGood ==
  ASSUME NEW s, NEW X, NEW Y, Chains(s, X, Y)
  PROVE  MergedPiece(s, Cmerge(s, At(X, 1), At(X, Len(X)), At(Y, 1), At(Y, Len(Y))), X, Y)
  <1> DEFINE N == Cardinality(Item)
             ha == At(X, 1)
             ta == At(X, Len(X))
             hb == At(Y, 1)
             tb == At(Y, Len(Y))
             p == Cmerge(s, ha, ta, hb, tb)
  <1>1. X \in Seq(Item) /\ Y \in Seq(Item) /\ Len(X) \in Nat /\ Len(Y) \in Nat
    BY DEF Chains
  <1>2. (ha = NULL <=> Len(X) = 0) /\ (hb = NULL <=> Len(Y) = 0)
    BY <1>1, AtTypes
  <1>3. CASE hb = NULL
    <2>1. p = [mem |-> s, head |-> ha, tail |-> ta]
      BY <1>3 DEF Cmerge
    <2>2. Merged(s, s, X, Y, X, ha, ta)
      BY <1>2, <1>3, MergedNothing
    <2> HIDE DEF ha, ta, p
    <2> QED
      BY <2>1, <2>2, MergedPieceIs DEF p, ha, ta
  <1>4. CASE hb # NULL /\ ha = NULL
    <2>1. p = [mem |-> s, head |-> hb, tail |-> tb]
      BY <1>4 DEF Cmerge
    <2>2. Merged(s, s, Y, X, Y, hb, tb)
      BY <1>2, <1>4, MergedNothing, ChainsSwap
    <2>3. Merged(s, s, X, Y, Y, hb, tb)
      BY <1>1, <2>2, MergedSwap
    <2> HIDE DEF hb, tb, p
    <2> QED
      BY <2>1, <2>3, MergedPieceIs DEF p, hb, tb
  <1>5. CASE ha # NULL /\ hb # NULL
    <2> HIDE DEF N, ha, ta, hb, tb
    <2>1. PICK w : /\ w[0] = [mem |-> s, a |-> ha, b |-> hb, head |-> NULL, tail |-> NULL]
                   /\ \A i \in 0 .. N - 1 : w[i + 1] = MergeStep(w[i])
                   /\ p = IF w[N].a = NULL
                          THEN [mem |-> Linked(w[N].mem, w[N].tail, w[N].b), head |-> w[N].head, tail |-> tb]
                          ELSE [mem |-> Linked(w[N].mem, w[N].tail, w[N].a), head |-> w[N].head, tail |-> ta]
      BY <1>5, CmergeRuns DEF N
    <2>2. Len(X) > 0 /\ Len(Y) > 0 /\ N \in Nat
      BY <1>1, <1>2, <1>5, CardinalityNat DEF N
    <2> DEFINE T == {k \in Nat : k <= N => MergeAt(w[k], s, X, Y, k)}
    <2>3. 0 \in T
      BY <2>1, <2>2, MergeStarts DEF ha, hb
    <2>4. \A k \in Nat : k \in T => k + 1 \in T
      <3> SUFFICES ASSUME NEW k \in Nat, k \in T, k + 1 <= N PROVE MergeAt(w[k + 1], s, X, Y, k + 1)
        OBVIOUS
      <3>1. k \in 0 .. N - 1 /\ k <= N
        BY <2>2
      <3>2. MergeAt(w[k], s, X, Y, k) /\ w[k + 1] = MergeStep(w[k])
        BY <2>1, <3>1
      <3> HIDE DEF T
      <3> QED
        BY <3>2, MergeGoesOn
    <2> HIDE DEF T
    <2>5. \A k \in Nat : k \in T
      BY <2>3, <2>4, Induction
    <2> DEFINE m == w[N]
    <2>6. MergeAt(m, s, X, Y, N)
      <3>1. N <= N
        BY <2>2
      <3> QED
        BY <2>2, <2>5, <3>1 DEF T
    <2> HIDE DEF m
    <2>7. m.a = NULL \/ m.b = NULL
      BY <2>6, MergeEnds DEF N
    <2>14. PICK i \in Nat, j \in Nat : \E P : Merging(m, s, X, Y, i, j, P)
      BY <2>6 DEF MergeAt
    <2>8. PICK P : Merging(m, s, X, Y, i, j, P)
      BY <2>14
    <2>9. /\ i \in 0 .. Len(X) /\ j \in 0 .. Len(Y) /\ (i < Len(X) \/ j < Len(Y))
          /\ m.a = At(X, i + 1) /\ m.b = At(Y, j + 1)
          /\ Taken(P, X, Y, i, j)
          /\ PartChain(s, m.mem, P, m.head, m.tail)
      BY <2>8 DEF Merging
    <2>10. (m.a = NULL <=> i = Len(X)) /\ (m.b = NULL <=> j = Len(Y))
      <3>1. i + 1 \in Int /\ j + 1 \in Int
        OBVIOUS
      <3>2. (m.a = NULL <=> ~ (1 <= i + 1 /\ i + 1 <= Len(X))) /\ (m.b = NULL <=> ~ (1 <= j + 1 /\ j + 1 <= Len(Y)))
        BY <1>1, <2>9, <3>1, AtTypes
      <3> QED
        BY <1>1, <2>9, <3>2
    <2>11. CASE m.a = NULL
      <3>1. i = Len(X) /\ j \in 0 .. Len(Y) - 1 /\ j + 1 \in 1 .. Len(Y)
        BY <1>1, <2>9, <2>10, <2>11
      <3>2. p = [mem |-> Linked(m.mem, m.tail, m.b), head |-> m.head, tail |-> tb]
        BY <2>1, <2>11 DEF m
      <3>3. m.b = Y[j + 1]
        BY <2>9, <3>1 DEF At
      <3>4. Chains(s, Y, X) /\ Taken(P, Y, X, j, Len(X))
        BY <2>9, <3>1, ChainsSwap, TakenSwap
      <3>5. Merged(s, Linked(m.mem, m.tail, m.b), Y, X, WithRest(P, Y, j), m.head, tb)
        BY <2>2, <2>9, <3>1, <3>3, <3>4, FinishLinks DEF tb
      <3>6. Merged(s, Linked(m.mem, m.tail, m.b), X, Y, WithRest(P, Y, j), m.head, tb)
        BY <1>1, <3>5, MergedSwap
      <3> HIDE DEF p
      <3> QED
        BY <3>2, <3>6, MergedPieceIs DEF p, ha, ta, hb, tb
    <2>12. CASE m.a # NULL
      <3>1. j = Len(Y) /\ i \in 0 .. Len(X) - 1 /\ i + 1 \in 1 .. Len(X)
        BY <1>1, <2>7, <2>9, <2>10, <2>12
      <3>2. p = [mem |-> Linked(m.mem, m.tail, m.a), head |-> m.head, tail |-> ta]
        BY <2>1, <2>12 DEF m
      <3>3. m.a = X[i + 1]
        BY <2>9, <3>1 DEF At
      <3>4. Merged(s, Linked(m.mem, m.tail, m.a), X, Y, WithRest(P, X, i), m.head, ta)
        BY <2>2, <2>9, <3>1, <3>3, FinishLinks DEF ta
      <3> HIDE DEF p
      <3> QED
        BY <3>2, <3>4, MergedPieceIs DEF p, ha, ta, hb, tb
    <2> QED
      BY <2>11, <2>12
  <1> QED
    BY <1>3, <1>4, <1>5

(* The nodes of the list d are in no list any more.                        *)
LEMMA LetGo ==
  ASSUME NEW s, NEW C, Good(s, C), NEW d \in Handle
  PROVE  Holds(EmptyList(s, d), [C EXCEPT ![d] = <<>>], Nodes(C[d]))
  <1> DEFINE c == C[d]
             r == EmptyList(s, d)
             e == <<>>
             L == Nodes(c)
  <1>1. s \in Mem /\ c \in Seq(Item) /\ Chained(s, c, HeadOf(s, d), TailOf(s, d))
    BY GoodList DEF ListIs
  <1>2. L \subseteq Item /\ \A n \in L : NextOf(s, n) # Junk
    BY <1>1, NodesAreItems, ChainedAllocated
  <1>3. e \in Seq(Item) /\ Len(e) = 0
    OBVIOUS
  <1> HIDE DEF e
  <1>4. Distinct(e) /\ Nodes(e) = {} /\ At(e, 1) = NULL /\ At(e, Len(e)) = NULL
    BY <1>3 DEF Distinct, Nodes, At
  <1>5. EndsWritten(s, d, NULL, NULL, 0, r)
    BY <1>1, EmptiedEnds
  <1> HIDE DEF r, L, c
  <1>6. Chained(r, e, HeadOf(r, d), TailOf(r, d))
    BY <1>3, <1>4, <1>5 DEF Chained, EndsWritten
  <1>7. Remade(s, r, d, c, {}, e, L)
    BY <1>2, <1>3, <1>4, <1>5, <1>6 DEF Remade, EndsWritten, L
  <1>8. Holds(r, [C EXCEPT ![d] = e], L)
    BY <1>7, HoldsAfter DEF Good, c
  <1> QED
    BY <1>8 DEF r, e, L, c

(* list_merge: the two lists of s are merged into a. *)
LEMMA MergeGood ==
  ASSUME NEW s, NEW C, Good(s, C), NEW a \in Handle, NEW b \in Handle, a # b, InOrder(C[a]), InOrder(C[b])
  PROVE  LET m == Cmerge(s, s.head[a], s.tail[a], s.head[b], s.tail[b])
             u == [m.mem EXCEPT !.head[a] = m.head, !.tail[a] = m.tail, !.size[a] = s.size[a] + s.size[b]]
         IN \E c : MergedItems(c, C[a], C[b]) /\ Good(EmptyList(u, b), [C EXCEPT ![a] = c, ![b] = <<>>])
  <1> DEFINE X == C[a]
             Y == C[b]
             m == Cmerge(s, s.head[a], s.tail[a], s.head[b], s.tail[b])
             v == m.mem
             k == s.size[a] + s.size[b]
             u == [v EXCEPT !.head[a] = m.head, !.tail[a] = m.tail, !.size[a] = k]
             r == EmptyList(u, b)
             s2 == EmptyList(s, b)
             e == <<>>
             D == [C EXCEPT ![b] = e]
  <1>1. /\ s \in Mem /\ X \in Seq(Item) /\ Distinct(X) /\ Y \in Seq(Item) /\ Distinct(Y)
        /\ Len(X) \in Nat /\ Len(Y) \in Nat
        /\ SizeOf(s, a) = Len(X) /\ SizeOf(s, b) = Len(Y)
    BY GoodList
  <1>2. Nodes(X) \cap Nodes(Y) = {} /\ C \in [Handle -> Seq(Item)]
    BY DEF Good, Holds
  <1>3. /\ HeadOf(s, a) = At(X, 1) /\ TailOf(s, a) = At(X, Len(X)) /\ HeadOf(s, b) = At(Y, 1) /\ TailOf(s, b) = At(Y, Len(Y))
        /\ Chained(s, X, HeadOf(s, a), TailOf(s, a)) /\ Chained(s, Y, HeadOf(s, b), TailOf(s, b))
    <2>1. ListIs(s, a, X, {}) /\ ListIs(s, b, Y, {})
      BY GoodList
    <2> HIDE DEF X, Y
    <2>2. HeadOf(s, a) = At(X, 1) /\ TailOf(s, a) = At(X, Len(X))
      BY <2>1, EndsOfList
    <2>3. HeadOf(s, b) = At(Y, 1) /\ TailOf(s, b) = At(Y, Len(Y))
      BY <2>1, EndsOfList
    <2> QED
      BY <2>1, <2>2, <2>3 DEF ListIs
  <1>4. Chains(s, X, Y)
    <2>1. InOrder(X) /\ InOrder(Y)
      OBVIOUS
    <2> HIDE DEF X, Y
    <2> QED
      BY <1>1, <1>2, <1>3, <2>1 DEF Chains
  <1>5. MergedPiece(s, m, X, Y)
    <2>1. s.head[a] = At(X, 1) /\ s.tail[a] = At(X, Len(X)) /\ s.head[b] = At(Y, 1) /\ s.tail[b] = At(Y, Len(Y))
      BY <1>3 DEF HeadOf, TailOf
    <2> HIDE DEF X, Y
    <2> QED
      BY <1>4, <2>1, CmergeGood
  <1> HIDE DEF m
  <1>6. PICK c : Merged(s, v, X, Y, c, m.head, m.tail)
    BY <1>5 DEF MergedPiece
  <1>7. /\ v \in Mem /\ SameEnds(s, v) /\ MergedItems(c, X, Y) /\ Chained(v, c, m.head, m.tail)
        /\ \A n \in Item \ (Nodes(X) \cup Nodes(Y)) : NextOf(v, n) = NextOf(s, n) /\ PrevOf(v, n) = PrevOf(s, n)
    BY <1>6 DEF Merged
  <1>8. c \in Seq(Item) /\ Distinct(c) /\ Nodes(c) = Nodes(X) \cup Nodes(Y) /\ Len(c) = Len(X) + Len(Y)
    BY <1>7 DEF MergedItems
  <1>9. m.head \in Place /\ m.tail \in Place
    <2>1. m.head = At(c, 1) /\ m.tail = At(c, Len(c))
      BY <1>7 DEF Chained
    <2>2. Len(c) \in Int
      BY <1>8
    <2>3. At(c, 1) \in Place /\ At(c, Len(c)) \in Place
      <3>1. c \in Seq(Item) /\ 1 \in Int
        BY <1>8
      <3>2. \A i \in Int : At(c, i) \in Place
        BY <3>1, AtTypes
      <3> QED
        BY <2>2, <3>1, <3>2
    <2> QED
      BY <2>1, <2>3
  <1>10. EndsWritten(v, a, m.head, m.tail, k, u)
    <2>1. k = Len(X) + Len(Y)
      BY <1>1 DEF SizeOf
    <2> HIDE DEF k, v, X, Y
    <2>2. k \in Nat
      BY <1>1, <2>1
    <2> QED
      BY <1>7, <1>9, <2>2, WriteEnds
  <1> HIDE DEF u
  <1>11. EndsWritten(u, b, NULL, NULL, 0, r)
    BY <1>10, EmptiedEnds DEF EndsWritten
  <1>12. EndsWritten(s, b, NULL, NULL, 0, s2)
    BY <1>1, EmptiedEnds
  <1>13. Holds(s2, D, Nodes(Y))
    BY LetGo
  <1>14. D[a] = X /\ [D EXCEPT ![a] = c] = [C EXCEPT ![a] = c, ![b] = e]
    BY <1>2
  <1> HIDE DEF r, s2, D, v, k, X, Y, e
  <1>15. Remade(s2, r, a, X, Nodes(Y), c, {})
    <2>1. /\ r \in Mem /\ HeadOf(r, a) = m.head /\ TailOf(r, a) = m.tail
          /\ \A n \in Item : NextOf(r, n) = NextOf(v, n) /\ PrevOf(r, n) = PrevOf(v, n)
      BY <1>10, <1>11 DEF EndsWritten
    <2>2. Chained(r, c, HeadOf(r, a), TailOf(r, a))
      <3>1. \A i \in 1 .. Len(c) : c[i] \in Item
        BY <1>8
      <3> QED
        BY <1>7, <2>1, <3>1 DEF Chained
    <2>3. \A f \in Handle \ {a} : HeadOf(r, f) = HeadOf(s2, f) /\ TailOf(r, f) = TailOf(s2, f)
      <3> SUFFICES ASSUME NEW f \in Handle, f # a PROVE HeadOf(r, f) = HeadOf(s2, f) /\ TailOf(r, f) = TailOf(s2, f)
        OBVIOUS
      <3>1. CASE f = b
        BY <1>11, <1>12, <3>1 DEF EndsWritten
      <3>2. CASE f # b
        BY <1>7, <1>10, <1>11, <1>12, <3>2 DEF EndsWritten, SameEnds
      <3> QED
        BY <3>1, <3>2
    <2>4. \A n \in Item : NextOf(s2, n) = NextOf(s, n) /\ PrevOf(s2, n) = PrevOf(s, n)
      BY <1>12 DEF EndsWritten
    <2>5. \A n \in Item : n \notin Nodes(X) \cup Nodes(Y) => NextOf(r, n) = NextOf(s2, n) /\ PrevOf(r, n) = PrevOf(s2, n)
      BY <1>7, <2>1, <2>4
    <2> QED
      BY <1>8, <2>1, <2>2, <2>3, <2>5 DEF Remade
  <1>16. Holds(r, [D EXCEPT ![a] = c], {})
    BY <1>13, <1>14, <1>15, HoldsAfter
  <1>17. Sized(r, [D EXCEPT ![a] = c])
    <2>1. SizeOf(r, a) = Len(c)
      <3>1. SizeOf(r, a) = k
        BY <1>10, <1>11 DEF EndsWritten
      <3>2. k = Len(X) + Len(Y)
        BY <1>1 DEF k, SizeOf
      <3> QED
        BY <1>8, <3>1, <3>2
    <2>2. \A f \in Handle \ {a, b} : SizeOf(r, f) = Len(C[f])
      BY <1>7, <1>10, <1>11 DEF EndsWritten, SameEnds, Good, Sized
    <2>3. SizeOf(r, b) = 0 /\ Len(e) = 0
      BY <1>11 DEF EndsWritten, e
    <2>4. D \in [Handle -> Seq(Item)] /\ D[b] = e /\ \A f \in Handle \ {b} : D[f] = C[f]
      BY <1>2, <1>13 DEF D, Holds
    <2>5. \A f \in Handle : [D EXCEPT ![a] = c][f] = IF f = a THEN c ELSE D[f]
      BY <2>4
    <2>6. ASSUME NEW f \in Handle PROVE SizeOf(r, f) = Len([D EXCEPT ![a] = c][f])
      <3>1. CASE f = a
        BY <2>1, <2>5, <3>1
      <3>2. CASE f # a /\ f = b
        BY <2>3, <2>4, <2>5, <3>2
      <3>3. CASE f # a /\ f # b
        BY <2>2, <2>4, <2>5, <3>3
      <3> QED
        BY <3>1, <3>2, <3>3
    <2> QED
      BY <2>6 DEF Sized
  <1>18. Good(r, [C EXCEPT ![a] = c, ![b] = e])
    BY <1>14, <1>16, <1>17 DEF Good
  <1> QED
    BY <1>7, <1>18 DEF r, u, v, k, m, X, Y, e

-----------------------------------------------------------------------------
(* Sorting. *)

(* The nodes c are a chain of s, with the ends h and t. *)
ChainOf(s, c, h, t) == s \in Mem /\ c \in Seq(Item) /\ Distinct(c) /\ Chained(s, c, h, t)

LEMMA HalveRuns ==
  ASSUME NEW p
  PROVE  \E w : /\ w[0] = [slow |-> p.head, fast |-> p.head]
                /\ \A i \in 0 .. Cardinality(Item) - 1 : w[i + 1] = HalveStep(p.mem.next, w[i])
                /\ LET slow == w[Cardinality(Item)].slow
                       ta == p.mem.prev[slow]
                   IN Halve(p) = [mem |-> [p.mem EXCEPT !.next[ta] = NULL, !.prev[slow] = NULL], ta |-> ta, hb |-> slow]
  <1> DEFINE N == Cardinality(Item)
             b == [slow |-> p.head, fast |-> p.head]
             q == <<p.mem.next>>
             w == CHOOSE f : f = [i \in 0 .. N |-> IF i = 0 THEN b ELSE HalveStep(p.mem.next, f[i - 1])]
             v == CHOOSE f : f = [i \in 0 .. N |-> IF i = 0 THEN b ELSE Round("halve", f[i - 1], q)]
  <1>1. \A x : Round("halve", x, q) = HalveStep(p.mem.next, x)
    BY DEF Round
  <1>2. w = v
    BY <1>1, Zenon
  <1>3. Runs(v, N, b, "halve", q)
    <2>1. \E f : Rounds(f, N, b, "halve", q)
      BY CardinalityNat, RoundsExist
    <2>2. Rounds(v, N, b, "halve", q)
      BY <2>1, Zenon DEF Rounds
    <2> HIDE DEF v, b, q
    <2> QED
      BY <2>2, CardinalityNat, RoundsRun
  <1> DEFINE slow == w[N].slow
             ta == p.mem.prev[slow]
  <1>4. Halve(p) = [mem |-> [p.mem EXCEPT !.next[ta] = NULL, !.prev[slow] = NULL], ta |-> ta, hb |-> slow]
    BY DEF Halve
  <1> HIDE DEF w, v, q
  <1> QED
    BY <1>1, <1>2, <1>3, <1>4 DEF Runs

(* slow has gone j nodes, fast two times as many.                          *)
Halving(w, c, j) == w = [slow |-> At(c, 1 + j), fast |-> At(c, 1 + 2 * j)] /\ 2 * j <= Len(c)

LEMMA HalveRound ==
  ASSUME NEW s, NEW c, NEW h, NEW t, ChainOf(s, c, h, t), NEW w, NEW j \in Nat, Halving(w, c, j)
  PROVE  IF 2 * j + 2 <= Len(c) THEN Halving(HalveStep(s.next, w), c, j + 1) ELSE HalveStep(s.next, w) = w
  <1> DEFINE n == Len(c)
             k == 1 + 2 * j
             next(x) == NextOf(s, x)
  <1>1. c \in Seq(Item) /\ n \in Nat /\ \A i \in 1 .. n : NextOf(s, c[i]) = At(c, i + 1) /\ c[i] \in Item /\ c[i] # NULL
    BY NodesAssumption DEF ChainOf, Chained
  <1>2. k \in Nat /\ k >= 1 /\ 2 * j <= n
    BY DEF Halving
  <1>3. w.slow = At(c, 1 + j) /\ w.fast = At(c, k)
    BY DEF Halving
  <1> HIDE DEF n
  <1>4. CASE 2 * j + 2 <= n
    <2>1. 1 + j \in 1 .. n /\ k \in 1 .. n /\ k + 1 \in 1 .. n /\ (1 + j) + 1 = 1 + (j + 1) /\ (k + 1) + 1 = 1 + 2 * (j + 1)
      BY <1>1, <1>2, <1>4
    <2>2. w.slow = c[1 + j] /\ w.fast = c[k]
      BY <1>3, <2>1 DEF At, n
    <2> HIDE DEF k
    <2>3. NextOf(s, c[k]) = c[k + 1]
      BY <1>1, <2>1 DEF At, n
    <2>4. NextOf(s, c[1 + j]) = At(c, (1 + j) + 1) /\ NextOf(s, c[k + 1]) = At(c, (k + 1) + 1)
      BY <1>1, <2>1
    <2>5. w.fast # NULL /\ Follow(s.next, w.fast) # NULL
      BY <1>1, <2>1, <2>2, <2>3 DEF Follow, NextOf
    <2>6. HalveStep(s.next, w) = [slow |-> NextOf(s, w.slow), fast |-> NextOf(s, NextOf(s, w.fast))]
      BY <2>5 DEF HalveStep, NextOf
    <2>7. HalveStep(s.next, w) = [slow |-> At(c, 1 + (j + 1)), fast |-> At(c, 1 + 2 * (j + 1))]
      <3>1. NextOf(s, w.slow) = At(c, 1 + (j + 1)) /\ NextOf(s, NextOf(s, w.fast)) = At(c, 1 + 2 * (j + 1))
        BY <2>1, <2>2, <2>3, <2>4
      <3> QED
        BY <2>6, <3>1
    <2>8. 2 * (j + 1) <= n
      BY <1>4
    <2> QED
      BY <1>4, <2>7, <2>8 DEF Halving, n
  <1>5. CASE ~ (2 * j + 2 <= n)
    <2>1. HalveStep(s.next, w) = w
      <3>1. CASE k \in 1 .. n
        <4>1. w.fast = c[k] /\ NextOf(s, c[k]) = At(c, k + 1) /\ ~ (k + 1 \in 1 .. n) /\ c[k] \in Item
          BY <1>1, <1>2, <1>3, <1>5, <3>1 DEF At, n
        <4> HIDE DEF k
        <4>2. Follow(s.next, w.fast) = NULL
          BY <4>1 DEF At, n, Follow, NextOf
        <4> QED
          BY <4>2 DEF HalveStep
      <3>2. CASE ~ (k \in 1 .. n)
        <4>1. w.fast = NULL
          BY <1>3, <3>2 DEF At, n
        <4> QED
          BY <4>1 DEF HalveStep
      <3> QED
        BY <3>1, <3>2
    <2> QED
      BY <1>5, <2>1 DEF n
  <1> QED
    BY <1>4, <1>5

LEMMA HalveMeets ==
  ASSUME NEW p, NEW c, ChainOf(p.mem, c, p.head, p.tail), Len(c) >= 2
  PROVE  \E j \in 1 .. Len(c) - 1 :
           LET slow == c[j + 1]
               ta == p.mem.prev[slow]
           IN Halve(p) = [mem |-> [p.mem EXCEPT !.next[ta] = NULL, !.prev[slow] = NULL], ta |-> ta, hb |-> slow]
  <1> DEFINE N == Cardinality(Item)
             n == Len(c)
             s == p.mem
  <1>1. c \in Seq(Item) /\ n \in Nat /\ n >= 2 /\ N \in Nat /\ n <= N
    BY DistinctBound, CardinalityNat DEF ChainOf
  <1>2. PICK w : /\ w[0] = [slow |-> p.head, fast |-> p.head]
                 /\ \A i \in 0 .. N - 1 : w[i + 1] = HalveStep(s.next, w[i])
                 /\ LET slow == w[N].slow
                        ta == p.mem.prev[slow]
                    IN Halve(p) = [mem |-> [p.mem EXCEPT !.next[ta] = NULL, !.prev[slow] = NULL], ta |-> ta, hb |-> slow]
    BY HalveRuns
  <1>3. p.head = At(c, 1)
    BY DEF ChainOf, Chained
  <1> HIDE DEF n, N
  <1> DEFINE P(k) == \E j \in Nat : Halving(w[k], c, j) /\ (j = k \/ 2 * j + 2 > n)
             T == {k \in Nat : k <= N => P(k)}
  <1>4. 0 \in T
    <2>1. 1 + 0 = 1 /\ 1 + 2 * 0 = 1 /\ 2 * 0 <= n /\ 0 \in Nat
      BY <1>1
    <2>2. Halving(w[0], c, 0)
      BY <1>2, <1>3, <2>1 DEF Halving, n
    <2> QED
      BY <2>1, <2>2
  <1>5. \A k \in Nat : k \in T => k + 1 \in T
    <2> SUFFICES ASSUME NEW k \in Nat, k <= N => P(k), k + 1 <= N PROVE P(k + 1)
      <3> HIDE DEF P
      <3> QED
        OBVIOUS
    <2>1. k \in 0 .. N - 1 /\ k <= N
      BY <1>1
    <2>2. PICK j \in Nat : Halving(w[k], c, j) /\ (j = k \/ 2 * j + 2 > n)
      BY <2>1
    <2>3. w[k + 1] = HalveStep(s.next, w[k])
      BY <1>2, <2>1
    <2>4. IF 2 * j + 2 <= Len(c) THEN Halving(w[k + 1], c, j + 1) ELSE w[k + 1] = w[k]
      BY <2>2, <2>3, HalveRound
    <2>5. CASE 2 * j + 2 <= n
      <3>1. Halving(w[k + 1], c, j + 1)
        BY <2>4, <2>5 DEF n
      <3>2. j = k /\ j + 1 = k + 1 /\ j + 1 \in Nat
        BY <1>1, <2>2, <2>5
      <3> QED
        BY <3>1, <3>2
    <2>6. CASE ~ (2 * j + 2 <= n)
      <3>1. Halving(w[k + 1], c, j)
        BY <2>2, <2>4, <2>6 DEF n
      <3>2. 2 * j + 2 > n
        BY <1>1, <2>6
      <3> QED
        BY <3>1, <3>2
    <2> QED
      BY <2>5, <2>6
  <1> HIDE DEF T
  <1>6. \A k \in Nat : k \in T
    BY <1>4, <1>5, Induction
  <1>7. PICK j \in Nat : Halving(w[N], c, j) /\ (j = N \/ 2 * j + 2 > n)
    <2>1. N <= N
      BY <1>1
    <2>2. P(N)
      <3> HIDE DEF P
      <3> QED
        BY <1>1, <1>6, <2>1 DEF T
    <2> QED
      BY <2>2
  <1>8. j \in 1 .. n - 1 /\ 1 + j \in 1 .. n /\ 1 + j = j + 1
    <2>1. 2 * j <= n
      BY <1>7 DEF Halving, n
    <2> QED
      BY <1>1, <1>7, <2>1
  <1>9. w[N].slow = c[j + 1]
    <2>1. w[N].slow = At(c, 1 + j)
      BY <1>7 DEF Halving
    <2> QED
      BY <1>8, <2>1 DEF At, n
  <1> QED
    BY <1>2, <1>8, <1>9 DEF n

(* y is the nodes f + 1 .. l of c, a chain of r. *)
IsPart(r, c, f, l, y) == ChainOf(r, y, c[f + 1], c[l]) /\ Len(y) = l - f /\ Nodes(y) = Block(c, f, l)

(* The nodes f + 1 .. l of a chain, when its ends are NULL, are a chain.   *)
LEMMA PartOfChain ==
  ASSUME NEW c \in Seq(Item), Distinct(c), NEW f \in 0 .. Len(c), NEW l \in f + 1 .. Len(c), NEW r, r \in Mem,
         \A i \in f + 1 .. l : NextOf(r, c[i]) = IF i = l THEN NULL ELSE c[i + 1],
         \A i \in f + 1 .. l : PrevOf(r, c[i]) = IF i = f + 1 THEN NULL ELSE c[i - 1]
  PROVE  IsPart(r, c, f, l, SubSeq(c, f + 1, l))
  <1> DEFINE y == SubSeq(c, f + 1, l)
             k == l - f
  <1>1. Len(c) \in Nat /\ f \in Nat /\ l \in Nat /\ k \in Nat /\ k >= 1 /\ l \in f .. Len(c) /\ f + k = l /\ l <= Len(c)
    OBVIOUS
  <1>2. y \in Seq(Item) /\ Len(y) = k /\ \A i \in 1 .. k : y[i] = c[f + i]
    BY <1>1, PartItems
  <1> HIDE DEF y, k
  <1>3. \A i \in 1 .. k : f + i \in f + 1 .. l /\ f + i \in 1 .. Len(c) /\ (i = k <=> f + i = l) /\ (i = 1 <=> f + i = f + 1)
    BY <1>1
  <1>4. Distinct(y)
    <2> SUFFICES ASSUME NEW a \in 1 .. k, NEW b \in 1 .. k, y[a] = y[b] PROVE a = b
      BY <1>2 DEF Distinct
    <2>1. c[f + a] = c[f + b] /\ f + a \in 1 .. Len(c) /\ f + b \in 1 .. Len(c)
      BY <1>2, <1>3
    <2> DEFINE i == f + a
               j == f + b
    <2> HIDE DEF i, j
    <2>2. i = j
      BY <2>1 DEF Distinct, i, j
    <2> QED
      BY <1>1, <2>2 DEF i, j
  <1>5. Nodes(y) = Block(c, f, l)
    <2>1. ASSUME NEW x \in Nodes(y) PROVE x \in Block(c, f, l)
      <3>1. PICK i \in 1 .. k : x = y[i]
        BY <1>2, <2>1 DEF Nodes
      <3>2. x = c[f + i] /\ f + i \in f + 1 .. l
        BY <1>2, <1>3, <3>1
      <3> QED
        BY <3>2 DEF Block
    <2>2. ASSUME NEW i \in f + 1 .. l PROVE c[i] \in Nodes(y)
      <3> DEFINE a == i - f
      <3>1. a \in 1 .. k /\ f + a = i
        BY <1>1
      <3> HIDE DEF a
      <3>2. y[a] = c[i]
        BY <1>2, <3>1
      <3> QED
        BY <1>2, <3>1, <3>2 DEF Nodes
    <2> QED
      BY <2>1, <2>2 DEF Block
  <1>6. ASSUME NEW i \in 1 .. k PROVE NextOf(r, y[i]) = At(y, i + 1) /\ PrevOf(r, y[i]) = At(y, i - 1)
    <2>1. y[i] = c[f + i]
      BY <1>2
    <2>2. NextOf(r, c[f + i]) = At(y, i + 1)
      <3>1. CASE i = k
        <4>1. ~ (i + 1 \in 1 .. k)
          BY <1>1, <3>1
        <4> QED
          BY <1>2, <1>3, <3>1, <4>1 DEF At
      <3>2. CASE i # k
        <4>1. i + 1 \in 1 .. k /\ f + (i + 1) = (f + i) + 1
          BY <1>1, <3>2
        <4>2. At(y, i + 1) = c[f + (i + 1)]
          BY <1>2, <4>1 DEF At
        <4> QED
          BY <1>3, <3>2, <4>1, <4>2
      <3> QED
        BY <3>1, <3>2
    <2>3. PrevOf(r, c[f + i]) = At(y, i - 1)
      <3>1. CASE i = 1
        <4>1. ~ (i - 1 \in 1 .. k)
          BY <1>1, <3>1
        <4> QED
          BY <1>2, <1>3, <3>1, <4>1 DEF At
      <3>2. CASE i # 1
        <4>1. i - 1 \in 1 .. k /\ f + (i - 1) = (f + i) - 1
          BY <1>1, <3>2
        <4>2. At(y, i - 1) = c[f + (i - 1)]
          BY <1>2, <4>1 DEF At
        <4> QED
          BY <1>3, <3>2, <4>1, <4>2
      <3> QED
        BY <3>1, <3>2
    <2> QED
      BY <2>1, <2>2, <2>3
  <1>7. c[f + 1] = At(y, 1) /\ c[l] = At(y, Len(y))
    <2>1. 1 \in 1 .. k /\ k \in 1 .. k
      BY <1>1
    <2> QED
      BY <1>1, <1>2, <2>1 DEF At
  <1>8. ChainOf(r, y, c[f + 1], c[l])
    BY <1>2, <1>4, <1>6, <1>7 DEF ChainOf, Chained
  <1> QED
    BY <1>2, <1>5, <1>8 DEF y, k, IsPart

LEMMA WriteCut ==
  ASSUME NEW s, s \in Mem, NEW a \in Item, NEW b \in Item
  PROVE  LET r == [s EXCEPT !.next[a] = NULL, !.prev[b] = NULL]
         IN /\ r \in Mem /\ SameEnds(s, r)
            /\ \A n \in Item : NextOf(r, n) = IF n = a THEN NULL ELSE NextOf(s, n)
            /\ \A n \in Item : PrevOf(r, n) = IF n = b THEN NULL ELSE PrevOf(s, n)
  BY DEF Mem, Link, SameEnds, NextOf, PrevOf, HeadOf, TailOf, SizeOf

(* s with the nodes of S relinked. *)
Relinked(s, r, S) ==
  /\ r \in Mem /\ SameEnds(s, r)
  /\ \A n \in Item \ S : NextOf(r, n) = NextOf(s, n) /\ PrevOf(r, n) = PrevOf(s, n)

Halved(p, c, A, B, r) ==
  /\ r = [mem |-> r.mem, ta |-> r.ta, hb |-> r.hb]
  /\ Relinked(p.mem, r.mem, Nodes(c))
  /\ ChainOf(r.mem, A, p.head, r.ta) /\ ChainOf(r.mem, B, r.hb, p.tail)
  /\ Nodes(A) \cap Nodes(B) = {} /\ Nodes(A) \cup Nodes(B) = Nodes(c)
  /\ Len(A) \in 1 .. Len(c) - 1 /\ Len(B) = Len(c) - Len(A)

(* halve makes two chains of one. *)
LEMMA HalveGood ==
  ASSUME NEW p, NEW c, ChainOf(p.mem, c, p.head, p.tail), Len(c) >= 2
  PROVE  \E A, B : Halved(p, c, A, B, Halve(p))
  <1>1. PICK j \in 1 .. Len(c) - 1 :
           LET slow == c[j + 1]
               ta == p.mem.prev[slow]
           IN Halve(p) = [mem |-> [p.mem EXCEPT !.next[ta] = NULL, !.prev[slow] = NULL], ta |-> ta, hb |-> slow]
    BY HalveMeets
  <1> DEFINE n == Len(c)
             s == p.mem
             r == Halve(p)
             A == SubSeq(c, 0 + 1, j)
             B == SubSeq(c, j + 1, n)
  <1>2. /\ c \in Seq(Item) /\ n \in Nat /\ s \in Mem /\ Distinct(c) /\ p.head = At(c, 1) /\ p.tail = At(c, n)
        /\ \A i \in 1 .. n : c[i] \in Item /\ NextOf(s, c[i]) = At(c, i + 1) /\ PrevOf(s, c[i]) = At(c, i - 1)
    BY DEF ChainOf, Chained
  <1>3. j \in 1 .. n /\ j + 1 \in 1 .. n /\ (j + 1) - 1 = j /\ 1 \in 1 .. n /\ n \in 1 .. n /\ j \in Nat /\ j < n
    BY <1>2
  <1>4. s.prev[c[j + 1]] = c[j] /\ c[j] \in Item /\ c[j + 1] \in Item
    <2>1. PrevOf(s, c[j + 1]) = At(c, j)
      BY <1>2, <1>3
    <2> QED
      BY <1>2, <1>3, <2>1 DEF PrevOf, At
  <1> DEFINE v == [s EXCEPT !.next[c[j]] = NULL, !.prev[c[j + 1]] = NULL]
  <1>5. r = [mem |-> v, ta |-> c[j], hb |-> c[j + 1]]
    BY <1>1, <1>4
  <1>6. /\ v \in Mem /\ SameEnds(s, v)
        /\ \A x \in Item : NextOf(v, x) = IF x = c[j] THEN NULL ELSE NextOf(s, x)
        /\ \A x \in Item : PrevOf(v, x) = IF x = c[j + 1] THEN NULL ELSE PrevOf(s, x)
    <2>1. s \in Mem
      BY <1>2
    <2> HIDE DEF s
    <2> QED
      BY <1>4, <2>1, WriteCut
  <1> HIDE DEF v, s, n
  <1>7. ASSUME NEW i \in 1 .. n
        PROVE  /\ NextOf(v, c[i]) = IF i = j THEN NULL ELSE At(c, i + 1)
               /\ PrevOf(v, c[i]) = IF i = j + 1 THEN NULL ELSE At(c, i - 1)
    <2>1. (c[i] = c[j] <=> i = j) /\ (c[i] = c[j + 1] <=> i = j + 1)
      BY <1>2, <1>3 DEF Distinct, n
    <2> QED
      BY <1>2, <1>6, <2>1
  <1>8. ChainOf(v, A, c[0 + 1], c[j]) /\ Len(A) = j - 0 /\ Nodes(A) = Block(c, 0, j)
    <2>1. \A i \in 0 + 1 .. j : NextOf(v, c[i]) = IF i = j THEN NULL ELSE c[i + 1]
      <3> SUFFICES ASSUME NEW i \in 0 + 1 .. j PROVE NextOf(v, c[i]) = IF i = j THEN NULL ELSE c[i + 1]
        OBVIOUS
      <3>1. i \in 1 .. n /\ i + 1 \in 1 .. n
        BY <1>3
      <3> QED
        BY <1>7, <3>1 DEF At, n
    <2>2. \A i \in 0 + 1 .. j : PrevOf(v, c[i]) = IF i = 0 + 1 THEN NULL ELSE c[i - 1]
      <3> SUFFICES ASSUME NEW i \in 0 + 1 .. j PROVE PrevOf(v, c[i]) = IF i = 0 + 1 THEN NULL ELSE c[i - 1]
        OBVIOUS
      <3>1. i \in 1 .. n /\ i # j + 1 /\ (i # 0 + 1 => i - 1 \in 1 .. n) /\ (i = 0 + 1 => ~ (i - 1 \in 1 .. n))
        BY <1>3
      <3> QED
        BY <1>7, <3>1 DEF At, n
    <2>3. 0 \in 0 .. Len(c) /\ j \in 0 + 1 .. Len(c)
      BY <1>2, <1>3 DEF n
    <2>4. IsPart(v, c, 0, j, SubSeq(c, 0 + 1, j))
      BY <1>2, <1>6, <2>1, <2>2, <2>3, PartOfChain
    <2> QED
      BY <2>4 DEF IsPart
  <1>9. ChainOf(v, B, c[j + 1], c[n]) /\ Len(B) = n - j /\ Nodes(B) = Block(c, j, n)
    <2>1. \A i \in j + 1 .. n : NextOf(v, c[i]) = IF i = n THEN NULL ELSE c[i + 1]
      <3> SUFFICES ASSUME NEW i \in j + 1 .. n PROVE NextOf(v, c[i]) = IF i = n THEN NULL ELSE c[i + 1]
        OBVIOUS
      <3>1. i \in 1 .. n /\ i # j /\ (i # n => i + 1 \in 1 .. n) /\ (i = n => ~ (i + 1 \in 1 .. n))
        BY <1>2, <1>3
      <3> QED
        BY <1>7, <3>1 DEF At, n
    <2>2. \A i \in j + 1 .. n : PrevOf(v, c[i]) = IF i = j + 1 THEN NULL ELSE c[i - 1]
      <3> SUFFICES ASSUME NEW i \in j + 1 .. n PROVE PrevOf(v, c[i]) = IF i = j + 1 THEN NULL ELSE c[i - 1]
        OBVIOUS
      <3>1. i \in 1 .. n /\ i - 1 \in 1 .. n
        BY <1>2, <1>3
      <3> QED
        BY <1>7, <3>1 DEF At, n
    <2>3. j \in 0 .. Len(c) /\ n \in j + 1 .. Len(c)
      BY <1>2, <1>3 DEF n
    <2> HIDE DEF B
    <2>4. PICK l \in j + 1 .. Len(c) : l = n
      BY <2>3
    <2>5. /\ \A i \in j + 1 .. l : NextOf(v, c[i]) = IF i = l THEN NULL ELSE c[i + 1]
          /\ \A i \in j + 1 .. l : PrevOf(v, c[i]) = IF i = j + 1 THEN NULL ELSE c[i - 1]
      BY <2>1, <2>2, <2>4
    <2>6. IsPart(v, c, j, l, SubSeq(c, j + 1, l))
      BY <1>2, <1>6, <2>3, <2>5, PartOfChain
    <2>7. B = SubSeq(c, j + 1, l)
      BY <2>4 DEF B
    <2> QED
      BY <2>4, <2>6, <2>7 DEF IsPart
  <1>10. Block(c, 0, j) \cap Block(c, j, n) = {}
    <2> SUFFICES ASSUME NEW a \in 0 + 1 .. j, NEW b \in j + 1 .. n, c[a] = c[b] PROVE FALSE
      BY DEF Block
    <2>1. n \in Nat /\ j \in Nat /\ j < n
      BY <1>2, <1>3
    <2>2. a \in 1 .. n /\ b \in 1 .. n /\ a # b
      BY <2>1
    <2> QED
      BY <1>2, <2>2 DEF Distinct, n
  <1>11. Block(c, 0, j) \cup Block(c, j, n) = Nodes(c)
    <2>1. \A a \in 0 + 1 .. j : a \in 1 .. n
      BY <1>2, <1>3
    <2>2. \A a \in j + 1 .. n : a \in 1 .. n
      BY <1>2, <1>3
    <2>3. \A a \in 1 .. n : a \in 0 + 1 .. j \/ a \in j + 1 .. n
      BY <1>2, <1>3
    <2> QED
      BY <2>1, <2>2, <2>3 DEF Block, Nodes, n
  <1>12. p.head = c[0 + 1] /\ p.tail = c[n]
    BY <1>2, <1>3 DEF At, n
  <1>13. \A x \in Item \ Nodes(c) : NextOf(v, x) = NextOf(s, x) /\ PrevOf(v, x) = PrevOf(s, x)
    <2>1. c[j] \in Nodes(c) /\ c[j + 1] \in Nodes(c)
      BY <1>3 DEF Nodes, n
    <2> QED
      BY <1>6, <2>1
  <1>14. Len(A) \in 1 .. n - 1 /\ Len(B) = n - Len(A)
    <2>1. Len(A) = j /\ Len(B) = n - j
      BY <1>3, <1>8, <1>9
    <2> HIDE DEF A, B
    <2> QED
      BY <1>2, <1>3, <2>1
  <1> HIDE DEF r, A, B
  <1>15. r.mem = v /\ r.ta = c[j] /\ r.hb = c[j + 1] /\ r = [mem |-> r.mem, ta |-> r.ta, hb |-> r.hb]
    BY <1>5
  <1>16. Halved(p, c, A, B, r)
    BY <1>6, <1>8, <1>9, <1>10, <1>11, <1>12, <1>13, <1>14, <1>15 DEF Halved, Relinked, s, n
  <1> QED
    BY <1>16 DEF r

LEMMA ChainKept ==
  ASSUME NEW s, NEW c, NEW h, NEW t, ChainOf(s, c, h, t), NEW S, NEW r, Relinked(s, r, S), Nodes(c) \cap S = {}
  PROVE  ChainOf(r, c, h, t)
  <1>1. c \in Seq(Item) /\ \A i \in 1 .. Len(c) : c[i] \in Item /\ c[i] \in Nodes(c)
    BY DEF ChainOf, Nodes
  <1>2. \A i \in 1 .. Len(c) : NextOf(r, c[i]) = NextOf(s, c[i]) /\ PrevOf(r, c[i]) = PrevOf(s, c[i])
    BY <1>1 DEF Relinked
  <1> QED
    BY <1>2 DEF ChainOf, Chained, Relinked

LEMMA RelinkedTwice ==
  ASSUME NEW s, NEW r, NEW S, NEW T, NEW q, Relinked(s, r, S), Relinked(r, q, T), S \subseteq T
  PROVE  Relinked(s, q, T)
  BY DEF Relinked, SameEnds

LEMMA RelinkedMore ==
  ASSUME NEW s, NEW r, NEW S, NEW T, Relinked(s, r, S), S \subseteq T
  PROVE  Relinked(s, r, T)
  BY DEF Relinked

LEMMA PieceIs ==
  ASSUME NEW s, NEW c, NEW h, NEW t, ChainOf(s, c, h, t)
  PROVE  [mem |-> s, head |-> h, tail |-> t] \in Piece
  <1>1. s \in Mem /\ c \in Seq(Item) /\ h = At(c, 1) /\ t = At(c, Len(c)) /\ 1 \in Int
    BY DEF ChainOf, Chained
  <1>2. \A i \in Int : At(c, i) \in Place
    BY <1>1, AtTypes
  <1>3. Len(c) \in Int
    BY <1>1
  <1>4. h \in Link /\ t \in Link
    BY <1>1, <1>2, <1>3 DEF Place, Link
  <1> QED
    BY <1>1, <1>4 DEF Piece

(* q is p with its chain c sorted. *)
Sorts(p, c, q) ==
  /\ q = [mem |-> q.mem, head |-> q.head, tail |-> q.tail]
  /\ Relinked(p.mem, q.mem, Nodes(c))
  /\ \E e : ChainOf(q.mem, e, q.head, q.tail) /\ Nodes(e) = Nodes(c) /\ Len(e) = Len(c) /\ InOrder(e)

SortsTo(f, k) ==
  \A p \in Piece : \A c : ChainOf(p.mem, c, p.head, p.tail) /\ Len(c) <= k + 1 => Sorts(p, c, f[p])

LEMMA ShortIsSorted ==
  ASSUME NEW p \in Piece, NEW c, ChainOf(p.mem, c, p.head, p.tail), Len(c) <= 1
  PROVE  Sorts(p, c, p)
  <1>1. c \in Seq(Item) /\ Len(c) \in Nat
    BY DEF ChainOf
  <1>2. InOrder(c)
    <2> SUFFICES ASSUME NEW i \in 1 .. Len(c), NEW j \in 1 .. Len(c), i < j PROVE FALSE
      BY <1>1 DEF InOrder
    <2> QED
      BY <1>1
  <1>3. p = [mem |-> p.mem, head |-> p.head, tail |-> p.tail]
    BY DEF Piece
  <1>4. Relinked(p.mem, p.mem, Nodes(c))
    BY DEF Relinked, SameEnds, ChainOf
  <1> QED
    BY <1>2, <1>3, <1>4 DEF Sorts

(* merge_sort of a piece, given that its recursive calls sort.             *)
LEMMA SortPiece ==
  ASSUME NEW f, NEW k \in Nat, SortsTo(f, k), NEW p \in Piece, NEW c, ChainOf(p.mem, c, p.head, p.tail),
         Len(c) >= 2, Len(c) <= (k + 1) + 1, NEW cut, cut = Halve(p),
         NEW a, a = f[[mem |-> cut.mem, head |-> p.head, tail |-> cut.ta]],
         NEW b, b = f[[mem |-> a.mem, head |-> cut.hb, tail |-> p.tail]]
  PROVE  Sorts(p, c, Cmerge(b.mem, a.head, a.tail, b.head, b.tail))
  <1> DEFINE s == p.mem
             r == Cmerge(b.mem, a.head, a.tail, b.head, b.tail)
             pa == [mem |-> cut.mem, head |-> p.head, tail |-> cut.ta]
             pb == [mem |-> a.mem, head |-> cut.hb, tail |-> p.tail]
  <1>1. PICK A, B : Halved(p, c, A, B, cut)
    BY HalveGood
  <1>2. /\ Relinked(s, cut.mem, Nodes(c))
        /\ ChainOf(cut.mem, A, p.head, cut.ta) /\ ChainOf(cut.mem, B, cut.hb, p.tail)
        /\ Nodes(A) \cap Nodes(B) = {} /\ Nodes(A) \cup Nodes(B) = Nodes(c)
        /\ Len(A) \in 1 .. Len(c) - 1 /\ Len(B) = Len(c) - Len(A)
    BY <1>1 DEF Halved
  <1>3. Len(c) \in Nat /\ Len(A) \in Nat /\ Len(B) \in Nat /\ Len(A) <= k + 1 /\ Len(B) <= k + 1 /\ Len(c) = Len(A) + Len(B)
    <2>1. Len(c) \in Nat
      BY DEF ChainOf
    <2> QED
      BY <1>2, <2>1
  <1>4. pa.mem = cut.mem /\ pa.head = p.head /\ pa.tail = cut.ta /\ pb.mem = a.mem /\ pb.head = cut.hb /\ pb.tail = p.tail
    OBVIOUS
  <1>5. Sorts(pa, A, a)
    <2>1. pa \in Piece
      BY <1>2, PieceIs
    <2>2. a = f[pa]
      OBVIOUS
    <2> HIDE DEF pa
    <2> QED
      BY <1>2, <1>3, <1>4, <2>1, <2>2 DEF SortsTo
  <1>6. PICK X : ChainOf(a.mem, X, a.head, a.tail) /\ Nodes(X) = Nodes(A) /\ Len(X) = Len(A) /\ InOrder(X)
    BY <1>5 DEF Sorts
  <1>7. Relinked(cut.mem, a.mem, Nodes(A))
    BY <1>4, <1>5 DEF Sorts
  <1>8. ChainOf(a.mem, B, cut.hb, p.tail)
    BY <1>2, <1>7, ChainKept
  <1>9. Sorts(pb, B, b)
    <2>1. pb \in Piece
      BY <1>8, PieceIs
    <2>2. b = f[pb]
      OBVIOUS
    <2> HIDE DEF pb
    <2> QED
      BY <1>3, <1>4, <1>8, <2>1, <2>2 DEF SortsTo
  <1>10. PICK Y : ChainOf(b.mem, Y, b.head, b.tail) /\ Nodes(Y) = Nodes(B) /\ Len(Y) = Len(B) /\ InOrder(Y)
    BY <1>9 DEF Sorts
  <1>11. Relinked(a.mem, b.mem, Nodes(B))
    BY <1>4, <1>9 DEF Sorts
  <1>12. ChainOf(b.mem, X, a.head, a.tail)
    BY <1>2, <1>6, <1>11, ChainKept
  <1>13. Chains(b.mem, X, Y)
    BY <1>2, <1>6, <1>10, <1>12 DEF Chains, ChainOf, Chained
  <1>14. MergedPiece(b.mem, r, X, Y)
    <2>1. a.head = At(X, 1) /\ a.tail = At(X, Len(X)) /\ b.head = At(Y, 1) /\ b.tail = At(Y, Len(Y))
      BY <1>10, <1>12 DEF ChainOf, Chained
    <2> QED
      BY <1>13, <2>1, CmergeGood
  <1> HIDE DEF r, s
  <1>15. PICK e : Merged(b.mem, r.mem, X, Y, e, r.head, r.tail)
    BY <1>14 DEF MergedPiece
  <1>16. /\ ChainOf(r.mem, e, r.head, r.tail) /\ InOrder(e)
         /\ Nodes(e) = Nodes(X) \cup Nodes(Y) /\ Len(e) = Len(X) + Len(Y)
         /\ Relinked(b.mem, r.mem, Nodes(X) \cup Nodes(Y))
    BY <1>15 DEF Merged, MergedItems, ChainOf, Relinked
  <1>17. Relinked(s, r.mem, Nodes(c))
    <2>1. Relinked(cut.mem, a.mem, Nodes(c)) /\ Relinked(a.mem, b.mem, Nodes(c))
      BY <1>2, <1>7, <1>11, RelinkedMore
    <2>2. Relinked(b.mem, r.mem, Nodes(c))
      BY <1>2, <1>6, <1>10, <1>16
    <2>3. Relinked(s, a.mem, Nodes(c))
      BY <1>2, <2>1, RelinkedTwice
    <2>4. Relinked(s, b.mem, Nodes(c))
      BY <2>1, <2>3, RelinkedTwice
    <2> QED
      BY <2>2, <2>4, RelinkedTwice
  <1>18. Nodes(e) = Nodes(c) /\ Len(e) = Len(c)
    BY <1>2, <1>3, <1>6, <1>10, <1>16
  <1>19. r = [mem |-> r.mem, head |-> r.head, tail |-> r.tail]
    BY <1>14 DEF MergedPiece
  <1>20. Sorts(p, c, r)
    BY <1>16, <1>17, <1>18, <1>19 DEF Sorts, s
  <1> QED
    BY <1>20 DEF r

LEMMA SortStepIs ==
  ASSUME NEW f, NEW p \in Piece
  PROVE  SortStep(f)[p] =
           IF p.head = NULL \/ Follow(p.mem.next, p.head) = NULL THEN p
           ELSE LET cut == Halve(p)
                    a == f[[mem |-> cut.mem, head |-> p.head, tail |-> cut.ta]]
                    b == f[[mem |-> a.mem, head |-> cut.hb, tail |-> p.tail]]
                IN Cmerge(b.mem, a.head, a.tail, b.head, b.tail)
  BY DEF SortStep

LEMMA SortStepSorts ==
  ASSUME NEW f, NEW k \in Nat, SortsTo(f, k)
  PROVE  SortsTo(SortStep(f), k + 1)
  <1> SUFFICES ASSUME NEW p \in Piece, NEW c, ChainOf(p.mem, c, p.head, p.tail), Len(c) <= (k + 1) + 1
               PROVE  Sorts(p, c, SortStep(f)[p])
    BY DEF SortsTo
  <1> DEFINE s == p.mem
  <1>1. /\ c \in Seq(Item) /\ Len(c) \in Nat /\ p.head = At(c, 1)
        /\ \A i \in 1 .. Len(c) : NextOf(s, c[i]) = At(c, i + 1) /\ c[i] \in Item /\ c[i] # NULL
    BY NodesAssumption DEF ChainOf, Chained
  <1> HIDE DEF s
  <1>2. CASE Len(c) <= 1
    <2>1. p.head = NULL \/ Follow(s.next, p.head) = NULL
      <3>1. CASE Len(c) = 0
        <4>1. ~ (1 \in 1 .. Len(c))
          BY <3>1
        <4> QED
          BY <1>1, <4>1 DEF At
      <3>2. CASE Len(c) # 0
        <4>1. 1 \in 1 .. Len(c) /\ ~ (2 \in 1 .. Len(c)) /\ 1 + 1 = 2
          BY <1>1, <1>2, <3>2
        <4>2. p.head = c[1] /\ NextOf(s, c[1]) = NULL
          BY <1>1, <4>1 DEF At
        <4> QED
          BY <1>1, <4>1, <4>2 DEF Follow, NextOf
      <3> QED
        BY <3>1, <3>2
    <2>2. SortStep(f)[p] = p
      BY <2>1, SortStepIs DEF s
    <2> QED
      BY <1>2, <2>2, ShortIsSorted
  <1>3. CASE ~ (Len(c) <= 1)
    <2>1. 1 \in 1 .. Len(c) /\ 2 \in 1 .. Len(c) /\ 1 + 1 = 2 /\ Len(c) >= 2
      BY <1>1, <1>3
    <2>2. p.head = c[1] /\ NextOf(s, c[1]) = c[2] /\ c[1] \in Item /\ c[1] # NULL /\ c[2] # NULL
      BY <1>1, <2>1 DEF At
    <2>3. ~ (p.head = NULL \/ Follow(p.mem.next, p.head) = NULL)
      BY <2>2 DEF Follow, NextOf, s
    <2> DEFINE cut == Halve(p)
               a == f[[mem |-> cut.mem, head |-> p.head, tail |-> cut.ta]]
               b == f[[mem |-> a.mem, head |-> cut.hb, tail |-> p.tail]]
    <2>4. SortStep(f)[p] = Cmerge(b.mem, a.head, a.tail, b.head, b.tail)
      BY <2>3, SortStepIs
    <2>5. Sorts(p, c, Cmerge(b.mem, a.head, a.tail, b.head, b.tail))
      <3>1. cut = Halve(p)
        OBVIOUS
      <3> HIDE DEF cut
      <3>2. a = f[[mem |-> cut.mem, head |-> p.head, tail |-> cut.ta]]
        OBVIOUS
      <3> HIDE DEF a
      <3>3. b = f[[mem |-> a.mem, head |-> cut.hb, tail |-> p.tail]]
        OBVIOUS
      <3> HIDE DEF b
      <3> QED
        BY <2>1, <3>1, <3>2, <3>3, SortPiece
    <2> HIDE DEF a, b, cut
    <2> QED
      BY <2>4, <2>5
  <1> QED
    BY <1>2, <1>3

LEMMA MergeSortRuns ==
  ASSUME NEW p
  PROVE  \E w : /\ w[0] = [q \in Piece |-> q]
                /\ \A i \in 0 .. Cardinality(Item) - 1 : w[i + 1] = SortStep(w[i])
                /\ MergeSort(p) = w[Cardinality(Item)][p]
  <1> DEFINE N == Cardinality(Item)
             b == [q \in Piece |-> q]
             e == <<>>
             w == CHOOSE f : f = [i \in 0 .. N |-> IF i = 0 THEN b ELSE SortStep(f[i - 1])]
             v == CHOOSE f : f = [i \in 0 .. N |-> IF i = 0 THEN b ELSE Round("sort", f[i - 1], e)]
  <1>1. \A x : Round("sort", x, e) = SortStep(x)
    BY DEF Round
  <1>2. w = v
    BY <1>1, Zenon
  <1>3. Runs(v, N, b, "sort", e)
    <2>1. \E f : Rounds(f, N, b, "sort", e)
      BY CardinalityNat, RoundsExist
    <2>2. Rounds(v, N, b, "sort", e)
      BY <2>1, Zenon DEF Rounds
    <2> HIDE DEF v, b, e
    <2> QED
      BY <2>2, CardinalityNat, RoundsRun
  <1>4. MergeSort(p) = w[N][p]
    BY Zenon DEF MergeSort
  <1> HIDE DEF w, v, e
  <1> QED
    BY <1>1, <1>2, <1>3, <1>4 DEF Runs

LEMMA MergeSortSorts ==
  ASSUME NEW p \in Piece, NEW c, ChainOf(p.mem, c, p.head, p.tail)
  PROVE  Sorts(p, c, MergeSort(p))
  <1> DEFINE N == Cardinality(Item)
  <1>1. PICK w : /\ w[0] = [q \in Piece |-> q]
                 /\ \A i \in 0 .. N - 1 : w[i + 1] = SortStep(w[i])
                 /\ MergeSort(p) = w[N][p]
    BY MergeSortRuns
  <1>2. N \in Nat /\ Len(c) <= N + 1
    <2>1. Len(c) <= N /\ N \in Nat /\ Len(c) \in Nat
      BY DistinctBound, CardinalityNat DEF ChainOf
    <2> QED
      BY <2>1
  <1> HIDE DEF N
  <1> DEFINE T == {k \in Nat : k <= N => SortsTo(w[k], k)}
  <1>3. 0 \in T
    <2>1. SortsTo(w[0], 0)
      <3> SUFFICES ASSUME NEW q \in Piece, NEW d, ChainOf(q.mem, d, q.head, q.tail), Len(d) <= 0 + 1
                   PROVE  Sorts(q, d, w[0][q])
        BY DEF SortsTo
      <3>1. w[0][q] = q
        BY <1>1
      <3>2. Len(d) <= 1
        OBVIOUS
      <3> QED
        BY <3>1, <3>2, ShortIsSorted
    <2> QED
      BY <2>1
  <1>4. \A k \in Nat : k \in T => k + 1 \in T
    <2> SUFFICES ASSUME NEW k \in Nat, k \in T, k + 1 <= N PROVE SortsTo(w[k + 1], k + 1)
      OBVIOUS
    <2>1. k \in 0 .. N - 1 /\ k <= N
      BY <1>2
    <2>2. w[k + 1] = SortStep(w[k]) /\ SortsTo(w[k], k)
      BY <1>1, <2>1
    <2> HIDE DEF T
    <2> QED
      BY <2>2, SortStepSorts
  <1> HIDE DEF T
  <1>5. \A k \in Nat : k \in T
    BY <1>3, <1>4, Induction
  <1>6. SortsTo(w[N], N)
    <2>1. N <= N
      BY <1>2
    <2> QED
      BY <1>2, <1>5, <2>1 DEF T
  <1>7. Sorts(p, c, w[N][p])
    BY <1>2, <1>6 DEF SortsTo
  <1> QED
    BY <1>1, <1>7

(* e is the items of c in order.                                           *)
SortedItems(e, c) == InOrder(e) /\ Nodes(e) = Nodes(c) /\ Len(e) = Len(c)

LEMMA SortGood ==
  ASSUME NEW s, NEW C, Good(s, C), NEW d \in Handle
  PROVE  LET p == MergeSort([mem |-> s, head |-> s.head[d], tail |-> s.tail[d]])
         IN \E e : SortedItems(e, C[d]) /\ Good([p.mem EXCEPT !.head[d] = p.head, !.tail[d] = p.tail], [C EXCEPT ![d] = e])
  <1> DEFINE c == C[d]
             q == [mem |-> s, head |-> s.head[d], tail |-> s.tail[d]]
             p == MergeSort(q)
             v == p.mem
             r == [v EXCEPT !.head[d] = p.head, !.tail[d] = p.tail]
  <1>1. s \in Mem /\ c \in Seq(Item) /\ Distinct(c) /\ Len(c) \in Nat /\ SizeOf(s, d) = Len(c)
        /\ ChainOf(s, c, s.head[d], s.tail[d])
    BY GoodList DEF ListIs, ChainOf, HeadOf, TailOf
  <1>2. Sorts(q, c, p)
    <2>1. q \in Piece /\ q.mem = s /\ q.head = s.head[d] /\ q.tail = s.tail[d]
      BY <1>1, PieceIs
    <2> HIDE DEF q, c
    <2> QED
      BY <1>1, <2>1, MergeSortSorts
  <1> HIDE DEF p
  <1>3. PICK e : ChainOf(v, e, p.head, p.tail) /\ Nodes(e) = Nodes(c) /\ Len(e) = Len(c) /\ InOrder(e)
    BY <1>2 DEF Sorts
  <1>4. v \in Mem /\ SameEnds(s, v) /\ \A n \in Item \ Nodes(c) : NextOf(v, n) = NextOf(s, n) /\ PrevOf(v, n) = PrevOf(s, n)
    <2>1. Relinked(s, v, Nodes(c))
      <3>1. q.mem = s
        OBVIOUS
      <3> HIDE DEF q, v, c
      <3> QED
        BY <1>2, <3>1 DEF Sorts, v
    <2> QED
      BY <2>1 DEF Relinked
  <1> HIDE DEF v, c, q
  <1>5. e \in Seq(Item) /\ Distinct(e) /\ Chained(v, e, p.head, p.tail) /\ p.head = At(e, 1) /\ p.tail = At(e, Len(e))
    BY <1>3 DEF ChainOf, Chained
  <1>6. p.head \in Place /\ p.tail \in Place
    <2>1. \A i \in Int : At(e, i) \in Place
      BY <1>5, AtTypes
    <2>2. Len(e) \in Int /\ 1 \in Int
      BY <1>5
    <2> QED
      BY <1>5, <2>1, <2>2
  <1>7. EndsWritten(v, d, p.head, p.tail, SizeOf(v, d), r)
    BY <1>4, <1>6, WriteHeadTail
  <1> HIDE DEF r
  <1>8. Chained(r, e, HeadOf(r, d), TailOf(r, d))
    <2>1. \A i \in 1 .. Len(e) : e[i] \in Item
      BY <1>5
    <2> QED
      BY <1>5, <1>7, <2>1 DEF Chained, EndsWritten
  <1>9. Remade(s, r, d, c, {}, e, {})
    BY <1>3, <1>4, <1>5, <1>7, <1>8 DEF Remade, EndsWritten, SameEnds
  <1>10. Holds(r, [C EXCEPT ![d] = e], {})
    BY <1>9, HoldsAfter DEF Good, c
  <1>11. SizeOf(r, d) = Len(e) /\ \A f \in Handle \ {d} : SizeOf(r, f) = Len(C[f])
    BY <1>1, <1>3, <1>4, <1>7 DEF EndsWritten, SameEnds, Good, Sized
  <1>12. Sized(r, [C EXCEPT ![d] = e])
    BY <1>11, SizedAfter DEF Good
  <1>13. Good(r, [C EXCEPT ![d] = e]) /\ SortedItems(e, c)
    BY <1>3, <1>10, <1>12 DEF Good, SortedItems
  <1> QED
    BY <1>13 DEF r, v, p, q, c

-----------------------------------------------------------------------------
(* The inductive invariant: memory holds the lists Contents, and a list    *)
(* that is not constructed is empty.                                       *)
Inv ==
  /\ exists \subseteq Handle
  /\ ret \in {"OK", "BAD_ALLOC"}
  /\ Good(mem, Contents)
  /\ \A d \in Handle \ exists : Contents[d] = <<>>

LEMMA ContentsAre ==
  ASSUME NEW s, NEW C, Good(s, C)
  PROVE  [d \in Handle |-> Forward(s, d)] = C
  <1>1. C \in [Handle -> Seq(Item)]
    BY DEF Good, Holds
  <1>2. \A d \in Handle : Forward(s, d) = C[d]
    BY ForwardIs DEF Good
  <1> QED
    BY <1>1, <1>2

(* What a call finds in the invariant. *)
LEMMA InvList ==
  ASSUME Inv, NEW d \in Handle
  PROVE  /\ Contents \in [Handle -> Seq(Item)] /\ Contents[d] \in Seq(Item) /\ Len(Contents[d]) \in Nat
         /\ mem.size[d] = Len(Contents[d])
         /\ mem.head[d] = NULL <=> Len(Contents[d]) = 0
         /\ mem.tail[d] = NULL <=> Len(Contents[d]) = 0
         /\ mem.head[d] = At(Contents[d], 1) /\ mem.tail[d] = At(Contents[d], Len(Contents[d]))
         /\ Range(Contents[d]) = Nodes(Contents[d])
         /\ Forward(mem, d) = Contents[d]
  <1>1. Good(mem, Contents) /\ Contents \in [Handle -> Seq(Item)]
    BY DEF Inv, Good, Holds
  <1> HIDE DEF Contents
  <1>2. /\ ListIs(mem, d, Contents[d], {}) /\ Contents[d] \in Seq(Item) /\ Len(Contents[d]) \in Nat
        /\ SizeOf(mem, d) = Len(Contents[d])
    BY <1>1, GoodList
  <1>3. /\ HeadOf(mem, d) = NULL <=> Len(Contents[d]) = 0
        /\ TailOf(mem, d) = NULL <=> Len(Contents[d]) = 0
        /\ HeadOf(mem, d) = At(Contents[d], 1) /\ TailOf(mem, d) = At(Contents[d], Len(Contents[d]))
    BY <1>2, EndsOfList
  <1>4. Range(Contents[d]) = Nodes(Contents[d])
    BY <1>2, NodesAreItems
  <1>5. Forward(mem, d) = Contents[d]
    BY DEF Contents
  <1> QED
    BY <1>1, <1>2, <1>3, <1>4, <1>5 DEF HeadOf, TailOf, SizeOf

LEMMA StorableIs ==
  ASSUME Inv, NEW v, Storable(v)
  PROVE  \A e \in Handle : v \notin Nodes(Contents[e])
  BY InvList DEF Storable

LEMMA StepKeeps ==
  ASSUME Inv, NEW s, Becomes(s), NEW C, Good(s, C), \A d \in Handle \ exists : C[d] = <<>>
  PROVE  Inv' /\ Contents' = C /\ ret' = "OK" /\ exists' = exists
  <1>1. mem' = s /\ ret' = "OK" /\ exists' = exists
    BY DEF Becomes
  <1>2. Contents' = C
    <2>1. Contents' = [d \in Handle |-> Forward(s, d)]
      BY <1>1 DEF Contents
    <2> QED
      BY <2>1, ContentsAre
  <1>3. Good(mem', Contents')
    BY <1>1, <1>2
  <1> QED
    BY <1>1, <1>2, <1>3 DEF Inv

LEMMA UpdateKeeps ==
  ASSUME Inv, NEW d \in Handle, d \in exists, NEW s, Becomes(s),
         NEW c, Good(s, [Contents EXCEPT ![d] = c])
  PROVE  Inv' /\ Promise!Becomes(d, c)
  <1>1. \A e \in Handle \ exists : [Contents EXCEPT ![d] = c][e] = <<>>
    <2>1. \A e \in Handle \ exists : e # d /\ Contents[e] = <<>>
      BY DEF Inv
    <2>2. Contents = [e \in Handle |-> Contents[e]]
      BY DEF Contents
    <2> HIDE DEF Contents
    <2> QED
      BY <2>1, <2>2
  <1>2. Inv' /\ Contents' = [Contents EXCEPT ![d] = c] /\ ret' = "OK" /\ exists' = exists
    BY <1>1, StepKeeps
  <1> QED
    BY <1>2 DEF Promise!Becomes

LEMMA RefusedKeeps ==
  ASSUME Inv, OutOfMemory
  PROVE  Inv' /\ Promise!OutOfMemory
  <1>1. ret' = "BAD_ALLOC" /\ exists' = exists /\ mem' = mem
    BY DEF OutOfMemory
  <1>2. Contents' = Contents
    BY <1>1 DEF Contents
  <1>3. Good(mem', Contents')
    BY <1>1, <1>2 DEF Inv
  <1> QED
    BY <1>1, <1>2, <1>3 DEF Inv, Promise!OutOfMemory

LEMMA SameOperators ==
  ASSUME NEW s
  PROVE  Promise!Range(s) = Range(s) /\ (Promise!InOrder(s) <=> InOrder(s))
  BY DEF Promise!Range, Range, Promise!InOrder, InOrder

(* Which call is meant. *)
LEMMA SequenceAnswersAre ==
  ASSUME NEW a, NEW b, NEW c
  PROVE  /\ Promise!Ctor(a) <=> Promise!ListAnswers(<<"ctor", a>>)
         /\ Promise!Dtor(a) <=> Promise!ListAnswers(<<"dtor", a>>)
         /\ Promise!Clear(a) <=> Promise!ListAnswers(<<"clear", a>>)
         /\ Promise!PushBack(a, b) <=> Promise!ListAnswers(<<"push_back", a, b>>)
         /\ Promise!PushFront(a, b) <=> Promise!ListAnswers(<<"push_front", a, b>>)
         /\ Promise!Insert(a, b, c) <=> Promise!ListAnswers(<<"insert", a, b, c>>)
         /\ Promise!PopBack(a) <=> Promise!ListAnswers(<<"pop_back", a>>)
         /\ Promise!PopFront(a) <=> Promise!ListAnswers(<<"pop_front", a>>)
         /\ Promise!Erase(a, b) <=> Promise!ListAnswers(<<"erase", a, b>>)
         /\ Promise!Set(a, b, c) <=> Promise!ListAnswers(<<"set", a, b, c>>)
         /\ Promise!Swap(a, b) <=> Promise!ListAnswers(<<"swap", a, b>>)
  BY DEF Promise!ListAnswers, Promise!Answers

LEMMA RangeAnswersAre ==
  ASSUME NEW a, NEW b, NEW c, NEW f, NEW l
  PROVE  /\ Promise!Splice(a, b, c, f, l) <=> Promise!ListAnswers(<<"splice", a, b, c, f, l>>)
         /\ Promise!Merge(a, b) <=> Promise!ListAnswers(<<"merge", a, b>>)
         /\ Promise!Sort(a) <=> Promise!ListAnswers(<<"sort", a>>)
         /\ Promise!EraseIf(a, b) <=> Promise!ListAnswers(<<"erase_if", a, b>>)
         /\ Promise!Reversed(a) <=> Promise!ListAnswers(<<"reverse", a>>)
         /\ Promise!Unique(a) <=> Promise!ListAnswers(<<"unique", a>>)
  BY DEF Promise!ListAnswers
-----------------------------------------------------------------------------
(* Every call keeps the invariant and the promise. *)

LEMMA CtorStep ==
  ASSUME Inv, NEW d \in Handle, Ctor(d)
  PROVE  Inv' /\ Promise!ListAnswers(call')
  <1>1. call' = <<"ctor", d>> /\ d \notin exists
    BY DEF Ctor
  <1>2. CASE OutOfMemory
    <2>1. Inv' /\ Promise!OutOfMemory
      BY <1>2, RefusedKeeps
    <2>2. Promise!Ctor(d)
      BY <1>1, <2>1 DEF Promise!Ctor
    <2> QED
      BY <1>1, <2>1, <2>2, SequenceAnswersAre, Zenon
  <1>3. CASE ~OutOfMemory
    <2>1. exists' = exists \cup {d} /\ mem' = EmptyList(mem, d) /\ ret' = "OK"
      BY <1>3 DEF Ctor
    <2>2. Contents[d] = <<>> /\ Good(mem, Contents) /\ Contents = [e \in Handle |-> Contents[e]]
      BY <1>1 DEF Inv, Contents
    <2>3. Good(EmptyList(mem, d), Contents)
      <3> HIDE DEF Contents
      <3> QED
        BY <2>2, CtorGood
    <2>4. Contents' = Contents
      <3>1. Contents' = [e \in Handle |-> Forward(EmptyList(mem, d), e)]
        BY <2>1 DEF Contents
      <3> QED
        BY <2>3, <3>1, ContentsAre
    <2>5. Inv'
      BY <2>1, <2>3, <2>4 DEF Inv
    <2>6. Contents = [Contents EXCEPT ![d] = <<>>]
      <3> HIDE DEF Contents
      <3> QED
        BY <2>2
    <2>7. Promise!Ctor(d)
      BY <1>1, <2>1, <2>4, <2>6 DEF Promise!Ctor
    <2> QED
      BY <1>1, <2>5, <2>7, SequenceAnswersAre, Zenon
  <1> QED
    BY <1>2, <1>3

LEMMA DtorStep ==
  ASSUME Inv, NEW d \in Handle, Dtor(d)
  PROVE  Inv' /\ Promise!ListAnswers(call')
  <1> DEFINE s == EmptyList(FreeNodes(mem, Range(Contents[d])), d)
             C == [Contents EXCEPT ![d] = <<>>]
  <1>1. call' = <<"dtor", d>> /\ d \in exists /\ exists' = exists \ {d} /\ mem' = s /\ ret' = "OK"
    BY DEF Dtor
  <1>2. Good(s, C)
    <2>1. Range(Contents[d]) = Range(Forward(mem, d))
      BY InvList
    <2> QED
      BY <2>1, ClearGood DEF Inv
  <1>3. Contents' = C
    <2>1. Contents' = [e \in Handle |-> Forward(s, e)]
      BY <1>1 DEF Contents
    <2> HIDE DEF s, C
    <2> QED
      BY <1>2, <2>1, ContentsAre
  <1>4. Inv'
    <2>1. \A e \in Handle \ exists' : C[e] = <<>>
      <3>1. Contents = [e \in Handle |-> Contents[e]] /\ \A e \in Handle \ exists : Contents[e] = <<>>
        BY DEF Inv, Contents
      <3>2. \A e \in Handle \ exists' : e = d \/ e \in Handle \ exists
        BY <1>1
      <3> HIDE DEF Contents
      <3> QED
        BY <3>1, <3>2
    <2>2. exists' \subseteq Handle
      BY <1>1 DEF Inv
    <2> HIDE DEF s, C
    <2> QED
      BY <1>1, <1>2, <1>3, <2>1, <2>2 DEF Inv
  <1>5. Promise!Dtor(d)
    BY <1>1, <1>3 DEF Promise!Dtor
  <1> QED
    BY <1>1, <1>4, <1>5, SequenceAnswersAre, Zenon

(* A node at the end of a list: what push_back does, and init_varg each    *)
(* time round.                                                             *)
LEMMA PushedBackGood ==
  ASSUME NEW s, NEW C, Good(s, C), NEW d \in Handle, NEW v \in Item, \A e \in Handle : v \notin Nodes(C[e])
  PROVE  Good(PushedBack(s, d, v), [C EXCEPT ![d] = Append(C[d], v)])
  <1> DEFINE c == C[d]
             r == PushedBack(s, d, v)
  <1>1. ListIs(s, d, c, {}) /\ c \in Seq(Item) /\ Len(c) \in Nat
    BY GoodList
  <1>2. /\ Woven(s, r, d, c, Len(c), <<v>>) /\ SizeOf(r, d) = SizeOf(s, d) + 1
        /\ \A e \in Handle \ {d} : SizeOf(r, e) = SizeOf(s, e)
    BY <1>1, PushedBackWeaves
  <1>3. WithBlock(c, Len(c), <<v>>, Append(c, v)) /\ Len(c) \in 0 .. Len(c)
    BY <1>1, AppendWithBlock
  <1>4. Good(r, [C EXCEPT ![d] = Append(c, v)])
    <2> HIDE DEF r
    <2> QED
      BY <1>1, <1>2, <1>3, InsertGood
  <1> QED
    BY <1>4

LEMMA PushBackStep ==
  ASSUME Inv, NEW d \in Handle, NEW v \in Item, PushBack(d, v)
  PROVE  Inv' /\ Promise!ListAnswers(call')
  <1>1. /\ call' = <<"push_back", d, v>> /\ d \in exists /\ Storable(v)
        /\ Becomes(PushedBack(mem, d, v)) \/ OutOfMemory
    BY DEF PushBack
  <1>2. CASE OutOfMemory
    <2>1. Inv' /\ Promise!OutOfMemory
      BY <1>2, RefusedKeeps
    <2>2. Promise!PushBack(d, v)
      BY <1>1, <2>1 DEF Promise!PushBack
    <2> QED
      BY <1>1, <2>1, <2>2, SequenceAnswersAre, Zenon
  <1>3. CASE Becomes(PushedBack(mem, d, v))
    <2> DEFINE c == Contents[d]
    <2>5. Good(PushedBack(mem, d, v), [Contents EXCEPT ![d] = Append(c, v)])
      BY <1>1, StorableIs, PushedBackGood DEF Inv
    <2>6. Inv' /\ Promise!Becomes(d, Append(c, v))
      BY <1>1, <1>3, <2>5, UpdateKeeps
    <2>7. Promise!PushBack(d, v)
      BY <1>1, <2>6 DEF Promise!PushBack
    <2> QED
      BY <1>1, <2>6, <2>7, SequenceAnswersAre, Zenon
  <1> QED
    BY <1>1, <1>2, <1>3

LEMMA PushFrontStep ==
  ASSUME Inv, NEW d \in Handle, NEW v \in Item, PushFront(d, v)
  PROVE  Inv' /\ Promise!ListAnswers(call')
  <1>1. /\ call' = <<"push_front", d, v>> /\ d \in exists /\ Storable(v)
        /\ Becomes(PushedFront(mem, d, v)) \/ OutOfMemory
    BY DEF PushFront
  <1>2. CASE OutOfMemory
    <2>1. Inv' /\ Promise!OutOfMemory
      BY <1>2, RefusedKeeps
    <2>2. Promise!PushFront(d, v)
      BY <1>1, <2>1 DEF Promise!PushFront
    <2> QED
      BY <1>1, <2>1, <2>2, SequenceAnswersAre, Zenon
  <1>3. CASE Becomes(PushedFront(mem, d, v))
    <2> DEFINE c == Contents[d]
               r == PushedFront(mem, d, v)
    <2>1. Good(mem, Contents) /\ ListIs(mem, d, c, {}) /\ c \in Seq(Item) /\ Len(c) \in Nat
      BY GoodList DEF Inv
    <2>2. \A e \in Handle : v \notin Nodes(Contents[e])
      BY <1>1, StorableIs
    <2>3. /\ Woven(mem, r, d, c, 0, <<v>>) /\ SizeOf(r, d) = SizeOf(mem, d) + 1
          /\ \A e \in Handle \ {d} : SizeOf(r, e) = SizeOf(mem, e)
      BY <2>1, <2>2, PushedFrontWeaves
    <2>4. WithBlock(c, 0, <<v>>, <<v>> \o c) /\ 0 \in 0 .. Len(c)
      BY <2>1, ConsWithBlock
    <2>5. Good(r, [Contents EXCEPT ![d] = <<v>> \o c])
      <3> HIDE DEF r, Contents
      <3> QED
        BY <2>1, <2>2, <2>3, <2>4, InsertGood
    <2>6. Inv' /\ Promise!Becomes(d, <<v>> \o c)
      BY <1>1, <1>3, <2>5, UpdateKeeps
    <2>7. Promise!PushFront(d, v)
      BY <1>1, <2>6 DEF Promise!PushFront
    <2> QED
      BY <1>1, <2>6, <2>7, SequenceAnswersAre, Zenon
  <1> QED
    BY <1>1, <1>2, <1>3

LEMMA InsertStep ==
  ASSUME Inv, NEW d \in Handle, NEW v \in Item, NEW i, Insert(d, i, v)
  PROVE  Inv' /\ Promise!ListAnswers(call')
  <1>1. /\ call' = <<"insert", d, i, v>> /\ d \in exists /\ i \in 0 .. mem.size[d] /\ Storable(v)
        /\ Becomes(InsertedBefore(mem, d, GetNode(mem, d, i), v)) \/ OutOfMemory
    BY DEF Insert
  <1>2. i \in 0 .. Len(Contents[d])
    BY <1>1, InvList
  <1>3. CASE OutOfMemory
    <2>1. Inv' /\ Promise!OutOfMemory
      BY <1>3, RefusedKeeps
    <2>2. Promise!Insert(d, i, v)
      BY <1>1, <1>2, <2>1 DEF Promise!Insert
    <2> QED
      BY <1>1, <2>1, <2>2, SequenceAnswersAre, Zenon
  <1>4. CASE Becomes(InsertedBefore(mem, d, GetNode(mem, d, i), v))
    <2> DEFINE c == Contents[d]
               r == InsertedBefore(mem, d, At(c, i + 1), v)
    <2>1. Good(mem, Contents) /\ ListIs(mem, d, c, {}) /\ c \in Seq(Item) /\ Len(c) \in Nat
      BY GoodList DEF Inv
    <2>2. \A e \in Handle : v \notin Nodes(Contents[e])
      BY <1>1, StorableIs
    <2>3. /\ Woven(mem, r, d, c, i, <<v>>) /\ SizeOf(r, d) = SizeOf(mem, d) + 1
          /\ \A e \in Handle \ {d} : SizeOf(r, e) = SizeOf(mem, e)
      BY <1>2, <2>1, <2>2, InsertedBeforeWeaves
    <2>4. WithBlock(c, i, <<v>>, InsertAt(c, i + 1, v))
      BY <1>2, <2>1, InsertAtWithBlock
    <2>5. Good(r, [Contents EXCEPT ![d] = InsertAt(c, i + 1, v)])
      <3> HIDE DEF r, Contents
      <3> QED
        BY <1>2, <2>1, <2>2, <2>3, <2>4, InsertGood
    <2>6. Becomes(r)
      <3>1. GetNode(mem, d, i) = At(c, i + 1)
        BY <1>2, <2>1, GetNodeIs
      <3> QED
        BY <1>4, <3>1
    <2>7. Inv' /\ Promise!Becomes(d, InsertAt(c, i + 1, v))
      BY <1>1, <2>5, <2>6, UpdateKeeps
    <2>8. Promise!Insert(d, i, v)
      <3>1. InsertAt(c, i + 1, v) = SubSeq(c, 1, i) \o <<v>> \o SubSeq(c, i + 1, Len(c))
        <4>1. i \in Int
          BY <1>2
        <4> QED
          BY <4>1, SequenceOperators, Zenon
      <3>2. Promise!Becomes(d, SubSeq(c, 1, i) \o <<v>> \o SubSeq(c, i + 1, Len(c)))
        BY <2>7, <3>1 DEF Promise!Becomes
      <3> QED
        BY <1>1, <1>2, <3>2 DEF Promise!Insert
    <2> QED
      BY <1>1, <2>7, <2>8, SequenceAnswersAre, Zenon
  <1> QED
    BY <1>1, <1>3, <1>4

LEMMA EraseAt ==
  ASSUME Inv, NEW d \in Handle, d \in exists, NEW i \in 1 .. Len(Contents[d]),
         NEW r, Becomes(r), Erases(mem, r, d, Contents[d], i)
  PROVE  Inv' /\ Promise!Becomes(d, RemoveAt(Contents[d], i))
  <1>1. Good(mem, Contents) /\ Contents[d] \in Seq(Item)
    BY GoodList DEF Inv
  <1>2. WithoutBlock(Contents[d], i - 1, i, RemoveAt(Contents[d], i))
    BY <1>1, RemoveAtWithoutBlock
  <1>3. Good(r, [Contents EXCEPT ![d] = RemoveAt(Contents[d], i)])
    <2> HIDE DEF Contents
    <2> QED
      BY <1>1, <1>2, EraseGood
  <1> QED
    BY <1>3, UpdateKeeps

LEMMA PopBackStep ==
  ASSUME Inv, NEW d \in Handle, PopBack(d)
  PROVE  Inv' /\ Promise!ListAnswers(call')
  <1> DEFINE c == Contents[d]
  <1>1. call' = <<"pop_back", d>> /\ d \in exists /\ mem.tail[d] # NULL /\ Becomes(PoppedBack(mem, d))
    BY DEF PopBack
  <1>2. /\ ListIs(mem, d, c, {}) /\ c \in Seq(Item) /\ Len(c) \in Nat
        /\ SizeOf(mem, d) = Len(c) /\ Len(c) # 0
    BY <1>1, InvList, GoodList DEF Inv
  <1>3. Erases(mem, PoppedBack(mem, d), d, c, Len(c)) /\ Len(c) \in 1 .. Len(c)
    BY <1>2, PoppedBackCuts
  <1>4. Inv' /\ Promise!Becomes(d, RemoveAt(c, Len(c)))
    BY <1>1, <1>3, EraseAt
  <1>5. RemoveAt(c, Len(c)) = Front(c) /\ c # <<>>
    <2> HIDE DEF c
    <2> QED
      BY <1>2, <1>3, RemoveAtWithoutBlock
  <1>6. Promise!PopBack(d)
    <2>1. Promise!Becomes(d, SubSeq(c, 1, Len(c) - 1))
      BY <1>4, <1>5 DEF Promise!Becomes, Front
    <2> QED
      BY <1>1, <1>5, <2>1 DEF Promise!PopBack
  <1> QED
    BY <1>1, <1>4, <1>6, SequenceAnswersAre, Zenon

LEMMA PopFrontStep ==
  ASSUME Inv, NEW d \in Handle, PopFront(d)
  PROVE  Inv' /\ Promise!ListAnswers(call')
  <1> DEFINE c == Contents[d]
  <1>1. call' = <<"pop_front", d>> /\ d \in exists /\ mem.head[d] # NULL /\ Becomes(PoppedFront(mem, d))
    BY DEF PopFront
  <1>2. /\ ListIs(mem, d, c, {}) /\ c \in Seq(Item) /\ Len(c) \in Nat
        /\ SizeOf(mem, d) = Len(c) /\ Len(c) # 0
    BY <1>1, InvList, GoodList DEF Inv
  <1>3. Erases(mem, PoppedFront(mem, d), d, c, 1) /\ 1 \in 1 .. Len(c)
    BY <1>2, PoppedFrontCuts
  <1>4. Inv' /\ Promise!Becomes(d, RemoveAt(c, 1))
    BY <1>1, <1>3, EraseAt
  <1>5. RemoveAt(c, 1) = Tail(c) /\ c # <<>>
    <2> HIDE DEF c
    <2> QED
      BY <1>2, <1>3, RemoveAtWithoutBlock
  <1>6. Promise!PopFront(d)
    BY <1>1, <1>4, <1>5 DEF Promise!PopFront
  <1> QED
    BY <1>1, <1>4, <1>6, SequenceAnswersAre, Zenon

LEMMA EraseStep ==
  ASSUME Inv, NEW d \in Handle, NEW i, Erase(d, i)
  PROVE  Inv' /\ Promise!ListAnswers(call')
  <1> DEFINE c == Contents[d]
  <1>1. /\ call' = <<"erase", d, i>> /\ d \in exists /\ i \in 0 .. mem.size[d] - 1
        /\ Becomes(ErasedNode(mem, d, GetNode(mem, d, i)))
    BY DEF Erase
  <1>2. Good(mem, Contents) /\ ListIs(mem, d, c, {}) /\ c \in Seq(Item) /\ Len(c) \in Nat /\ SizeOf(mem, d) = Len(c)
    BY InvList, GoodList DEF Inv
  <1>3. i \in 0 .. Len(c) - 1 /\ i \in 0 .. Len(c) /\ i + 1 \in 1 .. Len(c)
    BY <1>1, <1>2, InvList
  <1>4. GetNode(mem, d, i) = c[i + 1]
    <2>1. GetNode(mem, d, i) = At(c, i + 1)
      BY <1>2, <1>3, GetNodeIs
    <2> QED
      BY <1>3, <2>1 DEF At
  <1>5. Erases(mem, ErasedNode(mem, d, c[i + 1]), d, c, i + 1)
    BY <1>2, <1>3, ErasedNodeCuts
  <1>6. Inv' /\ Promise!Becomes(d, RemoveAt(c, i + 1))
    BY <1>1, <1>3, <1>4, <1>5, EraseAt
  <1>7. Promise!Erase(d, i)
    <2>1. RemoveAt(c, i + 1) = SubSeq(c, 1, i) \o SubSeq(c, i + 2, Len(c))
      <3>1. i \in Int
        BY <1>3
      <3> QED
        BY <3>1, SequenceOperators, Zenon
    <2>2. Promise!Becomes(d, SubSeq(c, 1, i) \o SubSeq(c, i + 2, Len(c)))
      BY <1>6, <2>1 DEF Promise!Becomes
    <2> QED
      BY <1>1, <1>3, <2>2 DEF Promise!Erase
  <1> QED
    BY <1>1, <1>6, <1>7, SequenceAnswersAre, Zenon

LEMMA SetStep ==
  ASSUME Inv, NEW d \in Handle, NEW v \in Item, NEW i, Set(d, i, v)
  PROVE  Inv' /\ Promise!ListAnswers(call')
  <1> DEFINE c == Contents[d]
  <1>1. /\ call' = <<"set", d, i, v>> /\ d \in exists /\ i \in 0 .. mem.size[d] - 1 /\ Storable(v)
        /\ Becomes(Renamed(mem, GetNode(mem, d, i), v))
    BY DEF Set
  <1>2. Good(mem, Contents) /\ c \in Seq(Item) /\ Len(c) \in Nat
    BY GoodList DEF Inv
  <1>3. i \in 0 .. Len(c) - 1 /\ i \in 0 .. Len(c) /\ i + 1 \in 1 .. Len(c)
    BY <1>1, <1>2, InvList
  <1>4. GetNode(mem, d, i) = c[i + 1]
    <2>1. GetNode(mem, d, i) = At(c, i + 1)
      BY <1>2, <1>3, GetNodeIs
    <2> QED
      BY <1>3, <2>1 DEF At
  <1>5. \A e \in Handle : v \notin Nodes(Contents[e])
    BY <1>1, StorableIs
  <1>6. Good(Renamed(mem, c[i + 1], v), [Contents EXCEPT ![d] = ReplaceAt(c, i + 1, v)])
    <2> HIDE DEF Contents
    <2> QED
      BY <1>2, <1>3, <1>5, SetGood
  <1>7. Inv' /\ Promise!Becomes(d, ReplaceAt(c, i + 1, v))
    BY <1>1, <1>4, <1>6, UpdateKeeps
  <1>8. Promise!Set(d, i, v)
    <2>1. Promise!Becomes(d, [c EXCEPT ![i + 1] = v])
      BY <1>7 DEF Promise!Becomes, ReplaceAt
    <2> QED
      BY <1>1, <1>3, <2>1 DEF Promise!Set
  <1> QED
    BY <1>1, <1>7, <1>8, SequenceAnswersAre, Zenon

LEMMA ClearStep ==
  ASSUME Inv, NEW d \in Handle, Clear(d)
  PROVE  Inv' /\ Promise!ListAnswers(call')
  <1> DEFINE s == EmptyList(FreeNodes(mem, Range(Contents[d])), d)
  <1>1. call' = <<"clear", d>> /\ d \in exists /\ Becomes(s)
    BY DEF Clear
  <1>2. Good(s, [Contents EXCEPT ![d] = <<>>])
    <2>1. Range(Contents[d]) = Range(Forward(mem, d))
      BY InvList
    <2> QED
      BY <2>1, ClearGood DEF Inv
  <1>3. Inv' /\ Promise!Becomes(d, <<>>)
    BY <1>1, <1>2, UpdateKeeps
  <1>4. Promise!Clear(d)
    BY <1>1, <1>3 DEF Promise!Clear
  <1> QED
    BY <1>1, <1>3, <1>4, SequenceAnswersAre, Zenon

LEMMA ReverseStep ==
  ASSUME Inv, NEW d \in Handle, ReverseList(d)
  PROVE  Inv' /\ Promise!ListAnswers(call')
  <1>1. call' = <<"reverse", d>> /\ d \in exists /\ Becomes(ReversedList(mem, d))
    BY DEF ReverseList
  <1>2. Good(ReversedList(mem, d), [Contents EXCEPT ![d] = Reverse(Contents[d])])
    BY ReverseGood DEF Inv
  <1>3. Inv' /\ Promise!Becomes(d, Reverse(Contents[d]))
    BY <1>1, <1>2, UpdateKeeps
  <1>4. Promise!Reversed(d)
    BY <1>1, <1>3 DEF Promise!Reversed, Promise!Becomes, Reverse
  <1> QED
    BY <1>1, <1>3, <1>4, RangeAnswersAre, Zenon

LEMMA EraseIfCall ==
  ASSUME Inv, NEW d \in Handle, NEW S, EraseIf(d, S)
  PROVE  Inv' /\ Promise!ListAnswers(call')
  <1>1. call' = <<"erase_if", d, S>> /\ d \in exists /\ Becomes(ErasedIf(mem, d, S))
    BY DEF EraseIf
  <1>2. Good(ErasedIf(mem, d, S), [Contents EXCEPT ![d] = Promise!Keeping(Contents[d], Item \ S)])
    BY EraseIfGood DEF Inv
  <1>3. Inv' /\ Promise!Becomes(d, Promise!Keeping(Contents[d], Item \ S))
    BY <1>1, <1>2, UpdateKeeps
  <1>4. Promise!EraseIf(d, S)
    BY <1>1, <1>3 DEF Promise!EraseIf
  <1> QED
    BY <1>1, <1>3, <1>4, RangeAnswersAre, Zenon

LEMMA UniqueCall ==
  ASSUME Inv, NEW d \in Handle, Unique(d)
  PROVE  Inv' /\ Promise!ListAnswers(call')
  <1>1. call' = <<"unique", d>> /\ d \in exists /\ Becomes(Uniqued(mem, d))
    BY DEF Unique
  <1>2. Good(Uniqued(mem, d), [Contents EXCEPT ![d] = Promise!FirstOfGroups(Contents[d])])
    BY UniquedGood DEF Inv
  <1>3. Inv' /\ Promise!Becomes(d, Promise!FirstOfGroups(Contents[d]))
    BY <1>1, <1>2, UpdateKeeps
  <1>4. Promise!Unique(d)
    BY <1>1, <1>3 DEF Promise!Unique
  <1> QED
    BY <1>1, <1>3, <1>4, RangeAnswersAre, Zenon

LEMMA SortCall ==
  ASSUME Inv, NEW d \in Handle, Sort(d)
  PROVE  Inv' /\ Promise!ListAnswers(call')
  <1> DEFINE p == MergeSort([mem |-> mem, head |-> mem.head[d], tail |-> mem.tail[d]])
             s == [p.mem EXCEPT !.head[d] = p.head, !.tail[d] = p.tail]
  <1>1. call' = <<"sort", d>> /\ d \in exists /\ Becomes(s)
    BY DEF Sort
  <1>2. PICK c : SortedItems(c, Contents[d]) /\ Good(s, [Contents EXCEPT ![d] = c])
    BY SortGood DEF Inv
  <1> HIDE DEF s
  <1>3. Inv' /\ Promise!Becomes(d, c)
    BY <1>1, <1>2, UpdateKeeps
  <1>4. Contents' = [Contents EXCEPT ![d] = c] /\ Contents'[d] = c
    <2>1. Contents' = [Contents EXCEPT ![d] = c]
      BY <1>3 DEF Promise!Becomes
    <2>2. Contents = [e \in Handle |-> Contents[e]]
      BY DEF Contents
    <2> HIDE DEF Contents
    <2> QED
      BY <2>1, <2>2
  <1>5. Range(c) = Range(Contents[d]) /\ Len(c) = Len(Contents[d]) /\ InOrder(c)
    <2>1. Nodes(c) = Nodes(Contents[d]) /\ Len(c) = Len(Contents[d]) /\ InOrder(c)
      BY <1>2 DEF SortedItems
    <2>2. Range(Contents[d]) = Nodes(Contents[d])
      BY InvList
    <2>3. Range(Contents'[d]) = Nodes(Contents'[d])
      BY <1>2, <1>4, GoodList, NodesAreItems
    <2> QED
      BY <1>4, <2>1, <2>2, <2>3
  <1>6. Promise!Sort(d)
    BY <1>1, <1>3, <1>4, <1>5, SameOperators DEF Promise!Sort, Promise!Rearranges
  <1> QED
    BY <1>1, <1>3, <1>6, RangeAnswersAre, Zenon

LEMMA SwapStep ==
  ASSUME Inv, NEW a \in Handle, NEW b \in Handle, Swap(a, b)
  PROVE  Inv' /\ Promise!ListAnswers(call')
  <1> DEFINE C == [Contents EXCEPT ![a] = Contents[b], ![b] = Contents[a]]
  <1>1. call' = <<"swap", a, b>> /\ a \in exists /\ b \in exists /\ Becomes(Swapped(mem, a, b))
    BY DEF Swap, Swapped
  <1>2. Good(Swapped(mem, a, b), C)
    BY SwapGood DEF Inv
  <1>3. \A e \in Handle \ exists : C[e] = <<>>
    <2>1. Contents = [e \in Handle |-> Contents[e]] /\ \A e \in Handle \ exists : Contents[e] = <<>> /\ e # a /\ e # b
      BY <1>1 DEF Inv, Contents
    <2> HIDE DEF Contents
    <2> QED
      BY <2>1
  <1> HIDE DEF C
  <1>4. Inv' /\ Contents' = C /\ ret' = "OK" /\ exists' = exists
    BY <1>1, <1>2, <1>3, StepKeeps
  <1>5. Promise!Swap(a, b)
    BY <1>1, <1>4 DEF Promise!Swap, C
  <1> QED
    BY <1>1, <1>4, <1>5, SequenceAnswersAre, Zenon

LEMMA MergeCall ==
  ASSUME Inv, NEW a \in Handle, NEW b \in Handle, Merge(a, b)
  PROVE  Inv' /\ Promise!ListAnswers(call')
  <1> DEFINE m == Cmerge(mem, mem.head[a], mem.tail[a], mem.head[b], mem.tail[b])
             u == [m.mem EXCEPT !.head[a] = m.head, !.tail[a] = m.tail, !.size[a] = mem.size[a] + mem.size[b]]
             s == EmptyList(u, b)
  <1>1. /\ call' = <<"merge", a, b>> /\ a \in exists /\ b \in exists /\ a # b
        /\ InOrder(Contents[a]) /\ InOrder(Contents[b]) /\ Becomes(s)
    BY DEF Merge
  <1>2. PICK c : MergedItems(c, Contents[a], Contents[b]) /\ Good(s, [Contents EXCEPT ![a] = c, ![b] = <<>>])
    BY <1>1, MergeGood DEF Inv
  <1> DEFINE C == [Contents EXCEPT ![a] = c, ![b] = <<>>]
  <1> HIDE DEF s
  <1>3. (\A e \in Handle \ exists : C[e] = <<>>) /\ C[a] = c
    <2>1. Contents = [e \in Handle |-> Contents[e]] /\ \A e \in Handle \ exists : Contents[e] = <<>> /\ e # a /\ e # b
      BY <1>1 DEF Inv, Contents
    <2> HIDE DEF Contents
    <2> QED
      BY <1>1, <2>1
  <1> HIDE DEF C
  <1>4. Inv' /\ Contents' = C /\ ret' = "OK" /\ exists' = exists
    <2>1. Good(s, C)
      BY <1>2 DEF C
    <2> QED
      BY <1>1, <2>1, <1>3, StepKeeps
  <1>5. c \in Seq(Item) /\ Len(c) = Len(Contents[a]) + Len(Contents[b]) /\ InOrder(c)
        /\ Nodes(c) = Nodes(Contents[a]) \cup Nodes(Contents[b])
    BY <1>2 DEF MergedItems
  <1>6. Promise!Rearranges(c, Contents[a] \o Contents[b])
    <2> DEFINE X == Contents[a]
               Y == Contents[b]
               z == X \o Y
    <2>1. X \in Seq(Item) /\ Y \in Seq(Item) /\ Range(X) = Nodes(X) /\ Range(Y) = Nodes(Y)
      BY InvList
    <2> HIDE DEF X, Y
    <2>2. z \in Seq(Item) /\ Len(z) = Len(X) + Len(Y)
      BY <2>1
    <2>3. Range(z) = Range(X) \cup Range(Y)
      BY <2>1, RangeConcatenation
    <2>4. Range(c) = Nodes(c)
      BY <1>5, NodesAreItems
    <2>5. Len(c) = Len(z) /\ Range(c) = Range(z)
      BY <1>5, <2>1, <2>2, <2>3, <2>4 DEF X, Y
    <2> QED
      BY <2>5, SameOperators DEF Promise!Rearranges, X, Y
  <1>7. Promise!Merge(a, b)
    <2>1. Promise!InOrder(Contents'[a]) /\ Promise!Rearranges(Contents'[a], Contents[a] \o Contents[b])
      BY <1>3, <1>4, <1>5, <1>6, SameOperators
    <2>2. Contents' = [Contents EXCEPT ![a] = Contents'[a], ![b] = <<>>]
      BY <1>3, <1>4 DEF C
    <2> QED
      BY <1>1, <1>4, <2>1, <2>2 DEF Promise!Merge
  <1> QED
    BY <1>1, <1>4, <1>7, RangeAnswersAre, Zenon

(* The client avoids the one kind of range that splice does not detach.    *)
LEMMA SpliceStep ==
  ASSUME Inv, ~AnyRange, NEW d \in Handle, NEW e \in Handle, NEW at, NEW f, NEW l, Splice(d, at, e, f, l)
  PROVE  Inv' /\ Promise!ListAnswers(call')
  <1> DEFINE C == Contents
             R == Rest(C, e, f, l)
             y == SubSeq(C[e], f + 1, l)
             k == Shifted(d, at, e, f, l)
             D == [R EXCEPT ![d] = Insertion(R[d], k, y)]
             r == Spliced(mem, d, At(C[d], at + 1), e, At(C[e], f + 1), At(C[e], l + 1), l - f)
  <1>1. /\ call' = <<"splice", d, at, e, f, l>> /\ d \in exists /\ e \in exists
        /\ at \in 0 .. mem.size[d] /\ f \in 0 .. l - 1 /\ l \in 1 .. mem.size[e]
        /\ d = e => at \notin f .. l - 1
        /\ at < mem.size[d] \/ l = mem.size[e] \/ mem.size[d] = 0
        /\ Becomes(Spliced(mem, d, GetNode(mem, d, at), e, GetNode(mem, e, f), GetNode(mem, e, l), l - f))
    BY DEF Splice
  <1>2. /\ Good(mem, C) /\ C \in [Handle -> Seq(Item)] /\ C[e] \in Seq(Item) /\ Len(C[e]) \in Nat /\ Len(C[d]) \in Nat
        /\ mem.size[d] = Len(C[d]) /\ mem.size[e] = Len(C[e])
    BY InvList DEF Inv
  <1>3. /\ at \in 0 .. Len(C[d]) /\ f \in 0 .. Len(C[e]) /\ l \in f + 1 .. Len(C[e]) /\ l \in 0 .. Len(C[e])
        /\ at < Len(C[d]) \/ l = Len(C[e]) \/ Len(C[d]) = 0
    <2>1. /\ at \in 0 .. Len(C[d]) /\ f \in 0 .. l - 1 /\ l \in 1 .. Len(C[e])
          /\ at < Len(C[d]) \/ l = Len(C[e]) \/ Len(C[d]) = 0
      BY <1>1, <1>2
    <2> HIDE DEF C
    <2> QED
      BY <1>2, <2>1
  <1> HIDE DEF C
  <1>4. /\ GetNode(mem, d, at) = At(C[d], at + 1)
        /\ GetNode(mem, e, f) = At(C[e], f + 1) /\ GetNode(mem, e, l) = At(C[e], l + 1)
    BY <1>2, <1>3, GetNodeIs
  <1>5. Good(r, D)
    <2> HIDE DEF R, y, k
    <2>1. R = Rest(C, e, f, l) /\ y = SubSeq(C[e], f + 1, l) /\ k = Shifted(d, at, e, f, l)
      BY DEF R, y, k
    <2> QED
      BY <1>1, <1>2, <1>3, <2>1, SpliceGood
  <1>6. \A g \in Handle \ exists : D[g] = <<>>
    <2>1. \A g \in Handle \ exists : C[g] = <<>> /\ g # d /\ g # e
      BY <1>1 DEF Inv, C
    <2>2. R \in [Handle -> {R[g] : g \in Handle}] /\ \A g \in Handle : g # e => R[g] = C[g]
      BY <1>2 DEF Rest
    <2> HIDE DEF R, y, k
    <2> QED
      BY <2>1, <2>2
  <1>7. Becomes(r)
    BY <1>1, <1>4
  <1> HIDE DEF r, D
  <1>8. Inv' /\ Contents' = D /\ ret' = "OK" /\ exists' = exists
    BY <1>5, <1>6, <1>7, StepKeeps
  <1>9. Promise!Splice(d, at, e, f, l)
    <2>1. Len(y) = l - f
      BY <1>2, <1>3
    <2>2. k = IF d = e /\ at >= l THEN at - Len(y) ELSE at
      BY <2>1 DEF Shifted
    <2>3. R = [Contents EXCEPT ![e] = SubSeq(@, 1, f) \o SubSeq(@, l + 1, Len(@))]
      BY DEF Rest, C
    <2>4. y = SubSeq(Contents[e], f + 1, l)
      BY DEF C
    <2> HIDE DEF R, y, k
    <2>5. Contents' = [R EXCEPT ![d] = SubSeq(@, 1, k) \o y \o SubSeq(@, k + 1, Len(@))]
      BY <1>8 DEF D, Insertion
    <2>6. d \in exists /\ e \in exists /\ ret' = "OK" /\ exists' = exists
      BY <1>1, <1>8
    <2> HIDE DEF Contents
    <2> QED
      BY <2>2, <2>3, <2>4, <2>5, <2>6 DEF Promise!Splice
  <1> QED
    BY <1>1, <1>8, <1>9, RangeAnswersAre, Zenon

LEMMA InitInv == Init => Inv
  <1> SUFFICES ASSUME Init PROVE Inv
    OBVIOUS
  <1> DEFINE C == [d \in Handle |-> <<>>]
             e == <<>>
  <1>1. /\ exists = {} /\ ret = "OK"
        /\ mem = [next |-> [n \in Item |-> Junk], prev |-> [n \in Item |-> Junk],
                  head |-> [d \in Handle |-> NULL], tail |-> [d \in Handle |-> NULL],
                  size |-> [d \in Handle |-> 0]]
    BY DEF Init
  <1>2. /\ mem \in Mem
        /\ \A n \in Item : NextOf(mem, n) = Junk
        /\ \A d \in Handle : HeadOf(mem, d) = NULL /\ TailOf(mem, d) = NULL /\ SizeOf(mem, d) = 0
    BY <1>1 DEF Mem, Link, NextOf, HeadOf, TailOf, SizeOf
  <1>3. e \in Seq(Item) /\ Len(e) = 0
    OBVIOUS
  <1>4. C = [d \in Handle |-> e]
    OBVIOUS
  <1> HIDE DEF e
  <1>5. Nodes(e) = {} /\ Distinct(e) /\ Chained(mem, e, NULL, NULL)
    BY <1>3 DEF Nodes, Distinct, Chained, At
  <1>6. \A d \in Handle : C[d] = e
    BY <1>4
  <1>7. C \in [Handle -> Seq(Item)]
    BY <1>3, <1>4
  <1> HIDE DEF C
  <1>8. Good(mem, C)
    BY <1>2, <1>3, <1>5, <1>6, <1>7 DEF Good, Holds, Sized
  <1>9. Contents = C
    BY <1>8, ContentsAre DEF Contents
  <1>10. \A d \in Handle \ exists : Contents[d] = <<>>
    BY <1>6, <1>9 DEF e
  <1> QED
    BY <1>1, <1>8, <1>9, <1>10 DEF Inv

LEMMA StutterInv == ASSUME Inv, UNCHANGED vars PROVE Inv'
  <1>1. exists' = exists /\ mem' = mem /\ ret' = ret
    BY DEF vars
  <1>2. Contents' = Contents
    BY <1>1 DEF Contents
  <1>3. Good(mem', Contents')
    BY <1>1, <1>2 DEF Inv
  <1> QED
    BY <1>1, <1>2, <1>3 DEF Inv

LEMMA NextStep ==
  ASSUME Inv, ~AnyRange, Next
  PROVE  Inv' /\ Promise!ListAnswers(call')
  <1>1. ASSUME NEW d \in Handle, Ctor(d) \/ Dtor(d) \/ PopBack(d) \/ PopFront(d) \/ Clear(d)
        PROVE  Inv' /\ Promise!ListAnswers(call')
    BY <1>1, CtorStep, DtorStep, PopBackStep, PopFrontStep, ClearStep
  <1>2. ASSUME NEW d \in Handle, Sort(d) \/ ReverseList(d) \/ Unique(d)
        PROVE  Inv' /\ Promise!ListAnswers(call')
    BY <1>2, SortCall, ReverseStep, UniqueCall
  <1>3. ASSUME NEW d \in Handle, NEW v \in Item, PushBack(d, v) \/ PushFront(d, v)
        PROVE  Inv' /\ Promise!ListAnswers(call')
    BY <1>3, PushBackStep, PushFrontStep
  <1>4. ASSUME NEW d \in Handle, NEW v \in Item, NEW i \in 0 .. mem.size[d], Insert(d, i, v)
        PROVE  Inv' /\ Promise!ListAnswers(call')
    BY <1>4, InsertStep
  <1>5. ASSUME NEW d \in Handle, NEW v \in Item, NEW i \in 0 .. mem.size[d] - 1, Set(d, i, v)
        PROVE  Inv' /\ Promise!ListAnswers(call')
    BY <1>5, SetStep
  <1>6. ASSUME NEW d \in Handle, NEW i \in 0 .. mem.size[d] - 1, Erase(d, i)
        PROVE  Inv' /\ Promise!ListAnswers(call')
    BY <1>6, EraseStep
  <1>7. ASSUME NEW d \in Handle, NEW S \in SUBSET Range(Contents[d]), EraseIf(d, S)
        PROVE  Inv' /\ Promise!ListAnswers(call')
    BY <1>7, EraseIfCall
  <1>8. ASSUME NEW a \in Handle, NEW b \in Handle, Swap(a, b) \/ Merge(a, b)
        PROVE  Inv' /\ Promise!ListAnswers(call')
    BY <1>8, SwapStep, MergeCall
  <1>9. ASSUME NEW d \in Handle, NEW e \in Handle, NEW at \in 0 .. mem.size[d], NEW l \in 0 .. mem.size[e],
               NEW f \in 0 .. l - 1, Splice(d, at, e, f, l)
        PROVE  Inv' /\ Promise!ListAnswers(call')
    BY <1>9, SpliceStep
  <1> QED
    BY <1>1, <1>2, <1>3, <1>4, <1>5, <1>6, <1>7, <1>8, <1>9, Zenon DEF Next

LEMMA InvImplies ==
  ASSUME Inv
  PROVE  TypeOK /\ LinksInv /\ PartitionInv
  <1> DEFINE C == Contents
  <1>1. Holds(mem, C, {}) /\ Sized(mem, C) /\ C = Contents
    BY DEF Inv, Good
  <1>2. \A d \in Handle : C[d] = Contents[d] /\ Backward(mem, d) = Reverse(C[d]) /\ Range(C[d]) = Nodes(C[d])
    <2> HIDE DEF C
    <2> QED
      BY <1>1, ForwardIs, InvList
  <1> HIDE DEF C
  <1>3. TypeOK
    BY <1>1 DEF Inv, TypeOK, Holds
  <1>4. LinksInv
    BY <1>1, <1>2 DEF LinksInv
  <1>5. \A d \in Handle : Len(C[d]) = mem.size[d] /\ IsInjective(C[d])
    <2>1. ASSUME NEW d \in Handle PROVE IsInjective(C[d])
      <3>1. C[d] \in Seq(Item) /\ Distinct(C[d])
        BY <1>1 DEF Holds
      <3>2. DOMAIN C[d] = 1 .. Len(C[d])
        BY <3>1
      <3> QED
        BY <3>1, <3>2 DEF Distinct, IsInjective
    <2> QED
      BY <1>1, <2>1 DEF Sized, SizeOf
  <1>6. \A d, e \in Handle : d # e => Range(C[d]) \cap Range(C[e]) = {}
    BY <1>1, <1>2 DEF Holds
  <1>7. UNION {Range(C[d]) : d \in exists} = {n \in Item : mem.next[n] # Junk}
    <2>1. \A n \in Item : mem.next[n] # Junk <=> \E d \in Handle : n \in Range(C[d])
      BY <1>1, <1>2 DEF Holds, NextOf
    <2>2. \A d \in Handle : Range(C[d]) \subseteq Item
      BY <1>1, <1>2, NodesAreItems DEF Holds
    <2>3. \A d \in Handle \ exists : Range(C[d]) = {}
      <3>1. Nodes(<<>>) = {}
        BY DEF Nodes
      <3> QED
        BY <1>1, <1>2, <3>1 DEF Inv
    <2>4. exists \subseteq Handle
      BY DEF Inv
    <2> QED
      BY <2>1, <2>2, <2>3, <2>4
  <1>8. PartitionInv
    BY <1>1, <1>5, <1>6, <1>7 DEF PartitionInv
  <1> QED
    BY <1>3, <1>4, <1>8

LEMMA InvHolds == ASSUME ~AnyRange PROVE Spec => []Inv
  <1>1. Inv /\ [Next]_vars => Inv'
    BY NextStep, StutterInv
  <1> QED
    BY <1>1, InitInv, PTL DEF Spec

(* Whatever the calls did, memory stays a memory of nodes and lists, and   *)
(* the status is one the calls document.                                   *)
THEOREM TypeCorrect == ASSUME ~AnyRange PROVE Spec => []TypeOK
  <1>1. Inv => TypeOK
    BY InvImplies
  <1> QED
    BY <1>1, InvHolds, PTL

(* Backwards from the tail come the nodes that come forwards from the head *)
(* after any calls, splices, merges, sorts and erasures on the way among   *)
(* them.                                                                   *)
THEOREM LinksAgree == ASSUME ~AnyRange PROVE Spec => []LinksInv
  <1>1. Inv => LinksInv
    BY InvImplies
  <1> QED
    BY <1>1, InvHolds, PTL

(* size counts the nodes, no node is in two lists or twice in one, and the *)
(* nodes of the lists are the allocated ones: nothing leaks, nothing freed *)
(* is reachable.                                                           *)
THEOREM NodesArePartitioned == ASSUME ~AnyRange PROVE Spec => []PartitionInv
  <1>1. Inv => PartitionInv
    BY InvImplies
  <1> QED
    BY <1>1, InvHolds, PTL

(* Every call of list.h does to the sequences behind its handles what the  *)
(* sequence table and list.h say, sort and merge included, or runs out of  *)
(* memory and changes nothing.                                             *)
THEOREM ImplementsSequence == ASSUME ~AnyRange PROVE Spec => CallsKeepPromise
  <1>1. Inv /\ [Next]_vars => [Promise!ListAnswers(call')]_vars
    BY NextStep
  <1> QED
    BY <1>1, InvHolds, PTL DEF Spec, CallsKeepPromise

=============================================================================
