--------------------------- MODULE HashTableProofs ----------------------------
(***************************************************************************)
(* Proofs about HashTable.  The entries p[0], ..., p[n] of a table, p[0]   *)
(* the nil entry, are its list in order; what each operation does to a     *)
(* table is shown to be what it does to p.                                 *)
(***************************************************************************)
EXTENDS HashTable, Foundations, FiniteSetTheorems

(* The key NULL is stored with the hash that info->hash gives it but       *)
(* looked for in bucket 0: they agree when it hashes to 0, as it does with *)
(* the integer hash functions of the library.                              *)
NullHashesToZero == NullKey \in Key => Hash[NullKey] = 0

Setting == ConstantsOK /\ NullHashesToZero

-----------------------------------------------------------------------------
(* Buckets. *)

(* What buckets[b] and next may be. *)
Place == Entry \cup {Null}
Pointer == Entry \cup {Null, Dangling}

LEMMA Pointers ==
  ASSUME Setting
  PROVE  /\ Nil \in Entry /\ Nil \notin Key /\ Key \subseteq Entry /\ Entry = Key \cup {Nil}
         /\ Null \notin Entry /\ Dangling \notin Entry /\ Null # Dangling
         /\ IsFiniteSet(Entry) /\ Cardinality(Entry) \in Nat
         /\ MinBuckets \in Nat /\ MinBuckets > 0
<1>1. IsFiniteSet(Key) /\ {Nil, Null, Dangling} \cap Key = {} /\ Cardinality({Nil, Null, Dangling}) = 3
      /\ MinBuckets \in Nat /\ MinBuckets > 0
  BY DEF Setting, ConstantsOK
<1>2. Nil # Null /\ Nil # Dangling /\ Null # Dangling
  <2>1. \A x, y : Cardinality({x, y}) # 3
    <3> SUFFICES ASSUME NEW x, NEW y PROVE Cardinality({x, y}) # 3
      OBVIOUS
    <3>1. IsFiniteSet({x}) /\ Cardinality({x}) = 1
      BY FS_Singleton
    <3>2. Cardinality({x} \cup {y}) \in {1, 2}
      BY <3>1, FS_AddElement
    <3>3. {x} \cup {y} = {x, y}
      OBVIOUS
    <3>4. QED
      BY <3>2, <3>3
  <2>2. Nil = Null => {Nil, Null, Dangling} = {Null, Dangling}
    OBVIOUS
  <2>3. Nil = Dangling => {Nil, Null, Dangling} = {Null, Dangling}
    OBVIOUS
  <2>4. Null = Dangling => {Nil, Null, Dangling} = {Nil, Dangling}
    OBVIOUS
  <2>5. QED
    BY <1>1, <2>1, <2>2, <2>3, <2>4, Zenon
<1>3. IsFiniteSet(Entry)
  BY <1>1, FS_AddElement DEF Entry
<1>4. Cardinality(Entry) \in Nat
  BY <1>3, FS_CardinalityType
<1>5. QED
  BY <1>1, <1>2, <1>3, <1>4 DEF Entry

LEMMA BucketType ==
  ASSUME Setting, NEW count \in Nat, count > 0, NEW n \in Entry
  PROVE  /\ BucketOf(n, count) \in 0 .. count - 1
         /\ n \in Key => BucketFor(n, count) = BucketOf(n, count)
         /\ BucketOf(Nil, count) = 0
<1>1. \A k \in Key : Hash[k] \in Nat
  BY DEF Setting, ConstantsOK
<1>2. \A h \in Nat : h % count \in 0 .. count - 1
  OBVIOUS
<1>3. 0 % count = 0
  OBVIOUS
<1>4. n # Nil => n \in Key
  BY Pointers
<1>5. QED
  BY <1>1, <1>2, <1>3, <1>4, Pointers DEF BucketOf, BucketFor, Setting, NullHashesToZero

-----------------------------------------------------------------------------
(* Tables. *)

(* The fields of a table, as operators: what is proved from them need not  *)
(* look at how a table is put together.                                    *)
NextOf(t, n) == t.next[n]
BucketAt(t, b) == t.buckets[b]
CountOf(t) == t.bcount
TailOf(t) == t.tail
SizeOf(t) == t.size
ValuesOf(t) == t.value

IsTable(t) ==
  /\ t = [buckets |-> t.buckets, bcount |-> t.bcount, next |-> t.next,
          value |-> t.value, tail |-> t.tail, size |-> t.size]
  /\ t.bcount \in Nat /\ t.bcount >= MinBuckets
  /\ t.buckets \in [0 .. t.bcount - 1 -> Pointer]
  /\ t.next \in [Entry -> Place]
  /\ t.value = [k \in DOMAIN t.value |-> t.value[k]] /\ DOMAIN t.value \subseteq Key
  /\ t.tail \in Entry
  /\ t.size \in Int

(* The entries in list order, the nil entry first. *)
Order(p, n) ==
  /\ n \in Nat
  /\ p \in [0 .. n -> Entry]
  /\ p[0] = Nil
  /\ \A i \in 1 .. n : p[i] \in Key
  /\ \A i, j \in 0 .. n : p[i] = p[j] => i = j

Held(p, n) == {p[i] : i \in 1 .. n}

(* next and tail are those of that list; no other entry has a next one.    *)
Links(t, p, n) ==
  /\ \A i \in 0 .. n - 1 : NextOf(t, p[i]) = p[i + 1]
  /\ NextOf(t, p[n]) = Null
  /\ TailOf(t) = p[n]
  /\ \A k \in Key \ Held(p, n) : NextOf(t, k) = Null

Bk(t, n) == BucketOf(n, CountOf(t))

(* The entries of a bucket stand next to each other, those of bucket 0     *)
(* behind the nil entry.                                                   *)
Together(t, p, n) ==
  \A i, j \in 0 .. n : i < j /\ Bk(t, p[i]) = Bk(t, p[j]) => Bk(t, p[j - 1]) = Bk(t, p[j])

(* A bucket points to the entry before its first.                          *)
Starts(t, p, n) ==
  \A i \in 1 .. n : Bk(t, p[i - 1]) = Bk(t, p[i]) \/ BucketAt(t, Bk(t, p[i])) = p[i - 1]

Empty(t, p, n, b) == \A i \in 0 .. n : Bk(t, p[i]) # b

(* What the buckets without entries point to, and the nil entry's bucket.  *)
Spare(t, p, n) ==
  /\ BucketAt(t, 0) = Nil
  /\ \A b \in 1 .. CountOf(t) - 1 :
       /\ Empty(t, p, n, b) => BucketAt(t, b) \in {Null, Nil, Dangling}
       /\ BucketAt(t, b) \in Key => BucketAt(t, b) \in Held(p, n)

Strung(t, p, n) ==
  /\ Order(p, n)
  /\ Links(t, p, n)
  /\ Together(t, p, n)
  /\ Starts(t, p, n)
  /\ Spare(t, p, n)

-----------------------------------------------------------------------------
(* Walks. *)

(* The walk from p[g] visits p[g], ..., p[n]. *)
Rest(p, n, g) == [x \in 1 .. n - g + 1 |-> p[g + x - 1]]

LEMMA OrderBound ==
  ASSUME Setting, NEW p, NEW n, Order(p, n)
  PROVE  n + 1 <= Cardinality(Entry)
<1>1. n \in Nat
  BY DEF Order
<1>2. IsFiniteSet(0 .. n) /\ Cardinality(0 .. n) = n + 1
  BY <1>1, FS_Interval
<1>3. p \in Injection(0 .. n, Entry)
  BY DEF Order, Injection, IsInjective
<1>4. Cardinality(0 .. n) <= Cardinality(Entry)
  BY <1>3, Pointers, FS_Injection
<1>5. QED
  BY <1>2, <1>4

(* One entry more. *)
Longer(t, f) ==
  [m \in Pointer |-> IF m \in Entry THEN <<m>> \o f[t.next[m]] ELSE <<>>]

LEMMA WalkRuns ==
  ASSUME Setting, NEW t, IsTable(t), NEW n
  PROVE  \E w \in [0 .. Cardinality(Entry) -> [Pointer -> Seq(Entry)]] :
           /\ w[0] = [m \in Pointer |-> <<>>]
           /\ \A i \in 0 .. Cardinality(Entry) - 1 : w[i + 1] = Longer(t, w[i])
           /\ Chain(t, n) = w[Cardinality(Entry)][n]
<1> DEFINE N == Cardinality(Entry)
           S == [Pointer -> Seq(Entry)]
           b == [m \in Pointer |-> <<>>]
           body(f) == [i \in 0 .. N |->
                         [m \in Pointer |->
                            IF m \in Entry /\ i > 0 THEN <<m>> \o f[i - 1][t.next[m]] ELSE <<>>]]
           g == [x \in Nat \X S |-> Longer(t, x[2])]
           w == CHOOSE f : f = body(f)
<1>1. N \in Nat
  BY Pointers
<1>2. b \in S
  <2>1. <<>> \in Seq(Entry)
    OBVIOUS
  <2>2. QED
    BY <2>1
<1>3. \A f \in S : Longer(t, f) \in S
  <2> SUFFICES ASSUME NEW f \in S, NEW m \in Pointer
               PROVE  (IF m \in Entry THEN <<m>> \o f[t.next[m]] ELSE <<>>) \in Seq(Entry)
    BY DEF Longer
  <2>1. ASSUME m \in Entry PROVE <<m>> \o f[t.next[m]] \in Seq(Entry)
    <3>1. t.next[m] \in Pointer
      BY <2>1 DEF IsTable, Place, Pointer
    <3>2. f[t.next[m]] \in Seq(Entry)
      BY <3>1
    <3>3. <<m>> \in Seq(Entry)
      BY <2>1
    <3>4. QED
      BY <3>2, <3>3, ConcatProperties
  <2>2. QED
    BY <2>1
<1>4. StaysIn(g, S)
  <2> HIDE DEF S
  <2>1. QED
    BY <1>3 DEF StaysIn
<1>5. PICK f \in [0 .. N -> S] : Obeys(f, b, g, N)
  <2> HIDE DEF S, N, b, g
  <2>1. QED
    BY <1>1, <1>2, <1>4, BoundedRecursion
<1>6. /\ f[0] = b
      /\ \A i \in 0 .. N - 1 : f[i + 1] = Longer(t, f[i])
  <2> HIDE DEF S, N, b
  <2>1. f[0] = b /\ \A i \in 0 .. N - 1 : f[i + 1] = g[<<i, f[i]>>]
    BY <1>5 DEF Obeys
  <2>2. \A i \in 0 .. N - 1 : f[i] \in S /\ i \in Nat
    BY <1>1, <1>5
  <2>3. QED
    BY <2>1, <2>2
<1>7. f = body(f)
  <2> HIDE DEF S, N
  <2>1. ASSUME NEW i \in 0 .. N
        PROVE  f[i] = [m \in Pointer |->
                         IF m \in Entry /\ i > 0 THEN <<m>> \o f[i - 1][t.next[m]] ELSE <<>>]
    <3>1. CASE i = 0
      BY <1>6, <3>1
    <3>2. CASE i # 0
      <4>1. i - 1 \in 0 .. N - 1 /\ (i - 1) + 1 = i /\ i > 0
        BY <1>1, <3>2
      <4>2. f[i] = Longer(t, f[i - 1])
        BY <1>6, <4>1
      <4>3. QED
        BY <4>1, <4>2, Zenon DEF Longer
    <3>3. QED
      BY <3>1, <3>2
  <2>2. f = [i \in 0 .. N |-> f[i]]
    BY <1>5
  <2>3. QED
    BY <2>1, <2>2, Zenon
<1>8. w = body(w)
  BY <1>7, Zenon
<1>9. Chain(t, n) = w[N][n]
  BY Zenon DEF Chain, Pointer
<1> HIDE DEF w
<1>10. w[0] = b
  BY <1>1, <1>8
<1>11. \A i \in 0 .. N - 1 : w[i + 1] = Longer(t, w[i])
  <2> SUFFICES ASSUME NEW i \in 0 .. N - 1 PROVE w[i + 1] = Longer(t, w[i])
    OBVIOUS
  <2> DEFINE j == i + 1
  <2>1. j \in 0 .. N /\ j > 0 /\ j - 1 = i
    BY <1>1
  <2> HIDE DEF j, N
  <2>2. w[j] = [m \in Pointer |->
                  IF m \in Entry /\ j > 0 THEN <<m>> \o w[j - 1][t.next[m]] ELSE <<>>]
    BY <1>8, <2>1, Zenon
  <2>3. w[j] = Longer(t, w[i])
    BY <2>1, <2>2, Zenon DEF Longer
  <2>4. QED
    BY <2>3 DEF j
<1>12. w \in [0 .. N -> S]
  <2> DEFINE T == {i \in Nat : i <= N => w[i] \in S}
  <2> HIDE DEF S, N, b
  <2>1. 0 \in T
    BY <1>2, <1>10
  <2>2. \A i \in Nat : i \in T => i + 1 \in T
    <3> SUFFICES ASSUME NEW i \in Nat, i \in T, i + 1 <= N PROVE w[i + 1] \in S
      OBVIOUS
    <3>1. i \in 0 .. N - 1 /\ w[i] \in S
      BY <1>1
    <3>2. QED
      BY <1>3, <1>11, <3>1
  <2> HIDE DEF T
  <2>3. \A i \in Nat : i \in T
    BY <2>1, <2>2, Induction
  <2>4. \A i \in 0 .. N : w[i] \in S
    BY <1>1, <2>3 DEF T
  <2>5. w = [i \in 0 .. N |-> w[i]]
    BY <1>8, Zenon
  <2>6. QED
    BY <2>4, <2>5
<1>13. QED
  BY <1>9, <1>10, <1>11, <1>12

LEMMA RestItems ==
  ASSUME Setting, NEW p, NEW n, Order(p, n), NEW g \in 0 .. n
  PROVE  /\ Rest(p, n, g) \in Seq(Entry) /\ Len(Rest(p, n, g)) = n - g + 1
         /\ g < n => Rest(p, n, g) = <<p[g]>> \o Rest(p, n, g + 1)
         /\ g = n => Rest(p, n, g) = <<p[g]>> \o <<>>
<1>1. n \in Nat /\ p \in [0 .. n -> Entry] /\ n - g + 1 \in Nat
  BY DEF Order
<1>2. \A h \in 0 .. n : Rest(p, n, h) \in Seq(Entry) /\ Len(Rest(p, n, h)) = n - h + 1
  <2> SUFFICES ASSUME NEW h \in 0 .. n
               PROVE  Rest(p, n, h) \in Seq(Entry) /\ Len(Rest(p, n, h)) = n - h + 1
    OBVIOUS
  <2>1. \A x \in 1 .. n - h + 1 : h + x - 1 \in 0 .. n
    BY <1>1
  <2>2. \A x \in 1 .. n - h + 1 : p[h + x - 1] \in Entry
    BY <1>1, <2>1
  <2>3. PICK l \in Nat : l = n - h + 1
    BY <1>1
  <2>4. [x \in 1 .. l |-> p[h + x - 1]] \in Seq(Entry) /\ Len([x \in 1 .. l |-> p[h + x - 1]]) = l
    BY <2>2, <2>3
  <2>5. QED
    BY <2>3, <2>4 DEF Rest
<1>3. ASSUME g < n PROVE Rest(p, n, g) = <<p[g]>> \o Rest(p, n, g + 1)
  <2>1. g + 1 \in 0 .. n /\ p[g] \in Entry
    BY <1>1, <1>3
  <2>2. PICK s \in Seq(Entry) : s = Rest(p, n, g + 1) /\ Len(s) = n - (g + 1) + 1
    BY <1>2, <2>1
  <2>3. <<p[g]>> \o s = [j \in 1 .. Len(s) + 1 |-> IF j = 1 THEN p[g] ELSE s[j - 1]]
    BY <2>1, PrependItems
  <2>4. Len(s) + 1 = n - g + 1
    BY <1>1, <2>2
  <2>5. ASSUME NEW j \in 1 .. n - g + 1, j # 1 PROVE s[j - 1] = p[g + j - 1]
    <3>1. j - 1 \in 1 .. n - (g + 1) + 1 /\ (g + 1) + (j - 1) - 1 = g + j - 1
      BY <1>1, <2>5
    <3>2. QED
      BY <2>2, <3>1 DEF Rest
  <2>6. g + 1 - 1 = g
    BY <1>1
  <2>7. [j \in 1 .. Len(s) + 1 |-> IF j = 1 THEN p[g] ELSE s[j - 1]] = Rest(p, n, g)
    <3>1. \A j \in 1 .. n - g + 1 : (IF j = 1 THEN p[g] ELSE s[j - 1]) = p[g + j - 1]
      BY <2>5, <2>6
    <3>2. QED
      BY <2>4, <3>1 DEF Rest
  <2>8. QED
    BY <2>2, <2>3, <2>7
<1>4. ASSUME g = n PROVE Rest(p, n, g) = <<p[g]>> \o <<>>
  <2>1. n - g + 1 = 1 /\ g + 1 - 1 = g /\ p[g] \in Entry
    BY <1>1, <1>4
  <2>2. Rest(p, n, g) = [x \in 1 .. 1 |-> p[g + x - 1]]
    BY <2>1 DEF Rest
  <2>3. [x \in 1 .. 1 |-> p[g + x - 1]] = <<p[g]>>
    BY <2>1
  <2>4. <<p[g]>> \o <<>> = <<p[g]>>
    BY <2>1
  <2>5. QED
    BY <2>2, <2>3, <2>4
<1>5. QED
  BY <1>2, <1>3, <1>4

LEMMA ChainIs ==
  ASSUME Setting, NEW t, IsTable(t), NEW p, NEW n, Order(p, n), Links(t, p, n)
  PROVE  /\ \A g \in 0 .. n : Chain(t, p[g]) = Rest(p, n, g)
         /\ Chain(t, Null) = <<>> /\ Chain(t, Dangling) = <<>>
<1> DEFINE N == Cardinality(Entry)
<1>1. /\ n \in Nat /\ N \in Nat /\ n + 1 <= N
      /\ \A i \in 0 .. n : p[i] \in Entry
      /\ \A m \in Entry : NextOf(t, m) = t.next[m]
  BY OrderBound, Pointers DEF Order, NextOf
<1>2. ASSUME NEW w, w \in [0 .. N -> [Pointer -> Seq(Entry)]],
             w[0] = [m \in Pointer |-> <<>>],
             \A i \in 0 .. N - 1 : w[i + 1] = Longer(t, w[i])
      PROVE  /\ \A g \in 0 .. n : w[N][p[g]] = Rest(p, n, g)
             /\ w[N][Null] = <<>> /\ w[N][Dangling] = <<>>
  <2> HIDE DEF N
  <2>1. ASSUME NEW i \in 0 .. N, NEW m \in {Null, Dangling} PROVE w[i][m] = <<>>
    <3>1. m \in Pointer /\ m \notin Entry
      BY Pointers DEF Pointer
    <3>2. CASE i = 0
      BY <1>2, <3>1, <3>2
    <3>3. CASE i # 0
      <4>1. i - 1 \in 0 .. N - 1 /\ (i - 1) + 1 = i
        BY <1>1, <3>3
      <4>2. w[i] = Longer(t, w[i - 1])
        BY <1>2, <4>1
      <4>3. QED
        BY <3>1, <4>2 DEF Longer
    <3>4. QED
      BY <3>2, <3>3
  <2> DEFINE T == {i \in Nat : i <= N => \A g \in 0 .. n : n - g + 1 <= i => w[i][p[g]] = Rest(p, n, g)}
  <2>2. 0 \in T
    BY <1>1
  <2>3. ASSUME NEW i \in Nat, i \in T, i + 1 <= N, NEW g \in 0 .. n, n - g + 1 <= i + 1
        PROVE  w[i + 1][p[g]] = Rest(p, n, g)
    <3>1. i \in 0 .. N - 1 /\ i \in 0 .. N
      BY <1>1, <2>3
    <3>2. p[g] \in Entry /\ p[g] \in Pointer
      BY <1>1 DEF Pointer
    <3>3. w[i + 1] = Longer(t, w[i])
      BY <1>2, <3>1
    <3>4. w[i + 1][p[g]] = <<p[g]>> \o w[i][NextOf(t, p[g])]
      BY <1>1, <3>2, <3>3 DEF Longer
    <3>5. CASE g = n
      <4>1. w[i][NextOf(t, p[g])] = <<>>
        BY <2>1, <3>1, <3>5 DEF Links
      <4>2. w[i + 1][p[g]] = <<p[g]>> \o <<>>
        BY <3>4, <4>1, Zenon
      <4>3. Rest(p, n, g) = <<p[g]>> \o <<>>
        BY <3>5, RestItems
      <4>4. QED
        BY <4>2, <4>3, Zenon
    <3>6. CASE g < n
      <4>1. g \in 0 .. n - 1 /\ g + 1 \in 0 .. n /\ n - (g + 1) + 1 <= i /\ i <= N
        BY <1>1, <2>3, <3>6
      <4>2. NextOf(t, p[g]) = p[g + 1]
        BY <4>1 DEF Links
      <4>3. w[i][p[g + 1]] = Rest(p, n, g + 1)
        BY <2>3, <4>1
      <4>4. QED
        BY <3>4, <3>6, <4>2, <4>3, RestItems
    <3>7. QED
      BY <1>1, <3>5, <3>6
  <2>4. \A i \in Nat : i \in T => i + 1 \in T
    BY <2>3
  <2> HIDE DEF T
  <2>5. \A i \in Nat : i \in T
    BY <2>2, <2>4, Induction
  <2>6. N \in T
    BY <1>1, <2>5
  <2>7. ASSUME NEW g \in 0 .. n PROVE w[N][p[g]] = Rest(p, n, g)
    <3>1. n - g + 1 <= N /\ N <= N
      BY <1>1
    <3>2. QED
      BY <2>6, <3>1 DEF T
  <2>8. N \in 0 .. N
    BY <1>1
  <2>9. QED
    BY <2>1, <2>7, <2>8
<1>3. ASSUME NEW m PROVE \E w : /\ w \in [0 .. N -> [Pointer -> Seq(Entry)]]
                                /\ w[0] = [x \in Pointer |-> <<>>]
                                /\ \A i \in 0 .. N - 1 : w[i + 1] = Longer(t, w[i])
                                /\ Chain(t, m) = w[N][m]
  BY WalkRuns
<1> HIDE DEF N
<1>4. QED
  <2>1. ASSUME NEW g \in 0 .. n PROVE Chain(t, p[g]) = Rest(p, n, g)
    BY <1>2, <1>3
  <2>2. Chain(t, Null) = <<>> /\ Chain(t, Dangling) = <<>>
    BY <1>2, <1>3
  <2>3. QED
    BY <2>1, <2>2

-----------------------------------------------------------------------------
(* Lookups. *)

LEMMA TableFields ==
  ASSUME Setting, NEW t, IsTable(t)
  PROVE  /\ CountOf(t) = t.bcount /\ CountOf(t) \in Nat /\ CountOf(t) >= MinBuckets /\ CountOf(t) > 0
         /\ \A m \in Entry : NextOf(t, m) \in Place
         /\ \A b \in 0 .. CountOf(t) - 1 : BucketAt(t, b) \in Pointer
         /\ TailOf(t) \in Entry /\ SizeOf(t) \in Int
         /\ \A m \in Entry : Bk(t, m) \in 0 .. CountOf(t) - 1
         /\ \A k \in Key : BucketFor(k, t.bcount) = Bk(t, k)
         /\ Bk(t, Nil) = 0
<1>1. t.bcount \in Nat /\ t.bcount >= MinBuckets /\ t.bcount > 0
  BY Pointers DEF IsTable
<1>2. \A m \in Entry : /\ BucketOf(m, t.bcount) \in 0 .. t.bcount - 1
                       /\ m \in Key => BucketFor(m, t.bcount) = BucketOf(m, t.bcount)
                       /\ BucketOf(Nil, t.bcount) = 0
  BY <1>1, BucketType
<1>3. QED
  BY <1>1, <1>2, Pointers DEF IsTable, CountOf, NextOf, BucketAt, TailOf, SizeOf, Bk

(* A bucket points into the list or nowhere. *)
LEMMA BucketHead ==
  ASSUME Setting, NEW t, IsTable(t), NEW p, NEW n, Strung(t, p, n),
         NEW b \in 0 .. CountOf(t) - 1
  PROVE  BucketAt(t, b) \in {Null, Dangling} \/ \E g \in 0 .. n : BucketAt(t, b) = p[g]
<1>1. n \in Nat /\ p[0] = Nil /\ 0 \in 0 .. n
  BY DEF Strung, Order
<1>2. CASE b = 0
  BY <1>1, <1>2 DEF Strung, Spare
<1>3. CASE b # 0
  <2>1. b \in 1 .. CountOf(t) - 1
    BY <1>3, TableFields
  <2>2. BucketAt(t, b) \in Key => BucketAt(t, b) \in Held(p, n)
    BY <2>1 DEF Strung, Spare
  <2>3. BucketAt(t, b) \in Key => \E g \in 0 .. n : BucketAt(t, b) = p[g]
    BY <1>1, <2>2 DEF Held
  <2>4. BucketAt(t, b) \in Pointer
    BY TableFields
  <2>5. QED
    BY <1>1, <2>3, <2>4, Pointers DEF Pointer
<1>4. QED
  BY <1>2, <1>3

Hit(t, k, c, b, i) ==
  c[i + 1] = k /\ \A j \in 2 .. i : BucketOf(c[j], t.bcount) = b

LEMMA FindEntryIs ==
  ASSUME NEW t, NEW k, NEW c, NEW b, b = BucketFor(k, t.bcount), c = Chain(t, t.buckets[b])
  PROVE  FindEntry(t, k) = IF \E i \in 1 .. Len(c) - 1 : Hit(t, k, c, b, i)
                           THEN c[CHOOSE i \in 1 .. Len(c) - 1 : Hit(t, k, c, b, i)]
                           ELSE Null
  BY Zenon DEF FindEntry, Hit

(* The walk of a lookup of p[j] starts before the bucket's first entry.    *)
LEMMA WalkStart ==
  ASSUME Setting, NEW t, IsTable(t), NEW p, NEW n, Strung(t, p, n), NEW j \in 1 .. n
  PROVE  \E g \in 0 .. j - 1 : /\ BucketAt(t, Bk(t, p[j])) = p[g]
                               /\ \A m \in g + 1 .. j : Bk(t, p[m]) = Bk(t, p[j])
<1> DEFINE b == Bk(t, p[j])
           T == {f \in Nat : f <= j /\ \A m \in f .. j : Bk(t, p[m]) = b}
<1>1. n \in Nat /\ p[0] = Nil /\ j \in Nat
  BY DEF Strung, Order
<1>2. j \in T
  BY <1>1
<1>3. PICK f \in T : \A m \in T : f <= m
  <2>1. T \in SUBSET Nat /\ T # {}
    BY <1>2
  <2> HIDE DEF T
  <2>2. QED
    BY <2>1, LeastElement
<1>4. f \in Nat /\ f <= j /\ \A m \in f .. j : Bk(t, p[m]) = b
  OBVIOUS
<1>5. CASE f = 0
  <2>1. Bk(t, p[0]) = b
    BY <1>1, <1>4, <1>5
  <2>2. b = 0
    BY <1>1, <2>1, TableFields
  <2>3. BucketAt(t, b) = p[0]
    BY <1>1, <2>2 DEF Strung, Spare
  <2>4. 0 \in 0 .. j - 1 /\ \A m \in 0 + 1 .. j : m \in f .. j
    BY <1>1, <1>5
  <2> HIDE DEF b, T
  <2>5. \A m \in 0 + 1 .. j : Bk(t, p[m]) = b
    BY <1>4, <2>4
  <2>6. QED
    BY <2>3, <2>4, <2>5 DEF b
<1>6. CASE f # 0
  <2>1. f \in 1 .. n /\ f - 1 \in Nat /\ f - 1 <= j /\ f - 1 \in 0 .. j - 1 /\ (f - 1) + 1 = f
    BY <1>1, <1>4, <1>6
  <2>2. f - 1 \notin T
    BY <1>3, <2>1
  <2>3. Bk(t, p[f - 1]) # b
    <3>1. \A m \in f - 1 .. j : m = f - 1 \/ m \in f .. j
      BY <1>4, <2>1
    <3>2. QED
      BY <1>4, <2>1, <2>2, <3>1
  <2>4. Bk(t, p[f]) = b
    BY <1>1, <1>4
  <2>5. BucketAt(t, b) = p[f - 1]
    BY <2>1, <2>3, <2>4 DEF Strung, Starts
  <2> HIDE DEF b, T
  <2>6. \A m \in (f - 1) + 1 .. j : Bk(t, p[m]) = b
    BY <1>4, <2>1
  <2>7. QED
    BY <2>1, <2>5, <2>6 DEF b
<1>7. QED
  BY <1>5, <1>6

(* What a walk needs: the run of a bucket is reached from where the bucket *)
(* points, and every bucket points into the list or nowhere.               *)
Reached(t, p, n) ==
  /\ Order(p, n)
  /\ Links(t, p, n)
  /\ \A j \in 1 .. n :
       \E g \in 0 .. j - 1 : /\ BucketAt(t, Bk(t, p[j])) = p[g]
                              /\ \A m \in g + 1 .. j : Bk(t, p[m]) = Bk(t, p[j])
  /\ \A b \in 0 .. CountOf(t) - 1 :
       BucketAt(t, b) \in {Null, Dangling} \/ \E g \in 0 .. n : BucketAt(t, b) = p[g]

LEMMA StrungReached ==
  ASSUME Setting, NEW t, IsTable(t), NEW p, NEW n, Strung(t, p, n)
  PROVE  Reached(t, p, n)
  BY WalkStart, BucketHead DEF Reached, Strung

LEMMA FindHeld ==
  ASSUME Setting, NEW t, IsTable(t), NEW p, NEW n, Reached(t, p, n), NEW j \in 1 .. n
  PROVE  /\ FindEntry(t, p[j]) = p[j - 1]
         /\ t.buckets[BucketFor(p[j], t.bcount)] \in Entry
<1>1. /\ n \in Nat /\ p[j] \in Key
      /\ \A i, m \in 0 .. n : p[i] = p[m] => i = m
      /\ \A i \in 0 .. n : p[i] \in Entry
  BY DEF Reached, Order
<1>2. PICK b : b = BucketFor(p[j], t.bcount)
  OBVIOUS
<1>3. b = Bk(t, p[j]) /\ \A m : Bk(t, m) = BucketOf(m, t.bcount)
  BY <1>1, <1>2, TableFields DEF Bk
<1>4. PICK g \in 0 .. j - 1 : /\ BucketAt(t, b) = p[g]
                              /\ \A m \in g + 1 .. j : Bk(t, p[m]) = b
  BY <1>3 DEF Reached
<1>5. PICK c : c = Chain(t, t.buckets[b])
  OBVIOUS
<1>6. g \in 0 .. n /\ p[g] \in Entry
  BY <1>1
<1>7. c = Rest(p, n, g) /\ t.buckets[b] = p[g]
  BY <1>4, <1>5, <1>6, ChainIs DEF Reached, BucketAt
<1>8. Len(c) = n - g + 1 /\ \A x \in 1 .. n - g + 1 : c[x] = p[g + x - 1]
  <2>1. Len(c) = n - g + 1
    <3>1. Order(p, n)
      BY DEF Reached
    <3>2. QED
      BY <1>6, <1>7, <3>1, RestItems
  <2>2. \A x \in 1 .. n - g + 1 : c[x] = p[g + x - 1]
    BY <1>6, <1>7 DEF Rest
  <2>3. QED
    BY <2>1, <2>2
<1>9. PICK i : i = j - g
  OBVIOUS
<1>10. i \in 1 .. Len(c) - 1 /\ i + 1 \in 1 .. n - g + 1 /\ g + (i + 1) - 1 = j
  BY <1>1, <1>8, <1>9
<1>11. Hit(t, p[j], c, b, i)
  <2>1. c[i + 1] = p[j]
    BY <1>8, <1>10
  <2>2. ASSUME NEW m \in 2 .. i PROVE BucketOf(c[m], t.bcount) = b
    <3>1. m \in 1 .. n - g + 1 /\ g + m - 1 \in g + 1 .. j
      BY <1>1, <1>9, <2>2
    <3>2. c[m] = p[g + m - 1]
      BY <1>8, <3>1
    <3>3. QED
      BY <1>3, <1>4, <3>1, <3>2
  <2>3. QED
    BY <2>1, <2>2 DEF Hit
<1>12. ASSUME NEW y \in 1 .. Len(c) - 1, Hit(t, p[j], c, b, y) PROVE c[y] = p[j - 1]
  <2>1. y + 1 \in 1 .. n - g + 1 /\ y \in 1 .. n - g + 1 /\ g + (y + 1) - 1 \in 0 .. n
    BY <1>1, <1>6, <1>8
  <2>2. p[g + (y + 1) - 1] = p[j]
    BY <1>8, <1>12, <2>1 DEF Hit
  <2>3. g + (y + 1) - 1 = j
    BY <1>1, <2>1, <2>2
  <2>4. g + y - 1 = j - 1
    BY <2>1, <2>3
  <2>5. QED
    BY <1>8, <2>1, <2>4
<1>13. \E y \in 1 .. Len(c) - 1 : Hit(t, p[j], c, b, y)
  BY <1>10, <1>11
<1>14. PICK y \in 1 .. Len(c) - 1 : /\ Hit(t, p[j], c, b, y)
                                    /\ y = CHOOSE x \in 1 .. Len(c) - 1 : Hit(t, p[j], c, b, x)
  BY <1>13, Zenon
<1>15. FindEntry(t, p[j]) = c[y]
  BY <1>2, <1>5, <1>13, <1>14, FindEntryIs, Zenon
<1>16. QED
  BY <1>2, <1>6, <1>7, <1>12, <1>14, <1>15

LEMMA FindNone ==
  ASSUME Setting, NEW t, IsTable(t), NEW p, NEW n, Reached(t, p, n), NEW k \in Key, k \notin Held(p, n)
  PROVE  FindEntry(t, k) = Null
<1>1. PICK b : b = BucketFor(k, t.bcount)
  OBVIOUS
<1>2. PICK c : c = Chain(t, t.buckets[b])
  OBVIOUS
<1>3. b \in 0 .. CountOf(t) - 1
  BY <1>1, TableFields, Pointers
<1>4. ASSUME NEW i \in 1 .. Len(c) - 1 PROVE ~Hit(t, k, c, b, i)
  <2>1. CASE BucketAt(t, b) \in {Null, Dangling}
    <3>1. c = <<>>
      BY <1>2, <2>1, ChainIs DEF Reached, BucketAt
    <3>2. Len(c) = 0
      BY <3>1
    <3>3. QED
      BY <3>2
  <2>2. CASE \E g \in 0 .. n : BucketAt(t, b) = p[g]
    <3>1. PICK g \in 0 .. n : BucketAt(t, b) = p[g]
      BY <2>2
    <3>2. n \in Nat
      BY DEF Reached, Order
    <3>3. c = Rest(p, n, g)
      BY <1>2, <3>1, ChainIs DEF Reached, BucketAt
    <3>4. Len(c) = n - g + 1 /\ \A x \in 1 .. n - g + 1 : c[x] = p[g + x - 1]
      <4>1. Len(c) = n - g + 1
        BY <3>3, RestItems DEF Reached
      <4>2. \A x \in 1 .. n - g + 1 : c[x] = p[g + x - 1]
        BY <3>3 DEF Rest
      <4>3. QED
        BY <4>1, <4>2
    <3>5. i + 1 \in 1 .. n - g + 1 /\ g + (i + 1) - 1 \in 1 .. n
      BY <3>2, <3>4
    <3>6. c[i + 1] \in Held(p, n)
      BY <3>4, <3>5 DEF Held
    <3>7. QED
      BY <3>6 DEF Hit
  <2>3. QED
    BY <1>3, <2>1, <2>2 DEF Reached
<1>5. ~ \E i \in 1 .. Len(c) - 1 : Hit(t, k, c, b, i)
  BY <1>4
<1>6. QED
  BY <1>1, <1>2, <1>5, FindEntryIs, Zenon

-----------------------------------------------------------------------------
(* An entry more. *)

(* k comes after p[j]. *)
Put(p, n, j, k) ==
  [i \in 0 .. n + 1 |-> IF i <= j THEN p[i] ELSE IF i = j + 1 THEN k ELSE p[i - 1]]

IsPut(q, p, n, j, k) ==
  /\ \A i \in 0 .. j : q[i] = p[i]
  /\ q[j + 1] = k
  /\ \A i \in j + 2 .. n + 1 : q[i] = p[i - 1]

LEMMA PutOrder ==
  ASSUME Setting, NEW p, NEW n, Order(p, n), NEW j \in 0 .. n, NEW k \in Key, k \notin Held(p, n)
  PROVE  /\ IsPut(Put(p, n, j, k), p, n, j, k)
         /\ Order(Put(p, n, j, k), n + 1)
         /\ Held(Put(p, n, j, k), n + 1) = Held(p, n) \cup {k}
<1> DEFINE q == Put(p, n, j, k)
<1>1. /\ n \in Nat /\ p \in [0 .. n -> Entry] /\ p[0] = Nil
      /\ \A i \in 1 .. n : p[i] \in Key
      /\ \A i, m \in 0 .. n : p[i] = p[m] => i = m
  BY DEF Order
<1>2. IsPut(q, p, n, j, k)
  BY <1>1 DEF Put, IsPut
<1>3. q = [i \in 0 .. n + 1 |-> q[i]]
  BY DEF Put
<1>4. \A i \in 0 .. n : p[i] # k
  <2>1. \A i \in 1 .. n : p[i] # k
    BY DEF Held
  <2>2. p[0] # k
    BY <1>1, Pointers
  <2>3. QED
    BY <1>1, <2>1, <2>2
<1> HIDE DEF q
<1>5. \A i \in 0 .. n + 1 : /\ i <= j => i \in 0 .. n /\ q[i] = p[i]
                            /\ i = j + 1 => q[i] = k
                            /\ i > j + 1 => i - 1 \in j + 1 .. n /\ q[i] = p[i - 1]
  BY <1>1, <1>2 DEF IsPut
<1>6. q \in [0 .. n + 1 -> Entry]
  <2>1. \A i \in 0 .. n + 1 : q[i] \in Entry
    BY <1>1, <1>5, Pointers
  <2>2. QED
    BY <1>3, <2>1
<1>7. \A i \in 1 .. n + 1 : q[i] \in Key
  <2> SUFFICES ASSUME NEW i \in 1 .. n + 1 PROVE q[i] \in Key
    OBVIOUS
  <2>1. i \in 0 .. n + 1 /\ (i <= j => i \in 1 .. n) /\ (i > j + 1 => i - 1 \in 1 .. n)
    BY <1>1
  <2>2. QED
    BY <1>1, <1>5, <2>1
<1>8. ASSUME NEW i \in 0 .. n + 1, NEW m \in 0 .. n + 1, q[i] = q[m] PROVE i = m
  <2>1. i \in Nat /\ m \in Nat /\ j \in Nat
    BY <1>1
  <2>2. CASE i <= j
    <3>1. q[i] = p[i] /\ i \in 0 .. n
      BY <1>5, <2>2
    <3>2. CASE m <= j
      BY <1>1, <1>5, <1>8, <3>1, <3>2
    <3>3. CASE m = j + 1
      BY <1>4, <1>5, <1>8, <3>1, <3>3
    <3>4. CASE m > j + 1
      <4>1. q[m] = p[m - 1] /\ m - 1 \in 0 .. n /\ m - 1 > j
        BY <1>1, <1>5, <3>4
      <4>2. p[i] = p[m - 1]
        BY <1>8, <3>1, <4>1
      <4>3. i = m - 1
        BY <1>1, <3>1, <4>1, <4>2
      <4>4. QED
        BY <2>1, <2>2, <4>1, <4>3
    <3>5. QED
      BY <2>1, <3>2, <3>3, <3>4
  <2>3. CASE i = j + 1
    <3>1. q[i] = k
      BY <1>5, <2>3
    <3>2. m <= j \/ m > j + 1 => q[m] # k
      <4>1. m > j + 1 => m - 1 \in 0 .. n
        BY <1>1, <1>5
      <4>2. QED
        BY <1>4, <1>5, <4>1
    <3>3. QED
      BY <1>8, <2>1, <2>3, <3>1, <3>2
  <2>4. CASE i > j + 1
    <3>1. q[i] = p[i - 1] /\ i - 1 \in 0 .. n /\ i - 1 > j
      BY <1>1, <1>5, <2>4
    <3>2. CASE m <= j
      <4>1. q[m] = p[m] /\ m \in 0 .. n
        BY <1>5, <3>2
      <4>2. p[i - 1] = p[m]
        BY <1>8, <3>1, <4>1
      <4>3. i - 1 = m
        BY <1>1, <3>1, <4>1, <4>2
      <4>4. QED
        BY <2>1, <3>1, <3>2, <4>3
    <3>3. CASE m = j + 1
      BY <1>4, <1>5, <1>8, <3>1, <3>3
    <3>4. CASE m > j + 1
      <4>1. q[m] = p[m - 1] /\ m - 1 \in 0 .. n
        BY <1>1, <1>5, <3>4
      <4>2. i - 1 = m - 1
        BY <1>1, <1>8, <3>1, <4>1
      <4>3. QED
        BY <2>1, <4>2
    <3>5. QED
      BY <2>1, <3>2, <3>3, <3>4
  <2>5. QED
    BY <2>1, <2>2, <2>3, <2>4
<1>9. q[0] = Nil /\ n + 1 \in Nat
  BY <1>1, <1>5
<1>10. Order(q, n + 1)
  BY <1>6, <1>7, <1>8, <1>9 DEF Order
<1>11. ASSUME NEW x PROVE x \in Held(q, n + 1) <=> x \in Held(p, n) \cup {k}
  <2>1. ASSUME NEW i \in 1 .. n + 1, x = q[i] PROVE x \in Held(p, n) \cup {k}
    <3>1. i \in 0 .. n + 1 /\ (i <= j => i \in 1 .. n) /\ (i > j + 1 => i - 1 \in 1 .. n)
          /\ (i <= j \/ i = j + 1 \/ i > j + 1)
      BY <1>1
    <3>2. QED
      BY <1>5, <2>1, <3>1 DEF Held
  <2>2. ASSUME NEW i \in 1 .. n, x = p[i] PROVE \E m \in 1 .. n + 1 : x = q[m]
    <3>1. CASE i <= j
      <4>1. i \in 1 .. n + 1 /\ q[i] = p[i]
        BY <1>1, <1>5, <3>1
      <4>2. QED
        BY <2>2, <4>1
    <3>2. CASE i > j
      <4>1. i + 1 \in 1 .. n + 1 /\ i + 1 > j + 1 /\ (i + 1) - 1 = i /\ i + 1 \in 0 .. n + 1
        BY <1>1, <3>2
      <4>2. q[i + 1] = p[i]
        BY <1>5, <4>1
      <4>3. QED
        BY <2>2, <4>1, <4>2
    <3>3. QED
      BY <1>1, <3>1, <3>2
  <2>3. x = k => \E m \in 1 .. n + 1 : x = q[m]
    <3>1. j + 1 \in 1 .. n + 1
      BY <1>1
    <3>2. QED
      BY <1>2, <3>1 DEF IsPut
  <2>4. QED
    BY <2>1, <2>2, <2>3 DEF Held
<1>12. Held(q, n + 1) = Held(p, n) \cup {k}
  BY <1>11
<1>13. QED
  BY <1>2, <1>10, <1>12 DEF q

(* The list after k was linked in behind p[j]. *)
PutNext(t, u, p, n, j, k) ==
  /\ NextOf(u, p[j]) = k
  /\ NextOf(u, k) = IF j < n THEN p[j + 1] ELSE Null
  /\ \A m \in Entry \ {p[j], k} : NextOf(u, m) = NextOf(t, m)
  /\ TailOf(u) = IF j < n THEN TailOf(t) ELSE k

LEMMA PutLinks ==
  ASSUME Setting, NEW t, NEW p, NEW n, Order(p, n), Links(t, p, n), NEW j \in 0 .. n,
         NEW k \in Key, k \notin Held(p, n),
         NEW u, PutNext(t, u, p, n, j, k)
  PROVE  Links(u, Put(p, n, j, k), n + 1)
<1> DEFINE q == Put(p, n, j, k)
<1>1. /\ n \in Nat /\ \A i \in 0 .. n : p[i] \in Entry
      /\ \A i, m \in 0 .. n : p[i] = p[m] => i = m
  BY DEF Order
<1>2. \A i \in 0 .. j : q[i] = p[i]
  BY PutOrder DEF IsPut
<1>3. q[j + 1] = k
  BY PutOrder DEF IsPut
<1>4. \A i \in j + 2 .. n + 1 : q[i] = p[i - 1]
  BY PutOrder DEF IsPut
<1>5. Order(q, n + 1) /\ Held(q, n + 1) = Held(p, n) \cup {k}
  BY PutOrder
<1> HIDE DEF q
<1>6. \A i \in 0 .. n : p[i] # k
  <2>1. \A i \in 1 .. n : p[i] # k
    BY DEF Held
  <2>2. p[0] # k
    BY Pointers DEF Order
  <2>3. QED
    BY <1>1, <2>1, <2>2
<1>7. \A i \in 0 .. n : i # j => NextOf(u, p[i]) = NextOf(t, p[i])
  BY <1>1, <1>6 DEF PutNext
<1>8. ASSUME NEW i \in 0 .. n PROVE NextOf(u, q[i]) = q[i + 1]
  <2>1. CASE i < j
    <3>1. i \in 0 .. j /\ i + 1 \in 0 .. j /\ i \in 0 .. n - 1 /\ i # j
      BY <1>1, <2>1
    <3>2. QED
      BY <1>2, <1>7, <3>1 DEF Links
  <2>2. CASE i = j
    <3>1. i \in 0 .. j
      BY <2>2
    <3>2. QED
      BY <1>2, <1>3, <2>2, <3>1 DEF PutNext
  <2>3. CASE i = j + 1
    <3>1. j < n /\ i + 1 \in j + 2 .. n + 1 /\ (i + 1) - 1 = j + 1
      BY <1>1, <2>3
    <3>2. QED
      BY <1>3, <1>4, <2>3, <3>1 DEF PutNext
  <2>4. CASE i > j + 1
    <3>1. /\ i \in j + 2 .. n + 1 /\ i + 1 \in j + 2 .. n + 1 /\ (i + 1) - 1 = i
          /\ i - 1 \in 0 .. n - 1 /\ i - 1 \in 0 .. n /\ i - 1 # j /\ (i - 1) + 1 = i
      BY <1>1, <2>4
    <3>2. QED
      BY <1>4, <1>7, <3>1 DEF Links
  <2>5. QED
    BY <1>1, <2>1, <2>2, <2>3, <2>4
<1>9. NextOf(u, q[n + 1]) = Null /\ TailOf(u) = q[n + 1]
  <2>1. CASE j < n
    <3>1. n + 1 \in j + 2 .. n + 1 /\ (n + 1) - 1 = n /\ n \in 0 .. n /\ n # j
      BY <1>1, <2>1
    <3>2. QED
      BY <1>4, <1>7, <2>1, <3>1 DEF Links, PutNext
  <2>2. CASE j = n
    BY <1>3, <2>2 DEF PutNext
  <2>3. QED
    BY <1>1, <2>1, <2>2
<1>10. ASSUME NEW m \in Key \ Held(q, n + 1) PROVE NextOf(u, m) = Null
  <2>1. m \in Key \ Held(p, n) /\ m # k /\ m \in Entry
    BY <1>5, Pointers
  <2>2. m # p[j]
    <3>1. j = 0 => m # p[j]
      BY <2>1, Pointers DEF Order
    <3>2. j # 0 => m # p[j]
      BY <1>1, <2>1 DEF Held
    <3>3. QED
      BY <3>1, <3>2
  <2>3. QED
    BY <2>1, <2>2 DEF Links, PutNext
<1>11. (n + 1) - 1 = n
  BY <1>1
<1>12. \A i \in 0 .. (n + 1) - 1 : NextOf(u, q[i]) = q[i + 1]
  BY <1>8, <1>11
<1>13. Links(u, q, n + 1)
  BY <1>9, <1>10, <1>12 DEF Links
<1>14. QED
  BY <1>13 DEF q

(* An entry of bucket b may come after p[j]: no entry up to p[j] is in b,  *)
(* but for the nil entry itself, and what follows is in b or starts a run. *)
Fits(t, p, n, j, b) ==
  /\ \A i \in 0 .. j : Bk(t, p[i]) = b => i = 0 /\ j = 0
  /\ \A i \in j + 2 .. n : Bk(t, p[i]) = b => Bk(t, p[i - 1]) = b
  /\ j < n => \/ Bk(t, p[j + 1]) = b
              \/ \A i \in 0 .. j : Bk(t, p[i]) # Bk(t, p[j + 1])

(* The buckets after the entry k of bucket b came after p[j]. *)
PutBuckets(t, u, p, n, j, k, b) ==
  /\ Bk(t, p[j]) = b \/ BucketAt(u, b) = p[j]
  /\ j < n /\ Bk(t, p[j + 1]) # b => BucketAt(u, Bk(t, p[j + 1])) = k
  /\ \A c \in 0 .. CountOf(t) - 1 :
       c # b /\ (j < n => c # Bk(t, p[j + 1])) => BucketAt(u, c) = BucketAt(t, c)
  /\ \A c \in 0 .. CountOf(t) - 1 : BucketAt(u, c) \in {BucketAt(t, c), p[j], k}
  /\ BucketAt(u, 0) = Nil

LEMMA PutPlaces ==
  ASSUME NEW p, NEW n \in Nat, NEW j \in 0 .. n, NEW k, NEW q, IsPut(q, p, n, j, k),
         NEW i \in 0 .. n + 1
  PROVE  \/ i \in 0 .. j /\ i \in 0 .. n /\ q[i] = p[i]
         \/ i = j + 1 /\ q[i] = k
         \/ i \in j + 2 .. n + 1 /\ i - 1 \in j + 1 .. n /\ i - 1 \in 1 .. n /\ q[i] = p[i - 1]
  BY DEF IsPut

LEMMA PutTogether ==
  ASSUME Setting, NEW t, NEW p, NEW n, Order(p, n), Together(t, p, n), NEW j \in 0 .. n,
         NEW k \in Key, k \notin Held(p, n), Fits(t, p, n, j, Bk(t, k)),
         NEW u, CountOf(u) = CountOf(t)
  PROVE  Together(u, Put(p, n, j, k), n + 1)
<1> DEFINE q == Put(p, n, j, k)
           b == Bk(t, k)
<1>1. n \in Nat /\ j \in Nat /\ j <= n
  BY DEF Order
<1>2. IsPut(q, p, n, j, k)
  BY PutOrder
<1>3. \A m : Bk(u, m) = Bk(t, m)
  BY DEF Bk
<1> HIDE DEF q
<1>4. ASSUME NEW i \in 0 .. n + 1, NEW m \in 0 .. n + 1, i < m, Bk(t, q[i]) = Bk(t, q[m])
      PROVE  Bk(t, q[m - 1]) = Bk(t, q[m])
  <2>0. i \in Nat /\ m \in Nat /\ m - 1 \in 0 .. n + 1
    BY <1>1, <1>4
  <2>1. CASE m \in 0 .. j
    <3>1. q[m] = p[m] /\ q[i] = p[i] /\ q[m - 1] = p[m - 1] /\ m \in 0 .. n /\ i \in 0 .. n
      <4>1. i \in 0 .. j /\ m - 1 \in 0 .. j /\ m \in 0 .. n /\ i \in 0 .. n
        BY <1>1, <1>4, <2>0, <2>1
      <4>2. QED
        BY <1>2, <2>1, <4>1 DEF IsPut
    <3>2. QED
      BY <1>4, <3>1 DEF Together
  <2>2. CASE m = j + 1
    <3>1. i \in 0 .. j /\ m - 1 = j /\ j \in 0 .. j
      BY <1>1, <1>4, <2>0, <2>2
    <3>2. q[i] = p[i] /\ q[m - 1] = p[j] /\ q[m] = k
      BY <1>2, <2>2, <3>1 DEF IsPut
    <3>3. i = 0 /\ j = 0
      BY <1>4, <3>1, <3>2 DEF Fits
    <3>4. QED
      BY <1>4, <3>2, <3>3
  <2>3. CASE m = j + 2
    <3>1. /\ m - 1 = j + 1 /\ m \in j + 2 .. n + 1 /\ j < n /\ j + 1 \in 0 .. n
          /\ i \in 0 .. j \/ i = j + 1
      BY <1>1, <1>4, <2>0, <2>3
    <3>2. q[m] = p[j + 1] /\ q[m - 1] = k
      BY <1>2, <3>1 DEF IsPut
    <3>3. CASE i \in 0 .. j
      <4>1. q[i] = p[i]
        BY <1>2, <3>3 DEF IsPut
      <4>2. Bk(t, p[j + 1]) = b
        BY <1>4, <3>1, <3>2, <3>3, <4>1 DEF Fits
      <4>3. QED
        BY <3>2, <4>2
    <3>4. CASE i = j + 1
      BY <1>4, <3>1, <3>4
    <3>5. QED
      BY <3>1, <3>3, <3>4
  <2>4. CASE m \in j + 3 .. n + 1
    <3>1. /\ m \in j + 2 .. n + 1 /\ m - 1 \in j + 2 .. n + 1 /\ m - 1 \in 0 .. n
          /\ m - 1 \in j + 2 .. n /\ m - 2 \in 0 .. n /\ (m - 1) - 1 = m - 2
      BY <1>1, <2>4
    <3>2. q[m] = p[m - 1] /\ q[m - 1] = p[m - 2]
      BY <1>2, <3>1 DEF IsPut
    <3>3. CASE i = j + 1
      <4>1. Bk(t, p[m - 1]) = b
        BY <1>2, <1>4, <3>2, <3>3 DEF IsPut
      <4>2. Bk(t, p[(m - 1) - 1]) = b
        BY <3>1, <4>1 DEF Fits
      <4>3. QED
        BY <3>1, <3>2, <4>1, <4>2
    <3>4. CASE i \in 0 .. j
      <4>1. q[i] = p[i] /\ i \in 0 .. n /\ i < m - 1
        BY <1>1, <1>2, <2>0, <2>4, <3>4 DEF IsPut
      <4>2. Bk(t, p[(m - 1) - 1]) = Bk(t, p[m - 1])
        BY <1>4, <3>1, <3>2, <4>1 DEF Together
      <4>3. QED
        BY <3>1, <3>2, <4>2
    <3>5. CASE i \in j + 2 .. n + 1
      <4>1. q[i] = p[i - 1]
        BY <1>2, <3>5 DEF IsPut
      <4>2. i - 1 \in 0 .. n /\ i - 1 < m - 1
        BY <1>1, <1>4, <3>5
      <4>3. Bk(t, p[(m - 1) - 1]) = Bk(t, p[m - 1])
        BY <1>4, <3>1, <3>2, <4>1, <4>2 DEF Together
      <4>4. QED
        BY <3>1, <3>2, <4>3
    <3>6. QED
      BY <1>1, <2>0, <3>3, <3>4, <3>5
  <2>5. QED
    BY <1>1, <2>0, <2>1, <2>2, <2>3, <2>4
<1>5. Together(u, q, n + 1)
  BY <1>3, <1>4 DEF Together
<1>6. QED
  BY <1>5 DEF q

LEMMA PutStarts ==
  ASSUME Setting, NEW t, IsTable(t), NEW p, NEW n, Order(p, n), Together(t, p, n), Starts(t, p, n),
         NEW j \in 0 .. n, NEW k \in Key, k \notin Held(p, n), Fits(t, p, n, j, Bk(t, k)),
         NEW u, CountOf(u) = CountOf(t), PutBuckets(t, u, p, n, j, k, Bk(t, k))
  PROVE  Starts(u, Put(p, n, j, k), n + 1)
<1> DEFINE q == Put(p, n, j, k)
<1>1. n \in Nat /\ j \in Nat /\ j <= n /\ \A i \in 0 .. n : p[i] \in Entry
  BY DEF Order
<1>2. IsPut(q, p, n, j, k)
  BY PutOrder
<1>3. \A m : Bk(u, m) = Bk(t, m)
  BY DEF Bk
<1>4. PICK b : b = Bk(t, k)
  OBVIOUS
<1>5. \A i \in 0 .. n : Bk(t, p[i]) \in 0 .. CountOf(t) - 1
  BY <1>1, TableFields
<1> HIDE DEF q
<1>6. ASSUME NEW i \in 1 .. n + 1
      PROVE  Bk(t, q[i - 1]) = Bk(t, q[i]) \/ BucketAt(u, Bk(t, q[i])) = q[i - 1]
  <2>1. CASE i \in 1 .. j
    <3>1. i \in 0 .. j /\ i - 1 \in 0 .. j /\ i \in 1 .. n /\ i \in 0 .. n
      BY <1>1, <2>1
    <3>2. q[i] = p[i] /\ q[i - 1] = p[i - 1]
      BY <1>2, <3>1 DEF IsPut
    <3>3. Bk(t, p[i]) # b
      BY <1>4, <2>1, <3>1 DEF Fits
    <3>4. CASE j < n /\ Bk(t, p[i]) = Bk(t, p[j + 1])
      BY <1>4, <3>1, <3>3, <3>4 DEF Fits
    <3>5. CASE ~(j < n /\ Bk(t, p[i]) = Bk(t, p[j + 1]))
      <4>1. BucketAt(u, Bk(t, p[i])) = BucketAt(t, Bk(t, p[i]))
        BY <1>4, <1>5, <3>1, <3>3, <3>5 DEF PutBuckets
      <4>2. QED
        BY <3>1, <3>2, <4>1 DEF Starts
    <3>6. QED
      BY <3>4, <3>5
  <2>2. CASE i = j + 1
    <3>1. i - 1 = j /\ j \in 0 .. j
      BY <1>1, <2>2
    <3>2. q[i] = k /\ q[i - 1] = p[j]
      BY <1>2, <2>2, <3>1 DEF IsPut
    <3>3. QED
      BY <3>2 DEF PutBuckets
  <2>3. CASE i = j + 2
    <3>1. i - 1 = j + 1 /\ i \in j + 2 .. n + 1 /\ j < n
      BY <1>1, <2>3
    <3>2. q[i] = p[j + 1] /\ q[i - 1] = k
      BY <1>2, <3>1 DEF IsPut
    <3>3. QED
      BY <3>1, <3>2 DEF PutBuckets
  <2>4. CASE i \in j + 3 .. n + 1
    <3>1. /\ i \in j + 2 .. n + 1 /\ i - 1 \in j + 2 .. n + 1 /\ i - 1 \in 1 .. n /\ i - 1 \in 0 .. n
          /\ i - 1 \in j + 2 .. n /\ (i - 1) - 1 = i - 2 /\ j < n /\ j + 1 < i - 1 /\ j + 1 \in 0 .. n
      BY <1>1, <2>4
    <3>2. q[i] = p[i - 1] /\ q[i - 1] = p[i - 2]
      BY <1>2, <3>1 DEF IsPut
    <3>3. CASE Bk(t, p[i - 1]) = b
      <4>1. Bk(t, p[(i - 1) - 1]) = b
        BY <1>4, <3>1, <3>3 DEF Fits
      <4>2. QED
        BY <3>1, <3>2, <3>3, <4>1
    <3>4. CASE Bk(t, p[i - 1]) = Bk(t, p[j + 1])
      <4>1. Bk(t, p[(i - 1) - 1]) = Bk(t, p[i - 1])
        BY <3>1, <3>4 DEF Together
      <4>2. QED
        BY <3>1, <3>2, <4>1
    <3>5. CASE Bk(t, p[i - 1]) # b /\ Bk(t, p[i - 1]) # Bk(t, p[j + 1])
      <4>1. BucketAt(u, Bk(t, p[i - 1])) = BucketAt(t, Bk(t, p[i - 1]))
        BY <1>4, <1>5, <3>1, <3>5 DEF PutBuckets
      <4>2. Bk(t, p[(i - 1) - 1]) = Bk(t, p[i - 1]) \/ BucketAt(t, Bk(t, p[i - 1])) = p[(i - 1) - 1]
        BY <3>1 DEF Starts
      <4>3. QED
        BY <3>1, <3>2, <4>1, <4>2
    <3>6. QED
      BY <3>3, <3>4, <3>5
  <2>5. QED
    BY <1>1, <2>1, <2>2, <2>3, <2>4
<1>7. Starts(u, q, n + 1)
  BY <1>3, <1>6 DEF Starts
<1>8. QED
  BY <1>7 DEF q

LEMMA PutSpare ==
  ASSUME Setting, NEW t, IsTable(t), NEW p, NEW n, Order(p, n), Spare(t, p, n),
         NEW j \in 0 .. n, NEW k \in Key, k \notin Held(p, n),
         NEW u, CountOf(u) = CountOf(t), PutBuckets(t, u, p, n, j, k, Bk(t, k))
  PROVE  Spare(u, Put(p, n, j, k), n + 1)
<1> DEFINE q == Put(p, n, j, k)
<1>1. n \in Nat /\ j \in Nat /\ j <= n /\ \A i \in 0 .. n : p[i] \in Entry
  BY DEF Order
<1>2. IsPut(q, p, n, j, k) /\ Held(q, n + 1) = Held(p, n) \cup {k}
  BY PutOrder
<1>3. \A m : Bk(u, m) = Bk(t, m)
  BY DEF Bk
<1> HIDE DEF q
<1>4. ASSUME NEW c \in 1 .. CountOf(t) - 1, Empty(u, q, n + 1, c)
      PROVE  BucketAt(u, c) \in {Null, Nil, Dangling}
  <2>1. Bk(t, k) # c
    <3>1. j + 1 \in 0 .. n + 1 /\ q[j + 1] = k
      BY <1>1, <1>2 DEF IsPut
    <3>2. QED
      BY <1>3, <1>4, <3>1 DEF Empty
  <2>2. ASSUME NEW i \in 0 .. n PROVE Bk(t, p[i]) # c
    <3>1. CASE i \in 0 .. j
      <4>1. i \in 0 .. n + 1 /\ q[i] = p[i]
        BY <1>1, <1>2, <3>1 DEF IsPut
      <4>2. QED
        BY <1>3, <1>4, <4>1 DEF Empty
    <3>2. CASE i \in j + 1 .. n
      <4>1. i + 1 \in j + 2 .. n + 1 /\ (i + 1) - 1 = i /\ i + 1 \in 0 .. n + 1
        BY <1>1, <3>2
      <4>2. q[i + 1] = p[i]
        BY <1>2, <4>1 DEF IsPut
      <4>3. QED
        BY <1>3, <1>4, <4>1, <4>2 DEF Empty
    <3>3. QED
      BY <1>1, <3>1, <3>2
  <2>3. Empty(t, p, n, c)
    BY <2>2 DEF Empty
  <2>4. j < n => c # Bk(t, p[j + 1])
    <3>1. j < n => j + 1 \in 0 .. n
      BY <1>1
    <3>2. QED
      BY <2>2, <3>1
  <2>5. c \in 0 .. CountOf(t) - 1
    BY <1>4, TableFields
  <2>6. BucketAt(u, c) = BucketAt(t, c)
    BY <2>1, <2>4, <2>5 DEF PutBuckets
  <2>7. QED
    BY <2>3, <2>6 DEF Spare
<1>5. ASSUME NEW c \in 1 .. CountOf(t) - 1, BucketAt(u, c) \in Key
      PROVE  BucketAt(u, c) \in Held(q, n + 1)
  <2>1. c \in 0 .. CountOf(t) - 1
    BY <1>5, TableFields
  <2>2. BucketAt(u, c) \in {BucketAt(t, c), p[j], k}
    BY <2>1 DEF PutBuckets
  <2>3. p[j] \in Key => p[j] \in Held(p, n)
    <3>1. j = 0 => p[j] \notin Key
      BY Pointers DEF Order
    <3>2. j # 0 => p[j] \in Held(p, n)
      BY <1>1 DEF Held
    <3>3. QED
      BY <3>1, <3>2
  <2>4. QED
    BY <1>2, <1>5, <2>2, <2>3 DEF Spare
<1>6. BucketAt(u, 0) = Nil
  BY DEF PutBuckets
<1>7. Spare(u, q, n + 1)
  BY <1>4, <1>5, <1>6 DEF Spare
<1>8. QED
  BY <1>7 DEF q

LEMMA PutStrung ==
  ASSUME Setting, NEW t, IsTable(t), NEW p, NEW n, Strung(t, p, n), NEW j \in 0 .. n,
         NEW k \in Key, k \notin Held(p, n), Fits(t, p, n, j, Bk(t, k)),
         NEW u, CountOf(u) = CountOf(t), PutNext(t, u, p, n, j, k),
         PutBuckets(t, u, p, n, j, k, Bk(t, k))
  PROVE  Strung(u, Put(p, n, j, k), n + 1)
  BY PutOrder, PutLinks, PutTogether, PutStarts, PutSpare DEF Strung

-----------------------------------------------------------------------------
(* Writes. *)

(* A table with other buckets, links and tail. *)
Rewired(t, u, bs, nx, tl) ==
  u = [buckets |-> bs, bcount |-> t.bcount, next |-> nx, value |-> t.value, tail |-> tl, size |-> t.size]

LEMMA RewiredFields ==
  ASSUME Setting, NEW t, IsTable(t), NEW u, NEW bs, NEW nx, NEW tl, Rewired(t, u, bs, nx, tl),
         bs \in [0 .. t.bcount - 1 -> Pointer], nx \in [Entry -> Place], tl \in Entry
  PROVE  /\ IsTable(u)
         /\ CountOf(u) = CountOf(t) /\ SizeOf(u) = SizeOf(t) /\ ValuesOf(u) = ValuesOf(t)
         /\ TailOf(u) = tl
         /\ \A m : NextOf(u, m) = nx[m]
         /\ \A c : BucketAt(u, c) = bs[c]
<1>1. /\ u.buckets = bs /\ u.bcount = t.bcount /\ u.next = nx /\ u.value = t.value
      /\ u.tail = tl /\ u.size = t.size
  BY DEF Rewired
<1>2. u = [buckets |-> u.buckets, bcount |-> u.bcount, next |-> u.next,
           value |-> u.value, tail |-> u.tail, size |-> u.size]
  BY <1>1, Zenon DEF Rewired
<1>3. IsTable(u)
  BY <1>1, <1>2 DEF IsTable
<1>4. QED
  BY <1>1, <1>3 DEF CountOf, SizeOf, ValuesOf, TailOf, NextOf, BucketAt

(* One field at a time. *)
LEMMA FieldWrites ==
  ASSUME NEW t, IsTable(t) \/ \E t0, bs, nx, tl : Rewired(t0, t, bs, nx, tl), NEW a, NEW x
  PROVE  /\ Rewired(t, [t EXCEPT !.buckets[a] = x], [t.buckets EXCEPT ![a] = x], t.next, t.tail)
         /\ Rewired(t, [t EXCEPT !.next[a] = x], t.buckets, [t.next EXCEPT ![a] = x], t.tail)
         /\ Rewired(t, [t EXCEPT !.tail = x], t.buckets, t.next, x)
         /\ Rewired(t, [t EXCEPT !.buckets = x], x, t.next, t.tail)
         /\ Rewired(t, [t EXCEPT !.next = x], t.buckets, x, t.tail)
<1>1. PICK bs, c, nx, v, tl, sz :
        t = [buckets |-> bs, bcount |-> c, next |-> nx, value |-> v, tail |-> tl, size |-> sz]
  BY DEF IsTable, Rewired
<1>2. QED
  BY <1>1 DEF Rewired

LEMMA RewiredTwice ==
  ASSUME NEW t, NEW u, NEW w, NEW b1, NEW n1, NEW l1, NEW b2, NEW n2, NEW l2,
         Rewired(t, u, b1, n1, l1), Rewired(u, w, b2, n2, l2)
  PROVE  /\ Rewired(t, w, b2, n2, l2)
         /\ u.buckets = b1 /\ u.next = n1 /\ u.tail = l1
  BY DEF Rewired

LEMMA TailWrite ==
  ASSUME NEW t, IsTable(t), NEW b, NEW k
  PROVE  Rewired(t, [t EXCEPT !.buckets[b] = t.tail, !.next[t.tail] = k, !.tail = k],
                 [t.buckets EXCEPT ![b] = t.tail], [t.next EXCEPT ![t.tail] = k], k)
<1>1. PICK l : l = t.tail
  OBVIOUS
<1>2. PICK u : u = [t EXCEPT !.buckets[b] = l]
  OBVIOUS
<1>3. PICK w : w = [u EXCEPT !.next[l] = k]
  OBVIOUS
<1>4. PICK x : x = [w EXCEPT !.tail = k]
  OBVIOUS
<1>5. [t EXCEPT !.buckets[b] = l, !.next[l] = k, !.tail = k] = x
  BY <1>2, <1>3, <1>4
<1>6. Rewired(t, u, [t.buckets EXCEPT ![b] = l], t.next, t.tail)
  BY <1>2, FieldWrites
<1>7. Rewired(u, w, u.buckets, [u.next EXCEPT ![l] = k], u.tail)
  BY <1>3, <1>6, FieldWrites
<1>8. Rewired(w, x, w.buckets, w.next, k)
  BY <1>4, <1>7, FieldWrites
<1>9. Rewired(t, w, [t.buckets EXCEPT ![b] = l], [t.next EXCEPT ![l] = k], t.tail)
  BY <1>6, <1>7, RewiredTwice
<1>10. Rewired(t, x, [t.buckets EXCEPT ![b] = l], [t.next EXCEPT ![l] = k], k)
  BY <1>8, <1>9, RewiredTwice
<1>11. QED
  BY <1>1, <1>5, <1>10

LEMMA LinkWrite ==
  ASSUME NEW t, IsTable(t), NEW k
  PROVE  Rewired(t, [t EXCEPT !.next[t.tail] = k, !.tail = k],
                 t.buckets, [t.next EXCEPT ![t.tail] = k], k)
<1>1. PICK l : l = t.tail
  OBVIOUS
<1>2. PICK u : u = [t EXCEPT !.next[l] = k]
  OBVIOUS
<1>3. PICK w : w = [u EXCEPT !.tail = k]
  OBVIOUS
<1>4. [t EXCEPT !.next[l] = k, !.tail = k] = w
  BY <1>2, <1>3
<1>5. Rewired(t, u, t.buckets, [t.next EXCEPT ![l] = k], t.tail)
  BY <1>2, FieldWrites
<1>6. Rewired(u, w, u.buckets, u.next, k)
  BY <1>3, <1>5, FieldWrites
<1>7. Rewired(t, w, t.buckets, [t.next EXCEPT ![l] = k], k)
  BY <1>5, <1>6, RewiredTwice
<1>8. QED
  BY <1>1, <1>4, <1>7

LEMMA MiddleWrite ==
  ASSUME NEW t, IsTable(t), NEW e, NEW k, NEW x
  PROVE  Rewired(t, [t EXCEPT !.next[e] = k, !.next[k] = x],
                 t.buckets, [[t.next EXCEPT ![e] = k] EXCEPT ![k] = x], t.tail)
<1>1. PICK u : u = [t EXCEPT !.next[e] = k]
  OBVIOUS
<1>2. PICK w : w = [u EXCEPT !.next[k] = x]
  OBVIOUS
<1>3. [t EXCEPT !.next[e] = k, !.next[k] = x] = w
  BY <1>1, <1>2
<1>4. Rewired(t, u, t.buckets, [t.next EXCEPT ![e] = k], t.tail)
  BY <1>1, FieldWrites
<1>5. Rewired(u, w, u.buckets, [u.next EXCEPT ![k] = x], u.tail)
  BY <1>2, <1>4, FieldWrites
<1>6. QED
  BY <1>3, <1>4, <1>5, RewiredTwice

-----------------------------------------------------------------------------
(* add_entry. *)

LEMMA AddShape ==
  ASSUME Setting, NEW t, IsTable(t), NEW k \in Key, NEW b, b = Bk(t, k), NEW e, e = t.buckets[b]
  PROVE  /\ e = Null =>
              Rewired(t, AddEntry(t, k), [t.buckets EXCEPT ![b] = t.tail],
                      [t.next EXCEPT ![t.tail] = k], k)
         /\ e # Null /\ t.next[e] = Null =>
              Rewired(t, AddEntry(t, k), t.buckets, [t.next EXCEPT ![t.tail] = k], k)
         /\ e # Null /\ t.next[e] # Null /\ Bk(t, t.next[e]) # b =>
              Rewired(t, AddEntry(t, k), [t.buckets EXCEPT ![Bk(t, t.next[e])] = k],
                      [[t.next EXCEPT ![e] = k] EXCEPT ![k] = t.next[e]], t.tail)
         /\ e # Null /\ t.next[e] # Null /\ Bk(t, t.next[e]) = b =>
              Rewired(t, AddEntry(t, k), t.buckets,
                      [[t.next EXCEPT ![e] = k] EXCEPT ![k] = t.next[e]], t.tail)
<1>1. b = BucketFor(k, t.bcount) /\ \A m : Bk(t, m) = BucketOf(m, t.bcount)
  BY TableFields DEF Bk, CountOf
<1>2. ASSUME e = Null
      PROVE  AddEntry(t, k) = [t EXCEPT !.buckets[b] = t.tail, !.next[t.tail] = k, !.tail = k]
  BY <1>1, <1>2, Zenon DEF AddEntry
<1>3. ASSUME e # Null, t.next[e] = Null
      PROVE  AddEntry(t, k) = [t EXCEPT !.next[t.tail] = k, !.tail = k]
  BY <1>1, <1>3, Zenon DEF AddEntry
<1>4. ASSUME e # Null, t.next[e] # Null, Bk(t, t.next[e]) # b
      PROVE  AddEntry(t, k) = [[t EXCEPT !.buckets[Bk(t, t.next[e])] = k]
                                 EXCEPT !.next[e] = k, !.next[k] = t.next[e]]
  BY <1>1, <1>4, Zenon DEF AddEntry
<1>5. ASSUME e # Null, t.next[e] # Null, Bk(t, t.next[e]) = b
      PROVE  AddEntry(t, k) = [t EXCEPT !.next[e] = k, !.next[k] = t.next[e]]
  BY <1>1, <1>5, Zenon DEF AddEntry
<1>6. ASSUME NEW c, NEW x
      PROVE  Rewired(t, [[t EXCEPT !.buckets[c] = k] EXCEPT !.next[e] = k, !.next[k] = x],
                     [t.buckets EXCEPT ![c] = k],
                     [[t.next EXCEPT ![e] = k] EXCEPT ![k] = x], t.tail)
  <2>1. PICK u : u = [t EXCEPT !.buckets[c] = k]
    OBVIOUS
  <2>2. Rewired(t, u, [t.buckets EXCEPT ![c] = k], t.next, t.tail)
    BY <2>1, FieldWrites
  <2>3. Rewired(u, [u EXCEPT !.next[e] = k, !.next[k] = x],
                u.buckets, [[u.next EXCEPT ![e] = k] EXCEPT ![k] = x], u.tail)
    <3>1. PICK w : w = [u EXCEPT !.next[e] = k]
      OBVIOUS
    <3>2. PICK y : y = [w EXCEPT !.next[k] = x]
      OBVIOUS
    <3>3. [u EXCEPT !.next[e] = k, !.next[k] = x] = y
      BY <3>1, <3>2
    <3>4. Rewired(u, w, u.buckets, [u.next EXCEPT ![e] = k], u.tail)
      BY <2>2, <3>1, FieldWrites
    <3>5. Rewired(w, y, w.buckets, [w.next EXCEPT ![k] = x], w.tail)
      BY <3>2, <3>4, FieldWrites
    <3>6. QED
      BY <3>3, <3>4, <3>5, RewiredTwice
  <2>4. QED
    BY <2>1, <2>2, <2>3, RewiredTwice
<1>7. ASSUME e = Null
      PROVE  Rewired(t, AddEntry(t, k), [t.buckets EXCEPT ![b] = t.tail],
                     [t.next EXCEPT ![t.tail] = k], k)
  <2>1. Rewired(t, [t EXCEPT !.buckets[b] = t.tail, !.next[t.tail] = k, !.tail = k],
                [t.buckets EXCEPT ![b] = t.tail], [t.next EXCEPT ![t.tail] = k], k)
    BY TailWrite
  <2>2. QED
    BY <1>2, <1>7, <2>1, Zenon
<1>8. ASSUME e # Null, t.next[e] = Null
      PROVE  Rewired(t, AddEntry(t, k), t.buckets, [t.next EXCEPT ![t.tail] = k], k)
  <2>1. Rewired(t, [t EXCEPT !.next[t.tail] = k, !.tail = k],
                t.buckets, [t.next EXCEPT ![t.tail] = k], k)
    BY LinkWrite
  <2>2. QED
    BY <1>3, <1>8, <2>1, Zenon
<1>9. ASSUME e # Null, t.next[e] # Null, Bk(t, t.next[e]) # b
      PROVE  Rewired(t, AddEntry(t, k), [t.buckets EXCEPT ![Bk(t, t.next[e])] = k],
                     [[t.next EXCEPT ![e] = k] EXCEPT ![k] = t.next[e]], t.tail)
  <2>1. Rewired(t, [[t EXCEPT !.buckets[Bk(t, t.next[e])] = k]
                      EXCEPT !.next[e] = k, !.next[k] = t.next[e]],
                [t.buckets EXCEPT ![Bk(t, t.next[e])] = k],
                [[t.next EXCEPT ![e] = k] EXCEPT ![k] = t.next[e]], t.tail)
    BY <1>6
  <2>2. QED
    BY <1>4, <1>9, <2>1, Zenon
<1>10. ASSUME e # Null, t.next[e] # Null, Bk(t, t.next[e]) = b
       PROVE  Rewired(t, AddEntry(t, k), t.buckets,
                      [[t.next EXCEPT ![e] = k] EXCEPT ![k] = t.next[e]], t.tail)
  <2>1. Rewired(t, [t EXCEPT !.next[e] = k, !.next[k] = t.next[e]], t.buckets,
                [[t.next EXCEPT ![e] = k] EXCEPT ![k] = t.next[e]], t.tail)
    BY MiddleWrite
  <2>2. QED
    BY <1>5, <1>10, <2>1, Zenon
<1>11. QED
  BY <1>7, <1>8, <1>9, <1>10, Zenon

LEMMA TailFits ==
  ASSUME Setting, NEW t, IsTable(t), NEW p, NEW n, Strung(t, p, n), NEW b \in 0 .. CountOf(t) - 1,
         BucketAt(t, b) = Null
  PROVE  \A i \in 0 .. n : Bk(t, p[i]) # b
<1>1. n \in Nat /\ p[0] = Nil /\ \A i \in 0 .. n : p[i] \in Entry
  BY DEF Strung, Order
<1>2. b # 0
  BY Pointers DEF Strung, Spare
<1>3. Bk(t, p[0]) # b
  BY <1>1, <1>2, TableFields
<1>4. ASSUME NEW i \in 1 .. n PROVE Bk(t, p[i]) # b
  <2>1. PICK g \in 0 .. i - 1 : BucketAt(t, Bk(t, p[i])) = p[g]
    BY WalkStart
  <2>2. g \in 0 .. n
    BY <1>1
  <2>3. QED
    BY <1>1, <2>1, <2>2, Pointers
<1>5. QED
  BY <1>1, <1>3, <1>4

(* Before the first entry of a bucket that has some; or behind the nil     *)
(* entry, when the bucket has none but points there.                       *)
LEMMA FirstOfBucket ==
  ASSUME Setting, NEW t, IsTable(t), NEW p, NEW n, Strung(t, p, n), NEW b \in 0 .. CountOf(t) - 1,
         NEW g \in 0 .. n, BucketAt(t, b) = p[g]
  PROVE  /\ \A i \in 0 .. g : Bk(t, p[i]) = b => i = 0 /\ g = 0
         /\ \A i \in g + 2 .. n : Bk(t, p[i]) = b => Bk(t, p[i - 1]) = b
         /\ g < n /\ Bk(t, p[g + 1]) # b => g = 0 /\ \A i \in 1 .. n : Bk(t, p[i]) # b
         /\ g = n => g = 0
<1>1. /\ n \in Nat /\ p[0] = Nil /\ \A i \in 0 .. n : p[i] \in Entry
      /\ \A i, m \in 0 .. n : p[i] = p[m] => i = m
  BY DEF Strung, Order
<1>2. ASSUME NEW i \in 1 .. n, Bk(t, p[i]) = b
      PROVE  g < i /\ g < n /\ \A m \in g + 1 .. i : Bk(t, p[m]) = b
  <2>1. PICK h \in 0 .. i - 1 : /\ BucketAt(t, b) = p[h]
                                /\ \A m \in h + 1 .. i : Bk(t, p[m]) = b
    BY <1>2, WalkStart
  <2>2. h \in 0 .. n
    BY <1>1
  <2>3. h = g
    BY <1>1, <2>1, <2>2
  <2>4. QED
    BY <1>1, <2>1, <2>3
<1>3. ASSUME \A i \in 1 .. n : Bk(t, p[i]) # b PROVE g = 0
  <2>1. CASE b = 0
    <3>1. p[g] = p[0] /\ 0 \in 0 .. n
      BY <1>1, <2>1 DEF Strung, Spare
    <3>2. QED
      BY <1>1, <3>1
  <2>2. CASE b # 0
    <3>1. Empty(t, p, n, b)
      <4>1. Bk(t, p[0]) # b
        BY <1>1, <2>2, TableFields
      <4>2. \A i \in 0 .. n : i = 0 \/ i \in 1 .. n
        BY <1>1
      <4>3. QED
        BY <1>3, <4>1, <4>2 DEF Empty
    <3>2. b \in 1 .. CountOf(t) - 1
      BY <2>2, TableFields
    <3>3. p[g] \in {Null, Nil, Dangling}
      BY <3>1, <3>2 DEF Strung, Spare
    <3>4. p[g] = p[0] /\ 0 \in 0 .. n
      BY <1>1, <3>3, Pointers
    <3>5. QED
      BY <1>1, <3>4
  <2>3. QED
    BY <2>1, <2>2
<1>4. ASSUME NEW i \in 0 .. g, Bk(t, p[i]) = b PROVE i = 0 /\ g = 0
  <2>1. i = 0
    <3>1. i # 0 => i \in 1 .. n /\ ~(g < i)
      BY <1>1
    <3>2. QED
      BY <1>2, <1>4, <3>1
  <2>2. CASE \A m \in 1 .. n : Bk(t, p[m]) # b
    BY <1>3, <2>1, <2>2
  <2>3. CASE \E m \in 1 .. n : Bk(t, p[m]) = b
    <3>1. b = 0
      BY <1>1, <1>4, <2>1, TableFields
    <3>2. p[g] = p[0] /\ 0 \in 0 .. n
      BY <1>1, <3>1 DEF Strung, Spare
    <3>3. QED
      BY <1>1, <2>1, <3>2
  <2>4. QED
    BY <2>2, <2>3
<1>5. ASSUME NEW i \in g + 2 .. n, Bk(t, p[i]) = b PROVE Bk(t, p[i - 1]) = b
  <2>1. i \in 1 .. n /\ i - 1 \in g + 1 .. i
    BY <1>1
  <2>2. QED
    BY <1>2, <1>5, <2>1
<1>6. ASSUME g < n, Bk(t, p[g + 1]) # b PROVE g = 0 /\ \A i \in 1 .. n : Bk(t, p[i]) # b
  <2>1. ASSUME NEW i \in 1 .. n PROVE Bk(t, p[i]) # b
    <3>1. Bk(t, p[i]) = b => g + 1 \in g + 1 .. i
      BY <1>1, <1>2
    <3>2. QED
      BY <1>2, <1>6, <3>1
  <2>2. QED
    BY <1>3, <2>1
<1>7. ASSUME g = n PROVE g = 0
  BY <1>2, <1>3, <1>7
<1>8. QED
  BY <1>4, <1>5, <1>6, <1>7
(* Where the new entry may be put, and what is there. *)
LEMMA HeadEntry ==
  ASSUME Setting, NEW t, IsTable(t), NEW b \in 0 .. CountOf(t) - 1,
         BucketAt(t, b) \notin {Null, Dangling}
  PROVE  BucketAt(t, b) \in Entry
  BY TableFields, Pointers DEF Pointer

LEMMA AddEntryTable ==
  ASSUME Setting, NEW t, IsTable(t), NEW k \in Key, BucketAt(t, Bk(t, k)) # Dangling,
         NEW u, u = AddEntry(t, k)
  PROVE  /\ IsTable(u)
         /\ CountOf(u) = CountOf(t) /\ SizeOf(u) = SizeOf(t) /\ ValuesOf(u) = ValuesOf(t)
<1>1. PICK b : b = Bk(t, k)
  OBVIOUS
<1>2. PICK e : e = t.buckets[b]
  OBVIOUS
<1>3. /\ k \in Entry /\ k \in Pointer /\ k \in Place /\ Entry \subseteq Pointer /\ Entry \subseteq Place
  BY Pointers DEF Pointer, Place
<1>4. b \in 0 .. t.bcount - 1 /\ BucketAt(t, b) = e
  BY <1>1, <1>2, <1>3, TableFields DEF BucketAt
<1>5. /\ t.buckets \in [0 .. t.bcount - 1 -> Pointer] /\ t.next \in [Entry -> Place]
      /\ t.tail \in Entry
  BY DEF IsTable
<1>6. CASE e = Null
  <2>1. Rewired(t, u, [t.buckets EXCEPT ![b] = t.tail], [t.next EXCEPT ![t.tail] = k], k)
    BY <1>1, <1>2, <1>6, AddShape
  <2>2. [t.buckets EXCEPT ![b] = t.tail] \in [0 .. t.bcount - 1 -> Pointer]
    BY <1>3, <1>5
  <2>3. [t.next EXCEPT ![t.tail] = k] \in [Entry -> Place]
    BY <1>3, <1>5
  <2>4. QED
    BY <1>3, <2>1, <2>2, <2>3, RewiredFields
<1>7. CASE e # Null /\ t.next[e] = Null
  <2>1. Rewired(t, u, t.buckets, [t.next EXCEPT ![t.tail] = k], k)
    BY <1>1, <1>2, <1>7, AddShape
  <2>2. [t.next EXCEPT ![t.tail] = k] \in [Entry -> Place]
    BY <1>3, <1>5
  <2>3. QED
    BY <1>3, <1>5, <2>1, <2>2, RewiredFields
<1>8. CASE e # Null /\ t.next[e] # Null
  <2>1. e \in Entry
    BY <1>1, <1>4, <1>8, HeadEntry, TableFields
  <2>2. t.next[e] \in Entry /\ t.next[e] \in Place
    BY <1>5, <1>8, <2>1 DEF Place
  <2>3. [[t.next EXCEPT ![e] = k] EXCEPT ![k] = t.next[e]] \in [Entry -> Place]
    BY <1>3, <1>5, <2>2
  <2>4. [t.buckets EXCEPT ![Bk(t, t.next[e])] = k] \in [0 .. t.bcount - 1 -> Pointer]
    BY <1>3, <1>5
  <2>5. CASE Bk(t, t.next[e]) # b
    <3>1. Rewired(t, u, [t.buckets EXCEPT ![Bk(t, t.next[e])] = k],
                  [[t.next EXCEPT ![e] = k] EXCEPT ![k] = t.next[e]], t.tail)
      BY <1>1, <1>2, <1>8, <2>5, AddShape
    <3>2. QED
      BY <1>5, <2>3, <2>4, <3>1, RewiredFields
  <2>6. CASE Bk(t, t.next[e]) = b
    <3>1. Rewired(t, u, t.buckets, [[t.next EXCEPT ![e] = k] EXCEPT ![k] = t.next[e]], t.tail)
      BY <1>1, <1>2, <1>8, <2>6, AddShape
    <3>2. QED
      BY <1>5, <2>3, <3>1, RewiredFields
  <2>7. QED
    BY <2>5, <2>6
<1>9. QED
  BY <1>6, <1>7, <1>8

(* The entry lands behind some p[j], unless bucket 0 lost the nil entry.   *)
LEMMA AddEntryStrung ==
  ASSUME Setting, NEW t, IsTable(t), NEW p, NEW n, Strung(t, p, n),
         NEW k \in Key, k \notin Held(p, n), BucketAt(t, Bk(t, k)) # Dangling,
         NEW u, u = AddEntry(t, k), BucketAt(u, 0) = Nil
  PROVE  \E j \in 0 .. n : /\ Strung(u, Put(p, n, j, k), n + 1)
                           /\ PutBuckets(t, u, p, n, j, k, Bk(t, k))
<1>1. PICK b : b = Bk(t, k)
  OBVIOUS
<1>2. PICK e : e = t.buckets[b]
  OBVIOUS
<1>3. /\ n \in Nat /\ p[0] = Nil /\ \A i \in 0 .. n : p[i] \in Entry
      /\ \A i, m \in 0 .. n : p[i] = p[m] => i = m
  BY DEF Strung, Order
<1>4. /\ b \in 0 .. CountOf(t) - 1 /\ BucketAt(t, b) = e /\ CountOf(u) = CountOf(t)
      /\ k \in Entry /\ k # Nil
  BY <1>1, <1>2, Pointers, TableFields, AddEntryTable DEF BucketAt
<1>5. /\ \A i \in 0 .. n - 1 : NextOf(t, p[i]) = p[i + 1]
      /\ NextOf(t, p[n]) = Null /\ TailOf(t) = p[n] /\ NextOf(t, k) = Null
  BY DEF Strung, Links
<1>6. /\ t.buckets \in [0 .. CountOf(t) - 1 -> Pointer] /\ t.next \in [Entry -> Place]
      /\ t.tail = p[n] /\ t.tail \in Entry
      /\ \A m : NextOf(t, m) = t.next[m]
      /\ \A c : BucketAt(t, c) = t.buckets[c]
  BY <1>5 DEF IsTable, CountOf, TailOf, NextOf, BucketAt
<1>7. \A i \in 0 .. n : p[i] # k
  <2>1. \A i \in 1 .. n : p[i] # k
    BY DEF Held
  <2>2. QED
    BY <1>3, <1>4, <2>1
<1>8. \A bs, nx, tl : Rewired(t, u, bs, nx, tl) =>
        /\ TailOf(u) = tl
        /\ \A m : NextOf(u, m) = nx[m]
        /\ \A c : BucketAt(u, c) = bs[c]
  BY DEF Rewired, TailOf, NextOf, BucketAt
<1>9. ASSUME NEW j \in 0 .. n, Fits(t, p, n, j, b), PutNext(t, u, p, n, j, k),
             PutBuckets(t, u, p, n, j, k, b)
      PROVE  Strung(u, Put(p, n, j, k), n + 1) /\ PutBuckets(t, u, p, n, j, k, Bk(t, k))
  BY <1>1, <1>4, <1>9, PutStrung
<1>10. CASE e = Null
  <2>1. Rewired(t, u, [t.buckets EXCEPT ![b] = t.tail], [t.next EXCEPT ![t.tail] = k], k)
    BY <1>1, <1>2, <1>10, AddShape
  <2>2. n \in 0 .. n
    BY <1>3
  <2>3. Fits(t, p, n, n, b)
    BY <1>3, <1>4, <1>10, TailFits DEF Fits
  <2>4. /\ TailOf(u) = k
        /\ \A m \in Entry : NextOf(u, m) = IF m = p[n] THEN k ELSE NextOf(t, m)
        /\ \A c \in 0 .. CountOf(t) - 1 : BucketAt(u, c) = IF c = b THEN p[n] ELSE BucketAt(t, c)
    <3>1. /\ TailOf(u) = k
          /\ \A m : NextOf(u, m) = [t.next EXCEPT ![t.tail] = k][m]
          /\ \A c : BucketAt(u, c) = [t.buckets EXCEPT ![b] = t.tail][c]
      BY <1>8, <2>1
    <3>2. \A m \in Entry : NextOf(u, m) = IF m = p[n] THEN k ELSE NextOf(t, m)
      BY <1>6, <3>1
    <3>3. \A c \in 0 .. CountOf(t) - 1 : BucketAt(u, c) = IF c = b THEN p[n] ELSE BucketAt(t, c)
      BY <1>6, <3>1
    <3>4. QED
      BY <3>1, <3>2, <3>3
  <2>5. PutNext(t, u, p, n, n, k)
    <3>1. p[n] \in Entry /\ p[n] # k
      BY <1>3, <1>7, <2>2
    <3>2. QED
      BY <1>3, <1>4, <1>5, <2>4, <3>1 DEF PutNext
  <2>6. PutBuckets(t, u, p, n, n, k, b)
    BY <1>3, <1>4, <2>4 DEF PutBuckets
  <2>7. QED
    BY <1>9, <2>2, <2>3, <2>5, <2>6
<1>11. ASSUME e # Null PROVE \E g \in 0 .. n : e = p[g]
  BY <1>1, <1>4, <1>11, BucketHead
<1>12. CASE e # Null /\ t.next[e] = Null
  <2>1. PICK g \in 0 .. n : e = p[g]
    BY <1>11, <1>12
  <2>2. g = n
    <3>1. g # n => g \in 0 .. n - 1 /\ g + 1 \in 0 .. n
      BY <1>3
    <3>2. g # n => NextOf(t, p[g]) \in Entry
      BY <1>3, <1>5, <3>1
    <3>3. QED
      BY <1>6, <1>12, <2>1, <3>2, Pointers
  <2>3. n = 0
    BY <1>4, <2>1, <2>2, FirstOfBucket
  <2>4. Rewired(t, u, t.buckets, [t.next EXCEPT ![t.tail] = k], k)
    BY <1>1, <1>2, <1>12, AddShape
  <2>5. /\ TailOf(u) = k
        /\ \A m \in Entry : NextOf(u, m) = IF m = p[0] THEN k ELSE NextOf(t, m)
        /\ \A c \in 0 .. CountOf(t) - 1 : BucketAt(u, c) = BucketAt(t, c)
    BY <1>6, <1>8, <2>3, <2>4
  <2>6. 0 \in 0 .. n /\ e = p[0]
    BY <2>1, <2>2, <2>3
  <2>7. Fits(t, p, n, 0, b)
    BY <2>3 DEF Fits
  <2>8. PutNext(t, u, p, n, 0, k)
    <3>1. p[0] \in Entry /\ p[0] # k
      BY <1>3, <1>7, <2>6
    <3>2. QED
      BY <1>4, <1>5, <2>3, <2>5, <3>1 DEF PutNext
  <2>9. PutBuckets(t, u, p, n, 0, k, b)
    BY <1>4, <2>3, <2>5, <2>6 DEF PutBuckets
  <2>10. QED
    BY <1>9, <2>6, <2>7, <2>8, <2>9
<1>13. CASE e # Null /\ t.next[e] # Null
  <2>1. PICK g \in 0 .. n : e = p[g]
    BY <1>11, <1>13
  <2>2. g < n /\ g \in 0 .. n - 1 /\ g + 1 \in 0 .. n /\ t.next[e] = p[g + 1]
    <3>1. g # n
      BY <1>5, <1>6, <1>13, <2>1
    <3>2. g \in 0 .. n - 1 /\ g + 1 \in 0 .. n
      BY <1>3, <3>1
    <3>3. QED
      BY <1>3, <1>5, <1>6, <2>1, <3>2
  <2>3. PICK x : x = p[g + 1] /\ x \in Entry
    BY <1>3, <2>2
  <2>4. p[g] \in Entry /\ p[g] # k
    BY <1>3, <1>7
  <2>5. ASSUME NEW bs, Rewired(t, u, bs, [[t.next EXCEPT ![e] = k] EXCEPT ![k] = t.next[e]], t.tail)
        PROVE  PutNext(t, u, p, n, g, k) /\ \A c : BucketAt(u, c) = bs[c]
    <3>1. /\ TailOf(u) = t.tail
          /\ \A m : NextOf(u, m) = [[t.next EXCEPT ![e] = k] EXCEPT ![k] = t.next[e]][m]
          /\ \A c : BucketAt(u, c) = bs[c]
      BY <1>8, <2>5
    <3>2. \A m \in Entry : NextOf(u, m) = IF m = k THEN x ELSE IF m = p[g] THEN k ELSE NextOf(t, m)
      BY <1>4, <1>6, <2>1, <2>2, <2>3, <3>1
    <3>3. TailOf(u) = TailOf(t)
      BY <1>5, <1>6, <3>1
    <3>4. PutNext(t, u, p, n, g, k)
      BY <1>4, <2>2, <2>3, <2>4, <3>2, <3>3 DEF PutNext
    <3>5. QED
      BY <3>1, <3>4
  <2>6. CASE Bk(t, t.next[e]) # b
    <3>1. Rewired(t, u, [t.buckets EXCEPT ![Bk(t, t.next[e])] = k],
                  [[t.next EXCEPT ![e] = k] EXCEPT ![k] = t.next[e]], t.tail)
      BY <1>1, <1>2, <1>13, <2>6, AddShape
    <3>2. PutNext(t, u, p, n, g, k)
      BY <2>5, <3>1
    <3>3. PICK nb : nb = Bk(t, x)
      OBVIOUS
    <3>4. nb # b /\ nb \in 0 .. CountOf(t) - 1 /\ Bk(t, p[g + 1]) = nb
      BY <2>2, <2>3, <2>6, <3>3, TableFields
    <3>5. \A c : BucketAt(u, c) = [t.buckets EXCEPT ![nb] = k][c]
      BY <2>2, <2>3, <2>5, <3>1, <3>3
    <3>6. \A c \in 0 .. CountOf(t) - 1 : BucketAt(u, c) = IF c = nb THEN k ELSE BucketAt(t, c)
      BY <1>6, <3>5
    <3>7. g = 0 /\ \A i \in 1 .. n : Bk(t, p[i]) # b
      BY <1>4, <2>1, <2>2, <3>4, FirstOfBucket
    <3>8. nb # 0
      BY <1>4, <3>4, <3>6
    <3>9. Bk(t, p[0]) = 0
      BY <1>3, TableFields
    <3>10. Fits(t, p, n, g, b)
      <4>1. \A i \in 0 .. g : Bk(t, p[i]) = b => i = 0 /\ g = 0
        BY <3>7
      <4>2. \A i \in g + 2 .. n : Bk(t, p[i]) # b
        BY <1>3, <3>7
      <4>3. \A i \in 0 .. g : Bk(t, p[i]) # Bk(t, p[g + 1])
        BY <3>4, <3>7, <3>8, <3>9
      <4>4. QED
        BY <4>1, <4>2, <4>3 DEF Fits
    <3>11. PutBuckets(t, u, p, n, g, k, b)
      BY <1>4, <2>1, <2>2, <3>4, <3>6 DEF PutBuckets
    <3>12. QED
      BY <1>9, <3>2, <3>10, <3>11
  <2>7. CASE Bk(t, t.next[e]) = b
    <3>1. Rewired(t, u, t.buckets, [[t.next EXCEPT ![e] = k] EXCEPT ![k] = t.next[e]], t.tail)
      BY <1>1, <1>2, <1>13, <2>7, AddShape
    <3>2. PutNext(t, u, p, n, g, k) /\ \A c : BucketAt(u, c) = BucketAt(t, c)
      BY <1>6, <2>5, <3>1
    <3>3. Bk(t, p[g + 1]) = b
      BY <2>2, <2>7
    <3>4. Fits(t, p, n, g, b)
      BY <1>4, <2>1, <3>3, FirstOfBucket DEF Fits
    <3>5. PutBuckets(t, u, p, n, g, k, b)
      BY <1>4, <2>1, <3>2, <3>3 DEF PutBuckets
    <3>6. QED
      BY <1>9, <3>2, <3>4, <3>5
  <2>8. QED
    BY <2>6, <2>7
<1>14. QED
  BY <1>10, <1>12, <1>13

(* The entry that goes between the nil entry and the entries of bucket 0   *)
(* takes bucket 0 from the nil entry; every walk still reaches its run.    *)
LEMMA LostReached ==
  ASSUME Setting, NEW t, IsTable(t), NEW p, NEW n, Strung(t, p, n),
         NEW k \in Key, k \notin Held(p, n), BucketAt(t, Bk(t, k)) # Dangling,
         NEW u, u = AddEntry(t, k), BucketAt(u, 0) # Nil
  PROVE  Reached(u, Put(p, n, 0, k), n + 1)
<1>1. PICK b : b = Bk(t, k)
  OBVIOUS
<1>2. PICK e : e = t.buckets[b]
  OBVIOUS
<1>3. /\ n \in Nat /\ 0 \in 0 .. n /\ p[0] = Nil /\ \A i \in 0 .. n : p[i] \in Entry
      /\ \A i, m \in 0 .. n : p[i] = p[m] => i = m
  BY DEF Strung, Order
<1>4. /\ b \in 0 .. CountOf(t) - 1 /\ BucketAt(t, b) = e /\ CountOf(u) = CountOf(t)
      /\ k \in Entry /\ k # Nil /\ 0 \in 0 .. CountOf(t) - 1 /\ BucketAt(t, 0) = Nil
  BY <1>1, <1>2, Pointers, TableFields, AddEntryTable DEF BucketAt, Strung, Spare
<1>5. /\ \A i \in 0 .. n - 1 : NextOf(t, p[i]) = p[i + 1]
      /\ NextOf(t, p[n]) = Null /\ TailOf(t) = p[n]
  BY DEF Strung, Links
<1>6. /\ t.buckets \in [0 .. CountOf(t) - 1 -> Pointer] /\ t.next \in [Entry -> Place]
      /\ t.tail = p[n] /\ t.tail \in Entry
      /\ \A m : NextOf(t, m) = t.next[m]
      /\ \A c : BucketAt(t, c) = t.buckets[c]
  BY <1>5 DEF IsTable, CountOf, TailOf, NextOf, BucketAt
<1>7. \A bs, nx, tl : Rewired(t, u, bs, nx, tl) =>
        /\ TailOf(u) = tl
        /\ \A m : NextOf(u, m) = nx[m]
        /\ \A c : BucketAt(u, c) = bs[c]
  BY DEF Rewired, TailOf, NextOf, BucketAt
<1>8. e # Null /\ t.next[e] # Null /\ Bk(t, t.next[e]) # b
  <2>1. CASE e = Null
    <3>1. Rewired(t, u, [t.buckets EXCEPT ![b] = t.tail], [t.next EXCEPT ![t.tail] = k], k)
      BY <1>1, <1>2, <2>1, AddShape
    <3>2. BucketAt(u, 0) = [t.buckets EXCEPT ![b] = t.tail][0]
      BY <1>7, <3>1
    <3>3. b # 0
      BY <1>4, <2>1, Pointers
    <3>4. QED
      BY <1>4, <1>6, <3>2, <3>3
  <2>2. CASE e # Null /\ (t.next[e] = Null \/ Bk(t, t.next[e]) = b)
    <3>1. \/ Rewired(t, u, t.buckets, [t.next EXCEPT ![t.tail] = k], k)
          \/ Rewired(t, u, t.buckets, [[t.next EXCEPT ![e] = k] EXCEPT ![k] = t.next[e]], t.tail)
      BY <1>1, <1>2, <2>2, AddShape
    <3>2. BucketAt(u, 0) = t.buckets[0]
      BY <1>7, <3>1
    <3>3. QED
      BY <1>4, <1>6, <3>2
  <2>3. QED
    BY <2>1, <2>2
<1>9. PICK x : x = t.next[e]
  OBVIOUS
<1>10. PICK nb : nb = Bk(t, x)
  OBVIOUS
<1>11. Rewired(t, u, [t.buckets EXCEPT ![nb] = k], [[t.next EXCEPT ![e] = k] EXCEPT ![k] = x], t.tail)
  <2>1. Rewired(t, u, [t.buckets EXCEPT ![Bk(t, t.next[e])] = k],
                [[t.next EXCEPT ![e] = k] EXCEPT ![k] = t.next[e]], t.tail)
    BY <1>1, <1>2, <1>8, AddShape
  <2>2. QED
    BY <1>9, <1>10, <2>1, Zenon
<1>12. /\ TailOf(u) = t.tail
       /\ \A m : NextOf(u, m) = [[t.next EXCEPT ![e] = k] EXCEPT ![k] = x][m]
       /\ \A c : BucketAt(u, c) = [t.buckets EXCEPT ![nb] = k][c]
  BY <1>7, <1>11
<1>13. nb = 0 /\ nb # b
  <2>1. nb # 0 => BucketAt(u, 0) = BucketAt(t, 0)
    BY <1>4, <1>6, <1>12
  <2>2. QED
    BY <1>4, <1>8, <1>9, <1>10, <2>1
<1>14. PICK g \in 0 .. n : e = p[g]
  BY <1>1, <1>4, <1>8, BucketHead
<1>15. g < n /\ g \in 0 .. n - 1 /\ g + 1 \in 0 .. n /\ x = p[g + 1]
  <2>1. g # n
    BY <1>5, <1>6, <1>8, <1>14
  <2>2. g \in 0 .. n - 1 /\ g + 1 \in 0 .. n
    BY <1>3, <2>1
  <2>3. QED
    BY <1>3, <1>5, <1>6, <1>9, <1>14, <2>2
<1>16. g = 0 /\ \A i \in 1 .. n : Bk(t, p[i]) # b
  <2>1. BucketAt(t, b) = p[g] /\ Bk(t, p[g + 1]) # b
    BY <1>4, <1>10, <1>13, <1>14, <1>15
  <2>2. QED
    BY <1>4, <1>15, <2>1, FirstOfBucket
<1>17. /\ e = Nil /\ x = p[1] /\ 0 < n /\ 1 \in 0 .. n /\ x \in Entry /\ Bk(t, p[1]) = 0
       /\ Nil # k /\ Nil \in Entry /\ 0 + 1 = 1
  <2>1. g + 1 = 1
    BY <1>16
  <2>2. /\ e = p[0] /\ x = p[1] /\ 0 < n /\ 1 \in 0 .. n /\ Bk(t, p[1]) = 0
    BY <1>10, <1>13, <1>14, <1>15, <1>16, <2>1
  <2>3. Nil \in Entry /\ 0 + 1 = 1
    BY Pointers
  <2>4. QED
    BY <1>3, <1>4, <2>2, <2>3
<1>18. /\ \A m \in Entry : NextOf(u, m) = IF m = k THEN x ELSE IF m = Nil THEN k ELSE NextOf(t, m)
       /\ \A c \in 0 .. CountOf(t) - 1 : BucketAt(u, c) = IF c = 0 THEN k ELSE BucketAt(t, c)
       /\ TailOf(u) = TailOf(t)
  BY <1>4, <1>5, <1>6, <1>12, <1>13, <1>17
<1>19. PutNext(t, u, p, n, 0, k)
  BY <1>3, <1>4, <1>17, <1>18 DEF PutNext
<1>20. PICK q : q = Put(p, n, 0, k)
  OBVIOUS
<1>21. /\ IsPut(q, p, n, 0, k) /\ Order(q, n + 1) /\ Links(u, q, n + 1)
  BY <1>3, <1>19, <1>20, PutOrder, PutLinks DEF Strung
<1>22. /\ q[0] = Nil /\ q[1] = k /\ \A i \in 2 .. n + 1 : q[i] = p[i - 1]
       /\ \A m : Bk(u, m) = Bk(t, m)
  BY <1>3, <1>4, <1>21 DEF IsPut, Bk
<1>23. ASSUME NEW j \in 1 .. n + 1
       PROVE  \E f \in 0 .. j - 1 : /\ BucketAt(u, Bk(u, q[j])) = q[f]
                                     /\ \A m \in f + 1 .. j : Bk(u, q[m]) = Bk(u, q[j])
  <2>1. CASE j = 1
    <3>1. BucketAt(u, b) = Nil /\ Bk(u, q[1]) = b
      BY <1>1, <1>4, <1>13, <1>14, <1>17, <1>18, <1>22
    <3>2. 0 \in 0 .. j - 1 /\ \A m \in 0 + 1 .. j : m = 1
      BY <2>1
    <3>3. QED
      BY <1>22, <2>1, <3>1, <3>2
  <2>2. CASE j \in 2 .. n + 1
    <3>1. j - 1 \in 1 .. n /\ q[j] = p[j - 1]
      BY <1>3, <1>22, <2>2
    <3>2. PICK c : c = Bk(t, p[j - 1])
      OBVIOUS
    <3>3. PICK f \in 0 .. (j - 1) - 1 : /\ BucketAt(t, c) = p[f]
                                        /\ \A m \in f + 1 .. j - 1 : Bk(t, p[m]) = c
      BY <3>1, <3>2, WalkStart
    <3>4. f \in 0 .. n /\ c \in 0 .. CountOf(t) - 1
      BY <1>3, <3>1, <3>2, TableFields
    <3>5. ASSUME NEW m \in f + 2 .. j PROVE Bk(u, q[m]) = Bk(u, q[j])
      <4>1. m \in 2 .. n + 1 /\ m - 1 \in f + 1 .. j - 1
        BY <1>3, <3>3, <3>5
      <4>2. QED
        BY <1>22, <3>1, <3>2, <3>3, <4>1
    <3>6. f + 1 \in 0 .. j - 1 /\ (f + 1) + 1 = f + 2
      BY <3>3
    <3>7. BucketAt(u, c) = q[f + 1]
      <4>1. CASE c = 0
        <5>1. f = 0
          BY <1>3, <1>4, <3>3, <3>4, <4>1
        <5>2. QED
          BY <1>4, <1>18, <1>22, <4>1, <5>1
      <4>2. CASE c # 0
        <5>1. f # 0
          <6>1. f = 0 => 1 \in f + 1 .. j - 1
            BY <3>1
          <6>2. QED
            BY <1>17, <3>3, <4>2, <6>1
        <5>2. f + 1 \in 2 .. n + 1 /\ (f + 1) - 1 = f
          BY <1>3, <3>4, <5>1
        <5>3. QED
          BY <1>18, <1>22, <3>3, <3>4, <4>2, <5>2
      <4>3. QED
        BY <4>1, <4>2
    <3>8. Bk(u, q[j]) = c
      BY <1>22, <3>1, <3>2
    <3>9. QED
      BY <3>5, <3>6, <3>7, <3>8
  <2>3. QED
    BY <1>3, <2>1, <2>2
<1>24. ASSUME NEW c \in 0 .. CountOf(u) - 1
       PROVE  BucketAt(u, c) \in {Null, Dangling} \/ \E f \in 0 .. n + 1 : BucketAt(u, c) = q[f]
  <2>1. c \in 0 .. CountOf(t) - 1 /\ 0 \in 0 .. n + 1 /\ 1 \in 0 .. n + 1
    BY <1>3, <1>4
  <2>2. CASE c = 0
    BY <1>18, <1>22, <2>1, <2>2
  <2>3. CASE c # 0 /\ \E f \in 0 .. n : BucketAt(t, c) = p[f]
    <3>1. PICK f \in 0 .. n : BucketAt(t, c) = p[f]
      BY <2>3
    <3>2. BucketAt(u, c) = p[f]
      BY <1>18, <2>1, <2>3, <3>1
    <3>3. CASE f = 0
      BY <1>3, <1>22, <2>1, <3>2, <3>3
    <3>4. CASE f # 0
      <4>1. f + 1 \in 2 .. n + 1 /\ (f + 1) - 1 = f /\ f + 1 \in 0 .. n + 1
        BY <1>3, <3>4
      <4>2. q[f + 1] = p[f]
        BY <1>22, <4>1
      <4>3. QED
        BY <3>2, <4>1, <4>2
    <3>5. QED
      BY <3>3, <3>4
  <2>4. CASE c # 0 /\ BucketAt(t, c) \in {Null, Dangling}
    BY <1>18, <2>1, <2>4
  <2>5. QED
    BY <2>1, <2>2, <2>3, <2>4, BucketHead
<1>25. Reached(u, q, n + 1)
  BY <1>21, <1>23, <1>24 DEF Reached
<1>26. QED
  BY <1>20, <1>25

-----------------------------------------------------------------------------
(* An entry less. *)

Taken(p, n, j) == [i \in 0 .. n - 1 |-> IF i < j THEN p[i] ELSE p[i + 1]]

IsTaken(q, p, n, j) ==
  /\ \A i \in 0 .. j - 1 : q[i] = p[i]
  /\ \A i \in j .. n - 1 : q[i] = p[i + 1]

LEMMA TakenOrder ==
  ASSUME Setting, NEW p, NEW n, Order(p, n), NEW j \in 1 .. n
  PROVE  /\ IsTaken(Taken(p, n, j), p, n, j)
         /\ Order(Taken(p, n, j), n - 1)
         /\ Held(Taken(p, n, j), n - 1) = Held(p, n) \ {p[j]}
<1> DEFINE q == Taken(p, n, j)
<1>1. /\ n \in Nat /\ n - 1 \in Nat /\ p \in [0 .. n -> Entry] /\ p[0] = Nil
      /\ \A i \in 1 .. n : p[i] \in Key
      /\ \A i, m \in 0 .. n : p[i] = p[m] => i = m
  BY DEF Order
<1>2. IsTaken(q, p, n, j)
  BY <1>1 DEF Taken, IsTaken
<1>3. q = [i \in 0 .. n - 1 |-> q[i]]
  BY DEF Taken
<1> HIDE DEF q
<1>4. ASSUME NEW i \in 0 .. n - 1
      PROVE  \/ i < j /\ i \in 0 .. n /\ i \in 0 .. j - 1 /\ q[i] = p[i]
             \/ i >= j /\ i + 1 \in 1 .. n /\ i + 1 \in 0 .. n /\ q[i] = p[i + 1]
  BY <1>1, <1>2 DEF IsTaken
<1>5. q \in [0 .. n - 1 -> Entry]
  <2>1. \A i \in 0 .. n - 1 : q[i] \in Entry
    BY <1>1, <1>4
  <2>2. QED
    BY <1>3, <2>1
<1>6. q[0] = Nil
  BY <1>1, <1>4
<1>7. \A i \in 1 .. n - 1 : q[i] \in Key
  <2>1. ASSUME NEW i \in 1 .. n - 1 PROVE q[i] \in Key
    <3>1. i \in 0 .. n - 1 /\ i \in 1 .. n
      BY <1>1
    <3>2. QED
      BY <1>1, <1>4, <3>1
  <2>2. QED
    BY <2>1
<1>8. ASSUME NEW i \in 0 .. n - 1, NEW m \in 0 .. n - 1, q[i] = q[m] PROVE i = m
  BY <1>1, <1>4, <1>8
<1>9. Held(q, n - 1) = Held(p, n) \ {p[j]}
  <2>1. ASSUME NEW i \in 1 .. n - 1 PROVE q[i] \in Held(p, n) \ {p[j]}
    <3>1. i \in 0 .. n - 1 /\ i \in 1 .. n /\ i \in 0 .. n /\ j \in 0 .. n
      BY <1>1
    <3>2. CASE i < j
      <4>1. q[i] = p[i] /\ p[i] # p[j]
        BY <1>1, <1>4, <3>1, <3>2
      <4>2. QED
        BY <3>1, <4>1 DEF Held
    <3>3. CASE i >= j
      <4>1. q[i] = p[i + 1] /\ i + 1 \in 1 .. n /\ i + 1 \in 0 .. n /\ i + 1 # j
        BY <1>1, <1>4, <3>1, <3>3
      <4>2. p[i + 1] # p[j]
        BY <1>1, <3>1, <4>1
      <4>3. QED
        BY <4>1, <4>2 DEF Held
    <3>4. QED
      BY <1>1, <3>2, <3>3
  <2>2. ASSUME NEW i \in 1 .. n, p[i] # p[j] PROVE p[i] \in Held(q, n - 1)
    <3>1. CASE i < j
      <4>1. i \in 0 .. j - 1 /\ i \in 1 .. n - 1
        BY <1>1, <3>1
      <4>2. q[i] = p[i]
        BY <1>2, <4>1 DEF IsTaken
      <4>3. QED
        BY <4>1, <4>2 DEF Held
    <3>2. CASE i > j
      <4>1. i - 1 \in j .. n - 1 /\ i - 1 \in 1 .. n - 1 /\ (i - 1) + 1 = i
        BY <1>1, <3>2
      <4>2. q[i - 1] = p[i]
        BY <1>2, <4>1 DEF IsTaken
      <4>3. QED
        BY <4>1, <4>2 DEF Held
    <3>3. QED
      BY <1>1, <2>2, <3>1, <3>2
  <2>3. \A x \in Held(q, n - 1) : x \in Held(p, n) \ {p[j]}
    BY <2>1 DEF Held
  <2>4. \A x \in Held(p, n) \ {p[j]} : x \in Held(q, n - 1)
    <3>1. \A x \in Held(p, n) : \E i \in 1 .. n : x = p[i]
      BY DEF Held
    <3>2. QED
      BY <2>2, <3>1
  <2>5. QED
    BY <2>3, <2>4
<1>10. Order(q, n - 1)
  BY <1>1, <1>5, <1>6, <1>7, <1>8 DEF Order
<1>11. QED
  BY <1>2, <1>9, <1>10 DEF q

(* The list after p[j] was linked out. *)
TakeNext(t, u, p, n, j) ==
  /\ NextOf(u, p[j - 1]) = IF j < n THEN p[j + 1] ELSE Null
  /\ NextOf(u, p[j]) = Null
  /\ \A m \in Entry \ {p[j - 1], p[j]} : NextOf(u, m) = NextOf(t, m)
  /\ TailOf(u) = IF j < n THEN TailOf(t) ELSE p[j - 1]

LEMMA TakenLinks ==
  ASSUME Setting, NEW t, NEW p, NEW n, Order(p, n), Links(t, p, n), NEW j \in 1 .. n,
         NEW u, TakeNext(t, u, p, n, j)
  PROVE  Links(u, Taken(p, n, j), n - 1)
<1> DEFINE q == Taken(p, n, j)
<1>1. /\ n \in Nat /\ j \in Nat /\ n - 1 \in Nat /\ \A i \in 0 .. n : p[i] \in Entry
      /\ \A i, m \in 0 .. n : p[i] = p[m] => i = m
      /\ j \in 0 .. n /\ j - 1 \in 0 .. n
  BY DEF Order
<1>2. IsTaken(q, p, n, j) /\ Held(q, n - 1) = Held(p, n) \ {p[j]}
  BY TakenOrder
<1> HIDE DEF q
<1>3. ASSUME NEW i \in 0 .. n - 2 PROVE NextOf(u, q[i]) = q[i + 1]
  <2>1. CASE i < j - 1
    <3>1. i \in 0 .. j - 1 /\ i + 1 \in 0 .. j - 1 /\ i \in 0 .. n /\ i \in 0 .. n - 1 /\ i # j /\ i # j - 1
      BY <1>1, <2>1
    <3>2. q[i] = p[i] /\ q[i + 1] = p[i + 1]
      BY <1>2, <3>1 DEF IsTaken
    <3>3. p[i] \in Entry \ {p[j - 1], p[j]}
      BY <1>1, <3>1
    <3>4. NextOf(t, p[i]) = p[i + 1]
      BY <3>1 DEF Links
    <3>5. QED
      BY <3>2, <3>3, <3>4 DEF TakeNext
  <2>2. CASE i = j - 1
    <3>1. i \in 0 .. j - 1 /\ i + 1 = j /\ j < n /\ j \in j .. n - 1
      BY <1>1, <2>2
    <3>2. q[i] = p[j - 1] /\ q[i + 1] = p[j + 1]
      BY <1>2, <2>2, <3>1 DEF IsTaken
    <3>3. QED
      BY <3>1, <3>2 DEF TakeNext
  <2>3. CASE i > j - 1
    <3>1. /\ i \in j .. n - 1 /\ i + 1 \in j .. n - 1 /\ i + 1 \in 0 .. n - 1 /\ i + 1 \in 0 .. n
          /\ i + 1 # j /\ i + 1 # j - 1
      BY <1>1, <2>3
    <3>2. q[i] = p[i + 1] /\ q[i + 1] = p[(i + 1) + 1]
      BY <1>2, <3>1 DEF IsTaken
    <3>3. p[i + 1] \in Entry \ {p[j - 1], p[j]}
      BY <1>1, <3>1
    <3>4. NextOf(t, p[i + 1]) = p[(i + 1) + 1]
      BY <3>1 DEF Links
    <3>5. QED
      BY <3>2, <3>3, <3>4 DEF TakeNext
  <2>4. QED
    BY <1>1, <2>1, <2>2, <2>3
<1>4. NextOf(u, q[n - 1]) = Null /\ TailOf(u) = q[n - 1]
  <2>1. CASE j < n
    <3>1. n - 1 \in j .. n - 1 /\ (n - 1) + 1 = n /\ n \in 0 .. n /\ n # j /\ n # j - 1
      BY <1>1, <2>1
    <3>2. q[n - 1] = p[n]
      BY <1>2, <3>1 DEF IsTaken
    <3>3. p[n] \in Entry \ {p[j - 1], p[j]}
      BY <1>1, <3>1
    <3>4. NextOf(t, p[n]) = Null /\ TailOf(t) = p[n]
      BY DEF Links
    <3>5. QED
      BY <2>1, <3>2, <3>3, <3>4 DEF TakeNext
  <2>2. CASE j = n
    <3>1. n - 1 \in 0 .. j - 1 /\ ~(j < n)
      BY <1>1, <2>2
    <3>2. q[n - 1] = p[j - 1]
      BY <1>2, <2>2, <3>1 DEF IsTaken
    <3>3. QED
      BY <3>1, <3>2 DEF TakeNext
  <2>3. QED
    BY <1>1, <2>1, <2>2
<1>5. ASSUME NEW k \in Key \ Held(q, n - 1) PROVE NextOf(u, k) = Null
  <2>1. CASE k = p[j]
    BY <2>1 DEF TakeNext
  <2>2. CASE k # p[j]
    <3>1. k \notin Held(p, n)
      BY <1>2, <2>2
    <3>2. k # p[j - 1]
      <4>1. j - 1 = 0 => p[j - 1] \notin Key
        BY Pointers DEF Order
      <4>2. j - 1 # 0 => j - 1 \in 1 .. n
        BY <1>1
      <4>3. QED
        BY <3>1, <4>1, <4>2 DEF Held
    <3>3. k \in Entry \ {p[j - 1], p[j]}
      BY <2>2, <3>2, Pointers
    <3>4. NextOf(t, k) = Null
      BY <3>1 DEF Links
    <3>5. QED
      BY <3>3, <3>4 DEF TakeNext
  <2>3. QED
    BY <2>1, <2>2
<1>6. (n - 1) - 1 = n - 2
  BY <1>1
<1>7. Links(u, q, n - 1)
  BY <1>3, <1>4, <1>5, <1>6 DEF Links
<1>8. QED
  BY <1>7 DEF q

(* The buckets after p[j] of bucket b was freed: those that pointed to it  *)
(* dangle, its own is empty if it was the only entry there.                *)
TakeBuckets(t, u, p, n, j, b) ==
  /\ j < n /\ Bk(t, p[j + 1]) # b => BucketAt(u, Bk(t, p[j + 1])) = p[j - 1]
  /\ Bk(t, p[j - 1]) = b \/ (j < n /\ Bk(t, p[j + 1]) = b) => BucketAt(u, b) = BucketAt(t, b)
  /\ Bk(t, p[j - 1]) # b /\ (j < n => Bk(t, p[j + 1]) # b) => BucketAt(u, b) \in {Null, Nil}
  /\ \A c \in 0 .. CountOf(t) - 1 :
       c # b /\ (j < n => c # Bk(t, p[j + 1])) =>
         BucketAt(u, c) = IF BucketAt(t, c) = p[j] THEN Dangling ELSE BucketAt(t, c)

LEMMA TakenTogether ==
  ASSUME Setting, NEW t, NEW p, NEW n, Order(p, n), Together(t, p, n), NEW j \in 1 .. n,
         NEW u, CountOf(u) = CountOf(t)
  PROVE  Together(u, Taken(p, n, j), n - 1)
<1> DEFINE q == Taken(p, n, j)
<1>1. n \in Nat /\ j \in Nat /\ j \in 0 .. n
  BY DEF Order
<1>2. IsTaken(q, p, n, j)
  BY TakenOrder
<1>3. \A m : Bk(u, m) = Bk(t, m)
  BY DEF Bk
<1> HIDE DEF q
<1>4. ASSUME NEW i \in 0 .. n - 1, NEW m \in 0 .. n - 1, i < m, Bk(t, q[i]) = Bk(t, q[m])
      PROVE  Bk(t, q[m - 1]) = Bk(t, q[m])
  <2>0. PICK x : x = IF i < j THEN i ELSE i + 1
    OBVIOUS
  <2>1. x \in 0 .. n /\ q[i] = p[x] /\ ((i < j /\ x = i) \/ (i >= j /\ x = i + 1))
    <3>1. CASE i < j
      <4>1. i \in 0 .. j - 1 /\ i \in 0 .. n
        BY <1>1, <3>1
      <4>2. q[i] = p[i]
        BY <1>2, <4>1 DEF IsTaken
      <4>3. x = i
        BY <2>0, <3>1, Zenon
      <4>4. QED
        BY <3>1, <4>1, <4>2, <4>3, Zenon
    <3>2. CASE ~(i < j)
      <4>1. i \in j .. n - 1 /\ i + 1 \in 0 .. n /\ i >= j
        BY <1>1, <3>2
      <4>2. q[i] = p[i + 1]
        BY <1>2, <4>1 DEF IsTaken
      <4>3. x = i + 1
        BY <2>0, <3>2, Zenon
      <4>4. QED
        BY <3>2, <4>1, <4>2, <4>3, Zenon
    <3>3. QED
      BY <3>1, <3>2
  <2>2. CASE m < j
    <3>1. m \in 0 .. j - 1 /\ m - 1 \in 0 .. j - 1 /\ m \in 0 .. n /\ x < m
      BY <1>1, <1>4, <2>1, <2>2
    <3>2. q[m] = p[m] /\ q[m - 1] = p[m - 1]
      BY <1>2, <3>1 DEF IsTaken
    <3>3. QED
      BY <1>4, <2>1, <3>1, <3>2 DEF Together
  <2>3. CASE m = j
    <3>1. /\ m \in j .. n - 1 /\ m + 1 = j + 1 /\ m - 1 \in 0 .. j - 1 /\ j + 1 \in 0 .. n /\ x < j
          /\ x < j + 1 /\ (j + 1) - 1 = j
      BY <1>1, <1>4, <2>1, <2>3
    <3>2. q[m] = p[j + 1] /\ q[m - 1] = p[j - 1]
      BY <1>2, <2>3, <3>1 DEF IsTaken
    <3>3. Bk(t, p[j]) = Bk(t, p[j + 1])
      BY <1>4, <2>1, <3>1, <3>2 DEF Together
    <3>4. Bk(t, p[j - 1]) = Bk(t, p[j])
      BY <1>1, <1>4, <2>1, <3>1, <3>2, <3>3 DEF Together
    <3>5. QED
      BY <3>2, <3>3, <3>4
  <2>4. CASE m > j
    <3>1. /\ m \in j .. n - 1 /\ m - 1 \in j .. n - 1 /\ m + 1 \in 0 .. n /\ x < m + 1
          /\ (m - 1) + 1 = (m + 1) - 1
      BY <1>1, <1>4, <2>1, <2>4
    <3>2. q[m] = p[m + 1] /\ q[m - 1] = p[(m + 1) - 1]
      BY <1>2, <3>1 DEF IsTaken
    <3>3. QED
      BY <1>4, <2>1, <3>1, <3>2 DEF Together
  <2>5. QED
    BY <1>1, <2>2, <2>3, <2>4
<1>5. Together(u, q, n - 1)
  BY <1>3, <1>4 DEF Together
<1>6. QED
  BY <1>5 DEF q
LEMMA TakenStarts ==
  ASSUME Setting, NEW t, IsTable(t), NEW p, NEW n, Strung(t, p, n), NEW j \in 1 .. n,
         NEW u, CountOf(u) = CountOf(t), TakeBuckets(t, u, p, n, j, Bk(t, p[j]))
  PROVE  Starts(u, Taken(p, n, j), n - 1)
<1> DEFINE q == Taken(p, n, j)
<1>1. /\ n \in Nat /\ j \in Nat /\ j \in 0 .. n /\ \A i \in 0 .. n : p[i] \in Entry
      /\ \A i, m \in 0 .. n : p[i] = p[m] => i = m
  BY DEF Strung, Order
<1>2. IsTaken(q, p, n, j)
  BY TakenOrder DEF Strung
<1>3. \A m : Bk(u, m) = Bk(t, m)
  BY DEF Bk
<1>4. PICK b : b = Bk(t, p[j])
  OBVIOUS
<1>5. \A i \in 0 .. n : Bk(t, p[i]) \in 0 .. CountOf(t) - 1
  BY <1>1, TableFields
<1>6. Together(t, p, n) /\ Starts(t, p, n)
  BY DEF Strung
<1> HIDE DEF q
<1>7. ASSUME NEW i \in 1 .. n, i # j, Bk(t, p[i - 1]) # Bk(t, p[i]), Bk(t, p[i]) # b,
             j < n => Bk(t, p[i]) # Bk(t, p[j + 1]), i - 1 # j
      PROVE  BucketAt(u, Bk(t, p[i])) = p[i - 1]
  <2>1. i \in 0 .. n /\ i - 1 \in 0 .. n
    BY <1>1
  <2>2. BucketAt(t, Bk(t, p[i])) = p[i - 1]
    BY <1>6, <1>7 DEF Starts
  <2>3. p[i - 1] # p[j]
    BY <1>1, <1>7, <2>1
  <2>4. QED
    BY <1>4, <1>5, <1>7, <2>1, <2>2, <2>3 DEF TakeBuckets
<1>8. ASSUME NEW i \in 1 .. n - 1
      PROVE  Bk(t, q[i - 1]) = Bk(t, q[i]) \/ BucketAt(u, Bk(t, q[i])) = q[i - 1]
  <2>1. CASE i < j
    <3>1. /\ i \in 0 .. j - 1 /\ i - 1 \in 0 .. j - 1 /\ i \in 1 .. n /\ i \in 0 .. n /\ i - 1 # j
          /\ i # j
      BY <1>1, <2>1
    <3>2. q[i] = p[i] /\ q[i - 1] = p[i - 1]
      BY <1>2, <3>1 DEF IsTaken
    <3>3. CASE Bk(t, p[i]) = b
      <4>1. Bk(t, p[j - 1]) = b
        BY <1>1, <1>4, <1>6, <2>1, <3>1, <3>3 DEF Together
      <4>2. BucketAt(u, b) = BucketAt(t, b)
        BY <1>4, <4>1 DEF TakeBuckets
      <4>3. QED
        BY <1>6, <3>1, <3>2, <3>3, <4>2 DEF Starts
    <3>4. CASE j < n /\ Bk(t, p[i]) = Bk(t, p[j + 1]) /\ Bk(t, p[i]) # b
      <4>1. j + 1 \in 0 .. n /\ i < j + 1 /\ (j + 1) - 1 = j
        BY <1>1, <2>1, <3>4
      <4>2. Bk(t, p[j]) = Bk(t, p[j + 1])
        BY <1>6, <3>1, <3>4, <4>1 DEF Together
      <4>3. QED
        BY <1>4, <3>4, <4>2
    <3>5. CASE Bk(t, p[i]) # b /\ ~(j < n /\ Bk(t, p[i]) = Bk(t, p[j + 1]))
      BY <1>7, <3>1, <3>2, <3>5
    <3>6. QED
      BY <3>3, <3>4, <3>5
  <2>2. CASE i = j
    <3>1. j < n /\ j \in j .. n - 1 /\ j - 1 \in 0 .. j - 1
      BY <1>1, <2>2
    <3>2. q[i] = p[j + 1] /\ q[i - 1] = p[j - 1]
      BY <1>2, <2>2, <3>1 DEF IsTaken
    <3>3. CASE Bk(t, p[j + 1]) = b
      <4>1. BucketAt(u, b) = BucketAt(t, b)
        BY <1>4, <3>1, <3>3 DEF TakeBuckets
      <4>2. Bk(t, p[j - 1]) = b \/ BucketAt(t, b) = p[j - 1]
        BY <1>4, <1>6 DEF Starts
      <4>3. QED
        BY <3>2, <3>3, <4>1, <4>2
    <3>4. CASE Bk(t, p[j + 1]) # b
      BY <1>4, <3>1, <3>2, <3>4 DEF TakeBuckets
    <3>5. QED
      BY <3>3, <3>4
  <2>3. CASE i > j
    <3>1. /\ i \in j .. n - 1 /\ i - 1 \in j .. n - 1 /\ i + 1 \in 1 .. n /\ i + 1 \in 0 .. n
          /\ (i - 1) + 1 = (i + 1) - 1 /\ (i + 1) - 1 = i /\ i + 1 # j /\ i # j /\ j < i + 1
          /\ j < n /\ j + 1 < i + 1 /\ j + 1 \in 0 .. n
      BY <1>1, <2>3
    <3>2. q[i] = p[i + 1] /\ q[i - 1] = p[(i + 1) - 1]
      BY <1>2, <3>1 DEF IsTaken
    <3>3. CASE Bk(t, p[i + 1]) = b
      <4>1. Bk(t, p[(i + 1) - 1]) = Bk(t, p[i + 1])
        BY <1>1, <1>4, <1>6, <3>1, <3>3 DEF Together
      <4>2. QED
        BY <3>2, <4>1
    <3>4. CASE Bk(t, p[i + 1]) = Bk(t, p[j + 1])
      <4>1. Bk(t, p[(i + 1) - 1]) = Bk(t, p[i + 1])
        BY <1>6, <3>1, <3>4 DEF Together
      <4>2. QED
        BY <3>2, <4>1
    <3>5. CASE Bk(t, p[i + 1]) # b /\ Bk(t, p[i + 1]) # Bk(t, p[j + 1])
      <4>1. PICK m \in 1 .. n : m = i + 1
        BY <3>1
      <4>2. Bk(t, p[m - 1]) = Bk(t, p[m]) \/ BucketAt(u, Bk(t, p[m])) = p[m - 1]
        BY <1>7, <3>1, <3>5, <4>1
      <4>3. QED
        BY <3>2, <4>1, <4>2
    <3>6. QED
      BY <3>3, <3>4, <3>5
  <2>4. QED
    BY <1>1, <2>1, <2>2, <2>3
<1>9. Starts(u, q, n - 1)
  BY <1>3, <1>8 DEF Starts
<1>10. QED
  BY <1>9 DEF q

LEMMA TakenSpare ==
  ASSUME Setting, NEW t, IsTable(t), NEW p, NEW n, Strung(t, p, n), NEW j \in 1 .. n,
         NEW u, CountOf(u) = CountOf(t), TakeBuckets(t, u, p, n, j, Bk(t, p[j]))
  PROVE  Spare(u, Taken(p, n, j), n - 1)
<1> DEFINE q == Taken(p, n, j)
<1>1. /\ n \in Nat /\ j \in Nat /\ j \in 0 .. n /\ j - 1 \in 0 .. n /\ j - 1 < j
      /\ \A i \in 0 .. n : p[i] \in Entry
      /\ \A i, m \in 0 .. n : p[i] = p[m] => i = m
      /\ p[0] = Nil /\ 0 \in 0 .. n /\ 0 < j /\ \A i \in 1 .. n : p[i] \in Key
  BY DEF Strung, Order
<1>2. IsTaken(q, p, n, j) /\ Held(q, n - 1) = Held(p, n) \ {p[j]}
  BY TakenOrder DEF Strung
<1>3. \A m : Bk(u, m) = Bk(t, m)
  BY DEF Bk
<1>4. PICK b : b = Bk(t, p[j])
  OBVIOUS
<1>5. b \in 0 .. CountOf(t) - 1 /\ Bk(t, p[0]) = 0
  BY <1>1, <1>4, TableFields
<1>6. Together(t, p, n) /\ Spare(t, p, n)
  BY DEF Strung
<1>7. BucketAt(t, b) # p[j]
  <2>1. PICK g \in 0 .. j - 1 : BucketAt(t, b) = p[g]
    BY <1>4, WalkStart
  <2>2. g \in 0 .. n /\ g # j
    BY <1>1
  <2>3. QED
    BY <1>1, <2>1, <2>2
<1> HIDE DEF q
<1>8. BucketAt(u, 0) = Nil
  <2>1. CASE b = 0
    <3>1. Bk(t, p[j - 1]) = b
      BY <1>1, <1>4, <1>5, <1>6, <2>1 DEF Together
    <3>2. BucketAt(u, b) = BucketAt(t, b)
      BY <1>4, <3>1 DEF TakeBuckets
    <3>3. QED
      BY <1>6, <2>1, <3>2 DEF Spare
  <2>2. CASE b # 0
    <3>1. j < n => Bk(t, p[j + 1]) # 0
      <4>1. j < n => j + 1 \in 0 .. n /\ 0 < j + 1 /\ (j + 1) - 1 = j
        BY <1>1
      <4>2. QED
        BY <1>1, <1>4, <1>5, <1>6, <2>2, <4>1 DEF Together
    <3>2. 0 \in 0 .. CountOf(t) - 1
      BY TableFields
    <3>3. BucketAt(t, 0) = Nil /\ Nil # p[j]
      BY <1>1, <1>6, Pointers DEF Spare
    <3>4. QED
      BY <1>4, <2>2, <3>1, <3>2, <3>3 DEF TakeBuckets
  <2>3. QED
    BY <2>1, <2>2
<1>9. ASSUME NEW c \in 1 .. CountOf(t) - 1
      PROVE  \/ j < n /\ c = Bk(t, p[j + 1]) /\ c # b /\ BucketAt(u, c) = p[j - 1]
             \/ c = b /\ (Bk(t, p[j - 1]) = b \/ (j < n /\ Bk(t, p[j + 1]) = b))
                  /\ BucketAt(u, c) = BucketAt(t, c)
             \/ c = b /\ BucketAt(u, c) \in {Null, Nil}
             \/ c # b /\ BucketAt(t, c) # p[j] /\ BucketAt(u, c) = BucketAt(t, c)
             \/ c # b /\ BucketAt(u, c) = Dangling
  <2>1. c \in 0 .. CountOf(t) - 1
    BY <1>9, TableFields
  <2>2. QED
    BY <1>4, <2>1 DEF TakeBuckets
<1>10. ASSUME NEW c \in 1 .. CountOf(t) - 1, Empty(u, q, n - 1, c)
       PROVE  BucketAt(u, c) \in {Null, Nil, Dangling}
  <2>1. ASSUME NEW i \in 0 .. n, i # j PROVE Bk(t, p[i]) # c
    <3>1. CASE i < j
      <4>1. i \in 0 .. j - 1 /\ i \in 0 .. n - 1
        BY <1>1, <3>1
      <4>2. q[i] = p[i]
        BY <1>2, <4>1 DEF IsTaken
      <4>3. QED
        BY <1>3, <1>10, <4>1, <4>2 DEF Empty
    <3>2. CASE i > j
      <4>1. i - 1 \in j .. n - 1 /\ i - 1 \in 0 .. n - 1 /\ (i - 1) + 1 = i
        BY <1>1, <3>2
      <4>2. q[i - 1] = p[i]
        BY <1>2, <4>1 DEF IsTaken
      <4>3. QED
        BY <1>3, <1>10, <4>1, <4>2 DEF Empty
    <3>3. QED
      BY <1>1, <2>1, <3>1, <3>2
  <2>2. Bk(t, p[j - 1]) # c /\ (j < n => Bk(t, p[j + 1]) # c)
    <3>1. j - 1 # j /\ (j < n => j + 1 \in 0 .. n /\ j + 1 # j)
      BY <1>1
    <3>2. QED
      BY <1>1, <2>1, <3>1
  <2>3. c # b => Empty(t, p, n, c)
    BY <1>4, <2>1 DEF Empty
  <2>4. c # b => BucketAt(t, c) \in {Null, Nil, Dangling}
    BY <1>6, <2>3 DEF Spare
  <2>5. QED
    BY <1>9, <2>2, <2>4
<1>11. ASSUME NEW c \in 1 .. CountOf(t) - 1, BucketAt(u, c) \in Key
       PROVE  BucketAt(u, c) \in Held(p, n) \ {p[j]}
  <2>1. p[j - 1] # p[j]
    BY <1>1
  <2>2. p[j - 1] \in Key => p[j - 1] \in Held(p, n)
    <3>1. j - 1 = 0 => p[j - 1] \notin Key
      BY <1>1, Pointers
    <3>2. j - 1 # 0 => j - 1 \in 1 .. n
      BY <1>1
    <3>3. QED
      BY <3>1, <3>2 DEF Held
  <2>3. BucketAt(t, c) \in Key => BucketAt(t, c) \in Held(p, n)
    BY <1>6 DEF Spare
  <2>4. BucketAt(u, c) \notin {Null, Nil, Dangling}
    BY <1>11, Pointers
  <2>5. QED
    BY <1>7, <1>9, <1>11, <2>1, <2>2, <2>3, <2>4
<1>12. Spare(u, q, n - 1)
  BY <1>2, <1>8, <1>10, <1>11 DEF Spare
<1>13. QED
  BY <1>12 DEF q

LEMMA TakenStrung ==
  ASSUME Setting, NEW t, IsTable(t), NEW p, NEW n, Strung(t, p, n), NEW j \in 1 .. n,
         NEW u, CountOf(u) = CountOf(t), TakeNext(t, u, p, n, j),
         TakeBuckets(t, u, p, n, j, Bk(t, p[j]))
  PROVE  Strung(u, Taken(p, n, j), n - 1)
  BY TakenOrder, TakenLinks, TakenTogether, TakenStarts, TakenSpare DEF Strung

-----------------------------------------------------------------------------
(* erase_entry. *)

Made(u, bs, c, nx, v, tl, sz) ==
  u = [buckets |-> bs, bcount |-> c, next |-> nx, value |-> v, tail |-> tl, size |-> sz]

LEMMA MadeFields ==
  ASSUME Setting, NEW u, NEW bs, NEW c, NEW nx, NEW v, NEW tl, NEW sz, Made(u, bs, c, nx, v, tl, sz),
         c \in Nat, c >= MinBuckets, bs \in [0 .. c - 1 -> Pointer], nx \in [Entry -> Place],
         v = [k \in DOMAIN v |-> v[k]], DOMAIN v \subseteq Key, tl \in Entry, sz \in Int
  PROVE  /\ IsTable(u)
         /\ CountOf(u) = c /\ SizeOf(u) = sz /\ ValuesOf(u) = v /\ TailOf(u) = tl
         /\ \A m : NextOf(u, m) = nx[m]
         /\ \A d : BucketAt(u, d) = bs[d]
<1>1. /\ u.buckets = bs /\ u.bcount = c /\ u.next = nx /\ u.value = v
      /\ u.tail = tl /\ u.size = sz
  BY DEF Made
<1>2. u = [buckets |-> u.buckets, bcount |-> u.bcount, next |-> u.next,
           value |-> u.value, tail |-> u.tail, size |-> u.size]
  BY <1>1, Zenon DEF Made
<1>3. IsTable(u)
  BY <1>1, <1>2 DEF IsTable
<1>4. QED
  BY <1>1, <1>3 DEF CountOf, SizeOf, ValuesOf, TailOf, NextOf, BucketAt

LEMMA MadeWrites ==
  ASSUME NEW t, NEW bs, NEW c, NEW nx, NEW v, NEW tl, NEW sz, Made(t, bs, c, nx, v, tl, sz),
         NEW a, NEW x
  PROVE  /\ Made([t EXCEPT !.buckets[a] = x], [bs EXCEPT ![a] = x], c, nx, v, tl, sz)
         /\ Made([t EXCEPT !.next[a] = x], bs, c, [nx EXCEPT ![a] = x], v, tl, sz)
         /\ Made([t EXCEPT !.buckets = x], x, c, nx, v, tl, sz)
         /\ Made([t EXCEPT !.next = x], bs, c, x, v, tl, sz)
         /\ Made([t EXCEPT !.value = x], bs, c, nx, x, tl, sz)
         /\ Made([t EXCEPT !.tail = x], bs, c, nx, v, x, sz)
         /\ Made([t EXCEPT !.size = x], bs, c, nx, v, tl, x)
         /\ Made([t EXCEPT !.bcount = x], bs, x, nx, v, tl, sz)
  BY DEF Made

LEMMA MadeOfFields ==
  ASSUME NEW t, IsTable(t)
  PROVE  Made(t, t.buckets, t.bcount, t.next, t.value, t.tail, t.size)
  BY Zenon DEF Made, IsTable

FreedValues(t, s) == [x \in DOMAIN t.value \ s |-> t.value[x]]
FreedNext(t, s) == [n \in Entry |-> IF n \in s THEN Null ELSE t.next[n]]
FreedBuckets(t, s) ==
  [b \in DOMAIN t.buckets |-> IF t.buckets[b] \in s THEN Dangling ELSE t.buckets[b]]

LEMMA FreedShape ==
  ASSUME NEW t, IsTable(t), NEW s
  PROVE  Made(Freed(t, s), FreedBuckets(t, s), t.bcount, FreedNext(t, s), FreedValues(t, s),
              t.tail, t.size)
<1>1. PICK fv : fv = FreedValues(t, s)
  OBVIOUS
<1>2. PICK fn : fn = FreedNext(t, s)
  OBVIOUS
<1>3. PICK fb : fb = FreedBuckets(t, s)
  OBVIOUS
<1>4. Freed(t, s) = [t EXCEPT !.value = fv, !.next = fn, !.buckets = fb]
  BY <1>1, <1>2, <1>3, Zenon DEF Freed, FreedValues, FreedNext, FreedBuckets
<1>5. PICK u : u = [t EXCEPT !.value = fv]
  OBVIOUS
<1>6. PICK w : w = [u EXCEPT !.next = fn]
  OBVIOUS
<1>7. PICK y : y = [w EXCEPT !.buckets = fb]
  OBVIOUS
<1>8. [t EXCEPT !.value = fv, !.next = fn, !.buckets = fb] = y
  BY <1>5, <1>6, <1>7
<1>9. Made(u, t.buckets, t.bcount, t.next, fv, t.tail, t.size)
  BY <1>5, MadeOfFields, MadeWrites
<1>10. Made(w, t.buckets, t.bcount, fn, fv, t.tail, t.size)
  BY <1>6, <1>9, MadeWrites
<1>11. Made(y, fb, t.bcount, fn, fv, t.tail, t.size)
  BY <1>7, <1>10, MadeWrites
<1>12. QED
  BY <1>1, <1>2, <1>3, <1>4, <1>8, <1>11, Zenon

LEMMA FreedFields ==
  ASSUME Setting, NEW t, IsTable(t), NEW s, s \subseteq Key
  PROVE  /\ FreedBuckets(t, s) \in [0 .. t.bcount - 1 -> Pointer]
         /\ \A c \in 0 .. CountOf(t) - 1 :
              FreedBuckets(t, s)[c] = IF BucketAt(t, c) \in s THEN Dangling ELSE BucketAt(t, c)
         /\ FreedNext(t, s) \in [Entry -> Place]
         /\ \A m \in Entry : FreedNext(t, s)[m] = IF m \in s THEN Null ELSE NextOf(t, m)
         /\ FreedValues(t, s) = [k \in DOMAIN FreedValues(t, s) |-> FreedValues(t, s)[k]]
         /\ DOMAIN FreedValues(t, s) = DOMAIN ValuesOf(t) \ s
<1>1. t.buckets \in [0 .. t.bcount - 1 -> Pointer] /\ t.next \in [Entry -> Place]
  BY DEF IsTable
<1>2. Null \in Place /\ Dangling \in Pointer
  BY DEF Place, Pointer
<1>3. FreedBuckets(t, s) \in [0 .. t.bcount - 1 -> Pointer]
  BY <1>1, <1>2 DEF FreedBuckets
<1>4. \A c \in 0 .. CountOf(t) - 1 :
        FreedBuckets(t, s)[c] = IF BucketAt(t, c) \in s THEN Dangling ELSE BucketAt(t, c)
  BY <1>1 DEF FreedBuckets, BucketAt, CountOf
<1>5. FreedNext(t, s) \in [Entry -> Place]
  BY <1>1, <1>2 DEF FreedNext
<1>6. \A m \in Entry : FreedNext(t, s)[m] = IF m \in s THEN Null ELSE NextOf(t, m)
  BY <1>1 DEF FreedNext, NextOf
<1>7. DOMAIN FreedValues(t, s) = DOMAIN ValuesOf(t) \ s
  BY DEF FreedValues, ValuesOf
<1>8. FreedValues(t, s) = [k \in DOMAIN FreedValues(t, s) |-> FreedValues(t, s)[k]]
  BY DEF FreedValues
<1>9. QED
  BY <1>3, <1>4, <1>5, <1>6, <1>7, <1>8

(* What u holds it maps as t does. *)
KeepsValues(t, u) == \A y \in DOMAIN ValuesOf(u) : ValuesOf(u)[y] = ValuesOf(t)[y]

LEMMA EraseStrung ==
  ASSUME Setting, NEW t, IsTable(t), NEW p, NEW n, Strung(t, p, n), NEW j \in 1 .. n,
         NEW u, u = EraseEntry(t, p[j - 1], Bk(t, p[j]))
  PROVE  /\ IsTable(u)
         /\ CountOf(u) = CountOf(t) /\ SizeOf(u) = SizeOf(t) - 1
         /\ DOMAIN ValuesOf(u) = DOMAIN ValuesOf(t) \ {p[j]}
         /\ KeepsValues(t, u)
         /\ Strung(u, Taken(p, n, j), n - 1)
<1>1. /\ n \in Nat /\ j \in Nat /\ j \in 0 .. n /\ j - 1 \in 0 .. n /\ j - 1 # j
      /\ \A i \in 0 .. n : p[i] \in Entry
      /\ \A i, m \in 0 .. n : p[i] = p[m] => i = m
      /\ p[j] \in Key /\ p[0] = Nil
  BY DEF Strung, Order
<1>2. PICK b : b = Bk(t, p[j])
  OBVIOUS
<1>3. PICK e : e = p[j - 1]
  OBVIOUS
<1>4. PICK x : x = IF j < n THEN p[j + 1] ELSE Null
  OBVIOUS
<1>5. PICK k : k = p[j]
  OBVIOUS
<1>6. PICK fb : fb = FreedBuckets(t, {k})
  OBVIOUS
<1>7. PICK fn : fn = FreedNext(t, {k})
  OBVIOUS
<1>8. PICK fv : fv = FreedValues(t, {k})
  OBVIOUS
<1>9. PICK nx : nx = [fn EXCEPT ![e] = x]
  OBVIOUS
<1>10. NextOf(t, e) = k /\ NextOf(t, k) = x
  <2>1. j - 1 \in 0 .. n - 1 /\ (j - 1) + 1 = j
    BY <1>1
  <2>2. NextOf(t, e) = k
    BY <1>3, <1>5, <2>1 DEF Strung, Links
  <2>3. j < n => j \in 0 .. n - 1
    BY <1>1
  <2>4. ~(j < n) => j = n
    BY <1>1
  <2>5. NextOf(t, k) = x
    BY <1>4, <1>5, <2>3, <2>4 DEF Strung, Links
  <2>6. QED
    BY <2>2, <2>5
<1>11. k = t.next[e] /\ x = t.next[k]
  BY <1>10 DEF NextOf
<1>12. PICK f : f = Freed(t, {k})
  OBVIOUS
<1>13. PICK w : w = [f EXCEPT !.next[e] = x, !.size = t.size - 1]
  OBVIOUS
<1>14. Made(f, fb, t.bcount, fn, fv, t.tail, t.size)
  BY <1>6, <1>7, <1>8, <1>12, FreedShape
<1>15. Made(w, fb, t.bcount, nx, fv, t.tail, t.size - 1)
  <2>1. PICK y : y = [f EXCEPT !.next[e] = x]
    OBVIOUS
  <2>2. w = [y EXCEPT !.size = t.size - 1]
    BY <1>13, <2>1
  <2>3. Made(y, fb, t.bcount, nx, fv, t.tail, t.size)
    BY <1>9, <1>14, <2>1, MadeWrites
  <2>4. QED
    BY <2>2, <2>3, MadeWrites
<1>16. /\ fb \in [0 .. t.bcount - 1 -> Pointer]
       /\ \A c \in 0 .. CountOf(t) - 1 : fb[c] = IF BucketAt(t, c) = k THEN Dangling ELSE BucketAt(t, c)
       /\ fn \in [Entry -> Place]
       /\ \A m \in Entry : fn[m] = IF m = k THEN Null ELSE NextOf(t, m)
       /\ fv = [y \in DOMAIN fv |-> fv[y]] /\ DOMAIN fv = DOMAIN ValuesOf(t) \ {k}
  <2>1. {k} \subseteq Key
    BY <1>1, <1>5
  <2>2. PICK s : s = {k}
    OBVIOUS
  <2>3. /\ fb \in [0 .. t.bcount - 1 -> Pointer]
        /\ \A c \in 0 .. CountOf(t) - 1 :
             fb[c] = IF BucketAt(t, c) \in s THEN Dangling ELSE BucketAt(t, c)
        /\ fn \in [Entry -> Place]
        /\ \A m \in Entry : fn[m] = IF m \in s THEN Null ELSE NextOf(t, m)
        /\ fv = [y \in DOMAIN fv |-> fv[y]] /\ DOMAIN fv = DOMAIN ValuesOf(t) \ s
    <3>1. fb = FreedBuckets(t, s) /\ fn = FreedNext(t, s) /\ fv = FreedValues(t, s) /\ s \subseteq Key
      BY <1>6, <1>7, <1>8, <2>1, <2>2
    <3>2. QED
      <4>1. /\ FreedBuckets(t, s) \in [0 .. t.bcount - 1 -> Pointer]
            /\ \A c \in 0 .. CountOf(t) - 1 :
                 FreedBuckets(t, s)[c] = IF BucketAt(t, c) \in s THEN Dangling ELSE BucketAt(t, c)
            /\ FreedNext(t, s) \in [Entry -> Place]
            /\ \A m \in Entry : FreedNext(t, s)[m] = IF m \in s THEN Null ELSE NextOf(t, m)
            /\ FreedValues(t, s) = [y \in DOMAIN FreedValues(t, s) |-> FreedValues(t, s)[y]]
            /\ DOMAIN FreedValues(t, s) = DOMAIN ValuesOf(t) \ s
        BY <3>1, FreedFields
      <4>2. QED
        BY <3>1, <4>1, Zenon
  <2>4. \A y : y \in s <=> y = k
    BY <2>2
  <2>5. QED
    BY <2>2, <2>3, <2>4
<1>17. /\ e \in Entry /\ e # k /\ k \in Entry /\ k \in Key /\ x \in Place
       /\ e \in Pointer /\ Null \in Pointer /\ (x # Null => j < n /\ x = p[j + 1] /\ j + 1 \in 0 .. n)
       /\ (x = Null => j = n)
  <2>1. j < n => j + 1 \in 0 .. n
    BY <1>1
  <2>2. QED
    BY <1>1, <1>3, <1>4, <1>5, <2>1, Pointers DEF Place, Pointer
<1>18. nx \in [Entry -> Place] /\ \A m \in Entry : nx[m] = IF m = e THEN x ELSE fn[m]
  BY <1>9, <1>16, <1>17
<1>19. /\ CountOf(t) = t.bcount /\ t.bcount \in Nat /\ t.bcount >= MinBuckets /\ SizeOf(t) = t.size
       /\ t.size \in Int /\ t.size - 1 \in Int /\ TailOf(t) = t.tail /\ t.tail \in Entry
       /\ DOMAIN ValuesOf(t) \subseteq Key
       /\ TailOf(t) = p[n]
  BY DEF IsTable, CountOf, SizeOf, TailOf, ValuesOf, Strung, Links
<1>20. b \in 0 .. CountOf(t) - 1 /\ \A i \in 0 .. n : Bk(t, p[i]) \in 0 .. CountOf(t) - 1
  BY <1>1, <1>2, TableFields
<1>21. BucketAt(t, b) # k /\ fb[b] = BucketAt(t, b)
  <2>1. PICK g \in 0 .. j - 1 : BucketAt(t, b) = p[g]
    BY <1>2, WalkStart
  <2>2. g \in 0 .. n /\ g # j
    BY <1>1
  <2>3. BucketAt(t, b) # k
    BY <1>1, <1>5, <2>1, <2>2
  <2>4. QED
    BY <1>16, <1>20, <2>3
<1>22. ASSUME NEW bs, NEW tl, Made(u, bs, t.bcount, nx, fv, tl, t.size - 1),
              bs \in [0 .. t.bcount - 1 -> Pointer], tl \in Entry,
              tl = IF j < n THEN TailOf(t) ELSE e,
              (\A c : BucketAt(u, c) = bs[c]) => TakeBuckets(t, u, p, n, j, b)
       PROVE  /\ IsTable(u)
              /\ CountOf(u) = CountOf(t) /\ SizeOf(u) = SizeOf(t) - 1
              /\ DOMAIN ValuesOf(u) = DOMAIN ValuesOf(t) \ {p[j]}
              /\ KeepsValues(t, u)
              /\ Strung(u, Taken(p, n, j), n - 1)
  <2>1. /\ IsTable(u)
        /\ CountOf(u) = t.bcount /\ SizeOf(u) = t.size - 1 /\ ValuesOf(u) = fv /\ TailOf(u) = tl
        /\ \A m : NextOf(u, m) = nx[m]
        /\ \A c : BucketAt(u, c) = bs[c]
    BY <1>16, <1>18, <1>19, <1>22, MadeFields
  <2>2. TakeNext(t, u, p, n, j)
    <3>1. NextOf(u, p[j - 1]) = IF j < n THEN p[j + 1] ELSE Null
      BY <1>3, <1>4, <1>17, <1>18, <2>1
    <3>2. NextOf(u, p[j]) = Null
      BY <1>5, <1>16, <1>17, <1>18, <2>1
    <3>3. \A m \in Entry \ {p[j - 1], p[j]} : NextOf(u, m) = NextOf(t, m)
      BY <1>3, <1>5, <1>16, <1>18, <2>1
    <3>4. QED
      BY <1>3, <1>22, <2>1, <3>1, <3>2, <3>3 DEF TakeNext
  <2>3. Strung(u, Taken(p, n, j), n - 1)
    BY <1>2, <1>19, <1>22, <2>1, <2>2, TakenStrung
  <2>4. \A y \in DOMAIN fv : fv[y] = ValuesOf(t)[y]
    BY <1>8 DEF FreedValues, ValuesOf
  <2>5. QED
    BY <1>5, <1>16, <1>19, <2>1, <2>3, <2>4 DEF KeepsValues
<1>23. PICK eb : eb = BucketOf(e, t.bcount)
  OBVIOUS
<1>24. PICK nb : nb = BucketOf(x, t.bcount)
  OBVIOUS
<1>25. /\ b = BucketOf(k, t.bcount) /\ eb = Bk(t, p[j - 1])
       /\ (j < n => nb = Bk(t, p[j + 1]) /\ nb \in 0 .. CountOf(t) - 1)
  <2>1. j < n => j + 1 \in 0 .. n
    BY <1>1
  <2>2. QED
    BY <1>2, <1>3, <1>4, <1>5, <1>19, <1>20, <1>23, <1>24, <2>1 DEF Bk
<1>26. PICK em : em = IF e = f.buckets[0] THEN e ELSE Null
  OBVIOUS
<1>27. em \in {Null, Nil} /\ em \in Pointer
  <2>1. f.buckets = fb
    BY <1>14 DEF Made
  <2>2. BucketAt(t, 0) = Nil /\ 0 \in 0 .. CountOf(t) - 1 /\ Nil # k
    BY <1>17, TableFields, Pointers DEF Strung, Spare
  <2>3. f.buckets[0] = Nil
    BY <1>16, <2>1, <2>2
  <2>4. QED
    BY <1>26, <2>3, Pointers DEF Pointer
<1>28. /\ x = Null /\ eb # b => u = [w EXCEPT !.buckets[b] = Null, !.tail = e]
       /\ x = Null /\ eb = b => u = [w EXCEPT !.tail = e]
       /\ x # Null /\ b = nb => u = w
       /\ x # Null /\ b # nb /\ eb # b => u = [w EXCEPT !.buckets[b] = em, !.buckets[nb] = e]
       /\ x # Null /\ b # nb /\ eb = b => u = [w EXCEPT !.buckets[nb] = e]
  <2>1. u = EraseEntry(t, e, b)
    BY <1>2, <1>3
  <2>2. /\ x = Null /\ eb # b =>
              EraseEntry(t, e, b) = [w EXCEPT !.buckets[b] = Null, !.tail = e]
        /\ x = Null /\ eb = b => EraseEntry(t, e, b) = [w EXCEPT !.tail = e]
        /\ x # Null /\ b = nb => EraseEntry(t, e, b) = w
        /\ x # Null /\ b # nb /\ eb # b =>
              EraseEntry(t, e, b) = [w EXCEPT !.buckets[b] = IF e = f.buckets[0] THEN e ELSE Null,
                                             !.buckets[nb] = e]
        /\ x # Null /\ b # nb /\ eb = b => EraseEntry(t, e, b) = [w EXCEPT !.buckets[nb] = e]
    <3>1. b = BucketOf(k, t.bcount)
      BY <1>25
    <3>2. QED
      BY <1>11, <1>12, <1>13, <1>23, <1>24, <3>1 DEF EraseEntry
  <2>3. QED
    BY <1>26, <2>1, <2>2, Zenon
<1>29. CASE x = Null /\ eb # b
  <2>1. PICK bs : bs = [fb EXCEPT ![b] = Null]
    OBVIOUS
  <2>2. PICK y : y = [w EXCEPT !.buckets[b] = Null]
    OBVIOUS
  <2>3. u = [y EXCEPT !.tail = e]
    BY <1>28, <1>29, <2>2
  <2>4. Made(y, bs, t.bcount, nx, fv, t.tail, t.size - 1)
    BY <1>15, <2>1, <2>2, MadeWrites
  <2>5. Made(u, bs, t.bcount, nx, fv, e, t.size - 1)
    <3>1. Made([y EXCEPT !.tail = e], bs, t.bcount, nx, fv, e, t.size - 1)
      BY <2>4, MadeWrites
    <3>2. QED
      BY <2>3, <3>1, Zenon
  <2>6. /\ bs \in [0 .. t.bcount - 1 -> Pointer]
        /\ \A c \in 0 .. CountOf(t) - 1 : bs[c] = IF c = b THEN Null ELSE fb[c]
    BY <1>16, <1>17, <1>19, <2>1
  <2>7. ~(j < n)
    BY <1>1, <1>17, <1>29
  <2>8. (\A c : BucketAt(u, c) = bs[c]) => TakeBuckets(t, u, p, n, j, b)
    BY <1>5, <1>16, <1>20, <1>25, <1>29, <2>6, <2>7 DEF TakeBuckets
  <2>9. QED
    BY <1>17, <1>22, <2>5, <2>6, <2>7, <2>8
<1>30. CASE x = Null /\ eb = b
  <2>1. Made(u, fb, t.bcount, nx, fv, e, t.size - 1)
    <3>1. Made([w EXCEPT !.tail = e], fb, t.bcount, nx, fv, e, t.size - 1)
      BY <1>15, MadeWrites
    <3>2. QED
      BY <1>28, <1>30, <3>1, Zenon
  <2>2. ~(j < n)
    BY <1>1, <1>17, <1>30
  <2>3. (\A c : BucketAt(u, c) = fb[c]) => TakeBuckets(t, u, p, n, j, b)
    BY <1>5, <1>16, <1>20, <1>21, <1>25, <1>30, <2>2 DEF TakeBuckets
  <2>4. QED
    BY <1>16, <1>17, <1>22, <2>1, <2>2, <2>3
<1>31. CASE x # Null /\ b = nb
  <2>1. Made(u, fb, t.bcount, nx, fv, t.tail, t.size - 1)
    BY <1>15, <1>28, <1>31
  <2>2. j < n
    BY <1>17, <1>31
  <2>3. (\A c : BucketAt(u, c) = fb[c]) => TakeBuckets(t, u, p, n, j, b)
    BY <1>5, <1>16, <1>20, <1>21, <1>25, <1>31, <2>2 DEF TakeBuckets
  <2>4. QED
    BY <1>16, <1>19, <1>22, <2>1, <2>2, <2>3
<1>32. CASE x # Null /\ b # nb /\ eb # b
  <2>1. PICK b1 : b1 = [fb EXCEPT ![b] = em]
    OBVIOUS
  <2>2. PICK bs : bs = [b1 EXCEPT ![nb] = e]
    OBVIOUS
  <2>3. PICK y : y = [w EXCEPT !.buckets[b] = em]
    OBVIOUS
  <2>4. u = [y EXCEPT !.buckets[nb] = e]
    BY <1>28, <1>32, <2>3
  <2>5. Made(y, b1, t.bcount, nx, fv, t.tail, t.size - 1)
    BY <1>15, <2>1, <2>3, MadeWrites
  <2>6. Made(u, bs, t.bcount, nx, fv, t.tail, t.size - 1)
    <3>1. Made([y EXCEPT !.buckets[nb] = e], bs, t.bcount, nx, fv, t.tail, t.size - 1)
      BY <2>2, <2>5, MadeWrites
    <3>2. QED
      BY <2>4, <3>1, Zenon
  <2>7. j < n
    BY <1>17, <1>32
  <2>8. /\ b1 \in [0 .. t.bcount - 1 -> Pointer]
        /\ \A c \in 0 .. CountOf(t) - 1 : b1[c] = IF c = b THEN em ELSE fb[c]
    BY <1>16, <1>19, <1>27, <2>1
  <2>9. /\ bs \in [0 .. t.bcount - 1 -> Pointer]
        /\ \A c \in 0 .. CountOf(t) - 1 : bs[c] = IF c = nb THEN e ELSE b1[c]
    BY <1>17, <1>19, <2>2, <2>8
  <2>10. (\A c : BucketAt(u, c) = bs[c]) => TakeBuckets(t, u, p, n, j, b)
    BY <1>3, <1>5, <1>16, <1>20, <1>25, <1>27, <1>32, <2>7, <2>8, <2>9 DEF TakeBuckets
  <2>11. QED
    BY <1>19, <1>22, <2>6, <2>7, <2>9, <2>10
<1>33. CASE x # Null /\ b # nb /\ eb = b
  <2>1. PICK bs : bs = [fb EXCEPT ![nb] = e]
    OBVIOUS
  <2>2. Made(u, bs, t.bcount, nx, fv, t.tail, t.size - 1)
    <3>1. Made([w EXCEPT !.buckets[nb] = e], bs, t.bcount, nx, fv, t.tail, t.size - 1)
      BY <1>15, <2>1, MadeWrites
    <3>2. QED
      BY <1>28, <1>33, <3>1, Zenon
  <2>3. j < n
    BY <1>17, <1>33
  <2>4. /\ bs \in [0 .. t.bcount - 1 -> Pointer]
        /\ \A c \in 0 .. CountOf(t) - 1 : bs[c] = IF c = nb THEN e ELSE fb[c]
    BY <1>16, <1>17, <1>19, <2>1
  <2>5. (\A c : BucketAt(u, c) = bs[c]) => TakeBuckets(t, u, p, n, j, b)
    BY <1>3, <1>5, <1>16, <1>20, <1>21, <1>25, <1>33, <2>3, <2>4 DEF TakeBuckets
  <2>6. QED
    BY <1>19, <1>22, <2>2, <2>3, <2>4, <2>5
<1>34. QED
  BY <1>29, <1>30, <1>31, <1>32, <1>33

-----------------------------------------------------------------------------
(* The listing, and the empty list. *)

LEMMA ListingIs ==
  ASSUME Setting, NEW t, IsTable(t), NEW p, NEW n, Strung(t, p, n)
  PROVE  /\ Listing(t) = [i \in 1 .. n |-> p[i]]
         /\ Listing(t) \in Seq(Entry) /\ Len(Listing(t)) = n
         /\ Range(Listing(t)) = Held(p, n)
<1>1. n \in Nat /\ p[0] = Nil /\ 0 \in 0 .. n /\ \A i \in 0 .. n : p[i] \in Entry
  BY DEF Strung, Order
<1>2. PICK s : s = Rest(p, n, 0)
  OBVIOUS
<1>3. s \in Seq(Entry) /\ Len(s) = n + 1
  <2>1. Rest(p, n, 0) \in Seq(Entry) /\ Len(Rest(p, n, 0)) = n - 0 + 1
    BY <1>1, RestItems DEF Strung
  <2>2. QED
    BY <1>1, <1>2, <2>1
<1>4. \A x \in 1 .. n + 1 : s[x] = p[x - 1]
  BY <1>1, <1>2 DEF Rest
<1>5. t.buckets[0] = p[0]
  BY <1>1 DEF Strung, Spare, BucketAt
<1>6. Chain(t, t.buckets[0]) = s
  BY <1>1, <1>2, <1>5, ChainIs DEF Strung
<1>7. PICK l : l = Listing(t)
  OBVIOUS
<1>8. l = Tail(s)
  BY <1>6, <1>7 DEF Listing
<1>9. s # <<>>
  BY <1>1, <1>3
<1>10. l = [i \in 1 .. Len(s) - 1 |-> s[i + 1]] /\ l \in Seq(Entry)
  BY <1>3, <1>8, <1>9, TailItems
<1>11. l = [i \in 1 .. n |-> p[i]]
  <2>1. Len(s) - 1 = n
    BY <1>1, <1>3
  <2>2. \A i \in 1 .. n : s[i + 1] = p[i]
    BY <1>1, <1>4
  <2>3. QED
    BY <1>10, <2>1, <2>2
<1>12. Len(l) = n
  BY <1>1, <1>11
<1>13. Range(l) = Held(p, n)
  BY <1>11 DEF Range, Held
<1>14. QED
  BY <1>7, <1>10, <1>11, <1>12, <1>13

(* Only links, buckets and the tail matter for how a table is strung. *)
LEMMA SameStrung ==
  ASSUME NEW t, NEW u, NEW p, NEW n, Strung(t, p, n),
         CountOf(u) = CountOf(t), TailOf(u) = TailOf(t),
         \A m : NextOf(u, m) = NextOf(t, m), \A c : BucketAt(u, c) = BucketAt(t, c)
  PROVE  Strung(u, p, n)
<1>1. \A m : Bk(u, m) = Bk(t, m)
  BY DEF Bk
<1>2. Links(u, p, n)
  BY DEF Strung, Links
<1>3. Together(u, p, n)
  BY <1>1 DEF Strung, Together
<1>4. Starts(u, p, n)
  BY <1>1 DEF Strung, Starts
<1>5. Spare(u, p, n)
  BY <1>1 DEF Strung, Spare, Empty
<1>6. QED
  BY <1>2, <1>3, <1>4, <1>5 DEF Strung

NilOnly == [i \in 0 .. 0 |-> Nil]

LEMMA BareStrung ==
  ASSUME Setting, NEW t, IsTable(t), TailOf(t) = Nil, \A m \in Entry : NextOf(t, m) = Null,
         BucketAt(t, 0) = Nil, \A c \in 1 .. CountOf(t) - 1 : BucketAt(t, c) \notin Key
  PROVE  Strung(t, NilOnly, 0) /\ Held(NilOnly, 0) = {}
<1>1. PICK p : p = NilOnly
  OBVIOUS
<1>2. p \in [0 .. 0 -> Entry] /\ p[0] = Nil /\ Nil \in Entry
  BY <1>1, Pointers DEF NilOnly
<1>3. Order(p, 0)
  BY <1>2 DEF Order
<1>4. Held(p, 0) = {}
  BY DEF Held
<1>5. Links(t, p, 0)
  BY <1>2, Pointers DEF Links
<1>6. Together(t, p, 0) /\ Starts(t, p, 0)
  BY DEF Together, Starts
<1>7. Spare(t, p, 0)
  <2>1. \A c \in 1 .. CountOf(t) - 1 : BucketAt(t, c) \in Pointer
    BY TableFields
  <2>2. QED
    BY <2>1, Pointers DEF Spare, Pointer
<1>8. QED
  BY <1>1, <1>3, <1>4, <1>5, <1>6, <1>7 DEF Strung

-----------------------------------------------------------------------------
(* ctor, clear and the entry that is malloc'd. *)

LEMMA NoLinksType ==
  ASSUME Setting
  PROVE  NoLinks \in [Entry -> Place] /\ \A m \in Entry : NoLinks[m] = Null
  BY DEF NoLinks, Place

LEMMA NewBucketsType ==
  ASSUME Setting, NEW count \in Nat
  PROVE  /\ NewBuckets(count, Nil) \in [0 .. count - 1 -> Pointer]
         /\ \A c \in 0 .. count - 1 : NewBuckets(count, Nil)[c] = IF c = 0 THEN Nil ELSE Null
  BY Pointers DEF NewBuckets, Pointer

LEMMA NewTableStrung ==
  ASSUME Setting, NEW t, t = NewTable
  PROVE  /\ IsTable(t)
         /\ CountOf(t) = MinBuckets /\ SizeOf(t) = 0 /\ DOMAIN ValuesOf(t) = {}
         /\ Strung(t, NilOnly, 0)
<1>1. PICK v : v = [k \in {} |-> k]
  OBVIOUS
<1>2. Made(t, NewBuckets(MinBuckets, Nil), MinBuckets, NoLinks, v, Nil, 0)
  BY <1>1, Zenon DEF NewTable, Made
<1>3. v = [k \in DOMAIN v |-> v[k]] /\ DOMAIN v = {}
  BY <1>1
<1>4. MinBuckets \in Nat /\ MinBuckets > 0 /\ Nil \in Entry
  BY Pointers
<1>5. /\ IsTable(t)
      /\ CountOf(t) = MinBuckets /\ SizeOf(t) = 0 /\ ValuesOf(t) = v /\ TailOf(t) = Nil
      /\ \A m : NextOf(t, m) = NoLinks[m]
      /\ \A c : BucketAt(t, c) = NewBuckets(MinBuckets, Nil)[c]
  <2>1. MinBuckets >= MinBuckets /\ 0 \in Int /\ DOMAIN v \subseteq Key
    BY <1>3, <1>4
  <2>2. QED
    BY <1>2, <1>3, <1>4, <2>1, MadeFields, NoLinksType, NewBucketsType
<1>6. \A m \in Entry : NextOf(t, m) = Null
  BY <1>5, NoLinksType
<1>7. \A c \in 0 .. MinBuckets - 1 : BucketAt(t, c) = IF c = 0 THEN Nil ELSE Null
  <2>1. \A c \in 0 .. MinBuckets - 1 : NewBuckets(MinBuckets, Nil)[c] = IF c = 0 THEN Nil ELSE Null
    BY <1>4, NewBucketsType
  <2>2. QED
    BY <1>5, <2>1, Zenon
<1>8. BucketAt(t, 0) = Nil /\ \A c \in 1 .. CountOf(t) - 1 : BucketAt(t, c) \notin Key
  BY <1>4, <1>5, <1>7, Pointers
<1>9. QED
  BY <1>3, <1>5, <1>6, <1>8, BareStrung

LEMMA ClearStrung ==
  ASSUME Setting, NEW t, IsTable(t), NEW p, NEW n, Strung(t, p, n), Held(p, n) = DOMAIN ValuesOf(t),
         NEW u, u = [Freed(t, Range(Listing(t))) EXCEPT !.next[t.buckets[0]] = Null,
                                                       !.tail = t.buckets[0], !.size = 0]
  PROVE  /\ IsTable(u)
         /\ CountOf(u) = CountOf(t) /\ SizeOf(u) = 0 /\ DOMAIN ValuesOf(u) = {}
         /\ Strung(u, NilOnly, 0)
<1>1. PICK s : s = Held(p, n)
  OBVIOUS
<1>2. s \subseteq Key /\ Range(Listing(t)) = s
  BY <1>1, ListingIs DEF Strung, Order, Held
<1>3. t.buckets[0] = Nil /\ Nil \in Entry /\ Nil \notin s
  BY <1>2, Pointers DEF Strung, Spare, BucketAt
<1>4. PICK fb : fb = FreedBuckets(t, s)
  OBVIOUS
<1>5. PICK fn : fn = FreedNext(t, s)
  OBVIOUS
<1>6. PICK fv : fv = FreedValues(t, s)
  OBVIOUS
<1>7. PICK f : f = Freed(t, s)
  OBVIOUS
<1>8. Made(f, fb, t.bcount, fn, fv, t.tail, t.size)
  BY <1>4, <1>5, <1>6, <1>7, FreedShape
<1>9. PICK y : y = [f EXCEPT !.next[Nil] = Null]
  OBVIOUS
<1>10. PICK w : w = [y EXCEPT !.tail = Nil]
  OBVIOUS
<1>11. u = [f EXCEPT !.next[Nil] = Null, !.tail = Nil, !.size = 0]
  BY <1>2, <1>3, <1>7, Zenon
<1>12. [f EXCEPT !.next[Nil] = Null, !.tail = Nil, !.size = 0] = [w EXCEPT !.size = 0]
  BY <1>9, <1>10
<1>13. PICK nx : nx = [fn EXCEPT ![Nil] = Null]
  OBVIOUS
<1>14. Made(y, fb, t.bcount, nx, fv, t.tail, t.size)
  BY <1>8, <1>9, <1>13, MadeWrites
<1>15. Made(w, fb, t.bcount, nx, fv, Nil, t.size)
  BY <1>10, <1>14, MadeWrites
<1>16. Made([w EXCEPT !.size = 0], fb, t.bcount, nx, fv, Nil, 0)
  BY <1>15, MadeWrites
<1>17. Made(u, fb, t.bcount, nx, fv, Nil, 0)
  BY <1>11, <1>12, <1>16, Zenon
<1>18. /\ fb \in [0 .. t.bcount - 1 -> Pointer]
       /\ \A c \in 0 .. CountOf(t) - 1 : fb[c] = IF BucketAt(t, c) \in s THEN Dangling ELSE BucketAt(t, c)
       /\ fn \in [Entry -> Place]
       /\ \A m \in Entry : fn[m] = IF m \in s THEN Null ELSE NextOf(t, m)
       /\ fv = [x \in DOMAIN fv |-> fv[x]] /\ DOMAIN fv = DOMAIN ValuesOf(t) \ s
  <2>1. /\ FreedBuckets(t, s) \in [0 .. t.bcount - 1 -> Pointer]
        /\ \A c \in 0 .. CountOf(t) - 1 :
             FreedBuckets(t, s)[c] = IF BucketAt(t, c) \in s THEN Dangling ELSE BucketAt(t, c)
        /\ FreedNext(t, s) \in [Entry -> Place]
        /\ \A m \in Entry : FreedNext(t, s)[m] = IF m \in s THEN Null ELSE NextOf(t, m)
        /\ FreedValues(t, s) = [k \in DOMAIN FreedValues(t, s) |-> FreedValues(t, s)[k]]
        /\ DOMAIN FreedValues(t, s) = DOMAIN ValuesOf(t) \ s
    <3>1. s \subseteq Key
      BY <1>2
    <3>2. QED
      BY <3>1, FreedFields
  <2>2. QED
    BY <1>4, <1>5, <1>6, <2>1, Zenon
<1>19. DOMAIN fv = {}
  BY <1>1, <1>18
<1>20. nx \in [Entry -> Place] /\ \A m \in Entry : nx[m] = IF m = Nil THEN Null ELSE fn[m]
  BY <1>3, <1>13, <1>18 DEF Place
<1>21. CountOf(t) = t.bcount /\ t.bcount \in Nat /\ t.bcount >= MinBuckets
  BY DEF IsTable, CountOf
<1>22. /\ IsTable(u)
       /\ CountOf(u) = t.bcount /\ SizeOf(u) = 0 /\ ValuesOf(u) = fv /\ TailOf(u) = Nil
       /\ \A m : NextOf(u, m) = nx[m]
       /\ \A c : BucketAt(u, c) = fb[c]
  <2>1. 0 \in Int /\ DOMAIN fv \subseteq Key
    BY <1>19
  <2>2. QED
    BY <1>3, <1>17, <1>18, <1>20, <1>21, <2>1, MadeFields
<1>23. \A m \in Entry : NextOf(u, m) = Null
  <2>1. \A m \in Key \ s : NextOf(t, m) = Null
    BY <1>1 DEF Strung, Links
  <2>2. \A m \in Entry : m = Nil \/ m \in Key
    BY Pointers
  <2>3. QED
    BY <1>18, <1>20, <1>22, <2>1, <2>2
<1>24. BucketAt(u, 0) = Nil
  <2>1. 0 \in 0 .. CountOf(t) - 1 /\ BucketAt(t, 0) = Nil
    BY TableFields DEF Strung, Spare
  <2>2. QED
    BY <1>3, <1>18, <1>22, <2>1
<1>25. ASSUME NEW c \in 1 .. CountOf(u) - 1 PROVE BucketAt(u, c) \notin Key
  <2>1. c \in 1 .. CountOf(t) - 1 /\ c \in 0 .. CountOf(t) - 1
    BY <1>21, <1>22
  <2>2. BucketAt(t, c) \in Key => BucketAt(t, c) \in s
    BY <1>1, <2>1 DEF Strung, Spare
  <2>3. Dangling \notin Key
    BY Pointers
  <2>4. QED
    BY <1>18, <1>22, <2>1, <2>2, <2>3
<1>26. QED
  BY <1>19, <1>21, <1>22, <1>23, <1>24, <1>25, BareStrung

(* u links its entries and starts its buckets as t does.                   *)
SameLinks(t, u) ==
  /\ \A m : NextOf(u, m) = NextOf(t, m)
  /\ \A c : BucketAt(u, c) = BucketAt(t, c)

(* The entry k is malloc'd, and the size set, around add_entry. *)
LEMMA MallocedTable ==
  ASSUME Setting, NEW t, IsTable(t), NEW k \in Key, NEW v, NEW u, u = Malloced(t, k, v)
  PROVE  /\ IsTable(u)
         /\ CountOf(u) = CountOf(t) /\ SizeOf(u) = SizeOf(t) /\ TailOf(u) = TailOf(t)
         /\ DOMAIN ValuesOf(u) = DOMAIN ValuesOf(t) \cup {k}
         /\ SameLinks(t, u)
<1>1. PICK w : w = [x \in DOMAIN t.value \cup {k} |-> IF x = k THEN v ELSE t.value[x]]
  OBVIOUS
<1>2. w = [x \in DOMAIN w |-> w[x]] /\ DOMAIN w = DOMAIN t.value \cup {k}
  BY <1>1
<1>3. u = [t EXCEPT !.value = w]
  BY <1>1, Zenon DEF Malloced
<1>4. Made(u, t.buckets, t.bcount, t.next, w, t.tail, t.size)
  <2>1. Made([t EXCEPT !.value = w], t.buckets, t.bcount, t.next, w, t.tail, t.size)
    BY MadeOfFields, MadeWrites
  <2>2. QED
    BY <1>3, <2>1, Zenon
<1>5. /\ t.bcount \in Nat /\ t.bcount >= MinBuckets /\ t.buckets \in [0 .. t.bcount - 1 -> Pointer]
      /\ t.next \in [Entry -> Place] /\ t.tail \in Entry /\ t.size \in Int
      /\ DOMAIN w \subseteq Key
  BY <1>2 DEF IsTable
<1>6. /\ IsTable(u)
      /\ CountOf(u) = t.bcount /\ SizeOf(u) = t.size /\ ValuesOf(u) = w /\ TailOf(u) = t.tail
      /\ \A m : NextOf(u, m) = t.next[m]
      /\ \A d : BucketAt(u, d) = t.buckets[d]
  BY <1>2, <1>4, <1>5, MadeFields
<1>7. QED
  BY <1>2, <1>6 DEF CountOf, SizeOf, TailOf, ValuesOf, NextOf, BucketAt, SameLinks

LEMMA SizedTable ==
  ASSUME Setting, NEW t, IsTable(t), NEW s \in Int, NEW u, u = [t EXCEPT !.size = s]
  PROVE  /\ IsTable(u)
         /\ CountOf(u) = CountOf(t) /\ SizeOf(u) = s /\ TailOf(u) = TailOf(t)
         /\ ValuesOf(u) = ValuesOf(t)
         /\ SameLinks(t, u)
<1>1. Made(u, t.buckets, t.bcount, t.next, t.value, t.tail, s)
  <2>1. Made([t EXCEPT !.size = s], t.buckets, t.bcount, t.next, t.value, t.tail, s)
    BY MadeOfFields, MadeWrites
  <2>2. QED
    BY <2>1, Zenon
<1>2. /\ t.bcount \in Nat /\ t.bcount >= MinBuckets /\ t.buckets \in [0 .. t.bcount - 1 -> Pointer]
      /\ t.next \in [Entry -> Place] /\ t.tail \in Entry
      /\ t.value = [k \in DOMAIN t.value |-> t.value[k]] /\ DOMAIN t.value \subseteq Key
  BY DEF IsTable
<1>3. /\ IsTable(u)
      /\ CountOf(u) = t.bcount /\ SizeOf(u) = s /\ ValuesOf(u) = t.value /\ TailOf(u) = t.tail
      /\ \A m : NextOf(u, m) = t.next[m]
      /\ \A d : BucketAt(u, d) = t.buckets[d]
  BY <1>1, <1>2, MadeFields
<1>4. QED
  BY <1>3 DEF CountOf, SizeOf, TailOf, ValuesOf, NextOf, BucketAt, SameLinks

-----------------------------------------------------------------------------
(* transfer. *)

(* Every bucket without entries but bucket 0 is NULL. *)
Clean(t, p, n) == \A c \in 1 .. CountOf(t) - 1 : Empty(t, p, n, c) => BucketAt(t, c) = Null

LEMMA CleanHeads ==
  ASSUME Setting, NEW t, IsTable(t), NEW p, NEW n, Strung(t, p, n), Clean(t, p, n), NEW k \in Key
  PROVE  BucketAt(t, Bk(t, k)) # Dangling
<1>1. PICK b : b = Bk(t, k)
  OBVIOUS
<1>2. b \in 0 .. CountOf(t) - 1
  BY <1>1, TableFields, Pointers
<1>3. /\ n \in Nat /\ p[0] = Nil /\ \A i \in 0 .. n : p[i] \in Entry
  BY DEF Strung, Order
<1>4. CASE b = 0
  BY <1>1, <1>4, Pointers DEF Strung, Spare
<1>5. CASE b # 0 /\ Empty(t, p, n, b)
  <2>1. b \in 1 .. CountOf(t) - 1
    BY <1>2, <1>5
  <2>2. QED
    BY <1>1, <1>5, <2>1, Pointers DEF Clean
<1>6. CASE b # 0 /\ ~Empty(t, p, n, b)
  <2>1. PICK i \in 0 .. n : Bk(t, p[i]) = b
    BY <1>6 DEF Empty
  <2>2. i # 0
    BY <1>3, <1>6, <2>1, TableFields
  <2>3. i \in 1 .. n
    BY <2>2
  <2>4. PICK g \in 0 .. i - 1 : BucketAt(t, b) = p[g]
    BY <2>1, <2>3, WalkStart
  <2>5. g \in 0 .. n
    BY <1>3
  <2>6. QED
    BY <1>1, <1>3, <2>4, <2>5, Pointers
<1>7. QED
  BY <1>4, <1>5, <1>6

(* Adding to a clean table never takes bucket 0 from the nil entry. *)
LEMMA CleanNil ==
  ASSUME Setting, NEW t, IsTable(t), NEW p, NEW n, Strung(t, p, n), Clean(t, p, n),
         NEW k \in Key, k \notin Held(p, n), NEW u, u = AddEntry(t, k)
  PROVE  BucketAt(u, 0) = Nil
<1>1. PICK b : b = Bk(t, k)
  OBVIOUS
<1>2. PICK e : e = t.buckets[b]
  OBVIOUS
<1>3. /\ n \in Nat /\ p[0] = Nil /\ \A i \in 0 .. n : p[i] \in Entry
      /\ \A i, m \in 0 .. n : p[i] = p[m] => i = m
  BY DEF Strung, Order
<1>4. /\ b \in 0 .. CountOf(t) - 1 /\ BucketAt(t, b) = e /\ k # Nil
      /\ BucketAt(t, 0) = Nil /\ 0 \in 0 .. CountOf(t) - 1 /\ Nil # Null /\ Null \notin Entry
  BY <1>1, <1>2, Pointers, TableFields DEF BucketAt, Strung, Spare
<1>5. /\ t.buckets \in [0 .. CountOf(t) - 1 -> Pointer]
      /\ \A m : NextOf(t, m) = t.next[m]
      /\ \A c : BucketAt(t, c) = t.buckets[c]
  BY DEF IsTable, CountOf, NextOf, BucketAt
<1>6. \A bs, nx, tl : Rewired(t, u, bs, nx, tl) => \A c : BucketAt(u, c) = bs[c]
  BY DEF Rewired, BucketAt
<1>7. CASE e = Null
  <2>1. Rewired(t, u, [t.buckets EXCEPT ![b] = t.tail], [t.next EXCEPT ![t.tail] = k], k)
    BY <1>1, <1>2, <1>7, AddShape
  <2>2. \A c : BucketAt(u, c) = [t.buckets EXCEPT ![b] = t.tail][c]
    BY <1>6, <2>1
  <2>3. b # 0
    BY <1>4, <1>7
  <2>4. QED
    BY <1>4, <1>5, <2>2, <2>3
<1>8. CASE e # Null /\ t.next[e] = Null
  <2>1. Rewired(t, u, t.buckets, [t.next EXCEPT ![t.tail] = k], k)
    BY <1>1, <1>2, <1>8, AddShape
  <2>2. \A c : BucketAt(u, c) = t.buckets[c]
    BY <1>6, <2>1
  <2>3. QED
    BY <1>4, <1>5, <2>2
<1>9. CASE e # Null /\ t.next[e] # Null /\ Bk(t, t.next[e]) = b
  <2>1. Rewired(t, u, t.buckets, [[t.next EXCEPT ![e] = k] EXCEPT ![k] = t.next[e]], t.tail)
    BY <1>1, <1>2, <1>9, AddShape
  <2>2. \A c : BucketAt(u, c) = t.buckets[c]
    BY <1>6, <2>1
  <2>3. QED
    BY <1>4, <1>5, <2>2
<1>10. CASE e # Null /\ t.next[e] # Null /\ Bk(t, t.next[e]) # b
  <2>1. PICK nb : nb = Bk(t, t.next[e])
    OBVIOUS
  <2>2. Rewired(t, u, [t.buckets EXCEPT ![nb] = k],
                [[t.next EXCEPT ![e] = k] EXCEPT ![k] = t.next[e]], t.tail)
    BY <1>1, <1>2, <1>10, <2>1, AddShape
  <2>3. \A c : BucketAt(u, c) = [t.buckets EXCEPT ![nb] = k][c]
    BY <1>6, <2>2
  <2>4. e # Dangling
    BY <1>1, <1>4, CleanHeads
  <2>5. PICK g \in 0 .. n : e = p[g]
    BY <1>4, <1>10, <2>4, BucketHead
  <2>6. g < n /\ t.next[e] = p[g + 1]
    <3>1. NextOf(t, p[n]) = Null /\ \A i \in 0 .. n - 1 : NextOf(t, p[i]) = p[i + 1]
      BY DEF Strung, Links
    <3>2. g # n
      BY <1>5, <1>10, <2>5, <3>1
    <3>3. g < n /\ g \in 0 .. n - 1
      BY <1>3, <3>2
    <3>4. QED
      BY <1>5, <2>5, <3>1, <3>3
  <2>7. g = 0 /\ \A i \in 1 .. n : Bk(t, p[i]) # b
    BY <1>4, <1>10, <2>5, <2>6, FirstOfBucket
  <2>8. b = 0
    <3>1. b # 0 => Bk(t, p[0]) # b
      BY <1>3, TableFields
    <3>2. \A i \in 0 .. n : i = 0 \/ i \in 1 .. n
      BY <1>3
    <3>3. b # 0 => Empty(t, p, n, b) /\ b \in 1 .. CountOf(t) - 1
      BY <1>4, <2>7, <3>1, <3>2 DEF Empty
    <3>4. QED
      BY <1>4, <1>10, <3>3 DEF Clean
  <2>9. nb # 0
    BY <1>10, <2>1, <2>8
  <2>10. QED
    BY <1>4, <1>5, <2>3, <2>9
<1>11. QED
  BY <1>7, <1>8, <1>9, <1>10

LEMMA CleanAdded ==
  ASSUME Setting, NEW t, IsTable(t), NEW p, NEW n, Strung(t, p, n), Clean(t, p, n),
         NEW k \in Key, k \notin Held(p, n), NEW u, u = AddEntry(t, k)
  PROVE  \E q : /\ Strung(u, q, n + 1) /\ Clean(u, q, n + 1)
                /\ Held(q, n + 1) = Held(p, n) \cup {k}
<1>1. BucketAt(u, 0) = Nil /\ BucketAt(t, Bk(t, k)) # Dangling
  BY CleanNil, CleanHeads
<1>2. PICK j \in 0 .. n : /\ Strung(u, Put(p, n, j, k), n + 1)
                          /\ PutBuckets(t, u, p, n, j, k, Bk(t, k))
  BY <1>1, AddEntryStrung
<1>3. PICK q : q = Put(p, n, j, k)
  OBVIOUS
<1>4. IsPut(q, p, n, j, k) /\ Held(q, n + 1) = Held(p, n) \cup {k}
  BY <1>3, PutOrder DEF Strung
<1>5. CountOf(u) = CountOf(t) /\ \A m : Bk(u, m) = Bk(t, m)
  BY <1>1, AddEntryTable DEF Bk
<1>6. n \in Nat
  BY DEF Strung, Order
<1>7. ASSUME NEW c \in 1 .. CountOf(t) - 1, Empty(u, q, n + 1, c)
      PROVE  BucketAt(u, c) = Null
  <2>1. ASSUME NEW i \in 0 .. n PROVE Bk(t, p[i]) # c
    <3>1. CASE i <= j
      <4>1. i \in 0 .. j /\ i \in 0 .. n + 1
        BY <1>6, <3>1
      <4>2. q[i] = p[i]
        BY <1>4, <4>1 DEF IsPut
      <4>3. QED
        BY <1>5, <1>7, <4>1, <4>2 DEF Empty
    <3>2. CASE i > j
      <4>1. i + 1 \in j + 2 .. n + 1 /\ (i + 1) - 1 = i /\ i + 1 \in 0 .. n + 1
        BY <1>6, <3>2
      <4>2. q[i + 1] = p[i]
        BY <1>4, <4>1 DEF IsPut
      <4>3. QED
        BY <1>5, <1>7, <4>1, <4>2 DEF Empty
    <3>3. QED
      BY <1>6, <3>1, <3>2
  <2>2. Bk(t, k) # c
    <3>1. j + 1 \in 0 .. n + 1 /\ q[j + 1] = k
      BY <1>4, <1>6 DEF IsPut
    <3>2. QED
      BY <1>5, <1>7, <3>1 DEF Empty
  <2>3. j < n => c # Bk(t, p[j + 1])
    <3>1. j < n => j + 1 \in 0 .. n
      BY <1>6
    <3>2. QED
      BY <2>1, <3>1
  <2>4. c \in 0 .. CountOf(t) - 1
    BY <1>7, TableFields
  <2>5. BucketAt(u, c) = BucketAt(t, c)
    BY <1>2, <2>2, <2>3, <2>4 DEF PutBuckets
  <2>6. Empty(t, p, n, c)
    BY <2>1 DEF Empty
  <2>7. QED
    BY <1>7, <2>5, <2>6 DEF Clean
<1>8. Clean(u, q, n + 1)
  BY <1>5, <1>7 DEF Clean
<1>9. QED
  BY <1>2, <1>3, <1>4, <1>8

(* The entries l[1], ..., l[n] are added to b one by one. *)
Additions(w, n, b, l) == w = [i \in 0 .. n |-> IF i = 0 THEN b ELSE AddEntry(w[i - 1], l[i])]

LEMMA AdditionsExist ==
  ASSUME NEW b, NEW l, NEW N \in Nat
  PROVE  \E w : Additions(w, N, b, l)
<1> DEFINE T == {n \in Nat : \E f : Additions(f, n, b, l)}
<1>1. 0 \in T
  <2>1. PICK f : f = [i \in 0 .. 0 |-> b]
    OBVIOUS
  <2>2. Additions(f, 0, b, l)
    BY <2>1 DEF Additions
  <2>3. QED
    BY <2>2
<1>2. \A n \in Nat : n \in T => n + 1 \in T
  <2> SUFFICES ASSUME NEW n \in Nat, n \in T PROVE \E h : Additions(h, n + 1, b, l)
    OBVIOUS
  <2>1. PICK f : Additions(f, n, b, l)
    OBVIOUS
  <2>2. PICK h : h = [i \in 0 .. n + 1 |-> IF i = n + 1 THEN AddEntry(f[n], l[n + 1]) ELSE f[i]]
    OBVIOUS
  <2>3. f[0] = b /\ \A i \in 1 .. n : f[i] = AddEntry(f[i - 1], l[i])
    BY <2>1 DEF Additions
  <2>4. h[0] = b
    BY <2>2, <2>3
  <2>5. ASSUME NEW i \in 0 .. n + 1, i # 0 PROVE h[i] = AddEntry(h[i - 1], l[i])
    <3>1. i - 1 \in 0 .. n /\ h[i - 1] = f[i - 1]
      BY <2>2, <2>5
    <3>2. CASE i = n + 1
      BY <2>2, <3>1, <3>2
    <3>3. CASE i # n + 1
      <4>1. i \in 1 .. n /\ i \in 0 .. n + 1
        BY <2>5, <3>3
      <4>2. h[i] = f[i]
        BY <2>2, <3>3, <4>1
      <4>3. QED
        BY <2>3, <3>1, <4>1, <4>2
    <3>4. QED
      BY <3>2, <3>3
  <2>6. h = [i \in 0 .. n + 1 |-> h[i]]
    BY <2>2
  <2>7. Additions(h, n + 1, b, l)
    BY <2>4, <2>5, <2>6 DEF Additions
  <2>8. QED
    BY <2>7
<1> HIDE DEF T
<1>3. \A n \in Nat : n \in T
  BY <1>1, <1>2, Induction
<1>4. QED
  BY <1>3 DEF T

Bare(t, count) ==
  [t EXCEPT !.buckets = NewBuckets(count, t.buckets[0]), !.next = NoLinks,
            !.tail = t.buckets[0], !.bcount = count]

LEMMA TransferredRuns ==
  ASSUME NEW t, NEW count, NEW n \in Nat, Len(Listing(t)) = n
  PROVE  \E w : /\ w[0] = Bare(t, count)
                /\ \A i \in 1 .. n : w[i] = AddEntry(w[i - 1], Listing(t)[i])
                /\ Transferred(t, count) = w[n]
<1>1. PICK b : b = Bare(t, count)
  OBVIOUS
<1>2. PICK l : l = Listing(t)
  OBVIOUS
<1> DEFINE w == CHOOSE f : f = [i \in 0 .. n |-> IF i = 0 THEN b ELSE AddEntry(f[i - 1], l[i])]
<1>3. Transferred(t, count) = w[n]
  BY <1>1, <1>2, Zenon DEF Transferred, Bare
<1>4. \E f : Additions(f, n, b, l)
  BY AdditionsExist
<1>5. Additions(w, n, b, l)
  BY <1>4, Zenon DEF Additions
<1> HIDE DEF w
<1>6. w[0] = b /\ \A i \in 1 .. n : w[i] = AddEntry(w[i - 1], l[i])
  BY <1>5 DEF Additions
<1>7. QED
  BY <1>1, <1>2, <1>3, <1>6

LEMMA BareTable ==
  ASSUME Setting, NEW t, IsTable(t), BucketAt(t, 0) = Nil, NEW count \in Nat, count >= MinBuckets,
         NEW u, u = Bare(t, count)
  PROVE  /\ IsTable(u)
         /\ CountOf(u) = count /\ SizeOf(u) = SizeOf(t) /\ ValuesOf(u) = ValuesOf(t)
         /\ Strung(u, NilOnly, 0) /\ Clean(u, NilOnly, 0)
<1>1. t.buckets[0] = Nil
  BY DEF BucketAt
<1>2. PICK bs : bs = NewBuckets(count, Nil)
  OBVIOUS
<1>3. PICK x : x = [t EXCEPT !.buckets = bs]
  OBVIOUS
<1>4. PICK y : y = [x EXCEPT !.next = NoLinks]
  OBVIOUS
<1>5. PICK z : z = [y EXCEPT !.tail = Nil]
  OBVIOUS
<1>6. u = [t EXCEPT !.buckets = bs, !.next = NoLinks, !.tail = Nil, !.bcount = count]
  BY <1>1, <1>2, Zenon DEF Bare
<1>7. [t EXCEPT !.buckets = bs, !.next = NoLinks, !.tail = Nil, !.bcount = count]
        = [z EXCEPT !.bcount = count]
  BY <1>3, <1>4, <1>5
<1>8. Made(x, bs, t.bcount, t.next, t.value, t.tail, t.size)
  BY <1>3, MadeOfFields, MadeWrites
<1>9. Made(y, bs, t.bcount, NoLinks, t.value, t.tail, t.size)
  BY <1>4, <1>8, MadeWrites
<1>10. Made(z, bs, t.bcount, NoLinks, t.value, Nil, t.size)
  BY <1>5, <1>9, MadeWrites
<1>11. Made([z EXCEPT !.bcount = count], bs, count, NoLinks, t.value, Nil, t.size)
  BY <1>10, MadeWrites
<1>12. Made(u, bs, count, NoLinks, t.value, Nil, t.size)
  BY <1>6, <1>7, <1>11, Zenon
<1>13. /\ bs \in [0 .. count - 1 -> Pointer]
       /\ \A c \in 0 .. count - 1 : bs[c] = IF c = 0 THEN Nil ELSE Null
  BY <1>2, NewBucketsType
<1>14. /\ t.value = [k \in DOMAIN t.value |-> t.value[k]] /\ DOMAIN t.value \subseteq Key
       /\ t.size \in Int /\ Nil \in Entry
       /\ NoLinks \in [Entry -> Place] /\ \A m \in Entry : NoLinks[m] = Null
  BY Pointers, NoLinksType DEF IsTable
<1>15. /\ IsTable(u)
       /\ CountOf(u) = count /\ SizeOf(u) = t.size /\ ValuesOf(u) = t.value /\ TailOf(u) = Nil
       /\ \A m : NextOf(u, m) = NoLinks[m]
       /\ \A c : BucketAt(u, c) = bs[c]
  BY <1>12, <1>13, <1>14, MadeFields
<1>16. BucketAt(u, 0) = Nil /\ \A c \in 1 .. CountOf(u) - 1 : BucketAt(u, c) = Null
  <2>1. count > 0
    BY <1>15, TableFields
  <2>2. QED
    BY <1>13, <1>15, <2>1
<1>17. \A c \in 1 .. CountOf(u) - 1 : BucketAt(u, c) \notin Key
  BY <1>16, Pointers
<1>18. Strung(u, NilOnly, 0)
  BY <1>14, <1>15, <1>16, <1>17, BareStrung
<1>19. Clean(u, NilOnly, 0)
  BY <1>16 DEF Clean
<1>20. QED
  BY <1>15, <1>18, <1>19 DEF SizeOf, ValuesOf

(* What holds of the table after i entries were added again. *)
AddedUpTo(t, u, p, i, count) ==
  /\ IsTable(u)
  /\ CountOf(u) = count /\ SizeOf(u) = SizeOf(t) /\ ValuesOf(u) = ValuesOf(t)
  /\ \E q : Strung(u, q, i) /\ Clean(u, q, i) /\ Held(q, i) = Held(p, i)

LEMMA AddedNext ==
  ASSUME Setting, NEW t, NEW p, NEW n, Order(p, n), NEW i \in 0 .. n - 1, NEW count,
         NEW u, AddedUpTo(t, u, p, i, count)
  PROVE  AddedUpTo(t, AddEntry(u, p[i + 1]), p, i + 1, count)
<1>1. PICK q : Strung(u, q, i) /\ Clean(u, q, i) /\ Held(q, i) = Held(p, i)
  BY DEF AddedUpTo
<1>2. PICK k : k = p[i + 1]
  OBVIOUS
<1>3. i + 1 \in 1 .. n /\ i + 1 \in 0 .. n /\ n \in Nat
  BY DEF Order
<1>4. k \in Key
  BY <1>2, <1>3 DEF Order
<1>5. k \notin Held(p, i)
  <2>1. ASSUME NEW m \in 1 .. i PROVE p[m] # k
    <3>1. m \in 0 .. n /\ m # i + 1
      BY <1>3
    <3>2. QED
      BY <1>2, <1>3, <3>1 DEF Order
  <2>2. QED
    BY <2>1 DEF Held
<1>6. Held(p, i + 1) = Held(p, i) \cup {k}
  <2>1. \A m : m \in 1 .. i + 1 <=> m \in 1 .. i \/ m = i + 1
    OBVIOUS
  <2>2. QED
    BY <1>2, <2>1 DEF Held
<1>7. PICK v : v = AddEntry(u, k)
  OBVIOUS
<1>8. \E r : Strung(v, r, i + 1) /\ Clean(v, r, i + 1) /\ Held(r, i + 1) = Held(q, i) \cup {k}
  BY <1>1, <1>4, <1>5, <1>7, CleanAdded DEF AddedUpTo
<1>9. BucketAt(u, Bk(u, k)) # Dangling
  BY <1>1, <1>4, CleanHeads DEF AddedUpTo
<1>10. IsTable(v) /\ CountOf(v) = CountOf(u) /\ SizeOf(v) = SizeOf(u) /\ ValuesOf(v) = ValuesOf(u)
  BY <1>4, <1>7, <1>9, AddEntryTable DEF AddedUpTo
<1>11. AddedUpTo(t, v, p, i + 1, count)
  BY <1>1, <1>6, <1>8, <1>10 DEF AddedUpTo
<1>12. QED
  BY <1>2, <1>7, <1>11

LEMMA TransferredStrung ==
  ASSUME Setting, NEW t, IsTable(t), NEW p, NEW n, Strung(t, p, n), NEW count \in Nat,
         count >= MinBuckets, NEW u, u = Transferred(t, count)
  PROVE  AddedUpTo(t, u, p, n, count)
<1>1. n \in Nat /\ Order(p, n)
  BY DEF Strung, Order
<1>2. PICK w : /\ w[0] = Bare(t, count)
               /\ \A i \in 1 .. n : w[i] = AddEntry(w[i - 1], Listing(t)[i])
               /\ Transferred(t, count) = w[n]
  BY <1>1, ListingIs, TransferredRuns
<1>3. \A i \in 1 .. n : w[i] = AddEntry(w[i - 1], p[i])
  <2>1. Listing(t) = [i \in 1 .. n |-> p[i]]
    BY ListingIs
  <2>2. \A i \in 1 .. n : Listing(t)[i] = p[i]
    BY <2>1
  <2>3. QED
    BY <1>2, <2>2
<1>4. AddedUpTo(t, w[0], p, 0, count)
  <2>1. BucketAt(t, 0) = Nil
    BY DEF Strung, Spare
  <2>2. PICK x : x = Bare(t, count)
    OBVIOUS
  <2>3. /\ IsTable(x)
        /\ CountOf(x) = count /\ SizeOf(x) = SizeOf(t) /\ ValuesOf(x) = ValuesOf(t)
        /\ Strung(x, NilOnly, 0) /\ Clean(x, NilOnly, 0)
    BY <2>1, <2>2, BareTable
  <2>4. Held(NilOnly, 0) = Held(p, 0)
    BY DEF Held
  <2>5. AddedUpTo(t, x, p, 0, count)
    BY <2>3, <2>4 DEF AddedUpTo
  <2>6. QED
    BY <1>2, <2>2, <2>5
<1> DEFINE T == {i \in Nat : i <= n => AddedUpTo(t, w[i], p, i, count)}
<1>5. 0 \in T
  BY <1>4
<1>6. \A i \in Nat : i \in T => i + 1 \in T
  <2> SUFFICES ASSUME NEW i \in Nat, i \in T, i + 1 <= n PROVE AddedUpTo(t, w[i + 1], p, i + 1, count)
    OBVIOUS
  <2>1. i \in 0 .. n - 1 /\ AddedUpTo(t, w[i], p, i, count) /\ i + 1 \in 1 .. n /\ (i + 1) - 1 = i
    BY <1>1
  <2>2. AddedUpTo(t, AddEntry(w[i], p[i + 1]), p, i + 1, count)
    BY <1>1, <2>1, AddedNext
  <2>3. w[i + 1] = AddEntry(w[i], p[i + 1])
    BY <1>3, <2>1
  <2>4. QED
    BY <2>2, <2>3
<1> HIDE DEF T
<1>7. n \in T
  BY <1>1, <1>5, <1>6, Induction
<1>8. AddedUpTo(t, w[n], p, n, count)
  BY <1>1, <1>7 DEF T
<1>9. QED
  BY <1>2, <1>8

-----------------------------------------------------------------------------
(* The invariant of one table. *)

(* Doubling the smallest table makes room for one entry: the load factor   *)
(* is more than 1 / (2 * HASH_TABLE_MIN_CAPACITY); the default is 0.7.     *)
LoadFits == LoadDen < 2 * LoadNum * MinBuckets

Loaded(t) == SizeOf(t) > 0 => (SizeOf(t) - 1) * LoadDen < LoadNum * CountOf(t)

(* As long as bucket 0 has the nil entry, the list holds what is stored.   *)
Threaded(t, p, n) == Strung(t, p, n) /\ Held(p, n) = DOMAIN ValuesOf(t) /\ SizeOf(t) = n

Intact(t) ==
  /\ IsTable(t)
  /\ Loaded(t)
  /\ BucketAt(t, 0) = Nil => \E p, n : Threaded(t, p, n)

LEMMA Constants ==
  ASSUME Setting
  PROVE  LoadNum \in Nat /\ LoadNum > 0 /\ LoadDen \in Nat /\ LoadDen > 0
  BY DEF Setting, ConstantsOK

LEMMA LoadGrows ==
  ASSUME NEW a \in Int, NEW l \in Nat, NEW c \in Nat, NEW d \in Nat, c <= d, a < l * c
  PROVE  a < l * d
<1>1. l * c <= l * d
  BY Z3
<1>2. l * c \in Int /\ l * d \in Int
  OBVIOUS
<1>3. QED
  BY <1>1, <1>2

(* A table twice as large has room for an entry. *)
LEMMA RoomTwice ==
  ASSUME NEW s \in Nat, NEW d \in Nat, NEW l \in Nat, NEW c \in Nat, NEW m \in Nat, m <= c,
         NEW e \in Nat, e >= 2 * c,
         l > 0, m > 0, d < 2 * l * m, s > 0 => (s - 1) * d < l * c
  PROVE  s * d < l * e
<1>1. l * e >= 2 * (l * c) /\ l * e \in Nat /\ l * c \in Nat
  <2>1. l * e >= l * (2 * c)
    BY Z3
  <2>2. l * (2 * c) = 2 * (l * c)
    BY Z3
  <2>3. QED
    BY <2>1, <2>2
<1>2. l * c >= l * m /\ l * m \in Nat /\ 2 * l * m = 2 * (l * m)
  BY Z3
<1>3. CASE s = 0
  <2>1. l * c > 0
    BY <1>2, Z3
  <2>2. s * d = 0
    BY <1>3
  <2>3. QED
    BY <1>1, <2>1, <2>2
<1>4. CASE s = 1
  <2>1. s * d = d
    BY <1>4
  <2>2. QED
    BY <1>1, <1>2, <2>1
<1>5. CASE s > 1
  <2>1. PICK x : x = (s - 1) * d /\ x \in Nat
    BY <1>5
  <2>2. s * d <= 2 * x /\ s * d \in Nat
    <3>1. s * d = (s - 1) * d + d
      BY Z3
    <3>2. d <= (s - 1) * d
      BY <1>5, Z3
    <3>3. QED
      BY <2>1, <3>1, <3>2
  <2>3. x < l * c
    BY <1>5, <2>1
  <2>4. QED
    BY <1>1, <2>2, <2>3
<1>6. QED
  BY <1>3, <1>4, <1>5

LEMMA NewTableIntact ==
  ASSUME Setting
  PROVE  Intact(NewTable)
<1>1. PICK t : t = NewTable
  OBVIOUS
<1>2. /\ IsTable(t)
      /\ CountOf(t) = MinBuckets /\ SizeOf(t) = 0 /\ DOMAIN ValuesOf(t) = {}
      /\ Strung(t, NilOnly, 0)
  BY <1>1, NewTableStrung
<1>3. Held(NilOnly, 0) = {}
  BY DEF Held
<1>4. Loaded(t)
  BY <1>2 DEF Loaded
<1>5. QED
  BY <1>1, <1>2, <1>3, <1>4 DEF Intact, Threaded

LEMMA ClearIntact ==
  ASSUME Setting, NEW t, Intact(t), BucketAt(t, 0) = Nil
  PROVE  Intact([Freed(t, Range(Listing(t))) EXCEPT !.next[t.buckets[0]] = Null,
                                                   !.tail = t.buckets[0], !.size = 0])
<1>1. PICK u : u = [Freed(t, Range(Listing(t))) EXCEPT !.next[t.buckets[0]] = Null,
                                                       !.tail = t.buckets[0], !.size = 0]
  OBVIOUS
<1>2. PICK p, n : Threaded(t, p, n)
  BY DEF Intact
<1>3. /\ IsTable(u)
      /\ CountOf(u) = CountOf(t) /\ SizeOf(u) = 0 /\ DOMAIN ValuesOf(u) = {}
      /\ Strung(u, NilOnly, 0)
  BY <1>1, <1>2, ClearStrung DEF Threaded, Intact
<1>4. Held(NilOnly, 0) = {}
  BY DEF Held
<1>5. Intact(u)
  BY <1>3, <1>4 DEF Loaded, Intact, Threaded
<1>6. QED
  BY <1>1, <1>5

(* erase of a key the lookup found. *)
LEMMA EraseIntact ==
  ASSUME Setting, NEW t, Intact(t), BucketAt(t, 0) = Nil, NEW k \in Key, FindEntry(t, k) # Null
  PROVE  Intact(EraseEntry(t, FindEntry(t, k), BucketFor(k, t.bcount)))
<1>1. PICK p, n : Threaded(t, p, n)
  BY DEF Intact
<1>2. IsTable(t) /\ Strung(t, p, n) /\ Held(p, n) = DOMAIN ValuesOf(t) /\ SizeOf(t) = n
  BY <1>1 DEF Threaded, Intact
<1>3. k \in Held(p, n)
  BY <1>2, FindNone, StrungReached
<1>4. PICK j \in 1 .. n : k = p[j]
  BY <1>3 DEF Held
<1>5. PICK u : u = EraseEntry(t, p[j - 1], Bk(t, p[j]))
  OBVIOUS
<1>6. u = EraseEntry(t, FindEntry(t, k), BucketFor(k, t.bcount))
  <2>1. FindEntry(t, k) = p[j - 1]
    BY <1>2, <1>4, FindHeld, StrungReached
  <2>2. BucketFor(k, t.bcount) = Bk(t, p[j])
    BY <1>2, <1>4, TableFields
  <2>3. QED
    BY <1>5, <2>1, <2>2
<1>7. /\ IsTable(u)
      /\ CountOf(u) = CountOf(t) /\ SizeOf(u) = SizeOf(t) - 1
      /\ DOMAIN ValuesOf(u) = DOMAIN ValuesOf(t) \ {p[j]}
      /\ Strung(u, Taken(p, n, j), n - 1)
  BY <1>2, <1>5, EraseStrung
<1>8. Held(Taken(p, n, j), n - 1) = Held(p, n) \ {p[j]}
  BY <1>2, TakenOrder DEF Strung
<1>9. Threaded(u, Taken(p, n, j), n - 1)
  BY <1>2, <1>7, <1>8 DEF Threaded
<1>10. Loaded(u)
  <2>1. n \in Nat /\ LoadDen \in Nat
    BY <1>2, Constants DEF Strung, Order
  <2>2. (SizeOf(u) - 1) * LoadDen <= (SizeOf(t) - 1) * LoadDen
    <3>1. SizeOf(u) - 1 = n - 2 /\ SizeOf(t) - 1 = n - 1
      BY <1>2, <1>7, <2>1
    <3>2. (n - 2) * LoadDen <= (n - 1) * LoadDen
      BY <2>1, Z3
    <3>3. QED
      BY <3>1, <3>2
  <2>3. SizeOf(t) > 0
    BY <1>2, <2>1
  <2>4. (SizeOf(t) - 1) * LoadDen < LoadNum * CountOf(t)
    BY <2>3 DEF Intact, Loaded
  <2>5. /\ (SizeOf(u) - 1) * LoadDen \in Int /\ (SizeOf(t) - 1) * LoadDen \in Int
        /\ LoadNum * CountOf(t) \in Int
    BY <1>2, <1>7, <2>1, Constants, TableFields
  <2>6. QED
    BY <1>7, <2>2, <2>4, <2>5 DEF Loaded
<1>11. QED
  BY <1>6, <1>7, <1>9, <1>10 DEF Intact

LEMMA AssignedIntact ==
  ASSUME Setting, NEW t, Intact(t), NEW k \in Key, NEW v
  PROVE  Intact([t EXCEPT !.value[k] = v])
<1>1. PICK w : w = [t.value EXCEPT ![k] = v]
  OBVIOUS
<1>2. PICK u : u = [t EXCEPT !.value = w]
  OBVIOUS
<1>3. u = [t EXCEPT !.value[k] = v]
  <2>1. PICK bs, c, nx, x, tl, sz :
          t = [buckets |-> bs, bcount |-> c, next |-> nx, value |-> x, tail |-> tl, size |-> sz]
    BY Zenon DEF Intact, IsTable
  <2>2. QED
    BY <1>1, <1>2, <2>1
<1>4. IsTable(t)
  BY DEF Intact
<1>5. Made(u, t.buckets, t.bcount, t.next, w, t.tail, t.size)
  <2>1. Made([t EXCEPT !.value = w], t.buckets, t.bcount, t.next, w, t.tail, t.size)
    BY <1>4, MadeOfFields, MadeWrites
  <2>2. QED
    BY <1>2, <2>1, Zenon
<1>6. /\ t.bcount \in Nat /\ t.bcount >= MinBuckets /\ t.buckets \in [0 .. t.bcount - 1 -> Pointer]
      /\ t.next \in [Entry -> Place] /\ t.tail \in Entry /\ t.size \in Int
      /\ DOMAIN t.value \subseteq Key
  BY <1>4 DEF IsTable
<1>7. w = [x \in DOMAIN w |-> w[x]] /\ DOMAIN w = DOMAIN t.value
  BY <1>1
<1>8. /\ IsTable(u)
      /\ CountOf(u) = t.bcount /\ SizeOf(u) = t.size /\ ValuesOf(u) = w /\ TailOf(u) = t.tail
      /\ \A m : NextOf(u, m) = t.next[m]
      /\ \A d : BucketAt(u, d) = t.buckets[d]
  BY <1>5, <1>6, <1>7, MadeFields
<1>9. /\ CountOf(u) = CountOf(t) /\ SizeOf(u) = SizeOf(t) /\ TailOf(u) = TailOf(t)
      /\ DOMAIN ValuesOf(u) = DOMAIN ValuesOf(t)
      /\ \A m : NextOf(u, m) = NextOf(t, m)
      /\ \A d : BucketAt(u, d) = BucketAt(t, d)
  BY <1>7, <1>8 DEF CountOf, SizeOf, ValuesOf, TailOf, NextOf, BucketAt
<1>10. BucketAt(t, 0) = Nil => \E p, n : Threaded(u, p, n)
  <2> SUFFICES ASSUME BucketAt(t, 0) = Nil PROVE \E p, n : Threaded(u, p, n)
    OBVIOUS
  <2>1. PICK p, n : Threaded(t, p, n)
    BY DEF Intact
  <2>2. Strung(u, p, n)
    BY <1>9, <2>1, SameStrung DEF Threaded
  <2>3. QED
    BY <1>9, <2>1, <2>2 DEF Threaded
<1>11. Loaded(u)
  BY <1>9 DEF Intact, Loaded
<1>12. QED
  BY <1>3, <1>8, <1>9, <1>10, <1>11 DEF Intact

LEMMA FoundHeld ==
  ASSUME Setting, NEW t, IsTable(t), NEW p, NEW n, Reached(t, p, n), NEW k \in Key
  PROVE  Found(t, k) <=> k \in Held(p, n)
<1>1. ASSUME k \in Held(p, n) PROVE Found(t, k)
  <2>1. PICK j \in 1 .. n : k = p[j]
    BY <1>1 DEF Held
  <2>2. FindEntry(t, k) = p[j - 1] /\ j - 1 \in 0 .. n
    <3>1. n \in Nat
      BY DEF Reached, Order
    <3>2. FindEntry(t, p[j]) = p[j - 1]
      BY <2>1, FindHeld
    <3>3. QED
      BY <2>1, <3>1, <3>2
  <2>3. p[j - 1] \in Entry
    BY <2>2 DEF Reached, Order
  <2>4. QED
    BY <2>2, <2>3, Pointers DEF Found
<1>2. k \notin Held(p, n) => ~Found(t, k)
  BY FindNone DEF Found
<1>3. QED
  BY <1>1, <1>2

LEMMA RehashedIntact ==
  ASSUME Setting, NEW t, Intact(t), BucketAt(t, 0) = Nil, NEW count \in Int, NEW u \in Rehashed(t, count)
  PROVE  /\ Intact(u) /\ BucketAt(u, 0) = Nil
         /\ SizeOf(u) = SizeOf(t) /\ ValuesOf(u) = ValuesOf(t)
         /\ count <= CountOf(t) => u = t
         /\ count > CountOf(t) => /\ CountOf(u) >= count
                                  /\ \A k \in Key : BucketAt(u, Bk(u, k)) # Dangling
<1>1. CountOf(t) = t.bcount /\ CountOf(t) \in Nat /\ CountOf(t) >= MinBuckets /\ MinBuckets \in Nat
      /\ IsTable(t)
  BY TableFields, Pointers DEF Intact
<1>2. CASE count <= CountOf(t)
  <2>1. u = t
    BY <1>1, <1>2 DEF Rehashed
  <2>2. QED
    BY <1>1, <1>2, <2>1
<1>3. CASE count > CountOf(t)
  <2>1. ~(count <= t.bcount)
    BY <1>1, <1>3
  <2>2. PICK d \in UpToPow2(count) : u = Transferred(t, d)
    BY <2>1, Zenon DEF Rehashed
  <2>3. d \in Nat /\ d >= count /\ d >= MinBuckets /\ d >= CountOf(t)
    <3>1. d \in 1 .. MaxBuckets /\ d >= count
      BY Zenon DEF UpToPow2
    <3>2. QED
      BY <1>1, <1>3, <3>1
  <2>4. PICK p, n : Threaded(t, p, n)
    BY DEF Intact
  <2>5. AddedUpTo(t, u, p, n, d)
    BY <1>1, <2>2, <2>3, <2>4, TransferredStrung DEF Threaded
  <2>6. /\ IsTable(u)
        /\ CountOf(u) = d /\ SizeOf(u) = SizeOf(t) /\ ValuesOf(u) = ValuesOf(t)
    BY <2>5 DEF AddedUpTo
  <2>7. PICK q : Strung(u, q, n) /\ Clean(u, q, n) /\ Held(q, n) = Held(p, n)
    BY <2>5 DEF AddedUpTo
  <2>8. BucketAt(u, 0) = Nil
    BY <2>7 DEF Strung, Spare
  <2>9. Threaded(u, q, n)
    BY <2>4, <2>6, <2>7 DEF Threaded
  <2>10. Loaded(u)
    <3>1. ASSUME SizeOf(t) > 0 PROVE (SizeOf(t) - 1) * LoadDen < LoadNum * d
      <4>1. SizeOf(t) \in Int
        BY <1>1, TableFields
      <4>2. (SizeOf(t) - 1) * LoadDen \in Int
        BY <4>1, Constants
      <4>3. (SizeOf(t) - 1) * LoadDen < LoadNum * CountOf(t)
        BY <3>1 DEF Intact, Loaded
      <4>4. PICK a \in Int : a = (SizeOf(t) - 1) * LoadDen
        BY <4>2
      <4>5. a < LoadNum * d
        BY <1>1, <2>3, <4>3, <4>4, Constants, LoadGrows
      <4>6. QED
        BY <4>4, <4>5
    <3>2. QED
      BY <2>6, <3>1 DEF Loaded
  <2>11. \A k \in Key : BucketAt(u, Bk(u, k)) # Dangling
    BY <2>6, <2>7, CleanHeads
  <2>12. QED
    BY <1>1, <1>3, <2>3, <2>6, <2>8, <2>9, <2>10, <2>11 DEF Intact
<1>4. QED
  BY <1>1, <1>2, <1>3

LEMMA RoomIntact ==
  ASSUME Setting, LoadFits, NEW t, Intact(t), BucketAt(t, 0) = Nil, NEW u \in WithRoom(t)
  PROVE  /\ Intact(u) /\ BucketAt(u, 0) = Nil
         /\ SizeOf(u) = SizeOf(t) /\ ValuesOf(u) = ValuesOf(t)
         /\ SizeOf(u) * LoadDen < LoadNum * CountOf(u)
         /\ \A k \in Key : BucketAt(t, Bk(t, k)) # Dangling => BucketAt(u, Bk(u, k)) # Dangling
<1>1. /\ CountOf(t) = t.bcount /\ CountOf(t) \in Nat /\ CountOf(t) >= MinBuckets /\ CountOf(t) > 0
      /\ MinBuckets \in Nat /\ MinBuckets > 0 /\ SizeOf(t) = t.size /\ SizeOf(t) \in Int
  BY TableFields, Pointers DEF Intact, SizeOf
<1>2. SizeOf(t) \in Nat
  BY DEF Intact, Threaded, Strung, Order
<1>3. LoadNum * CountOf(t) \in Int /\ SizeOf(t) * LoadDen \in Int
  BY <1>1, Constants
<1>4. CASE ShouldRehash(t)
  <2>1. u \in Rehashed(t, 2 * t.bcount)
    BY <1>4 DEF WithRoom
  <2>2. PICK count \in Nat : count = 2 * CountOf(t) /\ u \in Rehashed(t, count) /\ count > CountOf(t)
    BY <1>1, <2>1
  <2>3. /\ Intact(u) /\ BucketAt(u, 0) = Nil
        /\ SizeOf(u) = SizeOf(t) /\ ValuesOf(u) = ValuesOf(t)
        /\ CountOf(u) >= count
        /\ \A k \in Key : BucketAt(u, Bk(u, k)) # Dangling
    BY <2>2, RehashedIntact
  <2>4. SizeOf(t) * LoadDen < LoadNum * CountOf(u)
    <3>1. CountOf(u) \in Nat /\ CountOf(u) >= 2 * CountOf(t)
      BY <2>2, <2>3, TableFields DEF Intact
    <3>2. SizeOf(t) > 0 => (SizeOf(t) - 1) * LoadDen < LoadNum * CountOf(t)
      BY DEF Intact, Loaded
    <3>3. PICK s \in Nat : s = SizeOf(t)
      BY <1>2
    <3>4. PICK c \in Nat : c = CountOf(t) /\ MinBuckets <= c
      BY <1>1
    <3>5. PICK e \in Nat : e = CountOf(u) /\ e >= 2 * c
      BY <3>1, <3>4
    <3>6. s > 0 => (s - 1) * LoadDen < LoadNum * c
      BY <3>2, <3>3, <3>4
    <3>7. s * LoadDen < LoadNum * e
      BY <1>1, <3>4, <3>5, <3>6, Constants, RoomTwice DEF LoadFits
    <3>8. QED
      BY <3>3, <3>5, <3>7
  <2>5. QED
    BY <2>3, <2>4
<1>5. CASE ~ShouldRehash(t)
  <2>1. u = t
    BY <1>5 DEF WithRoom
  <2>2. SizeOf(t) * LoadDen < LoadNum * CountOf(t)
    BY <1>1, <1>3, <1>5 DEF ShouldRehash
  <2>3. QED
    BY <2>1, <2>2
<1>6. QED
  BY <1>4, <1>5

LEMMA AddedIntact ==
  ASSUME Setting, NEW t, Intact(t), BucketAt(t, 0) = Nil, NEW k \in Key, k \notin DOMAIN ValuesOf(t),
         SizeOf(t) * LoadDen < LoadNum * CountOf(t), BucketAt(t, Bk(t, k)) # Dangling, NEW v
  PROVE  Intact([AddEntry(Malloced(t, k, v), k) EXCEPT !.size = t.size + 1])
<1>1. PICK p, n : Threaded(t, p, n)
  BY DEF Intact
<1>2. /\ IsTable(t) /\ Strung(t, p, n) /\ Held(p, n) = DOMAIN ValuesOf(t) /\ SizeOf(t) = n
      /\ SizeOf(t) = t.size /\ n \in Nat
  BY <1>1 DEF Threaded, Intact, Strung, Order, SizeOf
<1>3. PICK a : a = Malloced(t, k, v)
  OBVIOUS
<1>4. PICK b : b = AddEntry(a, k)
  OBVIOUS
<1>5. PICK u : u = [b EXCEPT !.size = n + 1]
  OBVIOUS
<1>6. u = [AddEntry(Malloced(t, k, v), k) EXCEPT !.size = t.size + 1]
  BY <1>2, <1>3, <1>4, <1>5, Zenon
<1>7. /\ IsTable(a)
      /\ CountOf(a) = CountOf(t) /\ SizeOf(a) = SizeOf(t) /\ TailOf(a) = TailOf(t)
      /\ DOMAIN ValuesOf(a) = DOMAIN ValuesOf(t) \cup {k}
      /\ SameLinks(t, a)
  <2>1. IsTable(t)
    BY <1>2
  <2>2. QED
    BY <1>3, <2>1, MallocedTable
<1>8. Strung(a, p, n)
  BY <1>2, <1>7, SameStrung DEF SameLinks
<1>9. BucketAt(a, Bk(a, k)) # Dangling
  BY <1>7 DEF Bk, SameLinks
<1>10. IsTable(b) /\ CountOf(b) = CountOf(a) /\ SizeOf(b) = SizeOf(a) /\ ValuesOf(b) = ValuesOf(a)
  BY <1>4, <1>7, <1>9, AddEntryTable
<1>11. /\ IsTable(u)
       /\ CountOf(u) = CountOf(b) /\ SizeOf(u) = n + 1 /\ TailOf(u) = TailOf(b)
       /\ ValuesOf(u) = ValuesOf(b)
       /\ SameLinks(b, u)
  <2>1. n + 1 \in Int
    BY <1>2
  <2>2. QED
    BY <1>5, <1>10, <2>1, SizedTable
<1>12. Loaded(u)
  <2>1. CountOf(u) = CountOf(t)
    BY <1>7, <1>10, <1>11, Zenon
  <2>2. n \in Nat /\ SizeOf(u) = n + 1 /\ SizeOf(t) = n
    BY <1>2, <1>11, Zenon
  <2>3. SizeOf(u) - 1 = SizeOf(t)
    BY <2>2
  <2>4. QED
    BY <2>1, <2>3 DEF Loaded
<1>13. ASSUME BucketAt(u, 0) = Nil PROVE \E q, m : Threaded(u, q, m)
  <2>1. BucketAt(b, 0) = Nil
    BY <1>11, <1>13 DEF SameLinks
  <2>2. k \notin Held(p, n)
    BY <1>2
  <2>3. PICK j \in 0 .. n : Strung(b, Put(p, n, j, k), n + 1)
    BY <1>4, <1>7, <1>8, <1>9, <2>1, <2>2, AddEntryStrung
  <2>4. Strung(u, Put(p, n, j, k), n + 1)
    BY <1>11, <2>3, SameStrung DEF SameLinks
  <2>5. Held(Put(p, n, j, k), n + 1) = Held(p, n) \cup {k}
    BY <1>2, <2>2, PutOrder DEF Strung
  <2>6. Threaded(u, Put(p, n, j, k), n + 1)
    BY <1>2, <1>7, <1>10, <1>11, <2>4, <2>5 DEF Threaded
  <2>7. QED
    BY <2>6
<1>14. QED
  BY <1>6, <1>11, <1>12, <1>13 DEF Intact

-----------------------------------------------------------------------------
(* The calls.  Every table is intact, those of handles that do not exist   *)
(* included.                                                               *)
TabInv ==
  /\ tab = [h \in Handle |-> tab[h]]
  /\ \A h \in Handle : Intact(tab[h])

LEMMA TabKept ==
  ASSUME TabInv, NEW h \in Handle, NEW t, Intact(t), tab' = [tab EXCEPT ![h] = t]
  PROVE  TabInv'
<1> DEFINE T(x) == IF x = h THEN t ELSE tab[x]
<1>1. tab' = [x \in Handle |-> T(x)]
  BY DEF TabInv
<1>2. \A x \in Handle : tab'[x] = t \/ tab'[x] = tab[x]
  BY <1>1
<1>3. \A x \in Handle : Intact(tab'[x])
  BY <1>2 DEF TabInv
<1>4. tab' = [x \in Handle |-> tab'[x]]
  BY <1>1
<1>5. Intact(t)' <=> Intact(t)
  OBVIOUS
<1>6. QED
  BY <1>3, <1>4 DEF TabInv

LEMMA TabSame ==
  ASSUME TabInv, tab' = tab
  PROVE  TabInv'
  BY DEF TabInv

(* A table the client may call: its nil entry is where it was. *)
LEMMA Kept ==
  ASSUME TabInv, Proceeds, NEW h \in Handle, h \in exists
  PROVE  Intact(tab[h]) /\ BucketAt(tab[h], 0) = Nil
  BY DEF TabInv, Proceeds, NilKept, BucketAt

LEMMA InsertKeeps ==
  ASSUME Setting, LoadFits, TabInv, Proceeds, NEW h \in Handle, h \in exists, NEW k \in Key, NEW v,
         MakeAndInsert(h, k, v), ~Dangles(h, k), ~Found(tab[h], k)
  PROVE  TabInv'
<1>1. PICK t : t = tab[h]
  OBVIOUS
<1>2. Intact(t) /\ BucketAt(t, 0) = Nil
  BY <1>1, Kept
<1>3. IsTable(t) /\ \E p, n : Threaded(t, p, n)
  BY <1>2 DEF Intact
<1>4. k \notin DOMAIN ValuesOf(t)
  BY <1>1, <1>3, FoundHeld, StrungReached DEF Threaded
<1>5. BucketAt(t, Bk(t, k)) # Dangling
  <2>1. BucketFor(k, t.bcount) = Bk(t, k)
    BY <1>3, TableFields
  <2>2. t.buckets[BucketFor(k, t.bcount)] # Dangling
    BY <1>1 DEF Dangles
  <2>3. QED
    BY <2>1, <2>2 DEF BucketAt
<1>6. ASSUME NEW u \in WithRoom(tab[h])
      PROVE  Intact(u) /\ Intact([AddEntry(Malloced(u, k, v), k) EXCEPT !.size = u.size + 1])
  <2>1. u \in WithRoom(t)
    BY <1>1, <1>6
  <2>2. /\ Intact(u) /\ BucketAt(u, 0) = Nil /\ ValuesOf(u) = ValuesOf(t)
        /\ SizeOf(u) * LoadDen < LoadNum * CountOf(u)
        /\ BucketAt(u, Bk(u, k)) # Dangling
    BY <1>2, <1>5, <2>1, RoomIntact
  <2>3. k \notin DOMAIN ValuesOf(u)
    BY <1>4, <2>2
  <2>4. QED
    BY <2>2, <2>3, AddedIntact
<1>7. Intact(tab[h])
  BY <1>1, <1>2
<1>8. QED
  BY <1>6, <1>7, TabKept, Zenon DEF MakeAndInsert, Update, OutOfMemory

LEMMA ChangeKeeps ==
  ASSUME TabInv, NEW h \in Handle, NEW t, Intact(t), NEW done, NEW at, Update(h, t, done, at)
  PROVE  TabInv'
  BY TabKept, Zenon DEF Update

LEMMA EraseKeeps ==
  ASSUME Setting, TabInv, Proceeds, NEW h \in Handle, NEW k \in Key, Erase(h, k)
  PROVE  TabInv'
<1>1. h \in exists
  BY Zenon DEF Erase
<1>2. Intact(tab[h]) /\ BucketAt(tab[h], 0) = Nil
  BY <1>1, Kept
<1>3. FindEntry(tab[h], k) # Null =>
        Intact(EraseEntry(tab[h], FindEntry(tab[h], k), BucketFor(k, tab[h].bcount)))
  BY <1>2, EraseIntact, Zenon
<1>4. FollowsDangling(h, k) => TabInv'
  BY TabSame DEF FollowsDangling
<1>5. QED
  BY <1>2, <1>3, <1>4, ChangeKeeps, Zenon DEF Erase

LEMMA ClearKeeps ==
  ASSUME Setting, TabInv, Proceeds, NEW h \in Handle, Clear(h)
  PROVE  TabInv'
<1>1. h \in exists
  BY Zenon DEF Clear
<1>2. Intact(tab[h]) /\ BucketAt(tab[h], 0) = Nil
  BY <1>1, Kept
<1>3. Intact([Freed(tab[h], Range(Listing(tab[h]))) EXCEPT !.next[tab[h].buckets[0]] = Null,
                                  !.tail = tab[h].buckets[0], !.size = 0])
  BY <1>2, ClearIntact, Zenon
<1>4. QED
  BY <1>3, ChangeKeeps, Zenon DEF Clear

LEMMA RehashKeeps ==
  ASSUME Setting, TabInv, Proceeds, NEW h \in Handle, NEW count \in Int, Rehash(h, count)
  PROVE  TabInv'
<1>1. h \in exists
  BY Zenon DEF Rehash
<1>2. Intact(tab[h]) /\ BucketAt(tab[h], 0) = Nil
  BY <1>1, Kept
<1>3. \A u \in Rehashed(tab[h], count) : Intact(u)
  BY <1>2, RehashedIntact, Zenon
<1>4. QED
  BY <1>2, <1>3, ChangeKeeps, TabKept, Zenon DEF Rehash, OutOfMemory

LEMMA SwapKeeps ==
  ASSUME TabInv, NEW g \in Handle, NEW h \in Handle, Swap(g, h)
  PROVE  TabInv'
<1>1. PICK t : t = [tab EXCEPT ![g] = tab[h]]
  OBVIOUS
<1>2. tab' = [t EXCEPT ![h] = tab[g]]
  BY <1>1, Zenon DEF Swap
<1>3. \A x \in Handle : tab'[x] = tab[h] \/ tab'[x] = tab[g] \/ tab'[x] = tab[x]
  BY <1>1, <1>2 DEF TabInv
<1>4. tab' = [x \in Handle |-> tab'[x]]
  BY <1>1, <1>2 DEF TabInv
<1>5. \A x \in Handle : Intact(tab'[x])
  BY <1>3, Zenon DEF TabInv
<1>6. QED
  BY <1>4, <1>5 DEF TabInv

(* The calls of the table h, those with a key and a value and the others.  *)
KeyCall(h, k, v) == Erase(h, k) \/ Find(h, k) \/ Insert(h, k, v) \/ InsertOrAssign(h, k, v)

TableCall(g, h, count) ==
  Ctor(h) \/ Dtor(h) \/ Clear(h) \/ Rehash(h, count) \/ Reserve(h, count) \/ Swap(g, h)

LEMMA KeyCallKeeps ==
  ASSUME Setting, LoadFits, TabInv, Proceeds, NEW h \in Handle, NEW k \in Key, NEW v, KeyCall(h, k, v)
  PROVE  TabInv'
<1>1. Intact(tab[h])
  BY DEF TabInv
<1>2. FollowsDangling(h, k) => TabInv'
  BY TabSame DEF FollowsDangling
<1>3. CASE Find(h, k)
  BY <1>1, <1>2, <1>3, ChangeKeeps, Zenon DEF Find
<1>4. CASE Insert(h, k, v)
  BY <1>1, <1>2, <1>4, ChangeKeeps, InsertKeeps, Zenon DEF Insert
<1>5. CASE InsertOrAssign(h, k, v)
  <2>1. Intact([tab[h] EXCEPT !.value[k] = v])
    BY <1>1, AssignedIntact
  <2>2. QED
    BY <1>2, <1>5, <2>1, ChangeKeeps, InsertKeeps, Zenon DEF InsertOrAssign
<1>6. QED
  BY <1>3, <1>4, <1>5, EraseKeeps, Zenon DEF KeyCall

LEMMA TableCallKeeps ==
  ASSUME Setting, TabInv, Proceeds, NEW g \in Handle, NEW h \in Handle, NEW count \in Int,
         TableCall(g, h, count)
  PROVE  TabInv'
<1>1. Intact(NewTable) /\ Intact(tab[h])
  BY NewTableIntact DEF TabInv
<1>2. CASE Ctor(h) \/ Dtor(h)
  BY <1>1, <1>2, TabKept, Zenon DEF Ctor, Dtor, OutOfMemory
<1>3. CASE Reserve(h, count)
  <2>1. (count * LoadDen) \div LoadNum + 1 \in Int
    <3>1. count * LoadDen \in Int
      BY Constants
    <3>2. QED
      BY <3>1, Constants
  <2>2. QED
    BY <1>3, <2>1, RehashKeeps, Zenon DEF Reserve
<1>4. QED
  BY <1>2, <1>3, ClearKeeps, RehashKeeps, SwapKeeps, Zenon DEF TableCall

-----------------------------------------------------------------------------
(* What an intact table promises its client. *)
LEMMA ListHolds ==
  ASSUME Setting, NEW t, Intact(t), t.buckets[0] = Nil
  PROVE  /\ IsInjective(Listing(t))
         /\ Range(Listing(t)) = DOMAIN t.value
         /\ Len(Listing(t)) = t.size
         /\ Last(Chain(t, Nil)) = t.tail
<1>1. PICK p, n : Threaded(t, p, n)
  BY DEF Intact, BucketAt
<1>2. IsTable(t) /\ Strung(t, p, n) /\ Held(p, n) = DOMAIN t.value /\ t.size = n
  BY <1>1 DEF Threaded, Intact, ValuesOf, SizeOf
<1>3. /\ Order(p, n) /\ Links(t, p, n)
      /\ n \in Nat /\ p \in [0 .. n -> Entry] /\ p[0] = Nil
      /\ \A i, j \in 0 .. n : p[i] = p[j] => i = j
  BY <1>2 DEF Strung, Order
<1>4. /\ Listing(t) = [i \in 1 .. n |-> p[i]]
      /\ Len(Listing(t)) = n /\ Range(Listing(t)) = Held(p, n)
  BY <1>2, ListingIs
<1>5. IsInjective(Listing(t))
  <2>1. PICK l : l = Listing(t)
    OBVIOUS
  <2>2. DOMAIN l = 1 .. n /\ \A i \in 1 .. n : l[i] = p[i]
    BY <1>4, <2>1
  <2>3. \A i, j \in DOMAIN l : l[i] = l[j] => i = j
    BY <1>3, <2>2
  <2>4. QED
    BY <2>1, <2>3 DEF IsInjective
<1>6. Last(Chain(t, Nil)) = t.tail
  <2>1. Chain(t, p[0]) = Rest(p, n, 0)
    BY <1>2, <1>3, ChainIs
  <2>2. PICK c : c = Chain(t, Nil)
    OBVIOUS
  <2>3. c = [x \in 1 .. n + 1 |-> p[x - 1]]
    <3>1. c = Rest(p, n, 0)
      BY <1>3, <2>1, <2>2, Zenon
    <3>2. n - 0 + 1 = n + 1 /\ \A x \in 1 .. n + 1 : 0 + x - 1 = x - 1
      BY <1>3
    <3>3. QED
      BY <3>1, <3>2 DEF Rest
  <2>4. c \in Seq(Entry) /\ Len(c) = n + 1
    <3>1. \A x \in 1 .. n + 1 : p[x - 1] \in Entry
      BY <1>3
    <3>2. QED
      BY <1>3, <2>3, <3>1
  <2>5. c[n + 1] = p[n]
    BY <1>3, <2>3
  <2>6. p[n] = t.tail
    BY <1>3 DEF Links, TailOf
  <2>7. QED
    BY <2>2, <2>4, <2>5, <2>6 DEF Last
<1>7. QED
  BY <1>2, <1>4, <1>5, <1>6, Zenon

LEMMA LookupHolds ==
  ASSUME Setting, NEW t, Intact(t), t.buckets[0] = Nil, NEW k \in Key
  PROVE  Found(t, k) <=> k \in Range(Listing(t))
<1>1. PICK p, n : Threaded(t, p, n)
  BY DEF Intact, BucketAt
<1>2. IsTable(t) /\ Strung(t, p, n)
  BY <1>1 DEF Threaded, Intact
<1>3. QED
  BY <1>2, ListingIs, FoundHeld, StrungReached

LEMMA LoadHolds ==
  ASSUME NEW t, Intact(t), t.size > 0
  PROVE  (t.size - 1) * LoadDen < LoadNum * t.bcount
  BY DEF Intact, Loaded, SizeOf, CountOf

LEMMA TabPromises ==
  ASSUME Setting, TabInv, exists \subseteq Handle
  PROVE  ListInv /\ LookupInv /\ LoadInv
<1>1. \A h \in exists : Intact(tab[h])
  BY DEF TabInv
<1>2. ListInv
  BY <1>1, ListHolds, Zenon DEF ListInv, NilKept
<1>3. LookupInv
  BY <1>1, LookupHolds, Zenon DEF LookupInv, NilKept
<1>4. LoadInv
  BY <1>1, LoadHolds, Zenon DEF LoadInv
<1>5. QED
  BY <1>2, <1>3, <1>4

-----------------------------------------------------------------------------
(* What the calls say of the maps the lookups see (Promise). *)
Seen == [h \in Handle |-> Contents(tab[h])]

(* An intact table whose nil entry is in its bucket shows the values of    *)
(* all its entries.                                                        *)
LEMMA ReachedContents ==
  ASSUME Setting, NEW t, IsTable(t), NEW p, NEW n, Reached(t, p, n), Held(p, n) = DOMAIN ValuesOf(t)
  PROVE  /\ Contents(t) = ValuesOf(t)
         /\ DOMAIN ValuesOf(t) \subseteq Key
         /\ \A k \in Key : Found(t, k) <=> k \in DOMAIN ValuesOf(t)
<1>1. \A k \in Key : Found(t, k) <=> k \in DOMAIN ValuesOf(t)
  BY FoundHeld
<1>2. ValuesOf(t) = t.value /\ t.value = [k \in DOMAIN t.value |-> t.value[k]] /\ DOMAIN t.value \subseteq Key
  BY DEF IsTable, ValuesOf
<1>3. {x \in Key : Found(t, x)} = DOMAIN t.value
  BY <1>1, <1>2
<1>4. Contents(t) = [k \in DOMAIN t.value |-> t.value[k]]
  BY <1>3, Zenon DEF Contents
<1>5. QED
  BY <1>1, <1>2, <1>4

LEMMA ContentsAre ==
  ASSUME Setting, NEW t, Intact(t), BucketAt(t, 0) = Nil
  PROVE  /\ Contents(t) = ValuesOf(t)
         /\ DOMAIN ValuesOf(t) \subseteq Key
         /\ \A k \in Key : Found(t, k) <=> k \in DOMAIN ValuesOf(t)
<1>1. IsTable(t) /\ \E p, n : Threaded(t, p, n)
  BY DEF Intact
<1>2. PICK p, n : Reached(t, p, n) /\ Held(p, n) = DOMAIN ValuesOf(t)
  BY <1>1, StrungReached DEF Threaded
<1>3. QED
  BY <1>1, <1>2, ReachedContents

LEMMA NewContents ==
  ASSUME Setting
  PROVE  Contents(NewTable) = Promise!EmptyMap
<1>1. PICK t : t = NewTable
  OBVIOUS
<1>2. DOMAIN ValuesOf(t) = {} /\ Strung(t, NilOnly, 0) /\ Intact(t) /\ IsTable(t)
  BY <1>1, NewTableStrung, NewTableIntact
<1>3. BucketAt(t, 0) = Nil
  BY <1>2 DEF Strung, Spare
<1>4. Contents(t) = ValuesOf(t)
  BY <1>2, <1>3, ContentsAre
<1>5. ValuesOf(t) = [k \in {} |-> ValuesOf(t)[k]]
  BY <1>2 DEF IsTable, ValuesOf
<1>6. QED
  BY <1>1, <1>4, <1>5 DEF Promise!EmptyMap

LEMMA EraseContents ==
  ASSUME Setting, NEW t, Intact(t), BucketAt(t, 0) = Nil, NEW k \in Key, FindEntry(t, k) # Null,
         NEW u, u = EraseEntry(t, FindEntry(t, k), BucketFor(k, t.bcount))
  PROVE  Contents(u) = Promise!Restrict(Contents(t), DOMAIN Contents(t) \ {k})
<1>1. PICK p, n : Threaded(t, p, n)
  BY DEF Intact
<1>2. IsTable(t) /\ Strung(t, p, n) /\ Held(p, n) = DOMAIN ValuesOf(t) /\ SizeOf(t) = n
  BY <1>1 DEF Threaded, Intact
<1>3. k \in Held(p, n)
  BY <1>2, FindNone, StrungReached
<1>4. PICK j \in 1 .. n : k = p[j]
  BY <1>3 DEF Held
<1>5. u = EraseEntry(t, p[j - 1], Bk(t, p[j]))
  <2>1. FindEntry(t, k) = p[j - 1]
    BY <1>2, <1>4, FindHeld, StrungReached
  <2>2. BucketFor(k, t.bcount) = Bk(t, p[j])
    BY <1>2, <1>4, TableFields
  <2>3. QED
    BY <2>1, <2>2
<1>6. /\ IsTable(u) /\ DOMAIN ValuesOf(u) = DOMAIN ValuesOf(t) \ {p[j]}
      /\ KeepsValues(t, u) /\ Strung(u, Taken(p, n, j), n - 1)
  BY <1>2, <1>5, EraseStrung
<1>7. Intact(u) /\ BucketAt(u, 0) = Nil
  BY <1>6, EraseIntact DEF Strung, Spare
<1>8. Contents(t) = ValuesOf(t) /\ Contents(u) = ValuesOf(u)
  BY <1>7, ContentsAre
<1>9. ValuesOf(u) = [y \in DOMAIN ValuesOf(t) \ {k} |-> ValuesOf(t)[y]]
  <2>1. ValuesOf(u) = [y \in DOMAIN ValuesOf(u) |-> ValuesOf(u)[y]]
    BY <1>6 DEF IsTable, ValuesOf
  <2>2. DOMAIN ValuesOf(u) = DOMAIN ValuesOf(t) \ {k}
    BY <1>4, <1>6
  <2>3. QED
    BY <1>6, <2>1, <2>2 DEF KeepsValues
<1>10. QED
  BY <1>8, <1>9, Zenon DEF Promise!Restrict

LEMMA ClearContents ==
  ASSUME Setting, NEW t, Intact(t), BucketAt(t, 0) = Nil,
         NEW u, u = [Freed(t, Range(Listing(t))) EXCEPT !.next[t.buckets[0]] = Null,
                                                       !.tail = t.buckets[0], !.size = 0]
  PROVE  Contents(u) = Promise!EmptyMap
<1>1. PICK p, n : Threaded(t, p, n)
  BY DEF Intact
<1>2. IsTable(u) /\ DOMAIN ValuesOf(u) = {} /\ Strung(u, NilOnly, 0)
  BY <1>1, ClearStrung DEF Threaded, Intact
<1>3. Intact(u) /\ BucketAt(u, 0) = Nil
  BY <1>2, ClearIntact DEF Strung, Spare
<1>4. Contents(u) = ValuesOf(u)
  BY <1>3, ContentsAre
<1>5. ValuesOf(u) = [k \in {} |-> ValuesOf(u)[k]]
  BY <1>2 DEF IsTable, ValuesOf
<1>6. QED
  BY <1>4, <1>5 DEF Promise!EmptyMap

LEMMA AssignedContents ==
  ASSUME Setting, NEW t, Intact(t), BucketAt(t, 0) = Nil, NEW k \in Key, Found(t, k), NEW v,
         NEW u, u = [t EXCEPT !.value[k] = v]
  PROVE  Contents(u) = Promise!With(Contents(t), k, v)
<1>1. PICK w : w = [t.value EXCEPT ![k] = v]
  OBVIOUS
<1>2. PICK bs, c, nx, x, tl, sz :
        t = [buckets |-> bs, bcount |-> c, next |-> nx, value |-> x, tail |-> tl, size |-> sz]
  BY Zenon DEF Intact, IsTable
<1>3. u.value = w /\ u.buckets = t.buckets
  BY <1>1, <1>2
<1>4. Intact(u) /\ BucketAt(u, 0) = Nil
  BY <1>3, AssignedIntact DEF BucketAt
<1>5. Contents(u) = w /\ Contents(t) = t.value /\ k \in DOMAIN t.value
  BY <1>3, <1>4, ContentsAre DEF ValuesOf
<1>6. w = [z \in DOMAIN t.value \cup {k} |-> IF z = k THEN v ELSE t.value[z]]
  BY <1>1, <1>5
<1>7. QED
  BY <1>5, <1>6, Zenon DEF Promise!With

LEMMA SameReached ==
  ASSUME NEW t, NEW u, SameLinks(t, u), CountOf(u) = CountOf(t), TailOf(u) = TailOf(t),
         NEW p, NEW n, Reached(t, p, n)
  PROVE  Reached(u, p, n)
<1>1. \A m : Bk(u, m) = Bk(t, m)
  BY DEF Bk
<1>2. Links(u, p, n)
  BY DEF Reached, Links, SameLinks
<1>3. QED
  BY <1>1, <1>2 DEF Reached, SameLinks

LEMMA AddedContents ==
  ASSUME Setting, NEW t, Intact(t), BucketAt(t, 0) = Nil, NEW k \in Key, k \notin DOMAIN ValuesOf(t),
         BucketAt(t, Bk(t, k)) # Dangling, NEW v,
         NEW u, u = [AddEntry(Malloced(t, k, v), k) EXCEPT !.size = t.size + 1]
  PROVE  Contents(u) = Promise!With(Contents(t), k, v)
<1>1. PICK a : a = Malloced(t, k, v)
  OBVIOUS
<1>2. PICK b : b = AddEntry(a, k)
  OBVIOUS
<1>3. IsTable(t) /\ t.size + 1 \in Int
  <2>1. IsTable(t)
    BY DEF Intact
  <2>2. QED
    BY <2>1, TableFields DEF SizeOf
<1>4. PICK p, n : Threaded(t, p, n)
  BY DEF Intact
<1>5. Strung(t, p, n) /\ Held(p, n) = DOMAIN ValuesOf(t) /\ k \notin Held(p, n)
  BY <1>4 DEF Threaded
<1>6. /\ IsTable(a) /\ CountOf(a) = CountOf(t) /\ SizeOf(a) = SizeOf(t) /\ TailOf(a) = TailOf(t)
      /\ DOMAIN ValuesOf(a) = DOMAIN ValuesOf(t) \cup {k} /\ SameLinks(t, a)
  BY <1>1, <1>3, MallocedTable
<1>7. Strung(a, p, n)
  BY <1>5, <1>6, SameStrung DEF SameLinks
<1>8. BucketAt(a, Bk(a, k)) # Dangling
  BY <1>6 DEF Bk, SameLinks
<1>9. IsTable(b) /\ ValuesOf(b) = ValuesOf(a)
  BY <1>2, <1>6, <1>8, AddEntryTable
<1>10. /\ IsTable(u) /\ CountOf(u) = CountOf(b) /\ TailOf(u) = TailOf(b)
       /\ ValuesOf(u) = ValuesOf(b) /\ SameLinks(b, u)
  BY <1>1, <1>2, <1>3, <1>9, SizedTable
<1>11. \E j \in 0 .. n : Reached(b, Put(p, n, j, k), n + 1)
  <2>1. CASE BucketAt(b, 0) = Nil
    <3>1. PICK j \in 0 .. n : Strung(b, Put(p, n, j, k), n + 1)
      BY <1>2, <1>5, <1>6, <1>7, <1>8, <2>1, AddEntryStrung
    <3>2. QED
      BY <1>9, <3>1, StrungReached
  <2>2. CASE BucketAt(b, 0) # Nil
    <3>1. Reached(b, Put(p, n, 0, k), n + 1)
      BY <1>2, <1>5, <1>6, <1>7, <1>8, <2>2, LostReached
    <3>2. 0 \in 0 .. n
      BY <1>5 DEF Strung, Order
    <3>3. QED
      BY <3>1, <3>2
  <2>3. QED
    BY <2>1, <2>2
<1>12. PICK j \in 0 .. n : Reached(b, Put(p, n, j, k), n + 1)
  BY <1>11
<1>13. Held(Put(p, n, j, k), n + 1) = DOMAIN ValuesOf(u)
  <2>1. Held(Put(p, n, j, k), n + 1) = Held(p, n) \cup {k}
    BY <1>5, PutOrder DEF Strung
  <2>2. QED
    BY <1>5, <1>6, <1>9, <1>10, <2>1
<1>14. Contents(u) = ValuesOf(u) /\ Contents(t) = ValuesOf(t)
  <2>1. Reached(u, Put(p, n, j, k), n + 1)
    BY <1>10, <1>12, SameReached
  <2>2. QED
    BY <1>10, <1>13, <2>1, ReachedContents, ContentsAre
<1>15. ValuesOf(a) = [x \in DOMAIN t.value \cup {k} |-> IF x = k THEN v ELSE t.value[x]]
  <2>1. PICK w : w = [x \in DOMAIN t.value \cup {k} |-> IF x = k THEN v ELSE t.value[x]]
    OBVIOUS
  <2>2. a = [t EXCEPT !.value = w]
    BY <1>1, <2>1, Zenon DEF Malloced
  <2>3. Made(a, t.buckets, t.bcount, t.next, w, t.tail, t.size)
    BY <1>3, <2>2, MadeOfFields, MadeWrites
  <2>4. QED
    BY <2>1, <2>3 DEF Made, ValuesOf
<1>16. QED
  BY <1>9, <1>10, <1>14, <1>15, Zenon DEF Promise!With, ValuesOf

(* A table is replaced, and the other maps are what they were. *)
LEMMA SeenBecomes ==
  ASSUME TabInv, NEW h \in Handle, NEW t, tab' = [tab EXCEPT ![h] = t]
  PROVE  Seen' = [Seen EXCEPT ![h] = Contents(t)] /\ tab'[h] = t
<1>1. \A x \in Handle : tab'[x] = IF x = h THEN t ELSE tab[x]
  BY DEF TabInv
<1>2. \A x \in Handle : Contents(tab'[x]) = IF x = h THEN Contents(t) ELSE Contents(tab[x])
  BY <1>1
<1>3. Seen' = [x \in Handle |-> Contents(tab'[x])]
  BY DEF Seen
<1>4. QED
  BY <1>1, <1>2, <1>3 DEF Seen

LEMMA UpdateBecomes ==
  ASSUME TabInv, NEW h \in Handle, NEW t, NEW done, NEW at, Update(h, t, done, at), NEW f, Contents(t) = f
  PROVE  Promise!Becomes(h, f, done, at)
<1>1. tab' = [tab EXCEPT ![h] = t] /\ ret' = Returned("OK", done, at) /\ exists' = exists
  BY DEF Update
<1>2. Seen' = [Seen EXCEPT ![h] = f]
  BY <1>1, SeenBecomes
<1>3. QED
  BY <1>1, <1>2, Zenon DEF Promise!Becomes, Promise!Returned, Returned, Seen

LEMMA RefusalChangesNothing ==
  ASSUME TabInv, NEW h \in Handle, NEW t, OutOfMemory(h, t), Contents(t) = Contents(tab[h])
  PROVE  Promise!OutOfMemory
<1>1. /\ tab' = [tab EXCEPT ![h] = t] /\ ret' = Returned("BAD_ALLOC", FALSE, Null)
      /\ exists' = exists
  BY DEF OutOfMemory
<1>2. Seen' = [Seen EXCEPT ![h] = Contents(tab[h])]
  BY <1>1, SeenBecomes
<1>3. Seen' = Seen
  BY <1>2 DEF Seen
<1>4. QED
  BY <1>1, <1>3, Zenon DEF Promise!OutOfMemory, Promise!Returned, Returned, Seen

(* A table the client may call. *)
LEMMA Callable ==
  ASSUME TabInv, Proceeds, NEW h \in Handle, h \in exists
  PROVE  /\ Intact(tab[h]) /\ BucketAt(tab[h], 0) = Nil
         /\ Seen[h] = Contents(tab[h])
  BY Kept DEF Proceeds, NilKept, BucketAt, Seen

LEMMA NewEntryAnswers ==
  ASSUME Setting, LoadFits, TabInv, Proceeds, NEW h \in Handle, h \in exists,
         NEW k \in Key, NEW v, MakeAndInsert(h, k, v), ~Dangles(h, k), ~Found(tab[h], k)
  PROVE  /\ k \notin DOMAIN Seen[h]
         /\ Promise!Becomes(h, Promise!With(Seen[h], k, v), TRUE, k) \/ Promise!OutOfMemory
<1>1. PICK t : t = tab[h]
  OBVIOUS
<1>2. /\ Intact(t) /\ BucketAt(t, 0) = Nil /\ Seen[h] = Contents(t)
  BY <1>1, Callable
<1>3. IsTable(t) /\ k \notin DOMAIN ValuesOf(t) /\ Contents(t) = ValuesOf(t)
  BY <1>1, <1>2, ContentsAre DEF Intact
<1>4. BucketAt(t, Bk(t, k)) # Dangling
  <2>1. BucketFor(k, t.bcount) = Bk(t, k)
    BY <1>3, TableFields
  <2>2. t.buckets[BucketFor(k, t.bcount)] # Dangling
    BY <1>1 DEF Dangles
  <2>3. QED
    BY <2>1, <2>2 DEF BucketAt
<1>5. ASSUME NEW u \in WithRoom(tab[h])
      PROVE  /\ Intact(u) /\ BucketAt(u, 0) = Nil /\ ValuesOf(u) = ValuesOf(t)
             /\ SizeOf(u) * LoadDen < LoadNum * CountOf(u)
             /\ BucketAt(u, Bk(u, k)) # Dangling
             /\ Contents(u) = Contents(t)
  <2>1. u \in WithRoom(t)
    BY <1>1, <1>5
  <2>2. /\ Intact(u) /\ BucketAt(u, 0) = Nil /\ ValuesOf(u) = ValuesOf(t)
        /\ SizeOf(u) * LoadDen < LoadNum * CountOf(u)
        /\ BucketAt(u, Bk(u, k)) # Dangling
    BY <1>2, <1>4, <2>1, RoomIntact
  <2>3. QED
    BY <1>3, <2>2, ContentsAre
<1>6. ASSUME NEW u \in WithRoom(tab[h]),
             Update(h, [AddEntry(Malloced(u, k, v), k) EXCEPT !.size = u.size + 1], TRUE, k)
      PROVE  Promise!Becomes(h, Promise!With(Seen[h], k, v), TRUE, k)
  <2>1. PICK w : w = [AddEntry(Malloced(u, k, v), k) EXCEPT !.size = u.size + 1]
    OBVIOUS
  <2>2. Update(h, w, TRUE, k)
    BY <1>6, <2>1
  <2>3. k \notin DOMAIN ValuesOf(u)
    BY <1>3, <1>5
  <2>4. Contents(w) = Promise!With(Contents(u), k, v)
    BY <1>5, <2>1, <2>3, AddedContents
  <2>5. Contents(w) = Promise!With(Seen[h], k, v)
    BY <1>2, <1>5, <2>4, Zenon
  <2>6. QED
    BY <2>2, <2>5, UpdateBecomes
<1>7. ASSUME NEW u \in WithRoom(tab[h]), OutOfMemory(h, u)
      PROVE  Promise!OutOfMemory
  <2>1. Contents(u) = Contents(tab[h])
    BY <1>1, <1>5
  <2>2. QED
    BY <1>7, <2>1, RefusalChangesNothing
<1>8. OutOfMemory(h, tab[h]) => Promise!OutOfMemory
  BY RefusalChangesNothing
<1>9. QED
  BY <1>2, <1>3, <1>6, <1>7, <1>8, Zenon DEF MakeAndInsert

LEMMA KeyCallAnswers ==
  ASSUME Setting, LoadFits, TabInv, Proceeds, ~fault', NEW h \in Handle, NEW k \in Key, NEW v,
         KeyCall(h, k, v)
  PROVE  /\ Erase(h, k) => Promise!Erase(h, k)
         /\ Find(h, k) => Promise!Find(h, k)
         /\ Insert(h, k, v) => Promise!Insert(h, k, v)
         /\ InsertOrAssign(h, k, v) => Promise!InsertOrAssign(h, k, v)
<1>1. h \in exists /\ exists' = exists
  BY Zenon DEF KeyCall, Erase, Find, Insert, InsertOrAssign, FollowsDangling, Update, MakeAndInsert, OutOfMemory
<1>2. /\ Intact(tab[h]) /\ BucketAt(tab[h], 0) = Nil
      /\ Seen[h] = Contents(tab[h])
  BY <1>1, Callable
<1>3. ~FollowsDangling(h, k)
  BY DEF FollowsDangling
<1>4. Found(tab[h], k) <=> k \in DOMAIN Seen[h]
  BY <1>2, ContentsAre
<1>5. ASSUME NEW t, NEW done, NEW at, Update(h, t, done, at)
      PROVE  \A f : Contents(t) = f => Promise!Becomes(h, f, done, at)
  BY <1>5, UpdateBecomes
<1>6. ASSUME Find(h, k) PROVE Promise!Find(h, k)
  <2>1. Update(h, tab[h], Found(tab[h], k), IF Found(tab[h], k) THEN k ELSE Null)
    BY <1>3, <1>6 DEF Find
  <2>2. Promise!Becomes(h, Seen[h], Found(tab[h], k), IF Found(tab[h], k) THEN k ELSE Null)
    BY <1>2, <1>5, <2>1, Zenon
  <2>3. CASE Found(tab[h], k)
    <3>1. Found(tab[h], k) = TRUE /\ (k \in DOMAIN Seen[h]) = TRUE
      BY <1>4, <2>3 DEF Found
    <3>2. Promise!Becomes(h, Seen[h], TRUE, k)
      BY <2>2, <2>3, <3>1
    <3>3. QED
      BY <1>1, <3>1, <3>2 DEF Promise!Find, Seen
  <2>4. CASE ~Found(tab[h], k)
    <3>1. Found(tab[h], k) = FALSE /\ (k \in DOMAIN Seen[h]) = FALSE
      BY <1>4, <2>4 DEF Found
    <3>2. Promise!Becomes(h, Seen[h], FALSE, Null)
      BY <2>2, <2>4, <3>1
    <3>3. QED
      BY <1>1, <3>1, <3>2 DEF Promise!Find, Seen
  <2>5. QED
    BY <2>3, <2>4
<1>7. ASSUME Erase(h, k) PROVE Promise!Erase(h, k)
  <2>1. CASE FindEntry(tab[h], k) = Null
    <3>1. Update(h, tab[h], FALSE, Null)
      BY <1>3, <1>7, <2>1, Zenon DEF Erase
    <3>2. k \notin DOMAIN Seen[h]
      BY <1>4, <2>1 DEF Found
    <3>3. Promise!Becomes(h, Seen[h], FALSE, Null)
      BY <1>2, <1>5, <3>1
    <3>4. Promise!Restrict(Seen[h], DOMAIN Seen[h] \ {k}) = Seen[h]
      <4>1. DOMAIN Seen[h] \ {k} = DOMAIN Seen[h]
        BY <3>2
      <4>2. Seen[h] = [x \in DOMAIN Seen[h] |-> Seen[h][x]]
        BY <1>2, Zenon DEF Contents
      <4>3. QED
        BY <4>1, <4>2, Zenon DEF Promise!Restrict
    <3>5. (k \in DOMAIN Seen[h]) = FALSE
      BY <3>2
    <3>6. QED
      BY <1>1, <3>3, <3>4, <3>5 DEF Promise!Erase, Seen
  <2>2. CASE FindEntry(tab[h], k) # Null
    <3>1. PICK u : u = EraseEntry(tab[h], FindEntry(tab[h], k), BucketFor(k, tab[h].bcount))
      OBVIOUS
    <3>2. Update(h, u, TRUE, Null)
      BY <1>3, <1>7, <2>2, <3>1, Zenon DEF Erase
    <3>3. Contents(u) = Promise!Restrict(Contents(tab[h]), DOMAIN Contents(tab[h]) \ {k})
      BY <1>2, <2>2, <3>1, EraseContents
    <3>4. Contents(u) = Promise!Restrict(Seen[h], DOMAIN Seen[h] \ {k})
      BY <1>2, <3>3, Zenon
    <3>5. Promise!Becomes(h, Promise!Restrict(Seen[h], DOMAIN Seen[h] \ {k}), TRUE, Null)
      BY <1>5, <3>2, <3>4
    <3>6. k \in DOMAIN Seen[h]
      BY <1>4, <2>2 DEF Found
    <3>7. QED
      BY <1>1, <3>5, <3>6 DEF Promise!Erase, Seen
  <2>3. QED
    BY <2>1, <2>2
<1>8. ASSUME ~Dangles(h, k), ~Found(tab[h], k), MakeAndInsert(h, k, v)
      PROVE  /\ k \notin DOMAIN Seen[h]
             /\ Promise!Becomes(h, Promise!With(Seen[h], k, v), TRUE, k) \/ Promise!OutOfMemory
  BY <1>1, <1>8, NewEntryAnswers
<1>9. ASSUME Insert(h, k, v) PROVE Promise!Insert(h, k, v)
  <2>1. CASE Found(tab[h], k) /\ Update(h, tab[h], FALSE, k)
    <3>1. Promise!Becomes(h, Seen[h], FALSE, k)
      BY <1>2, <1>5, <2>1
    <3>2. QED
      BY <1>1, <1>4, <2>1, <3>1 DEF Promise!Insert, Seen
  <2>2. CASE ~Dangles(h, k) /\ ~Found(tab[h], k) /\ MakeAndInsert(h, k, v)
    BY <1>1, <1>8, <2>2 DEF Promise!Insert, Seen
  <2>3. QED
    BY <1>3, <1>9, <2>1, <2>2, Zenon DEF Insert
<1>10. ASSUME InsertOrAssign(h, k, v) PROVE Promise!InsertOrAssign(h, k, v)
  <2>1. CASE Found(tab[h], k) /\ Update(h, [tab[h] EXCEPT !.value[k] = v], FALSE, k)
    <3>1. PICK u : u = [tab[h] EXCEPT !.value[k] = v]
      OBVIOUS
    <3>2. Update(h, u, FALSE, k)
      BY <2>1, <3>1
    <3>3. Contents(u) = Promise!With(Contents(tab[h]), k, v)
      BY <1>2, <2>1, <3>1, AssignedContents
    <3>4. Contents(u) = Promise!With(Seen[h], k, v)
      BY <1>2, <3>3, Zenon
    <3>5. Promise!Becomes(h, Promise!With(Seen[h], k, v), FALSE, k)
      BY <1>5, <3>2, <3>4
    <3>6. QED
      BY <1>1, <1>4, <2>1, <3>5 DEF Promise!InsertOrAssign, Seen
  <2>2. CASE ~Dangles(h, k) /\ ~Found(tab[h], k) /\ MakeAndInsert(h, k, v)
    BY <1>1, <1>8, <2>2 DEF Promise!InsertOrAssign, Seen
  <2>3. QED
    BY <1>3, <1>10, <2>1, <2>2, Zenon DEF InsertOrAssign
<1>11. QED
  BY <1>6, <1>7, <1>9, <1>10

LEMMA TableCallAnswers ==
  ASSUME Setting, TabInv, Proceeds, NEW g \in Handle, NEW h \in Handle, NEW count \in Int
  PROVE  /\ Ctor(h) => Promise!Ctor(h)
         /\ Dtor(h) => Promise!Dtor(h)
         /\ Clear(h) => Promise!Clear(h)
         /\ Rehash(h, count) => Promise!Rearrange(h)
         /\ Swap(g, h) => Promise!Swap(g, h)
<1>1. Contents(NewTable) = Promise!EmptyMap
  BY NewContents
<1>2. ASSUME tab' = [tab EXCEPT ![h] = NewTable]
      PROVE  Seen' = [Seen EXCEPT ![h] = Promise!EmptyMap]
  <2>1. PICK t : t = NewTable
    OBVIOUS
  <2>2. Seen' = [Seen EXCEPT ![h] = Contents(t)]
    BY <1>2, <2>1, SeenBecomes
  <2>3. QED
    BY <1>1, <2>1, <2>2, Zenon
<1>3. ASSUME Ctor(h) PROVE Promise!Ctor(h)
  <2>1. CASE OutOfMemory(h, tab[h])
    <3>1. Promise!OutOfMemory
      BY <2>1, RefusalChangesNothing
    <3>2. QED
      BY <1>3, <3>1, Zenon DEF Ctor, Promise!Ctor
  <2>2. CASE /\ exists' = exists \cup {h} /\ tab' = [tab EXCEPT ![h] = NewTable]
             /\ ret' = Returned("OK", FALSE, Null)
    <3>1. Seen' = [Seen EXCEPT ![h] = Promise!EmptyMap]
      BY <1>2, <2>2
    <3>2. QED
      BY <1>3, <2>2, <3>1, Zenon DEF Ctor, Promise!Ctor, Promise!Returned, Returned, Seen
  <2>3. QED
    BY <1>3, <2>1, <2>2, Zenon DEF Ctor
<1>4. ASSUME Dtor(h) PROVE Promise!Dtor(h)
  <2>1. /\ h \in exists /\ exists' = exists \ {h} /\ tab' = [tab EXCEPT ![h] = NewTable]
        /\ ret' = Returned("OK", FALSE, Null)
    BY <1>4, Zenon DEF Dtor
  <2>2. Seen' = [Seen EXCEPT ![h] = Promise!EmptyMap]
    BY <1>2, <2>1
  <2>3. QED
    BY <2>1, <2>2, Zenon DEF Promise!Dtor, Promise!Returned, Returned, Seen
<1>5. ASSUME Clear(h) PROVE Promise!Clear(h)
  <2>1. PICK t : t = tab[h]
    OBVIOUS
  <2>2. PICK u : u = [Freed(t, Range(Listing(t))) EXCEPT !.next[t.buckets[0]] = Null,
                                                        !.tail = t.buckets[0], !.size = 0]
    OBVIOUS
  <2>3. h \in exists /\ Update(h, u, FALSE, Null)
    BY <1>5, <2>1, <2>2, Zenon DEF Clear
  <2>4. Intact(t) /\ BucketAt(t, 0) = Nil
    BY <2>1, <2>3, Callable
  <2>5. Contents(u) = Promise!EmptyMap
    BY <2>2, <2>4, ClearContents
  <2>6. Promise!Becomes(h, Promise!EmptyMap, FALSE, Null)
    BY <2>3, <2>5, UpdateBecomes
  <2>7. QED
    BY <2>3, <2>6, Zenon DEF Promise!Clear
<1>6. ASSUME Rehash(h, count) PROVE Promise!Rearrange(h)
  <2>1. h \in exists
    BY <1>6 DEF Rehash
  <2>2. PICK t : t = tab[h]
    OBVIOUS
  <2>3. Intact(t) /\ BucketAt(t, 0) = Nil /\ Seen[h] = Contents(t)
    BY <2>1, <2>2, Callable
  <2>4. ASSUME NEW u \in Rehashed(tab[h], count), Update(h, u, FALSE, Null)
        PROVE  Promise!Becomes(h, Seen[h], FALSE, Null)
    <3>1. u \in Rehashed(t, count)
      BY <2>2, <2>4
    <3>2. Intact(u) /\ BucketAt(u, 0) = Nil /\ ValuesOf(u) = ValuesOf(t)
      BY <2>3, <3>1, RehashedIntact
    <3>3. Contents(u) = Seen[h]
      BY <2>3, <3>2, ContentsAre
    <3>4. QED
      BY <2>4, <3>3, UpdateBecomes
  <2>5. OutOfMemory(h, tab[h]) => Promise!OutOfMemory
    BY RefusalChangesNothing
  <2>6. Promise!Becomes(h, Seen[h], FALSE, Null) \/ Promise!OutOfMemory
    BY <1>6, <2>4, <2>5, Zenon DEF Rehash
  <2>7. QED
    BY <2>1, <2>6 DEF Promise!Rearrange, Seen
<1>7. ASSUME Swap(g, h) PROVE Promise!Swap(g, h)
  <2>1. /\ {g, h} \subseteq exists /\ exists' = exists /\ ret' = Returned("OK", FALSE, Null)
        /\ tab' = [tab EXCEPT ![g] = tab[h], ![h] = tab[g]]
    BY <1>7 DEF Swap
  <2>2. \A x \in Handle : tab'[x] = IF x = h THEN tab[g] ELSE IF x = g THEN tab[h] ELSE tab[x]
    BY <2>1 DEF TabInv
  <2>3. \A x \in Handle : Contents(tab'[x]) =
          IF x = h THEN Contents(tab[g]) ELSE IF x = g THEN Contents(tab[h]) ELSE Contents(tab[x])
    BY <2>2
  <2>4. Seen' = [x \in Handle |-> Contents(tab'[x])]
    BY DEF Seen
  <2>5. Seen' = [Seen EXCEPT ![g] = Seen[h], ![h] = Seen[g]]
    BY <2>3, <2>4 DEF Seen
  <2>6. QED
    BY <2>1, <2>5, Zenon DEF Promise!Swap, Promise!Returned, Returned, Seen
<1>8. QED
  BY <1>3, <1>4, <1>5, <1>6, <1>7

-----------------------------------------------------------------------------
(* The inductive invariant of the specification. *)
TablesInv == exists \subseteq Handle /\ TabInv

LEMMA TablesInit ==
  ASSUME Setting, Init
  PROVE  TablesInv
<1>1. exists = {} /\ tab = [h \in Handle |-> NewTable]
  BY DEF Init
<1>2. Intact(NewTable)
  BY NewTableIntact
<1>3. QED
  BY <1>1, <1>2 DEF TablesInv, TabInv

LEMMA ExistsKept ==
  ASSUME exists \subseteq Handle, [Next]_vars
  PROVE  (exists \subseteq Handle)'
<1>1. \A h, t, done, at : Update(h, t, done, at) => exists' = exists
  BY DEF Update
<1>2. \A h, t : OutOfMemory(h, t) => exists' = exists
  BY DEF OutOfMemory
<1>3. \A h, k : FollowsDangling(h, k) => exists' = exists
  BY DEF FollowsDangling
<1>4. ASSUME NEW h \in Handle, Ctor(h) \/ Dtor(h)
      PROVE  exists' \subseteq Handle
  BY <1>2, <1>4 DEF Ctor, Dtor
<1>5. ASSUME NEW h, NEW k, NEW v, KeyCall(h, k, v)
      PROVE  exists' = exists
  BY <1>1, <1>2, <1>3, <1>5, Zenon DEF KeyCall, Erase, Find, Insert, InsertOrAssign, MakeAndInsert
<1>6. ASSUME NEW g, NEW h, NEW count, Clear(h) \/ Rehash(h, count) \/ Reserve(h, count) \/ Swap(g, h)
      PROVE  exists' = exists
  BY <1>1, <1>2, <1>6, Zenon DEF Clear, Rehash, Reserve, Swap
<1>7. CASE UNCHANGED vars
  BY <1>7 DEF vars
<1>8. QED
  BY <1>4, <1>5, <1>6, <1>7, Zenon DEF Next, Halted, KeyCall

LEMMA TablesStep ==
  ASSUME Setting, LoadFits, TablesInv, [Next]_vars
  PROVE  TablesInv'
<1>1. exists \subseteq Handle /\ TabInv
  BY DEF TablesInv
<1>2. (exists \subseteq Handle)'
  BY <1>1, ExistsKept
<1>3. TabInv'
  <2>1. MinBuckets \in Int /\ MinBuckets + 1 \in Int /\ 0 \in Int /\ Cardinality(Key) \in Int
    BY Pointers, FS_CardinalityType DEF Setting, ConstantsOK
  <2>2. CASE UNCHANGED vars
    BY <1>1, <2>2, TabSame DEF vars
  <2>3. ASSUME NEW g \in Handle, NEW h \in Handle, NEW count \in Int, Proceeds, TableCall(g, h, count)
        PROVE  TabInv'
    BY <1>1, <2>3, TableCallKeeps
  <2>4. ASSUME NEW h \in Handle, NEW k \in Key, NEW v, Proceeds, KeyCall(h, k, v)
        PROVE  TabInv'
    BY <1>1, <2>4, KeyCallKeeps
  <2>5. QED
    BY <2>1, <2>2, <2>3, <2>4, Zenon DEF Next, Halted, TableCall, KeyCall
<1>4. QED
  BY <1>2, <1>3 DEF TablesInv

(* Every call, those that lose the nil entry of bucket 0 included. *)
LEMMA StepAnswers ==
  ASSUME Setting, LoadFits, TablesInv, [Next]_vars
  PROVE  [~fault' => Promise!Answers(call')]_vars
<1>1. TabInv
  BY DEF TablesInv
<1>2. SUFFICES ASSUME ~fault', ~(UNCHANGED vars) PROVE Promise!Answers(call')
  OBVIOUS
<1>3. MinBuckets \in Int /\ MinBuckets + 1 \in Int /\ 0 \in Int /\ Cardinality(Key) \in Int
  BY Pointers, FS_CardinalityType DEF Setting, ConstantsOK
<1>4. \A count \in Int : (count * LoadDen) \div LoadNum + 1 \in Int
  <2>1. ASSUME NEW count \in Int PROVE (count * LoadDen) \div LoadNum + 1 \in Int
    <3>1. count * LoadDen \in Int
      BY Constants
    <3>2. QED
      BY <3>1, Constants
  <2>2. QED
    BY <2>1
<1>5. ASSUME NEW h \in Handle, NEW count \in Int, Proceeds, Rehash(h, count)
      PROVE  Promise!Answers(call')
  <2>1. Promise!Rearrange(h)
    BY <1>1, <1>5, TableCallAnswers
  <2>2. call' = <<"rehash", h, count>>
    BY <1>5, Zenon DEF Rehash
  <2>3. call'[1] = "rehash" /\ call'[2] = h
    BY <2>2
  <2>4. QED
    BY <2>1, <2>3 DEF Promise!Answers
<1>6. ASSUME NEW h \in Handle, Proceeds, Ctor(h) \/ Dtor(h) \/ Clear(h)
      PROVE  Promise!Answers(call')
  <2>1. CASE Ctor(h)
    <3>1. Promise!Ctor(h)
      BY <1>1, <1>3, <1>6, <2>1, TableCallAnswers
    <3>2. call' = <<"ctor", h>>
      BY <2>1, Zenon DEF Ctor
    <3>3. call'[1] = "ctor" /\ call'[2] = h
      BY <3>2
    <3>4. QED
      BY <3>1, <3>3 DEF Promise!Answers
  <2>2. CASE Dtor(h)
    <3>1. Promise!Dtor(h)
      BY <1>1, <1>3, <1>6, <2>2, TableCallAnswers
    <3>2. call' = <<"dtor", h>>
      BY <2>2, Zenon DEF Dtor
    <3>3. call'[1] = "dtor" /\ call'[2] = h
      BY <3>2
    <3>4. QED
      BY <3>1, <3>3 DEF Promise!Answers
  <2>3. CASE Clear(h)
    <3>1. Promise!Clear(h)
      BY <1>1, <1>3, <1>6, <2>3, TableCallAnswers
    <3>2. call' = <<"clear", h>>
      BY <2>3, Zenon DEF Clear
    <3>3. call'[1] = "clear" /\ call'[2] = h
      BY <3>2
    <3>4. QED
      BY <3>1, <3>3 DEF Promise!Answers
  <2>4. QED
    BY <1>6, <2>1, <2>2, <2>3
<1>7. ASSUME NEW g \in Handle, NEW h \in Handle, Proceeds, Swap(g, h)
      PROVE  Promise!Answers(call')
  <2>1. Promise!Swap(g, h)
    BY <1>1, <1>3, <1>7, TableCallAnswers
  <2>2. call' = <<"swap", g, h>>
    BY <1>7, Zenon DEF Swap
  <2>3. call'[1] = "swap" /\ call'[2] = g /\ call'[3] = h
    BY <2>2
  <2>4. QED
    BY <2>1, <2>3 DEF Promise!Answers
<1>8. ASSUME NEW h \in Handle, NEW k \in Key, NEW v, Proceeds, KeyCall(h, k, v)
      PROVE  Promise!Answers(call')
  <2>1. /\ Erase(h, k) => Promise!Erase(h, k)
        /\ Find(h, k) => Promise!Find(h, k)
        /\ Insert(h, k, v) => Promise!Insert(h, k, v)
        /\ InsertOrAssign(h, k, v) => Promise!InsertOrAssign(h, k, v)
    BY <1>1, <1>2, <1>8, KeyCallAnswers
  <2>2. CASE Erase(h, k)
    <3>1. call' = <<"erase", h, k>>
      BY <2>2, Zenon DEF Erase
    <3>2. call'[1] = "erase" /\ call'[2] = h /\ call'[3] = k
      BY <3>1
    <3>3. QED
      BY <2>1, <2>2, <3>2 DEF Promise!Answers
  <2>3. CASE Find(h, k)
    <3>1. call' = <<"find", h, k>>
      BY <2>3, Zenon DEF Find
    <3>2. call'[1] = "find" /\ call'[2] = h /\ call'[3] = k
      BY <3>1
    <3>3. QED
      BY <2>1, <2>3, <3>2 DEF Promise!Answers
  <2>4. CASE Insert(h, k, v)
    <3>1. call' = <<"insert", h, k, v>>
      BY <2>4, Zenon DEF Insert
    <3>2. call'[1] = "insert" /\ call'[2] = h /\ call'[3] = k /\ call'[4] = v
      BY <3>1
    <3>3. QED
      BY <2>1, <2>4, <3>2 DEF Promise!Answers
  <2>5. CASE InsertOrAssign(h, k, v)
    <3>1. call' = <<"insert_or_assign", h, k, v>>
      BY <2>5, Zenon DEF InsertOrAssign
    <3>2. call'[1] = "insert_or_assign" /\ call'[2] = h /\ call'[3] = k /\ call'[4] = v
      BY <3>1
    <3>3. QED
      BY <2>1, <2>5, <3>2 DEF Promise!Answers
  <2>6. QED
    BY <1>8, <2>2, <2>3, <2>4, <2>5 DEF KeyCall
<1>9. \A h \in Handle : \A count \in Int :
        Proceeds /\ (Rehash(h, count) \/ Reserve(h, count)) => Promise!Answers(call')
  BY <1>4, <1>5, Zenon DEF Reserve
<1>10. QED
  BY <1>2, <1>3, <1>6, <1>7, <1>8, <1>9, Zenon DEF Next, Halted, KeyCall

LEMMA TablesKept ==
  ASSUME Setting, LoadFits
  PROVE  Spec => []TablesInv
<1>1. Init => TablesInv
  BY TablesInit
<1>2. TablesInv /\ [Next]_vars => TablesInv'
  BY TablesStep
<1>3. QED
  BY <1>1, <1>2, PTL DEF Spec

(* Whatever is inserted, erased, cleared, rehashed and swapped, on any     *)
(* number of tables with any hash function: the one list holds each entry  *)
(* once, size counts them and tail is the last (add_entry, erase_entry and *)
(* transfer lose nothing and close no cycle).                              *)
THEOREM ListHoldsEntries ==
  ASSUME Setting, LoadFits
  PROVE  Spec => []ListInv
<1>1. TablesInv => ListInv
  BY TabPromises DEF TablesInv
<1>2. QED
  BY <1>1, TablesKept, PTL

(* A lookup by bucket finds an entry exactly when the list holds it: every *)
(* bucket head was repaired (find_entry after add_entry, erase_entry and   *)
(* transfer).                                                              *)
THEOREM LookupsFind ==
  ASSUME Setting, LoadFits
  PROVE  Spec => []LookupInv
<1>1. TablesInv => LookupInv
  BY TabPromises DEF TablesInv
<1>2. QED
  BY <1>1, TablesKept, PTL

(* An entry is added only below the load factor: the growth that           *)
(* make_and_insert_unique makes is always enough.                          *)
THEOREM LoadStaysBelow ==
  ASSUME Setting, LoadFits
  PROVE  Spec => []LoadInv
<1>1. TablesInv => LoadInv
  BY TabPromises DEF TablesInv
<1>2. QED
  BY <1>1, TablesKept, PTL

(* Whatever the tables went through and however the hash function spreads  *)
(* the keys: every call that follows no dangling bucket changes the map    *)
(* behind its handle as the map table says and returns what it says, one   *)
(* that runs out of memory after make_and_insert_unique grew the table and *)
(* one that takes bucket 0 from the nil entry included.                    *)
THEOREM TablesAreMaps ==
  ASSUME Setting, LoadFits
  PROVE  Spec => CallsKeepPromise
<1>1. TablesInv /\ [Next]_vars => [~fault' => Promise!Answers(call')]_vars
  BY StepAnswers
<1>2. QED
  BY <1>1, TablesKept, PTL DEF Spec, CallsKeepPromise
=============================================================================
