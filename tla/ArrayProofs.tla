---------------------------- MODULE ArrayProofs -----------------------------
(***************************************************************************)
(* Proofs about Array, for every set of arrays, items and blocks and every *)
(* capacity: no call writes outside of its buffer, every call does to the  *)
(* sequence behind its handle what the sequence table promises, and with a *)
(* dfree each item has exactly one owner.                                  *)
(***************************************************************************)
EXTENDS Array, Foundations

-----------------------------------------------------------------------------
(* Memory. *)

(* c is the buffer to after k slots of from, from src on, were copied to   *)
(* dst; respectively the buffer to after v was stored in its slot i.       *)
IsCopy(c, n, to, dst, from, src, k) ==
  /\ c \in [0 .. n - 1 -> Slot]
  /\ \A j \in 0 .. n - 1 :
       c[j] = IF j \in dst .. (dst + k - 1) THEN Read(from, j - dst + src) ELSE to[j]

IsStore(c, n, to, i, v) ==
  /\ c \in [0 .. n - 1 -> Slot]
  /\ \A j \in 0 .. n - 1 : c[j] = IF j = i THEN v ELSE to[j]

LEMMA MemcpyCopies ==
  ASSUME NEW n \in Nat, NEW to \in [0 .. n - 1 -> Slot], NEW from,
         \A i : Read(from, i) \in Slot,
         NEW dst \in Nat, NEW src \in Nat, NEW k \in Int, dst + k <= n
  PROVE  IsCopy(Memcpy(to, dst, from, src, k), n, to, dst, from, src, k)
  <1>1. (0 .. n - 1) \cup dst .. (dst + k - 1) = 0 .. n - 1
    OBVIOUS
  <1> QED
    BY <1>1 DEF Memcpy, IsCopy

LEMMA StoreStores ==
  ASSUME NEW n \in Nat, NEW buf \in [0 .. n - 1 -> Slot], NEW i \in 0 .. n - 1, NEW v \in Slot
  PROVE  IsStore(Store(buf, i, v), n, buf, i, v)
  <1>1. (0 .. n - 1) \cup {i} = 0 .. n - 1
    OBVIOUS
  <1> QED
    BY <1>1 DEF Store, IsStore

LEMMA ReadType ==
  ASSUME NEW n \in Nat, NEW buf \in [0 .. n - 1 -> Slot]
  PROVE  /\ \A i : Read(buf, i) \in Slot
         /\ \A i \in 0 .. n - 1 : Read(buf, i) = buf[i]
  BY DEF Read, Slot

LEMMA MallocType == ASSUME NEW n \in Nat PROVE Malloc(n) \in [0 .. n - 1 -> Slot]
  BY DEF Malloc, Slot

-----------------------------------------------------------------------------
(* A well-formed struct: its fields in range, and no slot below size is    *)
(* one that nobody wrote.                                                  *)
Good(r) ==
  /\ \E n \in MinCapacity .. MaxCapacity : r \in Struct(n)
  /\ \A i \in 0 .. r.size - 1 : r.buffer[i] \in Item

(* The fields of a struct, by name. *)
Parts(r, n, s, b) ==
  /\ n \in Nat /\ n >= MinCapacity /\ n <= MaxCapacity /\ n > 0
  /\ s \in Nat /\ s <= n
  /\ b \in [0 .. n - 1 -> Slot]
  /\ \A i \in 0 .. s - 1 : b[i] \in Item
  /\ r = [buffer |-> b, size |-> s, capacity |-> n]

LEMMA GoodParts ==
  ASSUME NEW r, Good(r)
  PROVE  /\ \E n, s, b : Parts(r, n, s, b)
         /\ r.size \in Nat /\ r.capacity \in Nat /\ r.size <= r.capacity
  <1>1. PICK n \in MinCapacity .. MaxCapacity : r \in Struct(n)
    BY DEF Good
  <1>2. r = [buffer |-> r.buffer, size |-> r.size, capacity |-> n]
    BY <1>1 DEF Struct
  <1>3. Parts(r, n, r.size, r.buffer)
    BY <1>1, <1>2, CapacityAssumption DEF Good, Parts, Struct
  <1>4. r.size \in Nat /\ r.capacity \in Nat /\ r.size <= r.capacity
    BY <1>3 DEF Parts
  <1> QED
    BY <1>3, <1>4

LEMMA PartsGood ==
  ASSUME NEW r, NEW n, NEW s, NEW b, Parts(r, n, s, b)
  PROVE  Good(r)
  <1>1. n \in MinCapacity .. MaxCapacity /\ s \in 0 .. n
    BY CapacityAssumption DEF Parts
  <1>2. r \in Struct(n)
    BY <1>1 DEF Parts, Struct
  <1> QED
    BY <1>1, <1>2 DEF Good, Parts

(* A struct with some of its fields replaced.                              *)
LEMMA RecordExcept ==
  ASSUME NEW b, NEW s, NEW n, NEW r, r = [buffer |-> b, size |-> s, capacity |-> n],
         NEW b2, NEW s2, NEW n2
  PROVE  /\ [r EXCEPT !.buffer = b2] = [buffer |-> b2, size |-> s, capacity |-> n]
         /\ [r EXCEPT !.size = s2] = [buffer |-> b, size |-> s2, capacity |-> n]
         /\ [r EXCEPT !.buffer = b2, !.size = s2] = [buffer |-> b2, size |-> s2, capacity |-> n]
         /\ [r EXCEPT !.buffer = b2, !.capacity = n2] = [buffer |-> b2, size |-> s, capacity |-> n2]
  <1>1. [r EXCEPT !.buffer = b2] = [buffer |-> b2, size |-> s, capacity |-> n]
    OBVIOUS
  <1>2. [r EXCEPT !.size = s2] = [buffer |-> b, size |-> s2, capacity |-> n]
    OBVIOUS
  <1>3. [[buffer |-> b2, size |-> s, capacity |-> n] EXCEPT !.size = s2]
          = [buffer |-> b2, size |-> s2, capacity |-> n]
    OBVIOUS
  <1>4. [[buffer |-> b2, size |-> s, capacity |-> n] EXCEPT !.capacity = n2]
          = [buffer |-> b2, size |-> s, capacity |-> n2]
    OBVIOUS
  <1> QED
    BY <1>1, <1>2, <1>3, <1>4, Zenon

LEMMA ContentsItems ==
  ASSUME NEW r, NEW n, NEW s, NEW b, Parts(r, n, s, b)
  PROVE  /\ Contents(r) = [i \in 1 .. s |-> b[i - 1]]
         /\ Contents(r) \in Seq(Item)
         /\ Len(Contents(r)) = s
  <1>1. /\ s \in Nat /\ n \in Nat /\ s <= n /\ b \in [0 .. n - 1 -> Slot]
        /\ r.buffer = b /\ r.size = s /\ \A i \in 0 .. s - 1 : b[i] \in Item
    BY DEF Parts
  <1>2. \A i \in 1 .. s : i - 1 \in 0 .. s - 1 /\ i - 1 \in 0 .. n - 1 /\ Read(b, i - 1) = b[i - 1]
    BY <1>1, ReadType
  <1>3. Contents(r) = [i \in 1 .. s |-> b[i - 1]]
    BY <1>1, <1>2 DEF Contents
  <1>4. [i \in 1 .. s |-> b[i - 1]] \in [1 .. s -> Item]
    BY <1>1, <1>2
  <1> QED
    BY <1>1, <1>3, <1>4

(* A struct whose first m slots are the items of a sequence stands for it. *)
LEMMA ContentsAre ==
  ASSUME NEW r, NEW n, NEW s, NEW b, Parts(r, n, s, b),
         NEW f, f = [j \in 1 .. s |-> f[j]], \A j \in 1 .. s : f[j] = b[j - 1]
  PROVE  Contents(r) = f
  <1>1. Contents(r) = [i \in 1 .. s |-> b[i - 1]]
    BY ContentsItems
  <1> QED
    BY <1>1

LEMMA NewArrayGood == Good(NewArray) /\ Contents(NewArray) = <<>>
  <1>1. Malloc(MinCapacity) \in [0 .. MinCapacity - 1 -> Slot]
    BY MallocType, CapacityAssumption
  <1>2. Parts(NewArray, MinCapacity, 0, Malloc(MinCapacity))
    BY <1>1, CapacityAssumption DEF Parts, NewArray
  <1>3. Good(NewArray)
    BY <1>2, PartsGood
  <1>4. Len(Contents(NewArray)) = 0 /\ Contents(NewArray) \in Seq(Item)
    BY <1>2, ContentsItems
  <1> QED
    BY <1>3, <1>4, EmptySeq

LEMMA ReallocatedGood ==
  ASSUME NEW r, Good(r), NEW m \in Nat, m >= r.size, m >= MinCapacity, m <= MaxCapacity
  PROVE  /\ Good(Reallocated(r, m))
         /\ Contents(Reallocated(r, m)) = Contents(r)
         /\ Reallocated(r, m).size = r.size
         /\ Reallocated(r, m).capacity = m
  <1>1. PICK n, s, b : Parts(r, n, s, b)
    BY GoodParts
  <1> DEFINE c == Memcpy(Malloc(m), 0, b, 0, s)
             q == Reallocated(r, m)
  <1>2. /\ s \in Nat /\ n \in Nat /\ s <= n /\ s <= m /\ b \in [0 .. n - 1 -> Slot]
        /\ \A i \in 0 .. s - 1 : b[i] \in Item
    BY <1>1 DEF Parts
  <1>3. q = [buffer |-> c, size |-> s, capacity |-> m]
    <2>1. r = [buffer |-> b, size |-> s, capacity |-> n] /\ r.buffer = b /\ r.size = s
      BY <1>1 DEF Parts
    <2>2. q = [r EXCEPT !.buffer = c, !.capacity = m]
      BY <2>1 DEF Reallocated
    <2> HIDE DEF c, q
    <2> QED
      BY <2>1, <2>2, RecordExcept, Zenon
  <1>4. /\ c \in [0 .. m - 1 -> Slot]
        /\ \A j \in 0 .. m - 1 :
             c[j] = IF j \in 0 .. (0 + s - 1) THEN Read(b, j - 0 + 0) ELSE Malloc(m)[j]
    <2>1. Malloc(m) \in [0 .. m - 1 -> Slot] /\ \A i : Read(b, i) \in Slot
      BY <1>2, MallocType, ReadType
    <2>2. 0 + s <= m /\ 0 \in Nat /\ s \in Int
      BY <1>2
    <2>3. IsCopy(c, m, Malloc(m), 0, b, 0, s)
      BY <2>1, <2>2, MemcpyCopies, Zenon
    <2> QED
      BY <2>3 DEF IsCopy
  <1> HIDE DEF c, q
  <1>5. \A j \in 0 .. s - 1 : c[j] = b[j]
    <2>1. \A j \in 0 .. s - 1 : /\ j \in 0 .. m - 1 /\ j \in 0 .. n - 1
                                /\ j \in 0 .. (0 + s - 1) /\ j - 0 + 0 = j
      BY <1>2
    <2>2. \A j \in 0 .. s - 1 : Read(b, j) = b[j]
      BY <1>2, <2>1, ReadType
    <2> QED
      BY <1>4, <2>1, <2>2
  <1>6. Parts(q, m, s, c)
    BY <1>2, <1>3, <1>4, <1>5, CapacityAssumption DEF Parts
  <1>7. Good(q)
    BY <1>6, PartsGood
  <1>8. Contents(r) = [i \in 1 .. s |-> b[i - 1]] /\ Contents(q) = [i \in 1 .. s |-> c[i - 1]]
    BY <1>1, <1>6, ContentsItems
  <1>9. \A i \in 1 .. s : c[i - 1] = b[i - 1]
    BY <1>2, <1>5
  <1>10. Contents(q) = Contents(r)
    BY <1>8, <1>9
  <1> QED
    BY <1>1, <1>3, <1>7, <1>10 DEF q, Parts

(* Whatever capacity is asked for, the items stay. *)
LEMMA WithCapacityGood ==
  ASSUME NEW r, Good(r), NEW c \in Nat, NEW q \in WithCapacity(r, c)
  PROVE  /\ Good(q)
         /\ Contents(q) = Contents(r)
         /\ q.size = r.size
         /\ c >= r.size => q.capacity >= c
  <1> DEFINE n == IF c < MinCapacity THEN MinCapacity ELSE c
  <1>1. n \in Nat /\ n >= MinCapacity /\ n >= c /\ r.size \in Nat
    BY CapacityAssumption, GoodParts
  <1>2. WithCapacity(r, c) = IF n < r.size THEN {r} ELSE {Reallocated(r, m) : m \in {n} \cap 0 .. MaxCapacity}
    BY DEF WithCapacity
  <1> HIDE DEF n
  <1>3. CASE n < r.size
    BY <1>1, <1>2, <1>3
  <1>4. CASE ~(n < r.size)
    <2>1. q = Reallocated(r, n) /\ n <= MaxCapacity
      BY <1>2, <1>4
    <2>2. n >= r.size
      BY <1>1, <1>4
    <2>3. /\ Good(q) /\ Contents(q) = Contents(r) /\ q.size = r.size /\ q.capacity = n
      BY <1>1, <2>1, <2>2, ReallocatedGood
    <2> QED
      BY <1>1, <2>3
  <1> QED
    BY <1>3, <1>4

LEMMA WithRoomGood ==
  ASSUME NEW r, Good(r), NEW q \in WithRoom(r)
  PROVE  Good(q) /\ Contents(q) = Contents(r) /\ q.size = r.size /\ q.size < q.capacity
  <1>1. PICK n, s, b : Parts(r, n, s, b)
    BY GoodParts
  <1>2. n \in Nat /\ n > 0 /\ s \in Nat /\ s <= n /\ r.size = s /\ r.capacity = n
    BY <1>1 DEF Parts
  <1>3. CASE ~ShouldGrow(r)
    BY <1>2, <1>3 DEF WithRoom, ShouldGrow
  <1>4. CASE ShouldGrow(r)
    <2>1. q \in WithCapacity(r, 2 * n) /\ 2 * n \in Nat /\ s = n /\ 2 * n >= r.size
      BY <1>2, <1>4 DEF WithRoom, ShouldGrow
    <2>2. Good(q) /\ Contents(q) = Contents(r) /\ q.size = r.size /\ q.capacity >= 2 * n
      BY <2>1, WithCapacityGood
    <2>3. PICK n2, s2, b2 : Parts(q, n2, s2, b2)
      BY <2>2, GoodParts
    <2> QED
      BY <1>2, <2>1, <2>2, <2>3 DEF Parts
  <1> QED
    BY <1>3, <1>4

LEMMA WithRoomForGood ==
  ASSUME NEW r, Good(r), NEW len \in Nat, NEW q \in WithRoomFor(r, len)
  PROVE  Good(q) /\ Contents(q) = Contents(r) /\ q.size = r.size /\ q.size + len <= q.capacity
  <1>1. PICK n, s, b : Parts(r, n, s, b)
    BY GoodParts
  <1>2. n \in Nat /\ n > 0 /\ s \in Nat /\ s <= n /\ r.size = s /\ r.capacity = n
    BY <1>1 DEF Parts
  <1>3. CASE ~(s + len > n)
    BY <1>2, <1>3 DEF WithRoomFor
  <1>4. CASE s + len > n
    <2>1. q \in WithCapacity(r, 2 * (s + len)) /\ 2 * (s + len) \in Nat /\ 2 * (s + len) >= r.size
      BY <1>2, <1>4 DEF WithRoomFor
    <2>2. Good(q) /\ Contents(q) = Contents(r) /\ q.size = r.size /\ q.capacity >= 2 * (s + len)
      BY <2>1, WithCapacityGood
    <2>3. PICK n2, s2, b2 : Parts(q, n2, s2, b2)
      BY <2>2, GoodParts
    <2> QED
      BY <1>2, <2>1, <2>2, <2>3 DEF Parts
  <1> QED
    BY <1>2, <1>3, <1>4

-----------------------------------------------------------------------------
(* What each helper does to a good struct and to its items. *)

LEMMA InsertedGood ==
  ASSUME NEW r, Good(r), r.size < r.capacity, NEW i \in 0 .. r.size, NEW v \in Item
  PROVE  /\ Good(Inserted(r, i, v))
         /\ Contents(Inserted(r, i, v)) = InsertAt(Contents(r), i + 1, v)
  <1>1. PICK n, s, b : Parts(r, n, s, b)
    BY GoodParts
  <1> DEFINE a == Memmove(b, i + 1, i, s - i)
             c == Store(a, i, v)
             q == Inserted(r, i, v)
             C == Contents(r)
  <1>2. /\ s \in Nat /\ n \in Nat /\ s < n /\ i \in Nat /\ i <= s
        /\ b \in [0 .. n - 1 -> Slot] /\ \A j \in 0 .. s - 1 : b[j] \in Item
        /\ r = [buffer |-> b, size |-> s, capacity |-> n] /\ r.buffer = b /\ r.size = s
        /\ v \in Slot
    BY <1>1 DEF Parts, Slot
  <1>3. q = [buffer |-> c, size |-> s + 1, capacity |-> n]
    <2>1. q = [r EXCEPT !.buffer = c, !.size = s + 1]
      BY <1>2 DEF Inserted
    <2> HIDE DEF c, q
    <2> QED
      BY <1>2, <2>1, RecordExcept, Zenon
  <1>4. /\ a \in [0 .. n - 1 -> Slot]
        /\ \A j \in 0 .. n - 1 :
             a[j] = IF j \in (i + 1) .. ((i + 1) + (s - i) - 1) THEN Read(b, j - (i + 1) + i) ELSE b[j]
    <2>1. \A j : Read(b, j) \in Slot
      BY <1>2, ReadType
    <2>2. i + 1 \in Nat /\ i \in Nat /\ s - i \in Int /\ (i + 1) + (s - i) <= n
      BY <1>2
    <2>3. IsCopy(a, n, b, i + 1, b, i, s - i)
      BY <1>2, <2>1, <2>2, MemcpyCopies, Zenon DEF Memmove
    <2> QED
      BY <2>3 DEF IsCopy
  <1>5. /\ c \in [0 .. n - 1 -> Slot]
        /\ \A j \in 0 .. n - 1 : c[j] = IF j = i THEN v ELSE a[j]
    <2>1. i \in 0 .. n - 1
      BY <1>2
    <2>2. IsStore(c, n, a, i, v)
      <3> HIDE DEF a
      <3> QED
        BY <1>2, <1>4, <2>1, StoreStores, Zenon
    <2> QED
      BY <2>2 DEF IsStore
  <1> HIDE DEF a, c, q, C
  <1>6. /\ \A j \in 0 .. i - 1 : c[j] = b[j]
        /\ c[i] = v
        /\ \A j \in i + 1 .. s : c[j] = b[j - 1]
    <2>1. ASSUME NEW j \in 0 .. i - 1 PROVE c[j] = b[j]
      <3>1. j \in 0 .. n - 1 /\ j # i /\ j \notin (i + 1) .. ((i + 1) + (s - i) - 1)
        BY <1>2
      <3> QED
        BY <1>4, <1>5, <3>1
    <2>2. c[i] = v
      BY <1>2, <1>5
    <2>3. ASSUME NEW j \in i + 1 .. s PROVE c[j] = b[j - 1]
      <3>1. /\ j \in 0 .. n - 1 /\ j # i /\ j \in (i + 1) .. ((i + 1) + (s - i) - 1)
            /\ j - (i + 1) + i = j - 1 /\ j - 1 \in 0 .. n - 1
        BY <1>2
      <3>2. Read(b, j - 1) = b[j - 1]
        BY <1>2, <3>1, ReadType
      <3> QED
        BY <1>4, <1>5, <3>1, <3>2
    <2> QED
      BY <2>1, <2>2, <2>3
  <1>7. \A j \in 0 .. (s + 1) - 1 : c[j] \in Item
    <2>1. ASSUME NEW j \in 0 .. s PROVE c[j] \in Item
      <3>1. CASE j < i
        BY <1>2, <1>6, <3>1
      <3>2. CASE j = i
        BY <1>6, <3>2
      <3>3. CASE j > i
        BY <1>2, <1>6, <3>3
      <3> QED
        BY <1>2, <3>1, <3>2, <3>3
    <2> QED
      BY <1>2, <2>1
  <1>8. Parts(q, n, s + 1, c)
    BY <1>1, <1>2, <1>3, <1>5, <1>7 DEF Parts
  <1>9. C = [j \in 1 .. s |-> b[j - 1]] /\ C \in Seq(Item) /\ Len(C) = s
    BY <1>1, ContentsItems DEF C
  <1>10. InsertAt(C, i + 1, v) =
           [j \in 1 .. s + 1 |-> IF j <= i THEN C[j] ELSE IF j = i + 1 THEN v ELSE C[j - 1]]
    <2>1. PICK u \in Seq(Item) : u = C
      BY <1>9
    <2>2. i \in 0 .. Len(u)
      BY <1>2, <1>9, <2>1
    <2>3. InsertAt(u, i + 1, v) =
           [j \in 1 .. Len(u) + 1 |-> IF j <= i THEN u[j] ELSE IF j = i + 1 THEN v ELSE u[j - 1]]
      BY <2>2, InsertAtItems
    <2> QED
      BY <1>9, <2>1, <2>3
  <1>11. ASSUME NEW j \in 1 .. s + 1
         PROVE  (IF j <= i THEN C[j] ELSE IF j = i + 1 THEN v ELSE C[j - 1]) = c[j - 1]
    <2>1. CASE j <= i
      <3>1. j \in 1 .. s /\ j - 1 \in 0 .. i - 1
        BY <1>2, <2>1
      <3> QED
        BY <1>6, <1>9, <2>1, <3>1
    <2>2. CASE j = i + 1
      <3>1. j - 1 = i /\ ~(j <= i)
        BY <1>2, <2>2
      <3> QED
        BY <1>6, <2>2, <3>1
    <2>3. CASE j > i + 1
      <3>1. j - 1 \in 1 .. s /\ j - 1 \in i + 1 .. s /\ ~(j <= i) /\ j # i + 1
        BY <1>2, <2>3
      <3> QED
        BY <1>6, <1>9, <3>1
    <2>4. j <= i \/ j = i + 1 \/ j > i + 1
      BY <1>2
    <2> QED
      BY <2>1, <2>2, <2>3, <2>4, Zenon
  <1>12. Contents(q) = [j \in 1 .. s + 1 |-> c[j - 1]]
    BY <1>8, ContentsItems
  <1>13. Contents(q) = InsertAt(C, i + 1, v)
    BY <1>10, <1>11, <1>12
  <1> QED
    BY <1>8, <1>13, PartsGood DEF q, C

LEMMA ErasedGood ==
  ASSUME NEW r, Good(r), NEW i \in 0 .. r.size - 1
  PROVE  /\ Good(Erased(r, i))
         /\ Contents(Erased(r, i)) = RemoveAt(Contents(r), i + 1)
  <1>1. PICK n, s, b : Parts(r, n, s, b)
    BY GoodParts
  <1> DEFINE c == Memmove(b, i, i + 1, s - i - 1)
             q == Erased(r, i)
             C == Contents(r)
  <1>2. /\ s \in Nat /\ n \in Nat /\ s <= n /\ i \in Nat /\ i < s
        /\ b \in [0 .. n - 1 -> Slot] /\ \A j \in 0 .. s - 1 : b[j] \in Item
        /\ r = [buffer |-> b, size |-> s, capacity |-> n] /\ r.buffer = b /\ r.size = s
    BY <1>1 DEF Parts
  <1>3. q = [buffer |-> c, size |-> s - 1, capacity |-> n]
    <2>1. q = [r EXCEPT !.buffer = c, !.size = s - 1]
      BY <1>2 DEF Erased
    <2> HIDE DEF c, q
    <2> QED
      BY <1>2, <2>1, RecordExcept, Zenon
  <1>4. /\ c \in [0 .. n - 1 -> Slot]
        /\ \A j \in 0 .. n - 1 :
             c[j] = IF j \in i .. (i + (s - i - 1) - 1) THEN Read(b, j - i + (i + 1)) ELSE b[j]
    <2>1. \A j : Read(b, j) \in Slot
      BY <1>2, ReadType
    <2>2. i + 1 \in Nat /\ i \in Nat /\ s - i - 1 \in Int /\ i + (s - i - 1) <= n
      BY <1>2
    <2>3. IsCopy(c, n, b, i, b, i + 1, s - i - 1)
      BY <1>2, <2>1, <2>2, MemcpyCopies, Zenon DEF Memmove
    <2> QED
      BY <2>3 DEF IsCopy
  <1> HIDE DEF c, q, C
  <1>5. /\ \A j \in 0 .. i - 1 : c[j] = b[j]
        /\ \A j \in i .. s - 2 : c[j] = b[j + 1]
    <2>1. ASSUME NEW j \in 0 .. i - 1 PROVE c[j] = b[j]
      <3>1. j \in 0 .. n - 1 /\ j \notin i .. (i + (s - i - 1) - 1)
        BY <1>2
      <3> QED
        BY <1>4, <3>1
    <2>2. ASSUME NEW j \in i .. s - 2 PROVE c[j] = b[j + 1]
      <3>1. /\ j \in 0 .. n - 1 /\ j \in i .. (i + (s - i - 1) - 1)
            /\ j - i + (i + 1) = j + 1 /\ j + 1 \in 0 .. n - 1
        BY <1>2
      <3>2. Read(b, j + 1) = b[j + 1]
        BY <1>2, <3>1, ReadType
      <3> QED
        BY <1>4, <3>1, <3>2
    <2> QED
      BY <2>1, <2>2
  <1>6. \A j \in 0 .. (s - 1) - 1 : c[j] \in Item
    <2>1. ASSUME NEW j \in 0 .. (s - 1) - 1 PROVE c[j] \in Item
      <3>1. CASE j < i
        BY <1>2, <1>5, <3>1
      <3>2. CASE ~(j < i)
        BY <1>2, <1>5, <3>2
      <3> QED
        BY <3>1, <3>2
    <2> QED
      BY <2>1
  <1>7. Parts(q, n, s - 1, c)
    BY <1>1, <1>2, <1>3, <1>4, <1>6 DEF Parts
  <1>8. C = [j \in 1 .. s |-> b[j - 1]] /\ C \in Seq(Item) /\ Len(C) = s
    BY <1>1, ContentsItems DEF C
  <1>9. RemoveAt(C, i + 1) = [j \in 1 .. s - 1 |-> IF j <= i THEN C[j] ELSE C[j + 1]]
    <2>1. PICK u \in Seq(Item) : u = C
      BY <1>8
    <2>2. i \in 0 .. Len(u) - 1
      BY <1>2, <1>8, <2>1
    <2>3. RemoveAt(u, i + 1) = [j \in 1 .. Len(u) - 1 |-> IF j <= i THEN u[j] ELSE u[j + 1]]
      BY <2>2, RemoveAtItems
    <2> QED
      BY <1>8, <2>1, <2>3
  <1>10. ASSUME NEW j \in 1 .. s - 1
         PROVE  (IF j <= i THEN C[j] ELSE C[j + 1]) = c[j - 1]
    <2>1. CASE j <= i
      <3>1. j \in 1 .. s /\ j - 1 \in 0 .. i - 1
        BY <1>2, <2>1
      <3> QED
        BY <1>5, <1>8, <2>1, <3>1
    <2>2. CASE ~(j <= i)
      <3>1. j + 1 \in 1 .. s /\ j - 1 \in i .. s - 2 /\ (j + 1) - 1 = (j - 1) + 1
        BY <1>2, <2>2
      <3> QED
        BY <1>5, <1>8, <2>2, <3>1
    <2> QED
      BY <2>1, <2>2
  <1>11. Contents(q) = [j \in 1 .. s - 1 |-> c[j - 1]]
    BY <1>7, ContentsItems
  <1>12. Contents(q) = RemoveAt(C, i + 1)
    BY <1>9, <1>10, <1>11
  <1> QED
    BY <1>7, <1>12, PartsGood DEF q, C

LEMMA SetGood ==
  ASSUME NEW r, Good(r), NEW i \in 0 .. r.size - 1, NEW v \in Item
  PROVE  /\ Good([r EXCEPT !.buffer = Store(@, i, v)])
         /\ Contents([r EXCEPT !.buffer = Store(@, i, v)]) = ReplaceAt(Contents(r), i + 1, v)
  <1>1. PICK n, s, b : Parts(r, n, s, b)
    BY GoodParts
  <1> DEFINE c == Store(b, i, v)
             q == [r EXCEPT !.buffer = Store(@, i, v)]
             C == Contents(r)
  <1>2. /\ s \in Nat /\ n \in Nat /\ s <= n /\ i \in Nat /\ i < s
        /\ b \in [0 .. n - 1 -> Slot] /\ \A j \in 0 .. s - 1 : b[j] \in Item
        /\ r = [buffer |-> b, size |-> s, capacity |-> n] /\ r.buffer = b /\ r.size = s
        /\ v \in Slot /\ i \in 0 .. n - 1
    BY <1>1 DEF Parts, Slot
  <1>3. q = [buffer |-> c, size |-> s, capacity |-> n]
    <2>1. q = [r EXCEPT !.buffer = c]
      BY <1>2
    <2> HIDE DEF c, q
    <2> QED
      BY <1>2, <2>1, RecordExcept, Zenon
  <1>4. /\ c \in [0 .. n - 1 -> Slot]
        /\ \A j \in 0 .. n - 1 : c[j] = IF j = i THEN v ELSE b[j]
    <2>1. IsStore(c, n, b, i, v)
      BY <1>2, StoreStores, Zenon
    <2> QED
      BY <2>1 DEF IsStore
  <1> HIDE DEF c, q, C
  <1>5. \A j \in 0 .. s - 1 : c[j] = (IF j = i THEN v ELSE b[j]) /\ c[j] \in Item
    BY <1>2, <1>4
  <1>6. Parts(q, n, s, c)
    BY <1>1, <1>3, <1>4, <1>5 DEF Parts
  <1>7. C = [j \in 1 .. s |-> b[j - 1]] /\ Contents(q) = [j \in 1 .. s |-> c[j - 1]]
    BY <1>1, <1>6, ContentsItems DEF C
  <1>8. ReplaceAt(C, i + 1, v) = [j \in 1 .. s |-> IF j = i + 1 THEN v ELSE b[j - 1]]
    BY <1>2, <1>7 DEF ReplaceAt
  <1>9. \A j \in 1 .. s : c[j - 1] = IF j = i + 1 THEN v ELSE b[j - 1]
    BY <1>2, <1>5
  <1>10. Contents(q) = ReplaceAt(C, i + 1, v)
    BY <1>7, <1>8, <1>9
  <1> QED
    BY <1>6, <1>10, PartsGood DEF q, C

LEMMA ClearedGood ==
  ASSUME NEW r, Good(r)
  PROVE  /\ Good([r EXCEPT !.size = 0])
         /\ Contents([r EXCEPT !.size = 0]) = <<>>
  <1>1. PICK n, s, b : Parts(r, n, s, b)
    BY GoodParts
  <1>2. [r EXCEPT !.size = 0] = [buffer |-> b, size |-> 0, capacity |-> n]
    <2>1. r = [buffer |-> b, size |-> s, capacity |-> n]
      BY <1>1 DEF Parts
    <2> QED
      BY <2>1
  <1>3. Parts([r EXCEPT !.size = 0], n, 0, b)
    BY <1>1, <1>2 DEF Parts
  <1> QED
    BY <1>3, PartsGood, ContentsItems, EmptySeq

(* append copies the first len items of data behind those of the array.    *)
LEMMA AppendedGood ==
  ASSUME NEW r, Good(r), NEW len \in Nat, r.size + len <= r.capacity,
         NEW data, NEW t \in Seq(Item), Len(t) = len,
         \A j : Read(data, j) \in Slot,
         \A j \in 1 .. len : Read(data, j - 1) = t[j]
  PROVE  /\ Good(Appended(r, data, len))
         /\ Contents(Appended(r, data, len)) = Contents(r) \o t
  <1>1. PICK n, s, b : Parts(r, n, s, b)
    BY GoodParts
  <1> DEFINE c == Memcpy(b, s, data, 0, len)
             q == Appended(r, data, len)
             C == Contents(r)
  <1>2. /\ s \in Nat /\ n \in Nat /\ s + len <= n
        /\ b \in [0 .. n - 1 -> Slot] /\ \A j \in 0 .. s - 1 : b[j] \in Item
        /\ r = [buffer |-> b, size |-> s, capacity |-> n] /\ r.buffer = b /\ r.size = s
    BY <1>1 DEF Parts
  <1>3. q = [buffer |-> c, size |-> s + len, capacity |-> n]
    <2>1. q = [r EXCEPT !.buffer = c, !.size = s + len]
      BY <1>2 DEF Appended
    <2> HIDE DEF c, q
    <2> QED
      BY <1>2, <2>1, RecordExcept, Zenon
  <1>4. /\ c \in [0 .. n - 1 -> Slot]
        /\ \A j \in 0 .. n - 1 :
             c[j] = IF j \in s .. (s + len - 1) THEN Read(data, j - s + 0) ELSE b[j]
    <2>1. 0 \in Nat /\ len \in Int
      OBVIOUS
    <2>2. IsCopy(c, n, b, s, data, 0, len)
      BY <1>2, <2>1, MemcpyCopies, Zenon
    <2> QED
      BY <2>2 DEF IsCopy
  <1> HIDE DEF c, q, C
  <1>5. \A j \in 1 .. len : t[j] \in Item
    BY ElementOfSeq
  <1>6. /\ \A j \in 0 .. s - 1 : c[j] = b[j]
        /\ \A j \in s .. s + len - 1 : c[j] = t[j - s + 1]
    <2>1. ASSUME NEW j \in 0 .. s - 1 PROVE c[j] = b[j]
      <3>1. j \in 0 .. n - 1 /\ j \notin s .. (s + len - 1)
        BY <1>2
      <3> QED
        BY <1>4, <3>1
    <2>2. ASSUME NEW j \in s .. s + len - 1 PROVE c[j] = t[j - s + 1]
      <3>1. /\ j \in 0 .. n - 1 /\ j - s + 1 \in 1 .. len
            /\ (j - s + 1) - 1 = j - s + 0
        BY <1>2
      <3>2. Read(data, (j - s + 1) - 1) = t[j - s + 1]
        BY <3>1
      <3> QED
        BY <1>4, <3>1, <3>2
    <2> QED
      BY <2>1, <2>2
  <1>7. \A j \in 0 .. (s + len) - 1 : c[j] \in Item
    <2>1. ASSUME NEW j \in 0 .. (s + len) - 1 PROVE c[j] \in Item
      <3>1. CASE j < s
        <4>1. j \in 0 .. s - 1
          BY <1>2, <3>1
        <4> QED
          BY <1>2, <1>6, <4>1
      <3>2. CASE ~(j < s)
        <4>1. j \in s .. s + len - 1 /\ j - s + 1 \in 1 .. len
          BY <1>2, <3>2
        <4> QED
          BY <1>5, <1>6, <4>1
      <3> QED
        BY <3>1, <3>2
    <2> QED
      BY <2>1
  <1>8. Parts(q, n, s + len, c)
    BY <1>1, <1>2, <1>3, <1>4, <1>7 DEF Parts
  <1>9. C = [j \in 1 .. s |-> b[j - 1]] /\ C \in Seq(Item) /\ Len(C) = s
    BY <1>1, ContentsItems DEF C
  <1>10. PICK m \in Nat : m = s + len
    BY <1>2
  <1>11. /\ C \o t \in Seq(Item) /\ Len(C \o t) = m
         /\ \A j \in 1 .. m : (C \o t)[j] = IF j <= s THEN C[j] ELSE t[j - s]
    <2>1. C \o t \in Seq(Item) /\ Joined(C \o t, C, t)
      BY <1>9, ConcatJoins
    <2> QED
      BY <1>9, <1>10, <2>1 DEF Joined
  <1>12. Contents(q) = [j \in 1 .. m |-> c[j - 1]]
    BY <1>8, <1>10, ContentsItems
  <1>13. ASSUME NEW j \in 1 .. m
         PROVE  (C \o t)[j] = c[j - 1]
    <2>1. CASE j <= s
      <3>1. j \in 1 .. s /\ j - 1 \in 0 .. s - 1
        BY <1>2, <2>1
      <3> QED
        BY <1>6, <1>9, <1>11, <2>1, <3>1
    <2>2. CASE ~(j <= s)
      <3>1. j - 1 \in s .. s + len - 1 /\ (j - 1) - s + 1 = j - s
        BY <1>2, <1>10, <2>2
      <3>2. c[j - 1] = t[j - s]
        BY <1>6, <3>1
      <3> QED
        BY <1>11, <2>2, <3>2
    <2> QED
      BY <2>1, <2>2
  <1>14. Contents(q) = C \o t
    <2>1. Contents(q) \in [1 .. m -> Item]
      <3>1. \A j \in 1 .. m : c[j - 1] \in Item
        BY <1>7, <1>10
      <3> QED
        BY <1>12, <3>1
    <2>2. \A j \in 1 .. m : (C \o t)[j] = Contents(q)[j]
      BY <1>12, <1>13
    <2>3. PICK w \in Seq(Item) : w = C \o t
      BY <1>11
    <2>4. PICK u : u = Contents(q)
      OBVIOUS
    <2>5. u \in [1 .. m -> Item] /\ Len(w) = m /\ \A j \in 1 .. m : w[j] = u[j]
      BY <1>11, <2>1, <2>2, <2>3, <2>4
    <2>6. w = u
      <3>1. w \in [1 .. m -> Item]
        BY <2>5, LenProperties
      <3> QED
        BY <2>5, <3>1
    <2> QED
      BY <2>3, <2>4, <2>6
  <1> QED
    BY <1>8, <1>14, PartsGood DEF q, C

-----------------------------------------------------------------------------
(* The inductive invariant: every struct is good, whether its handle is    *)
(* constructed or not, and the ghosts have their types.                    *)
Inv ==
  /\ exists \subseteq Handle
  /\ arr = [d \in Handle |-> arr[d]]
  /\ \A d \in Handle : Good(arr[d])
  /\ live \subseteq Item
  /\ fault \in BOOLEAN
  /\ ret \in {"OK", "BAD_ALLOC"}

(* The sequences that the handles stand for, as Promise sees them. *)
Value == [d \in Handle |-> Contents(arr[d])]

LEMMA GoodContents ==
  ASSUME NEW r, Good(r)
  PROVE  Contents(r) \in Seq(Item) /\ Len(Contents(r)) = r.size
  <1>1. PICK n, s, b : Parts(r, n, s, b)
    BY GoodParts
  <1>2. r.size = s
    BY <1>1 DEF Parts
  <1> QED
    BY <1>1, <1>2, ContentsItems

LEMMA ValueType ==
  ASSUME Inv, NEW d \in Handle
  PROVE  /\ Good(arr[d])
         /\ Value[d] = Contents(arr[d])
         /\ Value[d] \in Seq(Item)
         /\ Len(Value[d]) = arr[d].size
  BY GoodContents DEF Inv, Value

LEMMA ArrUpdate ==
  ASSUME Inv, NEW d \in Handle, NEW q, Good(q), arr' = [arr EXCEPT ![d] = q]
  PROVE  /\ arr' = [e \in Handle |-> arr'[e]]
         /\ \A e \in Handle : Good(arr'[e])
         /\ Value' = [Value EXCEPT ![d] = Contents(q)]
  <1>1. arr' = [e \in Handle |-> IF e = d THEN q ELSE arr[e]]
    BY DEF Inv
  <1> QED
    BY <1>1 DEF Inv, Value

(* Ghosts. *)
LEMMA HandedType ==
  ASSUME Inv, NEW s \in Seq(Item), Handed(s)
  PROVE  live' \subseteq Item /\ fault' \in BOOLEAN
  <1>1. Range(s) \subseteq Item
    BY RangeOfSeq
  <1> QED
    BY <1>1 DEF Handed, Inv

LEMMA DfreeType ==
  ASSUME Inv, NEW s, Dfree(s)
  PROVE  live' \subseteq Item /\ fault' \in BOOLEAN
  <1>1. live' \subseteq Item
    BY DEF Dfree, Inv
  <1>2. fault' \in BOOLEAN
    BY Zenon DEF Dfree, Inv
  <1> QED
    BY <1>1, <1>2

(* A call that ran out of memory, and one that changes a single array.     *)
LEMMA RefusedKeeps ==
  ASSUME Inv, OutOfMemory
  PROVE  Inv' /\ Promise!OutOfMemory
  <1>1. Inv'
    BY DEF Inv, OutOfMemory
  <1>2. Value' = Value
    BY DEF OutOfMemory, Value
  <1> QED
    BY <1>1, <1>2 DEF OutOfMemory, Value, Promise!OutOfMemory

LEMMA UpdateKeeps ==
  ASSUME Inv, NEW d \in Handle, NEW q, Good(q), Update(d, q),
         live' \subseteq Item, fault' \in BOOLEAN
  PROVE  Inv' /\ Promise!Becomes(d, Contents(q))
  <1>1. arr' = [arr EXCEPT ![d] = q] /\ ret' = "OK" /\ exists' = exists
    BY DEF Update
  <1>2. /\ arr' = [e \in Handle |-> arr'[e]]
        /\ \A e \in Handle : Good(arr'[e])
        /\ Value' = [Value EXCEPT ![d] = Contents(q)]
    BY <1>1, ArrUpdate
  <1>3. Inv'
    BY <1>1, <1>2 DEF Inv
  <1> QED
    BY <1>1, <1>2, <1>3 DEF Value, Promise!Becomes

(* Which call of the sequence table is meant. *)
LEMMA AnswersAre ==
  ASSUME NEW a, NEW b, NEW c
  PROVE  /\ Promise!Ctor(a) <=> Promise!Answers(<<"ctor", a>>)
         /\ Promise!Dtor(a) <=> Promise!Answers(<<"dtor", a>>)
         /\ Promise!Clear(a) <=> Promise!Answers(<<"clear", a>>)
         /\ Promise!Reserve(a) <=> Promise!Answers(<<"reserve", a, b>>)
         /\ Promise!Reserve(a) <=> Promise!Answers(<<"shrink_to_fit", a>>)
         /\ Promise!Insert(a, b, c) <=> Promise!Answers(<<"insert", a, b, c>>)
         /\ Promise!Erase(a, b) <=> Promise!Answers(<<"erase", a, b>>)
         /\ Promise!Set(a, b, c) <=> Promise!Answers(<<"set", a, b, c>>)
         /\ Promise!AppendAll(a, b) <=> Promise!Answers(<<"append", a, b>>)
         /\ Promise!AppendMove(a, b) <=> Promise!Answers(<<"append_move", a, b>>)
         /\ Promise!Swap(a, b) <=> Promise!Answers(<<"swap", a, b>>)
  BY DEF Promise!Answers

-----------------------------------------------------------------------------
(* Every call keeps the invariant and the promise. *)

LEMMA CtorStep ==
  ASSUME Inv, NEW d \in Handle, Ctor(d)
  PROVE  Inv' /\ Promise!Answers(call')
  <1>1. call' = <<"ctor", d>> /\ d \notin exists
    BY DEF Ctor
  <1>2. CASE OutOfMemory
    <2>1. Inv' /\ Promise!OutOfMemory
      BY <1>2, RefusedKeeps
    <2>2. Promise!Ctor(d)
      BY <1>1, <2>1 DEF Promise!Ctor
    <2> QED
      BY <1>1, <2>1, <2>2, AnswersAre, Zenon
  <1>3. CASE ~OutOfMemory
    <2>1. /\ exists' = exists \cup {d} /\ arr' = [arr EXCEPT ![d] = NewArray]
          /\ ret' = "OK" /\ live' = live /\ fault' = fault
      BY <1>3 DEF Ctor, Kept
    <2>2. /\ arr' = [e \in Handle |-> arr'[e]]
          /\ \A e \in Handle : Good(arr'[e])
          /\ Value' = [Value EXCEPT ![d] = <<>>]
      BY <2>1, NewArrayGood, ArrUpdate
    <2>3. Inv'
      BY <2>1, <2>2 DEF Inv
    <2>4. Promise!Ctor(d)
      BY <1>1, <2>1, <2>2 DEF Value, Promise!Ctor
    <2> QED
      BY <1>1, <2>3, <2>4, AnswersAre, Zenon
  <1> QED
    BY <1>2, <1>3

LEMMA DtorStep ==
  ASSUME Inv, NEW d \in Handle, Dtor(d)
  PROVE  Inv' /\ Promise!Answers(call')
  <1>1. /\ call' = <<"dtor", d>> /\ d \in exists
        /\ exists' = exists \ {d} /\ arr' = [arr EXCEPT ![d] = NewArray] /\ ret' = "OK"
        /\ Dfree(Contents(arr[d]))
    BY DEF Dtor
  <1>2. /\ arr' = [e \in Handle |-> arr'[e]]
        /\ \A e \in Handle : Good(arr'[e])
        /\ Value' = [Value EXCEPT ![d] = <<>>]
    BY <1>1, NewArrayGood, ArrUpdate
  <1>3. live' \subseteq Item /\ fault' \in BOOLEAN
    BY <1>1, DfreeType
  <1>4. Inv'
    BY <1>1, <1>2, <1>3 DEF Inv
  <1>5. Promise!Dtor(d)
    BY <1>1, <1>2 DEF Value, Promise!Dtor
  <1> QED
    BY <1>1, <1>4, <1>5, AnswersAre, Zenon

LEMMA ClearStep ==
  ASSUME Inv, NEW d \in Handle, Clear(d)
  PROVE  Inv' /\ Promise!Answers(call')
  <1> DEFINE q == [arr[d] EXCEPT !.size = 0]
  <1>1. call' = <<"clear", d>> /\ d \in exists /\ Update(d, q) /\ Dfree(Contents(arr[d]))
    BY DEF Clear
  <1>2. Good(q) /\ Contents(q) = <<>>
    BY ValueType, ClearedGood
  <1>3. live' \subseteq Item /\ fault' \in BOOLEAN
    BY <1>1, DfreeType
  <1> HIDE DEF q
  <1>4. Inv' /\ Promise!Becomes(d, <<>>)
    BY <1>1, <1>2, <1>3, UpdateKeeps
  <1>5. Promise!Clear(d)
    BY <1>1, <1>4 DEF Promise!Clear
  <1> QED
    BY <1>1, <1>4, <1>5, AnswersAre, Zenon

(* A call that only changes the room of an array. *)
LEMMA RoomStep ==
  ASSUME Inv, NEW d \in Handle, NEW c \in Nat, d \in exists,
         \/ \E r \in WithCapacity(arr[d], c) \cup {arr[d]} : Update(d, r) /\ Kept
         \/ OutOfMemory
  PROVE  Inv' /\ Promise!Reserve(d)
  <1>1. CASE OutOfMemory
    <2>1. Inv' /\ Promise!OutOfMemory
      BY <1>1, RefusedKeeps
    <2> QED
      BY <2>1 DEF Promise!Reserve
  <1>2. CASE ~OutOfMemory
    <2>1. PICK r \in WithCapacity(arr[d], c) \cup {arr[d]} : Update(d, r) /\ Kept
      BY <1>2
    <2>2. Good(r) /\ Contents(r) = Contents(arr[d])
      BY ValueType, WithCapacityGood
    <2>3. live' \subseteq Item /\ fault' \in BOOLEAN
      BY <2>1 DEF Kept, Inv
    <2>4. Inv' /\ Promise!Becomes(d, Contents(arr[d]))
      BY <2>1, <2>2, <2>3, UpdateKeeps
    <2>5. [e \in Handle |-> Contents(arr[e])][d] = Contents(arr[d])
      OBVIOUS
    <2> QED
      BY <2>4, <2>5 DEF Promise!Reserve
  <1> QED
    BY <1>1, <1>2

LEMMA ReserveStep ==
  ASSUME Inv, NEW d \in Handle, NEW c \in Nat, Reserve(d, c)
  PROVE  Inv' /\ Promise!Answers(call')
  <1>1. call' = <<"reserve", d, c>> /\ d \in exists
    BY DEF Reserve
  <1>2. \/ \E r \in WithCapacity(arr[d], c) \cup {arr[d]} : Update(d, r) /\ Kept
        \/ OutOfMemory
    BY DEF Reserve
  <1>3. Inv' /\ Promise!Reserve(d)
    BY <1>1, <1>2, RoomStep
  <1> QED
    BY <1>1, <1>3, AnswersAre, Zenon

LEMMA ShrinkToFitStep ==
  ASSUME Inv, NEW d \in Handle, ShrinkToFit(d)
  PROVE  Inv' /\ Promise!Answers(call')
  <1>1. call' = <<"shrink_to_fit", d>> /\ d \in exists
    BY DEF ShrinkToFit
  <1>2. arr[d].size \in Nat
    BY ValueType, GoodParts
  <1>3. \/ \E r \in WithCapacity(arr[d], arr[d].size) \cup {arr[d]} : Update(d, r) /\ Kept
        \/ OutOfMemory
    BY DEF ShrinkToFit
  <1>4. Inv' /\ Promise!Reserve(d)
    BY <1>1, <1>2, <1>3, RoomStep
  <1> QED
    BY <1>1, <1>4, AnswersAre, Zenon

LEMMA InsertStep ==
  ASSUME Inv, NEW d \in Handle, NEW i, NEW v \in Item, Insert(d, i, v)
  PROVE  Inv' /\ Promise!Answers(call')
  <1>1. call' = <<"insert", d, i, v>> /\ d \in exists /\ i \in 0 .. arr[d].size
    BY DEF Insert
  <1>2. Value[d] = Contents(arr[d]) /\ Len(Value[d]) = arr[d].size
    BY ValueType
  <1>3. CASE OutOfMemory
    <2>1. Inv' /\ Promise!OutOfMemory
      BY <1>3, RefusedKeeps
    <2>2. Promise!Insert(d, i, v)
      BY <1>1, <1>2, <2>1 DEF Promise!Insert, Value
    <2> QED
      BY <1>1, <2>1, <2>2, AnswersAre, Zenon
  <1>4. CASE ~OutOfMemory
    <2>1. PICK r \in WithRoom(arr[d]) : Update(d, Inserted(r, i, v)) /\ Handed(<<v>>)
      BY <1>4 DEF Insert
    <2>2. Good(r) /\ Contents(r) = Contents(arr[d]) /\ r.size = arr[d].size /\ r.size < r.capacity
      BY ValueType, WithRoomGood
    <2>3. Good(Inserted(r, i, v)) /\ Contents(Inserted(r, i, v)) = InsertAt(Contents(arr[d]), i + 1, v)
      BY <1>1, <2>2, InsertedGood
    <2>4. live' \subseteq Item /\ fault' \in BOOLEAN
      <3>1. <<v>> \in Seq(Item)
        OBVIOUS
      <3> QED
        BY <2>1, <3>1, HandedType
    <2>5. Inv' /\ Promise!Becomes(d, InsertAt(Value[d], i + 1, v))
      BY <1>2, <2>1, <2>3, <2>4, UpdateKeeps
    <2>6. Promise!Insert(d, i, v)
      <3>1. InsertAt(Value[d], i + 1, v) = SubSeq(Value[d], 1, i) \o <<v>> \o SubSeq(Value[d], i + 1, Len(Value[d]))
        <4>1. i \in Int
          BY <1>1
        <4> QED
          BY <4>1, SequenceOperators, Zenon
      <3>2. Promise!Becomes(d, SubSeq(Value[d], 1, i) \o <<v>> \o SubSeq(Value[d], i + 1, Len(Value[d])))
        BY <2>5, <3>1 DEF Promise!Becomes
      <3> QED
        BY <1>1, <1>2, <3>2 DEF Promise!Insert, Value
    <2> QED
      BY <1>1, <2>5, <2>6, AnswersAre, Zenon
  <1> QED
    BY <1>3, <1>4

LEMMA EraseStep ==
  ASSUME Inv, NEW d \in Handle, NEW i, Erase(d, i)
  PROVE  Inv' /\ Promise!Answers(call')
  <1>1. /\ call' = <<"erase", d, i>> /\ d \in exists /\ i \in 0 .. arr[d].size - 1
        /\ Update(d, Erased(arr[d], i)) /\ Dfree(<<Read(arr[d].buffer, i)>>)
    BY DEF Erase
  <1>2. Good(arr[d]) /\ Value[d] = Contents(arr[d]) /\ Len(Value[d]) = arr[d].size
    BY ValueType
  <1>3. Good(Erased(arr[d], i)) /\ Contents(Erased(arr[d], i)) = RemoveAt(Value[d], i + 1)
    BY <1>1, <1>2, ErasedGood
  <1>4. live' \subseteq Item /\ fault' \in BOOLEAN
    BY <1>1, DfreeType
  <1>5. Inv' /\ Promise!Becomes(d, RemoveAt(Value[d], i + 1))
    BY <1>1, <1>3, <1>4, UpdateKeeps
  <1>6. Promise!Erase(d, i)
    <2>1. RemoveAt(Value[d], i + 1) = SubSeq(Value[d], 1, i) \o SubSeq(Value[d], i + 2, Len(Value[d]))
      <3>1. i \in Int
        BY <1>1
      <3> QED
        BY <3>1, SequenceOperators, Zenon
    <2>2. Promise!Becomes(d, SubSeq(Value[d], 1, i) \o SubSeq(Value[d], i + 2, Len(Value[d])))
      BY <1>5, <2>1 DEF Promise!Becomes
    <2> QED
      BY <1>1, <1>2, <2>2 DEF Promise!Erase, Value
  <1> QED
    BY <1>1, <1>5, <1>6, AnswersAre, Zenon

LEMMA SetStep ==
  ASSUME Inv, NEW d \in Handle, NEW i, NEW v \in Item, Set(d, i, v)
  PROVE  Inv' /\ Promise!Answers(call')
  <1> DEFINE q == [arr[d] EXCEPT !.buffer = Store(@, i, v)]
  <1>1. /\ call' = <<"set", d, i, v>> /\ d \in exists /\ i \in 0 .. arr[d].size - 1
        /\ Update(d, q) /\ fault' = fault
        /\ live' = IF HasDfree THEN (live \ {Read(arr[d].buffer, i)}) \cup {v} ELSE live
    BY DEF Set
  <1>2. Good(arr[d]) /\ Value[d] = Contents(arr[d]) /\ Len(Value[d]) = arr[d].size
    BY ValueType
  <1>3. Good(q) /\ Contents(q) = ReplaceAt(Value[d], i + 1, v)
    BY <1>1, <1>2, SetGood
  <1>4. live' \subseteq Item /\ fault' \in BOOLEAN
    BY <1>1 DEF Inv
  <1> HIDE DEF q
  <1>5. Inv' /\ Promise!Becomes(d, ReplaceAt(Value[d], i + 1, v))
    BY <1>1, <1>3, <1>4, UpdateKeeps
  <1>6. Promise!Set(d, i, v)
    <2>1. Promise!Becomes(d, [Value[d] EXCEPT ![i + 1] = v])
      BY <1>5 DEF Promise!Becomes, ReplaceAt
    <2> QED
      BY <1>1, <1>2, <2>1 DEF Promise!Set, Value
  <1> QED
    BY <1>1, <1>5, <1>6, AnswersAre, Zenon

LEMMA AppendAllStep ==
  ASSUME Inv, NEW d \in Handle, NEW s \in Blocks, AppendAll(d, s)
  PROVE  Inv' /\ Promise!Answers(call')
  <1> DEFINE len == Len(s)
             data == [i \in 0 .. len - 1 |-> s[i + 1]]
  <1>1. call' = <<"append", d, s>> /\ d \in exists
    BY DEF AppendAll
  <1>2. Value[d] = Contents(arr[d])
    BY ValueType
  <1>3. s \in Seq(Item) /\ len \in Nat /\ \A j \in 1 .. len : s[j] \in Item
    BY BlocksAssumption
  <1>4. CASE OutOfMemory
    <2>1. Inv' /\ Promise!OutOfMemory
      BY <1>4, RefusedKeeps
    <2>2. Promise!AppendAll(d, s)
      BY <1>1, <2>1 DEF Promise!AppendAll
    <2> QED
      BY <1>1, <2>1, <2>2, AnswersAre, Zenon
  <1>5. CASE ~OutOfMemory
    <2>1. PICK r \in WithRoomFor(arr[d], len) : Update(d, Appended(r, data, len)) /\ Handed(s)
      BY <1>5 DEF AppendAll
    <2>2. Good(r) /\ Contents(r) = Contents(arr[d]) /\ r.size + len <= r.capacity
      BY <1>3, ValueType, WithRoomForGood
    <2>3. \A j : Read(data, j) \in Slot
      BY <1>3 DEF Read, Slot
    <2>4. ASSUME NEW j \in 1 .. len PROVE Read(data, j - 1) = s[j]
      <3>1. j - 1 \in 0 .. len - 1 /\ (j - 1) + 1 = j
        BY <1>3
      <3> QED
        BY <3>1 DEF Read
    <2> HIDE DEF data
    <2>5. /\ Good(Appended(r, data, len))
          /\ Contents(Appended(r, data, len)) = Contents(r) \o s
      BY <1>3, <2>2, <2>3, <2>4, AppendedGood
    <2>6. live' \subseteq Item /\ fault' \in BOOLEAN
      BY <1>3, <2>1, HandedType
    <2>7. Inv' /\ Promise!Becomes(d, Value[d] \o s)
      BY <1>2, <2>1, <2>2, <2>5, <2>6, UpdateKeeps
    <2>8. Promise!AppendAll(d, s)
      BY <1>1, <2>7 DEF Promise!AppendAll, Value
    <2> QED
      BY <1>1, <2>7, <2>8, AnswersAre, Zenon
  <1> QED
    BY <1>4, <1>5

LEMMA AppendMoveStep ==
  ASSUME Inv, NEW a \in Handle, NEW b \in Handle, AppendMove(a, b)
  PROVE  Inv' /\ Promise!Answers(call')
  <1> DEFINE len == arr[b].size
             data == arr[b].buffer
  <1>1. call' = <<"append_move", a, b>> /\ {a, b} \subseteq exists /\ a # b
    BY DEF AppendMove
  <1>2. /\ Good(arr[a]) /\ Value[a] = Contents(arr[a])
        /\ Good(arr[b]) /\ Value[b] = Contents(arr[b])
    BY ValueType
  <1>3. CASE OutOfMemory
    <2>1. Inv' /\ Promise!OutOfMemory
      BY <1>3, RefusedKeeps
    <2>2. Promise!AppendMove(a, b)
      BY <1>1, <2>1 DEF Promise!AppendMove
    <2> QED
      BY <1>1, <2>1, <2>2, AnswersAre, Zenon
  <1>4. CASE ~OutOfMemory
    <2>1. PICK r \in WithRoomFor(arr[a], len) :
            /\ arr' = [arr EXCEPT ![a] = Appended(r, data, len), ![b].size = 0]
            /\ ret' = "OK" /\ exists' = exists /\ live' = live /\ fault' = fault
      BY <1>4 DEF AppendMove, Kept
    <2>2. PICK n, m, buf : Parts(arr[b], n, m, buf)
      BY <1>2, GoodParts
    <2>3. /\ len = m /\ data = buf /\ m \in Nat /\ n \in Nat /\ m <= n
          /\ buf \in [0 .. n - 1 -> Slot]
      BY <2>2 DEF Parts
    <2>4. /\ Value[b] = [j \in 1 .. m |-> buf[j - 1]] /\ Value[b] \in Seq(Item) /\ Len(Value[b]) = m
      BY <1>2, <2>2, ContentsItems
    <2>5. Good(r) /\ Contents(r) = Value[a] /\ r.size + m <= r.capacity
      BY <1>2, <2>1, <2>3, WithRoomForGood
    <2>6. \A j : Read(buf, j) \in Slot
      BY <2>3, ReadType
    <2>7. ASSUME NEW j \in 1 .. m PROVE Read(buf, j - 1) = Value[b][j]
      <3>1. j - 1 \in 0 .. n - 1
        BY <2>3
      <3>2. Read(buf, j - 1) = buf[j - 1]
        BY <2>3, <3>1, ReadType
      <3> QED
        BY <2>4, <3>2
    <2>8. PICK p : p = Appended(r, buf, m)
      OBVIOUS
    <2>9. Good(p) /\ Contents(p) = Value[a] \o Value[b]
      <3>1. PICK u \in Seq(Item) : u = Value[b]
        BY <2>4
      <3>2. Len(u) = m /\ \A j \in 1 .. m : Read(buf, j - 1) = u[j]
        BY <2>4, <2>7, <3>1
      <3>3. Good(p) /\ Contents(p) = Contents(r) \o u
        BY <2>3, <2>5, <2>6, <2>8, <3>2, AppendedGood, Zenon
      <3> QED
        BY <2>5, <3>1, <3>3
    <2>10. PICK q : q = [arr[b] EXCEPT !.size = 0]
      OBVIOUS
    <2>11. Good(q) /\ Contents(q) = <<>>
      BY <1>2, <2>10, ClearedGood
    <2>12. arr' = [e \in Handle |-> IF e = b THEN q ELSE IF e = a THEN p ELSE arr[e]]
      <3>1. arr' = [[arr EXCEPT ![a] = p] EXCEPT ![b].size = 0]
        BY <2>1, <2>3, <2>8
      <3>2. [arr EXCEPT ![a] = p] = [e \in Handle |-> IF e = a THEN p ELSE arr[e]]
        BY DEF Inv
      <3>3. [arr EXCEPT ![a] = p][b] = arr[b]
        BY <1>1, <3>2
      <3> QED
        BY <2>10, <3>1, <3>2, <3>3
    <2>13. Inv'
      BY <2>1, <2>9, <2>11, <2>12 DEF Inv
    <2>14. Value' = [e \in Handle |-> IF e = b THEN <<>> ELSE IF e = a THEN Value[a] \o Value[b] ELSE Value[e]]
      BY <1>2, <2>9, <2>11, <2>12 DEF Value
    <2>15. Value' = [Value EXCEPT ![a] = Value[a] \o Value[b], ![b] = <<>>]
      BY <2>14 DEF Value
    <2>16. Promise!AppendMove(a, b)
      BY <1>1, <2>1, <2>15 DEF Promise!AppendMove, Value
    <2> QED
      BY <1>1, <2>13, <2>16, AnswersAre, Zenon
  <1> QED
    BY <1>3, <1>4

LEMMA SwapStep ==
  ASSUME Inv, NEW a \in Handle, NEW b \in Handle, Swap(a, b)
  PROVE  Inv' /\ Promise!Answers(call')
  <1>1. /\ call' = <<"swap", a, b>> /\ {a, b} \subseteq exists
        /\ arr' = [arr EXCEPT ![a] = arr[b], ![b] = arr[a]]
        /\ ret' = "OK" /\ exists' = exists /\ live' = live /\ fault' = fault
    BY DEF Swap, Kept
  <1>2. arr' = [e \in Handle |-> IF e = b THEN arr[a] ELSE IF e = a THEN arr[b] ELSE arr[e]]
    BY <1>1 DEF Inv
  <1>3. Inv'
    BY <1>1, <1>2 DEF Inv
  <1>4. Value' = [e \in Handle |-> IF e = b THEN Value[a] ELSE IF e = a THEN Value[b] ELSE Value[e]]
    BY <1>2 DEF Value
  <1>5. Value' = [Value EXCEPT ![a] = Value[b], ![b] = Value[a]]
    BY <1>4 DEF Value
  <1>6. Promise!Swap(a, b)
    BY <1>1, <1>5 DEF Promise!Swap, Value
  <1> QED
    BY <1>1, <1>3, <1>6, AnswersAre, Zenon

LEMMA InitInv == Init => Inv
  BY NewArrayGood DEF Init, Inv

LEMMA NextStep ==
  ASSUME Inv, Next
  PROVE  Inv' /\ Promise!Answers(call')
  <1>1. ASSUME NEW d \in Handle, Ctor(d) \/ Dtor(d) \/ Clear(d) \/ ShrinkToFit(d)
        PROVE  Inv' /\ Promise!Answers(call')
    BY <1>1, CtorStep, DtorStep, ClearStep, ShrinkToFitStep
  <1>2. ASSUME NEW d \in Handle, NEW v \in Item, NEW i \in 0 .. arr[d].size, Insert(d, i, v)
        PROVE  Inv' /\ Promise!Answers(call')
    BY <1>2, InsertStep
  <1>3. ASSUME NEW d \in Handle, NEW i \in 0 .. arr[d].size - 1, Erase(d, i)
        PROVE  Inv' /\ Promise!Answers(call')
    BY <1>3, EraseStep
  <1>4. ASSUME NEW d \in Handle, NEW v \in Item, NEW i \in 0 .. arr[d].size - 1, Set(d, i, v)
        PROVE  Inv' /\ Promise!Answers(call')
    BY <1>4, SetStep
  <1>5. ASSUME NEW d \in Handle, NEW c \in {MinCapacity, MinCapacity + 1}, Reserve(d, c)
        PROVE  Inv' /\ Promise!Answers(call')
    BY <1>5, ReserveStep, CapacityAssumption
  <1>6. ASSUME NEW d \in Handle, NEW s \in Blocks, AppendAll(d, s)
        PROVE  Inv' /\ Promise!Answers(call')
    BY <1>6, AppendAllStep
  <1>7. ASSUME NEW a \in Handle, NEW b \in Handle, Swap(a, b) \/ AppendMove(a, b)
        PROVE  Inv' /\ Promise!Answers(call')
    BY <1>7, SwapStep, AppendMoveStep
  <1> QED
    BY <1>1, <1>2, <1>3, <1>4, <1>5, <1>6, <1>7, Zenon DEF Next

LEMMA StutterInv == ASSUME Inv, UNCHANGED vars PROVE Inv'
  BY DEF Inv, vars

LEMMA InvImplies == Inv => TypeOK
  <1>1. ASSUME Inv, NEW d \in Handle
        PROVE  \E n \in MinCapacity .. MaxCapacity : arr[d] \in Struct(n)
    BY <1>1 DEF Inv, Good
  <1> QED
    BY <1>1 DEF Inv, TypeOK

(* No call leaves its buffer: what insert, erase, append and reallocate    *)
(* copy and store stays below capacity, and size never exceeds it.         *)
THEOREM TypeCorrect == Spec => []TypeOK
  <1>1. Inv /\ [Next]_vars => Inv'
    BY NextStep, StutterInv
  <1> QED
    BY <1>1, InitInv, InvImplies, PTL DEF Spec

(* Every call does to the sequence behind its handle what the sequence     *)
(* table promises, or runs out of memory and changes nothing: array.c      *)
(* implements isequence.h.                                                 *)
THEOREM ImplementsSequence == Spec => CallsKeepPromise
  <1>1. Inv /\ [Next]_vars => Inv'
    BY NextStep, StutterInv
  <1>2. Inv /\ [Next]_vars => [Promise!Answers(call')]_vars
    BY NextStep
  <1> QED
    BY <1>1, <1>2, InitInv, PTL DEF Spec, CallsKeepPromise

-----------------------------------------------------------------------------
(* Ownership.  It is a statement on the sequences alone, so it follows     *)
(* from what the calls promise and from what they give to dfree.           *)

(* L holds exactly the items of the sequences V[d], d in E, each once.     *)
Owned(E, V, L) ==
  /\ L = UNION {Range(V[d]) : d \in E}
  /\ \A d \in E : IsInjective(V[d])
  /\ \A d, e \in E : d # e => Range(V[d]) \cap Range(V[e]) = {}

(* The items of a sequence after each change of it, and that they stay     *)
(* different ones.                                                         *)
LEMMA RangeIs ==
  ASSUME NEW n \in Nat, NEW f, f = [j \in 1 .. n |-> f[j]]
  PROVE  /\ Range(f) = {f[j] : j \in 1 .. n}
         /\ IsInjective(f) <=> \A j, k \in 1 .. n : f[j] = f[k] => j = k
  BY DEF Range, IsInjective

LEMMA SeqIs ==
  ASSUME NEW s \in Seq(Item)
  PROVE  /\ Len(s) \in Nat
         /\ Range(s) = {s[j] : j \in 1 .. Len(s)}
         /\ IsInjective(s) <=> \A j, k \in 1 .. Len(s) : s[j] = s[k] => j = k
         /\ Range(s) \subseteq Item
  <1>1. Len(s) \in Nat /\ s = [j \in 1 .. Len(s) |-> s[j]] /\ Range(s) \subseteq Item
    BY LenProperties, RangeOfSeq
  <1> QED
    BY <1>1, RangeIs

LEMMA EmptyRange == Range(<<>>) = {} /\ IsInjective(<<>>)
  BY DEF Range, IsInjective

LEMMA SingleRange ==
  ASSUME NEW v \in Item
  PROVE  Range(<<v>>) = {v} /\ IsInjective(<<v>>)
  <1>1. PICK u : u = <<v>>
    OBVIOUS
  <1>2. u = [j \in 1 .. 1 |-> v]
    BY <1>1
  <1>3. Range(u) = {v}
    BY <1>2 DEF Range
  <1>4. IsInjective(u)
    BY <1>2 DEF IsInjective
  <1> QED
    BY <1>1, <1>3, <1>4

LEMMA InsertAtRange ==
  ASSUME NEW s \in Seq(Item), NEW i \in 0 .. Len(s), NEW v \in Item
  PROVE  /\ Range(InsertAt(s, i + 1, v)) = Range(s) \cup {v}
         /\ IsInjective(s) /\ v \notin Range(s) => IsInjective(InsertAt(s, i + 1, v))
  <1>1. PICK n \in Nat : n = Len(s)
    BY SeqIs
  <1>2. PICK u : u = InsertAt(s, i + 1, v)
    OBVIOUS
  <1>3. u = [j \in 1 .. n + 1 |-> IF j <= i THEN s[j] ELSE IF j = i + 1 THEN v ELSE s[j - 1]]
    BY <1>1, <1>2, InsertAtItems
  <1>4. /\ i \in Nat /\ i <= n /\ n + 1 \in Nat
        /\ \A j \in 1 .. i : u[j] = s[j]
        /\ u[i + 1] = v
        /\ \A j \in i + 2 .. n + 1 : u[j] = s[j - 1]
    BY <1>1, <1>3
  <1>5. /\ Range(u) = {u[j] : j \in 1 .. n + 1}
        /\ IsInjective(u) <=> \A j, k \in 1 .. n + 1 : u[j] = u[k] => j = k
    <2>1. u = [j \in 1 .. n + 1 |-> u[j]]
      BY <1>3
    <2> QED
      BY <1>4, <2>1, RangeIs
  <1>6. /\ Range(s) = {s[j] : j \in 1 .. n}
        /\ IsInjective(s) <=> \A j, k \in 1 .. n : s[j] = s[k] => j = k
    BY <1>1, SeqIs
  <1>7. Range(u) = Range(s) \cup {v}
    <2>1. ASSUME NEW x \in Range(u) PROVE x \in Range(s) \cup {v}
      <3>1. PICK j \in 1 .. n + 1 : u[j] = x
        BY <1>5, <2>1
      <3>2. \/ j \in 1 .. i /\ j \in 1 .. n
            \/ j = i + 1
            \/ j \in i + 2 .. n + 1 /\ j - 1 \in 1 .. n
        BY <1>4
      <3> QED
        BY <1>4, <1>6, <3>1, <3>2
    <2>2. ASSUME NEW x \in Range(s) PROVE x \in Range(u)
      <3>1. PICK j \in 1 .. n : s[j] = x
        BY <1>6, <2>2
      <3>2. \/ j \in 1 .. i /\ j \in 1 .. n + 1
            \/ j + 1 \in i + 2 .. n + 1 /\ j + 1 \in 1 .. n + 1 /\ (j + 1) - 1 = j
        BY <1>4
      <3>3. (\E k \in 1 .. n + 1 : u[k] = x)
        <4>1. CASE j \in 1 .. i /\ j \in 1 .. n + 1
          BY <1>4, <3>1, <4>1
        <4>2. CASE j + 1 \in i + 2 .. n + 1 /\ j + 1 \in 1 .. n + 1 /\ (j + 1) - 1 = j
          BY <1>4, <3>1, <4>2
        <4> QED
          BY <3>2, <4>1, <4>2
      <3> QED
        BY <1>5, <3>3
    <2>3. v \in Range(u)
      <3>1. i + 1 \in 1 .. n + 1
        BY <1>4
      <3> QED
        BY <1>4, <1>5, <3>1
    <2> QED
      BY <2>1, <2>2, <2>3
  <1>8. ASSUME IsInjective(s), v \notin Range(s)
        PROVE  IsInjective(u)
    <2>1. ASSUME NEW j \in 1 .. n + 1, NEW k \in 1 .. n + 1, u[j] = u[k], j < k
          PROVE  FALSE
      <3>1. CASE k <= i
        <4>1. j \in 1 .. i /\ k \in 1 .. i /\ j \in 1 .. n /\ k \in 1 .. n
          BY <1>4, <2>1, <3>1
        <4> QED
          BY <1>4, <1>6, <1>8, <2>1, <4>1
      <3>2. CASE k = i + 1
        <4>1. j \in 1 .. i /\ j \in 1 .. n
          BY <1>4, <2>1, <3>2
        <4> QED
          BY <1>4, <1>6, <1>8, <2>1, <3>2, <4>1
      <3>3. CASE k > i + 1
        <4>1. k \in i + 2 .. n + 1 /\ k - 1 \in 1 .. n /\ u[k] = s[k - 1]
          BY <1>4, <2>1, <3>3
        <4>2. CASE j <= i
          <5>1. j \in 1 .. i /\ j \in 1 .. n /\ j # k - 1
            BY <1>4, <3>3, <4>2
          <5> QED
            BY <1>4, <1>6, <1>8, <2>1, <4>1, <5>1
        <4>3. CASE j = i + 1
          BY <1>4, <1>6, <1>8, <2>1, <4>1, <4>3
        <4>4. CASE j > i + 1
          <5>1. j \in i + 2 .. n + 1 /\ j - 1 \in 1 .. n /\ j - 1 # k - 1
            BY <1>4, <2>1, <4>4
          <5> QED
            BY <1>4, <1>6, <1>8, <2>1, <4>1, <5>1
        <4> QED
          BY <1>4, <4>2, <4>3, <4>4
      <3> QED
        BY <1>4, <3>1, <3>2, <3>3
    <2>2. ASSUME NEW j \in 1 .. n + 1, NEW k \in 1 .. n + 1, u[j] = u[k]
          PROVE  j = k
      <3>1. j < k \/ j = k \/ k < j
        OBVIOUS
      <3> QED
        BY <2>1, <2>2, <3>1
    <2> QED
      BY <1>5, <2>2
  <1> QED
    BY <1>2, <1>7, <1>8

LEMMA RemoveAtRange ==
  ASSUME NEW s \in Seq(Item), NEW i \in 0 .. Len(s) - 1, IsInjective(s)
  PROVE  /\ Range(RemoveAt(s, i + 1)) = Range(s) \ {s[i + 1]}
         /\ IsInjective(RemoveAt(s, i + 1))
         /\ s[i + 1] \in Range(s)
  <1>1. PICK n \in Nat : n = Len(s)
    BY SeqIs
  <1>2. PICK u : u = RemoveAt(s, i + 1)
    OBVIOUS
  <1>3. u = [j \in 1 .. n - 1 |-> IF j <= i THEN s[j] ELSE s[j + 1]]
    BY <1>1, <1>2, RemoveAtItems
  <1>4. /\ i \in Nat /\ i < n /\ n - 1 \in Nat /\ i + 1 \in 1 .. n
        /\ \A j \in 1 .. i : u[j] = s[j]
        /\ \A j \in i + 1 .. n - 1 : u[j] = s[j + 1]
    BY <1>1, <1>3
  <1>5. /\ Range(u) = {u[j] : j \in 1 .. n - 1}
        /\ IsInjective(u) <=> \A j, k \in 1 .. n - 1 : u[j] = u[k] => j = k
    <2>1. u = [j \in 1 .. n - 1 |-> u[j]]
      BY <1>3
    <2> QED
      BY <1>4, <2>1, RangeIs
  <1>6. /\ Range(s) = {s[j] : j \in 1 .. n}
        /\ \A j, k \in 1 .. n : s[j] = s[k] => j = k
    BY <1>1, SeqIs
  <1>7. Range(u) = Range(s) \ {s[i + 1]}
    <2>1. ASSUME NEW x \in Range(u) PROVE x \in Range(s) \ {s[i + 1]}
      <3>1. PICK j \in 1 .. n - 1 : u[j] = x
        BY <1>5, <2>1
      <3>2. \/ j \in 1 .. i /\ j \in 1 .. n /\ j # i + 1
            \/ j \in i + 1 .. n - 1 /\ j + 1 \in 1 .. n /\ j + 1 # i + 1
        BY <1>4
      <3> QED
        BY <1>4, <1>6, <3>1, <3>2
    <2>2. ASSUME NEW x \in Range(s) \ {s[i + 1]} PROVE x \in Range(u)
      <3>1. PICK j \in 1 .. n : s[j] = x
        BY <1>6, <2>2
      <3>2. \/ j \in 1 .. i /\ j \in 1 .. n - 1
            \/ j - 1 \in i + 1 .. n - 1 /\ j - 1 \in 1 .. n - 1 /\ (j - 1) + 1 = j
        BY <1>4, <2>2, <3>1
      <3> QED
        BY <1>4, <1>5, <3>1, <3>2
    <2> QED
      BY <2>1, <2>2
  <1>8. ASSUME NEW j \in 1 .. n - 1, NEW k \in 1 .. n - 1, u[j] = u[k]
        PROVE  j = k
    <2>1. \/ j \in 1 .. i /\ j \in 1 .. n
          \/ j \in i + 1 .. n - 1 /\ j + 1 \in 1 .. n
      BY <1>4
    <2>2. \/ k \in 1 .. i /\ k \in 1 .. n
          \/ k \in i + 1 .. n - 1 /\ k + 1 \in 1 .. n
      BY <1>4
    <2> QED
      BY <1>4, <1>6, <1>8, <2>1, <2>2
  <1> QED
    BY <1>2, <1>4, <1>5, <1>6, <1>7, <1>8

LEMMA ReplaceAtRange ==
  ASSUME NEW s \in Seq(Item), NEW i \in 0 .. Len(s) - 1, NEW v \in Item,
         IsInjective(s), v \notin Range(s)
  PROVE  /\ Range(ReplaceAt(s, i + 1, v)) = (Range(s) \ {s[i + 1]}) \cup {v}
         /\ IsInjective(ReplaceAt(s, i + 1, v))
  <1>1. PICK n \in Nat : n = Len(s)
    BY SeqIs
  <1>2. PICK u : u = ReplaceAt(s, i + 1, v)
    OBVIOUS
  <1>3. u = [j \in 1 .. n |-> IF j = i + 1 THEN v ELSE s[j]] /\ i + 1 \in 1 .. n
    <2>1. s \in [1 .. n -> Item]
      BY <1>1, LenProperties
    <2>2. u = [s EXCEPT ![i + 1] = v]
      BY <1>2 DEF ReplaceAt
    <2>3. i + 1 \in 1 .. n
      BY <1>1
    <2> QED
      BY <2>1, <2>2, <2>3
  <1>4. /\ Range(u) = {u[j] : j \in 1 .. n}
        /\ IsInjective(u) <=> \A j, k \in 1 .. n : u[j] = u[k] => j = k
    <2>1. u = [j \in 1 .. n |-> u[j]]
      BY <1>3
    <2> QED
      BY <2>1, RangeIs
  <1>5. /\ Range(s) = {s[j] : j \in 1 .. n}
        /\ \A j, k \in 1 .. n : s[j] = s[k] => j = k
    BY <1>1, SeqIs
  <1>6. \A j \in 1 .. n : u[j] = IF j = i + 1 THEN v ELSE s[j]
    BY <1>3
  <1>7. Range(u) = (Range(s) \ {s[i + 1]}) \cup {v}
    <2>1. ASSUME NEW x \in Range(u) PROVE x \in (Range(s) \ {s[i + 1]}) \cup {v}
      <3>1. PICK j \in 1 .. n : u[j] = x
        BY <1>4, <2>1
      <3> QED
        BY <1>3, <1>5, <1>6, <3>1
    <2>2. ASSUME NEW x \in Range(s) \ {s[i + 1]} PROVE x \in Range(u)
      <3>1. PICK j \in 1 .. n : s[j] = x
        BY <1>5, <2>2
      <3> QED
        BY <1>4, <1>6, <2>2, <3>1
    <2>3. v \in Range(u)
      BY <1>3, <1>4, <1>6
    <2> QED
      BY <2>1, <2>2, <2>3
  <1>8. IsInjective(u)
    <2>1. \A j \in 1 .. n : s[j] # v
      BY <1>5
    <2> QED
      BY <1>4, <1>5, <1>6, <2>1
  <1> QED
    BY <1>2, <1>7, <1>8

LEMMA ConcatRange ==
  ASSUME NEW s \in Seq(Item), NEW t \in Seq(Item)
  PROVE  /\ Range(s \o t) = Range(s) \cup Range(t)
         /\ IsInjective(s) /\ IsInjective(t) /\ Range(s) \cap Range(t) = {} => IsInjective(s \o t)
  <1>1. Range(s \o t) = Range(s) \cup Range(t)
    BY RangeConcatenation
  <1>2. PICK n \in Nat, m \in Nat : n = Len(s) /\ m = Len(t)
    BY SeqIs
  <1>3. PICK u \in Seq(Item) : u = s \o t
    BY ConcatProperties
  <1>4. /\ Len(u) = n + m
        /\ \A j \in 1 .. n + m : u[j] = IF j <= n THEN s[j] ELSE t[j - n]
    BY <1>2, <1>3, ConcatJoins DEF Joined
  <1>5. ASSUME IsInjective(s), IsInjective(t), Range(s) \cap Range(t) = {}
        PROVE  IsInjective(u)
    <2>1. /\ \A j, k \in 1 .. n : s[j] = s[k] => j = k
          /\ \A j, k \in 1 .. m : t[j] = t[k] => j = k
          /\ \A j \in 1 .. n, k \in 1 .. m : s[j] # t[k]
      <3>1. /\ \A j, k \in 1 .. n : s[j] = s[k] => j = k
            /\ Range(s) = {s[j] : j \in 1 .. n}
        BY <1>2, <1>5, SeqIs
      <3>2. /\ \A j, k \in 1 .. m : t[j] = t[k] => j = k
            /\ Range(t) = {t[j] : j \in 1 .. m}
        BY <1>2, <1>5, SeqIs
      <3>3. ASSUME NEW j \in 1 .. n, NEW k \in 1 .. m PROVE s[j] # t[k]
        <4>1. s[j] \in Range(s) /\ t[k] \in Range(t)
          BY <3>1, <3>2
        <4> QED
          BY <1>5, <4>1
      <3> QED
        BY <3>1, <3>2, <3>3, Zenon
    <2>2. ASSUME NEW j \in 1 .. n + m, NEW k \in 1 .. n + m, u[j] = u[k]
          PROVE  j = k
      <3>1. \/ j <= n /\ j \in 1 .. n
            \/ ~(j <= n) /\ j - n \in 1 .. m
        OBVIOUS
      <3>2. \/ k <= n /\ k \in 1 .. n
            \/ ~(k <= n) /\ k - n \in 1 .. m
        OBVIOUS
      <3> QED
        BY <1>4, <2>1, <2>2, <3>1, <3>2
    <2> QED
      BY <1>4, <2>2, SeqIs
  <1> QED
    BY <1>1, <1>3, <1>5

-----------------------------------------------------------------------------
(* One sequence changes: it may take items nobody owns and drop its own.   *)
LEMMA OwnedChange ==
  ASSUME NEW D, NEW E, E \subseteq D, NEW V, V = [e \in D |-> V[e]], NEW L, Owned(E, V, L),
         NEW d \in E, NEW t, IsInjective(t), Range(t) \cap (L \ Range(V[d])) = {}
  PROVE  Owned(E, [V EXCEPT ![d] = t], (L \ Range(V[d])) \cup Range(t))
  <1>1. PICK W : W = [V EXCEPT ![d] = t]
    OBVIOUS
  <1>2. W = [e \in D |-> IF e = d THEN t ELSE V[e]]
    BY <1>1
  <1>3. W[d] = t /\ \A e \in E : e # d => W[e] = V[e]
    BY <1>2
  <1>4. \A e \in E : e # d => Range(V[e]) \subseteq L \ Range(V[d])
    BY DEF Owned
  <1>5. \A e \in E : IsInjective(W[e])
    BY <1>3 DEF Owned
  <1>6. \A e, f \in E : e # f => Range(W[e]) \cap Range(W[f]) = {}
    <2>1. ASSUME NEW e \in E, NEW f \in E, e # f
          PROVE  Range(W[e]) \cap Range(W[f]) = {}
      <3>1. CASE e = d
        BY <1>3, <1>4, <2>1, <3>1
      <3>2. CASE f = d
        BY <1>3, <1>4, <2>1, <3>2
      <3>3. CASE e # d /\ f # d
        BY <1>3, <2>1, <3>3 DEF Owned
      <3> QED
        BY <3>1, <3>2, <3>3
    <2> QED
      BY <2>1
  <1>7. (L \ Range(V[d])) \cup Range(t) = UNION {Range(W[e]) : e \in E}
    <2>1. ASSUME NEW x \in L \ Range(V[d]) PROVE x \in UNION {Range(W[e]) : e \in E}
      <3>1. PICK e \in E : x \in Range(V[e])
        BY <2>1 DEF Owned
      <3>2. e # d
        BY <2>1, <3>1
      <3> QED
        BY <1>3, <3>1, <3>2
    <2>2. ASSUME NEW x \in Range(t) PROVE x \in UNION {Range(W[e]) : e \in E}
      BY <1>3, <2>2
    <2>3. ASSUME NEW e \in E, NEW x \in Range(W[e]) PROVE x \in (L \ Range(V[d])) \cup Range(t)
      <3>1. CASE e = d
        BY <1>3, <2>3, <3>1
      <3>2. CASE e # d
        BY <1>3, <1>4, <2>3, <3>2
      <3> QED
        BY <3>1, <3>2
    <2> QED
      BY <2>1, <2>2, <2>3
  <1> QED
    BY <1>1, <1>5, <1>6, <1>7 DEF Owned

(* A handle with an empty sequence comes, or goes. *)
LEMMA OwnedHandle ==
  ASSUME NEW D, NEW E, E \subseteq D, NEW V, V = [e \in D |-> V[e]], NEW L, Owned(E, V, L),
         NEW d \in D
  PROVE  /\ d \notin E => Owned(E \cup {d}, [V EXCEPT ![d] = <<>>], L)
         /\ d \in E => Owned(E \ {d}, [V EXCEPT ![d] = <<>>], L \ Range(V[d]))
  <1>1. PICK W : W = [V EXCEPT ![d] = <<>>]
    OBVIOUS
  <1>2. W = [e \in D |-> IF e = d THEN <<>> ELSE V[e]]
    BY <1>1
  <1>3. W[d] = <<>> /\ \A e \in E : e # d => W[e] = V[e]
    BY <1>2
  <1>4. Range(W[d]) = {} /\ IsInjective(W[d])
    BY <1>3, EmptyRange
  <1>5. ASSUME d \notin E
        PROVE  Owned(E \cup {d}, W, L)
    <2>1. \A e \in E : W[e] = V[e]
      BY <1>3, <1>5
    <2>2. L = UNION {Range(W[e]) : e \in E \cup {d}}
      <3>1. L = UNION {Range(W[e]) : e \in E}
        BY <2>1 DEF Owned
      <3> QED
        BY <1>4, <3>1
    <2>3. \A e \in E \cup {d} : IsInjective(W[e])
      BY <1>4, <2>1 DEF Owned
    <2>4. \A e, f \in E \cup {d} : e # f => Range(W[e]) \cap Range(W[f]) = {}
      BY <1>4, <2>1 DEF Owned
    <2> QED
      BY <2>2, <2>3, <2>4 DEF Owned
  <1>6. ASSUME d \in E
        PROVE  Owned(E \ {d}, W, L \ Range(V[d]))
    <2>1. \A e \in E \ {d} : W[e] = V[e]
      BY <1>3
    <2>2. L \ Range(V[d]) = UNION {Range(W[e]) : e \in E \ {d}}
      <3>1. ASSUME NEW x \in L \ Range(V[d]) PROVE x \in UNION {Range(W[e]) : e \in E \ {d}}
        <4>1. PICK e \in E : x \in Range(V[e])
          BY <3>1 DEF Owned
        <4>2. e \in E \ {d}
          BY <3>1, <4>1
        <4> QED
          BY <2>1, <4>1, <4>2
      <3>2. ASSUME NEW e \in E \ {d}, NEW x \in Range(W[e]) PROVE x \in L \ Range(V[d])
        BY <1>6, <2>1, <3>2 DEF Owned
      <3> QED
        BY <3>1, <3>2
    <2>3. \A e \in E \ {d} : IsInjective(W[e])
      BY <2>1 DEF Owned
    <2>4. \A e, f \in E \ {d} : e # f => Range(W[e]) \cap Range(W[f]) = {}
      BY <2>1 DEF Owned
    <2> QED
      BY <2>2, <2>3, <2>4 DEF Owned
  <1> QED
    BY <1>1, <1>5, <1>6

(* Items move between two sequences. *)
LEMMA OwnedMove ==
  ASSUME NEW D, NEW E, E \subseteq D, NEW V, V = [e \in D |-> V[e]], NEW L, Owned(E, V, L),
         NEW a \in E, NEW b \in E, NEW s, NEW t,
         NEW W, W = [e \in D |-> IF e = b THEN t ELSE IF e = a THEN s ELSE V[e]],
         a = b => t = V[a],
         a # b => /\ IsInjective(s) /\ IsInjective(t) /\ Range(s) \cap Range(t) = {}
                  /\ Range(s) \cup Range(t) = Range(V[a]) \cup Range(V[b])
  PROVE  Owned(E, W, L)
  <1>1. CASE a = b
    <2>1. \A e \in E : W[e] = V[e]
      BY <1>1
    <2>2. L = UNION {Range(W[e]) : e \in E}
      BY <2>1 DEF Owned
    <2> QED
      BY <2>1, <2>2 DEF Owned
  <1>2. CASE a # b
    <2>1. W[a] = s /\ W[b] = t /\ \A e \in E : e # a /\ e # b => W[e] = V[e]
      BY <1>2
    <2>2. \A e \in E : e # a /\ e # b => Range(V[e]) \cap (Range(s) \cup Range(t)) = {}
      BY <1>2 DEF Owned
    <2>3. \A e \in E : IsInjective(W[e])
      BY <1>2, <2>1 DEF Owned
    <2>4. ASSUME NEW e \in E, NEW f \in E, e # f
          PROVE  Range(W[e]) \cap Range(W[f]) = {}
      <3>1. CASE e # a /\ e # b
        <4>1. CASE f # a /\ f # b
          BY <2>1, <2>4, <3>1, <4>1 DEF Owned
        <4>2. CASE f = a \/ f = b
          BY <2>1, <2>2, <3>1, <4>2
        <4> QED
          BY <4>1, <4>2
      <3>2. CASE (e = a \/ e = b) /\ f # a /\ f # b
        BY <2>1, <2>2, <3>2
      <3>3. CASE (e = a \/ e = b) /\ (f = a \/ f = b)
        BY <1>2, <2>1, <2>4, <3>3
      <3> QED
        BY <3>1, <3>2, <3>3
    <2>5. L = UNION {Range(W[e]) : e \in E}
      <3>1. ASSUME NEW x \in L PROVE x \in UNION {Range(W[e]) : e \in E}
        <4>1. PICK e \in E : x \in Range(V[e])
          BY <3>1 DEF Owned
        <4>2. CASE e = a \/ e = b
          <5>1. x \in Range(W[a]) \/ x \in Range(W[b])
            BY <1>2, <2>1, <4>1, <4>2
          <5> QED
            BY <5>1
        <4>3. CASE e # a /\ e # b
          BY <2>1, <4>1, <4>3
        <4> QED
          BY <4>2, <4>3
      <3>2. ASSUME NEW e \in E, NEW x \in Range(W[e]) PROVE x \in L
        <4>1. \A g \in E : Range(V[g]) \subseteq L
          BY DEF Owned
        <4>2. CASE e = a \/ e = b
          <5>1. x \in Range(V[a]) \/ x \in Range(V[b])
            BY <1>2, <2>1, <3>2, <4>2
          <5> QED
            BY <4>1, <5>1
        <4>3. CASE e # a /\ e # b
          BY <2>1, <3>2, <4>1, <4>3
        <4> QED
          BY <4>2, <4>3
      <3> QED
        BY <3>1, <3>2
    <2> QED
      BY <2>3, <2>4, <2>5 DEF Owned
  <1> QED
    BY <1>1, <1>2

-----------------------------------------------------------------------------
(* Every call keeps ownership: the sequence changes as promised, and dfree *)
(* is given exactly the items that leave it.                               *)
Owns == ~fault /\ Owned(exists, Value, live)

LEMMA OwnsIs == ASSUME Inv PROVE OwnershipInv <=> (HasDfree => Owns)
  <1>1. /\ \A d \in exists : Value[d] = Contents(arr[d])
        /\ {Range(Value[d]) : d \in exists} = {Range(Contents(arr[d])) : d \in exists}
    BY DEF Inv, Value
  <1> QED
    BY <1>1 DEF OwnershipInv, Owns, Owned

LEMMA RefusedOwns ==
  ASSUME Owns, OutOfMemory
  PROVE  Owns'
  <1>1. exists' = exists /\ live' = live /\ fault' = fault /\ Value' = Value
    BY DEF OutOfMemory, Value
  <1> QED
    BY <1>1 DEF Owns, Owned

LEMMA DfreeOwned ==
  ASSUME HasDfree, Owns, NEW s, IsInjective(s), Range(s) \subseteq live, Dfree(s)
  PROVE  ~fault' /\ live' = live \ Range(s)
  BY Zenon DEF Dfree, Owns

(* What is known of the handle a call is about.                            *)
LEMMA Owner ==
  ASSUME Inv, Owns, NEW d \in exists
  PROVE  /\ d \in Handle /\ Value = [e \in Handle |-> Value[e]] /\ exists \subseteq Handle
         /\ Value[d] = Contents(arr[d]) /\ Value[d] \in Seq(Item) /\ Len(Value[d]) = arr[d].size
         /\ IsInjective(Value[d]) /\ Range(Value[d]) \subseteq live
  <1>1. d \in Handle /\ exists \subseteq Handle
    BY DEF Inv
  <1>2. Value = [e \in Handle |-> Value[e]]
    BY DEF Value
  <1>3. IsInjective(Value[d]) /\ Range(Value[d]) \subseteq live
    BY DEF Owns, Owned
  <1> QED
    BY <1>1, <1>2, <1>3, ValueType

LEMMA ChangeOwns ==
  ASSUME Inv, Owns, NEW d \in exists, NEW t, Promise!Becomes(d, t), IsInjective(t),
         Range(t) \cap (live \ Range(Value[d])) = {},
         ~fault', live' = (live \ Range(Value[d])) \cup Range(t)
  PROVE  Owns'
  <1>1. Value' = [Value EXCEPT ![d] = t] /\ exists' = exists
    BY DEF Promise!Becomes, Value
  <1>2. Owned(exists, [Value EXCEPT ![d] = t], (live \ Range(Value[d])) \cup Range(t))
    <2>1. Owned(exists, Value, live)
      BY DEF Owns
    <2> QED
      BY <2>1, Owner, OwnedChange
  <1> QED
    BY <1>1, <1>2 DEF Owns

LEMMA CtorOwns ==
  ASSUME Inv, HasDfree, Owns, NEW d \in Handle, Ctor(d)
  PROVE  Owns'
  <1>1. CASE OutOfMemory
    BY <1>1, RefusedOwns
  <1>2. CASE ~OutOfMemory
    <2>1. /\ d \notin exists /\ exists' = exists \cup {d} /\ arr' = [arr EXCEPT ![d] = NewArray]
          /\ live' = live /\ fault' = fault
      BY <1>2 DEF Ctor, Kept
    <2>2. Value' = [Value EXCEPT ![d] = <<>>]
      BY <2>1, NewArrayGood, ArrUpdate
    <2>3. Value = [e \in Handle |-> Value[e]] /\ exists \subseteq Handle
      BY DEF Inv, Value
    <2>4. Owned(exists \cup {d}, [Value EXCEPT ![d] = <<>>], live)
      BY <2>1, <2>3, OwnedHandle DEF Owns
    <2> QED
      BY <2>1, <2>2, <2>4 DEF Owns
  <1> QED
    BY <1>1, <1>2

LEMMA DtorOwns ==
  ASSUME Inv, HasDfree, Owns, NEW d \in Handle, Dtor(d)
  PROVE  Owns'
  <1>1. /\ d \in exists /\ exists' = exists \ {d} /\ arr' = [arr EXCEPT ![d] = NewArray]
        /\ Dfree(Contents(arr[d]))
    BY DEF Dtor
  <1>2. Value' = [Value EXCEPT ![d] = <<>>]
    BY <1>1, NewArrayGood, ArrUpdate
  <1>3. /\ Value = [e \in Handle |-> Value[e]] /\ exists \subseteq Handle
        /\ Value[d] = Contents(arr[d]) /\ IsInjective(Value[d]) /\ Range(Value[d]) \subseteq live
    BY <1>1, Owner
  <1>4. ~fault' /\ live' = live \ Range(Value[d])
    BY <1>1, <1>3, DfreeOwned
  <1>5. Owned(exists \ {d}, [Value EXCEPT ![d] = <<>>], live \ Range(Value[d]))
    BY <1>1, <1>3, OwnedHandle DEF Owns
  <1> QED
    BY <1>1, <1>2, <1>4, <1>5 DEF Owns

LEMMA ClearOwns ==
  ASSUME Inv, HasDfree, Owns, NEW d \in Handle, Clear(d)
  PROVE  Owns'
  <1>1. call' = <<"clear", d>> /\ d \in exists /\ Dfree(Contents(arr[d]))
    BY DEF Clear
  <1>2. Promise!Becomes(d, <<>>)
    <2>1. Promise!Clear(d)
      BY <1>1, ClearStep, AnswersAre
    <2> QED
      BY <2>1 DEF Promise!Clear
  <1>3. Value[d] = Contents(arr[d]) /\ IsInjective(Value[d]) /\ Range(Value[d]) \subseteq live
    BY <1>1, Owner
  <1>4. ~fault' /\ live' = live \ Range(Value[d])
    BY <1>1, <1>3, DfreeOwned
  <1> QED
    BY <1>1, <1>2, <1>4, EmptyRange, ChangeOwns

LEMMA RoomOwns ==
  ASSUME Inv, HasDfree, Owns, NEW d \in Handle, d \in exists, NEW c \in Nat,
         \/ \E r \in WithCapacity(arr[d], c) \cup {arr[d]} : Update(d, r) /\ Kept
         \/ OutOfMemory
  PROVE  Owns'
  <1>1. CASE OutOfMemory
    BY <1>1, RefusedOwns
  <1>2. CASE ~OutOfMemory
    <2>1. PICK r \in WithCapacity(arr[d], c) \cup {arr[d]} : Update(d, r) /\ Kept
      BY <1>2
    <2>2. Good(r) /\ Contents(r) = Value[d]
      BY ValueType, WithCapacityGood
    <2>3. arr' = [arr EXCEPT ![d] = r] /\ exists' = exists /\ live' = live /\ fault' = fault
      BY <2>1 DEF Update, Kept
    <2>4. Value' = [Value EXCEPT ![d] = Value[d]]
      BY <2>2, <2>3, ArrUpdate
    <2>5. Value' = Value
      BY <2>4 DEF Value
    <2> QED
      BY <2>3, <2>5 DEF Owns, Owned
  <1> QED
    BY <1>1, <1>2

LEMMA ReserveOwns ==
  ASSUME Inv, HasDfree, Owns, NEW d \in Handle, NEW c \in Nat, Reserve(d, c)
  PROVE  Owns'
  <1>1. /\ d \in exists
        /\ \/ \E r \in WithCapacity(arr[d], c) \cup {arr[d]} : Update(d, r) /\ Kept
           \/ OutOfMemory
    BY DEF Reserve
  <1> QED
    BY <1>1, RoomOwns

LEMMA ShrinkToFitOwns ==
  ASSUME Inv, HasDfree, Owns, NEW d \in Handle, ShrinkToFit(d)
  PROVE  Owns'
  <1>1. /\ d \in exists
        /\ \/ \E r \in WithCapacity(arr[d], arr[d].size) \cup {arr[d]} : Update(d, r) /\ Kept
           \/ OutOfMemory
    BY DEF ShrinkToFit
  <1>2. arr[d].size \in Nat
    BY ValueType, GoodParts
  <1> QED
    BY <1>1, <1>2, RoomOwns

LEMMA InsertOwns ==
  ASSUME Inv, HasDfree, Owns, NEW d \in Handle, NEW i, NEW v \in Item, Insert(d, i, v)
  PROVE  Owns'
  <1>1. CASE OutOfMemory
    BY <1>1, RefusedOwns
  <1>2. CASE ~OutOfMemory
    <2>1. /\ call' = <<"insert", d, i, v>> /\ d \in exists /\ i \in 0 .. arr[d].size
          /\ v \notin live /\ ret' = "OK" /\ live' = live \cup Range(<<v>>) /\ fault' = fault
      BY <1>2 DEF Insert, Update, Handed, Storable
    <2>2. Promise!Becomes(d, InsertAt(Value[d], i + 1, v))
      <3>1. Promise!Insert(d, i, v)
        BY <2>1, InsertStep, AnswersAre
      <3>2. Promise!Becomes(d, SubSeq(Value[d], 1, i) \o <<v>> \o SubSeq(Value[d], i + 1, Len(Value[d])))
        BY <2>1, <3>1 DEF Promise!Insert, Promise!OutOfMemory, Value
      <3> QED
        <4>1. InsertAt(Value[d], i + 1, v) = SubSeq(Value[d], 1, i) \o <<v>> \o SubSeq(Value[d], i + 1, Len(Value[d]))
          <5>1. i \in Int
            BY <2>1
          <5> QED
            BY <5>1, SequenceOperators, Zenon
        <4> QED
          BY <3>2, <4>1 DEF Promise!Becomes
    <2>3. /\ Value[d] \in Seq(Item) /\ i \in 0 .. Len(Value[d])
          /\ IsInjective(Value[d]) /\ Range(Value[d]) \subseteq live
      BY <2>1, Owner
    <2>4. /\ Range(InsertAt(Value[d], i + 1, v)) = Range(Value[d]) \cup {v}
          /\ IsInjective(InsertAt(Value[d], i + 1, v))
      BY <2>1, <2>3, InsertAtRange
    <2>5. Range(<<v>>) = {v}
      BY SingleRange
    <2>6. /\ Range(InsertAt(Value[d], i + 1, v)) \cap (live \ Range(Value[d])) = {}
          /\ live' = (live \ Range(Value[d])) \cup Range(InsertAt(Value[d], i + 1, v))
          /\ ~fault'
      BY <2>1, <2>3, <2>4, <2>5 DEF Owns
    <2> QED
      BY <2>1, <2>2, <2>4, <2>6, ChangeOwns
  <1> QED
    BY <1>1, <1>2

LEMMA EraseOwns ==
  ASSUME Inv, HasDfree, Owns, NEW d \in Handle, NEW i, Erase(d, i)
  PROVE  Owns'
  <1>1. /\ call' = <<"erase", d, i>> /\ d \in exists /\ i \in 0 .. arr[d].size - 1
        /\ Dfree(<<Read(arr[d].buffer, i)>>)
    BY DEF Erase
  <1>2. Promise!Becomes(d, RemoveAt(Value[d], i + 1))
    <2>1. Promise!Erase(d, i)
      BY <1>1, EraseStep, AnswersAre
    <2>2. Promise!Becomes(d, SubSeq(Value[d], 1, i) \o SubSeq(Value[d], i + 2, Len(Value[d])))
      BY <2>1 DEF Promise!Erase, Value
    <2> QED
      <3>1. RemoveAt(Value[d], i + 1) = SubSeq(Value[d], 1, i) \o SubSeq(Value[d], i + 2, Len(Value[d]))
        <4>1. i \in Int
          BY <1>1
        <4> QED
          BY <4>1, SequenceOperators, Zenon
      <3> QED
        BY <2>2, <3>1 DEF Promise!Becomes
  <1>3. /\ Value[d] = Contents(arr[d]) /\ Value[d] \in Seq(Item) /\ i \in 0 .. Len(Value[d]) - 1
        /\ IsInjective(Value[d]) /\ Range(Value[d]) \subseteq live
        /\ arr[d].size \in Nat
    BY <1>1, Owner, ValueType, GoodParts
  <1>4. PICK x : x = Value[d][i + 1]
    OBVIOUS
  <1>5. x = Read(arr[d].buffer, i)
    <2>1. i + 1 \in 1 .. arr[d].size /\ (i + 1) - 1 = i
      <3>1. PICK n \in Nat : n = arr[d].size
        BY <1>3
      <3>2. i \in 0 .. n - 1
        BY <1>1, <3>1
      <3> QED
        BY <3>1, <3>2
    <2> QED
      BY <1>3, <1>4, <2>1 DEF Contents
  <1>6. /\ Range(RemoveAt(Value[d], i + 1)) = Range(Value[d]) \ {x}
        /\ IsInjective(RemoveAt(Value[d], i + 1))
        /\ x \in Range(Value[d])
    BY <1>3, <1>4, RemoveAtRange
  <1>7. Range(<<x>>) = {x} /\ IsInjective(<<x>>)
    BY <1>3, <1>6, SeqIs, SingleRange
  <1>8. ~fault' /\ live' = live \ {x}
    <2>1. Dfree(<<x>>) /\ Range(<<x>>) \subseteq live
      BY <1>1, <1>3, <1>5, <1>6, <1>7
    <2> QED
      BY <1>7, <2>1, DfreeOwned
  <1>9. /\ Range(RemoveAt(Value[d], i + 1)) \cap (live \ Range(Value[d])) = {}
        /\ live' = (live \ Range(Value[d])) \cup Range(RemoveAt(Value[d], i + 1))
    BY <1>3, <1>6, <1>8
  <1> QED
    BY <1>1, <1>2, <1>6, <1>8, <1>9, ChangeOwns

LEMMA SetOwns ==
  ASSUME Inv, HasDfree, Owns, NEW d \in Handle, NEW i, NEW v \in Item, Set(d, i, v)
  PROVE  Owns'
  <1>1. /\ call' = <<"set", d, i, v>> /\ d \in exists /\ i \in 0 .. arr[d].size - 1
        /\ v \notin live /\ fault' = fault
        /\ live' = (live \ {Read(arr[d].buffer, i)}) \cup {v}
    BY DEF Set, Storable
  <1>2. Promise!Becomes(d, ReplaceAt(Value[d], i + 1, v))
    <2>1. Promise!Set(d, i, v)
      BY <1>1, SetStep, AnswersAre
    <2>2. Promise!Becomes(d, [Value[d] EXCEPT ![i + 1] = v])
      BY <2>1 DEF Promise!Set, Value
    <2> QED
      BY <2>2 DEF Promise!Becomes, ReplaceAt
  <1>3. /\ Value[d] = Contents(arr[d]) /\ Value[d] \in Seq(Item) /\ i \in 0 .. Len(Value[d]) - 1
        /\ IsInjective(Value[d]) /\ Range(Value[d]) \subseteq live
        /\ arr[d].size \in Nat
    BY <1>1, Owner, ValueType, GoodParts
  <1>4. PICK x : x = Value[d][i + 1]
    OBVIOUS
  <1>5. x = Read(arr[d].buffer, i)
    <2>1. i + 1 \in 1 .. arr[d].size /\ (i + 1) - 1 = i
      <3>1. PICK n \in Nat : n = arr[d].size
        BY <1>3
      <3>2. i \in 0 .. n - 1
        BY <1>1, <3>1
      <3> QED
        BY <3>1, <3>2
    <2> QED
      BY <1>3, <1>4, <2>1 DEF Contents
  <1>6. /\ Range(ReplaceAt(Value[d], i + 1, v)) = (Range(Value[d]) \ {x}) \cup {v}
        /\ IsInjective(ReplaceAt(Value[d], i + 1, v))
        /\ x \in Range(Value[d])
    BY <1>1, <1>3, <1>4, ReplaceAtRange, RemoveAtRange
  <1>7. /\ Range(ReplaceAt(Value[d], i + 1, v)) \cap (live \ Range(Value[d])) = {}
        /\ live' = (live \ Range(Value[d])) \cup Range(ReplaceAt(Value[d], i + 1, v))
        /\ ~fault'
    BY <1>1, <1>3, <1>5, <1>6 DEF Owns
  <1> QED
    BY <1>1, <1>2, <1>6, <1>7, ChangeOwns

LEMMA AppendAllOwns ==
  ASSUME Inv, HasDfree, Owns, NEW d \in Handle, NEW s \in Blocks, AppendAll(d, s)
  PROVE  Owns'
  <1>1. CASE OutOfMemory
    BY <1>1, RefusedOwns
  <1>2. CASE ~OutOfMemory
    <2>1. /\ call' = <<"append", d, s>> /\ d \in exists /\ ret' = "OK"
          /\ live' = live \cup Range(s) /\ fault' = fault
          /\ \A j \in 1 .. Len(s) : s[j] \notin live
      BY <1>2 DEF AppendAll, Update, Handed, Storable
    <2>2. Promise!Becomes(d, Value[d] \o s)
      <3>1. Promise!AppendAll(d, s)
        BY <2>1, AppendAllStep, AnswersAre
      <3> QED
        BY <2>1, <3>1 DEF Promise!AppendAll, Promise!OutOfMemory, Value
    <2>3. Value[d] \in Seq(Item) /\ IsInjective(Value[d]) /\ Range(Value[d]) \subseteq live
      BY <2>1, Owner
    <2>4. s \in Seq(Item) /\ IsInjective(s)
      BY BlocksAssumption
    <2>5. Range(s) \cap live = {}
      BY <2>1, <2>4, SeqIs
    <2>6. Range(Value[d] \o s) = Range(Value[d]) \cup Range(s) /\ IsInjective(Value[d] \o s)
      BY <2>3, <2>4, <2>5, ConcatRange
    <2>7. /\ Range(Value[d] \o s) \cap (live \ Range(Value[d])) = {}
          /\ live' = (live \ Range(Value[d])) \cup Range(Value[d] \o s)
          /\ ~fault'
      BY <2>1, <2>3, <2>5, <2>6 DEF Owns
    <2> QED
      BY <2>1, <2>2, <2>6, <2>7, ChangeOwns
  <1> QED
    BY <1>1, <1>2

LEMMA AppendMoveOwns ==
  ASSUME Inv, HasDfree, Owns, NEW a \in Handle, NEW b \in Handle, AppendMove(a, b)
  PROVE  Owns'
  <1>1. CASE OutOfMemory
    BY <1>1, RefusedOwns
  <1>2. CASE ~OutOfMemory
    <2>1. /\ call' = <<"append_move", a, b>> /\ a \in exists /\ b \in exists /\ a # b
          /\ ret' = "OK" /\ exists' = exists /\ live' = live /\ fault' = fault
      BY <1>2 DEF AppendMove, Kept
    <2>2. Value' = [e \in Handle |-> IF e = b THEN <<>> ELSE IF e = a THEN Value[a] \o Value[b] ELSE Value[e]]
      <3>1. Promise!AppendMove(a, b)
        BY <2>1, AppendMoveStep, AnswersAre
      <3>2. Value' = [Value EXCEPT ![a] = Value[a] \o Value[b], ![b] = <<>>]
        BY <2>1, <3>1 DEF Promise!AppendMove, Promise!OutOfMemory, Value
      <3> QED
        BY <3>2 DEF Value
    <2>3. /\ Value[a] \in Seq(Item) /\ IsInjective(Value[a])
          /\ Value[b] \in Seq(Item) /\ IsInjective(Value[b])
          /\ Value = [e \in Handle |-> Value[e]] /\ exists \subseteq Handle
      BY <2>1, Owner
    <2>4. Range(Value[a]) \cap Range(Value[b]) = {} /\ Owned(exists, Value, live)
      BY <2>1 DEF Owns, Owned
    <2>5. /\ Range(Value[a] \o Value[b]) = Range(Value[a]) \cup Range(Value[b])
          /\ IsInjective(Value[a] \o Value[b])
      BY <2>3, <2>4, ConcatRange
    <2>6. PICK t : t = <<>>
      OBVIOUS
    <2>7. Range(t) = {} /\ IsInjective(t)
      BY <2>6, EmptyRange
    <2>8. PICK s : s = Value[a] \o Value[b]
      OBVIOUS
    <2>9. /\ IsInjective(s) /\ IsInjective(t) /\ Range(s) \cap Range(t) = {}
          /\ Range(s) \cup Range(t) = Range(Value[a]) \cup Range(Value[b])
      BY <2>5, <2>7, <2>8
    <2>10. PICK W : W = [e \in Handle |-> IF e = b THEN t ELSE IF e = a THEN s ELSE Value[e]]
      OBVIOUS
    <2>11. Owned(exists, W, live)
      BY <2>1, <2>3, <2>4, <2>9, <2>10, OwnedMove
    <2>12. Value' = W
      BY <2>2, <2>6, <2>8, <2>10
    <2> QED
      BY <2>1, <2>11, <2>12 DEF Owns
  <1> QED
    BY <1>1, <1>2

LEMMA SwapOwns ==
  ASSUME Inv, HasDfree, Owns, NEW a \in Handle, NEW b \in Handle, Swap(a, b)
  PROVE  Owns'
  <1>1. /\ a \in exists /\ b \in exists
        /\ arr' = [arr EXCEPT ![a] = arr[b], ![b] = arr[a]]
        /\ exists' = exists /\ live' = live /\ fault' = fault
    BY DEF Swap, Kept
  <1>2. arr' = [e \in Handle |-> IF e = b THEN arr[a] ELSE IF e = a THEN arr[b] ELSE arr[e]]
    BY <1>1 DEF Inv
  <1>3. PICK W : W = [e \in Handle |-> IF e = b THEN Value[a] ELSE IF e = a THEN Value[b] ELSE Value[e]]
    OBVIOUS
  <1>4. Value' = W
    BY <1>2, <1>3 DEF Value
  <1>5. /\ Value = [e \in Handle |-> Value[e]] /\ exists \subseteq Handle
        /\ IsInjective(Value[a]) /\ IsInjective(Value[b])
    BY <1>1, Owner
  <1>6. Owned(exists, Value, live) /\ (a # b => Range(Value[b]) \cap Range(Value[a]) = {})
    BY <1>1 DEF Owns, Owned
  <1>7. Owned(exists, W, live)
    BY <1>1, <1>3, <1>5, <1>6, OwnedMove
  <1> QED
    BY <1>1, <1>4, <1>7 DEF Owns

LEMMA NextOwns ==
  ASSUME Inv, HasDfree, Owns, [Next]_vars
  PROVE  Owns'
  <1>1. ASSUME NEW d \in Handle, Ctor(d) \/ Dtor(d) \/ Clear(d) \/ ShrinkToFit(d)
        PROVE  Owns'
    BY <1>1, CtorOwns, DtorOwns, ClearOwns, ShrinkToFitOwns
  <1>2. ASSUME NEW d \in Handle, NEW v \in Item, NEW i \in 0 .. arr[d].size, Insert(d, i, v)
        PROVE  Owns'
    BY <1>2, InsertOwns
  <1>3. ASSUME NEW d \in Handle, NEW i \in 0 .. arr[d].size - 1, Erase(d, i)
        PROVE  Owns'
    BY <1>3, EraseOwns
  <1>4. ASSUME NEW d \in Handle, NEW v \in Item, NEW i \in 0 .. arr[d].size - 1, Set(d, i, v)
        PROVE  Owns'
    BY <1>4, SetOwns
  <1>5. ASSUME NEW d \in Handle, NEW c \in {MinCapacity, MinCapacity + 1}, Reserve(d, c)
        PROVE  Owns'
    BY <1>5, ReserveOwns, CapacityAssumption
  <1>6. ASSUME NEW d \in Handle, NEW s \in Blocks, AppendAll(d, s)
        PROVE  Owns'
    BY <1>6, AppendAllOwns
  <1>7. ASSUME NEW a \in Handle, NEW b \in Handle, Swap(a, b) \/ AppendMove(a, b)
        PROVE  Owns'
    BY <1>7, SwapOwns, AppendMoveOwns
  <1>8. CASE UNCHANGED vars
    <2>1. exists' = exists /\ live' = live /\ fault' = fault /\ Value' = Value
      BY <1>8 DEF vars, Value
    <2> QED
      BY <2>1 DEF Owns
  <1> QED
    BY <1>1, <1>2, <1>3, <1>4, <1>5, <1>6, <1>7, <1>8, Zenon DEF Next

LEMMA InitOwns == Init => Owns
  BY DEF Init, Owns, Owned

(* With a dfree, every live item is in exactly one array, once, and dfree  *)
(* is given live items only, whatever was appended, moved, swapped or      *)
(* refused.                                                                *)
THEOREM OwnershipCorrect == Spec => []OwnershipInv
  <1>1. Inv /\ [Next]_vars => Inv'
    BY NextStep, StutterInv
  <1>2. Inv /\ (HasDfree => Owns) /\ [Next]_vars => (HasDfree => Owns)'
    BY NextOwns
  <1>3. Init => Inv /\ (HasDfree => Owns)
    BY InitInv, InitOwns
  <1>4. Inv /\ (HasDfree => Owns) => OwnershipInv
    BY OwnsIs
  <1> QED
    BY <1>1, <1>2, <1>3, <1>4, PTL DEF Spec
=============================================================================
