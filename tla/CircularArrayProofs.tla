------------------------ MODULE CircularArrayProofs -------------------------
(***************************************************************************)
(* Proofs about CircularArray, for every set of handles and items and      *)
(* every capacity: no call writes outside of the ring, head, tail and size *)
(* stay consistent, no slot counted as an item was never written, and      *)
(* every call does to the sequence what the sequence table promises,       *)
(* wherever the ring starts and wraps.                                     *)
(***************************************************************************)
EXTENDS CircularArray, Foundations

-----------------------------------------------------------------------------
(* Lemmas on the operators. *)

(* Masking an index that wraps at most once. *)
LEMMA MaskBelow == ASSUME NEW c \in Nat, NEW x \in 0 .. c - 1 PROVE x % c = x
  BY SMT

LEMMA MaskAbove ==
  ASSUME NEW c \in Nat, NEW x \in c .. 2 * c - 1 PROVE x % c = x - c
  BY SMT

(* The physical slot of the item at index i.                               *)
LEMMA SlotOfIndex ==
  ASSUME NEW n \in Nat, NEW h \in 0 .. n - 1, NEW i \in 0 .. n - 1
  PROVE  /\ (h + i) % n \in 0 .. n - 1
         /\ h + i < n => (h + i) % n = h + i
         /\ h + i >= n => (h + i) % n = h + i - n
  BY SMT

(* One slot further, and one slot back, around the ring.                   *)
LEMMA NextSlot ==
  ASSUME NEW c \in Nat, NEW h \in 0 .. c - 1, NEW i \in 0 .. c - 2
  PROVE  /\ (((h + i) % c) + 1) % c = (h + (i + 1)) % c
         /\ (((h + 1) % c) + i) % c = (h + (i + 1)) % c
  <1>1. CASE h + i + 1 < c
    BY <1>1
  <1>2. CASE h + i + 1 = c
    BY <1>2
  <1>3. CASE h + i + 1 > c
    BY <1>3
  <1> QED
    BY <1>1, <1>2, <1>3

LEMMA PrevSlot ==
  ASSUME NEW c \in Nat, NEW h \in 0 .. c - 1, NEW i \in 0 .. c - 2
  PROVE  /\ (((h + c - 1) % c) + (i + 1)) % c = (h + i) % c
         /\ (((h + (i + 1)) % c) + c - 1) % c = (h + i) % c
  <1>1. CASE h = 0
    BY <1>1
  <1>2. CASE h > 0 /\ h + i < c - 1
    BY <1>2
  <1>3. CASE h > 0 /\ h + i = c - 1
    BY <1>3
  <1>4. CASE h > 0 /\ h + i > c - 1
    BY <1>4
  <1> QED
    BY <1>1, <1>2, <1>3, <1>4

LEMMA StoreType ==
  ASSUME NEW n \in Nat, NEW buf \in [0 .. n - 1 -> Slot], NEW i \in 0 .. n - 1, NEW v \in Slot
  PROVE  Store(buf, i, v) \in [0 .. n - 1 -> Slot]
  BY DEF Store

LEMMA ReadType ==
  ASSUME NEW n \in Nat, NEW buf \in [0 .. n - 1 -> Slot], NEW i
  PROVE  Read(buf, i) \in Slot
  BY DEF Read, Slot

LEMMA StoreReadType ==
  ASSUME NEW n \in Nat, NEW buf \in [0 .. n - 1 -> Slot], NEW i \in 0 .. n - 1, NEW j
  PROVE  Store(buf, i, Read(buf, j)) \in [0 .. n - 1 -> Slot]
  BY ReadType, StoreType

(* A copy that fits its destination keeps the destination's bounds. *)
LEMMA MemcpyType ==
  ASSUME NEW n \in Nat, NEW to \in [0 .. n - 1 -> Slot],
         NEW m \in Nat, NEW from \in [0 .. m - 1 -> Slot],
         NEW dst \in Nat, NEW src \in Nat, NEW k \in Int, dst + k <= n
  PROVE  Memcpy(to, dst, from, src, k) \in [0 .. n - 1 -> Slot]
  <1>1. (0 .. n - 1) \cup dst .. (dst + k - 1) = 0 .. n - 1
    OBVIOUS
  <1>2. \A i : Read(from, i) \in Slot
    BY ReadType
  <1> QED
    BY <1>1, <1>2 DEF Memcpy

LEMMA MemmoveType ==
  ASSUME NEW n \in Nat, NEW buf \in [0 .. n - 1 -> Slot],
         NEW dst \in Nat, NEW src \in Nat, NEW k \in Int, dst + k <= n
  PROVE  Memmove(buf, dst, src, k) \in [0 .. n - 1 -> Slot]
  BY MemcpyType DEF Memmove

LEMMA MallocType ==
  ASSUME NEW n \in Nat
  PROVE  Malloc(n) \in [0 .. n - 1 -> Slot]
  BY DEF Malloc, Slot

-----------------------------------------------------------------------------
(* A well-formed struct: its fields in range and its tail size slots after *)
(* its head.                                                               *)
Ring(r) ==
  /\ \E n \in MinCapacity .. MaxCapacity : r \in Struct(n)
  /\ r.tail = RealIndex(r, r.size)

LEMMA NewArrayRing == Ring(NewArray)
  <1>1. Malloc(MinCapacity) \in [0 .. MinCapacity - 1 -> Slot]
    BY MallocType, MinCapacityAssumption
  <1>2. NewArray \in Struct(MinCapacity)
    BY <1>1, MinCapacityAssumption DEF NewArray, Struct
  <1>3. (0 + 0) % MinCapacity = 0
    BY MinCapacityAssumption
  <1> QED
    BY <1>2, <1>3, MinCapacityAssumption, MaxCapacityAssumption DEF Ring, NewArray, RealIndex

(* A ring whose tail is before its head wraps around the end of the buffer.*)
LEMMA TailCases ==
  ASSUME NEW r, Ring(r)
  PROVE  /\ r.head + r.size < r.capacity => r.tail = r.head + r.size
         /\ r.head + r.size >= r.capacity => r.tail = r.head + r.size - r.capacity
         /\ r.head > r.tail <=> r.head + r.size >= r.capacity
  <1>1. PICK n \in MinCapacity .. MaxCapacity : r \in Struct(n)
    BY DEF Ring
  <1>2. r.head \in 0 .. n - 1 /\ r.size \in 0 .. n - 1 /\ r.capacity = n /\ n \in Nat
    BY <1>1, MinCapacityAssumption, MaxCapacityAssumption DEF Struct
  <1>3. r.tail = (r.head + r.size) % n
    BY <1>2 DEF Ring, RealIndex
  <1>4. /\ r.head + r.size < n => r.tail = r.head + r.size
        /\ r.head + r.size >= n => r.tail = r.head + r.size - n
    BY <1>2, <1>3, SlotOfIndex
  <1> QED
    BY <1>2, <1>4

LEMMA RingFields ==
  ASSUME NEW r, Ring(r)
  PROVE  /\ r.capacity \in MinCapacity .. MaxCapacity
         /\ r.capacity \in Nat /\ r.capacity >= 2
         /\ r \in Struct(r.capacity)
         /\ r.buffer \in [0 .. r.capacity - 1 -> Slot]
         /\ r.head \in 0 .. r.capacity - 1
         /\ r.tail \in 0 .. r.capacity - 1
         /\ r.size \in 0 .. r.capacity - 1
  BY MinCapacityAssumption, MaxCapacityAssumption DEF Ring, Struct

-----------------------------------------------------------------------------
(* Every operator that makes a struct makes a ring of a ring. *)

LEMMA ReallocatedRing ==
  ASSUME NEW r, Ring(r), NEW n \in Nat, n <= MaxCapacity, n >= r.capacity
  PROVE  /\ Ring(Reallocated(r, n))
         /\ Reallocated(r, n).size = r.size
         /\ Reallocated(r, n).capacity = n
  <1> DEFINE q == Reallocated(r, n)
             w == r.capacity - r.head
             front == Memcpy(Malloc(n), 0, r.buffer, r.head, w)
  <1>1. q.head = 0 /\ q.tail = r.size /\ q.size = r.size /\ q.capacity = n
    BY DEF Reallocated
  <1>2. r.size \in 0 .. n - 1 /\ w \in 0 .. n /\ r.tail \in Nat /\ r.head \in Nat
    BY RingFields
  <1>3. q.buffer \in [0 .. n - 1 -> Slot]
    <2>1. Malloc(n) \in [0 .. n - 1 -> Slot]
      BY MallocType
    <2>2. /\ r.capacity \in Nat /\ r.buffer \in [0 .. r.capacity - 1 -> Slot]
          /\ 0 \in Nat /\ r.head \in Nat /\ w \in Nat
          /\ r.tail \in Int /\ r.size \in Int /\ w \in Int
          /\ 0 + w <= n /\ 0 + r.size <= n
      BY RingFields
    <2>3. CASE r.head > r.tail
      <3>1. front \in [0 .. n - 1 -> Slot]
        BY <2>1, <2>2, MemcpyType, Zenon
      <3>2. w + r.tail <= n
        BY <2>2, <2>3, TailCases, RingFields
      <3>3. Memcpy(front, w, r.buffer, 0, r.tail) \in [0 .. n - 1 -> Slot]
        BY <2>2, <3>1, <3>2, MemcpyType, Zenon
      <3> QED
        BY <2>3, <3>3 DEF Reallocated
    <2>4. CASE ~(r.head > r.tail)
      <3>1. Memcpy(Malloc(n), 0, r.buffer, r.head, r.size) \in [0 .. n - 1 -> Slot]
        BY <2>1, <2>2, MemcpyType, Zenon
      <3> QED
        BY <2>4, <3>1 DEF Reallocated
    <2> QED
      BY <2>3, <2>4
  <1>4. n \in MinCapacity .. MaxCapacity
    BY RingFields, MinCapacityAssumption, MaxCapacityAssumption
  <1>5. q \in Struct(n)
    BY <1>1, <1>2, <1>3 DEF Reallocated, Struct
  <1>6. q.tail = RealIndex(q, q.size)
    BY <1>1, <1>2, MaskBelow DEF RealIndex
  <1> QED
    BY <1>1, <1>4, <1>5, <1>6 DEF Ring

(* A struct with room has two free slots. *)
LEMMA WithRoomRing ==
  ASSUME NEW r, Ring(r), NEW q \in WithRoom(r)
  PROVE  /\ Ring(q)
         /\ q.size = r.size
         /\ q.size < q.capacity - 1
  <1>1. CASE ~ShouldGrow(r)
    BY <1>1, RingFields DEF WithRoom, ShouldGrow
  <1>2. CASE ShouldGrow(r)
    <2>1. q = Reallocated(r, 2 * r.capacity) /\ 2 * r.capacity <= MaxCapacity
      BY <1>2 DEF WithRoom
    <2>2. 2 * r.capacity \in Nat /\ 2 * r.capacity >= r.capacity
      BY RingFields
    <2>3. Ring(q) /\ q.size = r.size /\ q.capacity = 2 * r.capacity
      BY <2>1, <2>2, ReallocatedRing
    <2> QED
      BY <1>2, <2>3, RingFields DEF ShouldGrow
  <1> QED
    BY <1>1, <1>2

LEMMA AddedBackRing ==
  ASSUME NEW r, Ring(r), r.size < r.capacity - 1, NEW v \in Item
  PROVE  Ring(AddedBack(r, v))
  <1> DEFINE q == AddedBack(r, v)
             n == r.capacity
  <1>1. Store(r.buffer, r.tail, v) \in [0 .. n - 1 -> Slot]
    BY RingFields, StoreType DEF Slot
  <1>2. (r.tail + 1) % n \in 0 .. n - 1 /\ r.size + 1 \in 0 .. n - 1
    BY RingFields
  <1>3. q \in Struct(n)
    BY <1>1, <1>2, RingFields DEF AddedBack, Struct
  <1>4. /\ q.head = r.head /\ q.capacity = n /\ q.size = r.size + 1
        /\ q.tail = (r.tail + 1) % n
    BY RingFields DEF AddedBack, Struct
  <1>5. (r.tail + 1) % n = (r.head + (r.size + 1)) % n
    <2>1. n \in Nat /\ r.head \in 0 .. n - 1 /\ r.size \in 0 .. n - 2
      BY RingFields
    <2>2. (((r.head + r.size) % n) + 1) % n = (r.head + (r.size + 1)) % n
      BY <2>1, NextSlot
    <2> QED
      BY <2>2 DEF Ring, RealIndex
  <1> QED
    BY <1>3, <1>4, <1>5, RingFields DEF Ring, RealIndex

LEMMA AddedFrontRing ==
  ASSUME NEW r, Ring(r), r.size < r.capacity - 1, NEW v \in Item
  PROVE  Ring(AddedFront(r, v))
  <1> DEFINE q == AddedFront(r, v)
             n == r.capacity
             h == (r.head + n - 1) % n
  <1>1. h \in 0 .. n - 1 /\ r.size + 1 \in 0 .. n - 1
    BY RingFields
  <1>2. Store(r.buffer, h, v) \in [0 .. n - 1 -> Slot]
    BY <1>1, RingFields, StoreType DEF Slot
  <1>3. q \in Struct(n)
    BY <1>1, <1>2, RingFields DEF AddedFront, Struct
  <1>4. /\ q.head = h /\ q.capacity = n /\ q.size = r.size + 1
        /\ q.tail = r.tail
    BY RingFields DEF AddedFront, Struct
  <1>5. r.tail = (h + (r.size + 1)) % n
    <2>1. n \in Nat /\ r.head \in 0 .. n - 1 /\ r.size \in 0 .. n - 2
      BY RingFields
    <2>2. (h + (r.size + 1)) % n = (r.head + r.size) % n
      BY <2>1, PrevSlot
    <2> QED
      BY <2>2 DEF Ring, RealIndex
  <1> QED
    BY <1>3, <1>4, <1>5, RingFields DEF Ring, RealIndex

(* The fields of a ring, by name.                                          *)
Parts(r, n, h, t, s, b) ==
  /\ n \in Nat /\ n >= 2
  /\ h \in 0 .. n - 1 /\ t \in 0 .. n - 1 /\ s \in 0 .. n - 1
  /\ b \in [0 .. n - 1 -> Slot]
  /\ r.buffer = b /\ r.head = h /\ r.tail = t /\ r.size = s /\ r.capacity = n
  /\ h + s < n => t = h + s
  /\ h + s >= n => t = h + s - n

LEMMA RingParts ==
  ASSUME NEW r, Ring(r)
  PROVE  \E n, h, t, s, b : Parts(r, n, h, t, s, b)
  <1>1. Parts(r, r.capacity, r.head, r.tail, r.size, r.buffer)
    BY RingFields, TailCases DEF Parts
  <1> QED
    BY <1>1

(* The buffers insert and erase shuffle keep their bounds: none of the     *)
(* memmove's of the four pictures leaves the buffer.                       *)
LEMMA HeadMovedDownType ==
  ASSUME NEW r, Ring(r), NEW i \in 1 .. r.size - 1, NEW p, p = RealIndex(r, i)
  PROVE  HeadMovedDown(r, p) \in [0 .. r.capacity - 1 -> Slot]
  <1>1. PICK n, h, t, s, b : Parts(r, n, h, t, s, b)
    BY RingParts
  <1>2. /\ n \in Nat /\ n >= 2 /\ b \in [0 .. n - 1 -> Slot]
        /\ h \in 0 .. n - 1 /\ t \in 0 .. n - 1 /\ s \in 0 .. n - 1 /\ i \in 1 .. s - 1
        /\ p = (h + i) % n
    BY <1>1 DEF Parts, RealIndex
  <1>3. p \in 0 .. n - 1 /\ (h + i < n => p = h + i) /\ (h + i >= n => p = h + i - n)
    <2>1. n \in Nat /\ h \in 0 .. n - 1 /\ i \in 0 .. n - 1
      BY <1>2
    <2>2. p = (h + i) % n
      BY <1>2
    <2> QED
      BY <2>1, <2>2, SlotOfIndex
  <1>4. (h < t => h + s = t) /\ (h >= t => h + s = t + n)
    BY <1>1, <1>2 DEF Parts
  <1> DEFINE first == Store(b, n - 1, Read(b, 0))
             folded == Memmove(b, h - 1, h, n - h)
             stored == Store(folded, n - 1, Read(folded, 0))
  <1>5. HeadMovedDown(r, p) =
          CASE h < t /\ h = 0 -> Memmove(first, 0, 1, p - h - 1)
            [] h < t /\ h # 0 -> Memmove(b, h - 1, h, p - h)
            [] h >= t /\ p > h -> Memmove(b, h - 1, h, p - h)
            [] h >= t /\ p <= h -> Memmove(stored, 0, 1, p)
    BY <1>1 DEF Parts, HeadMovedDown
  <1>6. CASE h < t /\ h = 0
    <2>1. first \in [0 .. n - 1 -> Slot]
      BY <1>2, StoreReadType
    <2>2. 0 \in Nat /\ 1 \in Nat /\ p - h - 1 \in Int /\ 0 + (p - h - 1) <= n
      BY <1>2, <1>3
    <2>3. Memmove(first, 0, 1, p - h - 1) \in [0 .. n - 1 -> Slot]
      BY <1>2, <2>1, <2>2, MemmoveType, Zenon
    <2> HIDE DEF first, folded, stored
    <2> QED
      BY <1>1, <1>5, <1>6, <2>3 DEF Parts
  <1>7. CASE (h < t /\ h # 0) \/ (h >= t /\ p > h)
    <2>1. h # 0
      BY <1>2, <1>3, <1>4, <1>7
    <2>2. h - 1 \in Nat /\ h \in Nat /\ p - h \in Int /\ (h - 1) + (p - h) <= n
      BY <1>2, <1>3, <2>1
    <2>3. Memmove(b, h - 1, h, p - h) \in [0 .. n - 1 -> Slot]
      BY <1>2, <2>2, MemmoveType, Zenon
    <2> HIDE DEF first, folded, stored
    <2> QED
      BY <1>1, <1>2, <1>3, <1>5, <1>7, <2>3 DEF Parts
  <1>8. CASE h >= t /\ p <= h
    <2>1. h # 0
      BY <1>2, <1>3, <1>4, <1>8
    <2>2. /\ h - 1 \in Nat /\ h \in Nat /\ n - h \in Int /\ (h - 1) + (n - h) <= n
          /\ 0 \in Nat /\ 1 \in Nat /\ p \in Int /\ 0 + p <= n
      BY <1>2, <1>3, <2>1
    <2>3. folded \in [0 .. n - 1 -> Slot]
      BY <1>2, <2>2, MemmoveType, Zenon
    <2> HIDE DEF folded
    <2>4. stored \in [0 .. n - 1 -> Slot]
      BY <1>2, <2>3, StoreReadType
    <2> HIDE DEF first, stored
    <2>5. Memmove(stored, 0, 1, p) \in [0 .. n - 1 -> Slot]
      BY <1>2, <2>2, <2>4, MemmoveType, Zenon
    <2> QED
      BY <1>1, <1>2, <1>3, <1>5, <1>8, <2>5 DEF Parts
  <1>9. \/ h < t /\ h = 0
        \/ (h < t /\ h # 0) \/ (h >= t /\ p > h)
        \/ h >= t /\ p <= h
    BY <1>2, <1>3
  <1> QED
    BY <1>6, <1>7, <1>8, <1>9

LEMMA TailMovedUpType ==
  ASSUME NEW r, Ring(r), r.size < r.capacity - 1,
         NEW i \in 1 .. r.size - 1, NEW p, p = RealIndex(r, i)
  PROVE  TailMovedUp(r, p) \in [0 .. r.capacity - 1 -> Slot]
  <1>1. PICK n, h, t, s, b : Parts(r, n, h, t, s, b)
    BY RingParts
  <1>2. /\ n \in Nat /\ n >= 2 /\ b \in [0 .. n - 1 -> Slot]
        /\ h \in 0 .. n - 1 /\ t \in 0 .. n - 1 /\ s \in 0 .. n - 1 /\ i \in 1 .. s - 1
        /\ p = (h + i) % n
    BY <1>1 DEF Parts, RealIndex
  <1>3. p \in 0 .. n - 1 /\ (h + i < n => p = h + i) /\ (h + i >= n => p = h + i - n)
    <2>1. n \in Nat /\ h \in 0 .. n - 1 /\ i \in 0 .. n - 1
      BY <1>2
    <2>2. p = (h + i) % n
      BY <1>2
    <2> QED
      BY <2>1, <2>2, SlotOfIndex
  <1>4. (h < t => h + s = t) /\ (h >= t => h + s = t + n)
    BY <1>1, <1>2 DEF Parts
  <1> DEFINE first == IF t + 1 = n THEN Store(b, 0, Read(b, n - 1)) ELSE b
             folded == Memmove(b, 1, 0, t)
             stored == Store(folded, 0, Read(folded, n - 1))
  <1>5. TailMovedUp(r, p) =
          CASE h < t -> Memmove(first, p + 1, p, t - p)
            [] h >= t /\ p < t -> Memmove(b, p + 1, p, t - p)
            [] h >= t /\ p >= t -> Memmove(stored, p + 1, p, n - p - 1)
    BY <1>1 DEF Parts, TailMovedUp
  <1>6. s < n - 1
    BY <1>1 DEF Parts
  <1>7. /\ 1 \in Nat /\ 0 \in Nat /\ t \in Int /\ 1 + t <= n
        /\ p + 1 \in Nat /\ p \in Nat /\ t - p \in Int /\ (p + 1) + (t - p) <= n
        /\ n - p - 1 \in Int /\ (p + 1) + (n - p - 1) <= n
    BY <1>2, <1>3
  <1>8. CASE h < t
    <2>1. first \in [0 .. n - 1 -> Slot]
      BY <1>2, StoreReadType
    <2> HIDE DEF first
    <2>2. Memmove(first, p + 1, p, t - p) \in [0 .. n - 1 -> Slot]
      BY <1>2, <1>7, <2>1, MemmoveType, Zenon
    <2> HIDE DEF folded, stored
    <2> QED
      BY <1>1, <1>2, <1>5, <1>8, <2>2 DEF Parts
  <1>9. CASE h >= t /\ p < t
    <2>1. Memmove(b, p + 1, p, t - p) \in [0 .. n - 1 -> Slot]
      BY <1>2, <1>7, MemmoveType, Zenon
    <2> HIDE DEF first, folded, stored
    <2> QED
      BY <1>1, <1>2, <1>5, <1>9, <2>1 DEF Parts
  <1>10. CASE h >= t /\ p >= t
    <2>1. folded \in [0 .. n - 1 -> Slot]
      BY <1>2, <1>7, MemmoveType, Zenon
    <2> HIDE DEF folded
    <2>2. stored \in [0 .. n - 1 -> Slot]
      BY <1>2, <2>1, StoreReadType
    <2> HIDE DEF first, stored
    <2>3. Memmove(stored, p + 1, p, n - p - 1) \in [0 .. n - 1 -> Slot]
      BY <1>2, <1>7, <2>2, MemmoveType, Zenon
    <2> QED
      BY <1>1, <1>2, <1>3, <1>5, <1>10, <2>3 DEF Parts
  <1>11. h < t \/ (h >= t /\ p < t) \/ (h >= t /\ p >= t)
    BY <1>2, <1>3
  <1> QED
    BY <1>8, <1>9, <1>10, <1>11

LEMMA HeadMovedUpType ==
  ASSUME NEW r, Ring(r), NEW i \in 1 .. r.size - 1, NEW p, p = RealIndex(r, i)
  PROVE  HeadMovedUp(r, p) \in [0 .. r.capacity - 1 -> Slot]
  <1>1. PICK n, h, t, s, b : Parts(r, n, h, t, s, b)
    BY RingParts
  <1>2. /\ n \in Nat /\ n >= 2 /\ b \in [0 .. n - 1 -> Slot]
        /\ h \in 0 .. n - 1 /\ t \in 0 .. n - 1 /\ s \in 0 .. n - 1 /\ i \in 1 .. s - 1
        /\ p = (h + i) % n
    BY <1>1 DEF Parts, RealIndex
  <1>3. p \in 0 .. n - 1 /\ (h + i < n => p = h + i) /\ (h + i >= n => p = h + i - n)
    <2>1. n \in Nat /\ h \in 0 .. n - 1 /\ i \in 0 .. n - 1
      BY <1>2
    <2>2. p = (h + i) % n
      BY <1>2
    <2> QED
      BY <2>1, <2>2, SlotOfIndex
  <1>4. (h < t => h + s = t) /\ (h >= t => h + s = t + n)
    BY <1>1, <1>2 DEF Parts
  <1> DEFINE folded == Memmove(b, 1, 0, p)
             stored == Store(folded, 0, Read(folded, n - 1))
  <1>5. HeadMovedUp(r, p) =
          CASE h < t -> Memmove(b, h + 1, h, p - h)
            [] h >= t /\ p > h -> Memmove(b, h + 1, h, p - h)
            [] h >= t /\ p <= h -> Memmove(stored, h + 1, h, n - 1 - h)
    BY <1>1 DEF Parts, HeadMovedUp
  <1>6. /\ 1 \in Nat /\ 0 \in Nat /\ p \in Int /\ 1 + p <= n
        /\ h + 1 \in Nat /\ h \in Nat /\ p - h \in Int /\ (h + 1) + (p - h) <= n
        /\ n - 1 - h \in Int /\ (h + 1) + (n - 1 - h) <= n
    BY <1>2, <1>3
  <1>7. CASE h < t \/ (h >= t /\ p > h)
    <2>1. Memmove(b, h + 1, h, p - h) \in [0 .. n - 1 -> Slot]
      BY <1>2, <1>6, MemmoveType, Zenon
    <2> HIDE DEF folded, stored
    <2> QED
      BY <1>1, <1>2, <1>3, <1>5, <1>7, <2>1 DEF Parts
  <1>8. CASE h >= t /\ p <= h
    <2>1. folded \in [0 .. n - 1 -> Slot]
      BY <1>2, <1>6, MemmoveType, Zenon
    <2> HIDE DEF folded
    <2>2. stored \in [0 .. n - 1 -> Slot]
      BY <1>2, <2>1, StoreReadType
    <2> HIDE DEF stored
    <2>3. Memmove(stored, h + 1, h, n - 1 - h) \in [0 .. n - 1 -> Slot]
      BY <1>2, <1>6, <2>2, MemmoveType, Zenon
    <2> QED
      BY <1>1, <1>2, <1>3, <1>5, <1>8, <2>3 DEF Parts
  <1>9. (h < t \/ (h >= t /\ p > h)) \/ (h >= t /\ p <= h)
    BY <1>2, <1>3
  <1> QED
    BY <1>7, <1>8, <1>9

LEMMA TailMovedDownType ==
  ASSUME NEW r, Ring(r), NEW i \in 1 .. r.size - 1, NEW p, p = RealIndex(r, i)
  PROVE  TailMovedDown(r, p) \in [0 .. r.capacity - 1 -> Slot]
  <1>1. PICK n, h, t, s, b : Parts(r, n, h, t, s, b)
    BY RingParts
  <1>2. /\ n \in Nat /\ n >= 2 /\ b \in [0 .. n - 1 -> Slot]
        /\ h \in 0 .. n - 1 /\ t \in 0 .. n - 1 /\ s \in 0 .. n - 1 /\ i \in 1 .. s - 1
        /\ p = (h + i) % n
    BY <1>1 DEF Parts, RealIndex
  <1>3. p \in 0 .. n - 1 /\ (h + i < n => p = h + i) /\ (h + i >= n => p = h + i - n)
    <2>1. n \in Nat /\ h \in 0 .. n - 1 /\ i \in 0 .. n - 1
      BY <1>2
    <2>2. p = (h + i) % n
      BY <1>2
    <2> QED
      BY <2>1, <2>2, SlotOfIndex
  <1>4. (h < t => h + s = t) /\ (h >= t => h + s = t + n)
    BY <1>1, <1>2 DEF Parts
  <1> DEFINE folded == Memmove(b, p, p + 1, n - 1 - p)
             stored == Store(folded, n - 1, Read(folded, 0))
  <1>5. TailMovedDown(r, p) =
          CASE h < t -> Memmove(b, p, p + 1, t - p)
            [] h >= t /\ p < t -> Memmove(b, p, p + 1, t - p)
            [] h >= t /\ p >= t -> Memmove(stored, 0, 1, t)
    BY <1>1 DEF Parts, TailMovedDown
  <1>6. /\ 1 \in Nat /\ 0 \in Nat /\ t \in Int /\ 0 + t <= n
        /\ p + 1 \in Nat /\ p \in Nat /\ t - p \in Int /\ p + (t - p) <= n
        /\ n - 1 - p \in Int /\ p + (n - 1 - p) <= n
    BY <1>2, <1>3
  <1>7. CASE h < t \/ (h >= t /\ p < t)
    <2>1. Memmove(b, p, p + 1, t - p) \in [0 .. n - 1 -> Slot]
      BY <1>2, <1>6, MemmoveType, Zenon
    <2> HIDE DEF folded, stored
    <2> QED
      BY <1>1, <1>2, <1>3, <1>5, <1>7, <2>1 DEF Parts
  <1>8. CASE h >= t /\ p >= t
    <2>1. folded \in [0 .. n - 1 -> Slot]
      BY <1>2, <1>6, MemmoveType, Zenon
    <2> HIDE DEF folded
    <2>2. stored \in [0 .. n - 1 -> Slot]
      BY <1>2, <2>1, StoreReadType
    <2> HIDE DEF stored
    <2>3. Memmove(stored, 0, 1, t) \in [0 .. n - 1 -> Slot]
      BY <1>2, <1>6, <2>2, MemmoveType, Zenon
    <2> QED
      BY <1>1, <1>2, <1>3, <1>5, <1>8, <2>3 DEF Parts
  <1>9. (h < t \/ (h >= t /\ p < t)) \/ (h >= t /\ p >= t)
    BY <1>2, <1>3
  <1> QED
    BY <1>7, <1>8, <1>9

LEMMA InsertedRing ==
  ASSUME NEW r, Ring(r), r.size < r.capacity - 1, NEW v \in Item, NEW i \in 1 .. r.size - 1
  PROVE  Ring(Inserted(r, i, v))
  <1> DEFINE n == r.capacity
             p == RealIndex(r, i)
             q == (p + (n - 1)) % n
             g == Inserted(r, i, v)
  <1>1. /\ n \in Nat /\ n >= 2 /\ r.head \in 0 .. n - 1 /\ r.size \in 0 .. n - 2
        /\ i \in 0 .. n - 1 /\ r.tail \in 0 .. n - 1
    BY RingFields
  <1>2. p \in 0 .. n - 1
    BY <1>1, SlotOfIndex DEF RealIndex
  <1>3. q \in 0 .. n - 1 /\ v \in Slot
    <2> HIDE DEF p
    <2> QED
      BY <1>1, <1>2 DEF Slot
  <1>4. CASE i < r.size \div 2
    <2>1. HeadMovedDown(r, p) \in [0 .. n - 1 -> Slot]
      BY HeadMovedDownType
    <2>2. Store(HeadMovedDown(r, p), q, v) \in [0 .. n - 1 -> Slot]
      <3> HIDE DEF p, q
      <3> QED
        BY <1>1, <1>3, <2>1, StoreType
    <2>3. (r.head + (n - 1)) % n \in 0 .. n - 1 /\ r.size + 1 \in 0 .. n - 1
      BY <1>1
    <2>4. g = [r EXCEPT !.buffer = Store(HeadMovedDown(r, p), q, v),
                        !.head = (r.head + (n - 1)) % n,
                        !.size = r.size + 1]
      BY <1>4 DEF Inserted
    <2>5. g \in Struct(n)
      BY <2>2, <2>3, <2>4, RingFields DEF Struct
    <2>6. /\ g.head = (r.head + (n - 1)) % n /\ g.capacity = n /\ g.size = r.size + 1
          /\ g.tail = r.tail
      BY <2>4, RingFields DEF Struct
    <2>7. (((r.head + n - 1) % n) + (r.size + 1)) % n = (r.head + r.size) % n
      BY <1>1, PrevSlot
    <2>8. r.head + (n - 1) = r.head + n - 1
      BY <1>1
    <2> QED
      BY <2>5, <2>6, <2>7, <2>8, RingFields DEF Ring, RealIndex
  <1>5. CASE ~(i < r.size \div 2)
    <2>1. TailMovedUp(r, p) \in [0 .. n - 1 -> Slot]
      BY TailMovedUpType
    <2>2. Store(TailMovedUp(r, p), p, v) \in [0 .. n - 1 -> Slot]
      <3> HIDE DEF p, q
      <3> QED
        BY <1>1, <1>2, <1>3, <2>1, StoreType
    <2>3. (r.tail + 1) % n \in 0 .. n - 1 /\ r.size + 1 \in 0 .. n - 1
      BY <1>1
    <2>4. g = [r EXCEPT !.buffer = Store(TailMovedUp(r, p), p, v),
                        !.tail = (r.tail + 1) % n,
                        !.size = r.size + 1]
      BY <1>5 DEF Inserted
    <2>5. g \in Struct(n)
      BY <2>2, <2>3, <2>4, RingFields DEF Struct
    <2>6. /\ g.head = r.head /\ g.capacity = n /\ g.size = r.size + 1
          /\ g.tail = (r.tail + 1) % n
      BY <2>4, RingFields DEF Struct
    <2>7. (((r.head + r.size) % n) + 1) % n = (r.head + (r.size + 1)) % n
      BY <1>1, NextSlot
    <2> QED
      BY <2>5, <2>6, <2>7, RingFields DEF Ring, RealIndex
  <1> QED
    BY <1>4, <1>5

LEMMA ErasedRing ==
  ASSUME NEW r, Ring(r), NEW i \in 1 .. r.size - 2
  PROVE  Ring(Erased(r, i))
  <1> DEFINE n == r.capacity
             p == RealIndex(r, i)
             g == Erased(r, i)
  <1>1. /\ n \in Nat /\ n >= 2 /\ r.head \in 0 .. n - 1 /\ r.size \in 3 .. n - 1
        /\ i \in 1 .. r.size - 1 /\ r.size - 1 \in 0 .. n - 2 /\ r.tail \in 0 .. n - 1
    BY RingFields
  <1>2. CASE i < r.size \div 2
    <2>1. HeadMovedUp(r, p) \in [0 .. n - 1 -> Slot]
      BY <1>1, HeadMovedUpType
    <2>2. (r.head + 1) % n \in 0 .. n - 1 /\ r.size - 1 \in 0 .. n - 1
      BY <1>1
    <2>3. g = [r EXCEPT !.buffer = HeadMovedUp(r, p), !.head = (r.head + 1) % n,
                        !.size = r.size - 1]
      BY <1>2 DEF Erased
    <2>4. g \in Struct(n)
      BY <2>1, <2>2, <2>3, RingFields DEF Struct
    <2>5. /\ g.head = (r.head + 1) % n /\ g.capacity = n /\ g.size = r.size - 1
          /\ g.tail = r.tail
      BY <2>3, RingFields DEF Struct
    <2>6. (((r.head + 1) % n) + (r.size - 1)) % n = (r.head + ((r.size - 1) + 1)) % n
      BY <1>1, NextSlot
    <2>7. r.head + ((r.size - 1) + 1) = r.head + r.size
      BY <1>1
    <2> QED
      BY <2>4, <2>5, <2>6, <2>7, RingFields DEF Ring, RealIndex
  <1>3. CASE ~(i < r.size \div 2)
    <2>1. TailMovedDown(r, p) \in [0 .. n - 1 -> Slot]
      BY <1>1, TailMovedDownType
    <2>2. (r.tail + (n - 1)) % n \in 0 .. n - 1 /\ r.size - 1 \in 0 .. n - 1
      BY <1>1
    <2>3. g = [r EXCEPT !.buffer = TailMovedDown(r, p), !.tail = (r.tail + (n - 1)) % n,
                        !.size = r.size - 1]
      BY <1>3 DEF Erased
    <2>4. g \in Struct(n)
      BY <2>1, <2>2, <2>3, RingFields DEF Struct
    <2>5. /\ g.head = r.head /\ g.capacity = n /\ g.size = r.size - 1
          /\ g.tail = (r.tail + (n - 1)) % n
      BY <2>3, RingFields DEF Struct
    <2>6. (((r.head + ((r.size - 1) + 1)) % n) + n - 1) % n = (r.head + (r.size - 1)) % n
      BY <1>1, PrevSlot
    <2>7. /\ r.head + ((r.size - 1) + 1) = r.head + r.size
          /\ r.tail + (n - 1) = r.tail + n - 1
      BY <1>1, RingFields
    <2> QED
      BY <2>4, <2>5, <2>6, <2>7, RingFields DEF Ring, RealIndex
  <1> QED
    BY <1>2, <1>3

LEMMA WithoutRing ==
  ASSUME NEW r, Ring(r), r.size > 0
  PROVE  Ring(WithoutBack(r)) /\ Ring(WithoutFront(r))
  <1> DEFINE n == r.capacity
             f == WithoutFront(r)
             g == WithoutBack(r)
  <1>1. /\ n \in Nat /\ n >= 2 /\ r.head \in 0 .. n - 1 /\ r.size \in 1 .. n - 1
        /\ r.tail \in 0 .. n - 1 /\ r.size - 1 \in 0 .. n - 2
    BY RingFields
  <1>2. (r.head + 1) % n \in 0 .. n - 1 /\ (r.tail + n - 1) % n \in 0 .. n - 1
    BY <1>1
  <1>3. f \in Struct(n) /\ g \in Struct(n)
    <2>1. r \in Struct(n) /\ r.size - 1 \in 0 .. n - 1
      BY <1>1, RingFields
    <2>2. f \in Struct(n)
      BY <1>2, <2>1 DEF WithoutFront, Struct
    <2>3. g \in Struct(n)
      BY <1>2, <2>1 DEF WithoutBack, Struct
    <2> QED
      BY <2>2, <2>3
  <1>4. /\ f.head = (r.head + 1) % n /\ f.capacity = n /\ f.size = r.size - 1
        /\ f.tail = r.tail
        /\ g.head = r.head /\ g.capacity = n /\ g.size = r.size - 1
        /\ g.tail = (r.tail + n - 1) % n
    BY RingFields DEF WithoutFront, WithoutBack, Struct
  <1>5. (((r.head + 1) % n) + (r.size - 1)) % n = (r.head + ((r.size - 1) + 1)) % n
    BY <1>1, NextSlot
  <1>6. (((r.head + ((r.size - 1) + 1)) % n) + n - 1) % n = (r.head + (r.size - 1)) % n
    BY <1>1, PrevSlot
  <1>7. r.head + ((r.size - 1) + 1) = r.head + r.size
    BY <1>1
  <1> QED
    BY <1>3, <1>4, <1>5, <1>6, <1>7, RingFields DEF Ring, RealIndex

-----------------------------------------------------------------------------
(* The inductive invariant.                                                *)
Inv ==
  /\ exists \subseteq Handle
  /\ arr = [d \in Handle |-> arr[d]]
  /\ \A d \in Handle : Ring(arr[d])
  /\ ret \in {"OK", "BAD_ALLOC"}
  /\ live \subseteq Item
  /\ fault \in BOOLEAN

LEMMA InvImplies == Inv => TypeOK /\ RingInv
  BY DEF Inv, TypeOK, RingInv, Ring

LEMMA UpdateInv ==
  ASSUME Inv, NEW d \in Handle, NEW r, Ring(r), Update(d, r),
         live' \subseteq Item, fault' \in BOOLEAN
  PROVE  Inv'
  BY DEF Update, Inv

LEMMA InitInv == Init => Inv
  BY NewArrayRing DEF Init, Inv

LEMMA DfreeType ==
  ASSUME Inv, NEW s, Dfree(s)
  PROVE  live' \subseteq Item /\ fault' \in BOOLEAN
  BY DEF Dfree, Inv

LEMMA OutOfMemoryInv == Inv /\ OutOfMemory => Inv'
  BY DEF OutOfMemory, Inv

(* Every call keeps the invariant. *)
LEMMA CtorInv ==
  ASSUME Inv, NEW d \in Handle, Ctor(d)
  PROVE  Inv'
  BY NewArrayRing, OutOfMemoryInv DEF Ctor, Inv

LEMMA DtorInv ==
  ASSUME Inv, NEW d \in Handle, Dtor(d)
  PROVE  Inv'
  BY NewArrayRing, DfreeType DEF Dtor, Inv

LEMMA PushBackInv ==
  ASSUME Inv, NEW d \in Handle, NEW v \in Item, PushBack(d, v)
  PROVE  Inv'
  <1>1. CASE OutOfMemory
    BY <1>1, OutOfMemoryInv
  <1>2. CASE \E r \in WithRoom(arr[d]) : Update(d, AddedBack(r, v)) /\ Handed(v)
    <2>1. PICK r \in WithRoom(arr[d]) : Update(d, AddedBack(r, v)) /\ Handed(v)
      BY <1>2
    <2>2. Ring(AddedBack(r, v))
      BY WithRoomRing, AddedBackRing DEF Inv
    <2>3. live' \subseteq Item /\ fault' \in BOOLEAN
      BY <2>1 DEF Handed, Inv
    <2> QED
      BY <2>1, <2>2, <2>3, UpdateInv
  <1> QED
    BY <1>1, <1>2 DEF PushBack

LEMMA PushFrontInv ==
  ASSUME Inv, NEW d \in Handle, NEW v \in Item, PushFront(d, v)
  PROVE  Inv'
  <1>1. CASE OutOfMemory
    BY <1>1, OutOfMemoryInv
  <1>2. CASE \E r \in WithRoom(arr[d]) : Update(d, AddedFront(r, v)) /\ Handed(v)
    <2>1. PICK r \in WithRoom(arr[d]) : Update(d, AddedFront(r, v)) /\ Handed(v)
      BY <1>2
    <2>2. Ring(AddedFront(r, v))
      BY WithRoomRing, AddedFrontRing DEF Inv
    <2>3. live' \subseteq Item /\ fault' \in BOOLEAN
      BY <2>1 DEF Handed, Inv
    <2> QED
      BY <2>1, <2>2, <2>3, UpdateInv
  <1> QED
    BY <1>1, <1>2 DEF PushFront

LEMMA InsertInv ==
  ASSUME Inv, NEW d \in Handle, NEW v \in Item, NEW i, Insert(d, i, v)
  PROVE  Inv'
  <1>1. CASE InsertMiddle(d, i, v) /\ ~OutOfMemory
    <2>1. PICK r \in WithRoom(arr[d]) : Update(d, Inserted(r, i, v)) /\ Handed(v)
      BY <1>1 DEF InsertMiddle
    <2>2. Ring(r) /\ r.size < r.capacity - 1 /\ i \in 1 .. r.size - 1
      BY <1>1, WithRoomRing DEF InsertMiddle, Inv
    <2>3. Ring(Inserted(r, i, v))
      BY <2>2, InsertedRing
    <2>4. live' \subseteq Item /\ fault' \in BOOLEAN
      BY <2>1 DEF Handed, Inv
    <2> QED
      BY <2>1, <2>3, <2>4, UpdateInv
  <1> QED
    BY <1>1, PushFrontInv, PushBackInv, OutOfMemoryInv DEF Insert

LEMMA PopInv ==
  ASSUME Inv, NEW d \in Handle, PopBack(d) \/ PopFront(d)
  PROVE  Inv'
  <1>1. Ring(arr[d]) /\ arr[d].size > 0
    BY DEF PopBack, PopFront, Inv
  <1>2. Ring(WithoutBack(arr[d])) /\ Ring(WithoutFront(arr[d]))
    BY <1>1, WithoutRing
  <1>3. live' \subseteq Item /\ fault' \in BOOLEAN
    BY DfreeType DEF PopBack, PopFront
  <1> QED
    BY <1>2, <1>3, UpdateInv DEF PopBack, PopFront

LEMMA EraseInv ==
  ASSUME Inv, NEW d \in Handle, NEW i, Erase(d, i)
  PROVE  Inv'
  <1>1. CASE EraseMiddle(d, i)
    <2>1. Ring(Erased(arr[d], i))
      BY <1>1, ErasedRing DEF EraseMiddle, Inv
    <2>2. live' \subseteq Item /\ fault' \in BOOLEAN
      BY <1>1, DfreeType DEF EraseMiddle
    <2> QED
      BY <1>1, <2>1, <2>2, UpdateInv DEF EraseMiddle
  <1> QED
    BY <1>1, PopInv DEF Erase

LEMMA SetInv ==
  ASSUME Inv, NEW d \in Handle, NEW i, NEW v \in Item, Set(d, i, v)
  PROVE  Inv'
  <1> DEFINE r == arr[d]
             n == r.capacity
             p == RealIndex(r, i)
             g == [r EXCEPT !.buffer = Store(@, p, v)]
  <1>1. Ring(r)
    BY DEF Inv
  <1>2. /\ n \in Nat /\ r.head \in 0 .. n - 1 /\ i \in 0 .. n - 1
        /\ r.buffer \in [0 .. n - 1 -> Slot] /\ v \in Slot
    BY <1>1, RingFields DEF Set, Slot
  <1>3. p \in 0 .. n - 1
    BY <1>2, SlotOfIndex DEF RealIndex
  <1>4. Store(r.buffer, p, v) \in [0 .. n - 1 -> Slot]
    BY <1>2, <1>3, StoreType
  <1>5. g \in Struct(n) /\ g.head = r.head /\ g.tail = r.tail /\ g.size = r.size /\ g.capacity = n
    BY <1>1, <1>4, RingFields DEF Struct
  <1>6. Ring(g)
    BY <1>1, <1>5, RingFields DEF Ring, RealIndex
  <1>7. live' \subseteq Item /\ fault' \in BOOLEAN
    BY DEF Set, Inv
  <1> QED
    BY <1>6, <1>7, UpdateInv DEF Set

LEMMA ClearInv ==
  ASSUME Inv, NEW d \in Handle, Clear(d)
  PROVE  Inv'
  <1> DEFINE r == arr[d]
             g == [r EXCEPT !.head = 0, !.tail = 0, !.size = 0]
  <1>1. Ring(r)
    BY DEF Inv
  <1>2. /\ g \in Struct(r.capacity)
        /\ g.head = 0 /\ g.tail = 0 /\ g.size = 0 /\ g.capacity = r.capacity
    <2>1. r \in Struct(r.capacity) /\ 0 \in 0 .. r.capacity - 1
      BY <1>1, RingFields
    <2> QED
      BY <2>1 DEF Struct
  <1>3. (0 + 0) % r.capacity = 0
    BY <1>1, RingFields
  <1>4. Ring(g)
    BY <1>1, <1>2, <1>3, RingFields DEF Ring, RealIndex
  <1> QED
    BY <1>4, DfreeType, UpdateInv DEF Clear

LEMMA SwapInv ==
  ASSUME Inv, NEW a \in Handle, NEW b \in Handle, Swap(a, b)
  PROVE  Inv'
  BY DEF Swap, Inv

LEMMA NextInv == Inv /\ [Next]_vars => Inv'
  <1> SUFFICES ASSUME Inv, [Next]_vars
               PROVE  Inv'
    OBVIOUS
  <1>1. CASE UNCHANGED vars
    BY <1>1 DEF vars, Inv
  <1>2. CASE \E d \in Handle : Ctor(d) \/ Dtor(d) \/ PopBack(d) \/ PopFront(d) \/ Clear(d)
    BY <1>2, CtorInv, DtorInv, PopInv, ClearInv
  <1>3. CASE \E d \in Handle, v \in Item : PushBack(d, v) \/ PushFront(d, v)
    BY <1>3, PushBackInv, PushFrontInv
  <1>4. CASE \E d \in Handle, v \in Item : \E i \in 0 .. arr[d].size : Insert(d, i, v)
    BY <1>4, InsertInv
  <1>5. CASE \E d \in Handle : \E i \in 0 .. arr[d].size - 1 : Erase(d, i)
    BY <1>5, EraseInv
  <1>6. CASE \E d \in Handle, v \in Item : \E i \in 0 .. arr[d].size - 1 : Set(d, i, v)
    BY <1>6, SetInv
  <1>7. CASE \E a, b \in Handle : Swap(a, b)
    BY <1>7, SwapInv
  <1> QED
    BY <1>1, <1>2, <1>3, <1>4, <1>5, <1>6, <1>7 DEF Next

(* The structs stay well formed whatever the client calls, and no call     *)
(* writes outside of the buffer, whose domain is exactly 0 .. capacity - 1.*)
THEOREM TypeCorrect == Spec => []TypeOK
  <1>1. Inv => TypeOK
    BY InvImplies
  <1> QED
    BY <1>1, InitInv, NextInv, PTL DEF Spec

(* head, tail and size stay consistent, so that comparing head with tail   *)
(* tells a wrapped ring from a flat one.                                   *)
THEOREM RingCorrect == Spec => []RingInv
  <1>1. Inv => RingInv
    BY InvImplies
  <1> QED
    BY <1>1, InitInv, NextInv, PTL DEF Spec

(* The slot before that of index s is that of index s - 1. *)
LEMMA LastSlot ==
  ASSUME NEW c \in Nat, NEW h \in 0 .. c - 1, NEW s \in 1 .. c - 1
  PROVE  ((((h + s) % c) - 1) + c) % c = (h + (s - 1)) % c
  <1>1. s - 1 \in 0 .. c - 2 /\ (s - 1) + 1 = s
    OBVIOUS
  <1>2. (((h + ((s - 1) + 1)) % c) + c - 1) % c = (h + (s - 1)) % c
    BY <1>1, PrevSlot
  <1>3. (h + s) % c \in Int
    OBVIOUS
  <1>4. (((h + s) % c) - 1) + c = ((h + s) % c) + c - 1
    BY <1>3
  <1> QED
    BY <1>1, <1>2, <1>4

(* In a well-formed ring, head is the slot of the first item and the slot  *)
(* before tail that of the last.                                           *)
LEMMA EndsShown ==
  ASSUME NEW r, Ring(r), r.size > 0
  PROVE  FrontItem(r) = Contents(r)[1] /\ BackItem(r) = Contents(r)[r.size]
  <1>1. PICK c, h, s : /\ c \in Nat /\ h \in 0 .. c - 1 /\ s \in 1 .. c - 1
                       /\ c = r.capacity /\ h = r.head /\ s = r.size
                       /\ r.tail = (h + s) % c
    BY RingFields DEF Ring, RealIndex
  <1>2. Contents(r) = [i \in 1 .. s |-> Read(r.buffer, (h + (i - 1)) % c)]
    BY <1>1 DEF Contents, RealIndex
  <1>3. Contents(r)[s] = Read(r.buffer, (h + (s - 1)) % c)
    BY <1>1, <1>2
  <1>4. Contents(r)[1] = Read(r.buffer, h)
    <2>1. 1 \in 1 .. s /\ h + (1 - 1) = h /\ h % c = h
      BY <1>1, MaskBelow
    <2>2. QED
      BY <1>2, <2>1
  <1>5. BackItem(r) = Read(r.buffer, (h + (s - 1)) % c)
    BY <1>1, LastSlot DEF BackItem
  <1> QED
    BY <1>1, <1>3, <1>4, <1>5 DEF FrontItem

(* front and back return the first and the last item of the sequence the   *)
(* ring stands for, however full it is and wherever it starts.             *)
THEOREM EndsCorrect == Spec => []AccessInv
  <1>1. Inv => AccessInv
    BY EndsShown DEF Inv, AccessInv
  <1> QED
    BY <1>1, InitInv, NextInv, PTL DEF Spec

-----------------------------------------------------------------------------
(* Slots and buffers. *)

(* j is the slot of the item k after the head.                             *)
IsSlot(n, h, k, j) ==
  /\ j \in 0 .. n - 1
  /\ h + k < n => j = h + k
  /\ h + k >= n => j = h + k - n

(* c is the buffer to after k slots of from, from src on, were copied to   *)
(* dst; respectively the buffer b after v was stored in its slot i.        *)
Copied(c, n, to, dst, from, src, k) ==
  \A j \in 0 .. n - 1 : c[j] = IF j \in dst .. (dst + k - 1) THEN from[j - dst + src] ELSE to[j]

Stored(c, n, b, i, v) == \A j \in 0 .. n - 1 : c[j] = IF j = i THEN v ELSE b[j]

LEMMA MemcpyCopies ==
  ASSUME NEW n \in Nat, NEW to \in [0 .. n - 1 -> Slot],
         NEW m \in Nat, NEW from \in [0 .. m - 1 -> Slot],
         NEW dst \in Nat, NEW src \in Nat, NEW k \in Int, dst + k <= n, src + k <= m
  PROVE  /\ Memcpy(to, dst, from, src, k) \in [0 .. n - 1 -> Slot]
         /\ Copied(Memcpy(to, dst, from, src, k), n, to, dst, from, src, k)
  <1>1. (0 .. n - 1) \cup dst .. (dst + k - 1) = 0 .. n - 1
    OBVIOUS
  <1>2. \A j \in dst .. (dst + k - 1) : Read(from, j - dst + src) = from[j - dst + src]
    BY DEF Read
  <1>3. Copied(Memcpy(to, dst, from, src, k), n, to, dst, from, src, k)
    BY <1>1, <1>2 DEF Memcpy, Copied
  <1> QED
    BY <1>3, MemcpyType

LEMMA MemmoveMoves ==
  ASSUME NEW n \in Nat, NEW b \in [0 .. n - 1 -> Slot],
         NEW dst \in Nat, NEW src \in Nat, NEW k \in Int, dst + k <= n, src + k <= n
  PROVE  /\ Memmove(b, dst, src, k) \in [0 .. n - 1 -> Slot]
         /\ Copied(Memmove(b, dst, src, k), n, b, dst, b, src, k)
  BY MemcpyCopies, Zenon DEF Memmove

LEMMA StoreStores ==
  ASSUME NEW n \in Nat, NEW b \in [0 .. n - 1 -> Slot], NEW i \in 0 .. n - 1, NEW v \in Slot
  PROVE  /\ Store(b, i, v) \in [0 .. n - 1 -> Slot]
         /\ Stored(Store(b, i, v), n, b, i, v)
  BY StoreType DEF Store, Stored

(* The first and the last slot folded around the end of the buffer.        *)
LEMMA StoreReadStores ==
  ASSUME NEW n \in Nat, NEW b \in [0 .. n - 1 -> Slot], NEW i \in 0 .. n - 1, NEW j \in 0 .. n - 1
  PROVE  /\ Store(b, i, Read(b, j)) \in [0 .. n - 1 -> Slot]
         /\ Stored(Store(b, i, Read(b, j)), n, b, i, b[j])
  <1>1. Read(b, j) = b[j] /\ b[j] \in Slot
    BY DEF Read
  <1> QED
    BY <1>1, StoreStores

-----------------------------------------------------------------------------
(* The items of a ring. *)

LEMMA PartsTypes ==
  ASSUME NEW r, NEW n, NEW h, NEW t, NEW s, NEW b, Parts(r, n, h, t, s, b)
  PROVE  /\ n \in Nat /\ n >= 2 /\ h \in 0 .. n - 1 /\ t \in 0 .. n - 1 /\ s \in 0 .. n - 1
         /\ b \in [0 .. n - 1 -> Slot]
         /\ h < t => h + s = t
         /\ h > t => h + s = t + n
         /\ h = t => s = 0
  BY DEF Parts

LEMMA SlotIs ==
  ASSUME NEW n \in Nat, NEW h \in 0 .. n - 1, NEW k \in 0 .. n - 1, NEW j, IsSlot(n, h, k, j)
  PROVE  (h + k) % n = j
  <1>1. CASE h + k < n
    BY <1>1, SlotOfIndex DEF IsSlot
  <1>2. CASE h + k >= n
    BY <1>2, SlotOfIndex DEF IsSlot
  <1> QED
    BY <1>1, <1>2

LEMMA ItemsAt ==
  ASSUME NEW r, NEW n, NEW h, NEW t, NEW s, NEW b, Parts(r, n, h, t, s, b)
  PROVE  /\ Contents(r) = [k \in 1 .. s |-> Contents(r)[k]]
         /\ \A k \in 0 .. s - 1 : \A j : IsSlot(n, h, k, j) => Contents(r)[k + 1] = b[j]
  <1>1. /\ n \in Nat /\ h \in 0 .. n - 1 /\ s \in 0 .. n - 1 /\ b \in [0 .. n - 1 -> Slot]
        /\ r.buffer = b /\ r.head = h /\ r.size = s /\ r.capacity = n
    BY DEF Parts
  <1>2. Contents(r) = [k \in 1 .. s |-> Read(b, (h + (k - 1)) % n)]
    BY <1>1 DEF Contents, RealIndex
  <1>3. ASSUME NEW k \in 0 .. s - 1, NEW j, IsSlot(n, h, k, j)
        PROVE  Contents(r)[k + 1] = b[j]
    <2>1. k + 1 \in 1 .. s /\ (k + 1) - 1 = k /\ k \in 0 .. n - 1
      BY <1>1
    <2>2. Contents(r)[k + 1] = Read(b, (h + k) % n)
      BY <1>2, <2>1
    <2>3. (h + k) % n = j
      BY <1>1, <1>3, <2>1, SlotIs, Zenon
    <2>4. j \in 0 .. n - 1
      BY <1>3 DEF IsSlot
    <2> QED
      BY <1>1, <2>2, <2>3, <2>4 DEF Read
  <1> QED
    BY <1>2, <1>3

LEMMA SlotExists ==
  ASSUME NEW n \in Nat, NEW h \in 0 .. n - 1, NEW k \in 0 .. n - 1
  PROVE  \E j \in 0 .. n - 1 : IsSlot(n, h, k, j)
  <1>1. CASE h + k < n
    BY <1>1 DEF IsSlot
  <1>2. CASE h + k >= n
    BY <1>2 DEF IsSlot
  <1> QED
    BY <1>1, <1>2

(* A ring whose slots hold the items of a sequence stands for it. *)
Holds(b, n, h, s, f) ==
  /\ f = [k \in 1 .. s |-> f[k]]
  /\ \A k \in 0 .. s - 1, j \in 0 .. n - 1 : IsSlot(n, h, k, j) => b[j] = f[k + 1]

LEMMA ContentsAre ==
  ASSUME NEW r, NEW n, NEW h, NEW t, NEW s, NEW b, Parts(r, n, h, t, s, b),
         NEW f, Holds(b, n, h, s, f)
  PROVE  Contents(r) = f
  <1>1. n \in Nat /\ h \in 0 .. n - 1 /\ s \in 0 .. n - 1
    BY PartsTypes
  <1>2. ASSUME NEW k \in 1 .. s PROVE Contents(r)[k] = f[k]
    <2>1. k - 1 \in 0 .. s - 1 /\ k - 1 \in 0 .. n - 1 /\ (k - 1) + 1 = k
      BY <1>1
    <2>2. PICK j \in 0 .. n - 1 : IsSlot(n, h, k - 1, j)
      BY <1>1, <2>1, SlotExists
    <2>3. Contents(r)[(k - 1) + 1] = b[j]
      BY <2>1, <2>2, ItemsAt
    <2> QED
      BY <2>1, <2>2, <2>3 DEF Holds
  <1>3. Contents(r) = [k \in 1 .. s |-> Contents(r)[k]]
    BY ItemsAt
  <1> QED
    BY <1>2, <1>3 DEF Holds

(* The items of a ring of unknown fields, as a sequence. *)
LEMMA ContentsLength ==
  ASSUME NEW r, Ring(r), Contents(r) \in Seq(Item)
  PROVE  Len(Contents(r)) = r.size
  <1>1. PICK n, h, t, s, b : Parts(r, n, h, t, s, b)
    BY RingParts
  <1>2. r.size = s /\ s \in Nat
    BY <1>1, PartsTypes DEF Parts
  <1>3. DOMAIN Contents(r) = 1 .. s
    BY <1>1, ItemsAt
  <1>4. DOMAIN Contents(r) = 1 .. Len(Contents(r)) /\ Len(Contents(r)) \in Nat
    BY LenProperties
  <1> QED
    BY <1>2, <1>3, <1>4

(* A ring is known by its parts. *)
LEMMA PartsAre ==
  ASSUME NEW r, Ring(r)
  PROVE  Parts(r, r.capacity, r.head, r.tail, r.size, r.buffer)
  BY RingFields, TailCases DEF Parts

-----------------------------------------------------------------------------
(* Growth keeps the items. *)

LEMMA ReallocatedItems ==
  ASSUME NEW r, Ring(r), NEW n2 \in Nat, n2 <= MaxCapacity, n2 >= r.capacity
  PROVE  Contents(Reallocated(r, n2)) = Contents(r)
  <1>1. PICK n, h, t, s, b : Parts(r, n, h, t, s, b)
    BY RingParts
  <1>2. /\ n \in Nat /\ n >= 2 /\ h \in 0 .. n - 1 /\ t \in 0 .. n - 1 /\ s \in 0 .. n - 1
        /\ b \in [0 .. n - 1 -> Slot] /\ n2 >= n
        /\ h < t => h + s = t
        /\ h > t => h + s = t + n
        /\ h = t => s = 0
    BY <1>1, PartsTypes DEF Parts
  <1> DEFINE front == Memcpy(Malloc(n2), 0, b, h, n - h)
             wrapped == Memcpy(front, n - h, b, 0, t)
             flat == Memcpy(Malloc(n2), 0, b, h, s)
             q == Reallocated(r, n2)
  <1>3. q.buffer = IF h > t THEN wrapped ELSE flat
    BY <1>1 DEF Parts, Reallocated
  <1>4. PICK c : c = q.buffer
    OBVIOUS
  <1>5. Parts(q, n2, 0, s, s, c)
    <2>1. Ring(q) /\ q.head = 0 /\ q.tail = s /\ q.size = s /\ q.capacity = n2
      BY <1>1, ReallocatedRing DEF Parts, Reallocated
    <2>2. Parts(q, q.capacity, q.head, q.tail, q.size, q.buffer)
      BY <2>1, PartsAre
    <2> QED
      BY <1>4, <2>1, <2>2
  <1>6. Malloc(n2) \in [0 .. n2 - 1 -> Slot]
    BY MallocType
  <1>7. ASSUME NEW k \in 0 .. s - 1, NEW m \in 0 .. n - 1, IsSlot(n, h, k, m)
        PROVE  c[k] = b[m]
    <2>1. CASE h > t
      <3>1. /\ n - h \in Int /\ 0 \in Nat /\ h \in Nat /\ 0 + (n - h) <= n2 /\ h + (n - h) <= n
            /\ n - h \in Nat /\ t \in Int /\ (n - h) + t <= n2 /\ 0 + t <= n
        BY <1>2, <2>1
      <3>2. front \in [0 .. n2 - 1 -> Slot] /\ Copied(front, n2, Malloc(n2), 0, b, h, n - h)
        BY <1>2, <1>6, <3>1, MemcpyCopies, Zenon
      <3> HIDE DEF front
      <3>3. wrapped \in [0 .. n2 - 1 -> Slot] /\ Copied(wrapped, n2, front, n - h, b, 0, t)
        BY <1>2, <3>1, <3>2, MemcpyCopies, Zenon
      <3>4. c = wrapped
        BY <1>3, <1>4, <2>1
      <3> HIDE DEF wrapped, flat, q
      <3>5. CASE h + k < n
        <4>1. /\ k \in 0 .. n2 - 1 /\ m = h + k /\ k \notin (n - h) .. ((n - h) + t - 1)
              /\ k \in 0 .. (0 + (n - h) - 1) /\ k - 0 + h = m
          BY <1>2, <1>7, <3>5 DEF IsSlot
        <4>2. c[k] = front[k]
          BY <3>3, <3>4, <4>1 DEF Copied
        <4>3. front[k] = b[k - 0 + h]
          BY <3>2, <4>1 DEF Copied
        <4> QED
          BY <4>1, <4>2, <4>3
      <3>6. CASE h + k >= n
        <4>1. /\ k \in 0 .. n2 - 1 /\ m = h + k - n /\ k \in (n - h) .. ((n - h) + t - 1)
              /\ k - (n - h) + 0 = m
          BY <1>2, <1>7, <2>1, <3>6 DEF IsSlot
        <4>2. c[k] = b[k - (n - h) + 0]
          BY <3>3, <3>4, <4>1 DEF Copied
        <4> QED
          BY <4>1, <4>2
      <3> QED
        BY <1>2, <3>5, <3>6
    <2>2. CASE ~(h > t)
      <3>1. 0 \in Nat /\ h \in Nat /\ s \in Int /\ 0 + s <= n2 /\ h + s <= n
        BY <1>2, <2>2
      <3>2. flat \in [0 .. n2 - 1 -> Slot] /\ Copied(flat, n2, Malloc(n2), 0, b, h, s)
        BY <1>2, <1>6, <3>1, MemcpyCopies, Zenon
      <3>3. c = flat
        BY <1>3, <1>4, <2>2
      <3> HIDE DEF flat, wrapped, front, q
      <3>4. k \in 0 .. n2 - 1 /\ k \in 0 .. (0 + s - 1) /\ m = h + k /\ k - 0 + h = m
        BY <1>2, <1>7, <2>2, <3>1 DEF IsSlot
      <3>5. c[k] = b[k - 0 + h]
        BY <3>2, <3>3, <3>4 DEF Copied
      <3> QED
        BY <3>4, <3>5
    <2> QED
      BY <2>1, <2>2
  <1>8. ASSUME NEW k \in 0 .. s - 1, NEW j \in 0 .. n2 - 1, IsSlot(n2, 0, k, j)
        PROVE  c[j] = Contents(r)[k + 1]
    <2>1. j = k /\ k \in 0 .. n - 1
      BY <1>2, <1>8 DEF IsSlot
    <2>2. PICK m \in 0 .. n - 1 : IsSlot(n, h, k, m)
      BY <1>2, <2>1, SlotExists
    <2>3. Contents(r)[k + 1] = b[m]
      BY <1>1, <2>2, ItemsAt
    <2> QED
      BY <1>7, <2>1, <2>2, <2>3
  <1>9. Contents(r) = [k \in 1 .. s |-> Contents(r)[k]]
    BY <1>1, ItemsAt
  <1> HIDE DEF q, front, flat, wrapped
  <1>10. Holds(c, n2, 0, s, Contents(r))
    BY <1>8, <1>9 DEF Holds
  <1>11. Contents(q) = Contents(r)
    BY <1>5, <1>10, ContentsAre, Zenon
  <1> QED
    BY <1>11 DEF q

LEMMA WithRoomItems ==
  ASSUME NEW r, Ring(r), NEW q \in WithRoom(r)
  PROVE  Contents(q) = Contents(r)
  <1>1. CASE ~ShouldGrow(r)
    BY <1>1 DEF WithRoom
  <1>2. CASE ShouldGrow(r)
    <2>1. q = Reallocated(r, 2 * r.capacity) /\ 2 * r.capacity <= MaxCapacity
      BY <1>2 DEF WithRoom
    <2>2. 2 * r.capacity \in Nat /\ 2 * r.capacity >= r.capacity
      BY RingFields
    <2> QED
      BY <2>1, <2>2, ReallocatedItems
  <1> QED
    BY <1>1, <1>2

-----------------------------------------------------------------------------
(* insert and erase.  Moved says which slot each item of the ring b is in  *)
(* after the memmove's: those with index in lo .. hi - 1 one slot back, or *)
(* one slot on, around the end of the buffer, and the others of from .. to *)
(* - 1 where they were.                                                    *)
Back(n, j) == IF j = 0 THEN n - 1 ELSE j - 1
On(n, j) == IF j = n - 1 THEN 0 ELSE j + 1

MovedBack(c, n, h, b, lo, hi) ==
  \A k \in lo .. hi - 1, j \in 0 .. n - 1 : IsSlot(n, h, k, j) => c[Back(n, j)] = b[j]

MovedOn(c, n, h, b, lo, hi) ==
  \A k \in lo .. hi - 1, j \in 0 .. n - 1 : IsSlot(n, h, k, j) => c[On(n, j)] = b[j]

Stayed(c, n, h, b, lo, hi) ==
  \A k \in lo .. hi - 1, j \in 0 .. n - 1 : IsSlot(n, h, k, j) => c[j] = b[j]

LEMMA HeadMovedDownItems ==
  ASSUME NEW r, NEW n, NEW h, NEW t, NEW s, NEW b, Parts(r, n, h, t, s, b), s < n - 1,
         NEW i \in 1 .. s - 1, NEW p, IsSlot(n, h, i, p)
  PROVE  /\ MovedBack(HeadMovedDown(r, p), n, h, b, 0, i)
         /\ Stayed(HeadMovedDown(r, p), n, h, b, i, s)
  <1>1. /\ n \in Nat /\ n >= 2 /\ b \in [0 .. n - 1 -> Slot]
        /\ h \in 0 .. n - 1 /\ t \in 0 .. n - 1 /\ s \in 0 .. n - 1
        /\ h < t => h + s = t
        /\ h > t => h + s = t + n
        /\ h # t
        /\ p \in 0 .. n - 1 /\ (h + i < n => p = h + i) /\ (h + i >= n => p = h + i - n)
    BY PartsTypes DEF IsSlot
  <1> DEFINE first == Store(b, n - 1, Read(b, 0))
             folded == Memmove(b, h - 1, h, n - h)
             stored == Store(folded, n - 1, Read(folded, 0))
  <1>0. PICK c : c = HeadMovedDown(r, p)
    OBVIOUS
  <1>x. PICK x : x = Memmove(first, 0, 1, p - h - 1)
    OBVIOUS
  <1>y. PICK y : y = Memmove(b, h - 1, h, p - h)
    OBVIOUS
  <1>z. PICK z : z = Memmove(stored, 0, 1, p)
    OBVIOUS
  <1>2. c = CASE h < t /\ h = 0 -> x
               [] h < t /\ h # 0 -> y
               [] h >= t /\ p > h -> y
               [] h >= t /\ p <= h -> z
    <2>1. c = CASE h < t /\ h = 0 -> Memmove(first, 0, 1, p - h - 1)
                 [] h < t /\ h # 0 -> Memmove(b, h - 1, h, p - h)
                 [] h >= t /\ p > h -> Memmove(b, h - 1, h, p - h)
                 [] h >= t /\ p <= h -> Memmove(stored, 0, 1, p)
      BY <1>0 DEF Parts, HeadMovedDown
    <2> HIDE DEF first, stored
    <2> QED
      BY <1>x, <1>y, <1>z, <2>1
  <1>c. /\ h < t /\ h = 0 => c = x
        /\ (h < t /\ h # 0) \/ (h >= t /\ p > h) => c = y
        /\ h >= t /\ p <= h => c = z
    <2>1. h \in Int /\ t \in Int /\ p \in Int
      BY <1>1
    <2> QED
      BY <1>2, <2>1
  <1>3. CASE h < t /\ h = 0
    <2>1. first \in [0 .. n - 1 -> Slot] /\ Stored(first, n, b, n - 1, b[0])
      <3>1. n - 1 \in 0 .. n - 1 /\ 0 \in 0 .. n - 1
        BY <1>1
      <3> QED
        BY <1>1, <3>1, StoreReadStores, Zenon
    <2>2. /\ 0 \in Nat /\ 1 \in Nat /\ p - h - 1 \in Int
          /\ 0 + (p - h - 1) <= n /\ 1 + (p - h - 1) <= n
      BY <1>1, <1>3
    <2> HIDE DEF first, folded, stored
    <2>3. Copied(Memmove(first, 0, 1, p - h - 1), n, first, 0, first, 1, p - h - 1)
      BY <1>1, <2>1, <2>2, MemmoveMoves, Zenon
    <2>4. Copied(c, n, first, 0, first, 1, p - h - 1)
      BY <1>x, <1>c, <1>3, <2>3
    <2>5. ASSUME NEW k \in 0 .. i - 1, NEW j \in 0 .. n - 1, IsSlot(n, h, k, j)
          PROVE  c[Back(n, j)] = b[j]
      <3>1. j = k /\ j < p
        BY <1>1, <1>3, <2>5 DEF IsSlot
      <3>2. CASE j = 0
        <4>1. /\ Back(n, j) = n - 1 /\ n - 1 \in 0 .. n - 1
              /\ n - 1 \notin 0 .. (0 + (p - h - 1) - 1)
          BY <1>1, <1>3, <3>2 DEF Back
        <4> QED
          BY <2>1, <2>4, <3>2, <4>1 DEF Copied, Stored
      <3>3. CASE j # 0
        <4>1. /\ Back(n, j) = j - 1 /\ j - 1 \in 0 .. n - 1 /\ j # n - 1
              /\ j - 1 \in 0 .. (0 + (p - h - 1) - 1) /\ (j - 1) - 0 + 1 = j
          BY <1>1, <1>3, <3>1, <3>3 DEF Back
        <4>2. c[j - 1] = first[(j - 1) - 0 + 1]
          BY <2>4, <4>1 DEF Copied
        <4> QED
          BY <2>1, <4>1, <4>2 DEF Stored
      <3> QED
        BY <3>2, <3>3
    <2>6. ASSUME NEW k \in i .. s - 1, NEW j \in 0 .. n - 1, IsSlot(n, h, k, j)
          PROVE  c[j] = b[j]
      <3>1. j \notin 0 .. (0 + (p - h - 1) - 1) /\ j # n - 1
        BY <1>1, <1>3, <2>6 DEF IsSlot
      <3> QED
        BY <2>1, <2>4, <3>1 DEF Copied, Stored
    <2>7. MovedBack(c, n, h, b, 0, i)
      BY <2>5 DEF MovedBack
    <2>8. Stayed(c, n, h, b, i, s)
      BY <2>6 DEF Stayed
    <2> QED
      BY <1>0, <2>7, <2>8
  <1>4. CASE (h < t /\ h # 0) \/ (h >= t /\ p > h)
    <2>1. h - 1 \in Nat /\ h \in Nat /\ p - h \in Int /\ (h - 1) + (p - h) <= n /\ h + (p - h) <= n
      BY <1>1, <1>4
    <2> HIDE DEF first, folded, stored
    <2>2. Copied(Memmove(b, h - 1, h, p - h), n, b, h - 1, b, h, p - h)
      BY <1>1, <2>1, MemmoveMoves, Zenon
    <2>3. Copied(c, n, b, h - 1, b, h, p - h)
      <3>1. c = y
        BY <1>c, <1>4
      <3> QED
        BY <1>y, <2>2, <3>1
    <2>4. ASSUME NEW k \in 0 .. i - 1, NEW j \in 0 .. n - 1, IsSlot(n, h, k, j)
          PROVE  c[Back(n, j)] = b[j]
      <3>1. /\ Back(n, j) = j - 1 /\ j - 1 \in 0 .. n - 1
            /\ j - 1 \in (h - 1) .. ((h - 1) + (p - h) - 1) /\ (j - 1) - (h - 1) + h = j
        BY <1>1, <1>4, <2>1, <2>4 DEF Back, IsSlot
      <3>2. c[j - 1] = b[(j - 1) - (h - 1) + h]
        BY <2>3, <3>1 DEF Copied
      <3> QED
        BY <3>1, <3>2
    <2>5. ASSUME NEW k \in i .. s - 1, NEW j \in 0 .. n - 1, IsSlot(n, h, k, j)
          PROVE  c[j] = b[j]
      <3>1. j \notin (h - 1) .. ((h - 1) + (p - h) - 1)
        BY <1>1, <1>4, <2>1, <2>5 DEF IsSlot
      <3> QED
        BY <2>3, <3>1 DEF Copied
    <2>6. MovedBack(c, n, h, b, 0, i)
      BY <2>4 DEF MovedBack
    <2>7. Stayed(c, n, h, b, i, s)
      BY <2>5 DEF Stayed
    <2> QED
      BY <1>0, <2>6, <2>7
  <1>5. CASE h >= t /\ p <= h
    <2>1. /\ h - 1 \in Nat /\ h \in Nat /\ n - h \in Int /\ (h - 1) + (n - h) <= n /\ h + (n - h) <= n
          /\ 0 \in Nat /\ 1 \in Nat /\ p \in Int /\ 0 + p <= n /\ 1 + p <= n
          /\ h > t /\ p < t /\ t + 1 < h /\ p = h + i - n /\ n - 1 \in 0 .. n - 1 /\ 0 \in 0 .. n - 1
      BY <1>1, <1>5
    <2>2. folded \in [0 .. n - 1 -> Slot] /\ Copied(folded, n, b, h - 1, b, h, n - h)
      BY <1>1, <2>1, MemmoveMoves, Zenon
    <2> HIDE DEF folded
    <2>3. stored \in [0 .. n - 1 -> Slot] /\ Stored(stored, n, folded, n - 1, folded[0])
      BY <1>1, <2>1, <2>2, StoreReadStores, Zenon
    <2> HIDE DEF first, stored
    <2>4. Copied(Memmove(stored, 0, 1, p), n, stored, 0, stored, 1, p)
      BY <1>1, <2>1, <2>3, MemmoveMoves, Zenon
    <2>5. Copied(c, n, stored, 0, stored, 1, p)
      BY <1>z, <1>c, <1>5, <2>4
    <2>6. ASSUME NEW j \in 0 .. h - 2 PROVE folded[j] = b[j]
      <3>1. j \in 0 .. n - 1 /\ j \notin (h - 1) .. ((h - 1) + (n - h) - 1)
        BY <1>1
      <3> QED
        BY <2>2, <3>1 DEF Copied
    <2>7. ASSUME NEW k \in 0 .. i - 1, NEW j \in 0 .. n - 1, IsSlot(n, h, k, j)
          PROVE  c[Back(n, j)] = b[j]
      <3>1. CASE j >= h
        <4>1. /\ Back(n, j) = j - 1 /\ j - 1 \in 0 .. n - 1 /\ j - 1 # n - 1
              /\ j - 1 \notin 0 .. (0 + p - 1)
              /\ j - 1 \in (h - 1) .. ((h - 1) + (n - h) - 1) /\ (j - 1) - (h - 1) + h = j
          BY <1>1, <2>1, <3>1 DEF Back
        <4>2. c[j - 1] = folded[j - 1]
          BY <2>3, <2>5, <4>1 DEF Copied, Stored
        <4>3. folded[j - 1] = b[(j - 1) - (h - 1) + h]
          BY <2>2, <4>1 DEF Copied
        <4> QED
          BY <4>1, <4>2, <4>3
      <3>2. CASE j < h /\ j = 0
        <4>1. Back(n, j) = n - 1 /\ n - 1 \notin 0 .. (0 + p - 1) /\ 0 \in 0 .. h - 2
          BY <1>1, <2>1, <3>2 DEF Back
        <4>2. c[n - 1] = folded[0]
          BY <2>1, <2>3, <2>5, <4>1 DEF Copied, Stored
        <4>3. folded[0] = b[0]
          BY <2>6, <4>1
        <4> QED
          BY <3>2, <4>1, <4>2, <4>3
      <3>3. CASE j < h /\ j # 0
        <4>1. j < p
          BY <1>1, <2>1, <2>7, <3>3 DEF IsSlot
        <4>2. /\ Back(n, j) = j - 1 /\ j - 1 \in 0 .. n - 1 /\ j - 1 \in 0 .. (0 + p - 1)
              /\ (j - 1) - 0 + 1 = j /\ j # n - 1 /\ j \in 0 .. h - 2
          BY <1>1, <2>1, <3>3, <4>1 DEF Back
        <4>3. c[j - 1] = stored[(j - 1) - 0 + 1]
          BY <2>5, <4>2 DEF Copied
        <4>4. stored[j] = folded[j] /\ folded[j] = b[j]
          BY <2>3, <2>6, <4>2 DEF Stored
        <4> QED
          BY <4>2, <4>3, <4>4
      <3> QED
        BY <1>1, <3>1, <3>2, <3>3
    <2>8. ASSUME NEW k \in i .. s - 1, NEW j \in 0 .. n - 1, IsSlot(n, h, k, j)
          PROVE  c[j] = b[j]
      <3>1. j \notin 0 .. (0 + p - 1) /\ j # n - 1 /\ j \in 0 .. h - 2
        BY <1>1, <2>1, <2>8 DEF IsSlot
      <3> QED
        BY <2>3, <2>5, <2>6, <3>1 DEF Copied, Stored
    <2>9. MovedBack(c, n, h, b, 0, i)
      BY <2>7 DEF MovedBack
    <2>10. Stayed(c, n, h, b, i, s)
      BY <2>8 DEF Stayed
    <2> QED
      BY <1>0, <2>9, <2>10
  <1> QED
    BY <1>1, <1>3, <1>4, <1>5

LEMMA TailMovedUpItems ==
  ASSUME NEW r, NEW n, NEW h, NEW t, NEW s, NEW b, Parts(r, n, h, t, s, b), s < n - 1,
         NEW i \in 1 .. s - 1, NEW p, IsSlot(n, h, i, p)
  PROVE  /\ Stayed(TailMovedUp(r, p), n, h, b, 0, i)
         /\ MovedOn(TailMovedUp(r, p), n, h, b, i, s)
  <1>1. /\ n \in Nat /\ n >= 2 /\ b \in [0 .. n - 1 -> Slot]
        /\ h \in 0 .. n - 1 /\ t \in 0 .. n - 1 /\ s \in 0 .. n - 1
        /\ h < t => h + s = t
        /\ h > t => h + s = t + n
        /\ h # t
        /\ p \in 0 .. n - 1 /\ (h + i < n => p = h + i) /\ (h + i >= n => p = h + i - n)
        /\ n - 1 \in 0 .. n - 1 /\ 0 \in 0 .. n - 1
    BY PartsTypes DEF IsSlot
  <1> DEFINE around == Store(b, 0, Read(b, n - 1))
             first == IF t + 1 = n THEN around ELSE b
             folded == Memmove(b, 1, 0, t)
             stored == Store(folded, 0, Read(folded, n - 1))
  <1>0. PICK c : c = TailMovedUp(r, p)
    OBVIOUS
  <1>x. PICK x : x = Memmove(first, p + 1, p, t - p)
    OBVIOUS
  <1>y. PICK y : y = Memmove(b, p + 1, p, t - p)
    OBVIOUS
  <1>z. PICK z : z = Memmove(stored, p + 1, p, n - p - 1)
    OBVIOUS
  <1>2. c = CASE h < t -> x
               [] h >= t /\ p < t -> y
               [] h >= t /\ p >= t -> z
    <2>1. c = CASE h < t -> Memmove(first, p + 1, p, t - p)
                 [] h >= t /\ p < t -> Memmove(b, p + 1, p, t - p)
                 [] h >= t /\ p >= t -> Memmove(stored, p + 1, p, n - p - 1)
      BY <1>0 DEF Parts, TailMovedUp
    <2> HIDE DEF first, stored
    <2> QED
      BY <1>x, <1>y, <1>z, <2>1
  <1>c. /\ h < t => c = x
        /\ h >= t /\ p < t => c = y
        /\ h >= t /\ p >= t => c = z
    <2>1. h \in Int /\ t \in Int /\ p \in Int
      BY <1>1
    <2> QED
      BY <1>2, <2>1
  <1>3. /\ 1 \in Nat /\ 0 \in Nat /\ t \in Int /\ 1 + t <= n /\ 0 + t <= n
        /\ p + 1 \in Nat /\ p \in Nat /\ t - p \in Int /\ (p + 1) + (t - p) <= n /\ p + (t - p) <= n
        /\ n - p - 1 \in Int /\ (p + 1) + (n - p - 1) <= n /\ p + (n - p - 1) <= n
    BY <1>1
  <1>4. CASE h < t
    <2>1. around \in [0 .. n - 1 -> Slot] /\ Stored(around, n, b, 0, b[n - 1])
      BY <1>1, StoreReadStores, Zenon
    <2>2. PICK a : a = first
      OBVIOUS
    <2> HIDE DEF around
    <2>3. /\ a \in [0 .. n - 1 -> Slot]
          /\ \A j \in 0 .. n - 1 : a[j] = IF t + 1 = n /\ j = 0 THEN b[n - 1] ELSE b[j]
      <3>1. CASE t + 1 = n
        BY <1>1, <2>1, <2>2, <3>1 DEF Stored
      <3>2. CASE t + 1 # n
        BY <1>1, <2>2, <3>2
      <3> QED
        BY <3>1, <3>2
    <2>4. Copied(Memmove(a, p + 1, p, t - p), n, a, p + 1, a, p, t - p)
      BY <1>1, <1>3, <2>3, MemmoveMoves, Zenon
    <2>5. c = Memmove(a, p + 1, p, t - p)
      BY <1>x, <1>c, <1>4, <2>2
    <2>6. Copied(c, n, a, p + 1, a, p, t - p)
      BY <2>4, <2>5
    <2> HIDE DEF first, folded, stored
    <2>7. ASSUME NEW k \in 0 .. i - 1, NEW j \in 0 .. n - 1, IsSlot(n, h, k, j)
          PROVE  c[j] = b[j]
      <3>1. j \notin (p + 1) .. ((p + 1) + (t - p) - 1) /\ j < p
        BY <1>1, <1>4, <2>7 DEF IsSlot
      <3>2. c[j] = a[j]
        BY <2>6, <3>1 DEF Copied
      <3>3. ~(t + 1 = n /\ j = 0)
        BY <1>1, <1>4, <2>7 DEF IsSlot
      <3> QED
        BY <2>3, <3>2, <3>3
    <2>8. ASSUME NEW k \in i .. s - 1, NEW j \in 0 .. n - 1, IsSlot(n, h, k, j)
          PROVE  c[On(n, j)] = b[j]
      <3>1. j >= p /\ j < t /\ j # 0 /\ j # n - 1
        BY <1>1, <1>4, <2>8 DEF IsSlot
      <3>2. /\ On(n, j) = j + 1 /\ j + 1 \in 0 .. n - 1
            /\ j + 1 \in (p + 1) .. ((p + 1) + (t - p) - 1) /\ (j + 1) - (p + 1) + p = j
        BY <1>1, <3>1 DEF On
      <3>3. c[j + 1] = a[(j + 1) - (p + 1) + p]
        BY <2>6, <3>2 DEF Copied
      <3> QED
        BY <2>3, <3>1, <3>2, <3>3
    <2>9. Stayed(c, n, h, b, 0, i)
      BY <2>7 DEF Stayed
    <2>10. MovedOn(c, n, h, b, i, s)
      BY <2>8 DEF MovedOn
    <2> QED
      BY <1>0, <2>9, <2>10
  <1>5. CASE h >= t /\ p < t
    <2>1. Copied(Memmove(b, p + 1, p, t - p), n, b, p + 1, b, p, t - p)
      BY <1>1, <1>3, MemmoveMoves, Zenon
    <2>2. c = Memmove(b, p + 1, p, t - p)
      BY <1>y, <1>c, <1>5
    <2>3. Copied(c, n, b, p + 1, b, p, t - p)
      BY <2>1, <2>2
    <2> HIDE DEF first, folded, stored, around
    <2>4. ASSUME NEW k \in 0 .. i - 1, NEW j \in 0 .. n - 1, IsSlot(n, h, k, j)
          PROVE  c[j] = b[j]
      <3>1. j \notin (p + 1) .. ((p + 1) + (t - p) - 1)
        BY <1>1, <1>5, <2>4 DEF IsSlot
      <3> QED
        BY <2>3, <3>1 DEF Copied
    <2>5. ASSUME NEW k \in i .. s - 1, NEW j \in 0 .. n - 1, IsSlot(n, h, k, j)
          PROVE  c[On(n, j)] = b[j]
      <3>1. j >= p /\ j < t /\ j # n - 1
        BY <1>1, <1>5, <2>5 DEF IsSlot
      <3>2. /\ On(n, j) = j + 1 /\ j + 1 \in 0 .. n - 1
            /\ j + 1 \in (p + 1) .. ((p + 1) + (t - p) - 1) /\ (j + 1) - (p + 1) + p = j
        BY <1>1, <3>1 DEF On
      <3>3. c[j + 1] = b[(j + 1) - (p + 1) + p]
        BY <2>3, <3>2 DEF Copied
      <3> QED
        BY <3>2, <3>3
    <2>6. Stayed(c, n, h, b, 0, i)
      BY <2>4 DEF Stayed
    <2>7. MovedOn(c, n, h, b, i, s)
      BY <2>5 DEF MovedOn
    <2> QED
      BY <1>0, <2>6, <2>7
  <1>6. CASE h >= t /\ p >= t
    <2>1. h > t /\ p = h + i /\ p > h /\ t + 1 < h
      BY <1>1, <1>6
    <2>2. folded \in [0 .. n - 1 -> Slot] /\ Copied(folded, n, b, 1, b, 0, t)
      BY <1>1, <1>3, MemmoveMoves, Zenon
    <2> HIDE DEF folded
    <2>3. stored \in [0 .. n - 1 -> Slot] /\ Stored(stored, n, folded, 0, folded[n - 1])
      BY <1>1, <2>2, StoreReadStores, Zenon
    <2>4. PICK m : m = stored
      OBVIOUS
    <2>5. Copied(Memmove(m, p + 1, p, n - p - 1), n, m, p + 1, m, p, n - p - 1)
      BY <1>1, <1>3, <2>3, <2>4, MemmoveMoves, Zenon
    <2>6. c = Memmove(m, p + 1, p, n - p - 1)
      BY <1>z, <1>c, <1>6, <2>4
    <2>7. Copied(c, n, m, p + 1, m, p, n - p - 1)
      BY <2>5, <2>6
    <2>8. Stored(m, n, folded, 0, folded[n - 1])
      BY <2>3, <2>4
    <2> HIDE DEF first, stored, around
    <2>9. ASSUME NEW j \in t + 1 .. n - 1 PROVE m[j] = b[j] /\ folded[j] = b[j]
      <3>1. j \in 0 .. n - 1 /\ j # 0 /\ j \notin 1 .. (1 + t - 1)
        BY <1>1
      <3> QED
        BY <2>2, <2>8, <3>1 DEF Copied, Stored
    <2>10. ASSUME NEW k \in 0 .. i - 1, NEW j \in 0 .. n - 1, IsSlot(n, h, k, j)
          PROVE  c[j] = b[j]
      <3>1. j \notin (p + 1) .. ((p + 1) + (n - p - 1) - 1) /\ j \in t + 1 .. n - 1
        BY <1>1, <2>1, <2>10 DEF IsSlot
      <3> QED
        BY <2>7, <2>9, <3>1 DEF Copied
    <2>11. ASSUME NEW k \in i .. s - 1, NEW j \in 0 .. n - 1, IsSlot(n, h, k, j)
          PROVE  c[On(n, j)] = b[j]
      <3>1. CASE j >= p /\ j # n - 1
        <4>1. /\ On(n, j) = j + 1 /\ j + 1 \in 0 .. n - 1 /\ j \in t + 1 .. n - 1
              /\ j + 1 \in (p + 1) .. ((p + 1) + (n - p - 1) - 1) /\ (j + 1) - (p + 1) + p = j
          BY <1>1, <2>1, <3>1 DEF On
        <4>2. c[j + 1] = m[(j + 1) - (p + 1) + p]
          BY <2>7, <4>1 DEF Copied
        <4> QED
          BY <2>9, <4>1, <4>2
      <3>2. CASE j >= p /\ j = n - 1
        <4>1. /\ On(n, j) = 0 /\ 0 \notin (p + 1) .. ((p + 1) + (n - p - 1) - 1)
              /\ n - 1 \in t + 1 .. n - 1
          BY <1>1, <2>1, <3>2 DEF On
        <4>2. c[0] = m[0]
          BY <1>1, <2>7, <4>1 DEF Copied
        <4>3. m[0] = folded[n - 1] /\ folded[n - 1] = b[n - 1]
          BY <1>1, <2>8, <2>9, <4>1 DEF Stored
        <4> QED
          BY <3>2, <4>1, <4>2, <4>3
      <3>3. CASE j < p
        <4>1. j < t
          BY <1>1, <2>1, <2>11, <3>3 DEF IsSlot
        <4>2. /\ On(n, j) = j + 1 /\ j + 1 \in 0 .. n - 1 /\ j + 1 # 0
              /\ j + 1 \notin (p + 1) .. ((p + 1) + (n - p - 1) - 1)
              /\ j + 1 \in 1 .. (1 + t - 1) /\ (j + 1) - 1 + 0 = j
          BY <1>1, <2>1, <4>1 DEF On
        <4>3. c[j + 1] = m[j + 1]
          BY <2>7, <4>2 DEF Copied
        <4>4. m[j + 1] = folded[j + 1]
          BY <2>8, <4>2 DEF Stored
        <4>5. folded[j + 1] = b[(j + 1) - 1 + 0]
          BY <2>2, <4>2 DEF Copied
        <4> QED
          BY <4>2, <4>3, <4>4, <4>5
      <3> QED
        BY <1>1, <3>1, <3>2, <3>3
    <2>12. Stayed(c, n, h, b, 0, i)
      BY <2>10 DEF Stayed
    <2>13. MovedOn(c, n, h, b, i, s)
      BY <2>11 DEF MovedOn
    <2> QED
      BY <1>0, <2>12, <2>13
  <1> QED
    BY <1>1, <1>4, <1>5, <1>6

LEMMA HeadMovedUpItems ==
  ASSUME NEW r, NEW n, NEW h, NEW t, NEW s, NEW b, Parts(r, n, h, t, s, b),
         NEW i \in 1 .. s - 2, NEW p, IsSlot(n, h, i, p)
  PROVE  /\ MovedOn(HeadMovedUp(r, p), n, h, b, 0, i)
         /\ Stayed(HeadMovedUp(r, p), n, h, b, i + 1, s)
  <1>1. /\ n \in Nat /\ n >= 2 /\ b \in [0 .. n - 1 -> Slot]
        /\ h \in 0 .. n - 1 /\ t \in 0 .. n - 1 /\ s \in 0 .. n - 1
        /\ h < t => h + s = t
        /\ h > t => h + s = t + n
        /\ h # t
        /\ p \in 0 .. n - 1 /\ (h + i < n => p = h + i) /\ (h + i >= n => p = h + i - n)
        /\ n - 1 \in 0 .. n - 1 /\ 0 \in 0 .. n - 1
    BY PartsTypes DEF IsSlot
  <1> DEFINE folded == Memmove(b, 1, 0, p)
             stored == Store(folded, 0, Read(folded, n - 1))
  <1>0. PICK c : c = HeadMovedUp(r, p)
    OBVIOUS
  <1>y. PICK y : y = Memmove(b, h + 1, h, p - h)
    OBVIOUS
  <1>z. PICK z : z = Memmove(stored, h + 1, h, n - 1 - h)
    OBVIOUS
  <1>2. c = CASE h < t -> y
               [] h >= t /\ p > h -> y
               [] h >= t /\ p <= h -> z
    <2>1. c = CASE h < t -> Memmove(b, h + 1, h, p - h)
                 [] h >= t /\ p > h -> Memmove(b, h + 1, h, p - h)
                 [] h >= t /\ p <= h -> Memmove(stored, h + 1, h, n - 1 - h)
      BY <1>0 DEF Parts, HeadMovedUp
    <2> HIDE DEF stored
    <2> QED
      BY <1>y, <1>z, <2>1
  <1>c. /\ h < t \/ (h >= t /\ p > h) => c = y
        /\ h >= t /\ p <= h => c = z
    <2>1. h \in Int /\ t \in Int /\ p \in Int
      BY <1>1
    <2> QED
      BY <1>2, <2>1
  <1>3. /\ 1 \in Nat /\ 0 \in Nat /\ p \in Int /\ 1 + p <= n /\ 0 + p <= n
        /\ h + 1 \in Nat /\ h \in Nat /\ p - h \in Int /\ (h + 1) + (p - h) <= n /\ h + (p - h) <= n
        /\ n - 1 - h \in Int /\ (h + 1) + (n - 1 - h) <= n /\ h + (n - 1 - h) <= n
    BY <1>1
  <1>4. CASE h < t \/ (h >= t /\ p > h)
    <2> HIDE DEF folded, stored
    <2>1. p > h /\ p = h + i
      BY <1>1, <1>4
    <2>2. Copied(c, n, b, h + 1, b, h, p - h)
      <3>1. Copied(y, n, b, h + 1, b, h, p - h)
        BY <1>1, <1>3, <1>y, MemmoveMoves, Zenon
      <3> QED
        BY <1>c, <1>4, <3>1
    <2>3. ASSUME NEW k \in 0 .. i - 1, NEW j \in 0 .. n - 1, IsSlot(n, h, k, j)
          PROVE  c[On(n, j)] = b[j]
      <3>1. /\ On(n, j) = j + 1 /\ j + 1 \in 0 .. n - 1
            /\ j + 1 \in (h + 1) .. ((h + 1) + (p - h) - 1) /\ (j + 1) - (h + 1) + h = j
        BY <1>1, <2>1, <2>3 DEF On, IsSlot
      <3>2. c[j + 1] = b[(j + 1) - (h + 1) + h]
        BY <2>2, <3>1 DEF Copied
      <3> QED
        BY <3>1, <3>2
    <2>4. ASSUME NEW k \in i + 1 .. s - 1, NEW j \in 0 .. n - 1, IsSlot(n, h, k, j)
          PROVE  c[j] = b[j]
      <3>1. j \notin (h + 1) .. ((h + 1) + (p - h) - 1)
        BY <1>1, <2>1, <2>4 DEF IsSlot
      <3> QED
        BY <2>2, <3>1 DEF Copied
    <2>5. MovedOn(c, n, h, b, 0, i)
      BY <2>3 DEF MovedOn
    <2>6. Stayed(c, n, h, b, i + 1, s)
      BY <2>4 DEF Stayed
    <2> QED
      BY <1>0, <2>5, <2>6
  <1>5. CASE h >= t /\ p <= h
    <2>1. h > t /\ p < t /\ p = h + i - n
      BY <1>1, <1>5
    <2>2. folded \in [0 .. n - 1 -> Slot] /\ Copied(folded, n, b, 1, b, 0, p)
      BY <1>1, <1>3, MemmoveMoves, Zenon
    <2> HIDE DEF folded
    <2>3. stored \in [0 .. n - 1 -> Slot] /\ Stored(stored, n, folded, 0, folded[n - 1])
      BY <1>1, <2>2, StoreReadStores, Zenon
    <2>4. PICK m : m = stored
      OBVIOUS
    <2>5. Copied(z, n, m, h + 1, m, h, n - 1 - h)
      BY <1>1, <1>3, <1>z, <2>3, <2>4, MemmoveMoves, Zenon
    <2>6. Copied(c, n, m, h + 1, m, h, n - 1 - h)
      BY <1>c, <1>5, <2>5
    <2>7. Stored(m, n, folded, 0, folded[n - 1])
      BY <2>3, <2>4
    <2> HIDE DEF stored
    <2>8. ASSUME NEW j \in p + 1 .. n - 1 PROVE m[j] = b[j] /\ folded[j] = b[j]
      <3>1. j \in 0 .. n - 1 /\ j # 0 /\ j \notin 1 .. (1 + p - 1)
        BY <1>1
      <3> QED
        BY <2>2, <2>7, <3>1 DEF Copied, Stored
    <2>9. ASSUME NEW k \in 0 .. i - 1, NEW j \in 0 .. n - 1, IsSlot(n, h, k, j)
          PROVE  c[On(n, j)] = b[j]
      <3>1. CASE j >= h /\ j # n - 1
        <4>1. /\ On(n, j) = j + 1 /\ j + 1 \in 0 .. n - 1 /\ j \in p + 1 .. n - 1
              /\ j + 1 \in (h + 1) .. ((h + 1) + (n - 1 - h) - 1) /\ (j + 1) - (h + 1) + h = j
          BY <1>1, <2>1, <3>1 DEF On
        <4>2. c[j + 1] = m[(j + 1) - (h + 1) + h]
          BY <2>6, <4>1 DEF Copied
        <4> QED
          BY <2>8, <4>1, <4>2
      <3>2. CASE j >= h /\ j = n - 1
        <4>1. /\ On(n, j) = 0 /\ 0 \notin (h + 1) .. ((h + 1) + (n - 1 - h) - 1)
              /\ n - 1 \in p + 1 .. n - 1
          BY <1>1, <2>1, <3>2 DEF On
        <4>2. c[0] = m[0]
          BY <1>1, <2>6, <4>1 DEF Copied
        <4>3. m[0] = folded[n - 1] /\ folded[n - 1] = b[n - 1]
          BY <1>1, <2>7, <2>8, <4>1 DEF Stored
        <4> QED
          BY <3>2, <4>1, <4>2, <4>3
      <3>3. CASE j < h
        <4>1. j < p
          BY <1>1, <2>1, <2>9, <3>3 DEF IsSlot
        <4>2. /\ On(n, j) = j + 1 /\ j + 1 \in 0 .. n - 1 /\ j + 1 # 0
              /\ j + 1 \notin (h + 1) .. ((h + 1) + (n - 1 - h) - 1)
              /\ j + 1 \in 1 .. (1 + p - 1) /\ (j + 1) - 1 + 0 = j
          BY <1>1, <2>1, <4>1 DEF On
        <4>3. c[j + 1] = m[j + 1]
          BY <2>6, <4>2 DEF Copied
        <4>4. m[j + 1] = folded[j + 1]
          BY <2>7, <4>2 DEF Stored
        <4>5. folded[j + 1] = b[(j + 1) - 1 + 0]
          BY <2>2, <4>2 DEF Copied
        <4> QED
          BY <4>2, <4>3, <4>4, <4>5
      <3> QED
        BY <1>1, <3>1, <3>2, <3>3
    <2>10. ASSUME NEW k \in i + 1 .. s - 1, NEW j \in 0 .. n - 1, IsSlot(n, h, k, j)
          PROVE  c[j] = b[j]
      <3>1. j \notin (h + 1) .. ((h + 1) + (n - 1 - h) - 1) /\ j \in p + 1 .. n - 1
        BY <1>1, <2>1, <2>10 DEF IsSlot
      <3> QED
        BY <2>6, <2>8, <3>1 DEF Copied
    <2>11. MovedOn(c, n, h, b, 0, i)
      BY <2>9 DEF MovedOn
    <2>12. Stayed(c, n, h, b, i + 1, s)
      BY <2>10 DEF Stayed
    <2> QED
      BY <1>0, <2>11, <2>12
  <1> QED
    BY <1>1, <1>4, <1>5

LEMMA TailMovedDownItems ==
  ASSUME NEW r, NEW n, NEW h, NEW t, NEW s, NEW b, Parts(r, n, h, t, s, b),
         NEW i \in 1 .. s - 2, NEW p, IsSlot(n, h, i, p)
  PROVE  /\ Stayed(TailMovedDown(r, p), n, h, b, 0, i)
         /\ MovedBack(TailMovedDown(r, p), n, h, b, i + 1, s)
  <1>1. /\ n \in Nat /\ n >= 2 /\ b \in [0 .. n - 1 -> Slot]
        /\ h \in 0 .. n - 1 /\ t \in 0 .. n - 1 /\ s \in 0 .. n - 1
        /\ h < t => h + s = t
        /\ h > t => h + s = t + n
        /\ h # t
        /\ p \in 0 .. n - 1 /\ (h + i < n => p = h + i) /\ (h + i >= n => p = h + i - n)
        /\ n - 1 \in 0 .. n - 1 /\ 0 \in 0 .. n - 1
    BY PartsTypes DEF IsSlot
  <1> DEFINE folded == Memmove(b, p, p + 1, n - 1 - p)
             stored == Store(folded, n - 1, Read(folded, 0))
  <1>0. PICK c : c = TailMovedDown(r, p)
    OBVIOUS
  <1>y. PICK y : y = Memmove(b, p, p + 1, t - p)
    OBVIOUS
  <1>z. PICK z : z = Memmove(stored, 0, 1, t)
    OBVIOUS
  <1>2. c = CASE h < t -> y
               [] h >= t /\ p < t -> y
               [] h >= t /\ p >= t -> z
    <2>1. c = CASE h < t -> Memmove(b, p, p + 1, t - p)
                 [] h >= t /\ p < t -> Memmove(b, p, p + 1, t - p)
                 [] h >= t /\ p >= t -> Memmove(stored, 0, 1, t)
      BY <1>0 DEF Parts, TailMovedDown
    <2> HIDE DEF stored
    <2> QED
      BY <1>y, <1>z, <2>1
  <1>c. /\ h < t \/ (h >= t /\ p < t) => c = y
        /\ h >= t /\ p >= t => c = z
    <2>1. h \in Int /\ t \in Int /\ p \in Int
      BY <1>1
    <2> QED
      BY <1>2, <2>1
  <1>3. /\ 1 \in Nat /\ 0 \in Nat /\ t \in Int /\ 1 + t <= n /\ 0 + t <= n
        /\ p + 1 \in Nat /\ p \in Nat /\ t - p \in Int /\ (p + 1) + (t - p) <= n /\ p + (t - p) <= n
        /\ n - 1 - p \in Int /\ (p + 1) + (n - 1 - p) <= n /\ p + (n - 1 - p) <= n
    BY <1>1
  <1>4. CASE h < t \/ (h >= t /\ p < t)
    <2> HIDE DEF folded, stored
    <2>1. Copied(c, n, b, p, b, p + 1, t - p)
      <3>1. Copied(y, n, b, p, b, p + 1, t - p)
        BY <1>1, <1>3, <1>y, MemmoveMoves, Zenon
      <3> QED
        BY <1>c, <1>4, <3>1
    <2>2. ASSUME NEW k \in 0 .. i - 1, NEW j \in 0 .. n - 1, IsSlot(n, h, k, j)
          PROVE  c[j] = b[j]
      <3>1. j \notin p .. (p + (t - p) - 1)
        BY <1>1, <1>4, <2>2 DEF IsSlot
      <3> QED
        BY <2>1, <3>1 DEF Copied
    <2>3. ASSUME NEW k \in i + 1 .. s - 1, NEW j \in 0 .. n - 1, IsSlot(n, h, k, j)
          PROVE  c[Back(n, j)] = b[j]
      <3>1. j > p /\ j < t
        BY <1>1, <1>4, <2>3 DEF IsSlot
      <3>2. /\ Back(n, j) = j - 1 /\ j - 1 \in 0 .. n - 1
            /\ j - 1 \in p .. (p + (t - p) - 1) /\ (j - 1) - p + (p + 1) = j
        BY <1>1, <3>1 DEF Back
      <3>3. c[j - 1] = b[(j - 1) - p + (p + 1)]
        BY <2>1, <3>2 DEF Copied
      <3> QED
        BY <3>2, <3>3
    <2>4. Stayed(c, n, h, b, 0, i)
      BY <2>2 DEF Stayed
    <2>5. MovedBack(c, n, h, b, i + 1, s)
      BY <2>3 DEF MovedBack
    <2> QED
      BY <1>0, <2>4, <2>5
  <1>5. CASE h >= t /\ p >= t
    <2>1. h > t /\ p = h + i /\ p > h
      BY <1>1, <1>5
    <2>2. folded \in [0 .. n - 1 -> Slot] /\ Copied(folded, n, b, p, b, p + 1, n - 1 - p)
      BY <1>1, <1>3, MemmoveMoves, Zenon
    <2> HIDE DEF folded
    <2>3. stored \in [0 .. n - 1 -> Slot] /\ Stored(stored, n, folded, n - 1, folded[0])
      BY <1>1, <2>2, StoreReadStores, Zenon
    <2>4. PICK m : m = stored
      OBVIOUS
    <2>5. Copied(z, n, m, 0, m, 1, t)
      BY <1>1, <1>3, <1>z, <2>3, <2>4, MemmoveMoves, Zenon
    <2>6. Copied(c, n, m, 0, m, 1, t)
      BY <1>c, <1>5, <2>5
    <2>7. Stored(m, n, folded, n - 1, folded[0])
      BY <2>3, <2>4
    <2> HIDE DEF stored
    <2>8. ASSUME NEW j \in 0 .. p - 1 PROVE m[j] = b[j] /\ folded[j] = b[j]
      <3>1. j \in 0 .. n - 1 /\ j # n - 1 /\ j \notin p .. (p + (n - 1 - p) - 1)
        BY <1>1
      <3> QED
        BY <2>2, <2>7, <3>1 DEF Copied, Stored
    <2>9. ASSUME NEW k \in 0 .. i - 1, NEW j \in 0 .. n - 1, IsSlot(n, h, k, j)
          PROVE  c[j] = b[j]
      <3>1. j \notin 0 .. (0 + t - 1) /\ j \in 0 .. p - 1
        BY <1>1, <2>1, <2>9 DEF IsSlot
      <3> QED
        BY <2>6, <2>8, <3>1 DEF Copied
    <2>10. ASSUME NEW k \in i + 1 .. s - 1, NEW j \in 0 .. n - 1, IsSlot(n, h, k, j)
          PROVE  c[Back(n, j)] = b[j]
      <3>1. CASE j > p
        <4>1. /\ Back(n, j) = j - 1 /\ j - 1 \in 0 .. n - 1 /\ j - 1 # n - 1
              /\ j - 1 \notin 0 .. (0 + t - 1)
              /\ j - 1 \in p .. (p + (n - 1 - p) - 1) /\ (j - 1) - p + (p + 1) = j
          BY <1>1, <2>1, <3>1 DEF Back
        <4>2. c[j - 1] = m[j - 1]
          BY <2>6, <4>1 DEF Copied
        <4>3. m[j - 1] = folded[j - 1]
          BY <2>7, <4>1 DEF Stored
        <4>4. folded[j - 1] = b[(j - 1) - p + (p + 1)]
          BY <2>2, <4>1 DEF Copied
        <4> QED
          BY <4>1, <4>2, <4>3, <4>4
      <3>2. CASE j <= p /\ j = 0
        <4>1. Back(n, j) = n - 1 /\ n - 1 \notin 0 .. (0 + t - 1) /\ 0 \in 0 .. p - 1
          BY <1>1, <2>1, <3>2 DEF Back
        <4>2. c[n - 1] = m[n - 1]
          BY <1>1, <2>6, <4>1 DEF Copied
        <4>3. m[n - 1] = folded[0] /\ folded[0] = b[0]
          BY <1>1, <2>7, <2>8, <4>1 DEF Stored
        <4> QED
          BY <3>2, <4>1, <4>2, <4>3
      <3>3. CASE j <= p /\ j # 0
        <4>1. j < t
          BY <1>1, <2>1, <2>10, <3>3 DEF IsSlot
        <4>2. /\ Back(n, j) = j - 1 /\ j - 1 \in 0 .. n - 1 /\ j - 1 \in 0 .. (0 + t - 1)
              /\ (j - 1) - 0 + 1 = j /\ j \in 0 .. p - 1
          BY <1>1, <2>1, <3>3, <4>1 DEF Back
        <4>3. c[j - 1] = m[(j - 1) - 0 + 1]
          BY <2>6, <4>2 DEF Copied
        <4>4. m[j] = b[j]
          BY <2>8, <4>2
        <4> QED
          BY <4>2, <4>3, <4>4
      <3> QED
        BY <1>1, <3>1, <3>2, <3>3
    <2>11. Stayed(c, n, h, b, 0, i)
      BY <2>9 DEF Stayed
    <2>12. MovedBack(c, n, h, b, i + 1, s)
      BY <2>10 DEF MovedBack
    <2> QED
      BY <1>0, <2>11, <2>12
  <1> QED
    BY <1>1, <1>4, <1>5

-----------------------------------------------------------------------------
(* The items after a gap was opened, or closed. *)

LEMMA BackIs ==
  ASSUME NEW n \in Nat, n >= 2, NEW j \in 0 .. n - 1
  PROVE  /\ (j + n - 1) % n = Back(n, j) /\ (j + (n - 1)) % n = Back(n, j)
         /\ (j + 1) % n = On(n, j)
         /\ Back(n, j) \in 0 .. n - 1 /\ On(n, j) \in 0 .. n - 1
  <1>1. Back(n, j) \in 0 .. n - 1 /\ On(n, j) \in 0 .. n - 1
    BY DEF Back, On
  <1>2. j + n - 1 = j + (n - 1) /\ n - 1 \in 0 .. n - 1 /\ 1 \in 0 .. n - 1
    OBVIOUS
  <1>3. (j + (n - 1)) % n = Back(n, j)
    <2>1. PICK k \in 0 .. n - 1 : k = n - 1
      BY <1>2
    <2>2. /\ j + k < n => (j + k) % n = j + k
          /\ j + k >= n => (j + k) % n = j + k - n
      BY SlotOfIndex
    <2>3. PICK x : x = (j + k) % n
      OBVIOUS
    <2>4. x = Back(n, j)
      <3>1. (j = 0 => j + k < n /\ j + k = n - 1) /\ (j # 0 => j + k >= n /\ j + k - n = j - 1)
        BY <2>1
      <3> QED
        BY <2>2, <2>3, <3>1 DEF Back
    <2> QED
      BY <2>1, <2>3, <2>4
  <1>4. (j + 1) % n = On(n, j)
    <2>1. /\ j + 1 < n => (j + 1) % n = j + 1
          /\ j + 1 >= n => (j + 1) % n = j + 1 - n
      BY <1>2, SlotOfIndex
    <2>2. PICK x : x = (j + 1) % n
      OBVIOUS
    <2>3. x = On(n, j)
      <3>1. (j = n - 1 => j + 1 >= n /\ j + 1 - n = 0) /\ (j # n - 1 => j + 1 < n)
        OBVIOUS
      <3> QED
        BY <2>1, <2>2, <3>1 DEF On
    <2> QED
      BY <2>2, <2>3
  <1> QED
    BY <1>1, <1>2, <1>3, <1>4

(* f with v after its first i items; f without the item after the first i. *)
With(f, s, i, v) ==
  [k \in 1 .. s + 1 |-> IF k <= i THEN f[k] ELSE IF k = i + 1 THEN v ELSE f[k - 1]]

Without(f, s, i) == [k \in 1 .. s - 1 |-> IF k <= i THEN f[k] ELSE f[k + 1]]

IsWith(w, f, s, i, v) ==
  /\ w = [k \in 1 .. s + 1 |-> w[k]]
  /\ \A k \in 0 .. s : /\ k < i => w[k + 1] = f[k + 1]
                       /\ k = i => w[k + 1] = v
                       /\ k > i => w[k + 1] = f[k]

IsWithout(w, f, s, i) ==
  /\ w = [k \in 1 .. s - 1 |-> w[k]]
  /\ \A k \in 0 .. s - 2 : /\ k < i => w[k + 1] = f[k + 1]
                           /\ k >= i => w[k + 1] = f[(k + 1) + 1]

LEMMA WithItems ==
  ASSUME NEW f, NEW s \in Nat, NEW i \in 0 .. s, NEW v, NEW w, w = With(f, s, i, v)
  PROVE  IsWith(w, f, s, i, v)
  <1>1. w = [k \in 1 .. s + 1 |-> w[k]]
    BY DEF With
  <1>2. ASSUME NEW k \in 0 .. s
        PROVE  /\ k < i => w[k + 1] = f[k + 1]
               /\ k = i => w[k + 1] = v
               /\ k > i => w[k + 1] = f[k]
    <2>1. PICK m \in 1 .. s + 1 : m = k + 1
      OBVIOUS
    <2>2. w[m] = IF m <= i THEN f[m] ELSE IF m = i + 1 THEN v ELSE f[m - 1]
      BY DEF With
    <2>3. /\ m - 1 = k
          /\ k < i => m <= i
          /\ k = i => ~(m <= i) /\ m = i + 1
          /\ k > i => ~(m <= i) /\ m # i + 1
      BY <2>1
    <2> QED
      BY <2>1, <2>2, <2>3
  <1> QED
    BY <1>1, <1>2 DEF IsWith

LEMMA WithoutItems ==
  ASSUME NEW f, NEW s \in Nat, NEW i \in 0 .. s - 1, NEW w, w = Without(f, s, i)
  PROVE  IsWithout(w, f, s, i)
  <1>1. w = [k \in 1 .. s - 1 |-> w[k]]
    BY DEF Without
  <1>2. ASSUME NEW k \in 0 .. s - 2
        PROVE  /\ k < i => w[k + 1] = f[k + 1]
               /\ k >= i => w[k + 1] = f[(k + 1) + 1]
    <2>1. PICK m \in 1 .. s - 1 : m = k + 1
      OBVIOUS
    <2>2. w[m] = IF m <= i THEN f[m] ELSE f[m + 1]
      BY DEF Without
    <2>3. (k < i => m <= i) /\ (k >= i => ~(m <= i))
      BY <2>1
    <2> QED
      BY <2>1, <2>2, <2>3
  <1> QED
    BY <1>1, <1>2 DEF IsWithout

LEMMA GapBefore ==
  ASSUME NEW n \in Nat, n >= 2, NEW h \in 0 .. n - 1, NEW s \in 0 .. n - 2, NEW i \in 0 .. s,
         NEW p, IsSlot(n, h, i, p), NEW b, NEW m, NEW c, NEW v, NEW f,
         Holds(b, n, h, s, f), MovedBack(m, n, h, b, 0, i), Stayed(m, n, h, b, i, s),
         Stored(c, n, m, Back(n, p), v)
  PROVE  Holds(c, n, Back(n, h), s + 1, With(f, s, i, v))
  <1>1. PICK w : w = With(f, s, i, v)
    OBVIOUS
  <1>2. PICK g : g = Back(n, h)
    OBVIOUS
  <1>3. /\ w = [k \in 1 .. s + 1 |-> w[k]]
        /\ \A k \in 0 .. s : /\ k < i => w[k + 1] = f[k + 1]
                             /\ k = i => w[k + 1] = v
                             /\ k > i => w[k + 1] = f[k]
    <2>1. s \in Nat
      OBVIOUS
    <2>2. IsWith(w, f, s, i, v)
      BY <1>1, <2>1, WithItems, Zenon
    <2> QED
      BY <2>2 DEF IsWith
  <1>4. ASSUME NEW k \in 0 .. s, NEW j \in 0 .. n - 1, IsSlot(n, g, k, j)
        PROVE  c[j] = w[k + 1]
    <2>1. CASE k < i
      <3>1. PICK l \in 0 .. n - 1 : IsSlot(n, h, k, l)
        <4>1. k \in 0 .. n - 1
          OBVIOUS
        <4> QED
          BY <4>1, SlotExists
      <3>2. j = Back(n, l) /\ j # Back(n, p)
        BY <1>2, <1>4, <2>1, <3>1 DEF IsSlot, Back
      <3>3. c[j] = m[j]
        BY <3>2 DEF Stored
      <3>4. m[j] = b[l]
        <4>1. k \in 0 .. i - 1
          BY <2>1
        <4> QED
          BY <3>1, <3>2, <4>1 DEF MovedBack
      <3>5. b[l] = f[k + 1]
        <4>1. k \in 0 .. s - 1
          BY <2>1
        <4> QED
          BY <3>1, <4>1 DEF Holds
      <3> QED
        BY <1>3, <2>1, <3>3, <3>4, <3>5
    <2>2. CASE k = i
      <3>1. j = Back(n, p)
        BY <1>2, <1>4, <2>2 DEF IsSlot, Back
      <3>2. c[j] = v
        BY <3>1 DEF Stored
      <3> QED
        BY <1>3, <2>2, <3>2
    <2>3. CASE k > i
      <3>1. k - 1 \in i .. s - 1 /\ k - 1 \in 0 .. s - 1 /\ (k - 1) + 1 = k
        BY <2>3
      <3>2. IsSlot(n, h, k - 1, j) /\ j # Back(n, p)
        BY <1>2, <1>4, <2>3 DEF IsSlot, Back
      <3>3. c[j] = m[j]
        BY <3>2 DEF Stored
      <3>4. m[j] = b[j]
        BY <3>1, <3>2 DEF Stayed
      <3>5. b[j] = f[(k - 1) + 1]
        BY <3>1, <3>2 DEF Holds
      <3>6. w[k + 1] = f[k]
        BY <1>3, <2>3
      <3> QED
        BY <3>1, <3>3, <3>4, <3>5, <3>6
    <2> QED
      BY <2>1, <2>2, <2>3
  <1>5. (s + 1) - 1 = s
    OBVIOUS
  <1> QED
    BY <1>1, <1>2, <1>3, <1>4, <1>5 DEF Holds

LEMMA GapAfter ==
  ASSUME NEW n \in Nat, n >= 2, NEW h \in 0 .. n - 1, NEW s \in 0 .. n - 2, NEW i \in 0 .. s,
         NEW p, IsSlot(n, h, i, p), NEW b, NEW m, NEW c, NEW v, NEW f,
         Holds(b, n, h, s, f), Stayed(m, n, h, b, 0, i), MovedOn(m, n, h, b, i, s),
         Stored(c, n, m, p, v)
  PROVE  Holds(c, n, h, s + 1, With(f, s, i, v))
  <1>1. PICK w : w = With(f, s, i, v)
    OBVIOUS
  <1>3. /\ w = [k \in 1 .. s + 1 |-> w[k]]
        /\ \A k \in 0 .. s : /\ k < i => w[k + 1] = f[k + 1]
                             /\ k = i => w[k + 1] = v
                             /\ k > i => w[k + 1] = f[k]
    <2>1. s \in Nat
      OBVIOUS
    <2>2. IsWith(w, f, s, i, v)
      BY <1>1, <2>1, WithItems, Zenon
    <2> QED
      BY <2>2 DEF IsWith
  <1>4. ASSUME NEW k \in 0 .. s, NEW j \in 0 .. n - 1, IsSlot(n, h, k, j)
        PROVE  c[j] = w[k + 1]
    <2>1. CASE k < i
      <3>1. k \in 0 .. i - 1 /\ k \in 0 .. s - 1 /\ j # p
        BY <1>4, <2>1 DEF IsSlot
      <3>2. c[j] = m[j]
        BY <3>1 DEF Stored
      <3>3. m[j] = b[j]
        BY <1>4, <3>1 DEF Stayed
      <3>4. b[j] = f[k + 1]
        BY <1>4, <3>1 DEF Holds
      <3> QED
        BY <1>3, <2>1, <3>2, <3>3, <3>4
    <2>2. CASE k = i
      <3>1. j = p
        BY <1>4, <2>2 DEF IsSlot
      <3>2. c[j] = v
        BY <3>1 DEF Stored
      <3> QED
        BY <1>3, <2>2, <3>2
    <2>3. CASE k > i
      <3>1. k - 1 \in i .. s - 1 /\ k - 1 \in 0 .. s - 1 /\ (k - 1) + 1 = k /\ k - 1 \in 0 .. n - 1
        BY <2>3
      <3>2. PICK l \in 0 .. n - 1 : IsSlot(n, h, k - 1, l)
        BY <3>1, SlotExists
      <3>3. j = On(n, l) /\ j # p
        BY <1>4, <2>3, <3>2 DEF IsSlot, On
      <3>4. c[j] = m[j]
        BY <3>3 DEF Stored
      <3>5. m[j] = b[l]
        BY <3>1, <3>2, <3>3 DEF MovedOn
      <3>6. b[l] = f[(k - 1) + 1]
        BY <3>1, <3>2 DEF Holds
      <3>7. w[k + 1] = f[k]
        BY <1>3, <2>3
      <3> QED
        BY <3>1, <3>4, <3>5, <3>6, <3>7
    <2> QED
      BY <2>1, <2>2, <2>3
  <1>5. (s + 1) - 1 = s
    OBVIOUS
  <1> QED
    BY <1>1, <1>3, <1>4, <1>5 DEF Holds

LEMMA ClosedBefore ==
  ASSUME NEW n \in Nat, n >= 2, NEW h \in 0 .. n - 1, NEW s \in 1 .. n - 1, NEW i \in 0 .. s - 1,
         NEW b, NEW c, NEW f,
         Holds(b, n, h, s, f), MovedOn(c, n, h, b, 0, i), Stayed(c, n, h, b, i + 1, s)
  PROVE  Holds(c, n, On(n, h), s - 1, Without(f, s, i))
  <1>1. PICK w : w = Without(f, s, i)
    OBVIOUS
  <1>2. PICK g : g = On(n, h)
    OBVIOUS
  <1>3. /\ w = [k \in 1 .. s - 1 |-> w[k]]
        /\ \A k \in 0 .. s - 2 : /\ k < i => w[k + 1] = f[k + 1]
                                 /\ k >= i => w[k + 1] = f[(k + 1) + 1]
    <2>1. s \in Nat
      OBVIOUS
    <2>2. IsWithout(w, f, s, i)
      BY <1>1, <2>1, WithoutItems, Zenon
    <2> QED
      BY <2>2 DEF IsWithout
  <1>4. ASSUME NEW k \in 0 .. s - 2, NEW j \in 0 .. n - 1, IsSlot(n, g, k, j)
        PROVE  c[j] = w[k + 1]
    <2>1. CASE k < i
      <3>0. k \in 0 .. n - 1 /\ k \in 0 .. i - 1 /\ k \in 0 .. s - 1
        BY <2>1
      <3>1. PICK l \in 0 .. n - 1 : IsSlot(n, h, k, l)
        BY <3>0, SlotExists
      <3>2. j = On(n, l)
        BY <1>2, <1>4, <2>1, <3>1 DEF IsSlot, On
      <3>3. c[j] = b[l]
        BY <3>0, <3>1, <3>2 DEF MovedOn
      <3>4. b[l] = f[k + 1]
        BY <3>0, <3>1 DEF Holds
      <3> QED
        BY <1>3, <2>1, <3>3, <3>4
    <2>2. CASE k >= i
      <3>1. k + 1 \in i + 1 .. s - 1 /\ k + 1 \in 0 .. s - 1
        BY <2>2
      <3>2. IsSlot(n, h, k + 1, j)
        BY <1>2, <1>4, <2>2 DEF IsSlot, On
      <3>3. c[j] = b[j]
        BY <3>1, <3>2 DEF Stayed
      <3>4. b[j] = f[(k + 1) + 1]
        BY <3>1, <3>2 DEF Holds
      <3> QED
        BY <1>3, <2>2, <3>3, <3>4
    <2> QED
      BY <2>1, <2>2
  <1>5. (s - 1) - 1 = s - 2
    OBVIOUS
  <1> QED
    BY <1>1, <1>2, <1>3, <1>4, <1>5 DEF Holds

LEMMA ClosedAfter ==
  ASSUME NEW n \in Nat, n >= 2, NEW h \in 0 .. n - 1, NEW s \in 1 .. n - 1, NEW i \in 0 .. s - 1,
         NEW b, NEW c, NEW f,
         Holds(b, n, h, s, f), Stayed(c, n, h, b, 0, i), MovedBack(c, n, h, b, i + 1, s)
  PROVE  Holds(c, n, h, s - 1, Without(f, s, i))
  <1>1. PICK w : w = Without(f, s, i)
    OBVIOUS
  <1>3. /\ w = [k \in 1 .. s - 1 |-> w[k]]
        /\ \A k \in 0 .. s - 2 : /\ k < i => w[k + 1] = f[k + 1]
                                 /\ k >= i => w[k + 1] = f[(k + 1) + 1]
    <2>1. s \in Nat
      OBVIOUS
    <2>2. IsWithout(w, f, s, i)
      BY <1>1, <2>1, WithoutItems, Zenon
    <2> QED
      BY <2>2 DEF IsWithout
  <1>4. ASSUME NEW k \in 0 .. s - 2, NEW j \in 0 .. n - 1, IsSlot(n, h, k, j)
        PROVE  c[j] = w[k + 1]
    <2>1. CASE k < i
      <3>1. k \in 0 .. i - 1 /\ k \in 0 .. s - 1
        BY <2>1
      <3>2. c[j] = b[j]
        BY <1>4, <3>1 DEF Stayed
      <3>3. b[j] = f[k + 1]
        BY <1>4, <3>1 DEF Holds
      <3> QED
        BY <1>3, <2>1, <3>2, <3>3
    <2>2. CASE k >= i
      <3>1. k + 1 \in i + 1 .. s - 1 /\ k + 1 \in 0 .. s - 1 /\ k + 1 \in 0 .. n - 1
        BY <2>2
      <3>2. PICK l \in 0 .. n - 1 : IsSlot(n, h, k + 1, l)
        BY <3>1, SlotExists
      <3>3. j = Back(n, l)
        BY <1>4, <2>2, <3>2 DEF IsSlot, Back
      <3>4. c[j] = b[l]
        BY <3>1, <3>2, <3>3 DEF MovedBack
      <3>5. b[l] = f[(k + 1) + 1]
        BY <3>1, <3>2 DEF Holds
      <3> QED
        BY <1>3, <2>2, <3>4, <3>5
    <2> QED
      BY <2>1, <2>2
  <1>5. (s - 1) - 1 = s - 2
    OBVIOUS
  <1> QED
    BY <1>1, <1>3, <1>4, <1>5 DEF Holds

-----------------------------------------------------------------------------
(* What each helper does to the items. *)

LEMMA ContentsHeld ==
  ASSUME NEW r, NEW n, NEW h, NEW t, NEW s, NEW b, Parts(r, n, h, t, s, b)
  PROVE  Holds(b, n, h, s, Contents(r))
  <1>1. PICK C : C = Contents(r)
    OBVIOUS
  <1>2. /\ C = [k \in 1 .. s |-> C[k]]
        /\ \A k \in 0 .. s - 1 : \A j : IsSlot(n, h, k, j) => C[k + 1] = b[j]
    BY <1>1, ItemsAt
  <1> QED
    BY <1>1, <1>2 DEF Holds

(* The ring g of n slots whose fields are known stands for f. *)
LEMMA FieldsHold ==
  ASSUME NEW g, Ring(g), NEW n, g.capacity = n, NEW h, g.head = h, NEW s, g.size = s,
         NEW b, g.buffer = b, NEW f, Holds(b, n, h, s, f)
  PROVE  Contents(g) = f
  <1>1. Parts(g, n, h, g.tail, s, b)
    BY PartsAre
  <1> QED
    BY <1>1, ContentsAre

LEMMA InsertedItems ==
  ASSUME NEW r, Ring(r), r.size < r.capacity - 1, NEW v \in Item, NEW i \in 1 .. r.size - 1
  PROVE  Contents(Inserted(r, i, v)) = With(Contents(r), r.size, i, v)
  <1>1. PICK n, h, t, s, b : Parts(r, n, h, t, s, b)
    BY RingParts
  <1>2. /\ r.buffer = b /\ r.head = h /\ r.tail = t /\ r.size = s /\ r.capacity = n
        /\ r \in Struct(n)
    BY <1>1, RingFields DEF Parts
  <1>3. /\ n \in Nat /\ n >= 2 /\ b \in [0 .. n - 1 -> Slot]
        /\ h \in 0 .. n - 1 /\ t \in 0 .. n - 1 /\ s \in 0 .. n - 2 /\ s < n - 1
        /\ i \in 1 .. s - 1 /\ i \in 0 .. s /\ i \in 0 .. n - 1 /\ v \in Slot
    BY <1>1, <1>2, PartsTypes DEF Slot
  <1>4. PICK p \in 0 .. n - 1 : p = (h + i) % n
    BY <1>3, SlotOfIndex
  <1>5. IsSlot(n, h, i, p)
    BY <1>3, <1>4, SlotOfIndex DEF IsSlot
  <1>6. RealIndex(r, i) = p
    BY <1>2, <1>4 DEF RealIndex
  <1>7. PICK C : C = Contents(r)
    OBVIOUS
  <1>8. Holds(b, n, h, s, C)
    BY <1>1, <1>7, ContentsHeld
  <1>9. PICK g : g = Inserted(r, i, v)
    OBVIOUS
  <1>10. Ring(g)
    BY <1>9, InsertedRing
  <1>11. CASE i < s \div 2
    <2>1. PICK m : m = HeadMovedDown(r, p)
      OBVIOUS
    <2>2. m \in [0 .. n - 1 -> Slot]
      BY <1>2, <1>6, <2>1, HeadMovedDownType
    <2>3. MovedBack(m, n, h, b, 0, i) /\ Stayed(m, n, h, b, i, s)
      BY <1>1, <1>3, <1>5, <2>1, HeadMovedDownItems, Zenon
    <2>4. PICK q \in 0 .. n - 1 : q = Back(n, p) /\ q = (p + (n - 1)) % n
      BY <1>3, <1>4, BackIs
    <2>5. PICK a \in 0 .. n - 1 : a = Back(n, h) /\ a = (h + (n - 1)) % n
      BY <1>3, BackIs
    <2>6. PICK c : c = Store(m, q, v)
      OBVIOUS
    <2>7. Stored(c, n, m, q, v)
      BY <1>3, <2>2, <2>4, <2>6, StoreStores
    <2>8. g = [r EXCEPT !.buffer = c, !.head = a, !.size = s + 1]
      BY <1>2, <1>6, <1>9, <1>11, <2>1, <2>4, <2>5, <2>6 DEF Inserted
    <2>9. g.buffer = c /\ g.head = a /\ g.size = s + 1 /\ g.capacity = n
      BY <1>2, <2>8 DEF Struct
    <2>10. Holds(c, n, Back(n, h), s + 1, With(C, s, i, v))
      <3>1. Stored(c, n, m, Back(n, p), v)
        BY <2>4, <2>7
      <3> QED
        BY <1>3, <1>5, <1>8, <2>3, <3>1, GapBefore, Zenon
    <2>11. Holds(c, n, a, s + 1, With(C, s, i, v))
      BY <2>5, <2>10
    <2>12. Contents(g) = With(C, s, i, v)
      BY <1>10, <2>9, <2>11, FieldsHold, Zenon
    <2> QED
      BY <1>2, <1>7, <1>9, <2>12
  <1>12. CASE ~(i < s \div 2)
    <2>1. PICK m : m = TailMovedUp(r, p)
      OBVIOUS
    <2>2. m \in [0 .. n - 1 -> Slot]
      BY <1>2, <1>6, <2>1, TailMovedUpType
    <2>3. Stayed(m, n, h, b, 0, i) /\ MovedOn(m, n, h, b, i, s)
      BY <1>1, <1>3, <1>5, <2>1, TailMovedUpItems, Zenon
    <2>4. PICK c : c = Store(m, p, v)
      OBVIOUS
    <2>5. Stored(c, n, m, p, v)
      BY <1>3, <2>2, <1>4, <2>4, StoreStores
    <2>6. g = [r EXCEPT !.buffer = c, !.tail = (t + 1) % n, !.size = s + 1]
      BY <1>2, <1>6, <1>9, <1>12, <2>1, <2>4 DEF Inserted
    <2>7. g.buffer = c /\ g.head = h /\ g.size = s + 1 /\ g.capacity = n
      BY <1>2, <2>6 DEF Struct
    <2>8. Holds(c, n, h, s + 1, With(C, s, i, v))
      BY <1>3, <1>5, <1>8, <2>3, <2>5, GapAfter, Zenon
    <2>9. Contents(g) = With(C, s, i, v)
      BY <1>10, <2>7, <2>8, FieldsHold, Zenon
    <2> QED
      BY <1>2, <1>7, <1>9, <2>9
  <1> QED
    BY <1>11, <1>12

LEMMA ErasedItems ==
  ASSUME NEW r, Ring(r), NEW i \in 1 .. r.size - 2
  PROVE  Contents(Erased(r, i)) = Without(Contents(r), r.size, i)
  <1>1. PICK n, h, t, s, b : Parts(r, n, h, t, s, b)
    BY RingParts
  <1>2. /\ r.buffer = b /\ r.head = h /\ r.tail = t /\ r.size = s /\ r.capacity = n
        /\ r \in Struct(n)
    BY <1>1, RingFields DEF Parts
  <1>3. /\ n \in Nat /\ n >= 2 /\ b \in [0 .. n - 1 -> Slot]
        /\ h \in 0 .. n - 1 /\ t \in 0 .. n - 1 /\ s \in 1 .. n - 1
        /\ i \in 1 .. s - 2 /\ i \in 0 .. s - 1 /\ i \in 0 .. n - 1
    BY <1>1, <1>2, PartsTypes
  <1>4. PICK p \in 0 .. n - 1 : p = (h + i) % n
    BY <1>3, SlotOfIndex
  <1>5. IsSlot(n, h, i, p)
    BY <1>3, <1>4, SlotOfIndex DEF IsSlot
  <1>6. RealIndex(r, i) = p
    BY <1>2, <1>4 DEF RealIndex
  <1>7. PICK C : C = Contents(r)
    OBVIOUS
  <1>8. Holds(b, n, h, s, C)
    BY <1>1, <1>7, ContentsHeld
  <1>9. PICK g : g = Erased(r, i)
    OBVIOUS
  <1>10. Ring(g)
    BY <1>9, ErasedRing
  <1>11. CASE i < s \div 2
    <2>1. PICK c : c = HeadMovedUp(r, p)
      OBVIOUS
    <2>2. MovedOn(c, n, h, b, 0, i) /\ Stayed(c, n, h, b, i + 1, s)
      BY <1>1, <1>3, <1>5, <2>1, HeadMovedUpItems, Zenon
    <2>3. PICK a \in 0 .. n - 1 : a = On(n, h) /\ a = (h + 1) % n
      BY <1>3, BackIs
    <2>4. g = [r EXCEPT !.buffer = c, !.head = a, !.size = s - 1]
      BY <1>2, <1>6, <1>9, <1>11, <2>1, <2>3 DEF Erased
    <2>5. g.buffer = c /\ g.head = a /\ g.size = s - 1 /\ g.capacity = n
      BY <1>2, <2>4 DEF Struct
    <2>6. Holds(c, n, On(n, h), s - 1, Without(C, s, i))
      BY <1>3, <1>8, <2>2, ClosedBefore, Zenon
    <2>7. Holds(c, n, a, s - 1, Without(C, s, i))
      BY <2>3, <2>6
    <2>8. Contents(g) = Without(C, s, i)
      BY <1>10, <2>5, <2>7, FieldsHold, Zenon
    <2> QED
      BY <1>2, <1>7, <1>9, <2>8
  <1>12. CASE ~(i < s \div 2)
    <2>1. PICK c : c = TailMovedDown(r, p)
      OBVIOUS
    <2>2. Stayed(c, n, h, b, 0, i) /\ MovedBack(c, n, h, b, i + 1, s)
      BY <1>1, <1>3, <1>5, <2>1, TailMovedDownItems, Zenon
    <2>3. g = [r EXCEPT !.buffer = c, !.tail = (t + (n - 1)) % n, !.size = s - 1]
      BY <1>2, <1>6, <1>9, <1>12, <2>1 DEF Erased
    <2>4. g.buffer = c /\ g.head = h /\ g.size = s - 1 /\ g.capacity = n
      BY <1>2, <2>3 DEF Struct
    <2>5. Holds(c, n, h, s - 1, Without(C, s, i))
      BY <1>3, <1>8, <2>2, ClosedAfter, Zenon
    <2>6. Contents(g) = Without(C, s, i)
      BY <1>10, <2>4, <2>5, FieldsHold, Zenon
    <2> QED
      BY <1>2, <1>7, <1>9, <2>6
  <1> QED
    BY <1>11, <1>12

LEMMA AddedItems ==
  ASSUME NEW r, Ring(r), r.size < r.capacity - 1, NEW v \in Item
  PROVE  /\ Contents(AddedBack(r, v)) = With(Contents(r), r.size, r.size, v)
         /\ Contents(AddedFront(r, v)) = With(Contents(r), r.size, 0, v)
  <1>1. PICK n, h, t, s, b : Parts(r, n, h, t, s, b)
    BY RingParts
  <1>2. /\ r.buffer = b /\ r.head = h /\ r.tail = t /\ r.size = s /\ r.capacity = n
        /\ r \in Struct(n)
    BY <1>1, RingFields DEF Parts
  <1>3. /\ n \in Nat /\ n >= 2 /\ b \in [0 .. n - 1 -> Slot]
        /\ h \in 0 .. n - 1 /\ t \in 0 .. n - 1 /\ s \in 0 .. n - 2
        /\ s \in 0 .. s /\ 0 \in 0 .. s /\ v \in Slot
    BY <1>1, <1>2, PartsTypes DEF Slot
  <1>4. PICK C : C = Contents(r)
    OBVIOUS
  <1>5. Holds(b, n, h, s, C)
    BY <1>1, <1>4, ContentsHeld
  <1>6. Contents(AddedBack(r, v)) = With(C, s, s, v)
    <2>1. PICK c : c = Store(b, t, v)
      OBVIOUS
    <2>2. Stored(c, n, b, t, v)
      BY <1>3, <2>1, StoreStores
    <2>3. PICK g : g = AddedBack(r, v)
      OBVIOUS
    <2>4. Ring(g)
      BY <2>3, AddedBackRing
    <2>5. g = [r EXCEPT !.buffer = c, !.tail = (t + 1) % n, !.size = s + 1]
      BY <1>2, <2>1, <2>3 DEF AddedBack
    <2>6. g.buffer = c /\ g.head = h /\ g.size = s + 1 /\ g.capacity = n
      BY <1>2, <2>5 DEF Struct
    <2>7. IsSlot(n, h, s, t)
      BY <1>1 DEF Parts, IsSlot
    <2>8. Stayed(b, n, h, b, 0, s) /\ MovedOn(b, n, h, b, s, s)
      BY <1>3 DEF Stayed, MovedOn
    <2>9. Holds(c, n, h, s + 1, With(C, s, s, v))
      BY <1>3, <1>5, <2>2, <2>7, <2>8, GapAfter, Zenon
    <2>10. Contents(g) = With(C, s, s, v)
      BY <2>4, <2>6, <2>9, FieldsHold, Zenon
    <2> QED
      BY <2>3, <2>10
  <1>7. Contents(AddedFront(r, v)) = With(C, s, 0, v)
    <2>1. PICK a \in 0 .. n - 1 : a = Back(n, h) /\ a = (h + n - 1) % n
      BY <1>3, BackIs
    <2>2. PICK c : c = Store(b, a, v)
      OBVIOUS
    <2>3. Stored(c, n, b, a, v)
      BY <1>3, <2>1, <2>2, StoreStores
    <2>4. PICK g : g = AddedFront(r, v)
      OBVIOUS
    <2>5. Ring(g)
      BY <2>4, AddedFrontRing
    <2>6. g = [r EXCEPT !.buffer = c, !.head = a, !.size = s + 1]
      BY <1>2, <2>1, <2>2, <2>4 DEF AddedFront
    <2>7. g.buffer = c /\ g.head = a /\ g.size = s + 1 /\ g.capacity = n
      BY <1>2, <2>6 DEF Struct
    <2>8. IsSlot(n, h, 0, h)
      BY <1>3 DEF IsSlot
    <2>9. MovedBack(b, n, h, b, 0, 0) /\ Stayed(b, n, h, b, 0, s)
      BY <1>3 DEF Stayed, MovedBack
    <2>10. Holds(c, n, Back(n, h), s + 1, With(C, s, 0, v))
      <3>1. Stored(c, n, b, Back(n, h), v)
        BY <2>1, <2>3
      <3> QED
        BY <1>3, <1>5, <2>8, <2>9, <3>1, GapBefore, Zenon
    <2>11. Holds(c, n, a, s + 1, With(C, s, 0, v))
      BY <2>1, <2>10
    <2>12. Contents(g) = With(C, s, 0, v)
      BY <2>5, <2>7, <2>11, FieldsHold, Zenon
    <2> QED
      BY <2>4, <2>12
  <1> QED
    BY <1>2, <1>4, <1>6, <1>7

LEMMA RemainingItems ==
  ASSUME NEW r, Ring(r), r.size > 0
  PROVE  /\ Contents(WithoutBack(r)) = Without(Contents(r), r.size, r.size - 1)
         /\ Contents(WithoutFront(r)) = Without(Contents(r), r.size, 0)
  <1>1. PICK n, h, t, s, b : Parts(r, n, h, t, s, b)
    BY RingParts
  <1>2. /\ r.buffer = b /\ r.head = h /\ r.tail = t /\ r.size = s /\ r.capacity = n
        /\ r \in Struct(n)
    BY <1>1, RingFields DEF Parts
  <1>3. /\ n \in Nat /\ n >= 2
        /\ h \in 0 .. n - 1 /\ t \in 0 .. n - 1 /\ s \in 1 .. n - 1
        /\ s - 1 \in 0 .. s - 1 /\ 0 \in 0 .. s - 1
    BY <1>1, <1>2, PartsTypes
  <1>4. PICK C : C = Contents(r)
    OBVIOUS
  <1>5. Holds(b, n, h, s, C)
    BY <1>1, <1>4, ContentsHeld
  <1>6. PICK l : l = s - 1
    OBVIOUS
  <1>7. Contents(WithoutBack(r)) = Without(C, s, l)
    <2>1. PICK g : g = WithoutBack(r)
      OBVIOUS
    <2>2. Ring(g)
      BY <2>1, WithoutRing
    <2>3. g = [r EXCEPT !.tail = (t + n - 1) % n, !.size = s - 1]
      BY <1>2, <2>1 DEF WithoutBack
    <2>4. g.buffer = b /\ g.head = h /\ g.size = s - 1 /\ g.capacity = n
      BY <1>2, <2>3 DEF Struct
    <2>5. Stayed(b, n, h, b, 0, l) /\ MovedBack(b, n, h, b, l + 1, s) /\ l \in 0 .. s - 1
      BY <1>3, <1>6 DEF Stayed, MovedBack
    <2>6. Holds(b, n, h, s - 1, Without(C, s, l))
      BY <1>3, <1>5, <2>5, ClosedAfter, Zenon
    <2>7. Contents(g) = Without(C, s, l)
      BY <2>2, <2>4, <2>6, FieldsHold, Zenon
    <2> QED
      BY <2>1, <2>7
  <1>8. Contents(WithoutFront(r)) = Without(C, s, 0)
    <2>1. PICK g : g = WithoutFront(r)
      OBVIOUS
    <2>2. Ring(g)
      BY <2>1, WithoutRing
    <2>3. PICK a \in 0 .. n - 1 : a = On(n, h) /\ a = (h + 1) % n
      BY <1>3, BackIs
    <2>4. g = [r EXCEPT !.head = a, !.size = s - 1]
      BY <1>2, <2>1, <2>3 DEF WithoutFront
    <2>5. g.buffer = b /\ g.head = a /\ g.size = s - 1 /\ g.capacity = n
      BY <1>2, <2>4 DEF Struct
    <2>6. MovedOn(b, n, h, b, 0, 0) /\ Stayed(b, n, h, b, 0 + 1, s)
      BY <1>3 DEF Stayed, MovedOn
    <2>7. Holds(b, n, On(n, h), s - 1, Without(C, s, 0))
      BY <1>3, <1>5, <2>6, ClosedBefore, Zenon
    <2>8. Holds(b, n, a, s - 1, Without(C, s, 0))
      BY <2>3, <2>7
    <2>9. Contents(g) = Without(C, s, 0)
      BY <2>2, <2>5, <2>8, FieldsHold, Zenon
    <2> QED
      BY <2>1, <2>9
  <1> QED
    BY <1>2, <1>4, <1>6, <1>7, <1>8

LEMMA SetItems ==
  ASSUME NEW r, Ring(r), NEW i \in 0 .. r.size - 1, NEW v \in Item,
         Contents(r) \in Seq(Item)
  PROVE  Contents([r EXCEPT !.buffer = Store(@, RealIndex(r, i), v)])
           = ReplaceAt(Contents(r), i + 1, v)
  <1>1. PICK n, h, t, s, b : Parts(r, n, h, t, s, b)
    BY RingParts
  <1>2. /\ r.buffer = b /\ r.head = h /\ r.tail = t /\ r.size = s /\ r.capacity = n
        /\ r \in Struct(n) /\ n \in MinCapacity .. MaxCapacity
    BY <1>1, RingFields DEF Parts
  <1>3. /\ n \in Nat /\ n >= 2 /\ b \in [0 .. n - 1 -> Slot]
        /\ h \in 0 .. n - 1 /\ t \in 0 .. n - 1 /\ s \in 0 .. n - 1
        /\ i \in 0 .. s - 1 /\ i \in 0 .. n - 1 /\ v \in Slot
    BY <1>1, <1>2, PartsTypes DEF Slot
  <1>4. PICK p \in 0 .. n - 1 : p = (h + i) % n
    BY <1>3, SlotOfIndex
  <1>5. IsSlot(n, h, i, p)
    BY <1>3, <1>4, SlotOfIndex DEF IsSlot
  <1>6. PICK C \in Seq(Item) : C = Contents(r)
    OBVIOUS
  <1>7. Holds(b, n, h, s, C)
    BY <1>1, <1>6, ContentsHeld
  <1>8. PICK c : c = Store(b, p, v)
    OBVIOUS
  <1>9. c \in [0 .. n - 1 -> Slot] /\ Stored(c, n, b, p, v)
    BY <1>3, <1>4, <1>8, StoreStores
  <1>10. PICK g : g = [r EXCEPT !.buffer = c]
    OBVIOUS
  <1>11. [r EXCEPT !.buffer = Store(@, RealIndex(r, i), v)] = g
    BY <1>2, <1>4, <1>8, <1>10 DEF RealIndex
  <1>12. /\ g \in Struct(n)
         /\ g.buffer = c /\ g.head = h /\ g.tail = t /\ g.size = s /\ g.capacity = n
    BY <1>2, <1>9, <1>10 DEF Struct
  <1>13. Parts(g, n, h, t, s, c)
    BY <1>1, <1>9, <1>12 DEF Parts
  <1>14. PICK w : w = ReplaceAt(C, i + 1, v)
    OBVIOUS
  <1>15. Len(C) = s /\ w = [k \in 1 .. s |-> IF k = i + 1 THEN v ELSE C[k]]
    <2>1. Len(C) = s
      BY <1>2, <1>6, ContentsLength
    <2>2. C = [k \in 1 .. s |-> C[k]]
      BY <1>7 DEF Holds
    <2>3. w = [C EXCEPT ![i + 1] = v]
      BY <1>14 DEF ReplaceAt
    <2>4. w = [k \in 1 .. s |-> IF k = i + 1 THEN v ELSE C[k]]
      BY <2>2, <2>3, Zenon
    <2> QED
      BY <2>1, <2>4
  <1>16. ASSUME NEW k \in 0 .. s - 1, NEW j \in 0 .. n - 1, IsSlot(n, h, k, j)
         PROVE  c[j] = w[k + 1]
    <2>1. CASE k = i
      <3>1. j = p /\ k + 1 \in 1 .. s
        BY <1>3, <1>5, <1>16, <2>1 DEF IsSlot
      <3> QED
        BY <1>9, <1>15, <2>1, <3>1 DEF Stored
    <2>2. CASE k # i
      <3>1. j # p /\ k + 1 \in 1 .. s /\ k + 1 # i + 1
        BY <1>3, <1>5, <1>16, <2>2 DEF IsSlot
      <3>2. c[j] = b[j]
        BY <1>9, <3>1 DEF Stored
      <3>3. b[j] = C[k + 1]
        BY <1>7, <1>16 DEF Holds
      <3> QED
        BY <1>15, <3>1, <3>2, <3>3
    <2> QED
      BY <2>1, <2>2
  <1>17. w = [k \in 1 .. s |-> w[k]]
    BY <1>15
  <1>18. Holds(c, n, h, s, w)
    BY <1>16, <1>17 DEF Holds
  <1>19. Contents(g) = w
    BY <1>13, <1>18, ContentsAre, Zenon
  <1> QED
    BY <1>6, <1>11, <1>14, <1>19

LEMMA NoItems == ASSUME NEW r, r.size = 0 PROVE Contents(r) = <<>>
  <1>1. 1 .. 0 = {}
    OBVIOUS
  <1> QED
    BY <1>1 DEF Contents

(* As sequences. *)
LEMMA WithSeq ==
  ASSUME NEW s \in Seq(Item), NEW n, n = Len(s), NEW i \in 0 .. n, NEW v \in Item
  PROVE  /\ With(s, n, i, v) = InsertAt(s, i + 1, v)
         /\ With(s, n, i, v) \in Seq(Item)
         /\ i = n => With(s, n, i, v) = Append(s, v)
         /\ i = 0 => With(s, n, i, v) = <<v>> \o s
  <1>1. n \in Nat /\ \A j \in 1 .. n : s[j] \in Item
    BY LenProperties
  <1>2. PICK w : w = With(s, n, i, v)
    OBVIOUS
  <1>3. w = [j \in 1 .. n + 1 |-> IF j <= i THEN s[j] ELSE IF j = i + 1 THEN v ELSE s[j - 1]]
    BY <1>2 DEF With
  <1>4. w = InsertAt(s, i + 1, v)
    BY <1>1, <1>3, InsertAtItems
  <1>5. w \in Seq(Item)
    <2>1. ASSUME NEW j \in 1 .. n + 1
          PROVE  (IF j <= i THEN s[j] ELSE IF j = i + 1 THEN v ELSE s[j - 1]) \in Item
      <3>1. CASE j <= i
        BY <1>1, <3>1
      <3>2. CASE j = i + 1
        BY <3>2
      <3>3. CASE j > i + 1
        <4>1. j - 1 \in 1 .. n /\ ~(j <= i) /\ j # i + 1
          BY <1>1, <3>3
        <4> QED
          BY <1>1, <4>1
      <3> QED
        BY <1>1, <3>1, <3>2, <3>3
    <2>2. w \in [1 .. n + 1 -> Item]
      BY <1>3, <2>1
    <2>3. n + 1 \in Nat
      BY <1>1
    <2> QED
      BY <2>2, <2>3
  <1>6. ASSUME i = n PROVE w = Append(s, v)
    <2>1. Append(s, v) = [j \in 1 .. n + 1 |-> IF j <= n THEN s[j] ELSE v]
      BY AppendItems
    <2>2. \A j \in 1 .. n + 1 : (IF j <= i THEN s[j] ELSE IF j = i + 1 THEN v ELSE s[j - 1])
                                  = IF j <= n THEN s[j] ELSE v
      BY <1>1, <1>6
    <2>3. w = Append(s, v)
      BY <1>3, <2>1, <2>2
    <2> QED
      BY <2>3
  <1>7. ASSUME i = 0 PROVE w = <<v>> \o s
    <2>1. <<v>> \o s = [j \in 1 .. n + 1 |-> IF j = 1 THEN v ELSE s[j - 1]]
      BY PrependItems
    <2>2. \A j \in 1 .. n + 1 : (IF j <= i THEN s[j] ELSE IF j = i + 1 THEN v ELSE s[j - 1])
                                  = IF j = 1 THEN v ELSE s[j - 1]
      BY <1>1, <1>7
    <2>3. w = <<v>> \o s
      BY <1>3, <2>1, <2>2
    <2> QED
      BY <2>3
  <1> QED
    BY <1>2, <1>4, <1>5, <1>6, <1>7

LEMMA WithoutSeq ==
  ASSUME NEW s \in Seq(Item), NEW n, n = Len(s), NEW i \in 0 .. n - 1
  PROVE  /\ Without(s, n, i) = RemoveAt(s, i + 1)
         /\ Without(s, n, i) \in Seq(Item)
         /\ i = n - 1 => Without(s, n, i) = Front(s)
         /\ i = 0 => Without(s, n, i) = Tail(s)
  <1>1. n \in Nat /\ n > 0 /\ s # <<>> /\ \A j \in 1 .. n : s[j] \in Item
    BY LenProperties, EmptySeq
  <1>2. PICK w : w = Without(s, n, i)
    OBVIOUS
  <1>3. w = [j \in 1 .. n - 1 |-> IF j <= i THEN s[j] ELSE s[j + 1]]
    BY <1>2 DEF Without
  <1>4. w = RemoveAt(s, i + 1)
    BY <1>1, <1>3, RemoveAtItems
  <1>5. w \in Seq(Item)
    <2>1. \A j \in 1 .. n - 1 : (IF j <= i THEN s[j] ELSE s[j + 1]) \in Item
      BY <1>1
    <2>2. w \in [1 .. n - 1 -> Item]
      BY <1>3, <2>1
    <2>3. n - 1 \in Nat
      BY <1>1
    <2> QED
      BY <2>2, <2>3
  <1>6. ASSUME i = n - 1 PROVE w = Front(s)
    <2>1. Front(s) = [j \in 1 .. n - 1 |-> s[j]]
      BY <1>1, FrontItems
    <2>2. \A j \in 1 .. n - 1 : (IF j <= i THEN s[j] ELSE s[j + 1]) = s[j]
      BY <1>1, <1>6
    <2> QED
      BY <1>3, <2>1, <2>2
  <1>7. ASSUME i = 0 PROVE w = Tail(s)
    <2>1. Tail(s) = [j \in 1 .. n - 1 |-> s[j + 1]]
      BY <1>1, TailItems
    <2>2. \A j \in 1 .. n - 1 : (IF j <= i THEN s[j] ELSE s[j + 1]) = s[j + 1]
      BY <1>1, <1>7
    <2> QED
      BY <1>3, <2>1, <2>2
  <1> QED
    BY <1>2, <1>4, <1>5, <1>6, <1>7

-----------------------------------------------------------------------------
(* The rest of the inductive invariant: every slot a ring counts is an     *)
(* item.  Value is what Promise calls contents.                            *)
Items == \A d \in Handle : Contents(arr[d]) \in Seq(Item)

Value == [d \in Handle |-> Contents(arr[d])]

LEMMA ValueType ==
  ASSUME Inv, Items, NEW d \in Handle
  PROVE  /\ Ring(arr[d]) /\ arr[d].size \in Nat
         /\ Value[d] = Contents(arr[d])
         /\ Value[d] \in Seq(Item)
         /\ Len(Value[d]) = arr[d].size
  BY ContentsLength, RingFields DEF Inv, Items, Value

LEMMA ArrUpdate ==
  ASSUME Inv, Items, NEW d \in Handle, NEW q, Contents(q) \in Seq(Item),
         arr' = [arr EXCEPT ![d] = q]
  PROVE  Items' /\ Value' = [Value EXCEPT ![d] = Contents(q)]
  <1>1. arr' = [e \in Handle |-> IF e = d THEN q ELSE arr[e]]
    BY DEF Inv
  <1> QED
    BY <1>1 DEF Items, Value

LEMMA RefusedKeeps ==
  ASSUME Items, OutOfMemory
  PROVE  Items' /\ Promise!OutOfMemory
  <1>1. Items'
    BY DEF Items, OutOfMemory
  <1>2. Value' = Value
    BY DEF OutOfMemory, Value
  <1> QED
    BY <1>1, <1>2 DEF OutOfMemory, Value, Promise!OutOfMemory

LEMMA UpdateKeeps ==
  ASSUME Inv, Items, NEW d \in Handle, NEW q, Contents(q) \in Seq(Item), Update(d, q)
  PROVE  Items' /\ Promise!Becomes(d, Contents(q))
  <1>1. arr' = [arr EXCEPT ![d] = q] /\ ret' = "OK" /\ exists' = exists
    BY DEF Update
  <1>2. Items' /\ Value' = [Value EXCEPT ![d] = Contents(q)]
    BY <1>1, ArrUpdate
  <1> QED
    BY <1>1, <1>2 DEF Value, Promise!Becomes

LEMMA AnswersAre ==
  ASSUME NEW a, NEW b, NEW c
  PROVE  /\ Promise!Ctor(a) <=> Promise!Answers(<<"ctor", a>>)
         /\ Promise!Dtor(a) <=> Promise!Answers(<<"dtor", a>>)
         /\ Promise!Clear(a) <=> Promise!Answers(<<"clear", a>>)
         /\ Promise!PushBack(a, b) <=> Promise!Answers(<<"push_back", a, b>>)
         /\ Promise!PushFront(a, b) <=> Promise!Answers(<<"push_front", a, b>>)
         /\ Promise!Insert(a, b, c) <=> Promise!Answers(<<"insert", a, b, c>>)
         /\ Promise!PopBack(a) <=> Promise!Answers(<<"pop_back", a>>)
         /\ Promise!PopFront(a) <=> Promise!Answers(<<"pop_front", a>>)
         /\ Promise!Erase(a, b) <=> Promise!Answers(<<"erase", a, b>>)
         /\ Promise!Set(a, b, c) <=> Promise!Answers(<<"set", a, b, c>>)
         /\ Promise!Swap(a, b) <=> Promise!Answers(<<"swap", a, b>>)
  BY DEF Promise!Answers

-----------------------------------------------------------------------------
(* Every call keeps the items and the promise. *)

LEMMA CtorStep ==
  ASSUME Inv, Items, NEW d \in Handle, Ctor(d)
  PROVE  Items' /\ Promise!Answers(call')
  <1>1. call' = <<"ctor", d>> /\ d \notin exists
    BY DEF Ctor
  <1>2. CASE OutOfMemory
    <2>1. Items' /\ Promise!OutOfMemory
      BY <1>2, RefusedKeeps
    <2>2. Promise!Ctor(d)
      BY <1>1, <2>1 DEF Promise!Ctor
    <2> QED
      BY <1>1, <2>1, <2>2, AnswersAre, Zenon
  <1>3. CASE ~OutOfMemory
    <2>1. exists' = exists \cup {d} /\ arr' = [arr EXCEPT ![d] = NewArray] /\ ret' = "OK"
      BY <1>3 DEF Ctor
    <2>2. Contents(NewArray) = <<>> /\ <<>> \in Seq(Item)
      BY NoItems DEF NewArray
    <2>3. Items' /\ Value' = [Value EXCEPT ![d] = <<>>]
      BY <2>1, <2>2, ArrUpdate
    <2>4. Promise!Ctor(d)
      BY <1>1, <2>1, <2>3 DEF Value, Promise!Ctor
    <2> QED
      BY <1>1, <2>3, <2>4, AnswersAre, Zenon
  <1> QED
    BY <1>2, <1>3

LEMMA DtorStep ==
  ASSUME Inv, Items, NEW d \in Handle, Dtor(d)
  PROVE  Items' /\ Promise!Answers(call')
  <1>1. /\ call' = <<"dtor", d>> /\ d \in exists
        /\ exists' = exists \ {d} /\ arr' = [arr EXCEPT ![d] = NewArray] /\ ret' = "OK"
    BY DEF Dtor
  <1>2. Contents(NewArray) = <<>> /\ <<>> \in Seq(Item)
    BY NoItems DEF NewArray
  <1>3. Items' /\ Value' = [Value EXCEPT ![d] = <<>>]
    BY <1>1, <1>2, ArrUpdate
  <1>4. Promise!Dtor(d)
    BY <1>1, <1>3 DEF Value, Promise!Dtor
  <1> QED
    BY <1>1, <1>3, <1>4, AnswersAre, Zenon

LEMMA ClearStep ==
  ASSUME Inv, Items, NEW d \in Handle, Clear(d)
  PROVE  Items' /\ Promise!Answers(call')
  <1> DEFINE q == [arr[d] EXCEPT !.head = 0, !.tail = 0, !.size = 0]
  <1>1. call' = <<"clear", d>> /\ d \in exists /\ Update(d, q)
    BY DEF Clear
  <1>2. Contents(q) = <<>> /\ <<>> \in Seq(Item)
    <2>1. arr[d] \in Struct(arr[d].capacity)
      BY ValueType, RingFields
    <2>2. q.size = 0
      BY <2>1 DEF Struct
    <2> HIDE DEF q
    <2>3. Contents(q) = <<>>
      BY <2>2, NoItems
    <2> QED
      BY <2>3
  <1> HIDE DEF q
  <1>3. Items' /\ Promise!Becomes(d, <<>>)
    BY <1>1, <1>2, UpdateKeeps
  <1>4. Promise!Clear(d)
    BY <1>1, <1>3 DEF Promise!Clear
  <1> QED
    BY <1>1, <1>3, <1>4, AnswersAre, Zenon

(* A struct with room holds what the struct of the call held.              *)
LEMMA RoomItems ==
  ASSUME Inv, Items, NEW d \in Handle, NEW r \in WithRoom(arr[d])
  PROVE  /\ Ring(r) /\ r.size < r.capacity - 1
         /\ Contents(r) = Value[d] /\ r.size = Len(Value[d]) /\ r.size = arr[d].size
  BY ValueType, WithRoomRing, WithRoomItems

LEMMA PushBackStep ==
  ASSUME Inv, Items, NEW d \in Handle, NEW v \in Item, PushBack(d, v)
  PROVE  Items' /\ Promise!Answers(call')
  <1>1. call' = <<"push_back", d, v>> /\ d \in exists
    BY DEF PushBack
  <1>2. CASE OutOfMemory
    <2>1. Items' /\ Promise!OutOfMemory
      BY <1>2, RefusedKeeps
    <2>2. Promise!PushBack(d, v)
      BY <1>1, <2>1 DEF Promise!PushBack
    <2> QED
      BY <1>1, <2>1, <2>2, AnswersAre, Zenon
  <1>3. CASE ~OutOfMemory
    <2>1. PICK r \in WithRoom(arr[d]) : Update(d, AddedBack(r, v))
      BY <1>3 DEF PushBack
    <2>2. PICK n \in Nat : n = Len(Value[d])
      BY ValueType
    <2>3. Contents(AddedBack(r, v)) = With(Value[d], n, n, v)
      BY <2>2, RoomItems, AddedItems
    <2>4. With(Value[d], n, n, v) = Append(Value[d], v) /\ With(Value[d], n, n, v) \in Seq(Item)
      <3>1. n \in 0 .. n
        OBVIOUS
      <3> QED
        BY <2>2, <3>1, ValueType, WithSeq
    <2>5. Items' /\ Promise!Becomes(d, Append(Value[d], v))
      BY <2>1, <2>3, <2>4, UpdateKeeps
    <2>6. Promise!PushBack(d, v)
      BY <1>1, <2>5 DEF Promise!PushBack, Value
    <2> QED
      BY <1>1, <2>5, <2>6, AnswersAre, Zenon
  <1> QED
    BY <1>2, <1>3

LEMMA PushFrontStep ==
  ASSUME Inv, Items, NEW d \in Handle, NEW v \in Item, PushFront(d, v)
  PROVE  Items' /\ Promise!Answers(call')
  <1>1. call' = <<"push_front", d, v>> /\ d \in exists
    BY DEF PushFront
  <1>2. CASE OutOfMemory
    <2>1. Items' /\ Promise!OutOfMemory
      BY <1>2, RefusedKeeps
    <2>2. Promise!PushFront(d, v)
      BY <1>1, <2>1 DEF Promise!PushFront
    <2> QED
      BY <1>1, <2>1, <2>2, AnswersAre, Zenon
  <1>3. CASE ~OutOfMemory
    <2>1. PICK r \in WithRoom(arr[d]) : Update(d, AddedFront(r, v))
      BY <1>3 DEF PushFront
    <2>2. PICK n \in Nat : n = Len(Value[d])
      BY ValueType
    <2>3. Contents(AddedFront(r, v)) = With(Value[d], n, 0, v)
      BY <2>2, RoomItems, AddedItems
    <2>4. With(Value[d], n, 0, v) = <<v>> \o Value[d] /\ With(Value[d], n, 0, v) \in Seq(Item)
      <3>1. 0 \in 0 .. n
        OBVIOUS
      <3> QED
        BY <2>2, <3>1, ValueType, WithSeq
    <2>5. Items' /\ Promise!Becomes(d, <<v>> \o Value[d])
      BY <2>1, <2>3, <2>4, UpdateKeeps
    <2>6. Promise!PushFront(d, v)
      BY <1>1, <2>5 DEF Promise!PushFront, Value
    <2> QED
      BY <1>1, <2>5, <2>6, AnswersAre, Zenon
  <1> QED
    BY <1>2, <1>3

LEMMA InsertStep ==
  ASSUME Inv, Items, NEW d \in Handle, NEW i, NEW v \in Item, InsertMiddle(d, i, v)
  PROVE  Items' /\ Promise!Answers(call')
  <1>1. call' = <<"insert", d, i, v>> /\ d \in exists /\ i \in 1 .. arr[d].size - 1
    BY DEF InsertMiddle
  <1>2. PICK n \in Nat : n = Len(Value[d]) /\ n = arr[d].size
    BY ValueType
  <1>3. i \in 1 .. n - 1 /\ i \in 0 .. n
    BY <1>1, <1>2
  <1>4. CASE OutOfMemory
    <2>1. Items' /\ Promise!OutOfMemory
      BY <1>4, RefusedKeeps
    <2>2. Promise!Insert(d, i, v)
      BY <1>1, <1>2, <1>3, <2>1 DEF Promise!Insert, Value
    <2> QED
      BY <1>1, <2>1, <2>2, AnswersAre, Zenon
  <1>5. CASE ~OutOfMemory
    <2>1. PICK r \in WithRoom(arr[d]) : Update(d, Inserted(r, i, v))
      BY <1>5 DEF InsertMiddle
    <2>2. Contents(Inserted(r, i, v)) = With(Value[d], n, i, v)
      BY <1>2, <1>3, RoomItems, InsertedItems
    <2>3. /\ With(Value[d], n, i, v) = InsertAt(Value[d], i + 1, v)
          /\ With(Value[d], n, i, v) \in Seq(Item)
      BY <1>2, <1>3, ValueType, WithSeq
    <2>4. Items' /\ Promise!Becomes(d, InsertAt(Value[d], i + 1, v))
      BY <2>1, <2>2, <2>3, UpdateKeeps
    <2>5. Promise!Insert(d, i, v)
      <3>1. InsertAt(Value[d], i + 1, v) = SubSeq(Value[d], 1, i) \o <<v>> \o SubSeq(Value[d], i + 1, Len(Value[d]))
        <4>1. i \in Int
          BY <1>3
        <4> QED
          BY <4>1, SequenceOperators, Zenon
      <3>2. Promise!Becomes(d, SubSeq(Value[d], 1, i) \o <<v>> \o SubSeq(Value[d], i + 1, Len(Value[d])))
        BY <2>4, <3>1 DEF Promise!Becomes
      <3> QED
        BY <1>1, <1>2, <1>3, <3>2 DEF Promise!Insert, Value
    <2> QED
      BY <1>1, <2>4, <2>5, AnswersAre, Zenon
  <1> QED
    BY <1>4, <1>5

LEMMA PopBackStep ==
  ASSUME Inv, Items, NEW d \in Handle, PopBack(d)
  PROVE  Items' /\ Promise!Answers(call')
  <1>1. /\ call' = <<"pop_back", d>> /\ d \in exists /\ arr[d].size > 0
        /\ Update(d, WithoutBack(arr[d]))
    BY DEF PopBack
  <1>2. PICK n \in Nat : n = Len(Value[d]) /\ n = arr[d].size /\ n > 0
    BY <1>1, ValueType
  <1>3. Contents(WithoutBack(arr[d])) = Without(Value[d], n, n - 1)
    BY <1>1, <1>2, ValueType, RemainingItems
  <1>4. Without(Value[d], n, n - 1) = Front(Value[d]) /\ Without(Value[d], n, n - 1) \in Seq(Item)
    <2>1. n - 1 \in 0 .. n - 1
      BY <1>2
    <2> QED
      BY <1>2, <2>1, ValueType, WithoutSeq
  <1>5. Items' /\ Promise!Becomes(d, Front(Value[d]))
    BY <1>1, <1>3, <1>4, UpdateKeeps
  <1>6. Value[d] # <<>>
    <2>1. Len(<<>>) = 0 /\ n # 0
      BY <1>2, EmptySeq
    <2> QED
      BY <1>2, <2>1, Zenon
  <1>7. Promise!PopBack(d)
    <2>1. Promise!Becomes(d, SubSeq(Value[d], 1, Len(Value[d]) - 1))
      BY <1>5 DEF Promise!Becomes, Front
    <2> QED
      BY <1>1, <1>6, <2>1 DEF Promise!PopBack, Value
  <1> QED
    BY <1>1, <1>5, <1>7, AnswersAre, Zenon

LEMMA PopFrontStep ==
  ASSUME Inv, Items, NEW d \in Handle, PopFront(d)
  PROVE  Items' /\ Promise!Answers(call')
  <1>1. /\ call' = <<"pop_front", d>> /\ d \in exists /\ arr[d].size > 0
        /\ Update(d, WithoutFront(arr[d]))
    BY DEF PopFront
  <1>2. PICK n \in Nat : n = Len(Value[d]) /\ n = arr[d].size /\ n > 0
    BY <1>1, ValueType
  <1>3. Contents(WithoutFront(arr[d])) = Without(Value[d], n, 0)
    BY <1>1, <1>2, ValueType, RemainingItems
  <1>4. Without(Value[d], n, 0) = Tail(Value[d]) /\ Without(Value[d], n, 0) \in Seq(Item)
    <2>1. 0 \in 0 .. n - 1
      BY <1>2
    <2> QED
      BY <1>2, <2>1, ValueType, WithoutSeq
  <1>5. Items' /\ Promise!Becomes(d, Tail(Value[d]))
    BY <1>1, <1>3, <1>4, UpdateKeeps
  <1>6. Value[d] # <<>>
    <2>1. Len(<<>>) = 0 /\ n # 0
      BY <1>2, EmptySeq
    <2> QED
      BY <1>2, <2>1, Zenon
  <1>7. Promise!PopFront(d)
    BY <1>1, <1>5, <1>6 DEF Promise!PopFront, Value
  <1> QED
    BY <1>1, <1>5, <1>7, AnswersAre, Zenon

LEMMA EraseStep ==
  ASSUME Inv, Items, NEW d \in Handle, NEW i, EraseMiddle(d, i)
  PROVE  Items' /\ Promise!Answers(call')
  <1>1. /\ call' = <<"erase", d, i>> /\ d \in exists /\ i \in 1 .. arr[d].size - 2
        /\ Update(d, Erased(arr[d], i))
    BY DEF EraseMiddle
  <1>2. PICK n \in Nat : n = Len(Value[d]) /\ n = arr[d].size
    BY ValueType
  <1>3. i \in 1 .. n - 2 /\ i \in 0 .. n - 1
    BY <1>1, <1>2
  <1>4. Contents(Erased(arr[d], i)) = Without(Value[d], n, i)
    BY <1>2, <1>3, ValueType, ErasedItems
  <1>5. /\ Without(Value[d], n, i) = RemoveAt(Value[d], i + 1)
        /\ Without(Value[d], n, i) \in Seq(Item)
    BY <1>2, <1>3, ValueType, WithoutSeq
  <1>6. Items' /\ Promise!Becomes(d, RemoveAt(Value[d], i + 1))
    BY <1>1, <1>4, <1>5, UpdateKeeps
  <1>7. Promise!Erase(d, i)
    <2>1. RemoveAt(Value[d], i + 1) = SubSeq(Value[d], 1, i) \o SubSeq(Value[d], i + 2, Len(Value[d]))
      <3>1. i \in Int
        BY <1>3
      <3> QED
        BY <3>1, SequenceOperators, Zenon
    <2>2. Promise!Becomes(d, SubSeq(Value[d], 1, i) \o SubSeq(Value[d], i + 2, Len(Value[d])))
      BY <1>6, <2>1 DEF Promise!Becomes
    <2> QED
      BY <1>1, <1>2, <1>3, <2>2 DEF Promise!Erase, Value
  <1> QED
    BY <1>1, <1>6, <1>7, AnswersAre, Zenon

LEMMA SetStep ==
  ASSUME Inv, Items, NEW d \in Handle, NEW i, NEW v \in Item, Set(d, i, v)
  PROVE  Items' /\ Promise!Answers(call')
  <1> DEFINE q == [arr[d] EXCEPT !.buffer = Store(@, RealIndex(arr[d], i), v)]
  <1>1. /\ call' = <<"set", d, i, v>> /\ d \in exists /\ i \in 0 .. arr[d].size - 1
        /\ Update(d, q)
    BY DEF Set
  <1>2. PICK n \in Nat : n = Len(Value[d]) /\ n = arr[d].size
    BY ValueType
  <1>3. i \in 0 .. n - 1
    BY <1>1, <1>2
  <1>4. Contents(q) = ReplaceAt(Value[d], i + 1, v)
    BY <1>1, ValueType, SetItems
  <1> HIDE DEF q
  <1>5. ReplaceAt(Value[d], i + 1, v) \in Seq(Item)
    <2>1. PICK s \in Seq(Item) : s = Value[d]
      BY ValueType
    <2>2. PICK j \in 1 .. Len(s) : j = i + 1
      <3>1. i + 1 \in 1 .. n
        BY <1>3
      <3>2. n = Len(s)
        BY <1>2, <2>1, Zenon
      <3> QED
        BY <3>1, <3>2, Zenon
    <2>3. [s EXCEPT ![j] = v] \in Seq(Item)
      BY ExceptSeq, Zenon
    <2> QED
      BY <2>1, <2>2, <2>3 DEF ReplaceAt
  <1>6. Items' /\ Promise!Becomes(d, ReplaceAt(Value[d], i + 1, v))
    BY <1>1, <1>4, <1>5, UpdateKeeps
  <1>7. Promise!Set(d, i, v)
    <2>1. Promise!Becomes(d, [Value[d] EXCEPT ![i + 1] = v])
      BY <1>6 DEF Promise!Becomes, ReplaceAt
    <2> QED
      BY <1>1, <1>2, <1>3, <2>1 DEF Promise!Set, Value
  <1> QED
    BY <1>1, <1>6, <1>7, AnswersAre, Zenon

LEMMA SwapStep ==
  ASSUME Inv, Items, NEW a \in Handle, NEW b \in Handle, Swap(a, b)
  PROVE  Items' /\ Promise!Answers(call')
  <1>1. /\ call' = <<"swap", a, b>> /\ a \in exists /\ b \in exists
        /\ arr' = [arr EXCEPT ![a] = arr[b], ![b] = arr[a]]
        /\ ret' = "OK" /\ exists' = exists
    BY DEF Swap
  <1>2. arr' = [e \in Handle |-> IF e = b THEN arr[a] ELSE IF e = a THEN arr[b] ELSE arr[e]]
    BY <1>1 DEF Inv
  <1>3. Items'
    BY <1>2 DEF Items
  <1>4. Value' = [e \in Handle |-> IF e = b THEN Value[a] ELSE IF e = a THEN Value[b] ELSE Value[e]]
    BY <1>2 DEF Value
  <1>5. Value' = [Value EXCEPT ![a] = Value[b], ![b] = Value[a]]
    BY <1>4 DEF Value
  <1>6. Promise!Swap(a, b)
    BY <1>1, <1>5 DEF Promise!Swap, Value
  <1> QED
    BY <1>1, <1>3, <1>6, AnswersAre, Zenon

LEMMA NextStep ==
  ASSUME Inv, Items, Next
  PROVE  Items' /\ Promise!Answers(call')
  <1>1. ASSUME NEW d \in Handle, Ctor(d) \/ Dtor(d) \/ PopBack(d) \/ PopFront(d) \/ Clear(d)
        PROVE  Items' /\ Promise!Answers(call')
    BY <1>1, CtorStep, DtorStep, PopBackStep, PopFrontStep, ClearStep
  <1>2. ASSUME NEW d \in Handle, NEW v \in Item, PushBack(d, v) \/ PushFront(d, v)
        PROVE  Items' /\ Promise!Answers(call')
    BY <1>2, PushBackStep, PushFrontStep
  <1>3. ASSUME NEW d \in Handle, NEW v \in Item, NEW i \in 0 .. arr[d].size, Insert(d, i, v)
        PROVE  Items' /\ Promise!Answers(call')
    BY <1>3, PushBackStep, PushFrontStep, InsertStep DEF Insert
  <1>4. ASSUME NEW d \in Handle, NEW i \in 0 .. arr[d].size - 1, Erase(d, i)
        PROVE  Items' /\ Promise!Answers(call')
    BY <1>4, PopBackStep, PopFrontStep, EraseStep DEF Erase
  <1>5. ASSUME NEW d \in Handle, NEW v \in Item, NEW i \in 0 .. arr[d].size - 1, Set(d, i, v)
        PROVE  Items' /\ Promise!Answers(call')
    BY <1>5, SetStep
  <1>6. ASSUME NEW a \in Handle, NEW b \in Handle, Swap(a, b)
        PROVE  Items' /\ Promise!Answers(call')
    BY <1>6, SwapStep
  <1> QED
    BY <1>1, <1>2, <1>3, <1>4, <1>5, <1>6, Zenon DEF Next

LEMMA InitItems == Init => Items
  <1>1. Contents(NewArray) = <<>> /\ <<>> \in Seq(Item)
    BY NoItems DEF NewArray
  <1> QED
    BY <1>1 DEF Init, Items

LEMMA StutterItems == ASSUME Items, UNCHANGED vars PROVE Items'
  BY DEF Items, vars

(* Whatever was inserted, erased and reallocated, and wherever the ring    *)
(* starts and wraps, each slot it counts holds an item the client stored.  *)
THEOREM NoJunk == Spec => []NoJunkInv
  <1>1. Inv /\ Items => NoJunkInv
    <2> SUFFICES ASSUME Inv, Items, NEW d \in Handle, NEW i \in 1 .. arr[d].size
                 PROVE  Contents(arr[d])[i] \in Item
      BY DEF NoJunkInv
    <2>1. PICK s \in Seq(Item) : s = Contents(arr[d]) /\ Len(s) = arr[d].size
      BY ValueType
    <2> QED
      BY <2>1, LenProperties
  <1>2. Inv /\ Items /\ [Next]_vars => Items'
    BY NextStep, StutterItems
  <1> QED
    BY <1>1, <1>2, InitInv, InitItems, NextInv, PTL DEF Spec

(* Every call does to the sequence a ring stands for what the sequence     *)
(* table promises, or runs out of memory and changes nothing:              *)
(* circular-array.c implements isequence.h.                                *)
THEOREM ImplementsSequence == Spec => CallsKeepPromise
  <1>1. Inv /\ Items /\ [Next]_vars => Items'
    BY NextStep, StutterItems
  <1>2. Inv /\ Items /\ [Next]_vars => [Promise!Answers(call')]_vars
    BY NextStep
  <1> QED
    BY <1>1, <1>2, InitInv, InitItems, NextInv, PTL DEF Spec, CallsKeepPromise
=============================================================================
