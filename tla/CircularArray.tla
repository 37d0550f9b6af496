--------------------------- MODULE CircularArray ----------------------------
(***************************************************************************)
(* The circular array (src/circular-array.c), the container behind the     *)
(* deque, stack and queue adapters by default.                             *)
(*                                                                         *)
(* A circular array keeps its items in a ring: a malloc'd buffer of        *)
(* capacity slots, the first item at head, one free slot at tail.  Indices *)
(* are masked with capacity - 1; capacity is a power of two, so the mask   *)
(* is the remainder.  A slot no one wrote since the buffer was allocated   *)
(* holds Junk, and slots left behind by removed items keep their pointer.  *)
(*                                                                         *)
(* Every call is atomic, as the library is single threaded, and takes a    *)
(* step of its own; any malloc of a call may fail.                         *)
(***************************************************************************)
EXTENDS Memory, Sequences, Functions

CONSTANTS
  Handle,       (* the circular arrays the client may have                *)
  Item,         (* the pointers the client may store                      *)
  MinCapacity,  (* CDC_CIRCULAR_ARRAY_MIN_CAPACITY                        *)
  MaxCapacity,  (* bound: malloc refuses a larger buffer                  *)
  HasDfree      (* whether the data_info of the arrays has a dfree        *)

ASSUME JunkAssumption == Junk \notin Item
ASSUME MinCapacityAssumption == MinCapacity \in Nat /\ MinCapacity >= 2
ASSUME MaxCapacityAssumption == MaxCapacity \in Nat /\ MaxCapacity >= MinCapacity
ASSUME HasDfreeAssumption == HasDfree \in BOOLEAN

VARIABLES
  exists,  (* the handles that are constructed and not destroyed          *)
  arr,     (* arr[d] is the struct cdc_circular_array behind d            *)
  ret,     (* the status the last call returned                           *)
  live,    (* with a dfree: the items malloc'd by the client, not freed   *)
  fault,   (* whether dfree was ever given anything but a live item       *)
  call     (* the last call, its name and its arguments                   *)

vars == <<exists, arr, ret, live, fault, call>>

Slot == Item \cup {Junk}

-----------------------------------------------------------------------------
(* The struct. *)

RealIndex(r, i) == (r.head + i) % r.capacity

ShouldGrow(r) == r.size = r.capacity - 1

(* The items a circular array holds, first to last. *)
Contents(r) == [i \in 1 .. r.size |-> Read(r.buffer, RealIndex(r, i - 1))]

NewArray ==
  [buffer |-> Malloc(MinCapacity), head |-> 0, tail |-> 0, size |-> 0,
   capacity |-> MinCapacity]

(* Mutants of reallocate: one copy, as if the ring never wrapped; and a    *)
(* tail left where it was.                                                 *)
ReallocatedFlat(r, n) ==
  [r EXCEPT !.buffer = Memcpy(Malloc(n), 0, r.buffer, r.head, r.size),
            !.head = 0, !.tail = r.size, !.capacity = n]

ReallocatedOldTail(r, n) ==
  LET wrapped == r.capacity - r.head
      flat == IF r.head > r.tail
              THEN Memcpy(Memcpy(Malloc(n), 0, r.buffer, r.head, wrapped),
                          wrapped, r.buffer, 0, r.tail)
              ELSE Memcpy(Malloc(n), 0, r.buffer, r.head, r.size)
  IN [r EXCEPT !.buffer = flat, !.head = 0, !.capacity = n]

(* The struct after reallocate got a buffer of n slots. *)
Reallocated(r, n) ==
  LET wrapped == r.capacity - r.head
      flat == IF r.head > r.tail
              THEN Memcpy(Memcpy(Malloc(n), 0, r.buffer, r.head, wrapped),
                          wrapped, r.buffer, 0, r.tail)
              ELSE Memcpy(Malloc(n), 0, r.buffer, r.head, r.size)
  IN [buffer |-> flat, head |-> 0, tail |-> r.size, size |-> r.size, capacity |-> n]

(* The structs a call may go on with once it has room for one more item:   *)
(* none if the allocator refuses the larger buffer.                        *)
WithRoom(r) ==
  IF ~ShouldGrow(r) THEN {r}
  ELSE {Reallocated(r, n) : n \in {2 * r.capacity} \cap 0 .. MaxCapacity}

(* push_back and push_front on a struct with room. *)
AddedBack(r, v) ==
  [r EXCEPT !.buffer = Store(r.buffer, r.tail, v),
            !.tail = (r.tail + 1) % r.capacity,
            !.size = r.size + 1]

AddedFront(r, v) ==
  LET new_head == (r.head + r.capacity - 1) % r.capacity
  IN [r EXCEPT !.buffer = Store(r.buffer, new_head, v),
               !.head = new_head,
               !.size = r.size + 1]

(***************************************************************************)
(* insert between two items.  The items before the physical slot p move    *)
(* one slot towards the head when they are the shorter part, else the      *)
(* items from p on move one slot towards the tail; each case is one        *)
(* picture in the code.                                                    *)
(***************************************************************************)

(* A mutant: the item in slot 0 does not follow around the end.            *)
HeadMovedDownUnfolded(r, p) ==
  LET b == r.buffer
      h == r.head
  IN IF h = 0 \/ (h >= r.tail /\ p <= h)
     THEN Memmove(b, 0, 1, p)
     ELSE Memmove(b, h - 1, h, p - h)

HeadMovedDown(r, p) ==
  LET b == r.buffer
      h == r.head
      last == r.capacity - 1
      folded == Memmove(b, h - 1, h, r.capacity - h)
  IN CASE h < r.tail /\ h = 0 ->
            Memmove(Store(b, last, Read(b, 0)), 0, 1, p - h - 1)
       [] h < r.tail /\ h # 0 -> Memmove(b, h - 1, h, p - h)
       [] h >= r.tail /\ p > h -> Memmove(b, h - 1, h, p - h)
       [] h >= r.tail /\ p <= h ->
            Memmove(Store(folded, last, Read(folded, 0)), 0, 1, p)

(* A mutant: the last memmove takes one slot too many.                     *)
TailMovedUpOverrun(r, p) ==
  LET b == r.buffer
      folded == Memmove(b, 1, 0, r.tail)
  IN IF r.head < r.tail \/ p < r.tail
     THEN Memmove(b, p + 1, p, r.tail - p)
     ELSE Memmove(Store(folded, 0, Read(folded, r.capacity - 1)), p + 1, p, r.capacity - p)

TailMovedUp(r, p) ==
  LET b == r.buffer
      last == r.capacity - 1
      folded == Memmove(b, 1, 0, r.tail)
  IN CASE r.head < r.tail ->
            Memmove(IF r.tail + 1 = r.capacity THEN Store(b, 0, Read(b, last)) ELSE b,
                    p + 1, p, r.tail - p)
       [] r.head >= r.tail /\ p < r.tail -> Memmove(b, p + 1, p, r.tail - p)
       [] r.head >= r.tail /\ p >= r.tail ->
            Memmove(Store(folded, 0, Read(folded, last)), p + 1, p, r.capacity - p - 1)

Inserted(r, i, v) ==
  LET p == RealIndex(r, i)
      mask == r.capacity - 1
      q == (p + mask) % r.capacity
  IN IF i < r.size \div 2
     THEN [r EXCEPT !.buffer = Store(HeadMovedDown(r, p), q, v),
                    !.head = (r.head + mask) % r.capacity,
                    !.size = r.size + 1]
     ELSE [r EXCEPT !.buffer = Store(TailMovedUp(r, p), p, v),
                    !.tail = (r.tail + 1) % r.capacity,
                    !.size = r.size + 1]

(* pop_back, pop_front, and erase of an item between two others. *)
WithoutBack(r) ==
  [r EXCEPT !.tail = (r.tail + r.capacity - 1) % r.capacity, !.size = r.size - 1]

WithoutFront(r) ==
  [r EXCEPT !.head = (r.head + 1) % r.capacity, !.size = r.size - 1]

HeadMovedUp(r, p) ==
  LET b == r.buffer
      h == r.head
      mask == r.capacity - 1
      folded == Memmove(b, 1, 0, p)
  IN CASE h < r.tail -> Memmove(b, h + 1, h, p - h)
       [] h >= r.tail /\ p > h -> Memmove(b, h + 1, h, p - h)
       [] h >= r.tail /\ p <= h ->
            Memmove(Store(folded, 0, Read(folded, mask)), h + 1, h, mask - h)

TailMovedDown(r, p) ==
  LET b == r.buffer
      mask == r.capacity - 1
      folded == Memmove(b, p, p + 1, mask - p)
  IN CASE r.head < r.tail -> Memmove(b, p, p + 1, r.tail - p)
       [] r.head >= r.tail /\ p < r.tail -> Memmove(b, p, p + 1, r.tail - p)
       [] r.head >= r.tail /\ p >= r.tail ->
            Memmove(Store(folded, mask, Read(folded, 0)), 0, 1, r.tail)

Erased(r, i) ==
  LET p == RealIndex(r, i)
      mask == r.capacity - 1
  IN IF i < r.size \div 2
     THEN [r EXCEPT !.buffer = HeadMovedUp(r, p),
                    !.head = (r.head + 1) % r.capacity,
                    !.size = r.size - 1]
     ELSE [r EXCEPT !.buffer = TailMovedDown(r, p),
                    !.tail = (r.tail + mask) % r.capacity,
                    !.size = r.size - 1]

(* What the element accessors return: at (status and element), front, back.*)
AtStatus(r, i) == IF i > r.size THEN "OUT_OF_RANGE" ELSE "OK"
Get(r, i) == Read(r.buffer, RealIndex(r, i))
FrontItem(r) == Read(r.buffer, r.head)
BackItemAtTail(r) == Read(r.buffer, r.tail)  (* a mutant *)
BackItem(r) == Read(r.buffer, (r.tail - 1 + r.capacity) % r.capacity)

-----------------------------------------------------------------------------
(***************************************************************************)
(* Ownership.  The library calls dfree on the items it drops; the client   *)
(* stores pointers it has just malloc'd.  live and fault follow the heap,  *)
(* they are not part of the structs.                                       *)
(***************************************************************************)
Storable(v) == HasDfree => v \notin live

Handed(v) ==
  /\ live' = IF HasDfree THEN live \cup {v} ELSE live
  /\ UNCHANGED fault

(* dfree is called on each slot of the sequence s. *)
Dfree(s) ==
  /\ live' = IF HasDfree THEN live \ Range(s) ELSE live
  /\ fault' = (fault \/ (HasDfree /\ ~(IsInjective(s) /\ Range(s) \subseteq live)))

Update(d, r) ==
  /\ arr' = [arr EXCEPT ![d] = r]
  /\ ret' = "OK"
  /\ UNCHANGED exists

OutOfMemory ==
  /\ ret' = "BAD_ALLOC"
  /\ UNCHANGED <<exists, arr, live, fault>>

-----------------------------------------------------------------------------
Init ==
  /\ exists = {}
  /\ arr = [d \in Handle |-> NewArray]
  /\ ret = "OK"
  /\ live = {}
  /\ fault = FALSE
  /\ call = <<"none">>

(* circular_array_ctor; the struct, the copy of info and the buffer are    *)
(* each malloc'd.                                                          *)
Ctor(d) ==
  /\ call' = <<"ctor", d>>
  /\ d \notin exists
  /\ \/ /\ exists' = exists \cup {d}
        /\ arr' = [arr EXCEPT ![d] = NewArray]
        /\ ret' = "OK"
        /\ UNCHANGED <<live, fault>>
     \/ OutOfMemory

Dtor(d) ==
  /\ call' = <<"dtor", d>>
  /\ d \in exists
  /\ exists' = exists \ {d}
  /\ arr' = [arr EXCEPT ![d] = NewArray]
  /\ ret' = "OK"
  /\ Dfree(Contents(arr[d]))

PushBack(d, v) ==
  /\ call' = <<"push_back", d, v>>
  /\ d \in exists
  /\ Storable(v)
  /\ \/ \E r \in WithRoom(arr[d]) : Update(d, AddedBack(r, v)) /\ Handed(v)
     \/ ShouldGrow(arr[d]) /\ OutOfMemory

PushFront(d, v) ==
  /\ call' = <<"push_front", d, v>>
  /\ d \in exists
  /\ Storable(v)
  /\ \/ \E r \in WithRoom(arr[d]) : Update(d, AddedFront(r, v)) /\ Handed(v)
     \/ ShouldGrow(arr[d]) /\ OutOfMemory

InsertMiddle(d, i, v) ==
  /\ call' = <<"insert", d, i, v>>
  /\ d \in exists
  /\ i \in 1 .. arr[d].size - 1
  /\ Storable(v)
  /\ \/ \E r \in WithRoom(arr[d]) : Update(d, Inserted(r, i, v)) /\ Handed(v)
     \/ ShouldGrow(arr[d]) /\ OutOfMemory

Insert(d, i, v) ==
  \/ i = 0 /\ PushFront(d, v)
  \/ i # 0 /\ i = arr[d].size /\ PushBack(d, v)
  \/ InsertMiddle(d, i, v)

(* pop_back gives dfree the slot at tail. *)
PopBack(d) ==
  /\ call' = <<"pop_back", d>>
  /\ d \in exists
  /\ arr[d].size > 0
  /\ Update(d, WithoutBack(arr[d]))
  /\ Dfree(<<Read(arr[d].buffer, arr[d].tail)>>)

(* A mutant: the popped item is not freed. *)
PopFrontNoDfree(d) ==
  /\ call' = <<"pop_front", d>>
  /\ d \in exists
  /\ arr[d].size > 0
  /\ Update(d, WithoutFront(arr[d]))
  /\ UNCHANGED <<live, fault>>

PopFront(d) ==
  /\ call' = <<"pop_front", d>>
  /\ d \in exists
  /\ arr[d].size > 0
  /\ Update(d, WithoutFront(arr[d]))
  /\ Dfree(<<Read(arr[d].buffer, arr[d].head)>>)

EraseMiddle(d, i) ==
  /\ call' = <<"erase", d, i>>
  /\ d \in exists
  /\ i \in 1 .. arr[d].size - 2
  /\ Update(d, Erased(arr[d], i))
  /\ Dfree(<<Get(arr[d], i)>>)

Erase(d, i) ==
  \/ i = 0 /\ PopFront(d)
  \/ i # 0 /\ i + 1 = arr[d].size /\ PopBack(d)
  \/ EraseMiddle(d, i)

(* circular_array_set: dfree is not called, the replaced item is the       *)
(* client's again and the client frees it.                                 *)
Set(d, i, v) ==
  /\ call' = <<"set", d, i, v>>
  /\ d \in exists
  /\ i \in 0 .. arr[d].size - 1
  /\ Storable(v)
  /\ Update(d, [arr[d] EXCEPT !.buffer = Store(@, RealIndex(arr[d], i), v)])
  /\ live' = IF HasDfree THEN (live \ {Get(arr[d], i)}) \cup {v} ELSE live
  /\ UNCHANGED fault

Clear(d) ==
  /\ call' = <<"clear", d>>
  /\ d \in exists
  /\ Update(d, [arr[d] EXCEPT !.head = 0, !.tail = 0, !.size = 0])
  /\ Dfree(Contents(arr[d]))

Swap(a, b) ==
  /\ call' = <<"swap", a, b>>
  /\ a \in exists
  /\ b \in exists
  /\ arr' = [arr EXCEPT ![a] = arr[b], ![b] = arr[a]]
  /\ ret' = "OK"
  /\ UNCHANGED <<exists, live, fault>>

Next ==
  \/ \E d \in Handle : Ctor(d) \/ Dtor(d) \/ PopBack(d) \/ PopFront(d) \/ Clear(d)
  \/ \E d \in Handle, v \in Item : PushBack(d, v) \/ PushFront(d, v)
  \/ \E d \in Handle, v \in Item : \E i \in 0 .. arr[d].size : Insert(d, i, v)
  \/ \E d \in Handle : \E i \in 0 .. arr[d].size - 1 : Erase(d, i)
  \/ \E d \in Handle, v \in Item : \E i \in 0 .. arr[d].size - 1 : Set(d, i, v)
  \/ \E a, b \in Handle : Swap(a, b)

Spec == Init /\ [][Next]_vars

-----------------------------------------------------------------------------
(* The type invariant.  That the buffer's domain is exactly 0 .. capacity  *)
(* - 1 also says no call ever wrote outside of the buffer.                 *)
Struct(n) ==
  [buffer : [0 .. n - 1 -> Slot], head : 0 .. n - 1, tail : 0 .. n - 1,
   size : 0 .. n - 1, capacity : {n}]

TypeOK ==
  /\ exists \subseteq Handle
  /\ arr = [d \in Handle |-> arr[d]]
  /\ \A d \in Handle : \E n \in MinCapacity .. MaxCapacity : arr[d] \in Struct(n)
  /\ ret \in {"OK", "BAD_ALLOC"}
  /\ live \subseteq Item
  /\ fault \in BOOLEAN

(* The ring: tail is size slots after head, one slot is always free, so a  *)
(* full ring and an empty one never look alike (reallocate and insert tell *)
(* the wrapped case from the flat one by comparing head with tail).        *)
RingInv == \A d \in Handle : arr[d].tail = RealIndex(arr[d], arr[d].size)

(* No slot the array counts as an item was never written: no call returns  *)
(* or moves into the ring a value the client did not store.                *)
NoJunkInv == \A d \in Handle : \A i \in 1 .. arr[d].size : Contents(arr[d])[i] \in Item

(* front and back agree with the sequence the ring stands for.             *)
AccessInv ==
  \A d \in Handle : LET r == arr[d] IN
    r.size > 0 => /\ FrontItem(r) = Contents(r)[1]
                  /\ BackItem(r) = Contents(r)[r.size]

(* With a dfree, the arrays own exactly the items that are alive, each     *)
(* once, and dfree was only ever given such an item: nothing leaks, and    *)
(* nothing is freed twice or used after it was freed.                      *)
OwnershipInv ==
  HasDfree =>
    /\ ~fault
    /\ live = UNION {Range(Contents(arr[d])) : d \in exists}
    /\ \A d \in exists : IsInjective(Contents(arr[d]))

-----------------------------------------------------------------------------
(* The promise of the sequence table, for the sequences the rings stand    *)
(* for.                                                                    *)
Promise == INSTANCE Sequence WITH contents <- [d \in Handle |-> Contents(arr[d])]

(* Every call changes the sequence behind its handle as the sequence table *)
(* says, wherever the ring starts and wraps, and leaves the other arrays   *)
(* alone; a call that runs out of memory changes nothing.                  *)
CallsKeepPromise == [][Promise!Answers(call')]_vars
=============================================================================
