-------------------------------- MODULE Array --------------------------------
(***************************************************************************)
(* The dynamic array (src/array.c): a malloc'd buffer of capacity slots of *)
(* which the first size hold the items.  Unlike the circular array it can  *)
(* take a whole block of items at once (append, append_move) and give      *)
(* memory back (shrink_to_fit).  The heap is built on it.                  *)
(*                                                                         *)
(* Every call is atomic (the library is single threaded); any malloc may   *)
(* fail.  append_move is called with two different arrays.                 *)
(***************************************************************************)
EXTENDS Memory, Sequences, Functions

CONSTANTS
  Handle,       (* the arrays the client may have                         *)
  Item,         (* the pointers the client may store                      *)
  Blocks,       (* the blocks of items the client appends                 *)
  MinCapacity,  (* ARRAY_MIN_CAPACITY                                     *)
  MaxCapacity,  (* bound: malloc refuses a larger buffer                  *)
  HasDfree      (* whether the data_info of the arrays has a dfree        *)

ASSUME JunkAssumption == Junk \notin Item
ASSUME CapacityAssumption ==
  MinCapacity \in Nat \ {0} /\ MaxCapacity \in Nat /\ MaxCapacity >= MinCapacity
ASSUME HasDfreeAssumption == HasDfree \in BOOLEAN
(* The client owns what it appends, so with a dfree no pointer twice.      *)
ASSUME BlocksAssumption ==
  \A s \in Blocks : s \in Seq(Item) /\ (HasDfree => IsInjective(s))

VARIABLES
  exists,  (* the handles that are constructed and not destroyed          *)
  arr,     (* arr[d] is the struct cdc_array behind d                     *)
  live,    (* with a dfree: the items malloc'd by the client, not freed   *)
  fault,   (* whether dfree was ever given anything but a live item       *)
  ret,     (* the status the last call returned                           *)
  call     (* the last call, its name and its arguments                   *)

vars == <<exists, arr, live, fault, ret, call>>

Slot == Item \cup {Junk}

-----------------------------------------------------------------------------
(* The struct. *)

NewArray == [buffer |-> Malloc(MinCapacity), size |-> 0, capacity |-> MinCapacity]

Contents(r) == [i \in 1 .. r.size |-> Read(r.buffer, i - 1)]

(* A mutant: the items are copied only up to the new capacity's half.      *)
ReallocatedShort(r, n) ==
  [r EXCEPT !.buffer = Memcpy(Malloc(n), 0, r.buffer, 0, n \div 2), !.capacity = n]

(* A new buffer of n slots with the items in it. *)
Reallocated(r, n) ==
  [r EXCEPT !.buffer = Memcpy(Malloc(n), 0, r.buffer, 0, r.size), !.capacity = n]

(* reallocate to capacity c, at least the minimum: the structs it may      *)
(* leave, none if malloc refuses; a buffer the items do not fit in is      *)
(* never made.                                                             *)
WithCapacity(r, c) ==
  LET n == IF c < MinCapacity THEN MinCapacity ELSE c
  IN IF n < r.size THEN {r} ELSE {Reallocated(r, m) : m \in {n} \cap 0 .. MaxCapacity}

(* A mutant: the array grows when one slot is left over.                   *)
ShouldGrowLate(r) == r.size = r.capacity + 1

ShouldGrow(r) == r.size = r.capacity

WithRoom(r) == IF ShouldGrow(r) THEN WithCapacity(r, 2 * r.capacity) ELSE {r}

(* append makes room for twice the items that are then there.              *)
WithRoomFor(r, len) ==
  IF r.size + len > r.capacity THEN WithCapacity(r, 2 * (r.size + len)) ELSE {r}

(* insert moves the items from index i on to the right, erase moves those  *)
(* after it to the left.                                                   *)
Inserted(r, i, v) ==
  [r EXCEPT !.buffer = Store(Memmove(r.buffer, i + 1, i, r.size - i), i, v),
            !.size = r.size + 1]

Erased(r, i) ==
  [r EXCEPT !.buffer = Memmove(r.buffer, i, i + 1, r.size - i - 1),
            !.size = r.size - 1]

Appended(r, data, len) ==
  [r EXCEPT !.buffer = Memcpy(r.buffer, r.size, data, 0, len), !.size = r.size + len]

-----------------------------------------------------------------------------
(* Ownership, as in CircularArray. *)
Storable(v) == HasDfree => v \notin live

Handed(s) ==
  /\ live' = IF HasDfree THEN live \cup Range(s) ELSE live
  /\ UNCHANGED fault

Dfree(s) ==
  /\ live' = IF HasDfree THEN live \ Range(s) ELSE live
  /\ fault' = (fault \/ (HasDfree /\ ~(IsInjective(s) /\ Range(s) \subseteq live)))

Kept == UNCHANGED <<live, fault>>

Update(d, r) ==
  /\ arr' = [arr EXCEPT ![d] = r]
  /\ ret' = "OK"
  /\ UNCHANGED exists

OutOfMemory ==
  /\ ret' = "BAD_ALLOC"
  /\ UNCHANGED <<exists, arr, live, fault>>

-----------------------------------------------------------------------------
Init ==
  /\ exists = {}
  /\ arr = [d \in Handle |-> NewArray]
  /\ live = {}
  /\ fault = FALSE
  /\ ret = "OK"
  /\ call = <<"none">>

Ctor(d) ==
  /\ call' = <<"ctor", d>>
  /\ d \notin exists
  /\ \/ /\ exists' = exists \cup {d}
        /\ arr' = [arr EXCEPT ![d] = NewArray]
        /\ ret' = "OK"
        /\ Kept
     \/ OutOfMemory

Dtor(d) ==
  /\ call' = <<"dtor", d>>
  /\ d \in exists
  /\ exists' = exists \ {d}
  /\ arr' = [arr EXCEPT ![d] = NewArray]
  /\ ret' = "OK"
  /\ Dfree(Contents(arr[d]))

(* array_insert; array_push_back is the insertion at index size.           *)
Insert(d, i, v) ==
  /\ call' = <<"insert", d, i, v>>
  /\ d \in exists
  /\ i \in 0 .. arr[d].size
  /\ Storable(v)
  /\ \/ \E r \in WithRoom(arr[d]) : Update(d, Inserted(r, i, v)) /\ Handed(<<v>>)
     \/ ShouldGrow(arr[d]) /\ OutOfMemory

(* array_erase; array_pop_back erases the item at index size - 1.          *)
Erase(d, i) ==
  /\ call' = <<"erase", d, i>>
  /\ d \in exists
  /\ i \in 0 .. arr[d].size - 1
  /\ Update(d, Erased(arr[d], i))
  /\ Dfree(<<Read(arr[d].buffer, i)>>)

(* array_set: dfree is not called, the replaced item is the client's again *)
(* and the client frees it.                                                *)
Set(d, i, v) ==
  /\ call' = <<"set", d, i, v>>
  /\ d \in exists
  /\ i \in 0 .. arr[d].size - 1
  /\ Storable(v)
  /\ Update(d, [arr[d] EXCEPT !.buffer = Store(@, i, v)])
  /\ live' = IF HasDfree THEN (live \ {Read(arr[d].buffer, i)}) \cup {v} ELSE live
  /\ UNCHANGED fault

Clear(d) ==
  /\ call' = <<"clear", d>>
  /\ d \in exists
  /\ Update(d, [arr[d] EXCEPT !.size = 0])
  /\ Dfree(Contents(arr[d]))

Reserve(d, c) ==
  /\ call' = <<"reserve", d, c>>
  /\ d \in exists
  /\ \/ c <= arr[d].capacity /\ Update(d, arr[d]) /\ Kept
     \/ c > arr[d].capacity /\ \E r \in WithCapacity(arr[d], c) : Update(d, r) /\ Kept
     \/ c > arr[d].capacity /\ OutOfMemory

ShrinkToFit(d) ==
  /\ call' = <<"shrink_to_fit", d>>
  /\ d \in exists
  /\ \/ \E r \in WithCapacity(arr[d], arr[d].size) : Update(d, r) /\ Kept
     \/ OutOfMemory

(* array_append of the client's block s. *)
AppendAll(d, s) ==
  /\ call' = <<"append", d, s>>
  /\ d \in exists
  /\ \A i \in 1 .. Len(s) : Storable(s[i])
  /\ LET data == [i \in 0 .. Len(s) - 1 |-> s[i + 1]]
     IN \/ \E r \in WithRoomFor(arr[d], Len(s)) :
             Update(d, Appended(r, data, Len(s))) /\ Handed(s)
        \/ arr[d].size + Len(s) > arr[d].capacity /\ OutOfMemory

(* A mutant: the items stay in the other array, too.                       *)
AppendMoveShared(a, b) ==
  /\ call' = <<"append_move", a, b>>
  /\ {a, b} \subseteq exists
  /\ a # b
  /\ \/ \E r \in WithRoomFor(arr[a], arr[b].size) :
          Update(a, Appended(r, arr[b].buffer, arr[b].size)) /\ Kept
     \/ arr[a].size + arr[b].size > arr[a].capacity /\ OutOfMemory

(* array_append_move: other is emptied once its items are copied. *)
AppendMove(a, b) ==
  /\ call' = <<"append_move", a, b>>
  /\ {a, b} \subseteq exists
  /\ a # b
  /\ \/ \E r \in WithRoomFor(arr[a], arr[b].size) :
          /\ arr' = [arr EXCEPT ![a] = Appended(r, arr[b].buffer, arr[b].size),
                                ![b].size = 0]
          /\ ret' = "OK"
          /\ UNCHANGED exists
          /\ Kept
     \/ arr[a].size + arr[b].size > arr[a].capacity /\ OutOfMemory

Swap(a, b) ==
  /\ call' = <<"swap", a, b>>
  /\ {a, b} \subseteq exists
  /\ arr' = [arr EXCEPT ![a] = arr[b], ![b] = arr[a]]
  /\ ret' = "OK"
  /\ UNCHANGED exists
  /\ Kept

Next ==
  \/ \E d \in Handle : Ctor(d) \/ Dtor(d) \/ Clear(d) \/ ShrinkToFit(d)
  \/ \E d \in Handle, v \in Item : \E i \in 0 .. arr[d].size : Insert(d, i, v)
  \/ \E d \in Handle : \E i \in 0 .. arr[d].size - 1 : Erase(d, i)
  \/ \E d \in Handle, v \in Item : \E i \in 0 .. arr[d].size - 1 : Set(d, i, v)
  \/ \E d \in Handle : \E c \in {MinCapacity, MinCapacity + 1} : Reserve(d, c)
  \/ \E d \in Handle, s \in Blocks : AppendAll(d, s)
  \/ \E a, b \in Handle : Swap(a, b) \/ AppendMove(a, b)

Spec == Init /\ [][Next]_vars

-----------------------------------------------------------------------------
(* The type invariant.  That the buffer's domain is exactly 0 .. capacity  *)
(* - 1 also says no call ever wrote outside of the buffer.                 *)
Struct(n) == [buffer : [0 .. n - 1 -> Slot], size : 0 .. n, capacity : {n}]

TypeOK ==
  /\ exists \subseteq Handle
  /\ arr = [d \in Handle |-> arr[d]]
  /\ \A d \in Handle : \E n \in MinCapacity .. MaxCapacity : arr[d] \in Struct(n)
  /\ live \subseteq Item
  /\ fault \in BOOLEAN
  /\ ret \in {"OK", "BAD_ALLOC"}

(* With a dfree, every live item is in exactly one array, once, whatever   *)
(* was appended, moved, swapped or refused; dfree is only given such items.*)
OwnershipInv ==
  HasDfree =>
    /\ ~fault
    /\ live = UNION {Range(Contents(arr[d])) : d \in exists}
    /\ \A d \in exists : IsInjective(Contents(arr[d]))
    /\ \A d, e \in exists : d # e => Range(Contents(arr[d])) \cap Range(Contents(arr[e])) = {}

Promise == INSTANCE Sequence WITH contents <- [d \in Handle |-> Contents(arr[d])]

(* Every call changes the sequence behind its handle as the sequence table *)
(* says and leaves the other arrays alone; a call that runs out of memory  *)
(* changes nothing, and neither does one that only gives or takes room.    *)
CallsKeepPromise == [][Promise!Answers(call')]_vars
=============================================================================
