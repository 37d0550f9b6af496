-------------------------- MODULE MapAdapterProofs ---------------------------
(***************************************************************************)
(* Proofs about the map adapter, for any number of maps and containers and *)
(* each of the four tables: the container pointers stay one to one, and    *)
(* the hash tables behind the maps keep what HashTableProofs proves, so    *)
(* that every call of a map over one does what the map table says.         *)
(***************************************************************************)
EXTENDS MapAdapter, Foundations, FiniteSetTheorems

(* The types the pointers of the maps keep. *)
PointersInv ==
  /\ maps \subseteq Handle
  /\ exists \subseteq Container
  /\ container \in [Handle -> Container \cup {Null}]

MapsInv == PointersInv /\ SharingInv

-----------------------------------------------------------------------------
(* What the calls of the tables do to the set of containers.               *)

(* The calls that neither create nor destroy a container. *)
Functions == {"find", "insert", "insert_or_assign", "erase", "clear", "swap"}

LEMMA NewContainer == \A x \in Unused : x \in Container /\ x \notin exists
  BY DEF Unused

LEMMA CallShape ==
  ASSUME NEW c \in Calls
  PROVE  \/ c[1] = "ctor" /\ c[2] \in Container /\ c[2] \notin exists
         \/ c[1] = "dtor" /\ c[2] \in exists
         \/ c[1] \in Functions
<1>1. CASE c \in {<<"ctor", x>> : x \in Unused}
  BY <1>1, NewContainer
<1>2. CASE c \in {<<name, x>> : name \in {"dtor", "clear"}, x \in exists}
  BY <1>2 DEF Functions
<1>3. CASE c \in {<<name, x, k>> : name \in {"find", "erase"}, x \in exists, k \in Keys}
  BY <1>3 DEF Functions
<1>4. CASE c \in {<<name, x, p[1], p[2]>> :
                    name \in {"insert", "insert_or_assign"}, x \in exists, p \in client.pairs}
  BY <1>4 DEF Functions
<1>5. CASE c \in {<<"swap", x, y>> : x \in exists, y \in exists}
  BY <1>5 DEF Functions
<1>6. QED
  BY <1>1, <1>2, <1>3, <1>4, <1>5 DEF Calls

LEMMA CtorMakes ==
  ASSUME NEW c, c[1] = "ctor", TableCall(c)
  PROVE  /\ ret'.status = "OK" => exists' = exists \cup {c[2]}
         /\ ret'.status # "OK" => exists' = exists
<1>1. H!Ctor(c[2]) \/ A!Ctor(c[2]) \/ S!Ctor(c[2]) \/ T!Ctor(c[2])
  BY DEF TableCall, HtableTable, AvlTable, SplayTable, TreapTable
<1>2. QED
  BY <1>1 DEF H!Ctor, A!Ctor, S!Ctor, T!Ctor, H!Returned, A!Returned, S!Returned, T!Returned,
              H!OutOfMemory, A!OutOfMemory, S!OutOfMemory, T!OutOfMemory

LEMMA DtorTakes ==
  ASSUME NEW c, c[1] = "dtor", TableCall(c)
  PROVE  exists' = exists \ {c[2]}
<1>1. H!Dtor(c[2]) \/ A!Dtor(c[2]) \/ S!Dtor(c[2]) \/ T!Dtor(c[2])
  BY DEF TableCall, HtableTable, AvlTable, SplayTable, TreapTable
<1>2. QED
  BY <1>1 DEF H!Dtor, A!Dtor, S!Dtor, T!Dtor

LEMMA OthersKeep ==
  ASSUME NEW c, c[1] \in Functions, TableCall(c)
  PROVE  exists' = exists
<1>1. CASE HtableTable(c)
  <2>1. \/ \E d, k, v : H!Insert(d, k, v) \/ H!InsertOrAssign(d, k, v)
        \/ \E d, k : H!Find(d, k) \/ H!Erase(d, k) \/ H!Swap(d, k)
        \/ \E d : H!Clear(d)
    BY <1>1, Zenon DEF HtableTable, Functions
  <2>2. \A d, t, done, at : H!Update(d, t, done, at) => exists' = exists
    BY DEF H!Update
  <2>3. \A d, t : H!OutOfMemory(d, t) => exists' = exists
    BY DEF H!OutOfMemory
  <2>4. \A d, k : H!FollowsDangling(d, k) => exists' = exists
    BY DEF H!FollowsDangling
  <2>5. \A d, k, v : H!MakeAndInsert(d, k, v) => exists' = exists
    BY <2>2, <2>3, Zenon DEF H!MakeAndInsert
  <2>6. QED
    BY <2>1, <2>2, <2>3, <2>4, <2>5, Zenon
      DEF H!Insert, H!InsertOrAssign, H!Find, H!Erase, H!Swap, H!Clear
<1>2. CASE AvlTable(c)
  <2>1. \/ \E d, k, v : A!Insert(d, k, v) \/ A!InsertOrAssign(d, k, v)
        \/ \E d, k : A!Find(d, k) \/ A!Erase(d, k) \/ A!Swap(d, k)
        \/ \E d : A!Clear(d)
    BY <1>2, Zenon DEF AvlTable, Functions
  <2>2. \A d, t, done, at : A!Update(d, t, done, at) => exists' = exists
    BY DEF A!Update
  <2>3. A!OutOfMemory => exists' = exists
    BY DEF A!OutOfMemory
  <2>4. QED
    BY <2>1, <2>2, <2>3, Zenon
      DEF A!Insert, A!InsertOrAssign, A!Find, A!Erase, A!Swap, A!Clear
<1>3. CASE SplayTable(c)
  <2>1. \/ \E d, k, v : S!Insert(d, k, v) \/ S!InsertOrAssign(d, k, v)
        \/ \E d, k : S!Find(d, k) \/ S!Erase(d, k) \/ S!Swap(d, k)
        \/ \E d : S!Clear(d)
    BY <1>3, Zenon DEF SplayTable, Functions
  <2>2. \A d, t, done, at : S!Update(d, t, done, at) => exists' = exists
    BY DEF S!Update
  <2>3. S!OutOfMemory => exists' = exists
    BY DEF S!OutOfMemory
  <2>4. QED
    BY <2>1, <2>2, <2>3, Zenon
      DEF S!Insert, S!InsertOrAssign, S!Find, S!Erase, S!Swap, S!Clear
<1>4. CASE TreapTable(c)
  <2>1. \/ \E d, k, v : T!Insert(d, k, v) \/ T!InsertOrAssign(d, k, v)
        \/ \E d, k : T!Find(d, k) \/ T!Erase(d, k) \/ T!Swap(d, k)
        \/ \E d : T!Clear(d)
    BY <1>4, Zenon DEF TreapTable, Functions
  <2>2. \A d, t, done, at : T!Update(d, t, done, at) => exists' = exists
    BY DEF T!Update
  <2>3. T!OutOfMemory => exists' = exists
    BY DEF T!OutOfMemory
  <2>4. QED
    BY <2>1, <2>2, <2>3, Zenon
      DEF T!Insert, T!InsertOrAssign, T!Find, T!Erase, T!Swap, T!Clear
<1>5. QED
  BY <1>1, <1>2, <1>3, <1>4 DEF TableCall

-----------------------------------------------------------------------------
(* The pointers. *)
LEMMA MapsInvInit == Init => MapsInv
  BY DEF Init, MapsInv, PointersInv, SharingInv

LEMMA CtorKeeps ==
  ASSUME MapsInv, NEW m \in Handle, NEW c \in Calls, TableCall(c), Ctor(m, c)
  PROVE  MapsInv'
<1>1. c[1] = "ctor" /\ m \notin maps
  BY Zenon DEF Ctor
<1>2. c[2] \in Container /\ c[2] \notin exists
  BY <1>1, CallShape DEF Functions
<1>3. /\ ret'.status = "OK" => exists' = exists \cup {c[2]}
      /\ ret'.status # "OK" => exists' = exists
  BY <1>1, CtorMakes
<1>4. PICK d : d = c[2]
  OBVIOUS
<1>5. \/ /\ exists' = exists \cup {d}
         /\ maps' = maps \cup {m}
         /\ container' = [container EXCEPT ![m] = d]
      \/ UNCHANGED <<exists, maps, container>>
  BY <1>3, <1>4, Zenon DEF Ctor
<1>6. PointersInv'
  BY <1>2, <1>4, <1>5 DEF MapsInv, PointersInv
<1>7. SharingInv'
  BY <1>1, <1>2, <1>4, <1>5 DEF MapsInv, PointersInv, SharingInv
<1>8. QED
  BY <1>6, <1>7 DEF MapsInv

LEMMA DtorKeeps ==
  ASSUME MapsInv, NEW m \in Handle, NEW c \in Calls, TableCall(c), Dtor(m, c)
  PROVE  MapsInv'
<1>1. c[1] = "dtor" /\ m \in maps /\ container[m] = c[2]
  BY Zenon DEF Dtor, Makes, Owner
<1>2. exists' = exists \ {container[m]}
  BY <1>1, DtorTakes
<1>3. maps' = maps \ {m} /\ container' = [container EXCEPT ![m] = Null]
  BY Zenon DEF Dtor
<1>4. PointersInv'
  BY <1>2, <1>3 DEF MapsInv, PointersInv
<1>5. SharingInv'
  BY <1>1, <1>2, <1>3 DEF MapsInv, PointersInv, SharingInv
<1>6. QED
  BY <1>4, <1>5 DEF MapsInv

LEMMA UnchangedKeeps ==
  ASSUME MapsInv, UNCHANGED <<maps, container, exists>>
  PROVE  MapsInv'
  BY DEF MapsInv, PointersInv, SharingInv

LEMMA OperationKeeps ==
  ASSUME MapsInv, NEW m \in Handle, NEW c \in Calls, TableCall(c),
         \/ Get(m, c) \/ Find(m, c) \/ Insert(m, c) \/ InsertIter(m, c)
         \/ Erase(m, c) \/ Clear(m, c)
         \/ \E n \in Handle : SwapContents(m, n, c)
  PROVE  MapsInv'
<1>1. c[1] \in Functions
  BY Zenon DEF Get, Find, Insert, InsertIter, Erase, Clear, SwapContents, Functions
<1>2. exists' = exists
  BY <1>1, OthersKeep
<1>3. AdapterUnchanged
  BY Zenon DEF Get, Find, Insert, InsertIter, Erase, Clear, SwapContents
<1>4. QED
  BY <1>2, <1>3, UnchangedKeeps DEF AdapterUnchanged

LEMMA ResizeKeeps ==
  ASSUME MapsInv, NEW m \in Handle, Resize(m)
  PROVE  MapsInv'
<1>1. \E d, count : H!Rehash(d, count)
  BY Zenon DEF Resize, H!Reserve
<1>2. exists' = exists
  BY <1>1 DEF H!Rehash, H!Update, H!OutOfMemory
<1>3. AdapterUnchanged
  BY Zenon DEF Resize
<1>4. QED
  BY <1>2, <1>3, UnchangedKeeps DEF AdapterUnchanged

LEMMA SwapKeeps ==
  ASSUME MapsInv, NEW m \in Handle, NEW n \in Handle, Swap(m, n)
  PROVE  MapsInv'
<1>1. /\ m \in maps /\ n \in maps
      /\ container' = [container EXCEPT ![m] = container[n], ![n] = container[m]]
      /\ maps' = maps /\ exists' = exists
  BY DEF Swap
<1>2. \A x \in Handle : container'[x] = IF x = n THEN container[m]
                                        ELSE IF x = m THEN container[n] ELSE container[x]
  BY <1>1 DEF MapsInv, PointersInv
<1>3. PointersInv'
  BY <1>1 DEF MapsInv, PointersInv
<1>4. SharingInv'
  BY <1>1, <1>2 DEF MapsInv, PointersInv, SharingInv
<1>5. QED
  BY <1>3, <1>4 DEF MapsInv

LEMMA MapsInvStep == MapsInv /\ [Next]_vars => MapsInv'
<1> SUFFICES ASSUME MapsInv, [Next]_vars PROVE MapsInv'
  OBVIOUS
<1>1. ASSUME NEW c \in Calls, TableCall(c),
             NEW m \in Handle,
             \/ Ctor(m, c) \/ Dtor(m, c) \/ Get(m, c) \/ Find(m, c)
             \/ Insert(m, c) \/ InsertIter(m, c) \/ Erase(m, c) \/ Clear(m, c)
             \/ \E n \in Handle : SwapContents(m, n, c)
      PROVE  MapsInv'
  BY <1>1, CtorKeeps, DtorKeeps, OperationKeeps, Zenon
<1>2. ASSUME NEW m \in Handle, CtorRefused(m) \/ Begin(m) \/ End(m)
      PROVE  MapsInv'
  <2>1. UNCHANGED <<maps, container, exists>>
    BY <1>2 DEF CtorRefused, Begin, End, ContainersUnchanged
  <2>2. QED
    BY <2>1, UnchangedKeeps
<1>3. CASE IterCtor \/ IterDtor \/ IterNext \/ IterPrev
  <2>1. UNCHANGED <<maps, container, exists>>
    BY <1>3 DEF IterCtor, IterDtor, IterNext, IterPrev, ContainersUnchanged
  <2>2. QED
    BY <2>1, UnchangedKeeps
<1>4. CASE UNCHANGED vars
  <2>1. UNCHANGED <<maps, container, exists>>
    BY <1>4 DEF vars
  <2>2. QED
    BY <2>1, UnchangedKeeps
<1>5. QED
  BY <1>1, <1>2, <1>3, <1>4, ResizeKeeps, SwapKeeps, Zenon DEF Next, Halted

(* However maps are constructed, swapped and destroyed, over whichever of  *)
(* the four containers and however many there are, no two maps share a     *)
(* container and none is left behind (map_ctor, map_dtor and map_swap).    *)
THEOREM NoSharing == Spec => []SharingInv
<1>1. MapsInv => SharingInv
  BY DEF MapsInv
<1>2. QED
  BY <1>1, MapsInvInit, MapsInvStep, PTL DEF Spec

-----------------------------------------------------------------------------
(* The hash table under the adapter, and what is proved of it.  The        *)
(* operators of the two instances H and HP are the same.                   *)
HP == INSTANCE HashTableProofs WITH
  Handle <- Container, Key <- HashKey, Value <- HashValue, tab <- store

LEMMA SameBuckets == /\ \A n, c : H!BucketOf(n, c) = HP!BucketOf(n, c)
                     /\ \A k, c : H!BucketFor(k, c) = HP!BucketFor(k, c)
  BY DEF H!BucketOf, HP!BucketOf, H!BucketFor, HP!BucketFor

LEMMA SameCardinality == \A s : H!Cardinality(s) = HP!Cardinality(s)
  BY Zenon DEF H!Cardinality, HP!Cardinality, H!IsFiniteSet, HP!IsFiniteSet

LEMMA SameRange == \A s : H!Range(s) = HP!Range(s)
  BY DEF H!Range, HP!Range

LEMMA SameChain == \A t, n : H!Chain(t, n) = HP!Chain(t, n)
  BY Zenon
    DEF H!Chain, HP!Chain, H!Entry, HP!Entry, H!Cardinality, HP!Cardinality,
        H!IsFiniteSet, HP!IsFiniteSet

LEMMA SameListing == \A t : H!Listing(t) = HP!Listing(t)
  BY SameChain, Zenon DEF H!Listing, HP!Listing

LEMMA SameFindEntry == \A t, k : H!FindEntry(t, k) = HP!FindEntry(t, k)
<1> TAKE t, k
<1>1. H!BucketFor(k, t.bcount) = HP!BucketFor(k, t.bcount)
  BY SameBuckets
<1>2. H!Chain(t, t.buckets[HP!BucketFor(k, t.bcount)])
      = HP!Chain(t, t.buckets[HP!BucketFor(k, t.bcount)])
  BY SameChain
<1> QED
  BY <1>1, <1>2, SameBuckets DEF H!FindEntry, HP!FindEntry

LEMMA SameFound == \A t, k : H!Found(t, k) <=> HP!Found(t, k)
  BY SameFindEntry DEF H!Found, HP!Found

LEMMA SameAddEntry == \A t, k : H!AddEntry(t, k) = HP!AddEntry(t, k)
  BY DEF H!AddEntry, HP!AddEntry, H!BucketFor, HP!BucketFor, H!BucketOf, HP!BucketOf

LEMMA SameErase == \A t, e, b : H!EraseEntry(t, e, b) = HP!EraseEntry(t, e, b)
  BY DEF H!EraseEntry, HP!EraseEntry, H!BucketOf, HP!BucketOf, H!Freed, HP!Freed, H!Entry, HP!Entry

LEMMA SameFreed == \A t, s : H!Freed(t, s) = HP!Freed(t, s)
  BY Zenon DEF H!Freed, HP!Freed, H!Entry, HP!Entry

LEMMA SameMalloced == \A t, k, v : H!Malloced(t, k, v) = HP!Malloced(t, k, v)
  BY Zenon DEF H!Malloced, HP!Malloced

LEMMA SameNewTable == H!NewTable = HP!NewTable
  BY Zenon
    DEF H!NewTable, HP!NewTable, H!NewBuckets, HP!NewBuckets, H!NoLinks, HP!NoLinks,
        H!Entry, HP!Entry

LEMMA SameShouldRehash == \A t : H!ShouldRehash(t) <=> HP!ShouldRehash(t)
  BY Zenon DEF H!ShouldRehash, HP!ShouldRehash

LEMMA SamePow == \A c : H!UpToPow2(c) = HP!UpToPow2(c)
  BY Zenon DEF H!UpToPow2, HP!UpToPow2, H!Pow2, HP!Pow2

LEMMA SameTransferred == \A t, c : H!Transferred(t, c) = HP!Transferred(t, c)
<1> TAKE t, c
<1>1. PICK l : l = H!Listing(t) /\ l = HP!Listing(t)
  BY SameListing
<1>2. PICK b : /\ b = [t EXCEPT !.buckets = H!NewBuckets(c, t.buckets[0]), !.next = H!NoLinks,
                          !.tail = t.buckets[0], !.bcount = c]
               /\ b = [t EXCEPT !.buckets = HP!NewBuckets(c, t.buckets[0]), !.next = HP!NoLinks,
                          !.tail = t.buckets[0], !.bcount = c]
  BY DEF H!NewBuckets, HP!NewBuckets, H!NoLinks, HP!NoLinks, H!Entry, HP!Entry
<1> DEFINE
  F(g) == [i \in 0 .. Len(l) |-> IF i = 0 THEN b ELSE H!AddEntry(g[i - 1], l[i])]
  G(g) == [i \in 0 .. Len(l) |-> IF i = 0 THEN b ELSE HP!AddEntry(g[i - 1], l[i])]
<1>3. \A g : F(g) = G(g)
  BY SameAddEntry
<1>4. H!Transferred(t, c) = (CHOOSE g : g = F(g))[Len(l)]
  BY <1>1, <1>2, ZenonT(60) DEF H!Transferred
<1>5. HP!Transferred(t, c) = (CHOOSE g : g = G(g))[Len(l)]
  BY <1>1, <1>2, ZenonT(60) DEF HP!Transferred
<1> HIDE DEF F, G
<1>6. (CHOOSE g : g = F(g)) = (CHOOSE g : g = G(g))
  BY <1>3, Zenon
<1>7. QED
  BY <1>4, <1>5, <1>6, Zenon

LEMMA SameRehashed == \A t, c : H!Rehashed(t, c) = HP!Rehashed(t, c)
  BY SameTransferred, SamePow DEF H!Rehashed, HP!Rehashed

LEMMA SameRoom == \A t : H!WithRoom(t) = HP!WithRoom(t)
  BY SameShouldRehash, SameRehashed DEF H!WithRoom, HP!WithRoom

LEMMA SameReturn == /\ \A h, t, d, a : H!Update(h, t, d, a) <=> HP!Update(h, t, d, a)
                    /\ \A h, t : H!OutOfMemory(h, t) <=> HP!OutOfMemory(h, t)
  BY Zenon DEF H!Update, HP!Update, H!OutOfMemory, HP!OutOfMemory, H!Returned, HP!Returned

LEMMA SameFollow == /\ \A h, k : H!Dangles(h, k) <=> HP!Dangles(h, k)
                    /\ \A h, k : H!FollowsDangling(h, k) <=> HP!FollowsDangling(h, k)
  BY SameBuckets DEF H!FollowsDangling, HP!FollowsDangling, H!Dangles, HP!Dangles

LEMMA SameProceeds == H!Proceeds <=> HP!Proceeds
  BY Zenon DEF H!Proceeds, HP!Proceeds, H!NilKept, HP!NilKept

LEMMA SameCtor == \A h : H!Ctor(h) <=> HP!Ctor(h)
  BY SameNewTable, SameReturn DEF H!Ctor, HP!Ctor, H!Returned, HP!Returned

LEMMA SameDtor == \A h : H!Dtor(h) <=> HP!Dtor(h)
  BY SameNewTable DEF H!Dtor, HP!Dtor, H!Returned, HP!Returned

LEMMA SameMake == \A h, k, v : H!MakeAndInsert(h, k, v) <=> HP!MakeAndInsert(h, k, v)
<1> TAKE h, k, v
<1>1. \A t : [H!AddEntry(H!Malloced(t, k, v), k) EXCEPT !.size = t.size + 1]
             = [HP!AddEntry(HP!Malloced(t, k, v), k) EXCEPT !.size = t.size + 1]
  BY SameAddEntry, SameMalloced
<1> QED
  BY <1>1, SameRoom, SameReturn, SameShouldRehash, Zenon DEF H!MakeAndInsert, HP!MakeAndInsert

LEMMA SameInsert == \A h, k, v : H!Insert(h, k, v) <=> HP!Insert(h, k, v)
  BY SameFollow, SameFound, SameReturn, SameMake DEF H!Insert, HP!Insert

LEMMA SameInsertOrAssign == \A h, k, v : H!InsertOrAssign(h, k, v) <=> HP!InsertOrAssign(h, k, v)
  BY SameFollow, SameFound, SameReturn, SameMake, ZenonT(60) DEF H!InsertOrAssign, HP!InsertOrAssign

LEMMA SameFind == \A h, k : H!Find(h, k) <=> HP!Find(h, k)
  BY SameFollow, SameFound, SameReturn DEF H!Find, HP!Find

LEMMA SameEraseCall == \A h, k : H!Erase(h, k) <=> HP!Erase(h, k)
  BY SameFollow, SameFindEntry, SameReturn, SameErase, SameBuckets DEF H!Erase, HP!Erase

LEMMA SameClear == \A h : H!Clear(h) <=> HP!Clear(h)
<1> TAKE h
<1>1. H!Freed(store[h], H!Range(H!Listing(store[h])))
      = HP!Freed(store[h], HP!Range(HP!Listing(store[h])))
  BY SameRange, SameFreed, SameListing
<1> QED
  BY <1>1, SameReturn DEF H!Clear, HP!Clear

LEMMA SameRehash == \A h, c : H!Rehash(h, c) <=> HP!Rehash(h, c)
  BY SameReturn, SameRehashed, Zenon DEF H!Rehash, HP!Rehash

LEMMA SameReserve == \A h, c : H!Reserve(h, c) <=> HP!Reserve(h, c)
  BY SameRehash, Zenon DEF H!Reserve, HP!Reserve

LEMMA SameSwap == \A h, c : H!Swap(h, c) <=> HP!Swap(h, c)
  BY Zenon DEF H!Swap, HP!Swap, H!Returned, HP!Returned

LEMMA SameLoad == HP!LoadInv <=> H!LoadInv
  BY Zenon DEF H!LoadInv, HP!LoadInv

LEMMA SameLookup == HP!LookupInv <=> H!LookupInv
  BY SameRange, SameFound, SameListing DEF H!LookupInv, HP!LookupInv, H!NilKept, HP!NilKept

LEMMA SameList == HP!ListInv <=> H!ListInv
<1>1. \A s : H!IsInjective(s) <=> HP!IsInjective(s)
  BY DEF H!IsInjective, HP!IsInjective
<1>2. \A s : H!Last(s) = HP!Last(s)
  BY DEF H!Last, HP!Last
<1>3. QED
  BY <1>1, <1>2, SameChain, SameRange, SameListing DEF H!ListInv, HP!ListInv, H!NilKept, HP!NilKept

LEMMA SameConstants == H!ConstantsOK <=> HP!ConstantsOK
  BY SameCardinality, Zenon DEF H!ConstantsOK, HP!ConstantsOK, H!IsFiniteSet, HP!IsFiniteSet

-----------------------------------------------------------------------------
(* The hash table under the adapter. *)
HashesInv == client \in Setups /\ (Uses("htable") => HP!TabInv)

LEMMA HashSetting ==
  ASSUME HP!NullHashesToZero
  PROVE  HP!Setting
  BY TablesAssumption, SameConstants DEF HP!Setting

LEMMA TableLeft ==
  ASSUME HP!TabInv, store' = store
  PROVE  HP!TabInv'
  BY HP!TabSame

LEMMA KeyCallLeaves ==
  ASSUME HP!Setting, HP!LoadFits, HP!TabInv, H!Proceeds, NEW h \in Container, NEW k \in HashKey, NEW v,
         H!Find(h, k) \/ H!Erase(h, k) \/ H!Insert(h, k, v) \/ H!InsertOrAssign(h, k, v)
  PROVE  HP!TabInv'
<1>1. HP!Proceeds
  BY SameProceeds
<1>2. HP!KeyCall(h, k, v)
  BY SameFind, SameEraseCall, SameInsert, SameInsertOrAssign, Zenon DEF HP!KeyCall
<1>3. QED
  BY <1>1, <1>2, HP!KeyCallKeeps

LEMMA TableCallLeaves ==
  ASSUME HP!Setting, HP!TabInv, H!Proceeds, NEW g \in Container, NEW h \in Container, NEW count \in Int,
         \/ H!Ctor(h) \/ H!Dtor(h) \/ H!Clear(h)
         \/ H!Rehash(h, count) \/ H!Reserve(h, count) \/ H!Swap(g, h)
  PROVE  HP!TabInv'
<1>1. HP!Proceeds
  BY SameProceeds
<1>2. HP!TableCall(g, h, count)
  BY SameCtor, SameDtor, SameClear, SameRehash, SameReserve, SameSwap, Zenon DEF HP!TableCall
<1>3. QED
  BY <1>1, <1>2, HP!TableCallKeeps

LEMMA KeysAreHashed ==
  ASSUME client \in Setups, Uses("htable")
  PROVE  Keys \subseteq HashKey
  BY DEF Uses, Keys, HashKey, PairsOf

(* The calls of Calls, with what their arguments are. *)
LEMMA HashCallLeaves ==
  ASSUME HP!Setting, HP!LoadFits, HP!TabInv, H!Proceeds, PointersInv, client \in Setups, Uses("htable"),
         NEW c \in Calls, HtableTable(c)
  PROVE  HP!TabInv'
<1>1. exists \subseteq Container /\ Keys \subseteq HashKey /\ 0 \in Int
  BY KeysAreHashed DEF PointersInv
<1>2. CASE c \in {<<"ctor", x>> : x \in Unused}
  <2>1. c[1] = "ctor" /\ c[2] \in Container
    BY <1>2, NewContainer
  <2>2. H!Ctor(c[2])
    BY <2>1 DEF HtableTable
  <2>3. QED
    BY <1>1, <2>1, <2>2, TableCallLeaves
<1>3. CASE c \in {<<name, x>> : name \in {"dtor", "clear"}, x \in exists}
  <2>1. c[1] \in {"dtor", "clear"} /\ c[2] \in Container
    BY <1>1, <1>3
  <2>2. H!Dtor(c[2]) \/ H!Clear(c[2])
    BY <2>1 DEF HtableTable
  <2>3. QED
    BY <1>1, <2>1, <2>2, TableCallLeaves
<1>4. CASE c \in {<<name, x, k>> : name \in {"find", "erase"}, x \in exists, k \in Keys}
  <2>1. c[1] \in {"find", "erase"} /\ c[2] \in Container /\ c[3] \in HashKey
    BY <1>1, <1>4
  <2>2. H!Find(c[2], c[3]) \/ H!Erase(c[2], c[3])
    BY <2>1 DEF HtableTable
  <2>3. QED
    BY <2>1, <2>2, KeyCallLeaves
<1>5. CASE c \in {<<name, x, p[1], p[2]>> :
                    name \in {"insert", "insert_or_assign"}, x \in exists, p \in client.pairs}
  <2>1. c[1] \in {"insert", "insert_or_assign"} /\ c[2] \in Container /\ c[3] \in HashKey
    BY <1>1, <1>5 DEF Keys
  <2>2. H!Insert(c[2], c[3], c[4]) \/ H!InsertOrAssign(c[2], c[3], c[4])
    BY <2>1 DEF HtableTable
  <2>3. QED
    BY <2>1, <2>2, KeyCallLeaves
<1>6. CASE c \in {<<"swap", x, y>> : x \in exists, y \in exists}
  <2>1. c[1] = "swap" /\ c[2] \in Container /\ c[3] \in Container
    BY <1>1, <1>6
  <2>2. H!Swap(c[2], c[3])
    BY <2>1 DEF HtableTable
  <2>3. QED
    BY <1>1, <2>1, <2>2, TableCallLeaves
<1>7. QED
  BY <1>2, <1>3, <1>4, <1>5, <1>6 DEF Calls

LEMMA ResizeCounts ==
  ASSUME HP!Setting, NEW m, Resize(m)
  PROVE  \E count \in Int : H!Rehash(container[m], count) \/ H!Reserve(container[m], count)
<1>1. MinBuckets \in Int /\ MinBuckets + 1 \in Int /\ 0 \in Int /\ Cardinality(HashKey) \in Int
  <2>1. MinBuckets \in Nat
    BY SameConstants DEF HP!Setting, HP!ConstantsOK
  <2>2. IsFiniteSet(HashKey)
    BY DEF HP!Setting, HP!ConstantsOK, HP!IsFiniteSet, IsFiniteSet
  <2>3. QED
    BY <2>1, <2>2, FS_CardinalityType
<1>2. QED
  BY <1>1, Zenon DEF Resize

LEMMA CountsReserved ==
  ASSUME HP!Setting, NEW count \in Int
  PROVE  (count * LoadDen) \div LoadNum + 1 \in Int
<1>1. LoadDen \in Nat /\ LoadNum \in Nat /\ LoadNum > 0
  BY DEF HP!Setting, HP!ConstantsOK
<1>2. count * LoadDen \in Int
  BY <1>1
<1>3. QED
  BY <1>1, <1>2

LEMMA ResizeLeaves ==
  ASSUME HP!Setting, HP!TabInv, H!Proceeds, MapsInv, NEW m \in Handle, Resize(m)
  PROVE  HP!TabInv'
<1>1. container[m] \in Container
  BY DEF Resize, MapsInv, PointersInv, SharingInv
<1>2. \E count \in Int : H!Rehash(container[m], count) \/ H!Reserve(container[m], count)
  BY ResizeCounts
<1>3. QED
  BY <1>1, <1>2, TableCallLeaves

LEMMA HashesInit ==
  ASSUME HP!Setting, Init
  PROVE  HashesInv
<1>1. client \in Setups
  BY Zenon DEF Init
<1>2. Uses("htable") => store = [c \in Container |-> HP!NewTable]
  BY SameNewTable DEF Init, Blank
<1>3. HP!Intact(HP!NewTable)
  BY HP!NewTableIntact
<1>4. Uses("htable") => HP!TabInv
  BY <1>2, <1>3 DEF HP!TabInv
<1>5. QED
  BY <1>1, <1>4 DEF HashesInv

LEMMA HashesSame ==
  ASSUME HashesInv, client' = client, store' = store
  PROVE  HashesInv'
  BY TableLeft DEF HashesInv, Uses

LEMMA ClientKept ==
  ASSUME [Next]_vars
  PROVE  client' = client
  BY Zenon
    DEF Next, Halted, vars, Ctor, CtorRefused, Dtor, Get, Find, Insert, InsertIter,
        Erase, Clear,
     SwapContents, Swap, Resize, IterCtor, IterDtor, IterNext, IterPrev, Begin, End,
     ContainersUnchanged, AdapterUnchanged

LEMMA HashesStep ==
  ASSUME HP!Setting, HP!LoadFits, MapsInv, HashesInv, [Next]_vars
  PROVE  HashesInv'
<1>1. client' = client /\ client \in Setups
  BY ClientKept DEF HashesInv
<1>2. ASSUME Uses("htable") PROVE HP!TabInv'
  <2>1. HP!TabInv /\ PointersInv
    BY <1>2 DEF HashesInv, MapsInv
  <2>2. ASSUME NEW c \in Calls, TableCall(c), Proceeds PROVE HP!TabInv'
    <3>1. HtableTable(c)
      BY <1>2, <2>2 DEF TableCall, Uses
    <3>2. H!Proceeds
      BY <1>2, <2>2 DEF Proceeds
    <3>3. QED
      BY <1>1, <1>2, <2>1, <3>1, <3>2, HashCallLeaves
  <2>3. ASSUME NEW m \in Handle, Resize(m), Proceeds PROVE HP!TabInv'
    <3>1. H!Proceeds
      BY <1>2, <2>3 DEF Proceeds
    <3>2. QED
      BY <2>1, <2>3, <3>1, ResizeLeaves
  <2>4. ASSUME NEW m \in Handle, NEW n \in Handle, CtorRefused(m) \/ Begin(m) \/ End(m) \/ Swap(m, n)
        PROVE  store' = store
    BY <2>4, Zenon DEF CtorRefused, Begin, End, Swap, ContainersUnchanged
  <2>5. ASSUME IterCtor \/ IterDtor \/ IterNext \/ IterPrev \/ UNCHANGED vars
        PROVE  store' = store
    BY <2>5, Zenon DEF IterCtor, IterDtor, IterNext, IterPrev, ContainersUnchanged, vars
  <2>6. QED
    BY <2>1, <2>2, <2>3, <2>4, <2>5, TableLeft, Zenon DEF Next, Halted
<1>3. QED
  BY <1>1, <1>2 DEF HashesInv, Uses

LEMMA HashesKept ==
  ASSUME HP!NullHashesToZero, HP!LoadFits
  PROVE  Spec => [](MapsInv /\ HashesInv)
<1>1. HP!Setting
  BY HashSetting
<1>2. Init => MapsInv /\ HashesInv
  BY <1>1, MapsInvInit, HashesInit
<1>3. (MapsInv /\ HashesInv) /\ [Next]_vars => (MapsInv /\ HashesInv)'
  BY <1>1, MapsInvStep, HashesStep
<1>4. QED
  BY <1>2, <1>3, PTL DEF Spec

LEMMA HashesPromise ==
  ASSUME HP!Setting, MapsInv, HashesInv
  PROVE  ListInv /\ LookupInv /\ LoadInv
<1>1. exists \subseteq Container
  BY DEF MapsInv, PointersInv
<1>2. Uses("htable") => HP!ListInv /\ HP!LookupInv /\ HP!LoadInv
  BY <1>1, HP!TabPromises DEF HashesInv
<1>3. QED
  BY <1>2, SameList, SameLookup, SameLoad, Zenon DEF ListInv, LookupInv, LoadInv

(* Whatever client uses the map adapter over the hash table, and whatever  *)
(* its hash function: the list of every table holds each entry once, size  *)
(* counts them and tail is the last (add_entry, erase_entry, transfer).    *)
THEOREM HashListHoldsEntries ==
  ASSUME HP!NullHashesToZero, HP!LoadFits
  PROVE  Spec => []ListInv
<1>1. HP!Setting
  BY HashSetting
<1>2. MapsInv /\ HashesInv => ListInv
  BY <1>1, HashesPromise
<1>3. QED
  BY <1>2, HashesKept, PTL

(* A lookup by bucket finds an entry exactly when the list holds it: the   *)
(* buckets are repaired by every insertion, erasure and growth (find_entry *)
(* after add_entry, erase_entry and transfer).                             *)
THEOREM HashLookupsFind ==
  ASSUME HP!NullHashesToZero, HP!LoadFits
  PROVE  Spec => []LookupInv
<1>1. HP!Setting
  BY HashSetting
<1>2. MapsInv /\ HashesInv => LookupInv
  BY <1>1, HashesPromise
<1>3. QED
  BY <1>2, HashesKept, PTL

(* An entry is added only below the load factor: one growth by             *)
(* make_and_insert_unique makes room enough.                               *)
THEOREM HashLoadStaysBelow ==
  ASSUME HP!NullHashesToZero, HP!LoadFits
  PROVE  Spec => []LoadInv
<1>1. HP!Setting
  BY HashSetting
<1>2. MapsInv /\ HashesInv => LoadInv
  BY <1>1, HashesPromise
<1>3. QED
  BY <1>2, HashesKept, PTL

-----------------------------------------------------------------------------
(* What the calls of a hash table say of the map its lookups see.          *)
Lines == [d \in Container |-> H!Contents(store[d])]

Table == INSTANCE Map WITH
  Handle <- Container, Key <- HashKey, Value <- HashValue, NoKey <- Null, contents <- Lines

LEMMA SameContents == \A t : H!Contents(t) = HP!Contents(t)
  BY SameFound, Zenon DEF H!Contents, HP!Contents

LEMMA SameLines == Lines = HP!Seen /\ Lines' = HP!Seen'
<1>1. \A d : H!Contents(store[d]) = HP!Contents(store[d]) /\ H!Contents(store'[d]) = HP!Contents(store'[d])
  BY SameContents
<1>2. QED
  BY <1>1, Zenon DEF Lines, HP!Seen

LEMMA TablePromise ==
  ASSUME Lines = HP!Seen, Lines' = HP!Seen', NEW g, NEW h, NEW k, NEW v
  PROVE  /\ HP!Promise!Ctor(h) => Table!Ctor(h)
         /\ HP!Promise!Dtor(h) => Table!Dtor(h)
         /\ HP!Promise!Clear(h) => Table!Clear(h)
         /\ HP!Promise!Rearrange(h) => Table!Rearrange(h)
         /\ HP!Promise!Swap(g, h) => Table!Swap(g, h)
         /\ HP!Promise!Erase(h, k) => Table!Erase(h, k)
         /\ HP!Promise!Find(h, k) => Table!Find(h, k)
         /\ HP!Promise!Insert(h, k, v) => Table!Insert(h, k, v)
         /\ HP!Promise!InsertOrAssign(h, k, v) => Table!InsertOrAssign(h, k, v)
<1>1. \A s, d, a : HP!Promise!Returned(s, d, a) = Table!Returned(s, d, a)
  BY DEF HP!Promise!Returned, Table!Returned
<1>2. \A d, f, done, at : HP!Promise!Becomes(d, f, done, at) => Table!Becomes(d, f, done, at)
  BY <1>1, Zenon DEF HP!Seen, HP!Promise!Becomes, Table!Becomes
<1>3. HP!Promise!OutOfMemory => Table!OutOfMemory
  BY <1>1, Zenon DEF HP!Seen, HP!Promise!OutOfMemory, Table!OutOfMemory
<1>4. HP!Promise!EmptyMap = Table!EmptyMap
  BY Zenon DEF HP!Promise!EmptyMap, Table!EmptyMap
<1>5. /\ \A f, x, y : HP!Promise!With(f, x, y) = Table!With(f, x, y)
      /\ \A f, s : HP!Promise!Restrict(f, s) = Table!Restrict(f, s)
  BY Zenon DEF HP!Promise!With, Table!With, HP!Promise!Restrict, Table!Restrict
<1>6. /\ HP!Promise!Ctor(h) => Table!Ctor(h)
      /\ HP!Promise!Dtor(h) => Table!Dtor(h)
      /\ HP!Promise!Clear(h) => Table!Clear(h)
      /\ HP!Promise!Rearrange(h) => Table!Rearrange(h)
      /\ HP!Promise!Swap(g, h) => Table!Swap(g, h)
  BY <1>1, <1>2, <1>3, <1>4, Zenon
    DEF HP!Seen, HP!Promise!Ctor, Table!Ctor, HP!Promise!Dtor, Table!Dtor, HP!Promise!Clear, Table!Clear,
        HP!Promise!Rearrange, Table!Rearrange, HP!Promise!Swap, Table!Swap
<1>7. /\ HP!Promise!Erase(h, k) => Table!Erase(h, k)
      /\ HP!Promise!Find(h, k) => Table!Find(h, k)
  BY <1>2, <1>5, Zenon
    DEF HP!Seen, HP!Promise!Erase, Table!Erase, HP!Promise!Find, Table!Find
<1>8. /\ HP!Promise!Insert(h, k, v) => Table!Insert(h, k, v)
      /\ HP!Promise!InsertOrAssign(h, k, v) => Table!InsertOrAssign(h, k, v)
  BY <1>2, <1>3, <1>5, Zenon
    DEF HP!Seen, HP!Promise!Insert, Table!Insert, HP!Promise!InsertOrAssign, Table!InsertOrAssign
<1>9. QED
  BY <1>6, <1>7, <1>8

LEMMA KeyCallAnswers ==
  ASSUME HP!Setting, HP!LoadFits, HP!TabInv, H!Proceeds, ~fault',
         NEW d \in Container, NEW k \in HashKey, NEW v
  PROVE  /\ H!Erase(d, k) => Table!Erase(d, k)
         /\ H!Find(d, k) => Table!Find(d, k)
         /\ H!Insert(d, k, v) => Table!Insert(d, k, v)
         /\ H!InsertOrAssign(d, k, v) => Table!InsertOrAssign(d, k, v)
<1>1. HP!Proceeds
  BY SameProceeds
<1>2. HP!KeyCall(d, k, v) =>
        /\ HP!Erase(d, k) => HP!Promise!Erase(d, k)
        /\ HP!Find(d, k) => HP!Promise!Find(d, k)
        /\ HP!Insert(d, k, v) => HP!Promise!Insert(d, k, v)
        /\ HP!InsertOrAssign(d, k, v) => HP!Promise!InsertOrAssign(d, k, v)
  BY <1>1, HP!KeyCallAnswers
<1>3. /\ HP!Promise!Erase(d, k) => Table!Erase(d, k)
      /\ HP!Promise!Find(d, k) => Table!Find(d, k)
      /\ HP!Promise!Insert(d, k, v) => Table!Insert(d, k, v)
      /\ HP!Promise!InsertOrAssign(d, k, v) => Table!InsertOrAssign(d, k, v)
  BY SameLines, TablePromise
<1>4. QED
  BY <1>2, <1>3, SameEraseCall, SameFind, SameInsert, SameInsertOrAssign, Zenon DEF HP!KeyCall

LEMMA TableCallAnswers ==
  ASSUME HP!Setting, HP!TabInv, H!Proceeds, NEW g \in Container, NEW d \in Container, NEW count \in Int
  PROVE  /\ H!Ctor(d) => Table!Ctor(d)
         /\ H!Dtor(d) => Table!Dtor(d)
         /\ H!Clear(d) => Table!Clear(d)
         /\ H!Rehash(d, count) => Table!Rearrange(d)
         /\ H!Swap(g, d) => Table!Swap(g, d)
<1>1. HP!Proceeds
  BY SameProceeds
<1>2. /\ HP!Ctor(d) => HP!Promise!Ctor(d)
      /\ HP!Dtor(d) => HP!Promise!Dtor(d)
      /\ HP!Clear(d) => HP!Promise!Clear(d)
      /\ HP!Rehash(d, count) => HP!Promise!Rearrange(d)
      /\ HP!Swap(g, d) => HP!Promise!Swap(g, d)
  BY <1>1, HP!TableCallAnswers
<1>3. /\ HP!Promise!Ctor(d) => Table!Ctor(d)
      /\ HP!Promise!Dtor(d) => Table!Dtor(d)
      /\ HP!Promise!Clear(d) => Table!Clear(d)
      /\ HP!Promise!Rearrange(d) => Table!Rearrange(d)
      /\ HP!Promise!Swap(g, d) => Table!Swap(g, d)
  BY SameLines, TablePromise
<1>4. QED
  BY <1>2, <1>3, SameCtor, SameDtor, SameClear, SameRehash, SameSwap, Zenon

-----------------------------------------------------------------------------
(* From the hash tables to the maps. *)
Shown == [m \in Handle |-> MapContents(m)]

LEMMA LineIs ==
  ASSUME MapsInv, Uses("htable"), NEW m \in maps
  PROVE  /\ m \in Handle /\ container[m] \in Container /\ container[m] \in exists
         /\ Shown[m] = Lines[container[m]]
<1>1. m \in Handle /\ container[m] \in exists /\ exists \subseteq Container
  BY DEF MapsInv, PointersInv, SharingInv
<1>2. Shown[m] = ContainerContents(container[m])
  BY <1>1 DEF Shown, MapContents
<1>3. ContainerContents(container[m]) = H!Contents(store[container[m]])
  BY DEF ContainerContents
<1>4. QED
  BY <1>1, <1>2, <1>3 DEF Lines

(* The map m after the call, by its container. *)
LEMMA LineAfter ==
  ASSUME Uses("htable"), client' = client, NEW m \in Handle
  PROVE  /\ m \in maps' /\ container'[m] \in Container => Shown'[m] = Lines'[container'[m]]
         /\ m \notin maps' => Shown'[m] = [k \in {} |-> k]
<1>1. Uses("htable")' = TRUE /\ Uses("htable") = TRUE
  BY DEF Uses
<1>2. \A d : ContainerContents(d)' = H!Contents(store'[d])
  BY <1>1 DEF ContainerContents
<1>3. \A d \in Container : Lines'[d] = H!Contents(store'[d])
  BY DEF Lines
<1>4. Shown'[m] = IF m \in maps' THEN ContainerContents(container[m])' ELSE [k \in {} |-> k]
  BY DEF Shown, MapContents
<1>5. QED
  BY <1>2, <1>3, <1>4

LEMMA ShownIs ==
  /\ Shown = [m \in Handle |-> Shown[m]] /\ Shown' = [m \in Handle |-> Shown'[m]]
  /\ \A m \in Handle : m \notin maps => Shown[m] = [k \in {} |-> k]
  BY DEF Shown, MapContents

LEMMA BecomesLifts ==
  ASSUME MapsInv, Uses("htable"), UNCHANGED <<client, maps, container>>, NEW m \in maps, NEW f,
         Lines' = [Lines EXCEPT ![container[m]] = f]
  PROVE  Shown' = [Shown EXCEPT ![m] = f]
<1>1. ASSUME NEW n \in maps PROVE n \in Handle /\ Shown'[n] = IF n = m THEN f ELSE Shown[n]
  <2>1. /\ n \in Handle /\ n \in maps' /\ container'[n] = container[n] /\ container[n] \in Container
        /\ Shown[n] = Lines[container[n]]
    BY LineIs
  <2>2. Shown'[n] = Lines'[container[n]]
    BY <2>1, LineAfter
  <2>3. Lines'[container[n]] = IF container[n] = container[m] THEN f ELSE Lines[container[n]]
    BY <2>1 DEF Lines
  <2>4. container[n] = container[m] <=> n = m
    BY DEF MapsInv, SharingInv
  <2>5. QED
    BY <2>1, <2>2, <2>3, <2>4
<1>2. ASSUME NEW n \in Handle, n \notin maps PROVE Shown'[n] = Shown[n]
  BY <1>2, LineAfter, ShownIs
<1>3. \A n \in Handle : Shown'[n] = IF n = m THEN f ELSE Shown[n]
  BY <1>1, <1>2
<1>4. QED
  BY <1>3, ShownIs

LEMMA SameLift ==
  ASSUME MapsInv, Uses("htable"), UNCHANGED <<client, maps, container>>, Lines' = Lines
  PROVE  Shown' = Shown
<1>1. ASSUME NEW n \in maps PROVE Shown'[n] = Shown[n]
  BY LineIs, LineAfter
<1>2. ASSUME NEW n \in Handle, n \notin maps PROVE Shown'[n] = Shown[n]
  BY <1>2, LineAfter, ShownIs
<1>3. \A n \in Handle : Shown'[n] = Shown[n]
  BY <1>1, <1>2
<1>4. QED
  BY <1>3, ShownIs

LEMMA AnswersLift ==
  ASSUME MapsInv, Uses("htable"), UNCHANGED <<client, maps, container>>, NEW m \in maps, NEW k, NEW v
  PROVE  /\ Table!Find(container[m], k) => Promise!Find(m, k)
         /\ Table!Erase(container[m], k) => Promise!Erase(m, k)
         /\ Table!Clear(container[m]) => Promise!Clear(m)
         /\ Table!Rearrange(container[m]) => Promise!Rearrange(m)
         /\ Table!Insert(container[m], k, v) => Promise!Insert(m, k, v)
         /\ Table!InsertOrAssign(container[m], k, v) => Promise!InsertOrAssign(m, k, v)
<1>1. ASSUME NEW f, NEW done, NEW at, Table!Becomes(container[m], f, done, at)
      PROVE  Promise!Becomes(m, f, done, at)
  <2>1. ret' = Table!Returned("OK", done, at) /\ Lines' = [Lines EXCEPT ![container[m]] = f]
    BY <1>1 DEF Table!Becomes
  <2>2. Shown' = [Shown EXCEPT ![m] = f]
    BY <2>1, BecomesLifts
  <2>3. QED
    BY <2>1, <2>2, Zenon DEF Promise!Becomes, Promise!Returned, Table!Returned, Shown
<1>2. ASSUME Table!OutOfMemory PROVE Promise!OutOfMemory
  <2>1. ret' = Table!Returned("BAD_ALLOC", FALSE, Null) /\ Lines' = Lines
    BY <1>2 DEF Table!OutOfMemory
  <2>2. Shown' = Shown
    BY <2>1, SameLift
  <2>3. QED
    BY <2>1, <2>2, Zenon DEF Promise!OutOfMemory, Promise!Returned, Table!Returned, Shown
<1>3. m \in maps /\ m \in Handle /\ Shown[m] = Lines[container[m]]
  BY LineIs
<1>4. Promise!EmptyMap = Table!EmptyMap
  BY Zenon DEF Promise!EmptyMap, Table!EmptyMap
<1>5. /\ \A f, x, y : Promise!With(f, x, y) = Table!With(f, x, y)
      /\ \A f, s : Promise!Restrict(f, s) = Table!Restrict(f, s)
  BY Zenon DEF Promise!With, Table!With, Promise!Restrict, Table!Restrict
<1>6. /\ Table!Find(container[m], k) => Promise!Find(m, k)
      /\ Table!Erase(container[m], k) => Promise!Erase(m, k)
  <2>1. PICK f : f = Lines[container[m]] /\ f = Shown[m]
    BY <1>3
  <2>2. ASSUME Table!Find(container[m], k) PROVE Promise!Find(m, k)
    <3>1. CASE k \in DOMAIN f
      <4>1. (k \in DOMAIN f) = TRUE
        BY <3>1
      <4>2. Table!Becomes(container[m], f, TRUE, k)
        BY <2>1, <2>2, <3>1, <4>1 DEF Table!Find
      <4>3. Promise!Becomes(m, f, TRUE, k)
        BY <1>1, <4>2
      <4>4. QED
        BY <1>3, <2>1, <3>1, <4>1, <4>3 DEF Shown, Promise!Find, Promise!Becomes
    <3>2. CASE k \notin DOMAIN f
      <4>1. (k \in DOMAIN f) = FALSE
        BY <3>2
      <4>2. Table!Becomes(container[m], f, FALSE, Null)
        BY <2>1, <2>2, <3>2, <4>1 DEF Table!Find
      <4>3. Promise!Becomes(m, f, FALSE, Null)
        BY <1>1, <4>2
      <4>4. QED
        BY <1>3, <2>1, <3>2, <4>1, <4>3 DEF Shown, Promise!Find, Promise!Becomes
    <3>3. QED
      BY <3>1, <3>2
  <2>3. ASSUME Table!Erase(container[m], k) PROVE Promise!Erase(m, k)
    <3>1. Table!Becomes(container[m], Table!Restrict(f, DOMAIN f \ {k}), k \in DOMAIN f, Null)
      BY <2>1, <2>3, Zenon DEF Table!Erase
    <3>2. Promise!Becomes(m, Table!Restrict(f, DOMAIN f \ {k}), k \in DOMAIN f, Null)
      BY <1>1, <3>1, Zenon
    <3>3. Promise!Becomes(m, Promise!Restrict(f, DOMAIN f \ {k}), k \in DOMAIN f, Null)
      BY <1>5, <3>2, Zenon
    <3>4. QED
      BY <1>3, <2>1, <3>3, Zenon DEF Shown, Promise!Erase
  <2>4. QED
    BY <2>2, <2>3
<1>7. /\ Table!Clear(container[m]) => Promise!Clear(m)
      /\ Table!Rearrange(container[m]) => Promise!Rearrange(m)
  BY <1>1, <1>2, <1>3, <1>4, Zenon DEF Shown, Promise!Clear, Table!Clear, Promise!Rearrange, Table!Rearrange
<1>8. /\ Table!Insert(container[m], k, v) => Promise!Insert(m, k, v)
      /\ Table!InsertOrAssign(container[m], k, v) => Promise!InsertOrAssign(m, k, v)
  BY <1>1, <1>2, <1>3, <1>5, Zenon
    DEF Shown, Promise!Insert, Table!Insert, Promise!InsertOrAssign, Table!InsertOrAssign
<1>9. QED
  BY <1>6, <1>7, <1>8

LEMMA CtorLift ==
  ASSUME MapsInv, Uses("htable"), client' = client, NEW m \in Handle, m \notin maps,
         NEW d \in Container, Table!Ctor(d),
         IF ret'.status = "OK" THEN maps' = maps \cup {m} /\ container' = [container EXCEPT ![m] = d]
                               ELSE UNCHANGED <<maps, container>>
  PROVE  Promise!Ctor(m)
<1>1. CASE /\ d \notin exists /\ Lines' = [Lines EXCEPT ![d] = Table!EmptyMap]
           /\ ret' = Table!Returned("OK", FALSE, Null)
  <2>1. maps' = maps \cup {m} /\ container' = [container EXCEPT ![m] = d]
    BY <1>1 DEF Table!Returned
  <2>2. \A n \in Handle : container'[n] = IF n = m THEN d ELSE container[n]
    BY <2>1 DEF MapsInv, PointersInv
  <2>3. Table!EmptyMap = [k \in {} |-> k]
    BY Zenon DEF Table!EmptyMap
  <2>4. ASSUME NEW n \in maps PROVE n \in Handle /\ n # m /\ Shown'[n] = Shown[n]
    <3>1. /\ n \in Handle /\ n # m /\ container[n] \in Container /\ container[n] # d
          /\ Shown[n] = Lines[container[n]]
      BY <1>1, LineIs
    <3>2. n \in maps' /\ container'[n] = container[n]
      BY <2>1, <2>2, <3>1
    <3>3. Shown'[n] = Lines'[container[n]]
      BY <3>1, <3>2, LineAfter
    <3>4. Lines'[container[n]] = Lines[container[n]]
      BY <1>1, <3>1 DEF Lines
    <3>5. QED
      BY <3>1, <3>3, <3>4
  <2>5. ASSUME NEW n \in Handle, n \notin maps, n # m PROVE Shown'[n] = Shown[n]
    <3>1. n \notin maps'
      BY <2>1, <2>5
    <3>2. QED
      BY <2>5, <3>1, LineAfter, ShownIs
  <2>6. Shown'[m] = Table!EmptyMap
    <3>1. m \in maps' /\ container'[m] = d
      BY <2>1, <2>2
    <3>2. Shown'[m] = Lines'[d]
      BY <3>1, LineAfter
    <3>3. Lines'[d] = Table!EmptyMap
      BY <1>1 DEF Lines
    <3>4. QED
      BY <3>2, <3>3
  <2>7. \A n \in Handle : Shown'[n] = IF n = m THEN Table!EmptyMap ELSE Shown[n]
    BY <2>4, <2>5, <2>6
  <2>8. Shown' = [Shown EXCEPT ![m] = Table!EmptyMap]
    BY <2>7, ShownIs
  <2>9. QED
    BY <1>1, <2>1, <2>8, Zenon
      DEF Promise!Ctor, Promise!Returned, Table!Returned, Promise!EmptyMap, Table!EmptyMap, Shown
<1>2. CASE Table!OutOfMemory
  <2>1. ret' = Table!Returned("BAD_ALLOC", FALSE, Null) /\ Lines' = Lines
    BY <1>2 DEF Table!OutOfMemory
  <2>2. UNCHANGED <<maps, container>>
    BY <2>1 DEF Table!Returned
  <2>3. Shown' = Shown
    BY <2>1, <2>2, SameLift
  <2>4. QED
    BY <2>1, <2>2, <2>3, Zenon
      DEF Promise!Ctor, Promise!OutOfMemory, Promise!Returned, Table!Returned, Shown
<1>3. QED
  BY <1>1, <1>2, Zenon DEF Table!Ctor

LEMMA DtorLift ==
  ASSUME MapsInv, Uses("htable"), client' = client, NEW m \in maps, Table!Dtor(container[m]),
         maps' = maps \ {m}, container' = [container EXCEPT ![m] = Null]
  PROVE  Promise!Dtor(m)
<1>1. /\ m \in Handle /\ ret' = Table!Returned("OK", FALSE, Null)
      /\ Lines' = [Lines EXCEPT ![container[m]] = Table!EmptyMap]
  BY LineIs DEF Table!Dtor
<1>2. \A n \in Handle : n # m => container'[n] = container[n]
  BY DEF MapsInv, PointersInv
<1>3. ASSUME NEW n \in maps, n # m PROVE n \in Handle /\ Shown'[n] = Shown[n]
  <2>1. /\ n \in Handle /\ container[n] \in Container /\ container'[n] = container[n] /\ n \in maps'
        /\ container[n] # container[m] /\ Shown[n] = Lines[container[n]]
    BY <1>2, <1>3, LineIs DEF MapsInv, SharingInv
  <2>2. Shown'[n] = Lines'[container[n]]
    BY <2>1, LineAfter
  <2>3. Lines'[container[n]] = Lines[container[n]]
    BY <1>1, <2>1 DEF Lines
  <2>4. QED
    BY <2>1, <2>2, <2>3
<1>4. ASSUME NEW n \in Handle, n \notin maps PROVE Shown'[n] = Shown[n]
  BY <1>4, LineAfter, ShownIs
<1>5. Shown'[m] = Table!EmptyMap
  <2>1. Shown'[m] = [k \in {} |-> k]
    BY <1>1, LineAfter
  <2>2. QED
    BY <2>1, Zenon DEF Table!EmptyMap
<1>6. \A n \in Handle : Shown'[n] = IF n = m THEN Table!EmptyMap ELSE Shown[n]
  BY <1>3, <1>4, <1>5
<1>7. Shown' = [Shown EXCEPT ![m] = Table!EmptyMap]
  BY <1>6, ShownIs
<1>8. QED
  BY <1>1, <1>7, Zenon
    DEF Promise!Dtor, Promise!Returned, Table!Returned, Promise!EmptyMap, Table!EmptyMap, Shown

(* The pointers are swapped. *)
LEMMA SwapLift ==
  ASSUME MapsInv, Uses("htable"), NEW m \in Handle, NEW n \in Handle, Swap(m, n)
  PROVE  Promise!Swap(m, n)
<1>1. /\ m \in maps /\ n \in maps /\ maps' = maps /\ client' = client
      /\ container' = [container EXCEPT ![m] = container[n], ![n] = container[m]]
      /\ store' = store /\ ret' = A!Returned("OK", FALSE, Null)
  BY Zenon DEF Swap
<1>2. \A x \in Handle : container'[x] = IF x = n THEN container[m]
                                        ELSE IF x = m THEN container[n] ELSE container[x]
  BY <1>1 DEF MapsInv, PointersInv
<1>3. Lines' = Lines
  BY <1>1, Zenon DEF Lines
<1>4. ASSUME NEW x \in maps
      PROVE  x \in Handle /\ Shown'[x] = IF x = n THEN Shown[m] ELSE IF x = m THEN Shown[n] ELSE Shown[x]
  <2>1. PICK y \in maps : y = IF x = n THEN m ELSE IF x = m THEN n ELSE x
    BY <1>1, <1>4
  <2>2. x \in Handle /\ x \in maps' /\ container'[x] = container[y] /\ container[y] \in Container
    BY <1>1, <1>2, <2>1, LineIs
  <2>3. Shown'[x] = Lines[container[y]]
    BY <1>1, <1>3, <2>2, LineAfter
  <2>4. Shown[y] = Lines[container[y]]
    BY LineIs
  <2>5. QED
    BY <2>1, <2>2, <2>3, <2>4
<1>5. ASSUME NEW x \in Handle, x \notin maps PROVE Shown'[x] = Shown[x]
  BY <1>1, <1>5, LineAfter, ShownIs
<1>6. \A x \in Handle : Shown'[x] = IF x = n THEN Shown[m] ELSE IF x = m THEN Shown[n] ELSE Shown[x]
  BY <1>1, <1>4, <1>5
<1>7. Shown' = [Shown EXCEPT ![m] = Shown[n], ![n] = Shown[m]]
  BY <1>6, ShownIs
<1>8. QED
  BY <1>1, <1>7, Zenon DEF Promise!Swap, Promise!Returned, A!Returned, Shown

(* The contents of the containers are swapped. *)
LEMMA ContentsSwapLift ==
  ASSUME MapsInv, Uses("htable"), UNCHANGED <<client, maps, container>>, NEW m \in maps, NEW n \in maps,
         Table!Swap(container[m], container[n])
  PROVE  Promise!Swap(m, n)
<1>1. /\ m \in Handle /\ n \in Handle /\ ret' = Table!Returned("OK", FALSE, Null)
      /\ Lines' = [Lines EXCEPT ![container[m]] = Lines[container[n]], ![container[n]] = Lines[container[m]]]
  BY LineIs DEF Table!Swap
<1>2. ASSUME NEW x \in maps
      PROVE  x \in Handle /\ Shown'[x] = IF x = n THEN Shown[m] ELSE IF x = m THEN Shown[n] ELSE Shown[x]
  <2>1. /\ x \in Handle /\ x \in maps' /\ container'[x] = container[x] /\ container[x] \in Container
        /\ Shown[x] = Lines[container[x]] /\ Shown[m] = Lines[container[m]]
        /\ Shown[n] = Lines[container[n]]
    BY LineIs
  <2>2. Shown'[x] = Lines'[container[x]]
    BY <2>1, LineAfter
  <2>3. /\ container[x] = container[m] <=> x = m
        /\ container[x] = container[n] <=> x = n
    BY DEF MapsInv, SharingInv
  <2>4. Lines'[container[x]] = IF container[x] = container[n] THEN Lines[container[m]]
                               ELSE IF container[x] = container[m] THEN Lines[container[n]]
                               ELSE Lines[container[x]]
    BY <1>1, <2>1 DEF Lines
  <2>5. QED
    BY <2>1, <2>2, <2>3, <2>4
<1>3. ASSUME NEW x \in Handle, x \notin maps PROVE Shown'[x] = Shown[x]
  BY <1>3, LineAfter, ShownIs
<1>4. \A x \in Handle : Shown'[x] = IF x = n THEN Shown[m] ELSE IF x = m THEN Shown[n] ELSE Shown[x]
  BY <1>2, <1>3
<1>5. Shown' = [Shown EXCEPT ![m] = Shown[n], ![n] = Shown[m]]
  BY <1>1, <1>4, ShownIs
<1>6. QED
  BY <1>1, <1>5, Zenon DEF Promise!Swap, Promise!Returned, Table!Returned, Shown

-----------------------------------------------------------------------------
(* The calls of the adapter. *)
LEMMA OpIs ==
  \A a, x, k, v, m : /\ <<a, m>> \o Arguments(<<a, x>>) = <<a, m>>
                     /\ <<a, m>> \o Arguments(<<a, x, k>>) = <<a, m, k>>
                     /\ <<a, m>> \o Arguments(<<a, x, k, v>>) = <<a, m, k, v>>
<1> SUFFICES ASSUME NEW a, NEW x, NEW k, NEW v, NEW m
             PROVE  /\ <<a, m>> \o Arguments(<<a, x>>) = <<a, m>>
                    /\ <<a, m>> \o Arguments(<<a, x, k>>) = <<a, m, k>>
                    /\ <<a, m>> \o Arguments(<<a, x, k, v>>) = <<a, m, k, v>>
  OBVIOUS
<1> DEFINE V == {a, x, k, v}
<1>1. /\ <<a, x>> \in Seq(V) /\ Len(<<a, x>>) = 2
      /\ <<a, x, k>> \in Seq(V) /\ Len(<<a, x, k>>) = 3 /\ <<k>> \in [1 .. 1 -> V]
      /\ <<a, x, k, v>> \in Seq(V) /\ Len(<<a, x, k, v>>) = 4 /\ <<k, v>> \in [1 .. 2 -> V]
      /\ <<a, x, k>>[3] = k /\ <<a, x, k, v>>[3] = k /\ <<a, x, k, v>>[4] = v
      /\ k \in V /\ v \in V
  OBVIOUS
<1> HIDE DEF V
<1>2. Arguments(<<a, x>>) = <<>>
  <2>1. PICK s : s = <<a, x>>
    OBVIOUS
  <2>2. s \in Seq(V) /\ Len(s) = 2
    BY <1>1, <2>1
  <2>3. SubSeq(s, 3, 2) = <<>>
    BY <2>2, SubSeqProperties
  <2>4. QED
    BY <2>1, <2>2, <2>3, Zenon DEF Arguments
<1>3. Arguments(<<a, x, k>>) = <<k>>
  <2>1. PICK s : s = <<a, x, k>>
    OBVIOUS
  <2>2. s \in Seq(V) /\ Len(s) = 3 /\ s[3] = k
    BY <1>1, <2>1
  <2>3. PICK r : r = SubSeq(s, 3, 3)
    OBVIOUS
  <2>4. r \in Seq(V) /\ Len(r) = 1 /\ r[1] = s[3]
    BY <1>1, <2>2, <2>3, SubSeqProperties
  <2>5. PICK w : w = <<k>>
    OBVIOUS
  <2>6. w \in [1 .. 1 -> V] /\ \A j \in 1 .. 1 : r[j] = w[j]
    BY <1>1, <2>2, <2>4, <2>5
  <2>7. r = w
    BY <2>4, <2>6, SameItems
  <2>8. QED
    BY <2>1, <2>2, <2>3, <2>5, <2>7, Zenon DEF Arguments
<1>4. Arguments(<<a, x, k, v>>) = <<k, v>>
  <2>1. PICK s : s = <<a, x, k, v>>
    OBVIOUS
  <2>2. s \in Seq(V) /\ Len(s) = 4 /\ s[3] = k /\ s[4] = v
    BY <1>1, <2>1
  <2>3. PICK r : r = SubSeq(s, 3, 4)
    OBVIOUS
  <2>4. r \in Seq(V) /\ Len(r) = 2 /\ r[1] = s[3] /\ r[2] = s[4]
    BY <1>1, <2>2, <2>3, SubSeqProperties
  <2>5. PICK w : w = <<k, v>>
    OBVIOUS
  <2>6. w \in [1 .. 2 -> V] /\ \A j \in 1 .. 2 : r[j] = w[j]
    BY <1>1, <2>2, <2>4, <2>5
  <2>7. r = w
    BY <2>4, <2>6, SameItems
  <2>8. QED
    BY <2>1, <2>2, <2>3, <2>5, <2>7, Zenon DEF Arguments
<1>5. /\ <<a, m>> \o <<>> = <<a, m>>
      /\ <<a, m>> \o <<k>> = <<a, m, k>>
      /\ <<a, m>> \o <<k, v>> = <<a, m, k, v>>
  BY Concats
<1>6. PICK p : p = <<a, m>>
  OBVIOUS
<1>7. /\ p \o Arguments(<<a, x>>) = <<a, m>>
      /\ p \o Arguments(<<a, x, k>>) = <<a, m, k>>
      /\ p \o Arguments(<<a, x, k, v>>) = <<a, m, k, v>>
  BY <1>2, <1>3, <1>4, <1>5, <1>6
<1>8. QED
  BY <1>6, <1>7

(* o is the call c with the map m in the place of its container.           *)
IsOf(o, m, c) ==
  /\ \A a, x : c = <<a, x>> => o = <<a, m>>
  /\ \A a, x, k : c = <<a, x, k>> => o = <<a, m, k>>
  /\ \A a, x, k, v : c = <<a, x, k, v>> => o = <<a, m, k, v>>

LEMMA OpMade == \A c, m, o : o = <<c[1], m>> \o Arguments(c) => IsOf(o, m, c)
<1> SUFFICES ASSUME NEW c, NEW m, NEW o, o = <<c[1], m>> \o Arguments(c)
             PROVE  IsOf(o, m, c)
  BY Zenon
<1>1. ASSUME NEW a, NEW x, c = <<a, x>> PROVE o = <<a, m>>
  <2>1. c[1] = a
    BY <1>1
  <2>2. o = <<a, m>> \o Arguments(<<a, x>>)
    BY <1>1, <2>1, Zenon
  <2>3. <<a, m>> \o Arguments(<<a, x>>) = <<a, m>>
    BY OpIs, Zenon
  <2>4. QED
    BY <2>2, <2>3, Zenon
<1>2. ASSUME NEW a, NEW x, NEW k, c = <<a, x, k>> PROVE o = <<a, m, k>>
  <2>1. c[1] = a
    BY <1>2
  <2>2. o = <<a, m>> \o Arguments(<<a, x, k>>)
    BY <1>2, <2>1, Zenon
  <2>3. <<a, m>> \o Arguments(<<a, x, k>>) = <<a, m, k>>
    BY OpIs, Zenon
  <2>4. QED
    BY <2>2, <2>3, Zenon
<1>3. ASSUME NEW a, NEW x, NEW k, NEW v, c = <<a, x, k, v>> PROVE o = <<a, m, k, v>>
  <2>1. c[1] = a
    BY <1>3
  <2>2. o = <<a, m>> \o Arguments(<<a, x, k, v>>)
    BY <1>3, <2>1, Zenon
  <2>3. <<a, m>> \o Arguments(<<a, x, k, v>>) = <<a, m, k, v>>
    BY OpIs
  <2>4. QED
    BY <2>2, <2>3, Zenon
<1>4. QED
  BY <1>1, <1>2, <1>3, Zenon DEF IsOf

(* What the map table says of the call with the name and arguments.        *)
LEMMA PromiseAnswers ==
  ASSUME NEW a, NEW b, NEW v
  PROVE  /\ Promise!Ctor(a) <=> Promise!Answers(<<"ctor", a>>)
         /\ Promise!Dtor(a) <=> Promise!Answers(<<"dtor", a>>)
         /\ Promise!Clear(a) <=> Promise!Answers(<<"clear", a>>)
         /\ Promise!Rearrange(a) <=> Promise!Answers(<<"rehash", a>>)
         /\ Promise!Insert(a, b, v) <=> Promise!Answers(<<"insert", a, b, v>>)
         /\ Promise!InsertOrAssign(a, b, v) <=> Promise!Answers(<<"insert_or_assign", a, b, v>>)
         /\ Promise!Erase(a, b) <=> Promise!Answers(<<"erase", a, b>>)
         /\ Promise!Swap(a, b) <=> Promise!Answers(<<"swap", a, b>>)
         /\ Promise!Find(a, b) <=> Promise!Answers(<<"find", a, b>>)
  BY DEF Promise!Answers

(* The actions that make a call of a container, by the call's name. *)
Operation(m, c) ==
  \/ Get(m, c) \/ Find(m, c) \/ Insert(m, c) \/ InsertIter(m, c) \/ Erase(m, c) \/ Clear(m, c)

LEMMA OperationMakes ==
  ASSUME NEW m, NEW c, Operation(m, c)
  PROVE  /\ m \in maps /\ container[m] = c[2] /\ UNCHANGED <<client, maps, container>>
         /\ op' = <<c[1], m>> \o Arguments(c)
         /\ c[1] \in {"find", "insert", "insert_or_assign", "erase", "clear"}
<1>1. Makes(m, c) /\ AdapterUnchanged
  BY Zenon DEF Operation, Get, Find, Insert, InsertIter, Erase, Clear
<1>2. c[1] \in {"find", "insert", "insert_or_assign", "erase", "clear"}
  BY Zenon DEF Operation, Get, Find, Insert, InsertIter, Erase, Clear
<1>3. QED
  BY <1>1, <1>2, Zenon DEF Makes, Owner, AdapterUnchanged

LEMMA OperationAnswers ==
  ASSUME HP!Setting, HP!LoadFits, MapsInv, HashesInv, Uses("htable"), H!Proceeds, ~fault',
         NEW c \in Calls, HtableTable(c), NEW m, Operation(m, c)
  PROVE  Promise!Answers(op')
<1>1. HP!TabInv /\ exists \subseteq Container /\ Keys \subseteq HashKey /\ 0 \in Int
  BY KeysAreHashed DEF HashesInv, MapsInv, PointersInv
<1>2. /\ m \in maps /\ container[m] = c[2] /\ UNCHANGED <<client, maps, container>>
      /\ op' = <<c[1], m>> \o Arguments(c)
      /\ c[1] \in {"find", "insert", "insert_or_assign", "erase", "clear"}
  BY OperationMakes
<1>10. IsOf(op', m, c)
  BY <1>2, OpMade, Zenon
<1>3. container[m] \in Container
  BY <1>2, LineIs
<1>4. CASE c \in {<<"ctor", x>> : x \in Unused}
  BY <1>2, <1>4
<1>5. CASE c \in {<<name, x>> : name \in {"dtor", "clear"}, x \in exists}
  <2>1. PICK name, x : c = <<name, x>>
    BY <1>5
  <2>2. c[1] = "clear" /\ name = "clear"
    BY <1>2, <1>5, <2>1
  <2>3. H!Clear(container[m])
    BY <1>2, <2>2 DEF HtableTable
  <2>4. Table!Clear(container[m])
    BY <1>1, <1>3, <2>3, TableCallAnswers
  <2>5. Promise!Clear(m)
    BY <1>2, <2>4, AnswersLift
  <2>6. op' = <<name, m>>
    BY <1>10, <2>1, Zenon DEF IsOf
  <2>7. QED
    BY <2>2, <2>5, <2>6, PromiseAnswers
<1>6. CASE c \in {<<name, x, k>> : name \in {"find", "erase"}, x \in exists, k \in Keys}
  <2>1. PICK name, x, k : c = <<name, x, k>> /\ name \in {"find", "erase"} /\ k \in Keys
    BY <1>6
  <2>2. c[1] = name /\ c[3] = k /\ k \in HashKey
    BY <1>1, <2>1
  <2>3. op' = <<name, m, k>>
    BY <1>10, <2>1, Zenon DEF IsOf
  <2>4. op'[1] = name /\ op'[2] = m /\ op'[3] = k
    BY <2>3
  <2>5. CASE name = "find"
    <3>1. H!Find(container[m], k)
      BY <1>2, <2>2, <2>5 DEF HtableTable
    <3>2. Table!Find(container[m], k)
      BY <1>1, <1>3, <2>2, <3>1, KeyCallAnswers
    <3>3. Promise!Find(m, k)
      BY <1>2, <3>2, AnswersLift
    <3>4. QED
      BY <2>3, <2>5, <3>3, PromiseAnswers
  <2>6. CASE name = "erase"
    <3>1. H!Erase(container[m], k)
      BY <1>2, <2>2, <2>6 DEF HtableTable
    <3>2. Table!Erase(container[m], k)
      BY <1>1, <1>3, <2>2, <3>1, KeyCallAnswers
    <3>3. Promise!Erase(m, k)
      BY <1>2, <3>2, AnswersLift
    <3>4. QED
      BY <2>3, <2>6, <3>3, PromiseAnswers
  <2>7. QED
    BY <2>1, <2>5, <2>6
<1>7. CASE c \in {<<name, x, p[1], p[2]>> :
                    name \in {"insert", "insert_or_assign"}, x \in exists, p \in client.pairs}
  <2>1. PICK name, x, p : /\ c = <<name, x, p[1], p[2]>> /\ name \in {"insert", "insert_or_assign"}
                          /\ p \in client.pairs
    BY <1>7
  <2>2. PICK k, v : k = p[1] /\ v = p[2]
    OBVIOUS
  <2>3. c = <<name, x, k, v>> /\ k \in HashKey
    BY <1>1, <2>1, <2>2 DEF Keys
  <2>4. c[1] = name /\ c[3] = k /\ c[4] = v
    BY <2>3
  <2>5. op' = <<name, m, k, v>>
    BY <1>10, <2>3, Zenon DEF IsOf
  <2>6. op'[1] = name /\ op'[2] = m /\ op'[3] = k /\ op'[4] = v
    BY <2>5
  <2>7. CASE name = "insert"
    <3>1. H!Insert(container[m], k, v)
      BY <1>2, <2>4, <2>7 DEF HtableTable
    <3>2. Table!Insert(container[m], k, v)
      BY <1>1, <1>3, <2>3, <3>1, KeyCallAnswers
    <3>3. Promise!Insert(m, k, v)
      BY <1>2, <3>2, AnswersLift
    <3>4. QED
      BY <2>5, <2>7, <3>3, PromiseAnswers
  <2>8. CASE name = "insert_or_assign"
    <3>1. H!InsertOrAssign(container[m], k, v)
      BY <1>2, <2>4, <2>8 DEF HtableTable
    <3>2. Table!InsertOrAssign(container[m], k, v)
      BY <1>1, <1>3, <2>3, <3>1, KeyCallAnswers
    <3>3. Promise!InsertOrAssign(m, k, v)
      BY <1>2, <3>2, AnswersLift
    <3>4. QED
      BY <2>5, <2>8, <3>3, PromiseAnswers
  <2>9. QED
    BY <2>1, <2>7, <2>8
<1>8. CASE c \in {<<"swap", x, y>> : x \in exists, y \in exists}
  BY <1>2, <1>8
<1>9. QED
  BY <1>4, <1>5, <1>6, <1>7, <1>8 DEF Calls

(* The calls that construct, destroy and swap. *)
LEMMA LifeAnswers ==
  ASSUME HP!Setting, MapsInv, HashesInv, Uses("htable"), H!Proceeds, client' = client,
         NEW c \in Calls, HtableTable(c), NEW m \in Handle, NEW n \in Handle,
         Ctor(m, c) \/ Dtor(m, c) \/ SwapContents(m, n, c)
  PROVE  Promise!Answers(op')
<1>1. HP!TabInv /\ exists \subseteq Container /\ 0 \in Int
  BY DEF HashesInv, MapsInv, PointersInv
<1>2. CASE Ctor(m, c)
  <2>1. /\ c[1] = "ctor" /\ m \notin maps /\ op' = <<"ctor", m>>
        /\ IF ret'.status = "OK"
           THEN maps' = maps \cup {m} /\ container' = [container EXCEPT ![m] = c[2]]
           ELSE UNCHANGED <<maps, container>>
    BY <1>2, Zenon DEF Ctor
  <2>2. c[2] \in Container
    BY <2>1, CallShape DEF Functions
  <2>3. H!Ctor(c[2])
    BY <2>1 DEF HtableTable
  <2>4. Table!Ctor(c[2])
    BY <1>1, <2>2, <2>3, TableCallAnswers
  <2>5. Promise!Ctor(m)
    BY <2>1, <2>2, <2>4, CtorLift
  <2>6. op'[1] = "ctor" /\ op'[2] = m
    BY <2>1
  <2>7. QED
    BY <2>1, <2>5, PromiseAnswers
<1>3. CASE Dtor(m, c)
  <2>1. /\ c[1] = "dtor" /\ m \in maps /\ container[m] = c[2] /\ op' = <<c[1], m>> \o Arguments(c)
        /\ maps' = maps \ {m} /\ container' = [container EXCEPT ![m] = Null]
    BY <1>3, Zenon DEF Dtor, Makes, Owner
  <2>2. container[m] \in Container
    BY <2>1, LineIs
  <2>3. H!Dtor(container[m])
    BY <2>1 DEF HtableTable
  <2>4. Table!Dtor(container[m])
    BY <1>1, <2>2, <2>3, TableCallAnswers
  <2>5. Promise!Dtor(m)
    BY <2>1, <2>4, DtorLift
  <2>6. \E x : c = <<"dtor", x>>
    BY <2>1 DEF Calls
  <2>7. op' = <<"dtor", m>>
    <3>1. IsOf(op', m, c)
      BY <2>1, OpMade, Zenon
    <3>2. QED
      BY <2>6, <3>1, Zenon DEF IsOf
  <2>8. op'[1] = "dtor" /\ op'[2] = m
    BY <2>7
  <2>9. QED
    BY <2>5, <2>7, PromiseAnswers
<1>4. CASE SwapContents(m, n, c)
  <2>1. /\ c[1] = "swap" /\ m \in maps /\ n \in maps /\ container[m] = c[2] /\ container[n] = c[3]
        /\ op' = <<"swap", m, n>> /\ UNCHANGED <<client, maps, container>>
    BY <1>4, Zenon DEF SwapContents, Owner, AdapterUnchanged
  <2>2. container[m] \in Container /\ container[n] \in Container
    BY <2>1, LineIs
  <2>3. H!Swap(container[m], container[n])
    BY <2>1 DEF HtableTable
  <2>4. Table!Swap(container[m], container[n])
    BY <1>1, <2>2, <2>3, TableCallAnswers
  <2>5. Promise!Swap(m, n)
    BY <2>1, <2>4, ContentsSwapLift
  <2>6. op'[1] = "swap" /\ op'[2] = m /\ op'[3] = n
    BY <2>1
  <2>7. QED
    BY <2>1, <2>5, PromiseAnswers
<1>5. QED
  BY <1>2, <1>3, <1>4

(* The calls that no container makes, or that no table has an entry for. *)
LEMMA OtherAnswers ==
  ASSUME HP!Setting, MapsInv, HashesInv, Uses("htable"), H!Proceeds,
         NEW m \in Handle, NEW n \in Handle, CtorRefused(m) \/ Resize(m) \/ Swap(m, n)
  PROVE  Promise!Answers(op')
<1>1. CASE CtorRefused(m)
  <2>1. /\ op' = <<"ctor", m>> /\ m \notin maps /\ ret' = A!Returned("BAD_ALLOC", FALSE, Null)
        /\ UNCHANGED <<client, maps, container, store>>
    BY <1>1, Zenon DEF CtorRefused
  <2>2. Lines' = Lines
    BY <2>1, Zenon DEF Lines
  <2>3. Shown' = Shown
    BY <2>1, <2>2, SameLift
  <2>4. Promise!OutOfMemory
    BY <2>1, <2>3, Zenon DEF Promise!OutOfMemory, Promise!Returned, A!Returned, Shown
  <2>5. Promise!Ctor(m)
    BY <2>1, <2>4, Zenon DEF Promise!Ctor
  <2>6. op'[1] = "ctor" /\ op'[2] = m
    BY <2>1
  <2>7. QED
    BY <2>1, <2>5, PromiseAnswers
<1>2. CASE Resize(m)
  <2>1. op' = <<"rehash", m>> /\ m \in maps /\ UNCHANGED <<client, maps, container>>
    BY <1>2, Zenon DEF Resize, AdapterUnchanged
  <2>2. container[m] \in Container /\ HP!TabInv
    BY <2>1, LineIs DEF HashesInv
  <2>3. \E count \in Int : H!Rehash(container[m], count)
    <3>1. \E count \in Int : H!Rehash(container[m], count) \/ H!Reserve(container[m], count)
      BY <1>2, ResizeCounts
    <3>2. \A count \in Int : (count * LoadDen) \div LoadNum + 1 \in Int
      BY CountsReserved
    <3>3. QED
      BY <3>1, <3>2, Zenon DEF H!Reserve
  <2>4. Table!Rearrange(container[m])
    BY <2>2, <2>3, TableCallAnswers
  <2>5. Promise!Rearrange(m)
    BY <2>1, <2>4, AnswersLift
  <2>6. op'[1] = "rehash" /\ op'[2] = m
    BY <2>1
  <2>7. QED
    BY <2>1, <2>5, PromiseAnswers
<1>3. CASE Swap(m, n)
  <2>1. Promise!Swap(m, n)
    BY <1>3, SwapLift
  <2>2. op' = <<"swap", m, n>>
    BY <1>3, Zenon DEF Swap
  <2>3. op'[1] = "swap" /\ op'[2] = m /\ op'[3] = n
    BY <2>2
  <2>4. QED
    BY <2>1, <2>2, PromiseAnswers
<1>4. QED
  BY <1>1, <1>2, <1>3

LEMMA MapsAnswer ==
  ASSUME HP!Setting, HP!LoadFits, MapsInv, HashesInv, Uses("htable"), [Next]_vars
  PROVE  [Proceeds' /\ op'[1] \notin IteratorCalls => Promise!Answers(op')]_vars
<1>1. client' = client
  BY ClientKept
<1>2. SUFFICES ASSUME Proceeds', op'[1] \notin IteratorCalls, ~(UNCHANGED vars)
               PROVE  Promise!Answers(op')
  OBVIOUS
<1>3. ~fault'
  BY <1>1, <1>2 DEF Proceeds, Uses, H!Proceeds
<1>4. Proceeds => H!Proceeds
  BY DEF Proceeds
<1>5. ASSUME NEW c \in Calls, TableCall(c), Proceeds PROVE HtableTable(c)
  BY <1>5 DEF TableCall, Uses
<1>6. ASSUME NEW c \in Calls, TableCall(c), Proceeds, NEW m \in Handle, Operation(m, c)
      PROVE  Promise!Answers(op')
  BY <1>3, <1>4, <1>5, <1>6, OperationAnswers
<1>7. ASSUME NEW c \in Calls, TableCall(c), Proceeds, NEW m \in Handle, NEW n \in Handle,
             Ctor(m, c) \/ Dtor(m, c) \/ SwapContents(m, n, c)
      PROVE  Promise!Answers(op')
  BY <1>1, <1>4, <1>5, <1>7, LifeAnswers
<1>8. ASSUME Proceeds, NEW m \in Handle, NEW n \in Handle, CtorRefused(m) \/ Resize(m) \/ Swap(m, n)
      PROVE  Promise!Answers(op')
  BY <1>4, <1>8, OtherAnswers
<1>9. ASSUME NEW m, Begin(m) \/ End(m) \/ IterCtor \/ IterDtor \/ IterNext \/ IterPrev
      PROVE  FALSE
  <2>1. \/ op' = <<"begin", m>> \/ op' = <<"end", m>> \/ op' = <<"iter_ctor">> \/ op' = <<"iter_dtor">>
        \/ op' = <<"iter_next">> \/ op' = <<"iter_prev">>
    BY <1>9, Zenon DEF Begin, End, IterCtor, IterDtor, IterNext, IterPrev
  <2>2. QED
    BY <1>2, <2>1 DEF IteratorCalls
<1>10. QED
  BY <1>2, <1>6, <1>7, <1>8, <1>9, Zenon DEF Next, Halted, Operation

(* Whatever clients do with maps over hash tables, whatever the hash       *)
(* function and the number of maps: each call changes the map behind its   *)
(* handle as the map table says and no other, and returns what it says, up *)
(* to the call in which a table follows a dangling bucket or loses its nil *)
(* entry                                                                   *)
(* (map_insert, map_insert_or_assign, map_erase, map_find, map_clear,      *)
(* map_swap, rehash and reserve).                                          *)
THEOREM HashMapsKeepPromise ==
  ASSUME HP!NullHashesToZero, HP!LoadFits
  PROVE  Spec /\ Uses("htable") => CallsKeepPromise
<1>1. HP!Setting
  BY HashSetting
<1>2. Uses("htable") /\ [Next]_vars => Uses("htable")'
  BY ClientKept DEF Uses
<1>3. /\ MapsInv /\ HashesInv /\ Uses("htable") /\ [Next]_vars
      => [Proceeds' /\ op'[1] \notin IteratorCalls => Promise!Answers(op')]_vars
  BY <1>1, MapsAnswer
<1>4. QED
  BY <1>2, <1>3, HashesKept, PTL DEF Spec, CallsKeepPromise
=============================================================================
