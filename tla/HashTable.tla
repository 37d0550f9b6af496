------------------------------ MODULE HashTable ------------------------------
(***************************************************************************)
(* The hash table (src/hash-table.c).  All entries hang on one singly      *)
(* linked list that starts at a nil entry; the entries of a bucket stand   *)
(* next to each other, and buckets[b] points to the entry BEFORE the first *)
(* of bucket b.  Moving or freeing an entry therefore has to repair the    *)
(* bucket of its neighbour as well as its own.                             *)
(*                                                                         *)
(* An entry is named by its key (a table never holds a key twice), the nil *)
(* entry by Nil, the NULL pointer by Null.  When an entry is freed every   *)
(* bucket that still points to it becomes Dangling: such a pointer is      *)
(* indeterminate from then on, whatever malloc does with the block.        *)
(* Every call is atomic (the library is single threaded); any malloc or    *)
(* calloc may fail.                                                        *)
(***************************************************************************)
EXTENDS Integers, FiniteSets, SequencesExt

CONSTANTS
  Handle,      (* the hash tables the client may have                     *)
  Key,         (* the keys the client uses                                *)
  Value,       (* the values the client stores                            *)
  Hash,        (* Hash[k] is what the hash function of the data_info says *)
  NullKey,     (* the key NULL, if the client uses it                     *)
  Nil,         (* the nil entry                                           *)
  Null,        (* the NULL pointer, and the iterator at the end           *)
  Dangling,    (* a pointer to a freed entry                              *)
  MinBuckets,  (* HASH_TABLE_MIN_CAPACITY                                 *)
  MaxBuckets,  (* bound: calloc refuses more buckets                      *)
  LoadNum, LoadDen  (* load_factor is the fraction LoadNum / LoadDen      *)

(* What the constants must be. *)
ConstantsOK ==
  /\ IsFiniteSet(Key)
  /\ {Nil, Null, Dangling} \cap Key = {}
  /\ Cardinality({Nil, Null, Dangling}) = 3
  /\ Hash \in [Key -> Nat]
  /\ MinBuckets \in Nat \ {0}
  /\ MaxBuckets \in Nat
  /\ MaxBuckets >= MinBuckets
  /\ LoadNum \in Nat \ {0}
  /\ LoadDen \in Nat \ {0}

VARIABLES
  exists,  (* the handles that are constructed and not destroyed          *)
  tab,     (* tab[h] is the struct cdc_hash_table behind h                *)
  fault,   (* whether a dangling bucket was ever followed                 *)
  ret,     (* what the last call returned                                 *)
  call     (* the last call, its name and its arguments                   *)

vars == <<exists, tab, fault, ret, call>>

Entry == Key \cup {Nil}

-----------------------------------------------------------------------------
(* Reading a table. *)

(* The bucket an entry's stored hash says, and the bucket a key looks in:  *)
(* the nil entry is calloc'd, the key NULL is never hashed for a lookup.   *)
BucketOf(n, count) == IF n = Nil THEN 0 ELSE Hash[n] % count

BucketFor(k, count) == IF k = NullKey THEN 0 ELSE Hash[k] % count

(* The entries from n on, n first: from[i][m] is the first i entries from m*)
(* on.  A walk that does not end after all entries is cut off.             *)
Chain(t, n) ==
  LET from[i \in 0 .. Cardinality(Entry)] ==
        [m \in Entry \cup {Null, Dangling} |->
           IF m \in Entry /\ i > 0 THEN <<m>> \o from[i - 1][t.next[m]] ELSE <<>>]
  IN from[Cardinality(Entry)][n]

(* find_entry: the entry before the one that holds k, or Null.  The walk   *)
(* leaves the bucket at the first entry with another hash.                 *)
FindEntry(t, k) ==
  LET b == BucketFor(k, t.bcount)
      c == Chain(t, t.buckets[b])
      hit(i) == c[i + 1] = k /\ \A j \in 2 .. i : BucketOf(c[j], t.bcount) = b
  IN IF \E i \in 1 .. Len(c) - 1 : hit(i)
     THEN c[CHOOSE i \in 1 .. Len(c) - 1 : hit(i)]
     ELSE Null

Found(t, k) == FindEntry(t, k) # Null

(* What get finds, and what begin and iter_next visit.                     *)
Contents(t) == [k \in {x \in Key : Found(t, x)} |-> t.value[k]]

Listing(t) == Tail(Chain(t, t.buckets[0]))

(* A mutant: the table grows one element late.                             *)
ShouldRehashLate(t) == t.size * LoadDen > LoadNum * t.bcount

ShouldRehash(t) == t.size * LoadDen >= LoadNum * t.bcount

-----------------------------------------------------------------------------
(* Changing a table. *)

Malloced(t, k, v) ==
  [t EXCEPT !.value = [x \in DOMAIN t.value \cup {k} |-> IF x = k THEN v ELSE t.value[x]]]

(* Frees the entries of the set s. *)
Freed(t, s) ==
  [t EXCEPT !.value = [x \in DOMAIN t.value \ s |-> t.value[x]],
            !.next = [n \in Entry |-> IF n \in s THEN Null ELSE t.next[n]],
            !.buckets = [b \in DOMAIN t.buckets |->
                           IF t.buckets[b] \in s THEN Dangling ELSE t.buckets[b]]]

(* A mutant: the entry that was first in the list keeps its bucket.        *)
AddEntryNoRepair(t, k) ==
  LET b == BucketFor(k, t.bcount)
      e == t.buckets[b]
  IN IF e = Null
     THEN [t EXCEPT !.buckets[b] = t.tail, !.next[t.tail] = k, !.tail = k]
     ELSE IF t.next[e] = Null THEN [t EXCEPT !.next[t.tail] = k, !.tail = k]
     ELSE [t EXCEPT !.next[e] = k, !.next[k] = t.next[e]]

(* add_entry: an empty bucket starts at the tail, else the new entry       *)
(* becomes the first of its bucket; then the bucket of the entry it was    *)
(* put before may have to point to it.                                     *)
AddEntry(t, k) ==
  LET b == BucketFor(k, t.bcount)
      e == t.buckets[b]
      nb == BucketOf(t.next[e], t.bcount)
      repaired == IF nb # b THEN [t EXCEPT !.buckets[nb] = k] ELSE t
  IN IF e = Null
     THEN [t EXCEPT !.buckets[b] = t.tail, !.next[t.tail] = k, !.tail = k]
     ELSE IF t.next[e] = Null THEN [t EXCEPT !.next[t.tail] = k, !.tail = k]
     ELSE [repaired EXCEPT !.next[e] = k, !.next[k] = t.next[e]]

(* erase_entry: e is the entry before the erased one, b its bucket.  When  *)
(* the erased entry was the only one of its bucket the bucket is emptied,  *)
(* but to nil, not to NULL, if e is the nil entry.                         *)
EraseEntry(t, e, b) ==
  LET victim == t.next[e]
      next == t.next[victim]
      eb == BucketOf(e, t.bcount)
      vb == BucketOf(victim, t.bcount)
      nb == BucketOf(next, t.bcount)
      freed == Freed(t, {victim})
      unlinked == [freed EXCEPT !.next[e] = next, !.size = t.size - 1]
      emptied == IF e = freed.buckets[0] THEN e ELSE Null
  IN CASE next = Null /\ eb # vb -> [unlinked EXCEPT !.buckets[b] = Null, !.tail = e]
       [] next = Null /\ eb = vb -> [unlinked EXCEPT !.tail = e]
       [] next # Null /\ vb = nb -> unlinked
       [] next # Null /\ vb # nb /\ eb # vb ->
            [unlinked EXCEPT !.buckets[b] = emptied, !.buckets[nb] = e]
       [] next # Null /\ vb # nb /\ eb = vb -> [unlinked EXCEPT !.buckets[nb] = e]

NoLinks == [n \in Entry |-> Null]

NewBuckets(count, first) == [b \in 0 .. count - 1 |-> IF b = 0 THEN first ELSE Null]

(* A mutant: the tail is not reset before the entries are added again.     *)
TransferredOldTail(t, count) ==
  LET bare == [t EXCEPT !.buckets = NewBuckets(count, t.buckets[0]),
                        !.next = NoLinks, !.bcount = count]
      entries == Listing(t)
      added[i \in 0 .. Len(entries)] ==
        IF i = 0 THEN bare ELSE AddEntry(added[i - 1], entries[i])
  IN added[Len(entries)]

(* transfer: every entry is added to the new buckets in list order.        *)
Transferred(t, count) ==
  LET nil == t.buckets[0]
      bare == [t EXCEPT !.buckets = NewBuckets(count, nil),
                        !.next = NoLinks,
                        !.tail = nil, !.bcount = count]
      entries == Listing(t)
      added[i \in 0 .. Len(entries)] ==
        IF i = 0 THEN bare ELSE AddEntry(added[i - 1], entries[i])
  IN added[Len(entries)]

(* hash_table_rehash to count buckets, up to a power of two: the tables it *)
(* may leave, none if the allocator refuses.                               *)
Pow2 == {2 ^ i : i \in 0 .. 16}

UpToPow2(count) ==
  {p \in Pow2 \cap 1 .. MaxBuckets : p >= count /\ \A q \in Pow2 : q >= count => q >= p}

Rehashed(t, count) ==
  IF count <= t.bcount THEN {t} ELSE {Transferred(t, p) : p \in UpToPow2(count)}

(* What make_and_insert_unique goes on with before it makes the entry.     *)
WithRoom(t) == IF ShouldRehash(t) THEN Rehashed(t, 2 * t.bcount) ELSE {t}

NewTable ==
  [buckets |-> NewBuckets(MinBuckets, Nil), bcount |-> MinBuckets,
   next |-> NoLinks, value |-> [k \in {} |-> k], tail |-> Nil, size |-> 0]

-----------------------------------------------------------------------------
Returned(status, done, at) == [status |-> status, done |-> done, at |-> at]

Update(h, t, done, at) ==
  /\ tab' = [tab EXCEPT ![h] = t]
  /\ ret' = Returned("OK", done, at)
  /\ UNCHANGED <<exists, fault>>

(* The allocator refused, and left t behind h.                             *)
OutOfMemory(h, t) ==
  /\ tab' = [tab EXCEPT ![h] = t]
  /\ ret' = Returned("BAD_ALLOC", FALSE, Null)
  /\ UNCHANGED <<exists, fault>>

(* Looking for k follows the bucket of k: a dangling one is a use after    *)
(* free, and nothing is known of the program from there.                   *)
Dangles(h, k) == tab[h].buckets[BucketFor(k, tab[h].bcount)] = Dangling

FollowsDangling(h, k) ==
  /\ Dangles(h, k)
  /\ fault' = TRUE
  /\ UNCHANGED <<exists, tab, ret>>

(* Bound: the model follows the tables until one of them loses its nil     *)
(* entry (buckets[0] points elsewhere) or a dangling bucket was followed.  *)
NilKept(h) == tab[h].buckets[0] = Nil

Proceeds == ~fault /\ \A h \in exists : NilKept(h)

-----------------------------------------------------------------------------
Init ==
  /\ exists = {}
  /\ tab = [h \in Handle |-> NewTable]
  /\ ret = Returned("OK", FALSE, Null)
  /\ fault = FALSE
  /\ call = <<"none">>

(* hash_table_ctor1; the struct, the copy of info, the buckets and the nil *)
(* entry are each allocated.                                               *)
Ctor(h) ==
  /\ call' = <<"ctor", h>>
  /\ h \notin exists
  /\ \/ /\ exists' = exists \cup {h}
        /\ tab' = [tab EXCEPT ![h] = NewTable]
        /\ ret' = Returned("OK", FALSE, Null)
        /\ UNCHANGED fault
     \/ OutOfMemory(h, tab[h])

Dtor(h) ==
  /\ call' = <<"dtor", h>>
  /\ h \in exists
  /\ exists' = exists \ {h}
  /\ tab' = [tab EXCEPT ![h] = NewTable]
  /\ ret' = Returned("OK", FALSE, Null)
  /\ UNCHANGED fault

(* make_and_insert_unique: first the room, then the entry; when only the   *)
(* entry fails the table stays rehashed.                                   *)
MakeAndInsert(h, k, v) ==
  \/ \E t \in WithRoom(tab[h]) :
       Update(h, [AddEntry(Malloced(t, k, v), k) EXCEPT !.size = t.size + 1], TRUE, k)
  \/ \E t \in WithRoom(tab[h]) : OutOfMemory(h, t)
  \/ ShouldRehash(tab[h]) /\ OutOfMemory(h, tab[h])

Insert(h, k, v) ==
  /\ call' = <<"insert", h, k, v>>
  /\ h \in exists
  /\ \/ FollowsDangling(h, k)
     \/ Found(tab[h], k) /\ Update(h, tab[h], FALSE, k)
     \/ ~Dangles(h, k) /\ ~Found(tab[h], k) /\ MakeAndInsert(h, k, v)

InsertOrAssign(h, k, v) ==
  /\ call' = <<"insert_or_assign", h, k, v>>
  /\ h \in exists
  /\ \/ FollowsDangling(h, k)
     \/ Found(tab[h], k) /\ Update(h, [tab[h] EXCEPT !.value[k] = v], FALSE, k)
     \/ ~Dangles(h, k) /\ ~Found(tab[h], k) /\ MakeAndInsert(h, k, v)

(* get, count and find, which differ in how they report the entry.         *)
Find(h, k) ==
  /\ call' = <<"find", h, k>>
  /\ h \in exists
  /\ \/ FollowsDangling(h, k)
     \/ /\ ~Dangles(h, k)
        /\ Update(h, tab[h], Found(tab[h], k), IF Found(tab[h], k) THEN k ELSE Null)

Erase(h, k) ==
  /\ call' = <<"erase", h, k>>
  /\ h \in exists
  /\ LET t == tab[h]
         e == FindEntry(t, k)
     IN \/ FollowsDangling(h, k)
        \/ e = Null /\ ~Dangles(h, k) /\ Update(h, t, FALSE, Null)
        \/ e # Null /\ Update(h, EraseEntry(t, e, BucketFor(k, t.bcount)), TRUE, Null)

(* hash_table_clear resets the nil entry, the tail and the size, but not   *)
(* the buckets.                                                            *)
Clear(h) ==
  /\ call' = <<"clear", h>>
  /\ h \in exists
  /\ LET t == tab[h]
         nil == t.buckets[0]
     IN Update(h, [Freed(t, Range(Listing(t))) EXCEPT !.next[nil] = Null,
                                                       !.tail = nil, !.size = 0],
               FALSE, Null)

Rehash(h, count) ==
  /\ call' = <<"rehash", h, count>>
  /\ h \in exists
  /\ \/ \E t \in Rehashed(tab[h], count) : Update(h, t, FALSE, Null)
     \/ count > tab[h].bcount /\ OutOfMemory(h, tab[h])

(* Room for count entries: count / load_factor, cut to an integer, plus 1. *)
Reserve(h, count) == Rehash(h, (count * LoadDen) \div LoadNum + 1)

Swap(g, h) ==
  /\ call' = <<"swap", g, h>>
  /\ {g, h} \subseteq exists
  /\ tab' = [tab EXCEPT ![g] = tab[h], ![h] = tab[g]]
  /\ ret' = Returned("OK", FALSE, Null)
  /\ UNCHANGED <<exists, fault>>

Halted == ~Proceeds /\ UNCHANGED vars

Next ==
  \/ /\ Proceeds
     /\ \/ \E h \in Handle : Ctor(h) \/ Dtor(h) \/ Clear(h)
        \/ \E h \in Handle, k \in Key : Erase(h, k) \/ Find(h, k)
        \/ \E h \in Handle, k \in Key, v \in Value : Insert(h, k, v) \/ InsertOrAssign(h, k, v)
        \/ \E h \in Handle : \E count \in {MinBuckets, MinBuckets + 1} : Rehash(h, count)
        \/ \E h \in Handle : \E count \in {0, Cardinality(Key)} : Reserve(h, count)
        \/ \E g, h \in Handle : Swap(g, h)
  \/ Halted

Spec == Init /\ [][Next]_vars

-----------------------------------------------------------------------------
(* The one list holds every allocated entry exactly once, size counts them *)
(* and tail is the last: no call loses an entry or makes a cycle.          *)
ListInv ==
  \A h \in exists : NilKept(h) =>
    LET t == tab[h] IN
      /\ IsInjective(Listing(t))
      /\ Range(Listing(t)) = DOMAIN t.value
      /\ Len(Listing(t)) = t.size
      /\ Last(Chain(t, Nil)) = t.tail

(* A lookup by bucket finds exactly the entries the list holds, whatever   *)
(* order they were inserted, erased and rehashed in.                       *)
LookupInv ==
  \A h \in exists : NilKept(h) =>
    \A k \in Key : Found(tab[h], k) <=> k \in Range(Listing(tab[h]))

(* No bucket is ever fuller on average than the load factor allows when an *)
(* entry is added: the table grew before, or the insertion was refused.    *)
LoadInv ==
  \A h \in exists : tab[h].size > 0 =>
    (tab[h].size - 1) * LoadDen < LoadNum * tab[h].bcount

(* No call follows a bucket that points to a freed entry.                  *)
NoUseAfterFree == ~fault

(* begin and iter_next visit as many entries as size counts.               *)
IterationInv ==
  \A h \in exists : Len(Chain(tab[h], tab[h].buckets[0])) = tab[h].size + 1

(* The promise of the map table, for the maps the lookups see.             *)
Promise == INSTANCE Map WITH contents <- [h \in Handle |-> Contents(tab[h])], NoKey <- Null

(* Every call that follows no dangling bucket changes the map behind its   *)
(* handle as the map table says and returns what it says; one that runs    *)
(* out of memory may leave a larger table, but the same map.               *)
CallsKeepPromise == [][~fault' => Promise!Answers(call')]_vars
=============================================================================
