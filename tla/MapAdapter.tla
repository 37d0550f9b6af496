----------------------------- MODULE MapAdapter ------------------------------
(***************************************************************************)
(* The map adapter (src/adapters/map.c and adapters/map.h) over the four   *)
(* containers its tables are for (src/tables/map-*.c): the hash table, the *)
(* AVL tree, the splay tree and the treap, and one iterator of the client. *)
(* A map is a malloc'd struct that points to its container; swapping two   *)
(* maps swaps these pointers.                                              *)
(*                                                                         *)
(* Of the calls the tables have no entry for, or that no map makes, there  *)
(* are rehash and reserve of the hash table and the swap of two containers.*)
(* Every call is atomic (the library is single threaded); any malloc may   *)
(* fail.                                                                   *)
(***************************************************************************)
EXTENDS BinaryTree

CONSTANTS
  Handle,      (* the maps the client may have                            *)
  Container,   (* the addresses containers may be malloc'd at             *)
  Setups,      (* what a client may do: the table it uses, its maps, the  *)
               (* <<key, value>> pairs it inserts, if it uses an iterator *)
  Priority,    (* what the priority function of a treap may return        *)
  Hash, NullKey, Nil, Dangling, MinBuckets, MaxBuckets, LoadNum, LoadDen
               (* of the hash table: see HashTable                        *)

Tables == {"htable", "avl", "splay", "treap"}

PairsOf(table) == UNION {s.pairs : s \in {x \in Setups : x.table = table}}

HashKey == {p[1] : p \in PairsOf("htable")}
HashValue == {p[2] : p \in PairsOf("htable")}

VARIABLES
  client,     (* the setup of the program that runs                       *)
  maps,       (* the maps that are constructed and not destroyed          *)
  container,  (* container[m] is the pointer in the struct cdc_map m      *)
  exists,     (* the containers that are constructed and not destroyed    *)
  store,      (* store[c] is the struct at c                              *)
  fault,      (* whether a dangling bucket was ever followed              *)
  it,         (* the iterator of the client                               *)
  ret,        (* what the last call returned                              *)
  call,       (* the last call of a container                             *)
  op          (* the last call of the adapter, its name and its arguments *)

vars == <<client, maps, container, exists, store, fault, it, ret, call, op>>

H == INSTANCE HashTable WITH
  Handle <- Container, Key <- HashKey, Value <- HashValue, tab <- store
A == INSTANCE AvlTree WITH
  Handle <- Container, Key <- Node, Pair <- PairsOf("avl"), tree <- store
S == INSTANCE SplayTree WITH Handle <- Container, Key <- Node, tree <- store
T == INSTANCE Treap WITH Handle <- Container, Key <- Node, tree <- store

ASSUME SetupsAssumption ==
  \A s \in Setups : /\ s.table \in Tables
                    /\ s.maps \subseteq Handle
                    /\ s.table # "htable" => \A p \in s.pairs : p[1] \in Node
ASSUME ContainersAssumption ==
  IsFiniteSet(Handle) /\ Cardinality(Container) >= Cardinality(Handle) /\ Null \notin Container
ASSUME TablesAssumption == H!ConstantsOK /\ A!ConstantsOK /\ S!ConstantsOK /\ T!ConstantsOK

Uses(table) == client.table = table

Keys == {p[1] : p \in client.pairs}

Blank == IF Uses("htable") THEN H!NewTable ELSE EmptyTree

ContainerContents(c) == IF Uses("htable") THEN H!Contents(store[c]) ELSE Contents(store[c], Keys)

-----------------------------------------------------------------------------
(* The tables: the call c of a container, its name followed by the         *)
(* container and the arguments.  get and count go where find goes.         *)
HtableTable(c) ==
  CASE c[1] = "ctor" -> H!Ctor(c[2])
    [] c[1] = "dtor" -> H!Dtor(c[2])
    [] c[1] = "find" -> H!Find(c[2], c[3])
    [] c[1] = "insert" -> H!Insert(c[2], c[3], c[4])
    [] c[1] = "insert_or_assign" -> H!InsertOrAssign(c[2], c[3], c[4])
    [] c[1] = "erase" -> H!Erase(c[2], c[3])
    [] c[1] = "clear" -> H!Clear(c[2])
    [] c[1] = "swap" -> H!Swap(c[2], c[3])

AvlTable(c) ==
  CASE c[1] = "ctor" -> A!Ctor(c[2])
    [] c[1] = "dtor" -> A!Dtor(c[2])
    [] c[1] = "find" -> A!Find(c[2], c[3])
    [] c[1] = "insert" -> A!Insert(c[2], c[3], c[4])
    [] c[1] = "insert_or_assign" -> A!InsertOrAssign(c[2], c[3], c[4])
    [] c[1] = "erase" -> A!Erase(c[2], c[3])
    [] c[1] = "clear" -> A!Clear(c[2])
    [] c[1] = "swap" -> A!Swap(c[2], c[3])

SplayTable(c) ==
  CASE c[1] = "ctor" -> S!Ctor(c[2])
    [] c[1] = "dtor" -> S!Dtor(c[2])
    [] c[1] = "find" -> S!Find(c[2], c[3])
    [] c[1] = "insert" -> S!Insert(c[2], c[3], c[4])
    [] c[1] = "insert_or_assign" -> S!InsertOrAssign(c[2], c[3], c[4])
    [] c[1] = "erase" -> S!Erase(c[2], c[3])
    [] c[1] = "clear" -> S!Clear(c[2])
    [] c[1] = "swap" -> S!Swap(c[2], c[3])

TreapTable(c) ==
  CASE c[1] = "ctor" -> T!Ctor(c[2])
    [] c[1] = "dtor" -> T!Dtor(c[2])
    [] c[1] = "find" -> T!Find(c[2], c[3])
    [] c[1] = "insert" -> T!Insert(c[2], c[3], c[4])
    [] c[1] = "insert_or_assign" -> T!InsertOrAssign(c[2], c[3], c[4])
    [] c[1] = "erase" -> T!Erase(c[2], c[3])
    [] c[1] = "clear" -> T!Clear(c[2])
    [] c[1] = "swap" -> T!Swap(c[2], c[3])

TableCall(c) ==
  \/ Uses("htable") /\ HtableTable(c)
  \/ Uses("avl") /\ AvlTable(c) /\ UNCHANGED fault
  \/ Uses("splay") /\ SplayTable(c) /\ UNCHANGED fault
  \/ Uses("treap") /\ TreapTable(c) /\ UNCHANGED fault

(* The iterators of the tables: where the call named c puts an iterator of *)
(* a container that is t then.  A hash table's goes forward only.          *)
HtableIter(c, t, p) ==
  CASE c[1] = "begin" -> [current |-> t.next[t.buckets[0]], prev |-> Null]
    [] c[1] = "end" -> [current |-> Null, prev |-> Null]
    [] c[1] = "at" -> [current |-> c[2], prev |-> Null]
    [] c[1] = "next" -> [current |-> t.next[p.current], prev |-> Null]

TreeIter(c, t, p) ==
  CASE c[1] = "begin" -> AtBegin(t)
    [] c[1] = "end" -> AtEnd(t)
    [] c[1] = "at" -> AtNode(t, c[2])
    [] c[1] = "next" -> SteppedForward(t, p)
    [] c[1] = "prev" -> SteppedBack(t, p)

-----------------------------------------------------------------------------
(* The iterator of the client is not constructed, unset (malloc'd, and its *)
(* fields are not to be used), fresh (its container's elements are those   *)
(* of when it was set) or aged (others came or went; its own is there).    *)
NoIterator == [age |-> "none", owner |-> Null, current |-> Null, prev |-> Null]

UnsetIterator == [NoIterator EXCEPT !.age = "unset"]

(* The iterator goes where the table's call c puts it in container d.      *)
IterSet(c, d) ==
  LET p == IF Uses("htable") THEN HtableIter(c, store'[d], it) ELSE TreeIter(c, store'[d], it)
  IN it' = [age |-> "fresh", owner |-> d, current |-> p.current, prev |-> p.prev]

(* Elements of container d came, or those with the keys in gone went.  The *)
(* AVL tree frees another node than the erased key's when that has two     *)
(* children, so no iterator of it is used again after an erasure.          *)
IterAges(d, gone) ==
  it' = IF it.owner # d THEN it
        ELSE IF it.current \in gone \/ (Uses("avl") /\ gone # {}) THEN UnsetIterator
        ELSE [it EXCEPT !.age = "aged"]

(* The containers in D were emptied or destroyed, or lost their nodes. *)
IterLost(D) == it' = IF it.owner \in D THEN UnsetIterator ELSE it

AdapterUnchanged == UNCHANGED <<client, maps, container>>

-----------------------------------------------------------------------------
Init ==
  /\ client \in Setups
  /\ maps = {}
  /\ container = [m \in Handle |-> Null]
  /\ exists = {}
  /\ store = [c \in Container |-> Blank]
  /\ fault = FALSE
  /\ it = NoIterator
  /\ ret = A!Returned("OK", FALSE, Null)
  /\ call = <<"none">>
  /\ op = <<"none">>
(* Where malloc puts the next container: which of the free addresses it    *)
(* takes makes no difference.                                              *)
Unused ==
  IF Container \subseteq exists THEN {} ELSE {CHOOSE x \in Container : x \notin exists}

(* The adapter's part of the call c of a container: whose it is, and what  *)
(* becomes of the maps and the iterator.                                   *)
Calls ==
  {<<"ctor", x>> : x \in Unused}
  \cup {<<name, x>> : name \in {"dtor", "clear"}, x \in exists}
  \cup {<<name, x, k>> : name \in {"find", "erase"}, x \in exists, k \in Keys}
  \cup {<<name, x, p[1], p[2]>> :
          name \in {"insert", "insert_or_assign"}, x \in exists, p \in client.pairs}
  \cup {<<"swap", x, y>> : x \in exists, y \in exists}

Owner(m, x) == m \in maps /\ container[m] = x

Arguments(c) == SubSeq(c, 3, Len(c))

(* The map m makes the call c of its container.                            *)
Makes(m, c) == Owner(m, c[2]) /\ op' = <<c[1], m>> \o Arguments(c)

(* map_ctor: the struct, then the container; the map exists when both do.  *)
Ctor(m, c) ==
  /\ c[1] = "ctor"
  /\ m \in client.maps \ maps
  /\ op' = <<"ctor", m>>
  /\ IF ret'.status = "OK"
     THEN maps' = maps \cup {m} /\ container' = [container EXCEPT ![m] = c[2]]
     ELSE UNCHANGED <<maps, container>>
  /\ UNCHANGED <<client, it>>

CtorRefused(m) ==
  /\ op' = <<"ctor", m>>
  /\ m \in client.maps \ maps
  /\ ret' = A!Returned("BAD_ALLOC", FALSE, Null)
  /\ UNCHANGED <<client, maps, container, exists, store, fault, it, call>>

Dtor(m, c) ==
  /\ c[1] = "dtor"
  /\ Makes(m, c)
  /\ maps' = maps \ {m}
  /\ container' = [container EXCEPT ![m] = Null]
  /\ IterLost({c[2]})
  /\ UNCHANGED client

(* get and count; find also sets the iterator. *)
Get(m, c) ==
  /\ c[1] = "find"
  /\ Makes(m, c)
  /\ UNCHANGED it
  /\ AdapterUnchanged

Find(m, c) ==
  /\ c[1] = "find"
  /\ Makes(m, c)
  /\ it.age # "none" /\ ~fault'
  /\ IterSet(<<"at", ret'.at>>, c[2])
  /\ AdapterUnchanged

(* insert given the iterator, or NULL for it.                              *)
InsertIter(m, c) ==
  /\ c[1] = "insert"
  /\ Makes(m, c)
  /\ it.age # "none" /\ ~fault'
  /\ IF ret'.status = "OK" THEN IterSet(<<"at", c[3]>>, c[2]) ELSE UNCHANGED it
  /\ AdapterUnchanged

(* insert and insert_or_assign given NULL for the iterator.                *)
Insert(m, c) ==
  /\ c[1] \in {"insert", "insert_or_assign"}
  /\ Makes(m, c)
  /\ IF ret'.done THEN IterAges(c[2], {}) ELSE UNCHANGED it
  /\ AdapterUnchanged

Erase(m, c) ==
  /\ c[1] = "erase"
  /\ Makes(m, c)
  /\ IF ret'.done THEN IterAges(c[2], {c[3]}) ELSE UNCHANGED it
  /\ AdapterUnchanged

Clear(m, c) ==
  /\ c[1] = "clear"
  /\ Makes(m, c)
  /\ IterLost({c[2]})
  /\ AdapterUnchanged

(* The swap of the tables and of the containers, which exchanges contents. *)
SwapContents(m, n, c) ==
  /\ c[1] = "swap"
  /\ op' = <<"swap", m, n>>
  /\ Owner(m, c[2]) /\ Owner(n, c[3])
  /\ IterLost({c[2], c[3]})
  /\ AdapterUnchanged

(* A mutant: only one of the two pointers is assigned. *)
SwapHalf(m, n) ==
  /\ op' = <<"swap", m, n>>
  /\ {m, n} \subseteq maps
  /\ container' = [container EXCEPT ![m] = container[n]]
  /\ ret' = A!Returned("OK", FALSE, Null)
  /\ UNCHANGED <<client, maps, exists, store, fault, it, call>>

(* map_swap: the iterator stays in its container.                          *)
Swap(m, n) ==
  /\ op' = <<"swap", m, n>>
  /\ {m, n} \subseteq maps
  /\ container' = [container EXCEPT ![m] = container[n], ![n] = container[m]]
  /\ ret' = A!Returned("OK", FALSE, Null)
  /\ UNCHANGED <<client, maps, exists, store, fault, it, call>>

(* The calls of hash-table.h the table has no entry for.                   *)
Resize(m) ==
  /\ op' = <<"rehash", m>>
  /\ m \in maps
  /\ Uses("htable")
  /\ \/ \E count \in {MinBuckets, MinBuckets + 1} : H!Rehash(container[m], count)
     \/ \E count \in {0, Cardinality(HashKey)} : H!Reserve(container[m], count)
  /\ UNCHANGED it
  /\ AdapterUnchanged

-----------------------------------------------------------------------------
(* The calls on the iterator alone, which no container sees.               *)
IteratorCalls == {"iter_ctor", "iter_dtor", "begin", "end", "iter_next", "iter_prev"}

ContainersUnchanged == UNCHANGED <<client, maps, container, exists, store, fault, ret, call>>

(* map_iter_ctor needs a map for its table; it may fail to allocate.       *)
IterCtor ==
  /\ op' = <<"iter_ctor">>
  /\ client.iterates
  /\ it.age = "none"
  /\ maps # {}
  /\ it' \in {UnsetIterator, NoIterator}
  /\ ContainersUnchanged

IterDtor ==
  /\ op' = <<"iter_dtor">>
  /\ it.age # "none"
  /\ it' = NoIterator
  /\ ContainersUnchanged

Begin(m) ==
  /\ op' = <<"begin", m>>
  /\ m \in maps
  /\ it.age # "none"
  /\ ContainersUnchanged
  /\ IterSet(<<"begin">>, container[m])

End(m) ==
  /\ op' = <<"end", m>>
  /\ m \in maps
  /\ it.age # "none"
  /\ ContainersUnchanged
  /\ IterSet(<<"end">>, container[m])

(* A client steps forward while has_next says so, also when elements came  *)
(* or went, and back while has_prev says so and none did.                  *)
IterNext ==
  /\ op' = <<"iter_next">>
  /\ it.age \in {"fresh", "aged"}
  /\ it.current # Null
  /\ ContainersUnchanged
  /\ IterSet(<<"next">>, it.owner)

IterPrev ==
  /\ op' = <<"iter_prev">>
  /\ it.age = "fresh"
  /\ ~Uses("htable")
  /\ it.prev # Null
  /\ ContainersUnchanged
  /\ IterSet(<<"prev">>, it.owner)

-----------------------------------------------------------------------------
(* Bound: the model follows the containers until one of them shows one of  *)
(* the faults the modules HashTable and AvlTree describe.                  *)
Proceeds ==
  /\ Uses("htable") => H!Proceeds
  /\ Uses("avl") => A!Proceeds

Halted == ~Proceeds /\ UNCHANGED vars

Next ==
  \/ /\ Proceeds
     /\ \/ \E c \in Calls :
             /\ TableCall(c)
             /\ \/ \E m \in Handle : \/ Ctor(m, c) \/ Dtor(m, c) \/ Get(m, c) \/ Find(m, c)
                                    \/ Insert(m, c) \/ InsertIter(m, c) \/ Erase(m, c) \/ Clear(m, c)
                \/ \E m, n \in Handle : SwapContents(m, n, c)
        \/ \E m \in Handle : CtorRefused(m) \/ Resize(m) \/ Begin(m) \/ End(m)
        \/ \E m, n \in Handle : Swap(m, n)
        \/ IterCtor \/ IterDtor \/ IterNext \/ IterPrev
  \/ Halted

Spec == Init /\ [][Next]_vars

-----------------------------------------------------------------------------
(* Every container belongs to one map, whatever was swapped, and none is   *)
(* left behind by a map that is gone.                                      *)
SharingInv ==
  /\ \A m, n \in maps : container[m] = container[n] => m = n
  /\ exists = {container[m] : m \in maps}

(* The hash table's list, buckets and load, as HashTable states them.      *)
ListInv == Uses("htable") => H!ListInv

LookupInv == Uses("htable") => H!LookupInv

LoadInv == Uses("htable") => H!LoadInv

(* Every rotation, splay, split, merge and unlinking leaves a search tree  *)
(* whose pointers agree in both directions and whose size counts its nodes.*)
TreeInv == Proceeds /\ ~Uses("htable") => \A c \in exists : WellFormed(store[c])

(* The depth of an AVL tree stays logarithmic whatever is erased, and no   *)
(* node of a treap comes above one of a higher priority.                   *)
BalanceInv ==
  /\ Uses("avl") => A!BalanceInv
  /\ Uses("treap") => \A c \in exists : T!HeapOrdered(store[c])

(* Iterating forwards and backwards visits the nodes in key order.         *)
IterationInv ==
  Proceeds /\ ~Uses("htable") =>
    \A c \in exists : /\ Forward(store[c]) = InOrder(store[c])
                      /\ Backward(store[c]) = Reverse(InOrder(store[c]))

(* A fresh iterator stands between two neighbours of the key order, even   *)
(* when lookups have splayed the tree under it since it was set: the node  *)
(* before it is the last of the lower keys, or of all keys at the end.     *)
(* What the accessors read there is not part of it: iter_key_value of the  *)
(* trees returns the key and the value of the node before (avl-tree.h,     *)
(* line 394).                                                              *)
IteratorInv ==
  Proceeds /\ it.age = "fresh" =>
    LET held == IF Uses("htable") THEN Range(H!Listing(store[it.owner]))
                ELSE DOMAIN store[it.owner].node
        lower == {k \in held : it.current = Null \/ k < it.current}
    IN /\ it.current \in held \cup {Null}
       /\ ~Uses("htable") => it.prev = IF lower = {} THEN Null ELSE Max(lower)

(* What a client sees in the map m: the contents of the container behind.  *)
MapContents(m) == IF m \in maps THEN ContainerContents(container[m]) ELSE [k \in {} |-> k]

Promise == INSTANCE Map WITH
  Key <- Node, Value <- HashValue, NoKey <- Null, exists <- maps,
  contents <- [m \in Handle |-> MapContents(m)]

(* Every call of the adapter but those of the iterators changes the maps   *)
(* as the map table says and returns what it says, whatever container is   *)
(* behind them.                                                            *)
CallsKeepPromise ==
  [][Proceeds' /\ op'[1] \notin IteratorCalls => Promise!Answers(op')]_vars
=============================================================================
