------------------------------- MODULE PQueue --------------------------------
(***************************************************************************)
(* The priority queue adapter (src/adapters/priority-queue.c) over the     *)
(* binary heap, the pairing heap or the binomial heap, with the calls of   *)
(* the heaps that the adapter has no table entry for (merge, clear,        *)
(* change_key).  The adapter stores nothing but a pointer to the heap, so  *)
(* a handle stands for both.                                               *)
(*                                                                         *)
(* Every call is atomic (the library is single threaded); any malloc may   *)
(* fail.                                                                   *)
(***************************************************************************)
EXTENDS Naturals, SequencesExt

CONSTANTS
  Handle,   (* the queues the client may have                             *)
  Item,     (* the pointers the client may store                          *)
  Key,      (* Key[v] is what cmp looks at in item v                      *)
  NULL,     (* the null pointer                                           *)
  Junk,     (* what the fields of a freed node hold                       *)
  Kinds,    (* the heaps behind the queues, of AllKinds                   *)
  Owning    (* those of them whose data_info has a dfree                  *)

ASSUME NodesAssumption == IsFiniteSet(Item) /\ NULL \notin Item /\ Junk \notin Item
ASSUME KeyAssumption == Key \in [Item -> Nat]
AllKinds == {"heap", "pairing", "binomial"}

ASSUME KindsAssumption == Kinds \subseteq AllKinds /\ Owning \subseteq Kinds

VARIABLES
  kind,    (* the heap behind all the queues                              *)
  exists,  (* the handles that are constructed and not destroyed          *)
  seq,     (* "heap": seq[d] is the array of the heap behind d            *)
  mem,     (* "pairing" and "binomial": the nodes                         *)
  root,    (* and root[d] and size[d] of the heap behind d                *)
  size,
  top,     (* "binomial": top[d] of the heap behind d                     *)
  live,    (* with a dfree: the items malloc'd by the client, not freed   *)
  fault,   (* whether dfree was ever given anything but a live item       *)
  misread, (* "binomial": whether find_top has read a key as a node       *)
  ret,     (* the status the last call returned                           *)
  call     (* the last call, its name and its arguments                   *)

binary == <<seq>>
nodes == <<mem, root, size, top>>
ownership == <<live, fault>>
vars == <<kind, exists, seq, mem, root, size, top, live, fault, misread, ret, call>>

B == INSTANCE BinaryHeap
P == INSTANCE PairingHeap
N == INSTANCE BinomialHeap

-----------------------------------------------------------------------------
ItemsOf(d) == IF kind = "heap" THEN Range(seq[d]) ELSE P!Nodes(mem, root[d])

(* priority_queue_top *)
TopOf(d) ==
  CASE kind = "pairing" -> root[d]
    [] kind = "binomial" -> top[d]
    [] kind = "heap" /\ seq[d] = <<>> -> NULL
    [] OTHER -> seq[d][1]

Storable(v) == v \notin live /\ \A d \in Handle : v \notin ItemsOf(d)

HasDfree == kind \in Owning

Handed(v) ==
  /\ live' = IF HasDfree THEN live \cup {v} ELSE live
  /\ UNCHANGED fault

(* dfree is called once on each of the items of S. *)
Dfree(S) ==
  /\ live' = IF HasDfree THEN live \ S ELSE live
  /\ fault' = (fault \/ (HasDfree /\ ~(S \subseteq live)))

Completed ==
  /\ ret' = "OK"
  /\ UNCHANGED <<kind, exists>>

Done == Completed /\ UNCHANGED misread

OutOfMemory ==
  /\ ret' = "BAD_ALLOC"
  /\ UNCHANGED <<kind, exists, binary, nodes, ownership, misread>>

(* The call runs find_top over each of these rows, nodes and first root.   *)
DoneWithTopOf(rows) ==
  /\ misread' = (misread \/ \E t \in rows : N!ReadsAKeyAsNode(t.mem, t.root))
  /\ Completed

(* The heaps of d become these. *)
SeqBecomes(d, s) == seq' = [seq EXCEPT ![d] = s] /\ UNCHANGED nodes

TreeBecomes(d, t, n) ==
  /\ mem' = t.mem
  /\ root' = [root EXCEPT ![d] = t.root]
  /\ size' = [size EXCEPT ![d] = n]
  /\ UNCHANGED <<binary, top>>

RowBecomes(d, t, n, v) ==
  /\ mem' = t.mem
  /\ root' = [root EXCEPT ![d] = t.root]
  /\ size' = [size EXCEPT ![d] = n]
  /\ top' = [top EXCEPT ![d] = v]
  /\ UNCHANGED binary

-----------------------------------------------------------------------------
Init ==
  /\ kind \in Kinds
  /\ exists = {}
  /\ seq = [d \in Handle |-> <<>>]
  /\ mem = IF kind = "binomial" THEN N!NoNodes ELSE P!NoNodes
  /\ root = [d \in Handle |-> NULL]
  /\ size = [d \in Handle |-> 0]
  /\ top = [d \in Handle |-> NULL]
  /\ live = {}
  /\ fault = FALSE
  /\ misread = FALSE
  /\ ret = "OK"
  /\ call = <<"none">>

Ctor(d) ==
  /\ call' = <<"ctor", d>>
  /\ d \notin exists
  /\ \/ /\ exists' = exists \cup {d}
        /\ ret' = "OK"
        /\ UNCHANGED <<kind, binary, nodes, ownership, misread>>
     \/ OutOfMemory

(* A mutant: the nodes are freed, their items are not. *)
EmptiedNoDfree(d) ==
  /\ \/ kind = "heap" /\ SeqBecomes(d, <<>>)
     \/ kind = "pairing" /\ TreeBecomes(d, [mem |-> P!FreeNodes(mem, ItemsOf(d)), root |-> NULL], 0)
     \/ /\ kind = "binomial"
        /\ RowBecomes(d, [mem |-> N!FreeNodes(mem, ItemsOf(d)), root |-> NULL], 0, NULL)
  /\ UNCHANGED ownership

(* What the destructors and clear free. *)
Emptied(d) ==
  /\ \/ kind = "heap" /\ SeqBecomes(d, <<>>)
     \/ kind = "pairing" /\ TreeBecomes(d, [mem |-> P!FreeNodes(mem, ItemsOf(d)), root |-> NULL], 0)
     \/ /\ kind = "binomial"
        /\ RowBecomes(d, [mem |-> N!FreeNodes(mem, ItemsOf(d)), root |-> NULL], 0, NULL)
  /\ Dfree(ItemsOf(d))

Dtor(d) ==
  /\ call' = <<"dtor", d>>
  /\ d \in exists
  /\ Emptied(d)
  /\ exists' = exists \ {d}
  /\ ret' = "OK"
  /\ UNCHANGED <<kind, misread>>

(* The clear of two heaps; heap_clear is declared but has no definition.   *)
Clear(d) ==
  /\ call' = <<"clear", d>>
  /\ d \in exists
  /\ kind # "heap"
  /\ Emptied(d)
  /\ Done

Push(d, v) ==
  /\ call' = <<"push", d, v>>
  /\ d \in exists
  /\ Storable(v)
  /\ \/ kind = "heap" /\ SeqBecomes(d, B!Inserted(seq[d], v)) /\ Handed(v) /\ Done
     \/ kind = "pairing" /\ TreeBecomes(d, P!Inserted(mem, root[d], v), size[d] + 1) /\ Handed(v) /\ Done
     \/ /\ kind = "binomial"
        /\ RowBecomes(d, N!Inserted(mem, root[d], v), size[d] + 1, N!UpdatedTop(top[d], v))
        /\ Handed(v)
        /\ Done
     \/ OutOfMemory

(* heap_extract_top pops the last item off the array, where dfree frees    *)
(* it, and then makes it the top.  binomial_heap_extract_top takes what    *)
(* find_top finds, which need not be the top.                              *)
Pop(d) ==
  /\ call' = <<"pop", d>>
  /\ d \in exists
  /\ ItemsOf(d) # {}
  /\ \/ kind = "heap" /\ SeqBecomes(d, B!WithoutTop(seq[d])) /\ Dfree({Last(seq[d])}) /\ Done
     \/ /\ kind = "pairing"
        /\ TreeBecomes(d, P!WithoutTop(mem, root[d]), size[d] - 1)
        /\ Dfree({root[d]})
        /\ Done
     \/ /\ kind = "binomial"
        /\ LET t == N!Extracted(mem, root[d])
           IN /\ RowBecomes(d, t, size[d] - 1, N!FindTop(t.mem, t.root))
              /\ DoneWithTopOf({[mem |-> mem, root |-> root[d]], t})
        /\ Dfree({N!FindTop(mem, root[d])})

(* heap_change_key and binomial_heap_change_key of item u, at which the    *)
(* client has an iterator.  The array gives u back to the client, the      *)
(* binomial heap to dfree.  pairing_heap_change_key asserts false.         *)
ChangeKey(d, u, v) ==
  /\ call' = <<"change_key", d, u, v>>
  /\ d \in exists
  /\ u \in ItemsOf(d)
  /\ Storable(v)
  /\ \/ /\ kind = "heap"
        /\ SeqBecomes(d, B!Changed(seq[d], CHOOSE i \in DOMAIN seq[d] : seq[d][i] = u, v))
        /\ Done
     \/ /\ kind = "binomial"
        /\ LET h == N!Changed([mem |-> mem, root |-> root[d], top |-> top[d]], u, v)
           IN /\ RowBecomes(d, h, size[d], h.top)
              /\ DoneWithTopOf(IF u = top[d] /\ ~N!Less(v, u) THEN {h} ELSE {})
  /\ live' = IF HasDfree THEN (live \ {u}) \cup {v} ELSE live
  /\ fault' = (fault \/ (HasDfree /\ u \notin live))

Merge(d, e) ==
  /\ call' = <<"merge", d, e>>
  /\ {d, e} \subseteq exists
  /\ d # e
  /\ \/ /\ kind = "heap"
        /\ seq' = [seq EXCEPT ![d] = B!Merged(seq[d], seq[e]), ![e] = <<>>]
        /\ Done
        /\ UNCHANGED nodes
     \/ /\ kind = "pairing"
        /\ LET t == P!Meld(mem, root[d], root[e])
           IN mem' = t.mem /\ root' = [root EXCEPT ![d] = t.root, ![e] = NULL]
        /\ size' = [size EXCEPT ![d] = @ + size[e], ![e] = 0]
        /\ Done
        /\ UNCHANGED <<binary, top>>
     \/ /\ kind = "binomial"
        /\ LET t == N!Meld(mem, root[d], root[e])
           IN mem' = t.mem /\ root' = [root EXCEPT ![d] = t.root, ![e] = NULL]
        /\ size' = [size EXCEPT ![d] = @ + size[e], ![e] = 0]
        /\ top' = [top EXCEPT ![d] = N!UpdatedTop(top[d], top[e]), ![e] = NULL]
        /\ Done
        /\ UNCHANGED binary
     \/ kind = "heap" /\ OutOfMemory
  /\ UNCHANGED ownership

(* The swaps of the adapter and of the heaps: pointers and sizes change    *)
(* hands.                                                                  *)
Swap(d, e) ==
  /\ call' = <<"swap", d, e>>
  /\ {d, e} \subseteq exists
  /\ seq' = [seq EXCEPT ![d] = seq[e], ![e] = seq[d]]
  /\ root' = [root EXCEPT ![d] = root[e], ![e] = root[d]]
  /\ size' = [size EXCEPT ![d] = size[e], ![e] = size[d]]
  /\ top' = [top EXCEPT ![d] = top[e], ![e] = top[d]]
  /\ Done
  /\ UNCHANGED <<mem, ownership>>

(* Bound: what a key read as a node holds is undefined.  The call that     *)
(* reads one may go on to its end, for m decides nothing; what the program *)
(* does after it is not followed.                                          *)
Proceeds == ~misread

Halted == ~Proceeds /\ UNCHANGED vars

Next ==
  \/ /\ Proceeds
     /\ \/ \E d \in Handle : Ctor(d) \/ Dtor(d) \/ Clear(d) \/ Pop(d)
        \/ \E d \in Handle, v \in Item : Push(d, v)
        \/ \E d \in Handle, u, v \in Item : ChangeKey(d, u, v)
        \/ \E d, e \in Handle : Merge(d, e) \/ Swap(d, e)
  \/ Halted

Spec == Init /\ [][Next]_vars

-----------------------------------------------------------------------------

(* size counts the nodes; every node that is allocated is in one heap, and *)
(* the top of a binomial heap is a node of it.                             *)
PartitionInv ==
  kind # "heap" =>
    /\ \A d \in Handle : size[d] = Cardinality(ItemsOf(d))
    /\ \A d, e \in Handle : d # e => ItemsOf(d) \cap ItemsOf(e) = {}
    /\ UNION {ItemsOf(d) : d \in exists} = {n \in Item : mem.child[n] # Junk}
    /\ \A d \in Handle : ItemsOf(d) # {} => TopOf(d) \in ItemsOf(d)

(* With a dfree, the live items are those in the queues; each is freed     *)
(* once, when it leaves.                                                   *)
OwnershipInv ==
  HasDfree => ~fault /\ live = UNION {ItemsOf(d) : d \in exists}

Promise == INSTANCE PriorityQueue WITH
  items <- [d \in Handle |-> ItemsOf(d)], top <- [d \in Handle |-> TopOf(d)], None <- NULL

(* What the binomial heap gets wrong.  find_top may read a key as a node,  *)
(* after which nothing is promised.  And it finds the last root: so a      *)
(* pop may take another item than the top, and after a pop, or a change of *)
(* the top's key to a later one, another item may come before the top.     *)
(* And after a merge the top may be below a root of the same key: when     *)
(* that root's key becomes a later one, the top's node gets another key.   *)
TopsComeFirst == \A d \in exists : ItemsOf(d) = {} \/ TopOf(d) \in Promise!Firsts(ItemsOf(d))

Misled ==
  /\ kind = "binomial"
  /\ \/ misread'
     \/ ~TopsComeFirst
     \/ call'[1] = "pop" /\ (N!FindTop(mem, root[call'[2]]) # TopOf(call'[2]) \/ ~TopsComeFirst')
     \/ /\ call'[1] = "change_key"
        /\ Key[call'[3]] = Key[TopOf(call'[2])]
        /\ Key[call'[4]] >= Key[call'[3]]
        /\ ~TopsComeFirst'

(* Every call changes the queues and their tops as the priority queue      *)
(* table and the headers of the heaps say, unless find_top misleads it.    *)
CallsKeepPromise == [][~Misled => Promise!Answers(call')]_vars

(* What binomial-heap.h says of extract_top: it extracts the top item.     *)
PopTakesTheTop ==
  [][\A d \in Handle : call' = <<"pop", d>> => ItemsOf(d)' = ItemsOf(d) \ {TopOf(d)}]_vars
=============================================================================
