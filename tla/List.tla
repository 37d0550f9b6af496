-------------------------------- MODULE List ---------------------------------
(***************************************************************************)
(* The doubly linked list (src/list.c).  Nodes are linked both ways; the   *)
(* list keeps its first and last node and counts them.  Whole ranges of    *)
(* nodes move between lists without being copied (splice, merge), and sort *)
(* relinks the nodes in place.                                             *)
(*                                                                         *)
(* A node is named by the pointer it holds, as every pointer is in at most *)
(* one node; list_set, which gives a node another pointer, renames it.     *)
(* mem is the memory: next and prev of every node and head, tail and size  *)
(* of every list.  The fields of a node that is not allocated are Junk.    *)
(* Every call is atomic (the library is single threaded); any malloc may   *)
(* fail.                                                                   *)
(***************************************************************************)
EXTENDS Naturals, SequencesExt

CONSTANTS
  Handle,    (* the lists the client may have                             *)
  Item,      (* the pointers the client may store                         *)
  Key,       (* Key[v] is what the comparisons look at in item v          *)
  NULL,      (* the null pointer                                          *)
  Junk,      (* what the fields of a freed node hold                      *)
  AnyRange   (* whether the client moves any range anywhere: see Splice   *)

ASSUME NodesAssumption ==
  IsFiniteSet(Item) /\ NULL \notin Item /\ Junk \notin Item /\ NULL # Junk
ASSUME KeyAssumption == Key \in [Item -> Nat]
ASSUME AnyRangeAssumption == AnyRange \in BOOLEAN

VARIABLES
  exists,  (* the handles that are constructed and not destroyed          *)
  mem,     (* the nodes and the structs of the lists                      *)
  ret,     (* the status the last call returned                           *)
  call     (* the last call, its name and its arguments                   *)

vars == <<exists, mem, ret, call>>

Link == Item \cup {NULL, Junk}

Mem == [next : [Item -> Link], prev : [Item -> Link],
        head : [Handle -> Item \cup {NULL}], tail : [Handle -> Item \cup {NULL}],
        size : [Handle -> Nat]]

-----------------------------------------------------------------------------
(* The walks along next and along prev.  A walk that does not end after    *)
(* all nodes is cut off.                                                   *)
Follow(link, n) == IF n \in Item THEN link[n] ELSE NULL

Chain(link, first) ==
  LET N == Cardinality(Item) + 1
      at[i \in 1 .. N] == IF i = 1 THEN first ELSE Follow(link, at[i - 1])
  IN SubSeq(at, 1, Cardinality({i \in 1 .. N : at[i] \in Item}))

Forward(s, d) == Chain(s.next, s.head[d])

Backward(s, d) == Chain(s.prev, s.tail[d])

(* get_node walks from the end the index is nearer to. *)
GetNode(s, d, i) ==
  CASE i < s.size[d] \div 2 -> Forward(s, d)[i + 1]
    [] i >= s.size[d] \div 2 /\ i < s.size[d] -> Backward(s, d)[s.size[d] - i]
    [] OTHER -> NULL

(* a->next = b and b->prev = a, for those of the two that are nodes.       *)
SetNext(s, a, b) == IF a = NULL THEN s ELSE [s EXCEPT !.next[a] = b]

SetPrev(s, b, a) == IF b = NULL THEN s ELSE [s EXCEPT !.prev[b] = a]

Linked(s, a, b) == SetPrev(SetNext(s, a, b), b, a)

FreeNode(s, n) == [s EXCEPT !.next[n] = Junk, !.prev[n] = Junk]

FreeNodes(s, S) ==
  [s EXCEPT !.next = [n \in Item |-> IF n \in S THEN Junk ELSE @[n]],
            !.prev = [n \in Item |-> IF n \in S THEN Junk ELSE @[n]]]

EmptyList(s, d) == [s EXCEPT !.head[d] = NULL, !.tail[d] = NULL, !.size[d] = 0]

-----------------------------------------------------------------------------
(* Single nodes. *)

PushedBack(s, d, n) ==
  LET t == s.tail[d]
      u == SetNext([s EXCEPT !.prev[n] = t, !.next[n] = NULL], t, n)
  IN [u EXCEPT !.head[d] = IF t = NULL THEN n ELSE @, !.tail[d] = n, !.size[d] = @ + 1]

PushedFront(s, d, n) ==
  LET h == s.head[d]
      u == SetPrev([s EXCEPT !.next[n] = h, !.prev[n] = NULL], h, n)
  IN [u EXCEPT !.head[d] = n, !.tail[d] = IF h = NULL THEN n ELSE @, !.size[d] = @ + 1]

InsertedMid(s, d, before, n) ==
  [Linked(Linked(s, s.prev[before], n), n, before) EXCEPT !.size[d] = @ + 1]

(* insert before a node, NULL for the end. *)
InsertedBefore(s, d, before, n) ==
  CASE before = s.head[d] -> PushedFront(s, d, n)
    [] before # s.head[d] /\ before = NULL -> PushedBack(s, d, n)
    [] OTHER -> InsertedMid(s, d, before, n)

PoppedBack(s, d) ==
  LET t == s.prev[s.tail[d]]
      u == SetNext(FreeNode(s, s.tail[d]), t, NULL)
  IN [u EXCEPT !.head[d] = IF t = NULL THEN NULL ELSE @, !.tail[d] = t, !.size[d] = @ - 1]

(* A mutant: the next node is read from the node that was just freed.      *)
PoppedFrontAfterFree(s, d) ==
  LET h == FreeNode(s, s.head[d]).next[s.head[d]]
      u == FreeNode(s, s.head[d])
  IN [u EXCEPT !.head[d] = h, !.tail[d] = IF h = NULL THEN NULL ELSE @, !.size[d] = @ - 1]

(* A mutant: the new head keeps pointing back at the freed node. *)
PoppedFrontOldPrev(s, d) ==
  LET h == s.next[s.head[d]]
  IN [FreeNode(s, s.head[d])
        EXCEPT !.head[d] = h, !.tail[d] = IF h = NULL THEN NULL ELSE @, !.size[d] = @ - 1]

PoppedFront(s, d) ==
  LET h == s.next[s.head[d]]
      u == SetPrev(FreeNode(s, s.head[d]), h, NULL)
  IN [u EXCEPT !.head[d] = h, !.tail[d] = IF h = NULL THEN NULL ELSE @, !.size[d] = @ - 1]

ErasedNode(s, d, n) ==
  CASE n = s.tail[d] -> PoppedBack(s, d)
    [] n = s.head[d] /\ n # s.tail[d] -> PoppedFront(s, d)
    [] OTHER -> [FreeNode(Linked(s, s.prev[n], s.next[n]), n) EXCEPT !.size[d] = @ - 1]

(* The node of pointer n now holds v. *)
Renamed(s, n, v) ==
  LET new(x) == IF x = n THEN v ELSE x
      fields(f) == [x \in Item |-> IF x = v THEN new(f[n]) ELSE IF x = n THEN Junk ELSE new(f[x])]
  IN [s EXCEPT !.next = fields(@), !.prev = fields(@),
               !.head = [d \in Handle |-> new(@[d])], !.tail = [d \in Handle |-> new(@[d])]]

-----------------------------------------------------------------------------
(* Ranges.  splice first takes the nodes first .. before last out of e,    *)
(* then puts them before position in d; NULL stands for the end.           *)

Detached(s, e, first, last) ==
  LET before == s.prev[first]
  IN CASE before # NULL /\ last # NULL -> Linked(s, before, last)
       [] before # NULL /\ last = NULL -> [s EXCEPT !.tail[e] = before, !.next[before] = NULL]
       [] before = NULL /\ last # NULL -> [s EXCEPT !.head[e] = last, !.prev[last] = NULL]
       [] OTHER -> [s EXCEPT !.head[e] = NULL, !.tail[e] = NULL]

(* z is the last node of the range.  Put at the end of a list that is not  *)
(* empty, z keeps its next.                                                *)
Attached(s, d, position, first, z) ==
  CASE position # NULL /\ s.prev[position] # NULL ->
         Linked(Linked(s, s.prev[position], first), z, position)
    [] position # NULL /\ s.prev[position] = NULL ->
         [Linked(s, z, s.head[d]) EXCEPT !.head[d] = first, !.prev[first] = NULL]
    [] position = NULL /\ s.tail[d] # NULL ->
         [Linked(s, s.tail[d], first) EXCEPT !.tail[d] = z]
    [] OTHER ->
         [s EXCEPT !.prev[first] = NULL, !.next[z] = NULL, !.head[d] = first, !.tail[d] = z]

(* A mutant: the sizes are left as they were. *)
SplicedUncounted(s, d, position, e, first, last, len) ==
  LET z == IF last = NULL THEN s.tail[e] ELSE s.prev[last]
  IN Attached(Detached(s, e, first, last), d, position, first, z)

Spliced(s, d, position, e, first, last, len) ==
  LET z == IF last = NULL THEN s.tail[e] ELSE s.prev[last]
      u == Attached(Detached(s, e, first, last), d, position, first, z)
      v == [u EXCEPT !.size[d] = @ + len]
  IN [v EXCEPT !.size[e] = @ - len]

-----------------------------------------------------------------------------
(* Merging and sorting work on pieces: chains of nodes with their two ends.*)
Piece == [mem : Mem, head : Link, tail : Link]

(* A mutant: the greater of the two nodes goes first. *)
MergeStepDescending(m) ==
  LET n == IF Key[m.b] < Key[m.a] THEN m.a ELSE m.b
      u == IF m.head = NULL THEN m.mem ELSE Linked(m.mem, m.tail, n)
  IN IF m.a = NULL \/ m.b = NULL THEN m
     ELSE [mem |-> u,
           a |-> IF n = m.a THEN u.next[n] ELSE m.a,
           b |-> IF n = m.b THEN u.next[n] ELSE m.b,
           head |-> IF m.head = NULL THEN n ELSE m.head,
           tail |-> n]

(* One round of cmerge: the node that comes first goes to the new chain.   *)
(* Of two equal ones it is b's.                                            *)
MergeStep(m) ==
  LET n == IF Key[m.a] < Key[m.b] THEN m.a ELSE m.b
      u == IF m.head = NULL THEN m.mem ELSE Linked(m.mem, m.tail, n)
  IN IF m.a = NULL \/ m.b = NULL THEN m
     ELSE [mem |-> u,
           a |-> IF n = m.a THEN u.next[n] ELSE m.a,
           b |-> IF n = m.b THEN u.next[n] ELSE m.b,
           head |-> IF m.head = NULL THEN n ELSE m.head,
           tail |-> n]

Cmerge(s, ha, ta, hb, tb) ==
  LET m[i \in 0 .. Cardinality(Item)] ==
        IF i = 0 THEN [mem |-> s, a |-> ha, b |-> hb, head |-> NULL, tail |-> NULL]
        ELSE MergeStep(m[i - 1])
      r == m[Cardinality(Item)]
  IN CASE hb = NULL -> [mem |-> s, head |-> ha, tail |-> ta]
       [] hb # NULL /\ ha = NULL -> [mem |-> s, head |-> hb, tail |-> tb]
       [] OTHER ->
            IF r.a = NULL
            THEN [mem |-> Linked(r.mem, r.tail, r.b), head |-> r.head, tail |-> tb]
            ELSE [mem |-> Linked(r.mem, r.tail, r.a), head |-> r.head, tail |-> ta]

(* halve: slow goes one node while fast goes two; the chain is cut before  *)
(* slow, and slow and the old tail are the ends of the second part.        *)
HalveStep(next, w) ==
  IF w.fast = NULL \/ Follow(next, w.fast) = NULL THEN w
  ELSE [slow |-> next[w.slow], fast |-> next[next[w.fast]]]

Halve(p) ==
  LET w[i \in 0 .. Cardinality(Item)] ==
        IF i = 0 THEN [slow |-> p.head, fast |-> p.head] ELSE HalveStep(p.mem.next, w[i - 1])
      slow == w[Cardinality(Item)].slow
      ta == p.mem.prev[slow]
  IN [mem |-> [p.mem EXCEPT !.next[ta] = NULL, !.prev[slow] = NULL], ta |-> ta, hb |-> slow]

(* merge_sort of every piece, given what its recursive calls return.       *)
SortStep(sorted) ==
  [p \in Piece |->
     IF p.head = NULL \/ Follow(p.mem.next, p.head) = NULL THEN p
     ELSE LET cut == Halve(p)
              a == sorted[[mem |-> cut.mem, head |-> p.head, tail |-> cut.ta]]
              b == sorted[[mem |-> a.mem, head |-> cut.hb, tail |-> p.tail]]
          IN Cmerge(b.mem, a.head, a.tail, b.head, b.tail)]

(* Calls are nested no deeper than the chain is long.                      *)
MergeSort(piece) ==
  LET sort[k \in 0 .. Cardinality(Item)] ==
        IF k = 0 THEN [p \in Piece |-> p] ELSE SortStep(sort[k - 1])
  IN sort[Cardinality(Item)][piece]

(* erase_if and punique walk the list and erase on the way.                *)
EraseIfStep(w, d, S) ==
  IF w.curr = NULL THEN w
  ELSE [mem |-> IF w.curr \in S THEN ErasedNode(w.mem, d, w.curr) ELSE w.mem,
        curr |-> w.mem.next[w.curr]]

ErasedIf(s, d, S) ==
  LET w[i \in 0 .. Cardinality(Item)] ==
        IF i = 0 THEN [mem |-> s, curr |-> s.head[d]] ELSE EraseIfStep(w[i - 1], d, S)
  IN w[Cardinality(Item)].mem

UniqueStep(w, d) ==
  LET next == Follow(w.mem.next, w.curr)
  IN IF next = NULL THEN w
     ELSE IF Key[w.curr] = Key[next] THEN [w EXCEPT !.mem = ErasedNode(@, d, next)]
     ELSE [w EXCEPT !.curr = next]

Uniqued(s, d) ==
  LET w[i \in 0 .. Cardinality(Item)] ==
        IF i = 0 THEN [mem |-> s, curr |-> s.head[d]] ELSE UniqueStep(w[i - 1], d)
  IN w[Cardinality(Item)].mem

(* reverse swaps next and prev in every node, then head and tail.          *)
ReversedList(s, d) ==
  LET S == Range(Forward(s, d))
  IN [s EXCEPT !.next = [n \in Item |-> IF n \in S THEN s.prev[n] ELSE @[n]],
               !.prev = [n \in Item |-> IF n \in S THEN s.next[n] ELSE @[n]],
               !.head[d] = s.tail[d], !.tail[d] = s.head[d]]

-----------------------------------------------------------------------------
Init ==
  /\ exists = {}
  /\ mem = [next |-> [n \in Item |-> Junk], prev |-> [n \in Item |-> Junk],
            head |-> [d \in Handle |-> NULL], tail |-> [d \in Handle |-> NULL],
            size |-> [d \in Handle |-> 0]]
  /\ ret = "OK"
  /\ call = <<"none">>

Contents == [d \in Handle |-> Forward(mem, d)]

(* A pointer may be stored while it is in no list.                         *)
Storable(v) == \A d \in Handle : v \notin Range(Contents[d])

Becomes(s) ==
  /\ mem' = s
  /\ ret' = "OK"
  /\ UNCHANGED exists

OutOfMemory ==
  /\ ret' = "BAD_ALLOC"
  /\ UNCHANGED <<exists, mem>>

Ctor(d) ==
  /\ call' = <<"ctor", d>>
  /\ d \notin exists
  /\ \/ /\ exists' = exists \cup {d}
        /\ mem' = EmptyList(mem, d)
        /\ ret' = "OK"
     \/ OutOfMemory

Dtor(d) ==
  /\ call' = <<"dtor", d>>
  /\ d \in exists
  /\ exists' = exists \ {d}
  /\ mem' = EmptyList(FreeNodes(mem, Range(Contents[d])), d)
  /\ ret' = "OK"

PushBack(d, v) ==
  /\ call' = <<"push_back", d, v>>
  /\ d \in exists
  /\ Storable(v)
  /\ Becomes(PushedBack(mem, d, v)) \/ OutOfMemory

PushFront(d, v) ==
  /\ call' = <<"push_front", d, v>>
  /\ d \in exists
  /\ Storable(v)
  /\ Becomes(PushedFront(mem, d, v)) \/ OutOfMemory

(* list_insert; list_iinsert is given the node itself. *)
Insert(d, i, v) ==
  /\ call' = <<"insert", d, i, v>>
  /\ d \in exists
  /\ i \in 0 .. mem.size[d]
  /\ Storable(v)
  /\ Becomes(InsertedBefore(mem, d, GetNode(mem, d, i), v)) \/ OutOfMemory

PopBack(d) ==
  /\ call' = <<"pop_back", d>>
  /\ d \in exists
  /\ mem.tail[d] # NULL
  /\ Becomes(PoppedBack(mem, d))

PopFront(d) ==
  /\ call' = <<"pop_front", d>>
  /\ d \in exists
  /\ mem.head[d] # NULL
  /\ Becomes(PoppedFront(mem, d))

(* list_erase; list_ierase is given the node itself. *)
Erase(d, i) ==
  /\ call' = <<"erase", d, i>>
  /\ d \in exists
  /\ i \in 0 .. mem.size[d] - 1
  /\ Becomes(ErasedNode(mem, d, GetNode(mem, d, i)))

Set(d, i, v) ==
  /\ call' = <<"set", d, i, v>>
  /\ d \in exists
  /\ i \in 0 .. mem.size[d] - 1
  /\ Storable(v)
  /\ Becomes(Renamed(mem, GetNode(mem, d, i), v))

Clear(d) ==
  /\ call' = <<"clear", d>>
  /\ d \in exists
  /\ Becomes(EmptyList(FreeNodes(mem, Range(Contents[d])), d))

Swap(a, b) ==
  /\ call' = <<"swap", a, b>>
  /\ {a, b} \subseteq exists
  /\ Becomes([mem EXCEPT !.head[a] = mem.head[b], !.head[b] = mem.head[a],
                         !.tail[a] = mem.tail[b], !.tail[b] = mem.tail[a],
                         !.size[a] = mem.size[b], !.size[b] = mem.size[a]])

(* list_splice of the nodes first .. last - 1 of e before node at of d;    *)
(* list_ssplice and list_lsplice are splices up to the end.  The client    *)
(* gives a range with at least one node (list_lsplice of an empty list     *)
(* would follow NULL) that position is not in.  Unless AnyRange, it does   *)
(* not move a range that ends before the end of its list to the end of a   *)
(* list with other nodes.                                                  *)
Splice(d, at, e, first, last) ==
  /\ call' = <<"splice", d, at, e, first, last>>
  /\ {d, e} \subseteq exists
  /\ at \in 0 .. mem.size[d]
  /\ first \in 0 .. last - 1
  /\ last \in 1 .. mem.size[e]
  /\ d = e => at \notin first .. last - 1
  /\ AnyRange \/ at < mem.size[d] \/ last = mem.size[e] \/ mem.size[d] = 0
  /\ Becomes(Spliced(mem, d, GetNode(mem, d, at), e, GetNode(mem, e, first),
                     GetNode(mem, e, last), last - first))

InOrder(c) == \A i, j \in DOMAIN c : i < j => Key[c[i]] <= Key[c[j]]

(* list_merge and list_cmerge of two sorted lists. *)
Merge(a, b) ==
  LET m == Cmerge(mem, mem.head[a], mem.tail[a], mem.head[b], mem.tail[b])
      u == [m.mem EXCEPT !.head[a] = m.head, !.tail[a] = m.tail,
                         !.size[a] = mem.size[a] + mem.size[b]]
  IN /\ call' = <<"merge", a, b>>
     /\ {a, b} \subseteq exists
     /\ a # b
     /\ InOrder(Contents[a]) /\ InOrder(Contents[b])
     /\ Becomes(EmptyList(u, b))

(* list_sort and list_csort. *)
Sort(d) ==
  LET p == MergeSort([mem |-> mem, head |-> mem.head[d], tail |-> mem.tail[d]])
  IN /\ call' = <<"sort", d>>
     /\ d \in exists
     /\ Becomes([p.mem EXCEPT !.head[d] = p.head, !.tail[d] = p.tail])

EraseIf(d, S) ==
  /\ call' = <<"erase_if", d, S>>
  /\ d \in exists
  /\ Becomes(ErasedIf(mem, d, S))

ReverseList(d) ==
  /\ call' = <<"reverse", d>>
  /\ d \in exists
  /\ Becomes(ReversedList(mem, d))

(* list_punique with a pred that compares the keys. *)
Unique(d) ==
  /\ call' = <<"unique", d>>
  /\ d \in exists
  /\ Becomes(Uniqued(mem, d))

Next ==
  \/ \E d \in Handle : Ctor(d) \/ Dtor(d) \/ PopBack(d) \/ PopFront(d) \/ Clear(d)
  \/ \E d \in Handle : Sort(d) \/ ReverseList(d) \/ Unique(d)
  \/ \E d \in Handle, v \in Item : PushBack(d, v) \/ PushFront(d, v)
  \/ \E d \in Handle, v \in Item : \E i \in 0 .. mem.size[d] : Insert(d, i, v)
  \/ \E d \in Handle, v \in Item : \E i \in 0 .. mem.size[d] - 1 : Set(d, i, v)
  \/ \E d \in Handle : \E i \in 0 .. mem.size[d] - 1 : Erase(d, i)
  \/ \E d \in Handle : \E S \in SUBSET Range(Contents[d]) : EraseIf(d, S)
  \/ \E a, b \in Handle : Swap(a, b) \/ Merge(a, b)
  \/ \E d, e \in Handle : \E at \in 0 .. mem.size[d], last \in 0 .. mem.size[e] :
       \E first \in 0 .. last - 1 : Splice(d, at, e, first, last)

Spec == Init /\ [][Next]_vars

-----------------------------------------------------------------------------
TypeOK ==
  /\ exists \subseteq Handle
  /\ mem \in Mem
  /\ ret \in {"OK", "BAD_ALLOC"}

(* Along prev from the tail come the same nodes as along next from the     *)
(* head: both ends are ends and no two neighbours disagree.                *)
LinksInv == \A d \in Handle : Backward(mem, d) = Reverse(Contents[d])

(* size counts the nodes, no node is in two lists, and every node that is  *)
(* allocated is in one: none is lost, none reachable after it was freed.   *)
PartitionInv ==
  /\ \A d \in Handle : Len(Contents[d]) = mem.size[d] /\ IsInjective(Contents[d])
  /\ \A d, e \in Handle : d # e => Range(Contents[d]) \cap Range(Contents[e]) = {}
  /\ UNION {Range(Contents[d]) : d \in exists} = {n \in Item : mem.next[n] # Junk}

Promise == INSTANCE ListSequence WITH contents <- Contents

(* Every call changes the lists as the sequence table and list.h say, the  *)
(* ranges of splice without their last iterator (see ListSequence).        *)
CallsKeepPromise == [][Promise!ListAnswers(call')]_vars

(* list_splice moves the range, and nothing else, to where it is told.     *)
SpliceMovesRange == [][call'[1] = "splice" => Promise!ListAnswers(call')]_vars
=============================================================================
