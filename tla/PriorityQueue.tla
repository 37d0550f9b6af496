---------------------------- MODULE PriorityQueue ----------------------------
(***************************************************************************)
(* What the priority queue table of the library promises                   *)
(* (include/cdcontainers/tables/ipqueue.h and the headers of the heaps),   *)
(* whatever heap is behind it: a queue holds items, its top is one that no *)
(* other comes before, pop removes the top and nothing else, and a call    *)
(* that needs memory may report BAD_ALLOC and then changes nothing.        *)
(***************************************************************************)
EXTENDS Naturals

CONSTANTS
  Handle,   (* the queues the client may have                             *)
  Item,     (* the pointers the client may store                          *)
  Key,      (* Key[v] is what cmp looks at in item v                      *)
  None      (* the top of an empty queue                                  *)

VARIABLES
  exists,   (* the handles that are constructed and not destroyed         *)
  items,    (* items[d] is the set of the items behind handle d           *)
  top,      (* top[d] is the item the top call returns                    *)
  ret       (* the status the last call returned                          *)

Firsts(S) == {v \in S : \A w \in S : Key[v] <= Key[w]}

(* The items become f; tops may change among equals where they do.         *)
Become(f) ==
  /\ items' = f
  /\ top' = [d \in Handle |-> top'[d]]
  /\ \A d \in Handle :
       IF f[d] = {} THEN top'[d] = None
       ELSE IF f[d] = items[d] THEN top'[d] = top[d]
       ELSE top'[d] \in Firsts(f[d])

Succeed(f) == Become(f) /\ ret' = "OK" /\ UNCHANGED exists

OutOfMemory ==
  /\ ret' = "BAD_ALLOC"
  /\ UNCHANGED <<exists, items, top>>

Ctor(d) ==
  /\ d \notin exists
  /\ \/ /\ exists' = exists \cup {d}
        /\ Become([items EXCEPT ![d] = {}])
        /\ ret' = "OK"
     \/ OutOfMemory

Dtor(d) ==
  /\ d \in exists
  /\ exists' = exists \ {d}
  /\ Become([items EXCEPT ![d] = {}])
  /\ ret' = "OK"

Push(d, v) ==
  /\ d \in exists
  /\ Succeed([items EXCEPT ![d] = @ \cup {v}]) \/ OutOfMemory

Pop(d) ==
  /\ d \in exists
  /\ items[d] # {}
  /\ Succeed([items EXCEPT ![d] = @ \ {top[d]}])

ChangeKey(d, v, w) ==
  /\ d \in exists
  /\ v \in items[d]
  /\ Succeed([items EXCEPT ![d] = (@ \ {v}) \cup {w}])

Clear(d) == d \in exists /\ Succeed([items EXCEPT ![d] = {}])

Merge(d, e) ==
  /\ {d, e} \subseteq exists
  /\ Succeed([items EXCEPT ![d] = @ \cup items[e], ![e] = {}]) \/ OutOfMemory

Swap(d, e) ==
  /\ {d, e} \subseteq exists
  /\ items' = [items EXCEPT ![d] = items[e], ![e] = items[d]]
  /\ top' = [top EXCEPT ![d] = top[e], ![e] = top[d]]
  /\ ret' = "OK"
  /\ UNCHANGED exists

(* What the call c, its name followed by its arguments, may do.            *)
Answers(c) ==
  CASE c[1] = "ctor" -> Ctor(c[2])
    [] c[1] = "dtor" -> Dtor(c[2])
    [] c[1] = "push" -> Push(c[2], c[3])
    [] c[1] = "pop" -> Pop(c[2])
    [] c[1] = "change_key" -> ChangeKey(c[2], c[3], c[4])
    [] c[1] = "clear" -> Clear(c[2])
    [] c[1] = "merge" -> Merge(c[2], c[3])
    [] c[1] = "swap" -> Swap(c[2], c[3])
=============================================================================
