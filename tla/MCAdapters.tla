----------------------------- MODULE MCAdapters -----------------------------
(* Clients, argument lists and symmetry for checking Adapters with TLC. *)
EXTENDS Adapters, TLC

CONSTANT Given  (* the struct the client gives *)

Using(role, table, info, items, most) ==
  [role |-> role, table |-> table, info |-> info, items |-> items, most |-> most]

(* Each adapter over the containers the library would take for it, and the *)
(* deque, which calls every function of a table, over all of them.  A ring *)
(* has many states, so clients with room for a ring that wraps and grows   *)
(* have one adapter at a time, and those with two have fewer items.        *)
MCClients ==
  {Using("deque", "array", Given, 2, 2), Using("deque", "list", Given, 3, 2),
   Using("deque", "circular_array", NoInfo, 3, 1),
   Using("stack", "array", Given, 2, 2), Using("stack", "list", Given, 3, 2),
   Using("stack", "circular_array", NoInfo, 3, 2),
   Using("queue", "array", Given, 3, 2), Using("queue", "list", Given, 3, 2),
   Using("queue", "circular_array", Given, 3, 1),
   Using("queue", "circular_array", Given, 1, 2),
   Using("queue", "circular_array", NoInfo, 2, 2)}

(* One list that fits the first buffer and one that needs a second.        *)
MCArgLists ==
  {s \in UNION {[1 .. n -> Item] : n \in {1, Cardinality(Item)}} : IsInjective(s)}

(* Neither an item, nor an adapter, nor a container is special.            *)
MCSymmetry == Permutations(Item) \cup Permutations(AdapterId) \cup Permutations(Handle)

(* States that differ in the last call only are the same state.            *)
MCView == <<client, adapters, container, heap, infoVars>>
=============================================================================
