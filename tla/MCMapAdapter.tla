---------------------------- MODULE MCMapAdapter -----------------------------
(* Clients, keys and a hash function for checking MapAdapter with TLC. *)
EXTENDS MapAdapter, TLC

CONSTANTS m1, m2, k0, k1, k2, k8, k9

(* Of 8 buckets k0 and k8 share one, and k1 and k9; of 16 no two keys do.  *)
MCHash == k0 :> 0 @@ k1 :> 1 @@ k2 :> 2 @@ k8 :> 8 @@ k9 :> 9

(* One key is stored with two values, the others with one.                 *)
Pairs(K, twice) == {<<k, "v">> : k \in K} \cup {<<twice, "w">>}

Setup(table, ms, pairs, iterates) ==
  [table |-> table, maps |-> ms, pairs |-> pairs, iterates |-> iterates]

(* For every table: as many keys as its shapes need, fewer keys with an    *)
(* iterator, and two maps.                                                 *)
MCSetups ==
  {Setup("htable", {m1}, Pairs({k0, k1, k2, k8, k9}, k0), FALSE),
   Setup("htable", {m1}, Pairs({k0, k1, k8}, k0), TRUE),
   Setup("htable", {m1, m2}, Pairs({k0, k8}, k8), FALSE),
   Setup("avl", {m1}, Pairs(1 .. 7, 2), FALSE),
   Setup("avl", {m1}, Pairs(1 .. 4, 2), TRUE),
   Setup("avl", {m1, m2}, Pairs(1 .. 2, 2), TRUE),
   Setup("splay", {m1}, Pairs(1 .. 6, 2), FALSE),
   Setup("splay", {m1}, Pairs(1 .. 4, 2), TRUE),
   Setup("splay", {m1, m2}, Pairs(1 .. 2, 2), FALSE),
   Setup("treap", {m1}, Pairs(1 .. 4, 2), FALSE),
   Setup("treap", {m1}, Pairs(1 .. 3, 2), TRUE),
   Setup("treap", {m1, m2}, Pairs(1 .. 1, 1), FALSE)}

(* States that differ in the last call only are the same state.            *)
MCView == <<client, maps, container, exists, store, fault, it>>
=============================================================================
