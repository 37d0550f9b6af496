-------------------------------- MODULE Map ---------------------------------
(***************************************************************************)
(* What the map table of the library promises (the function pointers of    *)
(* include/cdcontainers/tables/imap.h), whatever container is behind it: a *)
(* handle stands for a finite map, and a call that needs memory for a new  *)
(* key may report BAD_ALLOC and then changes nothing.                      *)
(***************************************************************************)
EXTENDS Naturals, Functions

CONSTANTS
  Handle,   (* the maps the client may have                               *)
  Key,      (* the keys the client uses                                   *)
  Value,    (* the values the client stores                               *)
  NoKey     (* where the iterator of a call points that found no key      *)

VARIABLES
  exists,   (* the handles that are constructed and not destroyed         *)
  contents, (* contents[h] maps the keys of h to their values             *)
  ret       (* what the last call returned                                *)

vars == <<exists, contents, ret>>

EmptyMap == [k \in {} |-> k]

With(f, k, v) == [x \in DOMAIN f \cup {k} |-> IF x = k THEN v ELSE f[x]]

(* done is the bool a call returns (inserted, or whether erase removed     *)
(* one), at is the key its iterator points to.                             *)
Returned(status, done, at) == [status |-> status, done |-> done, at |-> at]

Becomes(h, f, done, at) ==
  /\ ret' = Returned("OK", done, at)
  /\ contents' = [contents EXCEPT ![h] = f]
  /\ UNCHANGED exists

OutOfMemory ==
  /\ ret' = Returned("BAD_ALLOC", FALSE, NoKey)
  /\ UNCHANGED <<exists, contents>>

-----------------------------------------------------------------------------
Init ==
  /\ exists = {}
  /\ contents = [h \in Handle |-> EmptyMap]
  /\ ret = Returned("OK", FALSE, NoKey)

Ctor(h) ==
  /\ h \notin exists
  /\ \/ /\ exists' = exists \cup {h}
        /\ contents' = [contents EXCEPT ![h] = EmptyMap]
        /\ ret' = Returned("OK", FALSE, NoKey)
     \/ OutOfMemory

Dtor(h) ==
  /\ h \in exists
  /\ exists' = exists \ {h}
  /\ contents' = [contents EXCEPT ![h] = EmptyMap]
  /\ ret' = Returned("OK", FALSE, NoKey)

(* insert: a key that is already there keeps its value, and the iterator   *)
(* points to what prevented the insertion.                                 *)
Insert(h, k, v) ==
  /\ h \in exists
  /\ LET m == contents[h]
     IN IF k \in DOMAIN m
        THEN Becomes(h, m, FALSE, k)
        ELSE Becomes(h, With(m, k, v), TRUE, k) \/ OutOfMemory

InsertOrAssign(h, k, v) ==
  /\ h \in exists
  /\ LET m == contents[h]
     IN IF k \in DOMAIN m
        THEN Becomes(h, With(m, k, v), FALSE, k)
        ELSE Becomes(h, With(m, k, v), TRUE, k) \/ OutOfMemory

Erase(h, k) ==
  /\ h \in exists
  /\ LET m == contents[h]
     IN Becomes(h, Restrict(m, DOMAIN m \ {k}), k \in DOMAIN m, NoKey)

Clear(h) ==
  /\ h \in exists
  /\ Becomes(h, EmptyMap, FALSE, NoKey)

Swap(g, h) ==
  /\ {g, h} \subseteq exists
  /\ contents' = [contents EXCEPT ![g] = contents[h], ![h] = contents[g]]
  /\ ret' = Returned("OK", FALSE, NoKey)
  /\ UNCHANGED exists

(* get, count and find: what they report, and the map is what it was.      *)
Find(h, k) ==
  /\ h \in exists
  /\ LET m == contents[h]
     IN Becomes(h, m, k \in DOMAIN m, IF k \in DOMAIN m THEN k ELSE NoKey)

(* A change of the container's size.                                       *)
Rearrange(h) ==
  /\ h \in exists
  /\ Becomes(h, contents[h], FALSE, NoKey) \/ OutOfMemory

Next ==
  \/ \E h \in Handle : Ctor(h) \/ Dtor(h) \/ Clear(h) \/ Rearrange(h)
  \/ \E h \in Handle, k \in Key : Erase(h, k) \/ Find(h, k)
  \/ \E h \in Handle, k \in Key, v \in Value : Insert(h, k, v) \/ InsertOrAssign(h, k, v)
  \/ \E g, h \in Handle : Swap(g, h)

Spec == Init /\ [][Next]_vars

(* What the call c, its name followed by its arguments, may do.            *)
Answers(c) ==
  CASE c[1] = "ctor" -> Ctor(c[2])
    [] c[1] = "dtor" -> Dtor(c[2])
    [] c[1] = "clear" -> Clear(c[2])
    [] c[1] = "insert" -> Insert(c[2], c[3], c[4])
    [] c[1] = "insert_or_assign" -> InsertOrAssign(c[2], c[3], c[4])
    [] c[1] = "erase" -> Erase(c[2], c[3])
    [] c[1] = "swap" -> Swap(c[2], c[3])
    [] c[1] = "find" -> Find(c[2], c[3])
    [] OTHER -> Rearrange(c[2])
=============================================================================
