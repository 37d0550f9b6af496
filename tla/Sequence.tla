------------------------------ MODULE Sequence ------------------------------
(***************************************************************************)
(* What the sequence table of the library promises (the function pointers  *)
(* of include/cdcontainers/tables/isequence.h), whatever container is      *)
(* behind it: a handle stands for a finite sequence of items, every call   *)
(* changes that sequence the way its header comment says, and a call that  *)
(* needs memory may report BAD_ALLOC and then changes nothing.             *)
(*                                                                         *)
(* The module is instantiated under every container and adapter, so it is  *)
(* written with the operators of Sequences alone.  Indexes count from 0.   *)
(***************************************************************************)
EXTENDS Naturals, Sequences

CONSTANTS
  Handle,   (* the containers the client may have                         *)
  Item      (* the pointers the client may store                          *)

VARIABLES
  exists,   (* the handles that are constructed and not destroyed         *)
  contents, (* contents[d] is the sequence behind handle d                *)
  ret       (* the status the last call returned                          *)

vars == <<exists, contents, ret>>

(* contents[d] becomes s and the call succeeds. *)
Becomes(d, s) ==
  /\ contents' = [contents EXCEPT ![d] = s]
  /\ ret' = "OK"
  /\ UNCHANGED exists

(* The allocator refused: nothing changes but the status. *)
OutOfMemory ==
  /\ ret' = "BAD_ALLOC"
  /\ UNCHANGED <<exists, contents>>

-----------------------------------------------------------------------------
Init ==
  /\ exists = {}
  /\ contents = [d \in Handle |-> <<>>]
  /\ ret = "OK"

Ctor(d) ==
  /\ d \notin exists
  /\ \/ /\ exists' = exists \cup {d}
        /\ contents' = [contents EXCEPT ![d] = <<>>]
        /\ ret' = "OK"
     \/ OutOfMemory

Dtor(d) ==
  /\ d \in exists
  /\ exists' = exists \ {d}
  /\ contents' = [contents EXCEPT ![d] = <<>>]
  /\ ret' = "OK"

PushBack(d, v) ==
  /\ d \in exists
  /\ Becomes(d, Append(contents[d], v)) \/ OutOfMemory

PushFront(d, v) ==
  /\ d \in exists
  /\ Becomes(d, <<v>> \o contents[d]) \/ OutOfMemory

Insert(d, i, v) ==
  /\ d \in exists
  /\ i \in 0 .. Len(contents[d])
  /\ \/ Becomes(d, SubSeq(contents[d], 1, i) \o <<v>>
                      \o SubSeq(contents[d], i + 1, Len(contents[d])))
     \/ OutOfMemory

PopBack(d) ==
  /\ d \in exists
  /\ contents[d] # <<>>
  /\ Becomes(d, SubSeq(contents[d], 1, Len(contents[d]) - 1))

PopFront(d) ==
  /\ d \in exists
  /\ contents[d] # <<>>
  /\ Becomes(d, Tail(contents[d]))

Erase(d, i) ==
  /\ d \in exists
  /\ i \in 0 .. Len(contents[d]) - 1
  /\ Becomes(d, SubSeq(contents[d], 1, i) \o SubSeq(contents[d], i + 2, Len(contents[d])))

Set(d, i, v) ==
  /\ d \in exists
  /\ i \in 0 .. Len(contents[d]) - 1
  /\ Becomes(d, [contents[d] EXCEPT ![i + 1] = v])

Clear(d) ==
  /\ d \in exists
  /\ Becomes(d, <<>>)

Swap(a, b) ==
  /\ a \in exists
  /\ b \in exists
  /\ contents' = [contents EXCEPT ![a] = contents[b], ![b] = contents[a]]
  /\ ret' = "OK"
  /\ UNCHANGED exists

(* append: the items of s, in order, after those of d. *)
AppendAll(d, s) ==
  /\ d \in exists
  /\ Becomes(d, contents[d] \o s) \/ OutOfMemory

(* append_move: the items of b move to the end of a. *)
AppendMove(a, b) ==
  /\ {a, b} \subseteq exists
  /\ \/ /\ contents' = [contents EXCEPT ![a] = @ \o contents[b], ![b] = <<>>]
        /\ ret' = "OK"
        /\ UNCHANGED exists
     \/ OutOfMemory

(* A step that only gives a container more room, or fails to. *)
Reserve(d) ==
  /\ d \in exists
  /\ Becomes(d, contents[d]) \/ OutOfMemory

Next ==
  \/ \E d \in Handle : Ctor(d) \/ Dtor(d) \/ PopBack(d) \/ PopFront(d) \/ Clear(d) \/ Reserve(d)
  \/ \E d \in Handle, v \in Item : PushBack(d, v) \/ PushFront(d, v)
  \/ \E d \in Handle, v \in Item : \E i \in 0 .. Len(contents[d]) : Insert(d, i, v)
  \/ \E d \in Handle : \E i \in 0 .. Len(contents[d]) : Erase(d, i)
  \/ \E d \in Handle, v \in Item : \E i \in 0 .. Len(contents[d]) : Set(d, i, v)
  \/ \E d, e \in Handle : AppendAll(d, contents[e])
  \/ \E a, b \in Handle : Swap(a, b) \/ AppendMove(a, b)

Spec == Init /\ [][Next]_vars

(* What the call c, its name followed by its arguments, may do.            *)
Answers(c) ==
  CASE c[1] = "ctor" -> Ctor(c[2])
    [] c[1] = "dtor" -> Dtor(c[2])
    [] c[1] = "push_back" -> PushBack(c[2], c[3])
    [] c[1] = "push_front" -> PushFront(c[2], c[3])
    [] c[1] = "insert" -> Insert(c[2], c[3], c[4])
    [] c[1] = "pop_back" -> PopBack(c[2])
    [] c[1] = "pop_front" -> PopFront(c[2])
    [] c[1] = "erase" -> Erase(c[2], c[3])
    [] c[1] = "set" -> Set(c[2], c[3], c[4])
    [] c[1] = "clear" -> Clear(c[2])
    [] c[1] = "append" -> AppendAll(c[2], c[3])
    [] c[1] = "append_move" -> AppendMove(c[2], c[3])
    [] c[1] = "swap" -> Swap(c[2], c[3])
    [] OTHER -> Reserve(c[2])
=============================================================================
