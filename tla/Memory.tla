------------------------------- MODULE Memory --------------------------------
(***************************************************************************)
(* Buffers of pointers and the C library calls on them, as array.c and     *)
(* circular-array.c use them: a buffer is a function from its indices.  A  *)
(* slot that was never written holds Junk.  A write outside of a buffer    *)
(* makes its domain grow, which the type invariants of the containers      *)
(* forbid; a read outside of it yields Junk.                               *)
(***************************************************************************)
EXTENDS Integers

CONSTANT
  Junk   (* the content of a slot that was never written                  *)

Read(buf, i) == IF i \in DOMAIN buf THEN buf[i] ELSE Junk

Store(buf, i, v) == [j \in DOMAIN buf \cup {i} |-> IF j = i THEN v ELSE buf[j]]

(* memmove of n slots from src to dst, and memcpy of n slots into an array *)
(* of its own.                                                             *)
Memcpy(to, dst, from, src, n) ==
  [j \in DOMAIN to \cup dst .. (dst + n - 1) |->
     IF j \in dst .. (dst + n - 1) THEN Read(from, j - dst + src) ELSE to[j]]

Memmove(buf, dst, src, n) == Memcpy(buf, dst, buf, src, n)

Malloc(n) == [j \in 0 .. n - 1 |-> Junk]
=============================================================================
