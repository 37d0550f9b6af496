------------------------------ MODULE DataInfo -------------------------------
(***************************************************************************)
(* The reference counts of the data_info structs (src/data-info.c).  A     *)
(* client fills in a struct and gives it to the constructors of its        *)
(* containers; the struct says how elements are freed and compared, and    *)
(* every container keeps a pointer to one until it is destroyed.           *)
(*                                                                         *)
(* The first container that is given a struct gets a copy on the heap; the *)
(* client's own count stays at one, as if the client held a reference, so  *)
(* every later container shares the client's struct and none of them ever  *)
(* brings its count back to zero.                                          *)
(***************************************************************************)
EXTENDS Naturals, FiniteSets

CONSTANTS
  User,        (* the containers that may exist                           *)
  ClientInfo,  (* the structs of the client                               *)
  NoInfo       (* the null pointer                                        *)

(* The copy on the heap of a client's struct. *)
CopyOf(i) == [of |-> i]

Info == ClientInfo \cup {CopyOf(i) : i \in ClientInfo}

ASSUME UserAssumption == IsFiniteSet(User)
ASSUME ClientInfoAssumption == \A i \in ClientInfo : CopyOf(i) \notin ClientInfo
ASSUME NoInfoAssumption == NoInfo \notin Info

VARIABLES
  cnt,    (* the field __cnt of every struct                              *)
  freed,  (* the structs that free was called on                          *)
  dinfo,  (* dinfo[u] is the struct container u points to                 *)
  lost    (* how many references were taken that no container ever held   *)

infoVars == <<cnt, freed, dinfo, lost>>

InfoInit ==
  /\ cnt = [i \in Info |-> 0]
  /\ freed = {}
  /\ dinfo = [u \in User |-> NoInfo]
  /\ lost = [i \in Info |-> 0]

(* The counts after di_shared_ctorc(i) and the struct it returns.          *)
Counted(i) ==
  IF cnt[i] = 0
  THEN [cnt EXCEPT ![i] = 1, ![CopyOf(i)] = 1]
  ELSE [cnt EXCEPT ![i] = @ + 1]

Returned(i) == IF cnt[i] = 0 THEN CopyOf(i) ELSE i

(* A mutant: the struct is shared without being counted. *)
AcquireUncounted(u, i) ==
  /\ dinfo[u] = NoInfo
  /\ cnt' = IF cnt[i] = 0 THEN Counted(i) ELSE cnt
  /\ dinfo' = [dinfo EXCEPT ![u] = Returned(i)]
  /\ UNCHANGED <<freed, lost>>

(* The constructor of u is given i and succeeds.                           *)
Acquire(u, i) ==
  /\ dinfo[u] = NoInfo
  /\ cnt' = Counted(i)
  /\ dinfo' = [dinfo EXCEPT ![u] = Returned(i)]
  /\ UNCHANGED <<freed, lost>>

(* The copy cannot be allocated: i has been counted already, and the next  *)
(* constructor shares it.                                                  *)
RefuseCopy(i) ==
  /\ cnt[i] = 0
  /\ cnt' = [cnt EXCEPT ![i] = 1]
  /\ UNCHANGED <<freed, dinfo, lost>>

(* A constructor gets its struct, fails later, and gives only its memory   *)
(* back: array_ctor and circular_array_ctor when the buffer is refused.    *)
AcquireAndLose(i) ==
  /\ cnt' = Counted(i)
  /\ lost' = [lost EXCEPT ![Returned(i)] = @ + 1]
  /\ UNCHANGED <<freed, dinfo>>

(* A mutant: the struct is freed while one more container uses it. *)
ReleaseEarly(u) ==
  LET i == dinfo[u]
  IN /\ dinfo' = [dinfo EXCEPT ![u] = NoInfo]
     /\ IF i = NoInfo THEN UNCHANGED <<cnt, freed>>
        ELSE /\ cnt' = [cnt EXCEPT ![i] = @ - 1]
             /\ freed' = IF cnt[i] <= 2 THEN freed \cup {i} ELSE freed
     /\ UNCHANGED lost

(* di_shared_dtor, called by the destructor of u.                          *)
Release(u) ==
  LET i == dinfo[u]
  IN /\ dinfo' = [dinfo EXCEPT ![u] = NoInfo]
     /\ IF i = NoInfo THEN UNCHANGED <<cnt, freed>>
        ELSE /\ cnt' = [cnt EXCEPT ![i] = @ - 1]
             /\ freed' = IF cnt[i] = 1 THEN freed \cup {i} ELSE freed
     /\ UNCHANGED lost

InfoNext ==
  \/ \E u \in User, i \in ClientInfo : Acquire(u, i)
  \/ \E i \in ClientInfo : RefuseCopy(i) \/ AcquireAndLose(i)
  \/ \E u \in User : Release(u)

InfoSpec == InfoInit /\ [][InfoNext]_infoVars

-----------------------------------------------------------------------------
InfoTypeOK ==
  /\ cnt \in [Info -> Nat]
  /\ freed \subseteq Info
  /\ dinfo \in [User -> Info \cup {NoInfo}]
  /\ lost \in [Info -> Nat]

Users(i) == {u \in User : dinfo[u] = i}

(* Every count is the number of containers that hold the struct, the       *)
(* references that were lost and, for a client's struct that was ever      *)
(* given to a constructor, one for the client.                             *)
Held(i) == IF i \in ClientInfo /\ cnt[i] # 0 THEN 1 ELSE 0

CountInv == \A i \in Info : cnt[i] = Cardinality(Users(i)) + lost[i] + Held(i)

(* No container points to a struct that was freed, however constructors    *)
(* and destructors of containers that share structs mix and whatever       *)
(* constructor fails, and free is never called on a client's struct, which *)
(* may well be on the stack.                                               *)
InfoInv ==
  /\ \A u \in User : dinfo[u] \notin freed
  /\ freed \cap ClientInfo = {}
=============================================================================
