--------------------------- MODULE AdaptersProofs ---------------------------
(***************************************************************************)
(* Proofs about the adapters and the data_info structs they share, for any *)
(* number of adapters, containers and structs and every container the      *)
(* tables offer: the reference counts are exact, the adapters use the      *)
(* structs as DataInfo says, their container pointers stay one to one, and *)
(* what ArrayProofs, CircularArrayProofs and ListProofs prove of the       *)
(* containers holds behind the tables: a function of a table changes one   *)
(* container as the table promises.  AdapterCallsProofs puts them          *)
(* together.                                                               *)
(*                                                                         *)
(* InfoInv is not inductive: that a struct whose count drops to zero has   *)
(* no other user follows from CountInv, and that a new copy is not one     *)
(* that was freed before follows from FreshInv.                            *)
(***************************************************************************)
EXTENDS Adapters, Foundations, FiniteSetTheorems

(* A struct is freed when its count is zero, and one that was never given  *)
(* to a constructor has no copy yet.                                       *)
FreshInv ==
  /\ \A i \in freed : cnt[i] = 0
  /\ \A i \in ClientInfo : cnt[i] = 0 => cnt[CopyOf(i)] = 0 /\ CopyOf(i) \notin freed

IInv == InfoTypeOK /\ CountInv /\ FreshInv /\ InfoInv

(* A struct and its copy are two structs, and copies of two structs are    *)
(* two.                                                                    *)
LEMMA Copies ==
  ASSUME NEW i \in ClientInfo
  PROVE  /\ i \in Info
         /\ CopyOf(i) \in Info
         /\ CopyOf(i) \notin ClientInfo
         /\ \A j \in ClientInfo : CopyOf(j) = CopyOf(i) => j = i
<1>1. \A j \in ClientInfo : CopyOf(j) = CopyOf(i) => j = i
  <2>1. SUFFICES ASSUME NEW j \in ClientInfo, CopyOf(j) = CopyOf(i) PROVE j = i
    OBVIOUS
  <2>2. CopyOf(j).of = CopyOf(i).of
    BY <2>1
  <2>3. QED
    BY <2>2 DEF CopyOf
<1>2. QED
  BY <1>1, ClientInfoAssumption DEF Info

(* A container that starts or stops to point to a struct is one user more  *)
(* or less of that struct, and of no other.                                *)
LEMMA UsersFinite ==
  ASSUME NEW i
  PROVE  IsFiniteSet(Users(i)) /\ Cardinality(Users(i)) \in Nat
<1>1. Users(i) \subseteq User
  BY DEF Users
<1>2. IsFiniteSet(Users(i))
  BY <1>1, UserAssumption, FS_Subset
<1>3. QED
  BY <1>2, FS_CardinalityType

LEMMA UserAdded ==
  ASSUME InfoTypeOK, NEW u \in User, dinfo[u] = NoInfo, NEW j \in Info,
         dinfo' = [dinfo EXCEPT ![u] = j]
  PROVE  \A i \in Info :
           Cardinality(Users(i)') = Cardinality(Users(i)) + (IF i = j THEN 1 ELSE 0)
<1> SUFFICES ASSUME NEW i \in Info
             PROVE  Cardinality(Users(i)') = Cardinality(Users(i)) + (IF i = j THEN 1 ELSE 0)
  OBVIOUS
<1>1. u \notin Users(i)
  BY NoInfoAssumption DEF Users
<1>2. CASE i = j
  <2>1. Users(i)' = Users(i) \cup {u}
    BY <1>2 DEF Users, InfoTypeOK
  <2>2. Cardinality(Users(i) \cup {u}) = Cardinality(Users(i)) + 1
    BY <1>1, UsersFinite, FS_AddElement
  <2>3. QED
    BY <1>2, <2>1, <2>2
<1>3. CASE i # j
  <2>1. Users(i)' = Users(i)
    BY <1>1, <1>3 DEF Users, InfoTypeOK
  <2>2. QED
    BY <1>3, <2>1, UsersFinite
<1>4. QED
  BY <1>2, <1>3

LEMMA UserRemoved ==
  ASSUME InfoTypeOK, NEW u \in User, dinfo' = [dinfo EXCEPT ![u] = NoInfo]
  PROVE  \A i \in Info :
           Cardinality(Users(i)') =
             IF i = dinfo[u] THEN Cardinality(Users(i)) - 1 ELSE Cardinality(Users(i))
<1> SUFFICES ASSUME NEW i \in Info
             PROVE  Cardinality(Users(i)') =
               IF i = dinfo[u] THEN Cardinality(Users(i)) - 1 ELSE Cardinality(Users(i))
  OBVIOUS
<1>1. i # NoInfo
  BY NoInfoAssumption
<1>2. CASE i = dinfo[u]
  <2>1. u \in Users(i)
    BY <1>2 DEF Users
  <2>2. Users(i)' = Users(i) \ {u}
    BY <1>1 DEF Users, InfoTypeOK
  <2>3. Cardinality(Users(i) \ {u}) = Cardinality(Users(i)) - 1
    BY <2>1, UsersFinite, FS_RemoveElement
  <2>4. QED
    BY <1>2, <2>2, <2>3
<1>3. CASE i # dinfo[u]
  <2>1. Users(i)' = Users(i)
    BY <1>1, <1>3 DEF Users, InfoTypeOK
  <2>2. QED
    BY <1>3, <2>1
<1>4. QED
  BY <1>2, <1>3

-----------------------------------------------------------------------------
LEMMA InitEstablishes == InfoInit => IInv
<1> SUFFICES ASSUME InfoInit PROVE IInv
  OBVIOUS
<1>1. InfoTypeOK
  BY DEF InfoInit, InfoTypeOK
<1>2. ASSUME NEW i \in Info PROVE cnt[i] = Cardinality(Users(i)) + lost[i] + Held(i)
  <2>1. Users(i) = {}
    BY NoInfoAssumption DEF InfoInit, Users
  <2>2. Cardinality(Users(i)) = 0
    BY <2>1, FS_EmptySet
  <2>3. QED
    BY <2>2 DEF InfoInit, Held
<1>3. FreshInv
  BY Copies DEF InfoInit, FreshInv
<1>4. InfoInv
  BY DEF InfoInit, InfoInv
<1>5. QED
  BY <1>1, <1>2, <1>3, <1>4 DEF IInv, CountInv

(* di_shared_ctorc changes the counts of the struct it is given and of the *)
(* one it returns only; the one it returns was not freed.                  *)
LEMMA CountedFacts ==
  ASSUME IInv, NEW i \in ClientInfo
  PROVE  /\ Returned(i) \in Info /\ Returned(i) \notin freed
         /\ Counted(i) \in [Info -> Nat]
         /\ \A j \in Info : cnt[j] # 0 => Counted(i)[j] # 0
         /\ \A j \in Info : Counted(i)[j] + (IF j \in ClientInfo /\ cnt[j] # 0 THEN 1 ELSE 0)
                 = cnt[j] + (IF j = Returned(i) THEN 1 ELSE 0)
                     + (IF j \in ClientInfo /\ Counted(i)[j] # 0 THEN 1 ELSE 0)
         /\ \A j \in freed : Counted(i)[j] = 0
         /\ \A j \in ClientInfo : Counted(i)[j] = 0 => cnt[j] = 0 /\ Counted(i)[CopyOf(j)] = 0
<1> USE DEF IInv, InfoTypeOK
<1>1. /\ i \in Info /\ CopyOf(i) \in Info /\ CopyOf(i) # i /\ CopyOf(i) \notin ClientInfo
      /\ \A j \in ClientInfo : CopyOf(j) = CopyOf(i) => j = i
      /\ \A j \in ClientInfo : j \in Info /\ CopyOf(j) \in Info /\ CopyOf(j) \notin ClientInfo
  BY Copies
<1>2. i \notin freed
  BY DEF InfoInv
<1>3. CASE cnt[i] = 0
  <2>1. cnt[CopyOf(i)] = 0 /\ CopyOf(i) \notin freed
    BY <1>3 DEF FreshInv
  <2>2. Returned(i) = CopyOf(i)
    BY <1>3 DEF Returned
  <2>3. Counted(i) = [cnt EXCEPT ![i] = 1, ![CopyOf(i)] = 1]
    BY <1>3 DEF Counted
  <2>4. \A j \in Info : Counted(i)[j] = IF j = i \/ j = CopyOf(i) THEN 1 ELSE cnt[j]
    BY <1>1, <2>3
  <2>5. Counted(i) \in [Info -> Nat]
    BY <1>1, <2>3
  <2>6. \A j \in ClientInfo : Counted(i)[j] = 0 => cnt[j] = 0 /\ Counted(i)[CopyOf(j)] = 0
    BY <1>1, <2>4 DEF FreshInv
  <2>7. \A j \in freed : Counted(i)[j] = 0
    BY <1>2, <2>1, <2>4 DEF FreshInv
  <2>8. QED
    BY <1>1, <1>3, <2>1, <2>2, <2>4, <2>5, <2>6, <2>7
<1>4. CASE cnt[i] # 0
  <2>2. Returned(i) = i
    BY <1>4 DEF Returned
  <2>3. Counted(i) = [cnt EXCEPT ![i] = cnt[i] + 1]
    BY <1>4 DEF Counted
  <2>4. \A j \in Info : Counted(i)[j] = IF j = i THEN cnt[i] + 1 ELSE cnt[j]
    BY <1>1, <2>3
  <2>5. Counted(i) \in [Info -> Nat]
    BY <1>1, <2>3
  <2>6. cnt[i] + 1 # 0 /\ cnt[i] \in Nat
    BY <1>1
  <2>7. \A j \in ClientInfo : Counted(i)[j] = 0 => cnt[j] = 0 /\ Counted(i)[CopyOf(j)] = 0
    BY <1>1, <2>4, <2>6 DEF FreshInv
  <2>8. \A j \in freed : Counted(i)[j] = 0
    BY <1>2, <2>4 DEF FreshInv
  <2>9. QED
    BY <1>1, <1>2, <1>4, <2>2, <2>4, <2>5, <2>6, <2>7, <2>8
<1>5. QED
  BY <1>3, <1>4

LEMMA AcquireKeeps ==
  ASSUME IInv, NEW u \in User, NEW i \in ClientInfo, Acquire(u, i)
  PROVE  IInv'
<1> DEFINE r == Returned(i)
<1>1. /\ r \in Info /\ r \notin freed
      /\ cnt' \in [Info -> Nat]
      /\ \A j \in Info : cnt'[j] + (IF j \in ClientInfo /\ cnt[j] # 0 THEN 1 ELSE 0)
              = cnt[j] + (IF j = r THEN 1 ELSE 0)
                  + (IF j \in ClientInfo /\ cnt'[j] # 0 THEN 1 ELSE 0)
      /\ \A j \in freed : cnt'[j] = 0
      /\ \A j \in ClientInfo : cnt'[j] = 0 => cnt[j] = 0 /\ cnt'[CopyOf(j)] = 0
  BY CountedFacts DEF Acquire
<1>2. /\ dinfo[u] = NoInfo /\ dinfo' = [dinfo EXCEPT ![u] = r]
      /\ freed' = freed /\ lost' = lost
  BY DEF Acquire
<1> HIDE DEF r
<1>3. InfoTypeOK'
  BY <1>1, <1>2 DEF IInv, InfoTypeOK
<1>4. CountInv'
  <2> SUFFICES ASSUME NEW j \in Info
               PROVE  cnt'[j] = Cardinality(Users(j)') + lost'[j] + Held(j)'
    BY DEF CountInv
  <2>1. Cardinality(Users(j)') = Cardinality(Users(j)) + (IF j = r THEN 1 ELSE 0)
    BY <1>1, <1>2, UserAdded DEF IInv
  <2>2. cnt[j] = Cardinality(Users(j)) + lost[j] + Held(j)
    BY DEF IInv, CountInv
  <2>3. cnt[j] \in Nat /\ cnt'[j] \in Nat /\ lost[j] \in Nat /\ Cardinality(Users(j)) \in Nat
    BY <1>1, UsersFinite DEF IInv, InfoTypeOK
  <2>4. cnt'[j] + (IF j \in ClientInfo /\ cnt[j] # 0 THEN 1 ELSE 0)
              = cnt[j] + (IF j = r THEN 1 ELSE 0)
                  + (IF j \in ClientInfo /\ cnt'[j] # 0 THEN 1 ELSE 0)
    BY <1>1
  <2>5. lost'[j] = lost[j]
    BY <1>2
  <2>6. /\ Held(j) = IF j \in ClientInfo /\ cnt[j] # 0 THEN 1 ELSE 0
        /\ Held(j)' = IF j \in ClientInfo /\ cnt'[j] # 0 THEN 1 ELSE 0
    BY DEF Held
  <2>7. CASE j = r
    <3>1. Cardinality(Users(j)') = Cardinality(Users(j)) + 1
      BY <2>1, <2>7
    <3>2. QED
      BY <2>2, <2>3, <2>4, <2>5, <2>6, <2>7, <3>1
  <2>8. CASE j # r
    <3>1. Cardinality(Users(j)') = Cardinality(Users(j))
      BY <2>1, <2>3, <2>8
    <3>2. QED
      BY <2>2, <2>3, <2>4, <2>5, <2>6, <2>8, <3>1
  <2>9. QED
    BY <2>7, <2>8
<1>5. FreshInv'
  BY <1>1, <1>2 DEF IInv, FreshInv
<1>6. InfoInv'
  BY <1>1, <1>2 DEF IInv, InfoInv, InfoTypeOK
<1>7. QED
  BY <1>3, <1>4, <1>5, <1>6 DEF IInv

LEMMA RefuseCopyKeeps ==
  ASSUME IInv, NEW i \in ClientInfo, RefuseCopy(i)
  PROVE  IInv'
<1>1. i \in Info /\ \A j \in ClientInfo : j \in Info /\ CopyOf(j) \in Info /\ CopyOf(j) # i
  BY Copies
<1>2. /\ cnt[i] = 0 /\ cnt' = [cnt EXCEPT ![i] = 1]
      /\ freed' = freed /\ dinfo' = dinfo /\ lost' = lost
  BY DEF RefuseCopy
<1>3. InfoTypeOK'
  BY <1>2 DEF IInv, InfoTypeOK
<1>4. CountInv'
  <2> SUFFICES ASSUME NEW j \in Info
               PROVE  cnt'[j] = Cardinality(Users(j)) + lost[j] + Held(j)'
    BY <1>2 DEF CountInv, Users
  <2>1. cnt[j] = Cardinality(Users(j)) + lost[j] + Held(j)
    BY DEF IInv, CountInv
  <2>2. cnt[j] \in Nat /\ lost[j] \in Nat /\ Cardinality(Users(j)) \in Nat
    BY UsersFinite DEF IInv, InfoTypeOK
  <2>3. cnt'[j] = IF j = i THEN 1 ELSE cnt[j]
    BY <1>1, <1>2 DEF IInv, InfoTypeOK
  <2>4. QED
    BY <1>2, <2>1, <2>2, <2>3 DEF Held
<1>5. FreshInv'
  <2>1. i \notin freed
    BY DEF IInv, InfoInv
  <2>2. \A j \in Info : cnt'[j] = IF j = i THEN 1 ELSE cnt[j]
    BY <1>1, <1>2 DEF IInv, InfoTypeOK
  <2>3. QED
    BY <1>1, <1>2, <2>1, <2>2 DEF IInv, FreshInv, InfoTypeOK
<1>6. InfoInv'
  BY <1>2 DEF IInv, InfoInv
<1>7. QED
  BY <1>3, <1>4, <1>5, <1>6 DEF IInv

LEMMA AcquireAndLoseKeeps ==
  ASSUME IInv, NEW i \in ClientInfo, AcquireAndLose(i)
  PROVE  IInv'
<1> DEFINE r == Returned(i)
<1>1. /\ r \in Info
      /\ cnt' \in [Info -> Nat]
      /\ \A j \in Info : cnt'[j] + (IF j \in ClientInfo /\ cnt[j] # 0 THEN 1 ELSE 0)
              = cnt[j] + (IF j = r THEN 1 ELSE 0)
                  + (IF j \in ClientInfo /\ cnt'[j] # 0 THEN 1 ELSE 0)
      /\ \A j \in freed : cnt'[j] = 0
      /\ \A j \in ClientInfo : cnt'[j] = 0 => cnt[j] = 0 /\ cnt'[CopyOf(j)] = 0
  BY CountedFacts DEF AcquireAndLose
<1>2. lost' = [lost EXCEPT ![r] = lost[r] + 1] /\ freed' = freed /\ dinfo' = dinfo
  BY DEF AcquireAndLose
<1> HIDE DEF r
<1>3. InfoTypeOK'
  BY <1>1, <1>2 DEF IInv, InfoTypeOK
<1>4. CountInv'
  <2> SUFFICES ASSUME NEW j \in Info
               PROVE  cnt'[j] = Cardinality(Users(j)) + lost'[j] + Held(j)'
    BY <1>2 DEF CountInv, Users
  <2>1. lost'[j] = lost[j] + (IF j = r THEN 1 ELSE 0)
    BY <1>1, <1>2 DEF IInv, InfoTypeOK
  <2>2. cnt[j] = Cardinality(Users(j)) + lost[j] + Held(j)
    BY DEF IInv, CountInv
  <2>3. cnt[j] \in Nat /\ cnt'[j] \in Nat /\ lost[j] \in Nat /\ Cardinality(Users(j)) \in Nat
    BY <1>1, UsersFinite DEF IInv, InfoTypeOK
  <2>4. cnt'[j] + (IF j \in ClientInfo /\ cnt[j] # 0 THEN 1 ELSE 0)
              = cnt[j] + (IF j = r THEN 1 ELSE 0)
                  + (IF j \in ClientInfo /\ cnt'[j] # 0 THEN 1 ELSE 0)
    BY <1>1
  <2>5. QED
    BY <2>1, <2>2, <2>3, <2>4 DEF Held
<1>5. FreshInv'
  BY <1>1, <1>2 DEF IInv, FreshInv
<1>6. InfoInv'
  BY <1>2 DEF IInv, InfoInv
<1>7. QED
  BY <1>3, <1>4, <1>5, <1>6 DEF IInv

(* The struct that is freed is a copy, and its last user lets go of it.    *)
LEMMA ReleaseKeeps ==
  ASSUME IInv, NEW u \in User, Release(u)
  PROVE  IInv'
<1>0. PICK i : i = dinfo[u]
  OBVIOUS
<1>1. lost' = lost /\ dinfo' = [dinfo EXCEPT ![u] = NoInfo]
  BY DEF Release
<1>2. \A j \in Info : Cardinality(Users(j)') =
                        IF j = i THEN Cardinality(Users(j)) - 1 ELSE Cardinality(Users(j))
  BY <1>0, <1>1, UserRemoved DEF IInv
<1>3. CASE i = NoInfo
  <2>1. cnt' = cnt /\ freed' = freed
    BY <1>0, <1>3 DEF Release
  <2>2. dinfo' = dinfo
    BY <1>0, <1>1, <1>3 DEF IInv, InfoTypeOK
  <2>3. QED
    BY <1>1, <2>1, <2>2 DEF IInv, InfoTypeOK, CountInv, Held, Users, FreshInv, InfoInv
<1>4. CASE i # NoInfo
  <2>1. i \in Info
    BY <1>0, <1>4 DEF IInv, InfoTypeOK
  <2>2. /\ cnt' = [cnt EXCEPT ![i] = cnt[i] - 1]
        /\ freed' = IF cnt[i] = 1 THEN freed \cup {i} ELSE freed
    BY <1>0, <1>4 DEF Release
  <2>3. Cardinality(Users(i)) \in Nat /\ Cardinality(Users(i)) >= 1
    <3>1. u \in Users(i)
      BY <1>0 DEF Users
    <3>2. Cardinality(Users(i)) # 0
      BY <3>1, UsersFinite, FS_EmptySet
    <3>3. QED
      BY <3>2, UsersFinite
  <2>4. /\ cnt[i] = Cardinality(Users(i)) + lost[i] + Held(i)
        /\ cnt[i] \in Nat /\ lost[i] \in Nat
    BY <2>1 DEF IInv, CountInv, InfoTypeOK
  <2>5. cnt[i] >= 1 /\ (i \in ClientInfo => cnt[i] >= 2)
    BY <2>3, <2>4 DEF Held
  <2>6. \A j \in Info : cnt'[j] = IF j = i THEN cnt[i] - 1 ELSE cnt[j]
    BY <2>1, <2>2 DEF IInv, InfoTypeOK
  <2>7. i \notin freed
    BY <1>0 DEF IInv, InfoInv
  <2>8. InfoTypeOK'
    <3>1. cnt[i] - 1 \in Nat
      BY <2>4, <2>5
    <3>2. QED
      BY <1>1, <2>1, <2>2, <3>1 DEF IInv, InfoTypeOK
  <2>9. CountInv'
    <3> SUFFICES ASSUME NEW j \in Info
                 PROVE  cnt'[j] = Cardinality(Users(j)') + lost[j] + Held(j)'
      BY <1>1 DEF CountInv
    <3>1. /\ cnt[j] = Cardinality(Users(j)) + lost[j] + Held(j)
          /\ cnt[j] \in Nat /\ lost[j] \in Nat /\ Cardinality(Users(j)) \in Nat
      BY UsersFinite DEF IInv, CountInv, InfoTypeOK
    <3>2. CASE j = i
      BY <1>2, <2>3, <2>4, <2>5, <2>6, <3>1, <3>2 DEF Held
    <3>3. CASE j # i
      BY <1>2, <2>6, <3>1, <3>3 DEF Held
    <3>4. QED
      BY <3>2, <3>3
  <2>10. FreshInv'
    <3>1. ASSUME NEW j \in freed' PROVE cnt'[j] = 0
      BY <2>1, <2>2, <2>4, <2>6, <2>7, <3>1 DEF IInv, InfoTypeOK, FreshInv
    <3>2. ASSUME NEW j \in ClientInfo, cnt'[j] = 0
          PROVE  cnt'[CopyOf(j)] = 0 /\ CopyOf(j) \notin freed'
      <4>1. j \in Info /\ CopyOf(j) \in Info
        BY Copies
      <4>2. j # i /\ cnt[j] = 0
        BY <2>4, <2>5, <2>6, <3>2, <4>1
      <4>3. cnt[CopyOf(j)] = 0 /\ CopyOf(j) \notin freed
        BY <4>2 DEF IInv, FreshInv
      <4>4. CopyOf(j) # i
        BY <2>5, <4>3
      <4>5. QED
        BY <2>2, <2>6, <4>1, <4>3, <4>4
    <3>3. QED
      BY <3>1, <3>2 DEF FreshInv
  <2>11. InfoInv'
    <3>1. ASSUME NEW w \in User PROVE dinfo'[w] \notin freed'
      <4>1. CASE w = u
        <5>1. dinfo'[w] = NoInfo
          BY <1>1, <4>1 DEF IInv, InfoTypeOK
        <5>2. NoInfo \notin freed'
          BY <2>8, NoInfoAssumption DEF InfoTypeOK
        <5>3. QED
          BY <5>1, <5>2
      <4>2. CASE w # u
        <5>1. dinfo'[w] = dinfo[w] /\ dinfo[w] \notin freed
          BY <1>1, <4>2 DEF IInv, InfoTypeOK, InfoInv
        <5>2. CASE cnt[i] # 1
          BY <2>2, <5>1, <5>2
        <5>3. CASE cnt[i] = 1
          <6>1. Users(i)' = {}
            <7>1. Cardinality(Users(i)') = 0
              BY <1>2, <2>1, <2>3, <2>4, <5>3 DEF Held
            <7>2. IsFiniteSet(Users(i)')
              <8>1. Users(i)' \subseteq User
                BY DEF Users
              <8>2. QED
                BY <8>1, UserAssumption, FS_Subset
            <7>3. QED
              BY <7>1, <7>2, FS_EmptySet
          <6>2. dinfo'[w] # i
            BY <6>1 DEF Users
          <6>3. QED
            BY <2>2, <5>1, <5>3, <6>2
        <5>4. QED
          BY <5>2, <5>3
      <4>3. QED
        BY <4>1, <4>2
    <3>2. freed' \cap ClientInfo = {}
      BY <2>2, <2>5 DEF IInv, InfoInv
    <3>3. QED
      BY <3>1, <3>2 DEF InfoInv
  <2>12. QED
    BY <2>8, <2>9, <2>10, <2>11 DEF IInv
<1>5. QED
  BY <1>3, <1>4

LEMMA StepKeeps == IInv /\ [InfoNext]_infoVars => IInv'
<1> SUFFICES ASSUME IInv, [InfoNext]_infoVars PROVE IInv'
  OBVIOUS
<1>1. CASE \E u \in User, i \in ClientInfo : Acquire(u, i)
  BY <1>1, AcquireKeeps
<1>2. CASE \E i \in ClientInfo : RefuseCopy(i)
  BY <1>2, RefuseCopyKeeps
<1>3. CASE \E i \in ClientInfo : AcquireAndLose(i)
  BY <1>3, AcquireAndLoseKeeps
<1>4. CASE \E u \in User : Release(u)
  BY <1>4, ReleaseKeeps
<1>5. CASE UNCHANGED infoVars
  BY <1>5 DEF infoVars, IInv, InfoTypeOK, CountInv, Held, Users, FreshInv, InfoInv
<1>6. QED
  BY <1>1, <1>2, <1>3, <1>4, <1>5 DEF InfoNext

(* The counts of the data_info structs are exact, whatever constructors    *)
(* and destructors of however many containers follow each other: each is   *)
(* the number of containers that hold the struct, of the references that   *)
(* failed constructors lost, and one for a struct of the client in use.    *)
THEOREM CountsAreExact == InfoSpec => []CountInv
<1>1. IInv => CountInv
  BY DEF IInv
<1>2. QED
  BY <1>1, InitEstablishes, StepKeeps, PTL DEF InfoSpec

(* di_shared_dtor never frees a struct that a container still points to,   *)
(* and never a struct of the client.                                       *)
THEOREM NoInfoUsedAfterFree == InfoSpec => []InfoInv
<1>1. IInv => InfoInv
  BY DEF IInv
<1>2. QED
  BY <1>1, InitEstablishes, StepKeeps, PTL DEF InfoSpec

-----------------------------------------------------------------------------

(* The types the pointers of the adapters keep. *)
ClientInv ==
  /\ client \in Clients
  /\ exists \subseteq Handle
  /\ adapters \subseteq AdapterId
  /\ container \in [AdapterId -> Handle \cup {NoHandle}]

PInv == ClientInv /\ NoSharingInv

-----------------------------------------------------------------------------
(* What the functions of the tables do to the set of containers.           *)

LEMMA CtorMakes ==
  ASSUME NEW d \in Handle, client \in Clients, TableCall(<<"ctor", d>>)
  PROVE  /\ ret' = "OK" => d \notin exists /\ exists' = exists \cup {d}
         /\ ret' # "OK" => exists' = exists
<1> DEFINE c == <<"ctor", d>>
<1>1. c[1] = "ctor" /\ c[2] = d
  OBVIOUS
<1>2. \/ ArrayTable(c) \/ OwningCircularArrayTable(c) \/ CircularArrayTable(c) \/ ListTable(c)
  BY ClientsAssumption DEF TableCall, HasDfree
<1>3. A!Ctor(d) \/ O!Ctor(d) \/ C!Ctor(d) \/ L!Ctor(d)
  BY <1>1, <1>2 DEF ArrayTable, OwningCircularArrayTable, CircularArrayTable, ListTable
<1>4. QED
  BY <1>3 DEF A!Ctor, O!Ctor, C!Ctor, L!Ctor,
              A!OutOfMemory, O!OutOfMemory, C!OutOfMemory, L!OutOfMemory

LEMMA DtorTakes ==
  ASSUME NEW d \in Handle, client \in Clients, TableCall(<<"dtor", d>>)
  PROVE  exists' = exists \ {d}
<1> DEFINE c == <<"dtor", d>>
<1>1. c[1] = "dtor" /\ c[2] = d
  OBVIOUS
<1>2. \/ ArrayTable(c) \/ OwningCircularArrayTable(c) \/ CircularArrayTable(c) \/ ListTable(c)
  BY ClientsAssumption DEF TableCall, HasDfree
<1>3. A!Dtor(d) \/ O!Dtor(d) \/ C!Dtor(d) \/ L!Dtor(d)
  BY <1>1, <1>2 DEF ArrayTable, OwningCircularArrayTable, CircularArrayTable, ListTable
<1>4. QED
  BY <1>3 DEF A!Dtor, O!Dtor, C!Dtor, L!Dtor

Functions == {"push_back", "push_front", "insert", "pop_back", "pop_front",
              "erase", "set", "clear"}

LEMMA OthersKeep ==
  ASSUME client \in Clients, NEW c, c[1] \in Functions, TableCall(c),
         client.role = "queue" => c[1] \in {"push_back", "pop_front"}
  PROVE  exists' = exists
<1>1. CASE ArrayTable(c)
  <2>1. \/ \E d, i, v : A!Insert(d, i, v) \/ A!Set(d, i, v)
        \/ \E d, i : A!Erase(d, i)
        \/ \E d : A!Clear(d)
    BY <1>1, Zenon DEF ArrayTable, Functions
  <2>2. QED
    BY <2>1 DEF A!Insert, A!Set, A!Erase, A!Clear, A!Update, A!OutOfMemory
<1>2. CASE CircularArrayTable(c)
  <2>1. \/ \E d, i, v : C!Insert(d, i, v) \/ C!Set(d, i, v)
        \/ \E d, v : C!PushBack(d, v) \/ C!PushFront(d, v)
        \/ \E d, i : C!Erase(d, i)
        \/ \E d : C!PopBack(d) \/ C!PopFront(d) \/ C!Clear(d)
    BY <1>2, Zenon DEF CircularArrayTable, Functions
  <2>2. \A d, r : C!Update(d, r) \/ C!OutOfMemory => exists' = exists
    BY DEF C!Update, C!OutOfMemory
  <2>3. \A d, v : C!PushBack(d, v) \/ C!PushFront(d, v) => exists' = exists
    BY <2>2 DEF C!PushBack, C!PushFront
  <2>4. \A d : C!PopBack(d) \/ C!PopFront(d) \/ C!Clear(d) => exists' = exists
    BY <2>2 DEF C!PopBack, C!PopFront, C!Clear
  <2>5. \A d, i, v : C!Insert(d, i, v) \/ C!Set(d, i, v) => exists' = exists
    BY <2>2, <2>3 DEF C!Insert, C!InsertMiddle, C!Set
  <2>6. \A d, i : C!Erase(d, i) => exists' = exists
    BY <2>2, <2>4 DEF C!Erase, C!EraseMiddle
  <2>7. QED
    BY <2>1, <2>3, <2>4, <2>5, <2>6
<1>3. CASE OwningCircularArrayTable(c) /\ client.role = "queue"
  <2>1. \/ \E d, v : O!PushBack(d, v)
        \/ \E d : O!PopFront(d)
    BY <1>3 DEF OwningCircularArrayTable
  <2>2. QED
    BY <2>1 DEF O!PushBack, O!PopFront, O!Update, O!OutOfMemory
<1>4. CASE ListTable(c)
  <2>1. \/ \E d, i, v : L!Insert(d, i, v) \/ L!Set(d, i, v)
        \/ \E d, v : L!PushBack(d, v) \/ L!PushFront(d, v)
        \/ \E d, i : L!Erase(d, i)
        \/ \E d : L!PopBack(d) \/ L!PopFront(d) \/ L!Clear(d)
    BY <1>4, Zenon DEF ListTable, Functions
  <2>2. QED
    BY <2>1 DEF L!Insert, L!PushBack, L!PushFront, L!Set, L!Erase, L!PopBack, L!PopFront,
                L!Clear, L!Becomes, L!OutOfMemory
<1>5. \/ ArrayTable(c) \/ CircularArrayTable(c) \/ ListTable(c)
      \/ OwningCircularArrayTable(c) /\ client.role = "queue"
  BY ClientsAssumption DEF TableCall, HasDfree
<1>6. QED
  BY <1>1, <1>2, <1>3, <1>4, <1>5

-----------------------------------------------------------------------------
(* Every step of the adapters is a step of DataInfo or leaves its          *)
(* variables alone.                                                        *)
LEMMA RefusalIsInfoStep ==
  ASSUME client \in Clients, InfoAfterRefusal
  PROVE  [InfoNext]_infoVars
<1>1. client.info # NoInfo => client.info \in ClientInfo
  BY ClientsAssumption
<1>2. QED
  BY <1>1 DEF InfoAfterRefusal, InfoNext

LEMMA TakenIsInfoStep ==
  ASSUME client \in Clients, NEW d \in Handle, InfoTaken(d)
  PROVE  [InfoNext]_infoVars
<1>1. client.info # NoInfo => client.info \in ClientInfo
  BY ClientsAssumption
<1>2. QED
  BY <1>1, UsersAreContainers DEF InfoTaken, InfoNext

LEMMA StepIsInfoStep ==
  ASSUME PInv, [ANext]_avars
  PROVE  [InfoNext]_infoVars
<1> USE DEF PInv, ClientInv
<1>1. ASSUME NEW q \in AdapterId, Ctor(q) PROVE [InfoNext]_infoVars
  BY <1>1, RefusalIsInfoStep, TakenIsInfoStep, Zenon DEF Ctor
<1>2. ASSUME NEW q \in AdapterId, Dtor(q) PROVE [InfoNext]_infoVars
  <2>1. container[q] \in Handle
    BY <1>2 DEF Dtor, NoSharingInv
  <2>2. QED
    BY <1>2, <2>1, UsersAreContainers DEF Dtor, InfoNext
<1>3. ASSUME NEW q \in AdapterId, NEW vs \in ArgLists, CtorV(q, vs) PROVE [InfoNext]_infoVars
  BY <1>3, RefusalIsInfoStep, TakenIsInfoStep, Zenon DEF CtorV
<1>4. ASSUME NEW q \in AdapterId, Operation(q) PROVE [InfoNext]_infoVars
  BY <1>4 DEF Operation
<1>5. ASSUME NEW p \in AdapterId, NEW q \in AdapterId, Swap(p, q) PROVE [InfoNext]_infoVars
  BY <1>5 DEF Swap
<1>6. CASE UNCHANGED avars
  BY <1>6 DEF avars
<1>7. QED
  BY <1>1, <1>2, <1>3, <1>4, <1>5, <1>6 DEF ANext

-----------------------------------------------------------------------------
(* The pointers. *)
LEMMA PInvInit == AInit => PInv
<1> SUFFICES ASSUME AInit PROVE PInv
  OBVIOUS
<1>1. exists = {}
  BY DEF AInit, A!Init, C!Init
<1>2. QED
  BY <1>1 DEF AInit, PInv, ClientInv, NoSharingInv

(* A new adapter q over a container d that was not there before.           *)
LEMMA AdapterMade ==
  ASSUME PInv, client' = client, NEW q \in AdapterId, q \notin adapters,
         NEW d \in Handle, d \notin exists, exists' = exists \cup {d},
         \/ adapters' = adapters \cup {q} /\ container' = [container EXCEPT ![q] = d]
         \/ UNCHANGED <<adapters, container>>
  PROVE  PInv'
<1>1. ClientInv'
  BY DEF PInv, ClientInv
<1>2. NoSharingInv'
  BY DEF PInv, ClientInv, NoSharingInv
<1>3. QED
  BY <1>1, <1>2 DEF PInv

LEMMA CtorKeeps ==
  ASSUME PInv, NEW q \in AdapterId, Ctor(q)
  PROVE  PInv'
<1>1. PICK d \in Handle :
        /\ TableCall(<<"ctor", d>>)
        /\ \/ /\ ret' = "OK"
              /\ adapters' = adapters \cup {q}
              /\ container' = [container EXCEPT ![q] = d]
           \/ ret' # "OK" /\ UNCHANGED <<adapters, container>>
  BY Zenon DEF Ctor
<1>2. q \notin adapters /\ client' = client
  BY DEF Ctor
<1>3. CASE ret' = "OK"
  <2>1. d \notin exists /\ exists' = exists \cup {d}
    BY <1>1, <1>3, CtorMakes DEF PInv, ClientInv
  <2>2. QED
    BY <1>1, <1>2, <2>1, AdapterMade
<1>4. CASE ret' # "OK"
  <2>1. exists' = exists
    BY <1>1, <1>4, CtorMakes DEF PInv, ClientInv
  <2>2. QED
    BY <1>1, <1>2, <1>4, <2>1 DEF PInv, ClientInv, NoSharingInv
<1>5. QED
  BY <1>3, <1>4

LEMMA CtorVKeeps ==
  ASSUME PInv, NEW q \in AdapterId, NEW vs \in ArgLists, CtorV(q, vs)
  PROVE  PInv'
<1>1. q \notin adapters /\ client' = client
  BY DEF CtorV
<1>2. CASE UNCHANGED <<adapters, container, heap>>
  BY <1>1, <1>2 DEF heap, PInv, ClientInv, NoSharingInv
<1>3. CASE \E d \in Handle \ exists :
             /\ exists' = exists \cup {d}
             /\ \/ adapters' = adapters \cup {q} /\ container' = [container EXCEPT ![q] = d]
                \/ UNCHANGED <<adapters, container>>
  BY <1>1, <1>3, AdapterMade
<1>4. QED
  BY <1>2, <1>3, Zenon DEF CtorV

LEMMA DtorKeeps ==
  ASSUME PInv, NEW q \in AdapterId, Dtor(q)
  PROVE  PInv'
<1>1. /\ q \in adapters /\ client' = client
      /\ adapters' = adapters \ {q}
      /\ container' = [container EXCEPT ![q] = NoHandle]
      /\ TableCall(<<"dtor", container[q]>>)
  BY DEF Dtor
<1>2. container[q] \in Handle
  BY <1>1 DEF PInv, ClientInv, NoSharingInv
<1>3. exists' = exists \ {container[q]}
  BY <1>1, <1>2, DtorTakes DEF PInv, ClientInv
<1>4. ClientInv'
  BY <1>1, <1>3 DEF PInv, ClientInv
<1>5. NoSharingInv'
  BY <1>1, <1>3 DEF PInv, ClientInv, NoSharingInv
<1>6. QED
  BY <1>4, <1>5 DEF PInv

(* A call is named by the function it calls. *)
LEMMA CallName ==
  ASSUME NEW f, NEW h, NEW s,
         \/ s = <<>>
         \/ \E v : s = <<v>>
         \/ \E i, v : s = <<i, v>>
  PROVE  (<<f, h>> \o s)[1] = f
<1>1. PICK V : <<f, h>> \in Seq(V) /\ s \in Seq(V)
  <2>1. CASE s = <<>>
    <3>1. <<f, h>> \in Seq({f, h}) /\ s \in Seq({f, h})
      BY <2>1
    <3>2. QED
      BY <3>1, Zenon
  <2>2. ASSUME NEW v, s = <<v>> PROVE \E V : <<f, h>> \in Seq(V) /\ s \in Seq(V)
    <3>1. <<f, h>> \in Seq({f, h, v}) /\ s \in Seq({f, h, v})
      BY <2>2
    <3>2. QED
      BY <3>1, Zenon
  <2>3. ASSUME NEW i, NEW v, s = <<i, v>> PROVE \E V : <<f, h>> \in Seq(V) /\ s \in Seq(V)
    <3>1. <<f, h>> \in Seq({f, h, i, v}) /\ s \in Seq({f, h, i, v})
      BY <2>3
    <3>2. QED
      BY <3>1, Zenon
  <2>4. QED
    BY <2>1, <2>2, <2>3, Zenon
<1>2. QED
  BY <1>1

LEMMA OperationKeeps ==
  ASSUME PInv, NEW q \in AdapterId, Operation(q)
  PROVE  PInv'
<1>1. UNCHANGED <<client, adapters, container>>
  BY DEF Operation
<1>2. exists' = exists
  <2> DEFINE n == Len(Contents(container[q]))
             O1 == Insertions(n) \cup Removals(n) \cup Others(n)
  <2>1. PICK o \in O1 : TableCall(<<TableFunction(o[1]), container[q]>> \o o[2])
    BY Zenon DEF Operation
  <2>2. PICK f, t : /\ o = <<f, t>>
                    /\ \/ t = <<>>
                       \/ \E v : t = <<v>>
                       \/ \E i, v : t = <<i, v>>
                    /\ IF client.role = "deque" THEN f \in Functions ELSE f \in {"push", "pop"}
    <3>1. CASE client.role = "deque"
      <4>1. CASE o \in Insertions(n)
        BY <3>1, <4>1 DEF Insertions, Functions
      <4>2. CASE o \in Removals(n)
        BY <3>1, <4>2 DEF Removals, Functions
      <4>3. CASE o \in Others(n)
        BY <3>1, <4>3 DEF Others, Functions
      <4>4. QED
        BY <4>1, <4>2, <4>3
    <3>2. CASE client.role # "deque"
      BY <3>2 DEF Insertions, Removals, Others
    <3>3. QED
      BY <3>1, <3>2
  <2> DEFINE c == <<TableFunction(f), container[q]>> \o t
  <2>3. TableCall(c)
    BY <2>1, <2>2
  <2>4. c[1] = TableFunction(f)
    BY <2>2, CallName, Zenon
  <2>5. client.role \in {"deque", "stack", "queue"}
    BY ClientsAssumption DEF PInv, ClientInv
  <2>6. /\ TableFunction(f) \in Functions
        /\ client.role = "queue" => TableFunction(f) \in {"push_back", "pop_front"}
    BY <2>2, <2>5 DEF TableFunction, Functions
  <2> HIDE DEF c
  <2>7. QED
    BY <2>3, <2>4, <2>6, OthersKeep DEF PInv, ClientInv
<1>3. QED
  BY <1>1, <1>2 DEF PInv, ClientInv, NoSharingInv

LEMMA SwapKeeps ==
  ASSUME PInv, NEW p \in AdapterId, NEW q \in AdapterId, Swap(p, q)
  PROVE  PInv'
<1>1. /\ p \in adapters /\ q \in adapters
      /\ container' = [container EXCEPT ![p] = container[q], ![q] = container[p]]
      /\ client' = client /\ adapters' = adapters /\ exists' = exists
  BY DEF Swap, heap
<1>2. \A a \in AdapterId : container'[a] = IF a = q THEN container[p]
                                          ELSE IF a = p THEN container[q] ELSE container[a]
  BY <1>1 DEF PInv, ClientInv
<1>3. ClientInv'
  BY <1>1 DEF PInv, ClientInv
<1>4. NoSharingInv'
  BY <1>1, <1>2 DEF PInv, ClientInv, NoSharingInv
<1>5. QED
  BY <1>3, <1>4 DEF PInv

LEMMA PInvStep == PInv /\ [ANext]_avars => PInv'
<1> SUFFICES ASSUME PInv, [ANext]_avars PROVE PInv'
  OBVIOUS
<1>1. CASE UNCHANGED avars
  BY <1>1 DEF avars, heap, PInv, ClientInv, NoSharingInv
<1>2. CASE ANext
  BY <1>2, CtorKeeps, CtorVKeeps, DtorKeeps, OperationKeeps, SwapKeeps DEF ANext
<1>3. QED
  BY <1>1, <1>2

(* However adapters are constructed, swapped and destroyed, over whatever  *)
(* container and however many there are, no two of them share a container  *)
(* and none outlives its own.                                              *)
THEOREM NoSharing == ASpec => []NoSharingInv
<1>1. PInv => NoSharingInv
  BY DEF PInv
<1>2. QED
  BY <1>1, PInvInit, PInvStep, PTL DEF ASpec

(* The adapters use the data_info structs as the counts of DataInfo allow. *)
THEOREM AdaptersShareInfo == ASpec => InfoSpec
<1>1. AInit => InfoInit
  BY DEF AInit
<1>2. PInv /\ [ANext]_avars => [InfoNext]_infoVars
  BY StepIsInfoStep
<1>3. QED
  BY <1>1, <1>2, PInvInit, PInvStep, PTL DEF ASpec, InfoSpec

(* No container behind an adapter is left with a freed struct, no struct   *)
(* of the client is ever freed, and the counts are exact.                  *)
THEOREM AdaptersInfoSafe == ASpec => [](InfoInv /\ CountInv)
  BY AdaptersShareInfo, NoInfoUsedAfterFree, CountsAreExact, PTL

(* The sequences behind the containers, and what the sequence table says   *)
(* of a call on a container.                                               *)
Lines == [d \in Handle |-> Contents(d)]

Table == INSTANCE Sequence WITH contents <- Lines

LEMMA TableAnswers ==
  ASSUME NEW a, NEW b, NEW c
  PROVE  /\ Table!Ctor(a) <=> Table!Answers(<<"ctor", a>>)
         /\ Table!Dtor(a) <=> Table!Answers(<<"dtor", a>>)
         /\ Table!Clear(a) <=> Table!Answers(<<"clear", a>>)
         /\ Table!PushBack(a, b) <=> Table!Answers(<<"push_back", a, b>>)
         /\ Table!PushFront(a, b) <=> Table!Answers(<<"push_front", a, b>>)
         /\ Table!Insert(a, b, c) <=> Table!Answers(<<"insert", a, b, c>>)
         /\ Table!PopBack(a) <=> Table!Answers(<<"pop_back", a>>)
         /\ Table!PopFront(a) <=> Table!Answers(<<"pop_front", a>>)
         /\ Table!Erase(a, b) <=> Table!Answers(<<"erase", a, b>>)
         /\ Table!Set(a, b, c) <=> Table!Answers(<<"set", a, b, c>>)
  BY DEF Table!Answers

(* Inserting and erasing at the ends is pushing and popping.               *)
LEMMA EndsOfSequence ==
  ASSUME NEW s \in Seq(Item), NEW v \in Item
  PROVE  /\ InsertAt(s, Len(s) + 1, v) = Append(s, v)
         /\ InsertAt(s, 1, v) = <<v>> \o s
         /\ s # <<>> => RemoveAt(s, Len(s)) = Front(s) /\ RemoveAt(s, 1) = Tail(s)
<1>1. PICK n \in Nat : n = Len(s)
  OBVIOUS
<1>2. n \in 0 .. Len(s) /\ 0 \in 0 .. Len(s)
  BY <1>1
<1>3. InsertAt(s, n + 1, v) = Append(s, v)
  <2>1. InsertAt(s, n + 1, v) =
           [j \in 1 .. Len(s) + 1 |-> IF j <= n THEN s[j] ELSE IF j = n + 1 THEN v ELSE s[j - 1]]
    BY <1>2, InsertAtItems
  <2>2. Append(s, v) = [j \in 1 .. Len(s) + 1 |-> IF j <= Len(s) THEN s[j] ELSE v]
    BY AppendItems
  <2> QED
    BY <1>1, <2>1, <2>2
<1>4. InsertAt(s, 0 + 1, v) = <<v>> \o s
  <2>1. PICK m \in 0 .. Len(s) : m = 0
    BY <1>2
  <2>2. InsertAt(s, m + 1, v) =
           [j \in 1 .. Len(s) + 1 |-> IF j <= m THEN s[j] ELSE IF j = m + 1 THEN v ELSE s[j - 1]]
    BY InsertAtItems
  <2>3. <<v>> \o s = [j \in 1 .. Len(s) + 1 |-> IF j = 1 THEN v ELSE s[j - 1]]
    BY PrependItems
  <2> QED
    BY <1>1, <2>1, <2>2, <2>3
<1>5. ASSUME s # <<>> PROVE RemoveAt(s, n) = Front(s) /\ RemoveAt(s, 1) = Tail(s)
  <2>1. n > 0
    BY <1>1, <1>5, EmptySeq
  <2>2. PICK m \in 0 .. Len(s) - 1 : m = n - 1
    BY <1>1, <2>1
  <2>3. /\ RemoveAt(s, m + 1) = [j \in 1 .. Len(s) - 1 |-> IF j <= m THEN s[j] ELSE s[j + 1]]
        /\ RemoveAt(s, 0 + 1) = [j \in 1 .. Len(s) - 1 |-> IF j <= 0 THEN s[j] ELSE s[j + 1]]
    <3>1. 0 \in 0 .. Len(s) - 1
      BY <1>1, <2>1
    <3> QED
      BY <3>1, RemoveAtItems, Zenon
  <2>4. /\ Front(s) = [j \in 1 .. Len(s) - 1 |-> s[j]]
        /\ Tail(s) = [j \in 1 .. Len(s) - 1 |-> s[j + 1]]
    BY <1>5, FrontItems, TailItems
  <2>5. m + 1 = n /\ 0 + 1 = 1
    BY <1>1, <2>2
  <2>6. RemoveAt(s, m + 1) = Front(s) /\ RemoveAt(s, 0 + 1) = Tail(s)
    BY <1>1, <2>2, <2>3, <2>4
  <2> QED
    BY <2>5, <2>6
<1> QED
  BY <1>1, <1>3, <1>4, <1>5

LEMMA TableEnds ==
  ASSUME NEW d, Lines[d] \in Seq(Item), NEW v \in Item
  PROVE  /\ Table!Insert(d, Len(Lines[d]), v) <=> Table!PushBack(d, v)
         /\ Table!Insert(d, 0, v) <=> Table!PushFront(d, v)
         /\ Lines[d] # <<>> => /\ Table!Erase(d, Len(Lines[d]) - 1) <=> Table!PopBack(d)
                               /\ Table!Erase(d, 0) <=> Table!PopFront(d)
<1>1. PICK s \in Seq(Item) : s = Lines[d]
  OBVIOUS
<1>2. PICK n \in Nat : n = Len(s) /\ (s # <<>> => n > 0)
  BY EmptySeq
<1>3. /\ InsertAt(s, n + 1, v) = Append(s, v)
      /\ InsertAt(s, 0 + 1, v) = <<v>> \o s
      /\ s # <<>> => RemoveAt(s, (n - 1) + 1) = Front(s) /\ RemoveAt(s, 0 + 1) = Tail(s)
  <2>1. (n - 1) + 1 = n /\ 0 + 1 = 1
    BY <1>2
  <2> QED
    BY <1>2, <2>1, EndsOfSequence
<1>4. /\ SubSeq(s, 1, n) \o <<v>> \o SubSeq(s, n + 1, Len(s)) = Append(s, v)
      /\ SubSeq(s, 1, 0) \o <<v>> \o SubSeq(s, 0 + 1, Len(s)) = <<v>> \o s
      /\ s # <<>> => /\ SubSeq(s, 1, n - 1) \o SubSeq(s, (n - 1) + 2, Len(s)) = SubSeq(s, 1, Len(s) - 1)
                     /\ SubSeq(s, 1, 0) \o SubSeq(s, 0 + 2, Len(s)) = Tail(s)
  <2>1. n \in Int /\ 0 \in Int /\ n - 1 \in Int
    BY <1>2
  <2> QED
    BY <1>3, <2>1, SequenceOperators, Zenon
<1>5. /\ n \in 0 .. n /\ 0 \in 0 .. n
      /\ s # <<>> => n - 1 \in 0 .. n - 1 /\ 0 \in 0 .. n - 1
  BY <1>2
<1>6. Table!Insert(d, n, v) <=> Table!PushBack(d, v)
  BY <1>1, <1>2, <1>3, <1>4, <1>5, Zenon DEF Table!Insert, Table!PushBack
<1>7. Table!Insert(d, 0, v) <=> Table!PushFront(d, v)
  BY <1>1, <1>2, <1>3, <1>4, <1>5, Zenon DEF Table!Insert, Table!PushFront
<1>8. ASSUME s # <<>>
      PROVE  /\ Table!Erase(d, n - 1) <=> Table!PopBack(d)
             /\ Table!Erase(d, 0) <=> Table!PopFront(d)
  BY <1>1, <1>2, <1>3, <1>4, <1>5, <1>8, Zenon DEF Table!Erase, Table!PopBack, Table!PopFront
<1> QED
  BY <1>1, <1>2, <1>6, <1>7, <1>8

-----------------------------------------------------------------------------
(* From the containers to the adapters. *)
Shown == [q \in AdapterId |-> Line(q)]

LEMMA LineIs ==
  ASSUME PInv, NEW q \in adapters
  PROVE  /\ q \in AdapterId /\ container[q] \in Handle /\ container[q] \in exists
         /\ Shown[q] = Lines[container[q]] /\ Line(q) = Lines[container[q]]
BY DEF PInv, ClientInv, NoSharingInv, Shown, Lines, Line

LEMMA BecomesLifts ==
  ASSUME PInv, UNCHANGED <<adapters, container>>, NEW q \in adapters, NEW s,
         Lines' = [Lines EXCEPT ![container[q]] = s]
  PROVE  Shown' = [Shown EXCEPT ![q] = s]
<1>1. \A d \in Handle : Lines'[d] = Contents(d)'
  BY DEF Lines
<1>2. ASSUME NEW p \in adapters PROVE Shown'[p] = IF p = q THEN s ELSE Shown[p]
  <2>1. p \in AdapterId /\ p \in adapters' /\ container'[p] = container[p] /\ container[p] \in Handle
    BY LineIs
  <2>2. Shown'[p] = Lines'[container[p]]
    BY <1>1, <2>1 DEF Shown, Line
  <2>3. Lines'[container[p]] = IF container[p] = container[q] THEN s ELSE Lines[container[p]]
    BY <2>1 DEF Lines
  <2>4. container[p] = container[q] <=> p = q
    BY DEF PInv, NoSharingInv
  <2> QED
    BY <2>2, <2>3, <2>4, LineIs
<1>3. ASSUME NEW p \in AdapterId \ adapters PROVE Shown'[p] = Shown[p]
  BY <1>3 DEF Shown, Line
<1>4. \A p \in AdapterId : Shown'[p] = IF p = q THEN s ELSE Shown[p]
  BY <1>2, <1>3
<1>5. Shown' = [p \in AdapterId |-> Shown'[p]] /\ Shown = [p \in AdapterId |-> Shown[p]]
  BY DEF Shown
<1> HIDE DEF Shown
<1> QED
  BY <1>4, <1>5

LEMMA SameLift ==
  ASSUME PInv, UNCHANGED <<adapters, container>>, Lines' = Lines
  PROVE  Shown' = Shown
<1>1. \A d \in Handle : Contents(d)' = Contents(d)
  <2>1. \A d \in Handle : Lines'[d] = Contents(d)' /\ Lines[d] = Contents(d)
    BY DEF Lines
  <2> QED
    BY <2>1
<1>2. ASSUME NEW p \in AdapterId PROVE Line(p)' = Line(p)
  BY <1>1 DEF Line, PInv, ClientInv, NoSharingInv
<1> QED
  BY <1>2 DEF Shown

LEMMA AnswersLift ==
  ASSUME PInv, UNCHANGED <<adapters, container>>, NEW q \in adapters, NEW b, NEW c
  PROVE  /\ Table!PushBack(container[q], b) => Promise!PushBack(q, b)
         /\ Table!PushFront(container[q], b) => Promise!PushFront(q, b)
         /\ Table!Insert(container[q], b, c) => Promise!Insert(q, b, c)
         /\ Table!PopBack(container[q]) => Promise!PopBack(q)
         /\ Table!PopFront(container[q]) => Promise!PopFront(q)
         /\ Table!Erase(container[q], b) => Promise!Erase(q, b)
         /\ Table!Set(container[q], b, c) => Promise!Set(q, b, c)
         /\ Table!Clear(container[q]) => Promise!Clear(q)
<1>1. ASSUME NEW s, Table!Becomes(container[q], s) PROVE Promise!Becomes(q, s)
  BY <1>1, BecomesLifts DEF Table!Becomes, Promise!Becomes, Shown
<1>2. ASSUME Table!OutOfMemory PROVE Promise!OutOfMemory
  BY <1>2, SameLift DEF Table!OutOfMemory, Promise!OutOfMemory, Shown
<1>3. q \in adapters /\ Shown[q] = Lines[container[q]]
  BY LineIs
<1>4. Shown = [p \in AdapterId |-> Line(p)]
  BY DEF Shown
<1>5. /\ Table!PushBack(container[q], b) => Promise!PushBack(q, b)
      /\ Table!PushFront(container[q], b) => Promise!PushFront(q, b)
      /\ Table!Insert(container[q], b, c) => Promise!Insert(q, b, c)
  BY <1>1, <1>2, <1>3, <1>4, Zenon
    DEF Table!PushBack, Promise!PushBack, Table!PushFront, Promise!PushFront, Table!Insert, Promise!Insert
<1>6. /\ Table!PopBack(container[q]) => Promise!PopBack(q)
      /\ Table!PopFront(container[q]) => Promise!PopFront(q)
      /\ Table!Erase(container[q], b) => Promise!Erase(q, b)
  BY <1>1, <1>3, <1>4, Zenon
    DEF Table!PopBack, Promise!PopBack, Table!PopFront, Promise!PopFront, Table!Erase, Promise!Erase
<1>7. /\ Table!Set(container[q], b, c) => Promise!Set(q, b, c)
      /\ Table!Clear(container[q]) => Promise!Clear(q)
  BY <1>1, <1>3, <1>4, Zenon DEF Table!Set, Promise!Set, Table!Clear, Promise!Clear
<1> QED
  BY <1>5, <1>6, <1>7

(* An operation makes the call c on the container d, and means m of the    *)
(* adapter q: the same function with the same arguments.                   *)
SameCall(c, m, d, q) ==
  \/ \E f \in {"push_back", "push_front"}, v \in Item : c = <<f, d, v>> /\ m = <<f, q, v>>
  \/ \E f \in {"insert", "set"}, i \in Int, v \in Item : c = <<f, d, i, v>> /\ m = <<f, q, i, v>>
  \/ \E f \in {"pop_back", "pop_front", "clear"} : c = <<f, d>> /\ m = <<f, q>>
  \/ \E i \in Int : c = <<"erase", d, i>> /\ m = <<"erase", q, i>>

LEMMA OperationCalls ==
  ASSUME PInv, NEW q \in AdapterId, Operation(q), Lines[container[q]] \in Seq(Item)
  PROVE  \E c, m : /\ SameCall(c, m, container[q], q)
                   /\ TableCall(c)
                   /\ m = Meant(op') /\ op'[2] = q /\ c[1] = TableFunction(op'[1])
                   /\ client.role = "queue" => c[1] \in {"push_back", "pop_front"}
<1>1. q \in adapters
  BY DEF Operation
<1>2. PICK n \in Nat : n = Len(Contents(container[q]))
  BY <1>1, LineIs DEF Lines
<1>3. PICK o \in Insertions(n) \cup Removals(n) \cup Others(n) :
        /\ op' = <<o[1], q>> \o o[2]
        /\ TableCall(<<TableFunction(o[1]), container[q]>> \o o[2])
  BY <1>2, Zenon DEF Operation
<1>4. client.role \in {"deque", "stack", "queue"}
  BY ClientsAssumption DEF PInv, ClientInv
<1> DEFINE d == container[q]
           Result(c, m) == /\ SameCall(c, m, d, q)
                           /\ TableCall(c)
                           /\ m = Meant(op') /\ op'[2] = q /\ c[1] = TableFunction(op'[1])
                           /\ client.role = "queue" => c[1] \in {"push_back", "pop_front"}
           Goal == \E c, m : Result(c, m)
<1>5. ASSUME NEW f, NEW v \in Item, o = <<f, <<v>>>>,
             \/ client.role = "deque" /\ f \in {"push_back", "push_front"}
             \/ client.role # "deque" /\ f = "push"
      PROVE  Goal
  <2>1. op' = <<f, q, v>> /\ TableCall(<<TableFunction(f), d, v>>)
    BY <1>3, <1>5, Concats
  <2>2. /\ TableFunction(f) \in {"push_back", "push_front"} /\ Meant(op') = <<TableFunction(f), q, v>>
        /\ client.role = "queue" => TableFunction(f) = "push_back"
    BY <1>4, <1>5, <2>1 DEF TableFunction, Meant
  <2>3. Result(<<TableFunction(f), d, v>>, <<TableFunction(f), q, v>>)
    BY <2>1, <2>2 DEF SameCall
  <2> QED
    BY <2>3
<1>6. ASSUME NEW f \in {"insert", "set"}, NEW i \in Int, NEW v \in Item, o = <<f, <<i, v>>>>,
             client.role = "deque"
      PROVE  Goal
  <2>1. op' = <<f, q, i, v>> /\ TableCall(<<TableFunction(f), d, i, v>>)
    <3>1. o[1] = f /\ o[2] = <<i, v>>
      BY <1>6
    <3>2. \A g, h : <<g, h>> \o <<i, v>> = <<g, h, i, v>>
      BY Concats
    <3> QED
      BY <1>3, <3>1, <3>2, Zenon
  <2>2. TableFunction(f) = f /\ Meant(op') = <<f, q, i, v>>
    BY <1>6, <2>1 DEF TableFunction, Meant
  <2>3. Result(<<f, d, i, v>>, <<f, q, i, v>>)
    BY <1>6, <2>1, <2>2 DEF SameCall
  <2> QED
    BY <2>3
<1>7. ASSUME NEW f, o = <<f, <<>>>>,
             \/ client.role = "deque" /\ f \in {"pop_back", "pop_front", "clear"}
             \/ client.role # "deque" /\ f = "pop"
      PROVE  Goal
  <2>1. op' = <<f, q>> /\ TableCall(<<TableFunction(f), d>>)
    BY <1>3, <1>7, Concats
  <2>2. /\ TableFunction(f) \in {"pop_back", "pop_front", "clear"} /\ Meant(op') = <<TableFunction(f), q>>
        /\ client.role = "queue" => TableFunction(f) = "pop_front"
    BY <1>4, <1>7, <2>1 DEF TableFunction, Meant
  <2>3. Result(<<TableFunction(f), d>>, <<TableFunction(f), q>>)
    BY <2>1, <2>2 DEF SameCall
  <2> QED
    BY <2>3
<1>8. ASSUME NEW i \in Int, o = <<"erase", <<i>>>>, client.role = "deque"
      PROVE  Goal
  <2>1. op' = <<"erase", q, i>> /\ TableCall(<<TableFunction("erase"), d, i>>)
    BY <1>3, <1>8, Concats
  <2>2. TableFunction("erase") = "erase" /\ Meant(op') = <<"erase", q, i>>
    BY <2>1 DEF TableFunction, Meant
  <2>3. Result(<<"erase", d, i>>, <<"erase", q, i>>)
    BY <1>8, <2>1, <2>2 DEF SameCall
  <2> QED
    BY <2>3
<1> HIDE DEF Goal
<1>9. ASSUME o \in Insertions(n) PROVE Goal
  <2>1. CASE client.role = "deque"
    <3>1. CASE o \in {<<f, <<v>>>> : f \in {"push_back", "push_front"}, v \in Item}
      BY <1>5, <2>1, <3>1
    <3>2. CASE o \in {<<"insert", <<i, v>>>> : i \in 0 .. n, v \in Item}
      <4>1. PICK i \in 0 .. n, v \in Item : o = <<"insert", <<i, v>>>>
        BY <3>2
      <4> QED
        BY <1>6, <2>1, <4>1
    <3> QED
      BY <1>9, <2>1, <3>1, <3>2 DEF Insertions
  <2>2. CASE client.role # "deque"
    <3>1. PICK v \in Item : o = <<"push", <<v>>>>
      BY <1>9, <2>2 DEF Insertions
    <3> QED
      BY <1>5, <2>2, <3>1
  <2> QED
    BY <2>1, <2>2
<1>10. ASSUME o \in Removals(n) PROVE Goal
  <2>1. CASE client.role = "deque"
    <3>1. CASE o \in {<<f, <<>>>> : f \in {"pop_back", "pop_front"}}
      BY <1>7, <2>1, <3>1
    <3>2. CASE o \in {<<"erase", <<i>>>> : i \in 0 .. n - 1}
      BY <1>8, <2>1, <3>2
    <3> QED
      BY <1>10, <2>1, <3>1, <3>2 DEF Removals
  <2>2. CASE client.role # "deque"
    BY <1>7, <1>10, <2>2 DEF Removals
  <2> QED
    BY <2>1, <2>2
<1>11. ASSUME o \in Others(n) PROVE Goal
  <2>1. client.role = "deque"
    BY <1>11 DEF Others
  <2>2. CASE o = <<"clear", <<>>>>
    BY <1>7, <2>1, <2>2
  <2>3. CASE o \in {<<"set", <<i, v>>>> : i \in 0 .. n - 1, v \in Item}
    <3>1. PICK i \in 0 .. n - 1, v \in Item : o = <<"set", <<i, v>>>>
      BY <2>3
    <3> QED
      BY <1>6, <2>1, <3>1
  <2> QED
    BY <1>11, <2>1, <2>2, <2>3 DEF Others
<1>12. Goal
  BY <1>3, <1>9, <1>10, <1>11
<1> QED
  BY <1>12 DEF Goal

LEMMA PromiseAnswers ==
  ASSUME NEW a, NEW b, NEW c
  PROVE  /\ Promise!Ctor(a) <=> Promise!Answers(<<"ctor", a>>)
         /\ Promise!Dtor(a) <=> Promise!Answers(<<"dtor", a>>)
         /\ Promise!Clear(a) <=> Promise!Answers(<<"clear", a>>)
         /\ Promise!PushBack(a, b) <=> Promise!Answers(<<"push_back", a, b>>)
         /\ Promise!PushFront(a, b) <=> Promise!Answers(<<"push_front", a, b>>)
         /\ Promise!Insert(a, b, c) <=> Promise!Answers(<<"insert", a, b, c>>)
         /\ Promise!PopBack(a) <=> Promise!Answers(<<"pop_back", a>>)
         /\ Promise!PopFront(a) <=> Promise!Answers(<<"pop_front", a>>)
         /\ Promise!Erase(a, b) <=> Promise!Answers(<<"erase", a, b>>)
         /\ Promise!Set(a, b, c) <=> Promise!Answers(<<"set", a, b, c>>)
         /\ Promise!Swap(a, b) <=> Promise!Answers(<<"swap", a, b>>)
  BY DEF Promise!Answers

LEMMA MeantAnswers ==
  ASSUME PInv, UNCHANGED <<adapters, container>>, NEW q \in adapters, NEW c, NEW m,
         SameCall(c, m, container[q], q), Table!Answers(c)
  PROVE  Promise!Answers(m)
<1>1. ASSUME NEW f \in {"push_back", "push_front"}, NEW v \in Item,
             c = <<f, container[q], v>>, m = <<f, q, v>>
      PROVE  Promise!Answers(m)
  BY <1>1, TableAnswers, PromiseAnswers, AnswersLift
<1>2. ASSUME NEW f \in {"insert", "set"}, NEW i \in Int, NEW v \in Item,
             c = <<f, container[q], i, v>>, m = <<f, q, i, v>>
      PROVE  Promise!Answers(m)
  BY <1>2, TableAnswers, PromiseAnswers, AnswersLift
<1>3. ASSUME NEW f \in {"pop_back", "pop_front", "clear"}, c = <<f, container[q]>>, m = <<f, q>>
      PROVE  Promise!Answers(m)
  BY <1>3, TableAnswers, PromiseAnswers, AnswersLift
<1>4. ASSUME NEW i \in Int, c = <<"erase", container[q], i>>, m = <<"erase", q, i>>
      PROVE  Promise!Answers(m)
  BY <1>4, TableAnswers, PromiseAnswers, AnswersLift
<1> QED
  BY <1>1, <1>2, <1>3, <1>4 DEF SameCall

(* A container d is made, for a new adapter q or for none.                 *)
LEMMA LineMade ==
  ASSUME PInv, NEW q \in AdapterId, q \notin adapters, NEW d \in Handle, d \notin exists, NEW s,
         Lines' = [Lines EXCEPT ![d] = s]
  PROVE  /\ adapters' = adapters \cup {q} /\ container' = [container EXCEPT ![q] = d]
              => Shown' = [Shown EXCEPT ![q] = s]
         /\ UNCHANGED <<adapters, container>> => Shown' = Shown
<1>1. \A e \in Handle : Lines'[e] = Contents(e)'
  BY DEF Lines
<1>2. \A e \in Handle : Lines'[e] = IF e = d THEN s ELSE Lines[e]
  BY DEF Lines
<1>3. ASSUME NEW p \in adapters PROVE container[p] # d
  BY <1>3, LineIs
<1>4. Shown' = [p \in AdapterId |-> Shown'[p]] /\ Shown = [p \in AdapterId |-> Shown[p]]
  BY DEF Shown
<1>5. ASSUME adapters' = adapters \cup {q}, container' = [container EXCEPT ![q] = d]
      PROVE  Shown' = [Shown EXCEPT ![q] = s]
  <2>1. container'[q] = d /\ \A p \in AdapterId : p # q => container'[p] = container[p]
    BY <1>5 DEF PInv, ClientInv
  <2>2. Shown'[q] = s
    BY <1>1, <1>2, <1>5, <2>1 DEF Shown, Line
  <2>3. ASSUME NEW p \in adapters PROVE p # q /\ Shown'[p] = Shown[p]
    <3>1. p \in AdapterId /\ p # q /\ container'[p] = container[p] /\ container[p] \in Handle
          /\ p \in adapters'
      BY <1>5, <2>1, <2>3, LineIs
    <3>2. Shown'[p] = Lines'[container[p]]
      BY <1>1, <3>1 DEF Shown, Line
    <3> QED
      BY <1>2, <1>3, <2>3, <3>1, <3>2, LineIs
  <2>4. ASSUME NEW p \in AdapterId, p \notin adapters, p # q PROVE Shown'[p] = Shown[p]
    BY <1>5, <2>4 DEF Shown, Line
  <2>5. \A p \in AdapterId : Shown'[p] = IF p = q THEN s ELSE Shown[p]
    BY <2>2, <2>3, <2>4
  <2> HIDE DEF Shown
  <2> QED
    BY <1>4, <2>5
<1>6. ASSUME UNCHANGED <<adapters, container>> PROVE Shown' = Shown
  <2>1. ASSUME NEW p \in adapters PROVE Shown'[p] = Shown[p]
    <3>1. p \in AdapterId /\ container'[p] = container[p] /\ container[p] \in Handle /\ p \in adapters'
      BY <1>6, <2>1, LineIs
    <3>2. Shown'[p] = Lines'[container[p]]
      BY <1>1, <3>1 DEF Shown, Line
    <3> QED
      BY <1>2, <1>3, <2>1, <3>1, <3>2, LineIs
  <2>2. ASSUME NEW p \in AdapterId, p \notin adapters PROVE Shown'[p] = Shown[p]
    BY <1>6, <2>2 DEF Shown, Line
  <2>3. \A p \in AdapterId : Shown'[p] = Shown[p]
    BY <2>1, <2>2
  <2> HIDE DEF Shown
  <2> QED
    BY <1>4, <2>3
<1> QED
  BY <1>5, <1>6

LEMMA CtorLift ==
  ASSUME PInv, NEW q \in AdapterId, q \notin adapters, NEW d \in Handle, Table!Ctor(d),
         IF ret' = "OK" THEN adapters' = adapters \cup {q} /\ container' = [container EXCEPT ![q] = d]
                        ELSE UNCHANGED <<adapters, container>>
  PROVE  Promise!Ctor(q)
<1>1. CASE ret' = "OK" /\ Lines' = [Lines EXCEPT ![d] = <<>>]
  <2>1. d \notin exists
    BY DEF Table!Ctor
  <2>2. Shown' = [Shown EXCEPT ![q] = <<>>]
    BY <1>1, <2>1, LineMade
  <2> QED
    BY <1>1, <2>2 DEF Promise!Ctor, Shown
<1>2. CASE Table!OutOfMemory
  <2>1. ret' = "BAD_ALLOC" /\ Lines' = Lines /\ UNCHANGED <<adapters, container>>
    BY <1>2 DEF Table!OutOfMemory
  <2>2. Shown' = Shown
    BY <2>1, SameLift
  <2> QED
    BY <2>1, <2>2 DEF Promise!Ctor, Promise!OutOfMemory, Shown
<1> QED
  BY <1>1, <1>2 DEF Table!Ctor

LEMMA DtorLift ==
  ASSUME PInv, NEW q \in adapters, Table!Dtor(container[q]),
         adapters' = adapters \ {q}, container' = [container EXCEPT ![q] = NoHandle]
  PROVE  Promise!Dtor(q)
<1>1. q \in AdapterId /\ ret' = "OK" /\ Lines' = [Lines EXCEPT ![container[q]] = <<>>]
  BY LineIs DEF Table!Dtor
<1>2. \A e \in Handle : Lines'[e] = Contents(e)'
  BY DEF Lines
<1>3. Shown' = [p \in AdapterId |-> Shown'[p]] /\ Shown = [p \in AdapterId |-> Shown[p]]
  BY DEF Shown
<1>4. \A p \in AdapterId : p # q => container'[p] = container[p]
  BY DEF PInv, ClientInv
<1>5. ASSUME NEW p \in adapters, p # q PROVE Shown'[p] = Shown[p]
  <2>1. /\ p \in AdapterId /\ container[p] \in Handle /\ container'[p] = container[p] /\ p \in adapters'
        /\ container[p] # container[q]
    BY <1>4, <1>5, LineIs DEF PInv, NoSharingInv
  <2>2. Shown'[p] = Lines'[container[p]]
    BY <1>2, <2>1 DEF Shown, Line
  <2>3. Lines'[container[p]] = Lines[container[p]]
    BY <1>1, <2>1 DEF Lines
  <2> QED
    BY <1>5, <2>2, <2>3, LineIs
<1>6. ASSUME NEW p \in AdapterId, p \notin adapters PROVE Shown'[p] = Shown[p]
  BY <1>6 DEF Shown, Line
<1>7. Shown'[q] = <<>>
  BY <1>1 DEF Shown, Line
<1>8. \A p \in AdapterId : Shown'[p] = IF p = q THEN <<>> ELSE Shown[p]
  BY <1>5, <1>6, <1>7
<1>9. Shown' = [Shown EXCEPT ![q] = <<>>]
  <2> HIDE DEF Shown
  <2> QED
    BY <1>3, <1>8
<1> QED
  BY <1>1, <1>9 DEF Promise!Dtor, Shown

LEMMA SwapLift ==
  ASSUME PInv, NEW p \in AdapterId, NEW q \in AdapterId, Swap(p, q), Lines' = Lines
  PROVE  Promise!Swap(p, q)
<1>1. /\ p \in adapters /\ q \in adapters /\ adapters' = adapters /\ ret' = "OK"
      /\ container' = [container EXCEPT ![p] = container[q], ![q] = container[p]]
  BY DEF Swap
<1>2. \A a \in AdapterId : container'[a] = IF a = q THEN container[p]
                                          ELSE IF a = p THEN container[q] ELSE container[a]
  BY <1>1 DEF PInv, ClientInv
<1>3. \A e \in Handle : Contents(e)' = Lines[e]
  <2>1. \A e \in Handle : Lines'[e] = Contents(e)'
    BY DEF Lines
  <2> QED
    BY <2>1
<1>4. Shown' = [a \in AdapterId |-> Shown'[a]] /\ Shown = [a \in AdapterId |-> Shown[a]]
  BY DEF Shown
<1>5. ASSUME NEW a \in adapters
      PROVE  Shown'[a] = IF a = q THEN Shown[p] ELSE IF a = p THEN Shown[q] ELSE Shown[a]
  <2>1. PICK b \in adapters : b = IF a = q THEN p ELSE IF a = p THEN q ELSE a
    BY <1>1, <1>5
  <2>2. a \in AdapterId /\ a \in adapters' /\ container'[a] = container[b] /\ container[b] \in Handle
    BY <1>1, <1>2, <2>1, LineIs
  <2>3. Shown'[a] = Lines[container[b]]
    BY <1>3, <2>2 DEF Shown, Line
  <2>4. Shown[b] = Lines[container[b]]
    BY LineIs
  <2> QED
    BY <2>1, <2>3, <2>4
<1>6. ASSUME NEW a \in AdapterId, a \notin adapters PROVE Shown'[a] = Shown[a]
  BY <1>1, <1>6 DEF Shown, Line
<1>7. Shown' = [Shown EXCEPT ![p] = Shown[q], ![q] = Shown[p]]
  <2>1. \A a \in AdapterId : Shown'[a] = IF a = q THEN Shown[p] ELSE IF a = p THEN Shown[q] ELSE Shown[a]
    BY <1>1, <1>5, <1>6
  <2> HIDE DEF Shown
  <2> QED
    BY <1>1, <1>4, <2>1
<1> QED
  BY <1>1, <1>7 DEF Promise!Swap, Shown

-----------------------------------------------------------------------------
(* What init_varg makes of its arguments.                                  *)
(* One push on an array, or on the list d.                                 *)
PushedOn(d, r, v) == IF d = NoHandle THEN Pushed(r, v) ELSE L!PushedBack(r, d, v)

FilledUpTo(m, b, d, vs, f) ==
  f = [i \in 0 .. m |-> IF i = 0 THEN b ELSE PushedOn(d, f[i - 1], vs[i])]

LEMMA FilledExists ==
  ASSUME NEW b, NEW d, NEW vs
  PROVE  \A m \in Nat : \E f : FilledUpTo(m, b, d, vs, f)
<1> DEFINE S == {m \in Nat : \E f : FilledUpTo(m, b, d, vs, f)}
<1>1. 0 \in S
  <2>1. PICK f : f = [i \in 0 .. 0 |-> b]
    OBVIOUS
  <2>2. FilledUpTo(0, b, d, vs, f)
    BY <2>1 DEF FilledUpTo
  <2> QED
    BY <2>2
<1>2. ASSUME NEW n \in Nat, n \in S PROVE n + 1 \in S
  <2>1. PICK f : FilledUpTo(n, b, d, vs, f)
    BY <1>2
  <2>2. PICK g : g = [i \in 0 .. n + 1 |-> IF i = n + 1 THEN PushedOn(d, f[n], vs[n + 1]) ELSE f[i]]
    OBVIOUS
  <2>3. /\ f[0] = b
        /\ \A i \in 0 .. n : i # 0 => f[i] = PushedOn(d, f[i - 1], vs[i])
    BY <2>1 DEF FilledUpTo
  <2>4. ASSUME NEW i \in 0 .. n + 1
        PROVE  g[i] = IF i = 0 THEN b ELSE PushedOn(d, g[i - 1], vs[i])
    <3>1. CASE i = n + 1
      <4>1. i # 0 /\ i - 1 = n /\ n # n + 1
        BY <3>1
      <4>2. g[i] = PushedOn(d, f[n], vs[n + 1]) /\ g[n] = f[n]
        BY <2>2, <3>1, <4>1
      <4> QED
        BY <3>1, <4>1, <4>2
    <3>2. CASE i # n + 1 /\ i # 0
      <4>1. i \in 0 .. n /\ i - 1 \in 0 .. n + 1 /\ i - 1 # n + 1
        BY <3>2
      <4>2. g[i] = f[i] /\ g[i - 1] = f[i - 1]
        BY <2>2, <3>2, <4>1
      <4> QED
        BY <2>3, <3>2, <4>1, <4>2
    <3>3. CASE i = 0
      <4>1. 0 \in 0 .. n + 1 /\ 0 # n + 1
        OBVIOUS
      <4> QED
        BY <2>2, <2>3, <3>3, <4>1
    <3> QED
      BY <3>1, <3>2, <3>3
  <2>5. g = [i \in 0 .. n + 1 |-> IF i = 0 THEN b ELSE PushedOn(d, g[i - 1], vs[i])]
    <3>1. g = [i \in 0 .. n + 1 |-> g[i]]
      BY <2>2
    <3> QED
      BY <2>4, <3>1, Zenon
  <2>6. FilledUpTo(n + 1, b, d, vs, g)
    BY <2>5 DEF FilledUpTo
  <2> QED
    BY <2>6
<1> HIDE DEF S
<1>3. \A m \in Nat : m \in S
  BY <1>1, <1>2, Induction
<1> QED
  BY <1>3 DEF S

LEMMA FilledIs ==
  ASSUME NEW vs \in Seq(Item)
  PROVE  /\ Filled(vs)[0] = NewStruct
         /\ \A k \in 1 .. Len(vs) : Filled(vs)[k] = Pushed(Filled(vs)[k - 1], vs[k])
<1>1. PICK n \in Nat : n = Len(vs)
  OBVIOUS
<1>2. \E f : f = [i \in 0 .. n |-> IF i = 0 THEN NewStruct ELSE Pushed(f[i - 1], vs[i])]
  <2>1. PICK f : FilledUpTo(n, NewStruct, NoHandle, vs, f)
    BY FilledExists
  <2>2. f = [i \in 0 .. n |-> IF i = 0 THEN NewStruct ELSE Pushed(f[i - 1], vs[i])]
    BY <2>1 DEF FilledUpTo, PushedOn
  <2> QED
    BY <2>2
<1>3. PICK f : f = Filled(vs)
  OBVIOUS
<1>4. f = [i \in 0 .. n |-> IF i = 0 THEN NewStruct ELSE Pushed(f[i - 1], vs[i])]
  BY <1>1, <1>2, <1>3, Zenon DEF Filled
<1>5. f[0] = NewStruct /\ \A k \in 1 .. n : f[k] = Pushed(f[k - 1], vs[k])
  BY <1>4
<1> QED
  BY <1>1, <1>3, <1>5

(* init_varg of the list makes s[k] of the memory.                         *)
LEMMA ListWithIs ==
  ASSUME NEW d \in Handle, NEW vs, NEW k \in Nat, ListWith(d, vs, k)
  PROVE  \E s : /\ s[0] = L!EmptyList(mem, d)
                /\ \A i \in 1 .. k : s[i] = L!PushedBack(s[i - 1], d, vs[i])
                /\ mem' = s[k]
<1>1. \E s : s = [i \in 0 .. k |-> IF i = 0 THEN L!EmptyList(mem, d)
                                            ELSE L!PushedBack(s[i - 1], d, vs[i])]
  <2>1. PICK s : FilledUpTo(k, L!EmptyList(mem, d), d, vs, s)
    BY FilledExists
  <2>2. d # NoHandle
    BY NoHandleAssumption
  <2>3. s = [i \in 0 .. k |-> IF i = 0 THEN L!EmptyList(mem, d)
                                      ELSE L!PushedBack(s[i - 1], d, vs[i])]
    BY <2>1, <2>2 DEF FilledUpTo, PushedOn
  <2> QED
    BY <2>3
<1>2. PICK s : /\ s = [i \in 0 .. k |-> IF i = 0 THEN L!EmptyList(mem, d)
                                               ELSE L!PushedBack(s[i - 1], d, vs[i])]
               /\ mem' = s[k]
  BY <1>1, Zenon DEF ListWith
<1>3. s[0] = L!EmptyList(mem, d) /\ \A i \in 1 .. k : s[i] = L!PushedBack(s[i - 1], d, vs[i])
  BY <1>2
<1> QED
  BY <1>2, <1>3

(* The first items of a sequence.                                          *)
Prefix(s, k) == [j \in 1 .. k |-> s[j]]

LEMMA PrefixIs ==
  ASSUME NEW s \in Seq(Item)
  PROVE  /\ Prefix(s, 0) = <<>> /\ Prefix(s, Len(s)) = s
         /\ \A k \in 0 .. Len(s) : Prefix(s, k) \in Seq(Item) /\ Range(Prefix(s, k)) = {s[i] : i \in 1 .. k}
         /\ \A k \in 1 .. Len(s) : Prefix(s, k) = Append(Prefix(s, k - 1), s[k])
         /\ IsInjective(s) => \A k \in 0 .. Len(s) : IsInjective(Prefix(s, k))
<1>1. PICK n \in Nat : n = Len(s) /\ \A j \in 1 .. n : s[j] \in Item
  OBVIOUS
<1>2. Prefix(s, 0) = <<>> /\ Prefix(s, n) = s
  BY <1>1 DEF Prefix
<1>3. \A k \in 0 .. n : Prefix(s, k) \in Seq(Item) /\ Range(Prefix(s, k)) = {s[i] : i \in 1 .. k}
  BY <1>1 DEF Prefix, Range
<1>4. ASSUME NEW k \in 1 .. n PROVE Prefix(s, k) = Append(Prefix(s, k - 1), s[k])
  <2>1. PICK m \in 0 .. n : m = k - 1 /\ m + 1 = k
    BY <1>1
  <2>2. PICK t \in Seq(Item) : t = Prefix(s, m)
    BY <1>3
  <2>3. Len(t) = m /\ \A j \in 1 .. m : t[j] = s[j]
    BY <2>2 DEF Prefix
  <2>4. Append(t, s[k]) = [j \in 1 .. Len(t) + 1 |-> IF j <= Len(t) THEN t[j] ELSE s[k]]
    BY <1>1, AppendItems
  <2>5. Append(t, s[k]) = [j \in 1 .. k |-> IF j <= m THEN t[j] ELSE s[k]]
    BY <2>1, <2>3, <2>4
  <2>6. \A j \in 1 .. k : (IF j <= m THEN t[j] ELSE s[k]) = s[j]
    BY <2>1, <2>3
  <2> QED
    BY <2>1, <2>2, <2>5, <2>6 DEF Prefix
<1>5. ASSUME IsInjective(s), NEW k \in 0 .. n PROVE IsInjective(Prefix(s, k))
  BY <1>1, <1>5 DEF IsInjective, Prefix
<1> QED
  BY <1>1, <1>2, <1>3, <1>4, <1>5

(* The functions of the tables, one by one. *)
LEMMA TableCalls ==
  ASSUME NEW d, NEW i, NEW v
  PROVE  /\ ArrayTable(<<"ctor", d>>) => A!Ctor(d)
         /\ ArrayTable(<<"dtor", d>>) => A!Dtor(d)
         /\ ArrayTable(<<"push_back", d, v>>) => A!Insert(d, arr[d].size, v)
         /\ ArrayTable(<<"push_front", d, v>>) => A!Insert(d, 0, v)
         /\ ArrayTable(<<"insert", d, i, v>>) => A!Insert(d, i, v)
         /\ ArrayTable(<<"pop_back", d>>) => A!Erase(d, arr[d].size - 1)
         /\ ArrayTable(<<"pop_front", d>>) => A!Erase(d, 0)
         /\ ArrayTable(<<"erase", d, i>>) => A!Erase(d, i)
         /\ ArrayTable(<<"set", d, i, v>>) => A!Set(d, i, v)
         /\ ArrayTable(<<"clear", d>>) => A!Clear(d)
  BY DEF ArrayTable

LEMMA RingTableCalls ==
  ASSUME NEW d, NEW i, NEW v
  PROVE  /\ CircularArrayTable(<<"ctor", d>>) => C!Ctor(d)
         /\ CircularArrayTable(<<"dtor", d>>) => C!Dtor(d)
         /\ CircularArrayTable(<<"push_back", d, v>>) => C!PushBack(d, v)
         /\ CircularArrayTable(<<"push_front", d, v>>) => C!PushFront(d, v)
         /\ CircularArrayTable(<<"insert", d, i, v>>) => C!Insert(d, i, v)
         /\ CircularArrayTable(<<"pop_back", d>>) => C!PopBack(d)
         /\ CircularArrayTable(<<"pop_front", d>>) => C!PopFront(d)
         /\ CircularArrayTable(<<"erase", d, i>>) => C!Erase(d, i)
         /\ CircularArrayTable(<<"set", d, i, v>>) => C!Set(d, i, v)
         /\ CircularArrayTable(<<"clear", d>>) => C!Clear(d)
         /\ OwningCircularArrayTable(<<"ctor", d>>) => O!Ctor(d)
         /\ OwningCircularArrayTable(<<"dtor", d>>) => O!Dtor(d)
         /\ OwningCircularArrayTable(<<"push_back", d, v>>) => O!PushBack(d, v)
         /\ OwningCircularArrayTable(<<"pop_front", d>>) => O!PopFront(d)
  BY DEF CircularArrayTable, OwningCircularArrayTable

LEMMA ListTableCalls ==
  ASSUME NEW d, NEW i, NEW v
  PROVE  /\ ListTable(<<"ctor", d>>) => L!Ctor(d)
         /\ ListTable(<<"dtor", d>>) => L!Dtor(d)
         /\ ListTable(<<"push_back", d, v>>) => L!PushBack(d, v)
         /\ ListTable(<<"push_front", d, v>>) => L!PushFront(d, v)
         /\ ListTable(<<"insert", d, i, v>>) => L!Insert(d, i, v)
         /\ ListTable(<<"pop_back", d>>) => L!PopBack(d)
         /\ ListTable(<<"pop_front", d>>) => L!PopFront(d)
         /\ ListTable(<<"erase", d, i>>) => L!Erase(d, i)
         /\ ListTable(<<"set", d, i, v>>) => L!Set(d, i, v)
         /\ ListTable(<<"clear", d>>) => L!Clear(d)
  BY DEF ListTable

LEMMA WithoutEnd ==
  ASSUME NEW s \in Seq(Item), s # <<>>
  PROVE  s = Append(Front(s), s[Len(s)]) /\ s = <<s[1]>> \o Tail(s)
<1>1. Len(s) \in Nat \ {0}
  BY EmptySeq
<1> QED
  BY <1>1 DEF Front

(* Only operations pop. *)
LEMMA OthersTakeNothing ==
  ASSUME NEW f \in {"ctor", "dtor", "ctorv", "swap"}
  PROVE  TableFunction(f) \notin {"pop_back", "pop_front"}
  BY DEF TableFunction

-----------------------------------------------------------------------------
(* The containers, through the modules that prove what they do.  Adapters  *)
(* has instances of the modules of the containers; what such an instance   *)
(* does, the instance of its proofs does.  Arrays first.                   *)
AP == INSTANCE ArrayProofs WITH HasDfree <- TRUE, Blocks <- {}

LEMMA SameArray ==
  ASSUME NEW d, NEW i, NEW v
  PROVE  /\ A!Ctor(d) <=> AP!Ctor(d)
         /\ A!Dtor(d) <=> AP!Dtor(d)
         /\ A!Insert(d, i, v) <=> AP!Insert(d, i, v)
         /\ A!Erase(d, i) <=> AP!Erase(d, i)
         /\ A!Set(d, i, v) <=> AP!Set(d, i, v)
         /\ A!Clear(d) <=> AP!Clear(d)
<1> USE DEF
      A!Update, AP!Update, A!OutOfMemory, AP!OutOfMemory, A!Storable, AP!Storable, A!Dfree,
      AP!Dfree, A!Range, AP!Range, A!IsInjective, AP!IsInjective, A!Read, AP!Read, A!Store,
      AP!Store, A!Memcpy, AP!Memcpy, A!Malloc, AP!Malloc, A!Memmove, AP!Memmove, A!Contents,
      AP!Contents, A!NewArray, AP!NewArray, A!Kept, AP!Kept, A!Handed, AP!Handed
<1>1. A!Ctor(d) <=> AP!Ctor(d)
  BY Zenon DEF
      A!Ctor, AP!Ctor
<1>2. A!Dtor(d) <=> AP!Dtor(d)
  BY Zenon DEF
      A!Dtor, AP!Dtor
<1>3. A!Insert(d, i, v) <=> AP!Insert(d, i, v)
  BY Zenon DEF
      A!Insert, AP!Insert, A!WithRoom, AP!WithRoom, A!ShouldGrow, AP!ShouldGrow, A!WithCapacity,
      AP!WithCapacity, A!Reallocated, AP!Reallocated, A!Inserted, AP!Inserted
<1>4. A!Erase(d, i) <=> AP!Erase(d, i)
  BY Zenon DEF
      A!Erase, AP!Erase, A!Erased, AP!Erased
<1>5. A!Set(d, i, v) <=> AP!Set(d, i, v)
  BY Zenon DEF
      A!Set, AP!Set
<1>6. A!Clear(d) <=> AP!Clear(d)
  BY Zenon DEF
      A!Clear, AP!Clear
<1> QED
  BY <1>1, <1>2, <1>3, <1>4, <1>5, <1>6

LEMMA ArrayLines ==
  ASSUME client.table = "array", client' = client
  PROVE  Lines = AP!Value /\ Lines' = AP!Value'
<1>1. \A d : Contents(d) = A!Contents(arr[d]) /\ Contents(d)' = A!Contents(arr'[d])
  BY DEF Contents
<1>2. \A r : A!Contents(r) = AP!Contents(r)
  BY Zenon DEF A!Contents, AP!Contents, A!Read, AP!Read
<1>3. \A d : Contents(d) = AP!Contents(arr[d]) /\ Contents(d)' = AP!Contents(arr'[d])
  BY <1>1, <1>2, Zenon
<1> QED
  BY <1>3, Zenon DEF Lines, AP!Value

LEMMA ArrayPromise ==
  ASSUME Lines = AP!Value, Lines' = AP!Value', NEW c
  PROVE  AP!Promise!Answers(c) => Table!Answers(c)
  BY Zenon DEF AP!Value,
    Table!OutOfMemory, AP!Promise!OutOfMemory, Table!Becomes, AP!Promise!Becomes,
    Table!Ctor, AP!Promise!Ctor,
    Table!Dtor, AP!Promise!Dtor, Table!PushBack, AP!Promise!PushBack, Table!PushFront,
    AP!Promise!PushFront, Table!Insert, AP!Promise!Insert, Table!PopBack, AP!Promise!PopBack,
    Table!PopFront, AP!Promise!PopFront, Table!Erase, AP!Promise!Erase, Table!Set,
    AP!Promise!Set, Table!Clear, AP!Promise!Clear, Table!AppendAll, AP!Promise!AppendAll,
    Table!AppendMove, AP!Promise!AppendMove, Table!Swap, AP!Promise!Swap, Table!Reserve,
    AP!Promise!Reserve, Table!Answers, AP!Promise!Answers

(* The items the client handed over are in the containers, each in one and *)
(* once, and nothing else was freed.                                       *)
Owns == ~fault /\ AP!Owned(exists, Lines, live)

LEMMA ArrayAssumptions ==
  /\ Junk \notin Item /\ TRUE \in BOOLEAN
  /\ MinCapacity \in Nat \ {0} /\ MaxCapacity \in Nat /\ MaxCapacity >= MinCapacity
  BY ItemsAssumption, CapacityAssumption

LEMMA ArrayOwns ==
  ASSUME client.table = "array", client' = client
  PROVE  (Owns <=> AP!Owns) /\ (Owns' <=> AP!Owns')
<1>1. Lines = AP!Value /\ Lines' = AP!Value'
  BY ArrayLines
<1> QED
  BY <1>1, Zenon DEF Owns, AP!Owns

LEMMA ArrayStep ==
  ASSUME client.table = "array", client' = client, AP!Inv, Owns, AP!Next
  PROVE  AP!Inv' /\ Owns' /\ Table!Answers(call')
<1>1. AP!Inv' /\ AP!Promise!Answers(call')
  BY ArrayAssumptions, AP!NextStep
<1>2. AP!Owns'
  BY ArrayAssumptions, ArrayOwns, AP!NextOwns
<1> QED
  BY <1>1, <1>2, ArrayOwns, ArrayLines, ArrayPromise

LEMMA ArraySizes ==
  ASSUME client.table = "array", client' = client, AP!Inv, NEW d \in Handle
  PROVE  Lines[d] \in Seq(Item) /\ Len(Lines[d]) = arr[d].size /\ exists \subseteq Handle
BY ArrayLines, ArrayAssumptions, AP!ValueType DEF AP!Inv

LEMMA ArrayCalls ==
  ASSUME client.table = "array", client' = client, AP!Inv, Owns,
         NEW d \in Handle, NEW i, NEW v
  PROVE  /\ A!Ctor(d) => AP!Inv' /\ Owns' /\ Table!Ctor(d)
         /\ A!Dtor(d) => AP!Inv' /\ Owns' /\ Table!Dtor(d)
         /\ v \in Item /\ A!Insert(d, i, v) => AP!Inv' /\ Owns' /\ Table!Insert(d, i, v)
         /\ A!Erase(d, i) => AP!Inv' /\ Owns' /\ Table!Erase(d, i)
         /\ v \in Item /\ A!Set(d, i, v) => AP!Inv' /\ Owns' /\ Table!Set(d, i, v)
         /\ A!Clear(d) => AP!Inv' /\ Owns' /\ Table!Clear(d)
<1>1. A!Ctor(d) => AP!Next /\ call' = <<"ctor", d>>
  BY SameArray DEF AP!Next, A!Ctor
<1>2. A!Dtor(d) => AP!Next /\ call' = <<"dtor", d>>
  BY SameArray DEF AP!Next, A!Dtor
<1>3. v \in Item /\ A!Insert(d, i, v) => AP!Next /\ call' = <<"insert", d, i, v>>
  BY SameArray DEF AP!Next, A!Insert, AP!Insert
<1>4. A!Erase(d, i) => AP!Next /\ call' = <<"erase", d, i>>
  BY SameArray DEF AP!Next, A!Erase, AP!Erase
<1>5. v \in Item /\ A!Set(d, i, v) => AP!Next /\ call' = <<"set", d, i, v>>
  BY SameArray DEF AP!Next, A!Set, AP!Set
<1>6. A!Clear(d) => AP!Next /\ call' = <<"clear", d>>
  BY SameArray DEF AP!Next, A!Clear
<1> QED
  BY ArrayStep, TableAnswers, <1>1, <1>2, <1>3, <1>4, <1>5, <1>6

(* What a call does to the ownership when it changes one sequence and      *)
(* gives dfree what leaves it.                                             *)
LEMMA OwnedDistinct ==
  ASSUME Owns, NEW d \in exists
  PROVE  IsInjective(Lines[d]) /\ Range(Lines[d]) \subseteq live
BY DEF Owns, AP!Owned, AP!Range, AP!IsInjective, Range, IsInjective

LEMMA OwnsAfter ==
  ASSUME Owns, exists \subseteq Handle, NEW d \in Handle, Lines[d] \in Seq(Item), NEW v
  PROVE  /\ Table!Ctor(d) /\ live' = live /\ ~fault' => Owns'
         /\ Table!Dtor(d) /\ live' = live \ Range(Lines[d]) /\ ~fault' => Owns'
         /\ v \in Item /\ Table!PushBack(d, v) /\ ret' = "OK" /\ v \notin live /\ live' = live \cup {v} /\ ~fault'
              => Owns'
         /\ Table!PopFront(d) /\ live' = live \ {Lines[d][1]} /\ ~fault' => Owns'
<1>1. /\ Lines = [e \in Handle |-> Lines[e]] /\ AP!Owned(exists, Lines, live) /\ ~fault
      /\ \A f : AP!Range(f) = Range(f) /\ AP!IsInjective(f) = IsInjective(f)
  BY DEF Lines, Owns, AP!Range, AP!IsInjective, Range, IsInjective
<1>2. ASSUME d \in exists PROVE IsInjective(Lines[d]) /\ Range(Lines[d]) \subseteq live
  BY <1>2, OwnedDistinct
<1>3. ASSUME Table!Ctor(d), live' = live, ~fault' PROVE Owns'
  <2>1. CASE exists' = exists /\ Lines' = Lines
    BY <1>1, <1>3, <2>1, Zenon DEF Owns
  <2>2. CASE exists' = exists \cup {d} /\ Lines' = [Lines EXCEPT ![d] = <<>>]
    <3>1. AP!Owned(exists \cup {d}, [Lines EXCEPT ![d] = <<>>], live)
      BY <1>1, <1>3, ArrayAssumptions, AP!OwnedHandle DEF Table!Ctor
    <3> QED
      BY <1>3, <2>2, <3>1, Zenon DEF Owns
  <2> QED
    BY <1>3, <2>1, <2>2, Zenon DEF Table!Ctor, Table!OutOfMemory
<1>4. ASSUME Table!Dtor(d), live' = live \ Range(Lines[d]), ~fault' PROVE Owns'
  <2>1. AP!Owned(exists \ {d}, [Lines EXCEPT ![d] = <<>>], live \ Range(Lines[d]))
    BY <1>1, <1>4, ArrayAssumptions, AP!OwnedHandle DEF Table!Dtor
  <2> QED
    BY <1>4, <2>1, Zenon DEF Owns, Table!Dtor
<1>5. ASSUME v \in Item, Table!PushBack(d, v), ret' = "OK", v \notin live, live' = live \cup {v}, ~fault'
      PROVE  Owns'
  <2>1. PICK s \in Seq(Item) : s = Lines[d]
    OBVIOUS
  <2>2. PICK n \in Nat : n = Len(s) /\ n \in 0 .. Len(s)
    OBVIOUS
  <2>3. PICK t : t = Append(s, v)
    OBVIOUS
  <2>4. t = InsertAt(s, n + 1, v)
    BY <1>5, <2>2, <2>3, EndsOfSequence
  <2>5. AP!InsertAt(s, n + 1, v) = InsertAt(s, n + 1, v)
    BY DEF AP!InsertAt, InsertAt
  <2>6. IsInjective(s) /\ Range(s) \subseteq live /\ d \in exists
    BY <1>2, <1>5, <2>1 DEF Table!PushBack
  <2>7. Range(t) = Range(s) \cup {v} /\ IsInjective(t)
    BY <1>1, <1>5, <2>2, <2>4, <2>5, <2>6, ArrayAssumptions, AP!InsertAtRange
  <2>8. AP!Owned(exists, [Lines EXCEPT ![d] = t], (live \ Range(s)) \cup Range(t))
    <3>1. Range(t) \cap (live \ Range(s)) = {}
      BY <1>5, <2>7
    <3> QED
      BY <1>1, <2>1, <2>6, <2>7, <3>1, ArrayAssumptions, AP!OwnedChange
  <2>9. (live \ Range(s)) \cup Range(t) = live'
    BY <1>5, <2>6, <2>7
  <2> QED
    BY <1>5, <2>1, <2>3, <2>8, <2>9 DEF Owns, Table!PushBack, Table!Becomes, Table!OutOfMemory
<1>6. ASSUME Table!PopFront(d), live' = live \ {Lines[d][1]}, ~fault' PROVE Owns'
  <2>1. PICK s \in Seq(Item) : s = Lines[d] /\ s # <<>>
    BY <1>6 DEF Table!PopFront
  <2>2. PICK i \in 0 .. Len(s) - 1 : i = 0 /\ i + 1 = 1
    BY <2>1, EmptySeq
  <2>3. PICK t : t = Tail(s)
    OBVIOUS
  <2>4. t = RemoveAt(s, i + 1)
    <3>1. s[1] \in Item
      BY <2>1, <2>2
    <3> QED
      BY <2>1, <2>2, <2>3, <3>1, EndsOfSequence
  <2>5. AP!RemoveAt(s, i + 1) = RemoveAt(s, i + 1)
    BY DEF AP!RemoveAt, RemoveAt
  <2>6. IsInjective(s) /\ Range(s) \subseteq live /\ d \in exists
    BY <1>2, <1>6, <2>1 DEF Table!PopFront
  <2>7. Range(t) = Range(s) \ {s[i + 1]} /\ IsInjective(t) /\ s[i + 1] \in Range(s)
    BY <1>1, <2>4, <2>5, <2>6, ArrayAssumptions, AP!RemoveAtRange
  <2>8. AP!Owned(exists, [Lines EXCEPT ![d] = t], (live \ Range(s)) \cup Range(t))
    <3>1. Range(t) \cap (live \ Range(s)) = {}
      BY <2>7
    <3> QED
      BY <1>1, <2>1, <2>6, <2>7, <3>1, ArrayAssumptions, AP!OwnedChange
  <2>9. (live \ Range(s)) \cup Range(t) = live'
    BY <1>6, <2>1, <2>2, <2>6, <2>7
  <2> QED
    BY <1>6, <2>1, <2>3, <2>8, <2>9 DEF Owns, Table!PopFront, Table!Becomes
<1> QED
  BY <1>3, <1>4, <1>5, <1>6

(* A struct that init_varg may have made of the items of t: when its       *)
(* buffer is one the allocator gives, it is good and holds them.           *)
ArrayStands(r, t) ==
  \E b, s, n :
    /\ n \in Nat
    /\ r = [buffer |-> b, size |-> s, capacity |-> n]
    /\ n <= MaxCapacity => AP!Good(r) /\ AP!Contents(r) = t

LEMMA SamePushed ==
  ASSUME client.table = "array"
  PROVE  /\ NewStruct = AP!NewArray
         /\ \A r, v : Pushed(r, v) =
              AP!Inserted(IF r.size = r.capacity THEN AP!Reallocated(r, 2 * r.capacity) ELSE r, r.size, v)
<1>1. \A r, n : A!Reallocated(r, n) = AP!Reallocated(r, n)
  BY Zenon DEF A!Reallocated, AP!Reallocated, A!Memcpy, AP!Memcpy, A!Malloc, AP!Malloc, A!Read, AP!Read
<1>2. \A r, i, v : A!Inserted(r, i, v) = AP!Inserted(r, i, v)
  BY Zenon DEF A!Inserted, AP!Inserted, A!Memmove, AP!Memmove, A!Memcpy, AP!Memcpy, A!Read, AP!Read,
               A!Store, AP!Store
<1>3. NewStruct = AP!NewArray
  BY DEF NewStruct, A!NewArray, AP!NewArray, A!Malloc, AP!Malloc
<1>4. ASSUME NEW r, NEW v
      PROVE  Pushed(r, v) =
               AP!Inserted(IF r.size = r.capacity THEN AP!Reallocated(r, 2 * r.capacity) ELSE r, r.size, v)
  BY <1>1, <1>2, Zenon DEF Pushed, A!ShouldGrow
<1> QED
  BY <1>3, <1>4

LEMMA ArrayPushed ==
  ASSUME client.table = "array", NEW t \in Seq(Item), NEW v \in Item, NEW r, ArrayStands(r, t)
  PROVE  ArrayStands(Pushed(r, v), Append(t, v))
<1>1. PICK b, s, n : /\ n \in Nat
                     /\ r = [buffer |-> b, size |-> s, capacity |-> n]
                     /\ n <= MaxCapacity => AP!Good(r) /\ AP!Contents(r) = t
  BY DEF ArrayStands
<1>2. r.size = s /\ r.capacity = n /\ r.buffer = b
  BY <1>1
<1>3. PICK m \in Nat : m = IF s = n THEN 2 * n ELSE n
  BY <1>1
<1>4. PICK u : u = IF s = n THEN AP!Reallocated(r, 2 * n) ELSE r
  OBVIOUS
<1>5. PICK c : u = [buffer |-> c, size |-> s, capacity |-> m]
  BY <1>1, <1>3, <1>4, AP!RecordExcept DEF AP!Reallocated
<1>6. PICK w : w = AP!Inserted(u, s, v)
  OBVIOUS
<1>7. PICK c2, s2 : w = [buffer |-> c2, size |-> s2, capacity |-> m]
  BY <1>5, <1>6, AP!RecordExcept DEF AP!Inserted
<1>8. Pushed(r, v) = w
  BY <1>2, <1>4, <1>6, SamePushed
<1>9. ASSUME m <= MaxCapacity PROVE AP!Good(w) /\ AP!Contents(w) = Append(t, v)
  <2>1. MinCapacity \in Nat \ {0} /\ MaxCapacity \in Nat
    BY ArrayAssumptions
  <2>2. n <= MaxCapacity
    <3>1. m = 2 * n \/ m = n
      BY <1>3
    <3>2. n \in Nat /\ n <= 2 * n
      BY <1>1
    <3> QED
      BY <1>9, <2>1, <3>1, <3>2
  <2>3. AP!Good(r) /\ AP!Contents(r) = t
    BY <1>1, <2>2
  <2>4. PICK n2, s3, b2 : AP!Parts(r, n2, s3, b2)
    BY <2>3, ArrayAssumptions, AP!GoodParts
  <2>5. n >= MinCapacity /\ s \in Nat /\ s <= n
    BY <1>2, <2>4 DEF AP!Parts
  <2>6. Len(t) = s
    BY <1>2, <2>3, ArrayAssumptions, AP!GoodContents
  <2>7. AP!Good(u) /\ AP!Contents(u) = t
    <3>1. CASE s = n
      <4>1. 2 * n \in Nat /\ 2 * n >= s /\ 2 * n >= MinCapacity /\ 2 * n <= MaxCapacity
        BY <1>3, <1>9, <2>1, <2>5, <3>1
      <4>2. AP!Good(AP!Reallocated(r, 2 * n)) /\ AP!Contents(AP!Reallocated(r, 2 * n)) = AP!Contents(r)
        BY <1>2, <2>3, <4>1, ArrayAssumptions, AP!ReallocatedGood
      <4> QED
        BY <1>4, <2>3, <3>1, <4>2
    <3>2. CASE s # n
      BY <1>4, <2>3, <3>2
    <3> QED
      BY <3>1, <3>2
  <2>8. u.size = s /\ u.capacity = m /\ s < m /\ s \in 0 .. s
    BY <1>3, <1>5, <2>1, <2>5
  <2>9. AP!Good(w) /\ AP!Contents(w) = AP!InsertAt(t, s + 1, v)
    BY <1>6, <2>7, <2>8, ArrayAssumptions, AP!InsertedGood
  <2>10. AP!InsertAt(t, s + 1, v) = InsertAt(t, s + 1, v)
    BY DEF AP!InsertAt, InsertAt
  <2>11. InsertAt(t, s + 1, v) = Append(t, v)
    BY <2>6, EndsOfSequence
  <2> QED
    BY <2>9, <2>10, <2>11
<1> QED
  BY <1>7, <1>8, <1>9 DEF ArrayStands

LEMMA ArrayNew ==
  ASSUME client.table = "array"
  PROVE  ArrayStands(NewStruct, <<>>)
<1>1. AP!Good(AP!NewArray) /\ AP!Contents(AP!NewArray) = <<>>
  BY ArrayAssumptions, AP!NewArrayGood
<1>2. \E b, s, n : n \in Nat /\ AP!NewArray = [buffer |-> b, size |-> s, capacity |-> n]
  BY ArrayAssumptions DEF AP!NewArray
<1> QED
  BY <1>1, <1>2, SamePushed DEF ArrayStands

(* A container comes with what it holds.                                   *)
LEMMA OwnsMade ==
  ASSUME Owns, exists \subseteq Handle, NEW d \in Handle, d \notin exists, NEW t,
         IsInjective(t), Range(t) \cap live = {},
         exists' = exists \cup {d}, Lines' = [Lines EXCEPT ![d] = t], live' = live \cup Range(t), ~fault'
  PROVE  Owns'
<1>1. /\ Lines = [e \in Handle |-> Lines[e]] /\ AP!Owned(exists, Lines, live)
      /\ \A f : AP!Range(f) = Range(f) /\ AP!IsInjective(f) = IsInjective(f)
  BY DEF Lines, Owns, AP!Range, AP!IsInjective, Range, IsInjective
<1>2. PICK V : V = [Lines EXCEPT ![d] = <<>>]
  OBVIOUS
<1>3. AP!Owned(exists \cup {d}, V, live)
  BY <1>1, <1>2, ArrayAssumptions, AP!OwnedHandle
<1>4. /\ V = [e \in Handle |-> V[e]] /\ V[d] = <<>> /\ [V EXCEPT ![d] = t] = [Lines EXCEPT ![d] = t]
      /\ exists \cup {d} \subseteq Handle
  <2> HIDE DEF Lines
  <2> QED
    BY <1>1, <1>2
<1>5. Range(V[d]) = {}
  BY <1>4 DEF Range
<1>6. AP!Owned(exists \cup {d}, [V EXCEPT ![d] = t], (live \ Range(V[d])) \cup Range(t))
  BY <1>1, <1>3, <1>4, <1>5, ArrayAssumptions, AP!OwnedChange
<1>7. (live \ Range(V[d])) \cup Range(t) = live \cup Range(t)
  BY <1>5
<1> QED
  BY <1>4, <1>6, <1>7, Zenon DEF Owns

-----------------------------------------------------------------------------
(* Rings.  What is at stake here is the sequence, so one instance serves   *)
(* the rings with a dfree and those without: it leaves ownership aside.    *)
CP == INSTANCE CircularArrayProofs WITH HasDfree <- FALSE, live <- {}, fault <- FALSE

LEMMA SameMoves ==
  ASSUME NEW r, NEW p
  PROVE  C!HeadMovedDown(r, p) = CP!HeadMovedDown(r, p) /\ C!TailMovedUp(r, p) = CP!TailMovedUp(r, p)
<1>1. \A b, i, j, n : /\ C!Memmove(b, i, j, n) = CP!Memmove(b, i, j, n)
                     /\ C!Store(b, i, j) = CP!Store(b, i, j)
                     /\ C!Read(b, i) = CP!Read(b, i)
  BY Zenon DEF C!Memmove, CP!Memmove, C!Memcpy, CP!Memcpy, C!Store, CP!Store, C!Read, CP!Read
<1> QED
  BY <1>1 DEF C!HeadMovedDown, CP!HeadMovedDown, C!TailMovedUp, CP!TailMovedUp

LEMMA SameRing ==
  ASSUME NEW d, NEW i, NEW v
  PROVE  /\ C!Ctor(d) => CP!Ctor(d)
         /\ C!Dtor(d) => CP!Dtor(d)
         /\ C!PushBack(d, v) => CP!PushBack(d, v)
         /\ C!PushFront(d, v) => CP!PushFront(d, v)
         /\ C!InsertMiddle(d, i, v) => CP!InsertMiddle(d, i, v)
         /\ C!PopBack(d) => CP!PopBack(d)
         /\ C!PopFront(d) => CP!PopFront(d)
         /\ C!EraseMiddle(d, i) => CP!EraseMiddle(d, i)
         /\ C!Set(d, i, v) => CP!Set(d, i, v)
         /\ C!Clear(d) => CP!Clear(d)
<1> USE DEF
      C!Update, CP!Update, C!OutOfMemory, CP!OutOfMemory, C!Storable, CP!Storable, C!Dfree,
      CP!Dfree, C!Range, CP!Range, C!IsInjective, CP!IsInjective, C!Read, CP!Read, C!Store,
      CP!Store, C!Memcpy, CP!Memcpy, C!Malloc, CP!Malloc, C!Memmove, CP!Memmove, C!Contents,
      CP!Contents, C!RealIndex, CP!RealIndex, C!NewArray, CP!NewArray, C!Handed, CP!Handed
<1>1. C!Ctor(d) => CP!Ctor(d)
  BY Zenon DEF
      C!Ctor, CP!Ctor
<1>2. C!Dtor(d) => CP!Dtor(d)
  BY Zenon DEF
      C!Dtor, CP!Dtor
<1>3. C!PushBack(d, v) => CP!PushBack(d, v)
  BY Zenon DEF
      C!PushBack, CP!PushBack, C!WithRoom, CP!WithRoom, C!ShouldGrow, CP!ShouldGrow,
      C!Reallocated, CP!Reallocated, C!AddedBack, CP!AddedBack
<1>4. C!PushFront(d, v) => CP!PushFront(d, v)
  BY Zenon DEF
      C!PushFront, CP!PushFront, C!WithRoom, CP!WithRoom, C!ShouldGrow, CP!ShouldGrow,
      C!Reallocated, CP!Reallocated, C!AddedFront, CP!AddedFront
<1>5. C!InsertMiddle(d, i, v) => CP!InsertMiddle(d, i, v)
  <2>1. \A r : C!Inserted(r, i, v) = CP!Inserted(r, i, v)
    BY SameMoves, Zenon DEF C!Inserted, CP!Inserted
  <2>2. C!WithRoom(arr[d]) = CP!WithRoom(arr[d]) /\ (C!ShouldGrow(arr[d]) <=> CP!ShouldGrow(arr[d]))
    BY Zenon DEF C!WithRoom, CP!WithRoom, C!ShouldGrow, CP!ShouldGrow, C!Reallocated, CP!Reallocated
  <2> QED
    BY <2>1, <2>2, Zenon DEF C!InsertMiddle, CP!InsertMiddle
<1>6. C!PopBack(d) => CP!PopBack(d)
  BY Zenon DEF
      C!PopBack, CP!PopBack, C!WithoutBack, CP!WithoutBack
<1>7. C!PopFront(d) => CP!PopFront(d)
  BY Zenon DEF
      C!PopFront, CP!PopFront, C!WithoutFront, CP!WithoutFront
<1>8. C!EraseMiddle(d, i) => CP!EraseMiddle(d, i)
  BY Zenon DEF
      C!EraseMiddle, CP!EraseMiddle, C!Erased, CP!Erased, C!Get, CP!Get, C!HeadMovedUp,
      CP!HeadMovedUp, C!TailMovedDown, CP!TailMovedDown
<1>9. C!Set(d, i, v) => CP!Set(d, i, v)
  BY Zenon DEF
      C!Set, CP!Set, C!Get, CP!Get
<1>10. C!Clear(d) => CP!Clear(d)
  BY Zenon DEF
      C!Clear, CP!Clear
<1> QED
  BY <1>1, <1>2, <1>3, <1>4, <1>5, <1>6, <1>7, <1>8, <1>9, <1>10

LEMMA SameOwningRing ==
  ASSUME NEW d, NEW i, NEW v
  PROVE  /\ O!Ctor(d) => CP!Ctor(d)
         /\ O!Dtor(d) => CP!Dtor(d)
         /\ O!PushBack(d, v) => CP!PushBack(d, v)
         /\ O!PopFront(d) => CP!PopFront(d)
<1> USE DEF
      O!Update, CP!Update, O!OutOfMemory, CP!OutOfMemory, O!Storable, CP!Storable, O!Dfree,
      CP!Dfree, O!Range, CP!Range, O!IsInjective, CP!IsInjective, O!Read, CP!Read, O!Store,
      CP!Store, O!Memcpy, CP!Memcpy, O!Malloc, CP!Malloc, O!Memmove, CP!Memmove, O!Contents,
      CP!Contents, O!RealIndex, CP!RealIndex, O!NewArray, CP!NewArray, O!Handed, CP!Handed
<1>1. O!Ctor(d) => CP!Ctor(d)
  BY Zenon DEF
      O!Ctor, CP!Ctor
<1>2. O!Dtor(d) => CP!Dtor(d)
  BY Zenon DEF
      O!Dtor, CP!Dtor
<1>3. O!PushBack(d, v) => CP!PushBack(d, v)
  BY Zenon DEF
      O!PushBack, CP!PushBack, O!WithRoom, CP!WithRoom, O!ShouldGrow, CP!ShouldGrow,
      O!Reallocated, CP!Reallocated, O!AddedBack, CP!AddedBack
<1>4. O!PopFront(d) => CP!PopFront(d)
  BY Zenon DEF
      O!PopFront, CP!PopFront, O!WithoutFront, CP!WithoutFront
<1> QED
  BY <1>1, <1>2, <1>3, <1>4

LEMMA RingLines ==
  ASSUME client.table = "circular_array", client' = client
  PROVE  Lines = CP!Value /\ Lines' = CP!Value'
<1>1. \A d : Contents(d) = C!Contents(arr[d]) /\ Contents(d)' = C!Contents(arr'[d])
  BY DEF Contents
<1>2. \A r : C!Contents(r) = CP!Contents(r)
  BY Zenon DEF C!Contents, CP!Contents, C!Read, CP!Read, C!RealIndex, CP!RealIndex
<1> QED
  BY <1>1, <1>2, Zenon DEF Lines, CP!Value

LEMMA RingPromise ==
  ASSUME Lines = CP!Value, Lines' = CP!Value', NEW c
  PROVE  CP!Promise!Answers(c) => Table!Answers(c)
  BY Zenon DEF CP!Value,
    Table!OutOfMemory, CP!Promise!OutOfMemory, Table!Becomes, CP!Promise!Becomes,
    Table!Ctor, CP!Promise!Ctor,
    Table!Dtor, CP!Promise!Dtor, Table!PushBack, CP!Promise!PushBack, Table!PushFront,
    CP!Promise!PushFront, Table!Insert, CP!Promise!Insert, Table!PopBack, CP!Promise!PopBack,
    Table!PopFront, CP!Promise!PopFront, Table!Erase, CP!Promise!Erase, Table!Set,
    CP!Promise!Set, Table!Clear, CP!Promise!Clear, Table!AppendAll, CP!Promise!AppendAll,
    Table!AppendMove, CP!Promise!AppendMove, Table!Swap, CP!Promise!Swap, Table!Reserve,
    CP!Promise!Reserve, Table!Answers, CP!Promise!Answers

Rings == CP!Inv /\ CP!Items

LEMMA RingAssumptions ==
  /\ Junk \notin Item /\ FALSE \in BOOLEAN
  /\ MinCapacity \in Nat /\ MinCapacity >= 2 /\ MaxCapacity \in Nat /\ MaxCapacity >= MinCapacity
  BY ItemsAssumption, CapacityAssumption

LEMMA LinesTyped ==
  ASSUME client.table = "circular_array", client' = client, Rings, NEW d \in Handle
  PROVE  /\ exists \subseteq Handle
         /\ Lines[d] \in Seq(Item) /\ Lines[d] = CP!Contents(arr[d])
         /\ CP!Ring(arr[d]) /\ arr[d].size \in Nat /\ Len(Lines[d]) = arr[d].size
BY RingLines, RingAssumptions, CP!ValueType DEF Rings, CP!Inv

LEMMA RingStep ==
  ASSUME client.table = "circular_array", client' = client, Rings, CP!Next
  PROVE  Rings' /\ Table!Answers(call')
BY RingLines, RingPromise, RingAssumptions, CP!NextInv, CP!NextStep DEF Rings

LEMMA RingCalls ==
  ASSUME client.table = "circular_array", client' = client, Rings,
         NEW d \in Handle, NEW i, NEW v
  PROVE  /\ C!Ctor(d) => Rings' /\ Table!Ctor(d)
         /\ C!Dtor(d) => Rings' /\ Table!Dtor(d)
         /\ v \in Item /\ C!PushBack(d, v) => Rings' /\ Table!PushBack(d, v)
         /\ v \in Item /\ C!PushFront(d, v) => Rings' /\ Table!PushFront(d, v)
         /\ v \in Item /\ C!InsertMiddle(d, i, v) => Rings' /\ Table!Insert(d, i, v)
         /\ C!PopBack(d) => Rings' /\ Table!PopBack(d)
         /\ C!PopFront(d) => Rings' /\ Table!PopFront(d)
         /\ C!EraseMiddle(d, i) => Rings' /\ Table!Erase(d, i)
         /\ v \in Item /\ C!Set(d, i, v) => Rings' /\ Table!Set(d, i, v)
         /\ C!Clear(d) => Rings' /\ Table!Clear(d)
         /\ O!Ctor(d) => Rings' /\ Table!Ctor(d)
         /\ O!Dtor(d) => Rings' /\ Table!Dtor(d)
         /\ v \in Item /\ O!PushBack(d, v) => Rings' /\ Table!PushBack(d, v)
         /\ O!PopFront(d) => Rings' /\ Table!PopFront(d)
<1>1. C!Ctor(d) => CP!Next /\ call' = <<"ctor", d>>
  BY SameRing DEF CP!Next, C!Ctor
<1>2. C!Dtor(d) => CP!Next /\ call' = <<"dtor", d>>
  BY SameRing DEF CP!Next, C!Dtor
<1>3. v \in Item /\ C!PushBack(d, v) => CP!Next /\ call' = <<"push_back", d, v>>
  BY SameRing DEF CP!Next, C!PushBack
<1>4. v \in Item /\ C!PushFront(d, v) => CP!Next /\ call' = <<"push_front", d, v>>
  BY SameRing DEF CP!Next, C!PushFront
<1>5. ASSUME v \in Item, C!InsertMiddle(d, i, v)
      PROVE  CP!Next /\ call' = <<"insert", d, i, v>>
  <2>1. CP!Insert(d, i, v) /\ i \in 1 .. arr[d].size - 1 /\ call' = <<"insert", d, i, v>>
    BY <1>5, SameRing DEF CP!Insert, C!InsertMiddle
  <2>2. i \in 0 .. arr[d].size
    BY <2>1, LinesTyped
  <2> QED
    BY <1>5, <2>1, <2>2, Zenon DEF CP!Next
<1>6. C!PopBack(d) => CP!Next /\ call' = <<"pop_back", d>>
  BY SameRing DEF CP!Next, C!PopBack
<1>7. C!PopFront(d) => CP!Next /\ call' = <<"pop_front", d>>
  BY SameRing DEF CP!Next, C!PopFront
<1>8. ASSUME C!EraseMiddle(d, i)
      PROVE  CP!Next /\ call' = <<"erase", d, i>>
  <2>1. CP!Erase(d, i) /\ i \in 1 .. arr[d].size - 2 /\ call' = <<"erase", d, i>>
    BY <1>8, SameRing DEF CP!Erase, C!EraseMiddle
  <2>2. i \in 0 .. arr[d].size - 1
    BY <2>1, LinesTyped
  <2> QED
    BY <2>1, <2>2, Zenon DEF CP!Next
<1>9. v \in Item /\ C!Set(d, i, v) => CP!Next /\ call' = <<"set", d, i, v>>
  BY SameRing DEF CP!Next, C!Set, CP!Set
<1>10. C!Clear(d) => CP!Next /\ call' = <<"clear", d>>
  BY SameRing DEF CP!Next, C!Clear
<1>11. O!Ctor(d) => CP!Next /\ call' = <<"ctor", d>>
  BY SameOwningRing DEF CP!Next, O!Ctor
<1>12. O!Dtor(d) => CP!Next /\ call' = <<"dtor", d>>
  BY SameOwningRing DEF CP!Next, O!Dtor
<1>13. v \in Item /\ O!PushBack(d, v) => CP!Next /\ call' = <<"push_back", d, v>>
  BY SameOwningRing DEF CP!Next, O!PushBack
<1>14. O!PopFront(d) => CP!Next /\ call' = <<"pop_front", d>>
  BY SameOwningRing DEF CP!Next, O!PopFront
<1> QED
  BY RingStep, TableAnswers, <1>1, <1>2, <1>3, <1>4, <1>5, <1>6, <1>7, <1>8, <1>9, <1>10, <1>11, <1>12, <1>13, <1>14

LEMMA RingInserts ==
  ASSUME client.table = "circular_array", client' = client, Rings,
         NEW d \in Handle, NEW i \in Int, NEW v \in Item
  PROVE  /\ C!Insert(d, i, v) => Rings' /\ Table!Insert(d, i, v)
         /\ C!Erase(d, i) => Rings' /\ Table!Erase(d, i)
<1>1. PICK n \in Nat : n = arr[d].size /\ n = Len(Lines[d]) /\ Lines[d] \in Seq(Item)
  BY LinesTyped
<1>2. ASSUME C!Insert(d, i, v) PROVE Rings' /\ Table!Insert(d, i, v)
  BY <1>1, <1>2, RingCalls, TableEnds DEF C!Insert
<1>3. ASSUME C!Erase(d, i) PROVE Rings' /\ Table!Erase(d, i)
  <2>1. C!PopFront(d) \/ C!PopBack(d) => Lines[d] # <<>>
    BY RingCalls DEF Table!PopFront, Table!PopBack
  <2>2. i + 1 = n => i = n - 1
    BY <1>1
  <2> QED
    BY <1>1, <1>3, <2>1, <2>2, RingCalls, TableEnds DEF C!Erase
<1> QED
  BY <1>2, <1>3

(* With a dfree, what a queue calls.                                       *)
LEMMA RingOwns ==
  ASSUME client.table = "circular_array", client' = client, Rings, Owns,
         NEW d \in Handle, NEW v
  PROVE  O!Ctor(d) \/ O!Dtor(d) \/ (v \in Item /\ O!PushBack(d, v)) \/ O!PopFront(d) => Owns'
<1> USE DEF O!OutOfMemory, O!Update, O!Handed, O!Storable, O!Dfree
<1>1. ASSUME O!Ctor(d) PROVE Owns'
  <2>1. Table!Ctor(d) /\ live' = live /\ ~fault'
    BY <1>1, RingCalls DEF O!Ctor, Owns
  <2> QED
    BY <2>1, LinesTyped, OwnsAfter
<1>2. ASSUME O!Dtor(d) PROVE Owns'
  <2>1. Table!Dtor(d) /\ d \in exists
    BY <1>2, RingCalls DEF O!Dtor
  <2>2. O!Contents(arr[d]) = Lines[d]
    BY LinesTyped, Zenon DEF O!Contents, CP!Contents, O!Read, CP!Read, O!RealIndex, CP!RealIndex
  <2>3. live' = live \ Range(Lines[d]) /\ ~fault'
    BY <1>2, <2>1, <2>2, OwnedDistinct DEF O!Dtor, O!Range, O!IsInjective, Range, IsInjective, Owns
  <2> QED
    BY <2>1, <2>3, LinesTyped, OwnsAfter
<1>3. ASSUME v \in Item, O!PushBack(d, v) PROVE Owns'
  <2>1. Table!PushBack(d, v)
    BY <1>3, RingCalls
  <2>2. CASE ret' = "OK" /\ v \notin live /\ live' = live \cup {v} /\ ~fault'
    BY <1>3, <2>1, <2>2, LinesTyped, OwnsAfter
  <2>3. CASE ret' = "BAD_ALLOC" /\ live' = live /\ fault' = fault
    <3>1. exists' = exists /\ Lines' = Lines
      BY <2>1, <2>3 DEF Table!PushBack, Table!Becomes, Table!OutOfMemory
    <3> QED
      BY <2>3, <3>1, Zenon DEF Owns
  <2> QED
    BY <1>3, <2>2, <2>3 DEF O!PushBack, Owns
<1>4. ASSUME O!PopFront(d) PROVE Owns'
  <2>1. Table!PopFront(d) /\ d \in exists /\ Lines[d] # <<>> /\ arr[d].size > 0
    BY <1>4, RingCalls DEF O!PopFront, Table!PopFront
  <2>2. PICK x : x = Lines[d][1] /\ x = O!Read(arr[d].buffer, arr[d].head)
    BY <2>1, LinesTyped, RingAssumptions, CP!EndsShown DEF CP!FrontItem, O!Read, CP!Read
  <2>3. x \in live
    <3>1. PICK s \in Seq(Item) : s = Lines[d] /\ Len(s) > 0
      BY <2>1, LinesTyped
    <3>2. 1 \in 1 .. Len(s) /\ DOMAIN s = 1 .. Len(s) /\ Len(s) \in Nat
      BY <3>1, LenProperties
    <3>3. x \in Range(s)
      BY <2>2, <3>1, <3>2 DEF Range
    <3> QED
      BY <2>1, <3>1, <3>3, OwnedDistinct
  <2>4. O!Range(<<x>>) = {x} /\ O!IsInjective(<<x>>)
    BY DEF O!Range, O!IsInjective
  <2>5. live' = live \ {Lines[d][1]} /\ ~fault'
    BY <1>4, <2>2, <2>3, <2>4 DEF O!PopFront, Owns
  <2> QED
    BY <2>1, <2>5, LinesTyped, OwnsAfter
<1> QED
  BY <1>1, <1>2, <1>3, <1>4

(* The same for rings. *)
RingStands(r, t) ==
  \E b, h, l, s, n :
    /\ n \in Nat
    /\ r = [buffer |-> b, head |-> h, tail |-> l, size |-> s, capacity |-> n]
    /\ n <= MaxCapacity => CP!Ring(r) /\ CP!Contents(r) = t

LEMMA SameRingPushed ==
  ASSUME client.table # "array"
  PROVE  /\ NewStruct = CP!NewArray
         /\ \A r, v : Pushed(r, v) =
              CP!AddedBack(IF r.size = r.capacity - 1 THEN CP!Reallocated(r, 2 * r.capacity) ELSE r, v)
<1>1. \A r, n : C!Reallocated(r, n) = CP!Reallocated(r, n)
  BY Zenon DEF C!Reallocated, CP!Reallocated, C!Memcpy, CP!Memcpy, C!Malloc, CP!Malloc, C!Read, CP!Read
<1>2. \A r, v : C!AddedBack(r, v) = CP!AddedBack(r, v)
  BY Zenon DEF C!AddedBack, CP!AddedBack, C!Store, CP!Store
<1>3. NewStruct = CP!NewArray
  BY DEF NewStruct, C!NewArray, CP!NewArray, C!Malloc, CP!Malloc
<1>4. ASSUME NEW r, NEW v
      PROVE  Pushed(r, v) =
               CP!AddedBack(IF r.size = r.capacity - 1 THEN CP!Reallocated(r, 2 * r.capacity) ELSE r, v)
  BY <1>1, <1>2, Zenon DEF Pushed, C!ShouldGrow
<1> QED
  BY <1>3, <1>4

LEMMA RingPushed ==
  ASSUME client.table # "array", NEW t \in Seq(Item), NEW v \in Item, NEW r, RingStands(r, t)
  PROVE  RingStands(Pushed(r, v), Append(t, v))
<1>1. PICK b, h, l, s, n :
        /\ n \in Nat
        /\ r = [buffer |-> b, head |-> h, tail |-> l, size |-> s, capacity |-> n]
        /\ n <= MaxCapacity => CP!Ring(r) /\ CP!Contents(r) = t
  BY DEF RingStands
<1>2. r.size = s /\ r.capacity = n
  BY <1>1
<1>3. PICK m \in Nat : m = (IF s = n - 1 THEN 2 * n ELSE n) /\ (m = 2 * n \/ m = n)
  BY <1>1
<1>4. PICK u : u = IF s = n - 1 THEN CP!Reallocated(r, 2 * n) ELSE r
  OBVIOUS
<1>5. PICK b2, h2, l2 : u = [buffer |-> b2, head |-> h2, tail |-> l2, size |-> s, capacity |-> m]
  <2>1. CASE s = n - 1
    BY <1>2, <1>3, <1>4, <2>1 DEF CP!Reallocated
  <2>2. CASE s # n - 1
    BY <1>1, <1>3, <1>4, <2>2
  <2> QED
    BY <2>1, <2>2
<1>6. PICK w : w = CP!AddedBack(u, v)
  OBVIOUS
<1>7. PICK b3, h3, l3, s3 : w = [buffer |-> b3, head |-> h3, tail |-> l3, size |-> s3, capacity |-> m]
  <2>1. PICK x, y, z : w = [u EXCEPT !.buffer = x, !.tail = y, !.size = z]
    BY <1>6, Zenon DEF CP!AddedBack
  <2> QED
    BY <1>5, <2>1
<1>8. Pushed(r, v) = w
  BY <1>2, <1>4, <1>6, SameRingPushed
<1>9. ASSUME m <= MaxCapacity PROVE CP!Ring(w) /\ CP!Contents(w) = Append(t, v)
  <2>1. n <= MaxCapacity /\ n <= 2 * n
    BY <1>1, <1>3, <1>9, RingAssumptions
  <2>2. CP!Ring(r) /\ CP!Contents(r) = t
    BY <1>1, <2>1
  <2>3. n >= 2 /\ s \in 0 .. n - 1
    BY <1>2, <2>2, RingAssumptions, CP!RingFields
  <2>4. Len(t) = s
    BY <1>2, <2>2, <2>3 DEF CP!Contents
  <2>5. CP!Ring(u) /\ CP!Contents(u) = t
    <3>1. CASE s = n - 1
      <4>1. PICK k \in Nat : k = 2 * n /\ k <= MaxCapacity /\ k >= n
        BY <1>3, <1>9, <2>1, <3>1
      <4> QED
        BY <1>2, <1>4, <2>2, <3>1, <4>1, RingAssumptions, CP!ReallocatedRing, CP!ReallocatedItems
    <3>2. CASE s # n - 1
      BY <1>4, <2>2, <3>2
    <3> QED
      BY <3>1, <3>2
  <2>6. u.size = s /\ u.capacity = m /\ s < m - 1 /\ s \in 0 .. s
    <3>1. u.size = s /\ u.capacity = m
      BY <1>5
    <3>2. CASE s = n - 1
      <4>1. m = 2 * n /\ n \in Nat /\ s \in 0 .. s
        BY <1>1, <1>3, <2>3, <3>2
      <4>2. s < 2 * n - 1
        BY <2>3, <3>2, <4>1
      <4> QED
        BY <3>1, <4>1, <4>2
    <3>3. CASE s # n - 1
      BY <1>3, <2>3, <3>1, <3>3
    <3> QED
      BY <3>2, <3>3
  <2>7. CP!Ring(w) /\ CP!Contents(w) = CP!With(t, s, s, v)
    BY <1>6, <2>5, <2>6, RingAssumptions, CP!AddedBackRing, CP!AddedItems
  <2>8. CP!With(t, s, s, v) = Append(t, v)
    BY <2>4, <2>6, RingAssumptions, CP!WithSeq
  <2> QED
    BY <2>7, <2>8
<1> QED
  BY <1>1, <1>3, <1>7, <1>8, <1>9 DEF RingStands

LEMMA RingNew ==
  ASSUME client.table # "array"
  PROVE  RingStands(NewStruct, <<>>)
<1>1. CP!Ring(CP!NewArray)
  BY RingAssumptions, CP!NewArrayRing
<1>2. CP!NewArray = [buffer |-> CP!Malloc(MinCapacity), head |-> 0, tail |-> 0, size |-> 0,
                     capacity |-> MinCapacity]
  BY DEF CP!NewArray
<1>3. CP!Contents(CP!NewArray) = <<>>
  BY <1>2 DEF CP!Contents
<1> QED
  BY <1>1, <1>2, <1>3, SameRingPushed, RingAssumptions DEF RingStands

-----------------------------------------------------------------------------
(* ctorv. *)
Stands(r, t) == IF client.table = "array" THEN ArrayStands(r, t) ELSE RingStands(r, t)

LEMMA FilledStands ==
  ASSUME NEW vs \in Seq(Item)
  PROVE  \A k \in 0 .. Len(vs) : Stands(Filled(vs)[k], Prefix(vs, k))
<1> DEFINE S == {k \in Nat : k <= Len(vs) => Stands(Filled(vs)[k], Prefix(vs, k))}
<1>1. 0 \in S
  <2>1. Filled(vs)[0] = NewStruct /\ Prefix(vs, 0) = <<>>
    BY FilledIs, PrefixIs
  <2>2. Stands(NewStruct, <<>>)
    BY ArrayNew, RingNew DEF Stands
  <2> QED
    BY <2>1, <2>2
<1>2. ASSUME NEW n \in Nat, n \in S PROVE n + 1 \in S
  <2>1. CASE n + 1 <= Len(vs)
    <3>1. /\ n \in 0 .. Len(vs) /\ n + 1 \in 1 .. Len(vs) /\ n + 1 - 1 = n /\ vs[n + 1] \in Item
          /\ Stands(Filled(vs)[n], Prefix(vs, n))
      BY <1>2, <2>1
    <3>2. PICK r, t, v, r2, t2 : /\ r = Filled(vs)[n] /\ t = Prefix(vs, n) /\ v = vs[n + 1]
                                /\ r2 = Filled(vs)[n + 1] /\ t2 = Prefix(vs, n + 1)
      OBVIOUS
    <3>3. r2 = Pushed(r, v) /\ t2 = Append(t, v) /\ t \in Seq(Item) /\ v \in Item
      BY <3>1, <3>2, FilledIs, PrefixIs
    <3>4. CASE client.table = "array"
      <4>1. ArrayStands(r, t)
        BY <3>1, <3>2, <3>4 DEF Stands
      <4>2. ArrayStands(r2, t2)
        BY <3>3, <3>4, <4>1, ArrayPushed
      <4> QED
        BY <3>2, <3>4, <4>2 DEF Stands
    <3>5. CASE client.table # "array"
      <4>1. RingStands(r, t)
        BY <3>1, <3>2, <3>5 DEF Stands
      <4>2. RingStands(r2, t2)
        BY <3>3, <3>5, <4>1, RingPushed
      <4> QED
        BY <3>2, <3>5, <4>2 DEF Stands
    <3> QED
      BY <3>4, <3>5
  <2>2. CASE ~(n + 1 <= Len(vs))
    BY <2>2
  <2> QED
    BY <2>1, <2>2
<1> HIDE DEF S
<1>3. \A k \in Nat : k \in S
  BY <1>1, <1>2, Induction
<1> QED
  BY <1>3 DEF S

(* A new container d with the first k items of vs.                         *)
Made(d, vs, k) ==
  /\ client' = client
  /\ d \in Handle \ exists /\ exists' = exists \cup {d}
  /\ vs \in Seq(Item) /\ IsInjective(vs) /\ Range(vs) \cap Stored = {}
  /\ k \in 0 .. Len(vs)
  /\ ret' \in {"OK", "BAD_ALLOC"}

LEMMA ArrayMade ==
  ASSUME client.table = "array", AP!Inv, Owns, HasDfree, NEW d, NEW vs, NEW k, Made(d, vs, k),
         ArrayWith(d, vs, k)
  PROVE  AP!Inv' /\ Owns' /\ Lines' = [Lines EXCEPT ![d] = Prefix(vs, k)]
<1>1. /\ client' = client /\ d \in Handle /\ d \notin exists /\ vs \in Seq(Item) /\ k \in 0 .. Len(vs)
      /\ exists' = exists \cup {d} /\ ret' \in {"OK", "BAD_ALLOC"}
  BY DEF Made
<1>2. PICK r, t : r = Filled(vs)[k] /\ t = Prefix(vs, k)
  OBVIOUS
<1>3. AP!Good(r) /\ AP!Contents(r) = t /\ arr' = [arr EXCEPT ![d] = r]
  <2>1. ArrayStands(r, t)
    BY <1>1, <1>2, FilledStands DEF Stands
  <2>2. r.capacity <= MaxCapacity /\ arr' = [arr EXCEPT ![d] = r]
    BY <1>2 DEF ArrayWith
  <2> QED
    BY <2>1, <2>2 DEF ArrayStands
<1>4. /\ arr' = [e \in Handle |-> arr'[e]] /\ \A e \in Handle : AP!Good(arr'[e])
      /\ AP!Value' = [AP!Value EXCEPT ![d] = t]
  BY <1>1, <1>3, ArrayAssumptions, AP!ArrUpdate
<1>5. Lines' = [Lines EXCEPT ![d] = t]
  BY <1>1, <1>4, ArrayLines
<1>6. t \in Seq(Item) /\ Range(t) = {vs[i] : i \in 1 .. k} /\ IsInjective(t)
  BY <1>1, <1>2, PrefixIs DEF Made
<1>7. live' = live \cup Range(t) /\ fault' = fault
  BY <1>6 DEF ArrayWith
<1>8. Range(t) \subseteq Range(vs)
  BY <1>1, <1>6 DEF Range
<1>9. live \subseteq Stored
  <2>1. live = UNION {Range(Lines[e]) : e \in exists} /\ exists \subseteq Handle
    BY DEF Owns, AP!Owned, AP!Range, Range, AP!Inv
  <2> QED
    BY <2>1 DEF Stored, Lines
<1>10. Owns'
  <2>1. Range(t) \cap live = {} /\ exists \subseteq Handle /\ ~fault'
    BY <1>7, <1>8, <1>9 DEF Made, Owns, AP!Inv
  <2> QED
    BY <1>1, <1>5, <1>6, <1>7, <2>1, OwnsMade
<1>11. AP!Inv'
  <2>1. live' \subseteq Item /\ fault' \in BOOLEAN /\ exists' \subseteq Handle
    BY <1>1, <1>6, <1>7 DEF AP!Inv, Range
  <2> QED
    BY <1>1, <1>4, <2>1 DEF AP!Inv
<1> QED
  BY <1>2, <1>5, <1>10, <1>11

LEMMA RingMade ==
  ASSUME client.table = "circular_array", Rings, HasDfree => Owns, NEW d, NEW vs, NEW k,
         Made(d, vs, k), ArrayWith(d, vs, k)
  PROVE  Rings' /\ (HasDfree => Owns') /\ Lines' = [Lines EXCEPT ![d] = Prefix(vs, k)]
<1>1. /\ client' = client /\ d \in Handle /\ d \notin exists /\ vs \in Seq(Item) /\ k \in 0 .. Len(vs)
      /\ exists' = exists \cup {d} /\ ret' \in {"OK", "BAD_ALLOC"}
  BY DEF Made
<1>2. PICK r, t : r = Filled(vs)[k] /\ t = Prefix(vs, k)
  OBVIOUS
<1>3. CP!Ring(r) /\ CP!Contents(r) = t /\ arr' = [arr EXCEPT ![d] = r]
  <2>1. RingStands(r, t)
    BY <1>1, <1>2, FilledStands DEF Stands
  <2>2. r.capacity <= MaxCapacity /\ arr' = [arr EXCEPT ![d] = r]
    BY <1>2 DEF ArrayWith
  <2> QED
    BY <2>1, <2>2 DEF RingStands
<1>4. t \in Seq(Item) /\ Range(t) = {vs[i] : i \in 1 .. k} /\ IsInjective(t)
  BY <1>1, <1>2, PrefixIs DEF Made
<1>5. Rings' /\ CP!Value' = [CP!Value EXCEPT ![d] = t]
  <2>1. /\ exists' \subseteq Handle /\ arr' = [e \in Handle |-> arr'[e]]
        /\ \A e \in Handle : arr'[e] = IF e = d THEN r ELSE arr[e]
    BY <1>1, <1>3 DEF Rings, CP!Inv
  <2>2. \A e \in Handle : CP!Ring(arr'[e]) /\ CP!Contents(arr'[e]) \in Seq(Item)
    BY <1>3, <1>4, <2>1 DEF Rings, CP!Inv, CP!Items
  <2>3. Rings'
    BY <1>1, <2>1, <2>2 DEF Rings, CP!Inv, CP!Items
  <2>4. CP!Value' = [CP!Value EXCEPT ![d] = t]
    BY <1>1, <1>3, <2>1 DEF CP!Value
  <2> QED
    BY <2>3, <2>4
<1>6. Lines' = [Lines EXCEPT ![d] = t]
  BY <1>1, <1>5, RingLines
<1>7. ASSUME HasDfree PROVE Owns'
  <2>1. live' = live \cup Range(t) /\ fault' = fault
    BY <1>4, <1>7 DEF ArrayWith
  <2>2. Range(t) \subseteq Range(vs)
    <3>1. DOMAIN vs = 1 .. Len(vs) /\ Len(vs) \in Nat
      BY <1>1
    <3>2. \A i \in 1 .. k : i \in DOMAIN vs
      BY <1>1, <3>1
    <3> QED
      BY <1>4, <3>2 DEF Range
  <2>3. live \subseteq Stored
    <3>1. live = UNION {Range(Lines[e]) : e \in exists} /\ exists \subseteq Handle
      BY <1>7 DEF Owns, AP!Owned, AP!Range, Range, Rings, CP!Inv
    <3> QED
      BY <3>1 DEF Stored, Lines
  <2>4. Range(t) \cap live = {} /\ exists \subseteq Handle /\ ~fault'
    BY <1>7, <2>1, <2>2, <2>3 DEF Made, Owns, Rings, CP!Inv
  <2> QED
    BY <1>1, <1>4, <1>6, <1>7, <2>1, <2>4, OwnsMade
<1> QED
  BY <1>2, <1>5, <1>6, <1>7

-----------------------------------------------------------------------------
(* Lists. *)
LP == INSTANCE ListProofs WITH Key <- [v \in Item |-> 0], AnyRange <- FALSE

LEMMA SameNodes ==
  ASSUME NEW s, NEW d, NEW i, NEW v
  PROVE  /\ L!Forward(s, d) = LP!Forward(s, d)
         /\ L!Backward(s, d) = LP!Backward(s, d)
         /\ L!GetNode(s, d, i) = LP!GetNode(s, d, i)
         /\ L!PushedBack(s, d, v) = LP!PushedBack(s, d, v)
         /\ L!EmptyList(s, d) = LP!EmptyList(s, d)
         /\ L!ErasedNode(s, d, v) = LP!ErasedNode(s, d, v)
         /\ L!InsertedBefore(s, d, i, v) = LP!InsertedBefore(s, d, i, v)
<1> USE DEF
      L!Linked, LP!Linked, L!SetNext, LP!SetNext, L!SetPrev, LP!SetPrev, L!FreeNode, LP!FreeNode,
      L!PushedBack, LP!PushedBack, L!PushedFront, LP!PushedFront
<1>1. /\ L!Forward(s, d) = LP!Forward(s, d)
      /\ L!Backward(s, d) = LP!Backward(s, d)
  BY Zenon
    DEF L!Forward, LP!Forward, L!Backward, LP!Backward, L!Chain, LP!Chain, L!Follow, LP!Follow,
        L!Cardinality, LP!Cardinality, L!IsFiniteSet, LP!IsFiniteSet
<1>2. L!GetNode(s, d, i) = LP!GetNode(s, d, i)
  BY <1>1 DEF L!GetNode, LP!GetNode
<1>3. L!PushedBack(s, d, v) = LP!PushedBack(s, d, v)
  BY Zenon
<1>4. L!EmptyList(s, d) = LP!EmptyList(s, d)
  BY Zenon DEF L!EmptyList, LP!EmptyList
<1>5. L!ErasedNode(s, d, v) = LP!ErasedNode(s, d, v)
  BY DEF L!ErasedNode, LP!ErasedNode, L!PoppedBack, LP!PoppedBack, L!PoppedFront, LP!PoppedFront
<1>6. L!InsertedBefore(s, d, i, v) = LP!InsertedBefore(s, d, i, v)
  BY DEF L!InsertedBefore, LP!InsertedBefore, L!InsertedMid, LP!InsertedMid
<1> QED
  BY <1>1, <1>2, <1>3, <1>4, <1>5, <1>6

LEMMA SameLists ==
  ASSUME NEW d, NEW i, NEW v
  PROVE  /\ L!Contents = LP!Contents
         /\ L!Storable(v) <=> LP!Storable(v)
         /\ L!Insert(d, i, v) <=> LP!Insert(d, i, v)
         /\ L!Erase(d, i) <=> LP!Erase(d, i)
<1>1. L!Contents = LP!Contents
  BY SameNodes DEF L!Contents, LP!Contents
<1>2. L!Storable(v) <=> LP!Storable(v)
  BY <1>1 DEF L!Storable, LP!Storable, L!Range, LP!Range
<1>3. PICK m, n : /\ m = L!InsertedBefore(mem, d, L!GetNode(mem, d, i), v)
                  /\ m = LP!InsertedBefore(mem, d, LP!GetNode(mem, d, i), v)
                  /\ n = L!ErasedNode(mem, d, L!GetNode(mem, d, i))
                  /\ n = LP!ErasedNode(mem, d, LP!GetNode(mem, d, i))
  BY SameNodes, Zenon
<1>4. L!Insert(d, i, v) <=> LP!Insert(d, i, v)
  BY <1>2, <1>3, Zenon DEF L!Insert, LP!Insert, L!Becomes, LP!Becomes, L!OutOfMemory, LP!OutOfMemory
<1>5. L!Erase(d, i) <=> LP!Erase(d, i)
  BY <1>3, Zenon DEF L!Erase, LP!Erase, L!Becomes, LP!Becomes
<1> QED
  BY <1>1, <1>2, <1>4, <1>5

LEMMA SameList ==
  ASSUME NEW d, NEW i, NEW v
  PROVE  /\ L!Ctor(d) <=> LP!Ctor(d)
         /\ L!Dtor(d) <=> LP!Dtor(d)
         /\ L!PushBack(d, v) <=> LP!PushBack(d, v)
         /\ L!PushFront(d, v) <=> LP!PushFront(d, v)
         /\ L!PopBack(d) <=> LP!PopBack(d)
         /\ L!PopFront(d) <=> LP!PopFront(d)
         /\ L!Set(d, i, v) <=> LP!Set(d, i, v)
         /\ L!Clear(d) <=> LP!Clear(d)
<1> USE DEF
      L!Becomes, LP!Becomes, L!OutOfMemory, LP!OutOfMemory, L!Storable, LP!Storable, L!Range,
      LP!Range, L!Contents, LP!Contents, L!Forward, LP!Forward, L!Backward, LP!Backward, L!Chain,
      LP!Chain, L!Follow, LP!Follow, L!Cardinality, LP!Cardinality, L!IsFiniteSet, LP!IsFiniteSet,
      L!SetNext, LP!SetNext, L!SetPrev, LP!SetPrev, L!Linked, LP!Linked, L!FreeNode, LP!FreeNode,
      L!FreeNodes, LP!FreeNodes, L!EmptyList, LP!EmptyList
<1>1. L!Ctor(d) <=> LP!Ctor(d)
  BY Zenon DEF
      L!Ctor, LP!Ctor
<1>2. L!Dtor(d) <=> LP!Dtor(d)
  BY Zenon DEF
      L!Dtor, LP!Dtor
<1>3. L!PushBack(d, v) <=> LP!PushBack(d, v)
  BY Zenon DEF
      L!PushBack, LP!PushBack, L!PushedBack, LP!PushedBack
<1>4. L!PushFront(d, v) <=> LP!PushFront(d, v)
  BY Zenon DEF
      L!PushFront, LP!PushFront, L!PushedFront, LP!PushedFront
<1>5. L!PopBack(d) <=> LP!PopBack(d)
  BY Zenon DEF
      L!PopBack, LP!PopBack, L!PoppedBack, LP!PoppedBack
<1>6. L!PopFront(d) <=> LP!PopFront(d)
  BY Zenon DEF
      L!PopFront, LP!PopFront, L!PoppedFront, LP!PoppedFront
<1>7. L!Set(d, i, v) <=> LP!Set(d, i, v)
  BY Zenon DEF
      L!Set, LP!Set, L!Renamed, LP!Renamed, L!GetNode, LP!GetNode
<1>8. L!Clear(d) <=> LP!Clear(d)
  BY Zenon DEF
      L!Clear, LP!Clear
<1> QED
  BY <1>1, <1>2, <1>3, <1>4, <1>5, <1>6, <1>7, <1>8

LEMMA ListLines ==
  ASSUME client.table = "list", client' = client
  PROVE  Lines = LP!Contents /\ Lines' = LP!Contents'
<1>1. \A s, d : L!Forward(s, d) = LP!Forward(s, d)
  BY SameNodes
<1> QED
  BY <1>1 DEF Lines, Contents, LP!Contents

LEMMA ListPromise ==
  ASSUME Lines = LP!Contents, Lines' = LP!Contents', NEW c, c[1] \in Functions \cup {"ctor", "dtor"}
  PROVE  LP!Promise!ListAnswers(c) => Table!Answers(c)
<1>1. LP!Promise!ListAnswers(c) => LP!Promise!Answers(c)
  BY DEF LP!Promise!ListAnswers, Functions
<1>2. LP!Promise!Answers(c) => Table!Answers(c)
  BY Zenon DEF
      Table!OutOfMemory, LP!Promise!OutOfMemory, Table!Becomes, LP!Promise!Becomes,
      Table!Ctor,
      LP!Promise!Ctor, Table!Dtor, LP!Promise!Dtor, Table!PushBack, LP!Promise!PushBack,
      Table!PushFront, LP!Promise!PushFront, Table!Insert, LP!Promise!Insert, Table!PopBack,
      LP!Promise!PopBack, Table!PopFront, LP!Promise!PopFront, Table!Erase, LP!Promise!Erase,
      Table!Set, LP!Promise!Set, Table!Clear, LP!Promise!Clear, Table!AppendAll,
      LP!Promise!AppendAll, Table!AppendMove, LP!Promise!AppendMove, Table!Swap,
      LP!Promise!Swap, Table!Reserve, LP!Promise!Reserve, Table!Answers, LP!Promise!Answers
<1> QED
  BY <1>1, <1>2

LEMMA ListAssumptions ==
  /\ LP!IsFiniteSet(Item) /\ NULL \notin Item /\ Junk \notin Item /\ NULL # Junk
  /\ [v \in Item |-> 0] \in [Item -> Nat] /\ FALSE \in BOOLEAN /\ ~FALSE
  BY ItemsAssumption DEF LP!IsFiniteSet, IsFiniteSet

LEMMA ListStep ==
  ASSUME client.table = "list", client' = client, LP!Inv, LP!Next,
         call'[1] \in Functions \cup {"ctor", "dtor"}
  PROVE  LP!Inv' /\ Table!Answers(call')
<1>1. LP!Inv' /\ LP!Promise!ListAnswers(call')
  BY ListAssumptions, LP!NextStep
<1> QED
  BY <1>1, ListLines, ListPromise

LEMMA ListCalls ==
  ASSUME client.table = "list", client' = client, LP!Inv, NEW d \in Handle, NEW i, NEW v
  PROVE  /\ L!Ctor(d) => LP!Inv' /\ Table!Ctor(d)
         /\ L!Dtor(d) => LP!Inv' /\ Table!Dtor(d)
         /\ v \in Item /\ L!PushBack(d, v) => LP!Inv' /\ Table!PushBack(d, v)
         /\ v \in Item /\ L!PushFront(d, v) => LP!Inv' /\ Table!PushFront(d, v)
         /\ v \in Item /\ L!Insert(d, i, v) => LP!Inv' /\ Table!Insert(d, i, v)
         /\ L!PopBack(d) => LP!Inv' /\ Table!PopBack(d)
         /\ L!PopFront(d) => LP!Inv' /\ Table!PopFront(d)
         /\ L!Erase(d, i) => LP!Inv' /\ Table!Erase(d, i)
         /\ v \in Item /\ L!Set(d, i, v) => LP!Inv' /\ Table!Set(d, i, v)
         /\ L!Clear(d) => LP!Inv' /\ Table!Clear(d)
<1>1. L!Ctor(d) => LP!Next /\ call' = <<"ctor", d>> /\ call'[1] = "ctor"
  BY SameList DEF LP!Next, L!Ctor
<1>2. L!Dtor(d) => LP!Next /\ call' = <<"dtor", d>> /\ call'[1] = "dtor"
  BY SameList DEF LP!Next, L!Dtor
<1>3. v \in Item /\ L!PushBack(d, v) => LP!Next /\ call' = <<"push_back", d, v>> /\ call'[1] = "push_back"
  BY SameList DEF LP!Next, L!PushBack
<1>4. v \in Item /\ L!PushFront(d, v) => LP!Next /\ call' = <<"push_front", d, v>> /\ call'[1] = "push_front"
  BY SameList DEF LP!Next, L!PushFront
<1>5. v \in Item /\ L!Insert(d, i, v) => LP!Next /\ call' = <<"insert", d, i, v>> /\ call'[1] = "insert"
  BY SameLists DEF LP!Next, L!Insert, LP!Insert
<1>6. L!PopBack(d) => LP!Next /\ call' = <<"pop_back", d>> /\ call'[1] = "pop_back"
  BY SameList DEF LP!Next, L!PopBack
<1>7. L!PopFront(d) => LP!Next /\ call' = <<"pop_front", d>> /\ call'[1] = "pop_front"
  BY SameList DEF LP!Next, L!PopFront
<1>8. L!Erase(d, i) => LP!Next /\ call' = <<"erase", d, i>> /\ call'[1] = "erase"
  BY SameLists DEF LP!Next, L!Erase, LP!Erase
<1>9. v \in Item /\ L!Set(d, i, v) => LP!Next /\ call' = <<"set", d, i, v>> /\ call'[1] = "set"
  BY SameList DEF LP!Next, L!Set, LP!Set
<1>10. L!Clear(d) => LP!Next /\ call' = <<"clear", d>> /\ call'[1] = "clear"
  BY SameList DEF LP!Next, L!Clear
<1> USE DEF Functions
<1> QED
  BY ListStep, TableAnswers, <1>1, <1>2, <1>3, <1>4, <1>5, <1>6, <1>7, <1>8, <1>9, <1>10
=============================================================================
