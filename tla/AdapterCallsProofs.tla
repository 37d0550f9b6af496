------------------------- MODULE AdapterCallsProofs -------------------------
(***************************************************************************)
(* Proofs about the calls of the adapters: each changes the sequence       *)
(* behind its adapter as the adapter's header says and no other, a pop     *)
(* takes what front, back or top show, and the containers behind the       *)
(* adapters own each stored item once, whichever table an adapter uses.    *)
(* The inductive invariant is the one of the container behind the adapters *)
(* together with the one of their pointers.                                *)
(***************************************************************************)
EXTENDS AdaptersProofs

LEMMA ListMade ==
  ASSUME client.table = "list", LP!Inv, NEW d, NEW vs, NEW k, Made(d, vs, k), ListWith(d, vs, k)
  PROVE  LP!Inv' /\ Lines' = [Lines EXCEPT ![d] = Prefix(vs, k)]
<1>1. /\ client' = client /\ d \in Handle /\ d \notin exists /\ vs \in Seq(Item) /\ k \in 0 .. Len(vs)
      /\ k \in Nat
      /\ exists' = exists \cup {d} /\ ret' \in {"OK", "BAD_ALLOC"}
  BY DEF Made
<1>2. PICK s : /\ s[0] = L!EmptyList(mem, d)
               /\ \A i \in 1 .. k : s[i] = L!PushedBack(s[i - 1], d, vs[i])
               /\ mem' = s[k]
  BY <1>1, ListWithIs, Zenon
<1>3. PICK C0 : C0 = LP!Contents
  OBVIOUS
<1>4. /\ LP!Good(mem, C0) /\ C0[d] = <<>> /\ exists \subseteq Handle /\ C0 \in [Handle -> Seq(Item)]
      /\ \A e \in Handle \ exists : C0[e] = <<>>
  BY <1>1, <1>3, ListAssumptions, LP!InvList DEF LP!Inv
<1> DEFINE Cs(i) == [C0 EXCEPT ![d] = Prefix(vs, i)]
           S == {i \in Nat : i <= k => LP!Good(s[i], Cs(i))}
<1>5. 0 \in S
  <2>1. Cs(0) = C0
    BY <1>1, <1>4, PrefixIs
  <2>2. s[0] = LP!EmptyList(mem, d)
    BY <1>2, SameNodes
  <2>3. LP!Good(LP!EmptyList(mem, d), C0)
    BY <1>1, <1>4, ListAssumptions, LP!CtorGood
  <2> QED
    BY <2>1, <2>2, <2>3
<1>6. ASSUME NEW n \in Nat, n \in S PROVE n + 1 \in S
  <2>1. CASE n + 1 <= k
    <3>1. /\ n \in 0 .. Len(vs) /\ n + 1 \in 1 .. k /\ n + 1 \in 1 .. Len(vs) /\ n + 1 - 1 = n
          /\ vs[n + 1] \in Item /\ LP!Good(s[n], Cs(n))
      BY <1>1, <1>6, <2>1
    <3>2. PICK u, B, v : u = s[n] /\ B = Cs(n) /\ v = vs[n + 1]
      OBVIOUS
    <3>3. s[n + 1] = LP!PushedBack(u, d, v)
      BY <1>2, <3>1, <3>2, SameNodes
    <3>4. B[d] = Prefix(vs, n) /\ \A e \in Handle : e # d => B[e] = C0[e]
      BY <1>1, <1>4, <3>2
    <3>5. ASSUME NEW e \in Handle PROVE v \notin LP!Nodes(B[e])
      <4>1. CASE e = d
        <5>1. LP!Nodes(B[d]) = {vs[i] : i \in 1 .. n}
          BY <3>1, <3>4 DEF LP!Nodes, Prefix
        <5>2. \A i \in 1 .. n : vs[i] # vs[n + 1]
          BY <1>1, <3>1 DEF Made, IsInjective
        <5> QED
          BY <3>2, <4>1, <5>1, <5>2
      <4>2. CASE e # d /\ e \in exists
        <5>1. B[e] = Contents(e) /\ B[e] \in Seq(Item)
          BY <1>1, <1>3, <1>4, <3>4, <4>2, ListLines DEF Lines
        <5>2. LP!Nodes(B[e]) \subseteq Range(B[e])
          BY <5>1 DEF LP!Nodes, Range
        <5>3. Range(B[e]) \subseteq Stored
          BY <4>2, <5>1 DEF Stored
        <5>4. v \in Range(vs)
          BY <1>1, <3>1, <3>2 DEF Range
        <5> QED
          BY <5>2, <5>3, <5>4 DEF Made
      <4>3. CASE e # d /\ e \notin exists
        BY <1>4, <3>4, <4>3 DEF LP!Nodes
      <4> QED
        BY <4>1, <4>2, <4>3
    <3>6. LP!Good(LP!PushedBack(u, d, v), [B EXCEPT ![d] = Append(B[d], v)])
      BY <1>1, <3>1, <3>2, <3>5, ListAssumptions, LP!PushedBackGood
    <3>7. Prefix(vs, n + 1) = Append(Prefix(vs, n), v)
      BY <1>1, <3>1, <3>2, PrefixIs
    <3>8. [B EXCEPT ![d] = Append(B[d], v)] = Cs(n + 1)
      BY <1>1, <1>4, <3>2, <3>4, <3>7
    <3> QED
      BY <3>3, <3>6, <3>8
  <2>2. CASE ~(n + 1 <= k)
    BY <2>2
  <2> QED
    BY <2>1, <2>2
<1> HIDE DEF S
<1>7. \A i \in Nat : i \in S
  BY <1>5, <1>6, Induction
<1>8. LP!Good(mem', Cs(k))
  BY <1>1, <1>2, <1>7 DEF S
<1>9. PICK D : D = Cs(k)
  OBVIOUS
<1>10. [e \in Handle |-> LP!Forward(mem', e)] = D
  BY <1>8, <1>9, ListAssumptions, LP!ContentsAre
<1>11. LP!Contents' = D
  BY <1>10 DEF LP!Contents
<1>12. Lines' = [Lines EXCEPT ![d] = Prefix(vs, k)]
  BY <1>1, <1>3, <1>9, <1>11, ListLines
<1>13. LP!Inv'
  <2>1. exists' \subseteq Handle /\ \A e \in Handle \ exists' : D[e] = <<>>
    BY <1>1, <1>4, <1>9
  <2> QED
    BY <1>1, <1>8, <1>9, <1>11, <2>1 DEF LP!Inv
<1> QED
  BY <1>12, <1>13

-----------------------------------------------------------------------------
(* What stands behind the adapters. *)
Behind ==
  /\ client.table = "array" => AP!Inv /\ Owns
  /\ client.table = "circular_array" => Rings /\ (HasDfree => Owns)
  /\ client.table = "list" => LP!Inv

AInv == PInv /\ Behind

LEMMA ClientIs ==
  ASSUME PInv
  PROVE  /\ client.role \in {"deque", "stack", "queue"}
         /\ client.table \in {"array", "circular_array", "list"}
         /\ client.table = "circular_array" /\ HasDfree => client.role = "queue"
         /\ client.table = "array" => HasDfree
  BY ClientsAssumption DEF PInv, ClientInv, HasDfree

LEMMA BehindTyped ==
  ASSUME AInv, client' = client, NEW d \in Handle
  PROVE  Lines[d] \in Seq(Item)
<1>1. CASE client.table = "array"
  BY <1>1, ArraySizes DEF AInv, Behind
<1>2. CASE client.table = "circular_array"
  BY <1>2, LinesTyped DEF AInv, Behind
<1>3. CASE client.table = "list"
  BY <1>3, ListLines, ListAssumptions, LP!InvList DEF AInv, Behind
<1> QED
  BY <1>1, <1>2, <1>3, ClientIs DEF AInv

(* A call of an operation, on each container, does as its table promises.  *)
LEMMA ArrayCall ==
  ASSUME client.table = "array", client' = client, AP!Inv, Owns,
         NEW d \in Handle, NEW q, NEW c, NEW m, SameCall(c, m, d, q), ArrayTable(c)
  PROVE  AP!Inv' /\ Owns' /\ Table!Answers(c)
<1> DEFINE Goal == AP!Inv' /\ Owns' /\ Table!Answers(c)
<1>1. PICK s \in Seq(Item), n \in Nat : s = Lines[d] /\ n = Len(s) /\ n = arr[d].size
  BY ArraySizes
<1>2. s # <<>> => s[1] \in Item
  BY <1>1
<1>3. ASSUME NEW i, A!Erase(d, i) PROVE i \in 0 .. n - 1 /\ s # <<>>
  <2>1. i \in 0 .. n - 1
    BY <1>1, <1>3 DEF A!Erase
  <2>2. n > 0
    BY <2>1
  <2>3. s = <<>> => n = 0
    BY <1>1
  <2> QED
    BY <1>1, <2>1, <2>2, <2>3
<1> HIDE DEF Goal
<1>4. ASSUME NEW v \in Item, c = <<"push_back", d, v>> PROVE Goal
  <2>1. A!Insert(d, n, v)
    BY <1>1, <1>4, TableCalls
  <2>2. AP!Inv' /\ Owns' /\ Table!Insert(d, n, v)
    BY <2>1, ArrayCalls
  <2> QED
    BY <1>1, <1>4, <2>2, TableEnds, TableAnswers DEF Goal
<1>5. ASSUME NEW v \in Item, c = <<"push_front", d, v>> PROVE Goal
  <2>1. A!Insert(d, 0, v)
    BY <1>5, TableCalls
  <2>2. AP!Inv' /\ Owns' /\ Table!Insert(d, 0, v)
    BY <2>1, ArrayCalls
  <2> QED
    BY <1>1, <1>5, <2>2, TableEnds, TableAnswers DEF Goal
<1>6. ASSUME c = <<"pop_back", d>> PROVE Goal
  <2>1. A!Erase(d, n - 1)
    BY <1>1, <1>6, TableCalls
  <2>2. AP!Inv' /\ Owns' /\ Table!Erase(d, n - 1) /\ s # <<>>
    BY <1>3, <2>1, ArrayCalls
  <2>3. Table!PopBack(d)
    BY <1>1, <1>2, <2>2, TableEnds
  <2> QED
    BY <1>6, <2>2, <2>3, TableAnswers DEF Goal
<1>7. ASSUME c = <<"pop_front", d>> PROVE Goal
  <2>1. A!Erase(d, 0)
    BY <1>7, TableCalls
  <2>2. AP!Inv' /\ Owns' /\ Table!Erase(d, 0) /\ s # <<>>
    BY <1>3, <2>1, ArrayCalls
  <2>3. Table!PopFront(d)
    BY <1>1, <1>2, <2>2, TableEnds
  <2> QED
    BY <1>7, <2>2, <2>3, TableAnswers DEF Goal
<1>8. ASSUME NEW i, NEW v \in Item, c = <<"insert", d, i, v>> PROVE Goal
  BY <1>8, TableCalls, ArrayCalls, TableAnswers DEF Goal
<1>9. ASSUME NEW i, NEW v \in Item, c = <<"set", d, i, v>> PROVE Goal
  BY <1>9, TableCalls, ArrayCalls, TableAnswers DEF Goal
<1>10. ASSUME NEW i, c = <<"erase", d, i>> PROVE Goal
  BY <1>10, TableCalls, ArrayCalls, TableAnswers DEF Goal
<1>11. ASSUME c = <<"clear", d>> PROVE Goal
  BY <1>11, TableCalls, ArrayCalls, TableAnswers DEF Goal
<1>12. Goal
  BY <1>4, <1>5, <1>6, <1>7, <1>8, <1>9, <1>10, <1>11, Zenon DEF SameCall
<1> QED
  BY <1>12 DEF Goal

LEMMA RingCall ==
  ASSUME client.table = "circular_array", client' = client, Rings,
         NEW d \in Handle, NEW q, NEW c, NEW m, SameCall(c, m, d, q), CircularArrayTable(c)
  PROVE  Rings' /\ Table!Answers(c)
<1> DEFINE Goal == Rings' /\ Table!Answers(c)
<1> HIDE DEF Goal
<1>1. ASSUME NEW f \in {"push_back", "push_front"}, NEW v \in Item, c = <<f, d, v>> PROVE Goal
  BY <1>1, RingTableCalls, RingCalls, TableAnswers DEF Goal
<1>2. ASSUME NEW f \in {"insert", "set"}, NEW i \in Int, NEW v \in Item, c = <<f, d, i, v>> PROVE Goal
  BY <1>2, RingTableCalls, RingCalls, RingInserts, TableAnswers DEF Goal
<1>3. ASSUME NEW f \in {"pop_back", "pop_front", "clear"}, c = <<f, d>> PROVE Goal
  BY <1>3, RingTableCalls, RingCalls, TableAnswers DEF Goal
<1>4. ASSUME NEW i \in Int, c = <<"erase", d, i>> PROVE Goal
  <2>1. C!Erase(d, i)
    BY <1>4, RingTableCalls
  <2>2. PICK v : v \in Item
    <3>1. arr[d].size > 0
      <4>1. arr[d].size \in Nat
        BY LinesTyped
      <4>2. arr[d].size > 0 \/ i \in 1 .. arr[d].size - 2
        BY <2>1, Zenon DEF C!Erase, C!EraseMiddle, C!PopFront, C!PopBack
      <4> QED
        BY <4>1, <4>2
    <3>2. Lines[d] \in Seq(Item) /\ Len(Lines[d]) > 0
      BY <3>1, LinesTyped
    <3> QED
      BY <3>2
  <2> QED
    BY <1>4, <2>1, <2>2, RingInserts, TableAnswers DEF Goal
<1>5. Goal
  BY <1>1, <1>2, <1>3, <1>4, Zenon DEF SameCall
<1> QED
  BY <1>5 DEF Goal

LEMMA OwningRingCall ==
  ASSUME client.table = "circular_array", client' = client, Rings, Owns,
         NEW d \in Handle, NEW q, NEW c, NEW m, SameCall(c, m, d, q), OwningCircularArrayTable(c),
         c[1] \in {"push_back", "pop_front"}
  PROVE  Rings' /\ Owns' /\ Table!Answers(c)
<1> DEFINE Goal == Rings' /\ Owns' /\ Table!Answers(c)
<1> HIDE DEF Goal
<1>1. ASSUME NEW v \in Item, c = <<"push_back", d, v>> PROVE Goal
  BY <1>1, RingTableCalls, RingCalls, RingOwns, TableAnswers DEF Goal
<1>2. ASSUME c = <<"pop_front", d>> PROVE Goal
  BY <1>2, RingTableCalls, RingCalls, RingOwns, TableAnswers DEF Goal
<1>3. (\E v \in Item : c = <<"push_back", d, v>>) \/ c = <<"pop_front", d>>
  BY DEF SameCall
<1>4. Goal
  BY <1>1, <1>2, <1>3, Zenon
<1> QED
  BY <1>4 DEF Goal

LEMMA ListCall ==
  ASSUME client.table = "list", client' = client, LP!Inv,
         NEW d \in Handle, NEW q, NEW c, NEW m, SameCall(c, m, d, q), ListTable(c)
  PROVE  LP!Inv' /\ Table!Answers(c)
<1> DEFINE Goal == LP!Inv' /\ Table!Answers(c)
<1> HIDE DEF Goal
<1>1. ASSUME NEW f \in {"push_back", "push_front"}, NEW v \in Item, c = <<f, d, v>> PROVE Goal
  BY <1>1, ListTableCalls, ListCalls, TableAnswers DEF Goal
<1>2. ASSUME NEW f \in {"insert", "set"}, NEW i \in Int, NEW v \in Item, c = <<f, d, i, v>> PROVE Goal
  BY <1>2, ListTableCalls, ListCalls, TableAnswers DEF Goal
<1>3. ASSUME NEW f \in {"pop_back", "pop_front", "clear"}, c = <<f, d>> PROVE Goal
  BY <1>3, ListTableCalls, ListCalls, TableAnswers DEF Goal
<1>4. ASSUME NEW i \in Int, c = <<"erase", d, i>> PROVE Goal
  BY <1>4, ListTableCalls, ListCalls, TableAnswers DEF Goal
<1>5. Goal
  BY <1>1, <1>2, <1>3, <1>4, Zenon DEF SameCall
<1> QED
  BY <1>5 DEF Goal

(* Whatever container is behind an adapter. *)
LEMMA CallStep ==
  ASSUME AInv, client' = client, NEW d \in Handle, NEW q, NEW c, NEW m, SameCall(c, m, d, q),
         TableCall(c), client.role = "queue" => c[1] \in {"push_back", "pop_front"}
  PROVE  Behind' /\ Table!Answers(c)
<1>1. CASE client.table = "array"
  BY <1>1, ArrayCall DEF TableCall, AInv, Behind
<1>2. CASE client.table = "circular_array" /\ HasDfree
  BY <1>2, OwningRingCall, ClientIs DEF TableCall, AInv, Behind, HasDfree
<1>3. CASE client.table = "circular_array" /\ ~HasDfree
  BY <1>3, RingCall DEF TableCall, AInv, Behind, HasDfree
<1>4. CASE client.table = "list"
  BY <1>4, ListCall DEF TableCall, AInv, Behind
<1> QED
  BY <1>1, <1>2, <1>3, <1>4, ClientIs DEF AInv

(* Constructors and destructors. *)
LEMMA EndsOfLife ==
  ASSUME AInv, client' = client, NEW d \in Handle
  PROVE  /\ TableCall(<<"ctor", d>>) => Behind' /\ Table!Ctor(d)
         /\ TableCall(<<"dtor", d>>) => Behind' /\ Table!Dtor(d)
<1>1. CASE client.table = "array"
  BY <1>1, TableCalls, ArrayCalls DEF TableCall, AInv, Behind
<1>2. CASE client.table = "circular_array" /\ HasDfree
  BY <1>2, RingTableCalls, RingCalls, RingOwns DEF TableCall, AInv, Behind, HasDfree
<1>3. CASE client.table = "circular_array" /\ ~HasDfree
  BY <1>3, RingTableCalls, RingCalls DEF TableCall, AInv, Behind, HasDfree
<1>4. CASE client.table = "list"
  BY <1>4, ListTableCalls, ListCalls DEF TableCall, AInv, Behind
<1> QED
  BY <1>1, <1>2, <1>3, <1>4, ClientIs DEF AInv

-----------------------------------------------------------------------------
(* Steps that leave the containers alone.                                  *)
LEMMA BehindKept ==
  ASSUME AInv, client' = client, UNCHANGED heap, ret' \in {"OK", "BAD_ALLOC"}
  PROVE  Behind' /\ Lines' = Lines
<1>1. exists' = exists /\ arr' = arr /\ mem' = mem /\ live' = live /\ fault' = fault
  BY DEF heap
<1>2. CASE client.table = "array"
  <2>1. Lines' = Lines /\ AP!Inv'
    BY <1>1, <1>2, ArrayLines DEF AInv, Behind, AP!Inv, AP!Value
  <2> QED
    BY <1>1, <1>2, <2>1 DEF AInv, Behind, Owns
<1>3. CASE client.table = "circular_array"
  <2>1. Lines' = Lines /\ Rings'
    BY <1>1, <1>3, RingLines DEF AInv, Behind, Rings, CP!Inv, CP!Items, CP!Value
  <2> QED
    BY <1>1, <1>3, <2>1 DEF AInv, Behind, Owns, HasDfree
<1>4. CASE client.table = "list"
  <2>1. LP!Contents' = LP!Contents
    BY <1>1 DEF LP!Contents
  <2>2. Lines' = Lines /\ LP!Inv'
    BY <1>1, <1>4, <2>1, ListLines DEF AInv, Behind, LP!Inv
  <2> QED
    BY <1>4, <2>2 DEF Behind
<1> QED
  BY <1>2, <1>3, <1>4, ClientIs DEF AInv

LEMMA StatusTyped ==
  ASSUME AInv
  PROVE  ret \in {"OK", "BAD_ALLOC"}
  BY ClientIs DEF AInv, Behind, Rings, AP!Inv, CP!Inv, LP!Inv

LEMMA BehindInit == AInit => Behind
<1> SUFFICES ASSUME AInit PROVE Behind
  OBVIOUS
<1>1. CASE client.table = "array"
  <2>1. A!Init
    BY <1>1 DEF AInit
  <2>2. AP!Init
    BY <2>1, Zenon DEF A!Init, AP!Init, A!NewArray, AP!NewArray, A!Malloc, AP!Malloc
  <2>3. AP!Inv
    BY <2>2, ArrayAssumptions, AP!InitInv
  <2>4. Owns
    BY <2>1 DEF A!Init, Owns, AP!Owned
  <2> QED
    BY <1>1, <2>3, <2>4 DEF Behind
<1>2. CASE client.table = "circular_array"
  <2>1. C!Init
    BY <1>2 DEF AInit
  <2>2. CP!Init
    BY <2>1, Zenon DEF C!Init, CP!Init, C!NewArray, CP!NewArray, C!Malloc, CP!Malloc
  <2>3. Rings
    BY <2>2, RingAssumptions, CP!InitInv, CP!InitItems DEF Rings
  <2>4. Owns
    BY <2>1 DEF C!Init, Owns, AP!Owned
  <2> QED
    BY <1>2, <2>3, <2>4 DEF Behind
<1>3. CASE client.table = "list"
  <2>1. C!Init
    BY <1>3 DEF AInit
  <2>2. LP!Init
    BY <2>1, Zenon DEF AInit, C!Init, LP!Init
  <2> QED
    BY <1>3, <2>2, ListAssumptions, LP!InitInv DEF Behind
<1> QED
  BY <1>1, <1>2, <1>3 DEF Behind

(* ctorl and ctorv: the adapter shows its arguments, or nothing changes.   *)
LEMMA CtorVStep ==
  ASSUME AInv, NEW q \in AdapterId, NEW vs \in ArgLists, CtorV(q, vs)
  PROVE  Behind' /\ Shown' = IF ret' = "OK" THEN [Shown EXCEPT ![q] = vs] ELSE Shown
<1> DEFINE Goal == Behind' /\ Shown' = IF ret' = "OK" THEN [Shown EXCEPT ![q] = vs] ELSE Shown
<1> HIDE DEF Goal
<1>1. /\ q \notin adapters /\ client' = client /\ Range(vs) \cap Stored = {}
      /\ vs \in Seq(Item) /\ IsInjective(vs)
  BY ArgListsAssumption DEF CtorV
<1>2. ASSUME ret' = "BAD_ALLOC", UNCHANGED <<adapters, container, heap>> PROVE Goal
  <2>1. Behind' /\ Lines' = Lines
    BY <1>1, <1>2, BehindKept
  <2> QED
    BY <1>2, <2>1, SameLift DEF Goal, AInv
<1>3. ASSUME NEW d \in Handle \ exists, NEW k \in 0 .. Len(vs), exists' = exists \cup {d},
             IF client.table = "list" THEN ListWith(d, vs, k) ELSE ArrayWith(d, vs, k),
             IF k = Len(vs)
             THEN /\ ret' = "OK"
                  /\ adapters' = adapters \cup {q}
                  /\ container' = [container EXCEPT ![q] = d]
             ELSE ret' = "BAD_ALLOC" /\ UNCHANGED <<adapters, container>>
      PROVE  Goal
  <2>1. Made(d, vs, k)
    BY <1>1, <1>3 DEF Made
  <2>2. Behind' /\ Lines' = [Lines EXCEPT ![d] = Prefix(vs, k)]
    <3>1. CASE client.table = "array"
      BY <1>1, <1>3, <2>1, <3>1, ArrayMade, ClientIs DEF AInv, Behind
    <3>2. CASE client.table = "circular_array"
      <4>1. Rings' /\ (HasDfree => Owns') /\ Lines' = [Lines EXCEPT ![d] = Prefix(vs, k)]
        BY <1>3, <2>1, <3>2, RingMade DEF AInv, Behind
      <4> QED
        BY <1>1, <3>2, <4>1 DEF Behind, HasDfree
    <3>3. CASE client.table = "list"
      BY <1>1, <1>3, <2>1, <3>3, ListMade DEF AInv, Behind
    <3> QED
      BY <3>1, <3>2, <3>3, ClientIs DEF AInv
  <2>3. CASE k = Len(vs)
    <3>1. Prefix(vs, k) = vs
      BY <1>1, <2>3, PrefixIs
    <3>2. Shown' = [Shown EXCEPT ![q] = vs]
      BY <1>1, <1>3, <2>2, <2>3, <3>1, LineMade DEF AInv
    <3> QED
      BY <1>3, <2>2, <2>3, <3>2 DEF Goal
  <2>4. CASE k # Len(vs)
    <3>1. Shown' = Shown
      BY <1>1, <1>3, <2>2, <2>4, LineMade DEF AInv
    <3> QED
      BY <1>3, <2>2, <2>4, <3>1 DEF Goal
  <2> QED
    BY <2>3, <2>4
<1>4. Goal
  BY <1>2, <1>3, Zenon DEF CtorV
<1> QED
  BY <1>4 DEF Goal

(* What a call may do to the adapters. *)
Answered ==
  IF op'[1] = "ctorv"
  THEN IF ret' = "OK"
       THEN \A p \in AdapterId : Line(p)' = IF p = op'[2] THEN op'[3] ELSE Line(p)
       ELSE \A p \in AdapterId : Line(p)' = Line(p)
  ELSE Promise!Answers(Meant(op'))

LEMMA CtorStep ==
  ASSUME AInv, NEW q \in AdapterId, Ctor(q)
  PROVE  Behind' /\ Answered
<1>1. q \notin adapters /\ client' = client /\ op' = <<"ctor", q>>
  BY DEF Ctor
<1>2. PICK d \in Handle :
        /\ TableCall(<<"ctor", d>>)
        /\ IF ret' = "OK"
           THEN adapters' = adapters \cup {q} /\ container' = [container EXCEPT ![q] = d]
           ELSE UNCHANGED <<adapters, container>>
  BY Zenon DEF Ctor
<1>3. Behind' /\ Table!Ctor(d)
  BY <1>1, <1>2, EndsOfLife
<1>4. Promise!Answers(<<"ctor", q>>)
  BY <1>1, <1>2, <1>3, CtorLift, PromiseAnswers DEF AInv
<1>5. Meant(op') = <<"ctor", q>> /\ op'[1] # "ctorv"
  BY <1>1 DEF Meant
<1> QED
  BY <1>3, <1>4, <1>5 DEF Answered

LEMMA DtorStep ==
  ASSUME AInv, NEW q \in AdapterId, Dtor(q)
  PROVE  Behind' /\ Answered
<1>1. /\ q \in adapters /\ client' = client /\ op' = <<"dtor", q>>
      /\ adapters' = adapters \ {q} /\ container' = [container EXCEPT ![q] = NoHandle]
      /\ TableCall(<<"dtor", container[q]>>)
  BY DEF Dtor
<1>2. container[q] \in Handle
  BY <1>1, LineIs DEF AInv
<1>3. Behind' /\ Table!Dtor(container[q])
  BY <1>1, <1>2, EndsOfLife
<1>4. Promise!Answers(<<"dtor", q>>)
  BY <1>1, <1>3, DtorLift, PromiseAnswers DEF AInv
<1>5. Meant(op') = <<"dtor", q>> /\ op'[1] # "ctorv"
  BY <1>1 DEF Meant
<1> QED
  BY <1>3, <1>4, <1>5 DEF Answered

LEMMA SwapStep ==
  ASSUME AInv, NEW p \in AdapterId, NEW q \in AdapterId, Swap(p, q)
  PROVE  Behind' /\ Answered
<1>1. op' = <<"swap", p, q>> /\ client' = client /\ UNCHANGED heap /\ ret' = "OK"
  BY DEF Swap
<1>2. Behind' /\ Lines' = Lines
  BY <1>1, BehindKept
<1>3. Promise!Answers(<<"swap", p, q>>)
  BY <1>2, SwapLift, PromiseAnswers DEF AInv
<1>4. Meant(op') = <<"swap", p, q>> /\ op'[1] # "ctorv"
  BY <1>1 DEF Meant
<1> QED
  BY <1>2, <1>3, <1>4 DEF Answered

LEMMA CtorVAnswered ==
  ASSUME AInv, NEW q \in AdapterId, NEW vs \in ArgLists, CtorV(q, vs)
  PROVE  Behind' /\ Answered
<1>1. Behind' /\ Shown' = IF ret' = "OK" THEN [Shown EXCEPT ![q] = vs] ELSE Shown
  BY CtorVStep
<1>2. op' = <<"ctorv", q, vs>>
  BY DEF CtorV
<1>3. \A p \in AdapterId : Shown[p] = Line(p) /\ Shown'[p] = Line(p)'
  BY DEF Shown
<1>4. Shown = [p \in AdapterId |-> Shown[p]]
  BY DEF Shown
<1>5. op'[1] = "ctorv" /\ op'[2] = q /\ op'[3] = vs
  BY <1>2
<1>6. CASE ret' = "OK"
  <2>1. \A p \in AdapterId : Shown'[p] = IF p = q THEN vs ELSE Shown[p]
    BY <1>1, <1>4, <1>6
  <2>2. \A p \in AdapterId : Line(p)' = IF p = q THEN vs ELSE Line(p)
    BY <1>3, <2>1, Zenon
  <2> QED
    BY <1>1, <1>5, <1>6, <2>2, Zenon DEF Answered
<1>7. CASE ret' # "OK"
  <2>1. \A p \in AdapterId : Line(p)' = Line(p)
    BY <1>1, <1>3, <1>7, Zenon
  <2> QED
    BY <1>1, <1>5, <1>7, <2>1, Zenon DEF Answered
<1> QED
  BY <1>6, <1>7

-----------------------------------------------------------------------------
(* What front, back and top show.                                          *)
LEMMA EndsAre ==
  ASSUME AInv, client' = client, NEW d \in Handle, NEW n, n = Len(Lines[d]), Lines[d] # <<>>
  PROVE  FrontItem(d) = Lines[d][1] /\ BackItem(d) = Lines[d][n]
<1>1. PICK s \in Seq(Item) : s = Lines[d]
  BY BehindTyped
<1>2. n \in Nat /\ n > 0 /\ n = Len(s)
  BY <1>1, EmptySeq
<1>3. CASE client.table = "array"
  <2>1. n = arr[d].size
    BY <1>1, <1>2, <1>3, ArraySizes DEF AInv, Behind
  <2>2. s = [i \in 1 .. n |-> A!Read(arr[d].buffer, i - 1)]
    BY <1>1, <1>3, <2>1 DEF Lines, Contents, A!Contents
  <2>3. s[1] = A!Read(arr[d].buffer, 0) /\ s[n] = A!Read(arr[d].buffer, n - 1)
    BY <1>2, <2>2
  <2> QED
    BY <1>1, <1>3, <2>1, <2>3 DEF FrontItem, BackItem
<1>4. CASE client.table = "circular_array"
  <2>1. PICK r : r = arr[d]
    OBVIOUS
  <2>2. CP!Ring(r) /\ r.size = n /\ s = CP!Contents(r)
    BY <1>1, <1>2, <1>4, <2>1, LinesTyped DEF AInv, Behind
  <2>3. CP!FrontItem(r) = s[1] /\ CP!BackItem(r) = s[n]
    BY <1>2, <2>2, RingAssumptions, CP!EndsShown
  <2>4. C!FrontItem(r) = CP!FrontItem(r) /\ C!BackItem(r) = CP!BackItem(r)
    BY Zenon DEF C!FrontItem, CP!FrontItem, C!BackItem, CP!BackItem, C!Read, CP!Read
  <2> QED
    BY <1>1, <1>4, <2>1, <2>3, <2>4 DEF FrontItem, BackItem
<1>5. CASE client.table = "list"
  <2>1. LP!Inv /\ s = LP!Contents[d]
    BY <1>1, <1>5, ListLines DEF AInv, Behind
  <2>2. mem.head[d] = LP!At(s, 1) /\ mem.tail[d] = LP!At(s, n)
    BY <1>2, <2>1, ListAssumptions, LP!InvList
  <2> QED
    BY <1>1, <1>2, <1>5, <2>2 DEF FrontItem, BackItem, LP!At
<1> QED
  BY <1>3, <1>4, <1>5, ClientIs DEF AInv

(* An operation of the adapter q: what it does to the sequence, and what   *)
(* it takes when it pops.                                                  *)
Takes(q) ==
  /\ TableFunction(op'[1]) = "pop_back" => Line(q) = Append(Line(q)', BackItem(container[q]))
  /\ TableFunction(op'[1]) = "pop_front" => Line(q) = <<FrontItem(container[q])>> \o Line(q)'

LEMMA OperationStep ==
  ASSUME AInv, NEW q \in AdapterId, Operation(q)
  PROVE  Behind' /\ Answered /\ Takes(q) /\ op'[2] = q
<1>1. q \in adapters /\ UNCHANGED <<client, adapters, container>>
  BY DEF Operation
<1>2. PICK d \in Handle : d = container[q] /\ Line(q) = Lines[d] /\ Shown[q] = Lines[d]
  BY <1>1, LineIs DEF AInv
<1>3. PICK s \in Seq(Item) : s = Lines[d]
  BY <1>1, BehindTyped
<1>4. PICK c, m : /\ SameCall(c, m, d, q) /\ TableCall(c)
                  /\ m = Meant(op') /\ op'[2] = q /\ c[1] = TableFunction(op'[1])
                  /\ client.role = "queue" => c[1] \in {"push_back", "pop_front"}
  BY <1>2, <1>3, OperationCalls, Zenon DEF AInv
<1>5. Behind' /\ Table!Answers(c)
  BY <1>1, <1>4, CallStep
<1>6. Promise!Answers(m)
  BY <1>1, <1>2, <1>4, <1>5, MeantAnswers DEF AInv
<1>7. op'[1] # "ctorv"
  <2>1. m[1] # "ctorv"
    BY <1>4 DEF SameCall
  <2> QED
    BY <1>4, <2>1 DEF Meant
<1>8. Answered
  BY <1>4, <1>6, <1>7 DEF Answered
<1>9. ASSUME NEW t, Lines' = [Lines EXCEPT ![d] = t] PROVE Line(q)' = t
  <2>1. Shown' = [Shown EXCEPT ![q] = t]
    BY <1>1, <1>2, <1>9, BecomesLifts DEF AInv
  <2>2. q \in AdapterId /\ Shown'[q] = Line(q)' /\ Shown = [p \in AdapterId |-> Shown[p]]
    BY DEF Shown
  <2> QED
    BY <2>1, <2>2
<1>10. ASSUME c[1] = "pop_back" PROVE Line(q) = Append(Line(q)', BackItem(container[q]))
  <2>1. c = <<"pop_back", d>>
    BY <1>4, <1>10 DEF SameCall
  <2>2. Table!PopBack(d)
    BY <1>5, <2>1, TableAnswers
  <2>3. s # <<>> /\ Lines' = [Lines EXCEPT ![d] = Front(s)]
    BY <1>3, <2>2 DEF Table!PopBack, Table!Becomes, Front
  <2>4. Line(q)' = Front(s) /\ BackItem(d) = s[Len(s)]
    BY <1>1, <1>3, <1>9, <2>3, EndsAre
  <2> QED
    BY <1>2, <1>3, <2>3, <2>4, WithoutEnd
<1>11. ASSUME c[1] = "pop_front" PROVE Line(q) = <<FrontItem(container[q])>> \o Line(q)'
  <2>1. c = <<"pop_front", d>>
    BY <1>4, <1>11 DEF SameCall
  <2>2. Table!PopFront(d)
    BY <1>5, <2>1, TableAnswers
  <2>3. s # <<>> /\ Lines' = [Lines EXCEPT ![d] = Tail(s)]
    BY <1>3, <2>2 DEF Table!PopFront, Table!Becomes
  <2>4. Line(q)' = Tail(s) /\ FrontItem(d) = s[1]
    BY <1>1, <1>3, <1>9, <2>3, EndsAre
  <2> QED
    BY <1>2, <1>3, <2>3, <2>4, WithoutEnd
<1>12. Takes(q)
  BY <1>4, <1>10, <1>11 DEF Takes
<1> QED
  BY <1>4, <1>5, <1>8, <1>12

LEMMA AdaptersStep ==
  ASSUME AInv, ANext
  PROVE  Behind' /\ Answered /\ \A q \in adapters : op'[2] = q => Takes(q)
<1>1. ASSUME NEW q \in AdapterId, Ctor(q) \/ Dtor(q)
      PROVE  Behind' /\ Answered /\ op'[1] \in {"ctor", "dtor", "ctorv", "swap"}
  <2>1. op'[1] \in {"ctor", "dtor"}
    BY <1>1 DEF Ctor, Dtor
  <2> QED
    BY <1>1, <2>1, CtorStep, DtorStep
<1>2. ASSUME NEW p \in AdapterId, NEW q \in AdapterId, Swap(p, q)
      PROVE  Behind' /\ Answered /\ op'[1] \in {"ctor", "dtor", "ctorv", "swap"}
  <2>1. op'[1] = "swap"
    BY <1>2 DEF Swap
  <2> QED
    BY <1>2, <2>1, SwapStep
<1>3. ASSUME NEW q \in AdapterId, NEW vs \in ArgLists, CtorV(q, vs)
      PROVE  Behind' /\ Answered /\ op'[1] \in {"ctor", "dtor", "ctorv", "swap"}
  <2>1. op'[1] = "ctorv"
    BY <1>3 DEF CtorV
  <2> QED
    BY <1>3, <2>1, CtorVAnswered
<1>4. ASSUME op'[1] \in {"ctor", "dtor", "ctorv", "swap"} PROVE \A q \in adapters : Takes(q)
  BY <1>4, OthersTakeNothing, Zenon DEF Takes
<1>5. ASSUME NEW q \in AdapterId, Operation(q)
      PROVE  Behind' /\ Answered /\ \A p \in adapters : op'[2] = p => Takes(p)
  BY <1>5, OperationStep
<1> QED
  BY <1>1, <1>2, <1>3, <1>4, <1>5, Zenon DEF ANext

LEMMA AInvStep == AInv /\ [ANext]_avars => AInv'
<1> SUFFICES ASSUME AInv, [ANext]_avars PROVE AInv'
  OBVIOUS
<1>1. PInv'
  BY PInvStep DEF AInv
<1>2. CASE ANext
  BY <1>1, <1>2, AdaptersStep DEF AInv
<1>3. CASE UNCHANGED avars
  <2>1. client' = client /\ UNCHANGED heap /\ ret' \in {"OK", "BAD_ALLOC"}
    BY <1>3, StatusTyped DEF avars
  <2> QED
    BY <1>1, <2>1, BehindKept DEF AInv
<1> QED
  BY <1>2, <1>3

LEMMA AInvOwns == AInv => OwnershipInv
<1> SUFFICES ASSUME AInv PROVE OwnershipInv
  OBVIOUS
<1>1. /\ \A f : A!Range(f) = Range(f) /\ O!Range(f) = Range(f) /\ AP!Range(f) = Range(f)
      /\ \A f : AP!IsInjective(f) <=> IsInjective(f)
      /\ \A f : A!IsInjective(f) <=> IsInjective(f)
      /\ \A f : O!IsInjective(f) <=> IsInjective(f)
  BY Zenon DEF A!Range, O!Range, AP!Range, Range, A!IsInjective, O!IsInjective, AP!IsInjective, IsInjective
<1>2. CASE client.table = "array"
  <2>1. \A d \in exists : d \in Handle /\ Lines[d] = A!Contents(arr[d])
    BY <1>2 DEF AInv, PInv, ClientInv, Lines, Contents
  <2>2. ~fault /\ AP!Owned(exists, Lines, live)
    BY <1>2 DEF AInv, Behind, Owns
  <2>3. A!OwnershipInv
    BY <1>1, <2>1, <2>2 DEF A!OwnershipInv, AP!Owned
  <2> QED
    BY <1>2, <2>3 DEF OwnershipInv
<1>3. CASE client.table = "circular_array"
  <2>1. \A r : O!Contents(r) = C!Contents(r)
    BY Zenon DEF O!Contents, C!Contents, O!Read, C!Read, O!RealIndex, C!RealIndex
  <2>2. \A d \in exists : d \in Handle /\ Lines[d] = O!Contents(arr[d])
    BY <1>3, <2>1 DEF AInv, PInv, ClientInv, Lines, Contents
  <2>3. HasDfree => ~fault /\ AP!Owned(exists, Lines, live)
    BY <1>3 DEF AInv, Behind, Owns
  <2>4. HasDfree => O!OwnershipInv
    BY <1>1, <2>2, <2>3 DEF O!OwnershipInv, AP!Owned
  <2> QED
    BY <1>3, <2>4 DEF OwnershipInv
<1>4. CASE client.table = "list"
  <2>1. LP!PartitionInv
    BY <1>4, ListAssumptions, LP!InvImplies DEF AInv, Behind
  <2>2. L!PartitionInv
    <3>1. L!Contents = LP!Contents
      BY SameLists
    <3>2. /\ \A f : L!Range(f) = LP!Range(f)
          /\ \A f : L!IsInjective(f) <=> LP!IsInjective(f)
      BY Zenon DEF L!Range, LP!Range, L!IsInjective, LP!IsInjective
    <3> QED
      BY <2>1, <3>1, <3>2 DEF L!PartitionInv, LP!PartitionInv
  <2> QED
    BY <1>4, <2>2 DEF OwnershipInv
<1> QED
  BY <1>2, <1>3, <1>4, ClientIs DEF AInv

LEMMA AInvAlways == ASpec => []AInv
<1>1. AInit => AInv
  BY PInvInit, BehindInit DEF AInv
<1> QED
  BY <1>1, AInvStep, PTL DEF ASpec

(* Whatever the table, the containers own each live item once and free     *)
(* only what they own, however many adapters are constructed, filled,      *)
(* swapped and destroyed and whatever mallocs fail.  The container a       *)
(* failed ctorv leaves to nobody counts as the owner of its items.         *)
THEOREM AdaptersOwnItems == ASpec => []OwnershipInv
  BY AInvAlways, AInvOwns, PTL

(* Every call changes the sequence behind its adapter as the adapter's     *)
(* header says, and no other, whatever container is behind it; argument    *)
(* lists end with CDC_END, not with NULL as the headers have it.           *)
THEOREM AdaptersKeepPromise == ASpec => CallsKeepPromise
<1>1. AInv /\ [ANext]_avars => [Answered]_avars
  BY AdaptersStep
<1> QED
  BY <1>1, AInvAlways, PTL DEF ASpec, CallsKeepPromise, Answered

(* What front, back and top show is what the pop of that end takes.        *)
THEOREM PopsTakeWhatIsShown == ASpec => PopTakesWhatIsShown
<1>1. AInv /\ [ANext]_avars => [\A q \in adapters : op'[2] = q => Takes(q)]_avars
  BY AdaptersStep
<1> QED
  BY <1>1, AInvAlways, PTL DEF ASpec, PopTakesWhatIsShown, Takes
=============================================================================
