------------------------------ MODULE Adapters ------------------------------
(***************************************************************************)
(* The sequence adapters (src/adapters/deque.c, stack.c, queue.c) over the *)
(* containers they can be given (src/tables/seq-array.c,                   *)
(* seq-circular-array.c, seq-list.c) and the data_info structs these       *)
(* containers share (DataInfo).                                            *)
(*                                                                         *)
(* An adapter is a pointer to a container and a table of functions.  The   *)
(* deque hands every call to the table, a stack pushes and pops at the     *)
(* back, a queue pushes at the back and pops at the front; swap exchanges  *)
(* the container pointers of two adapters, not the containers.             *)
(*                                                                         *)
(* The client chooses in advance the adapter, the table and the struct it  *)
(* gives all its constructors.  With a struct that has a dfree and a       *)
(* circular array it only uses a queue, which never calls the functions    *)
(* that give dfree the wrong slot (see CircularArray); its arrays all have *)
(* a dfree.                                                                *)
(***************************************************************************)
EXTENDS DataInfo, Sequences, Functions

CONSTANTS
  AdapterId,    (* the adapters the client may have                       *)
  Handle,       (* the containers there may be                            *)
  NoHandle,     (* the pointer of an adapter that is not constructed      *)
  Item, Junk, NULL, MinCapacity, MaxCapacity,  (* see the containers      *)
  ArgLists,     (* the argument lists ctorl is called with                *)
  Clients,      (* the clients: what adapter, table and struct they use   *)
  MaxLost       (* bound: how many references constructors may lose       *)

ASSUME NoHandleAssumption == NoHandle \notin Handle
ASSUME UsersAreContainers == User = Handle
ASSUME ItemsAssumption ==
  IsFiniteSet(Item) /\ NULL \notin Item /\ Junk \notin Item /\ NULL # Junk
ASSUME CapacityAssumption ==
  /\ MinCapacity \in Nat /\ MinCapacity >= 2
  /\ MaxCapacity \in Nat /\ MaxCapacity >= MinCapacity
(* The client hands over pointers that are not stored, no pointer twice.   *)
ASSUME ArgListsAssumption == \A vs \in ArgLists : vs \in Seq(Item) /\ IsInjective(vs)
ASSUME ClientsAssumption ==
  /\ Clients \subseteq [role : {"deque", "stack", "queue"},
                        table : {"array", "circular_array", "list"},
                        info : ClientInfo \cup {NoInfo},
                        items : Nat,   (* bound: how many items it stores    *)
                        most : Nat]    (* bound: how many adapters it has    *)
  /\ \A k \in Clients :
       /\ k.table = "circular_array" /\ k.info # NoInfo => k.role = "queue"
       /\ k.table = "array" => k.info # NoInfo

VARIABLES
  client,     (* the client of this behaviour                             *)
  adapters,   (* the adapters that are constructed and not destroyed      *)
  container,  (* container[q] is the handle of the container behind q     *)
  op,         (* the last call of the client, its name and its arguments  *)
  exists, arr, mem, live, fault, ret, call  (* see the containers         *)

heap == <<exists, arr, mem, live, fault>>

avars == <<client, adapters, container, op, heap, ret, call, infoVars>>

HasDfree == client.info # NoInfo

A == INSTANCE Array WITH HasDfree <- TRUE, Blocks <- {}

C == INSTANCE CircularArray WITH HasDfree <- FALSE

O == INSTANCE CircularArray WITH HasDfree <- TRUE

L == INSTANCE List WITH Key <- [v \in Item |-> 0], AnyRange <- FALSE

-----------------------------------------------------------------------------
(* The tables: c is a function of the table and its arguments, the first   *)
(* one a container.                                                        *)

ArrayTable(c) ==
  /\ CASE c[1] = "ctor" -> A!Ctor(c[2])
       [] c[1] = "dtor" -> A!Dtor(c[2])
       [] c[1] = "push_back" -> A!Insert(c[2], arr[c[2]].size, c[3])
       [] c[1] = "push_front" -> A!Insert(c[2], 0, c[3])
       [] c[1] = "insert" -> A!Insert(c[2], c[3], c[4])
       [] c[1] = "pop_back" -> A!Erase(c[2], arr[c[2]].size - 1)
       [] c[1] = "pop_front" -> A!Erase(c[2], 0)
       [] c[1] = "erase" -> A!Erase(c[2], c[3])
       [] c[1] = "set" -> A!Set(c[2], c[3], c[4])
       [] c[1] = "clear" -> A!Clear(c[2])
  /\ UNCHANGED mem

CircularArrayTable(c) ==
  /\ CASE c[1] = "ctor" -> C!Ctor(c[2])
       [] c[1] = "dtor" -> C!Dtor(c[2])
       [] c[1] = "push_back" -> C!PushBack(c[2], c[3])
       [] c[1] = "push_front" -> C!PushFront(c[2], c[3])
       [] c[1] = "insert" -> C!Insert(c[2], c[3], c[4])
       [] c[1] = "pop_back" -> C!PopBack(c[2])
       [] c[1] = "pop_front" -> C!PopFront(c[2])
       [] c[1] = "erase" -> C!Erase(c[2], c[3])
       [] c[1] = "set" -> C!Set(c[2], c[3], c[4])
       [] c[1] = "clear" -> C!Clear(c[2])
  /\ UNCHANGED mem

(* The same table for arrays with a dfree, the functions a queue calls.    *)
OwningCircularArrayTable(c) ==
  /\ CASE c[1] = "ctor" -> O!Ctor(c[2])
       [] c[1] = "dtor" -> O!Dtor(c[2])
       [] c[1] = "push_back" -> O!PushBack(c[2], c[3])
       [] c[1] = "pop_front" -> O!PopFront(c[2])
  /\ UNCHANGED mem

ListTable(c) ==
  /\ CASE c[1] = "ctor" -> L!Ctor(c[2])
       [] c[1] = "dtor" -> L!Dtor(c[2])
       [] c[1] = "push_back" -> L!PushBack(c[2], c[3])
       [] c[1] = "push_front" -> L!PushFront(c[2], c[3])
       [] c[1] = "insert" -> L!Insert(c[2], c[3], c[4])
       [] c[1] = "pop_back" -> L!PopBack(c[2])
       [] c[1] = "pop_front" -> L!PopFront(c[2])
       [] c[1] = "erase" -> L!Erase(c[2], c[3])
       [] c[1] = "set" -> L!Set(c[2], c[3], c[4])
       [] c[1] = "clear" -> L!Clear(c[2])
  /\ UNCHANGED <<arr, live, fault>>

TableCall(c) ==
  CASE client.table = "array" -> ArrayTable(c)
    [] client.table = "circular_array" /\ HasDfree -> OwningCircularArrayTable(c)
    [] client.table = "circular_array" /\ ~HasDfree -> CircularArrayTable(c)
    [] client.table = "list" -> ListTable(c)

(* What the containers hold, and what their ends show: front, back and get.*)
Contents(d) ==
  CASE client.table = "array" -> A!Contents(arr[d])
    [] client.table = "circular_array" -> C!Contents(arr[d])
    [] client.table = "list" -> L!Forward(mem, d)

FrontItem(d) ==
  CASE client.table = "array" -> A!Read(arr[d].buffer, 0)
    [] client.table = "circular_array" -> C!FrontItem(arr[d])
    [] client.table = "list" -> mem.head[d]

BackItem(d) ==
  CASE client.table = "array" -> A!Read(arr[d].buffer, arr[d].size - 1)
    [] client.table = "circular_array" -> C!BackItem(arr[d])
    [] client.table = "list" -> mem.tail[d]

-----------------------------------------------------------------------------
(* The client. *)

Stored == UNION {Range(Contents(d)) : d \in exists}

HasRoomFor(n) == SumFunction([d \in exists |-> Len(Contents(d))]) + n <= client.items

AInit ==
  /\ client \in Clients
  /\ adapters = {}
  /\ container = [q \in AdapterId |-> NoHandle]
  /\ op = <<"none">>
  /\ InfoInit
  /\ IF client.table = "array" THEN A!Init ELSE C!Init
  /\ mem = [next |-> [n \in Item |-> Junk], prev |-> [n \in Item |-> Junk],
            head |-> [d \in Handle |-> NULL], tail |-> [d \in Handle |-> NULL],
            size |-> [d \in Handle |-> 0]]

(* A struct of the client is counted when a container is made.             *)
InfoTaken(d) ==
  IF client.info = NoInfo THEN UNCHANGED infoVars ELSE Acquire(d, client.info)

(* What a constructor that fails leaves of the counts: nothing changed     *)
(* (the adapter or the container could not be allocated), the copy could   *)
(* not, or an array's buffer could not.                                    *)
InfoAfterRefusal ==
  \/ UNCHANGED infoVars
  \/ client.info # NoInfo /\ RefuseCopy(client.info)
  \/ /\ client.info # NoInfo
     /\ client.table # "list"
     /\ lost[Returned(client.info)] < MaxLost
     /\ AcquireAndLose(client.info)

(* deque_ctor, stack_ctor, queue_ctor. *)
Ctor(q) ==
  /\ q \notin adapters
  /\ Cardinality(adapters) < client.most
  /\ op' = <<"ctor", q>>
  /\ UNCHANGED client
  /\ \E d \in Handle :
       /\ TableCall(<<"ctor", d>>)
       /\ IF ret' = "OK"
          THEN /\ adapters' = adapters \cup {q}
               /\ container' = [container EXCEPT ![q] = d]
               /\ InfoTaken(d)
          ELSE /\ UNCHANGED <<adapters, container>>
               /\ InfoAfterRefusal

(* init_varg of the arrays and the list pushes the arguments one by one    *)
(* and stops at the first that fails.  Filled(vs)[k] is the array after k  *)
(* pushes.                                                                 *)
NewStruct == IF client.table = "array" THEN A!NewArray ELSE C!NewArray

Pushed(r, v) ==
  IF client.table = "array"
  THEN A!Inserted(IF A!ShouldGrow(r) THEN A!Reallocated(r, 2 * r.capacity) ELSE r, r.size, v)
  ELSE C!AddedBack(IF C!ShouldGrow(r) THEN C!Reallocated(r, 2 * r.capacity) ELSE r, v)

Filled(vs) ==
  LET f[k \in 0 .. Len(vs)] == IF k = 0 THEN NewStruct ELSE Pushed(f[k - 1], vs[k])
  IN f

ArrayWith(d, vs, k) ==
  LET r == Filled(vs)[k]
  IN /\ r.capacity <= MaxCapacity
     /\ k < Len(vs) => r.capacity < Filled(vs)[k + 1].capacity
     /\ arr' = [arr EXCEPT ![d] = r]
     /\ live' = IF HasDfree THEN live \cup {vs[i] : i \in 1 .. k} ELSE live
     /\ UNCHANGED <<mem, fault>>

ListWith(d, vs, k) ==
  LET s[i \in 0 .. k] == IF i = 0 THEN L!EmptyList(mem, d) ELSE L!PushedBack(s[i - 1], d, vs[i])
  IN mem' = s[k] /\ UNCHANGED <<arr, live, fault>>

(* ctorl and ctorv, with the arguments before CDC_END.  When the table's   *)
(* ctorv fails the struct of the adapter is freed; the container, if it    *)
(* was made, is not: nobody points to it any more.                         *)
CtorV(q, vs) ==
  /\ q \notin adapters
  /\ Cardinality(adapters) < client.most
  /\ op' = <<"ctorv", q, vs>>
  /\ call' = <<"ctorv">>
  /\ UNCHANGED client
  /\ HasRoomFor(Len(vs))
  /\ Range(vs) \cap Stored = {}
  /\ \/ /\ ret' = "BAD_ALLOC"
        /\ UNCHANGED <<adapters, container, heap>>
        /\ InfoAfterRefusal
     \/ \E d \in Handle \ exists, k \in 0 .. Len(vs) :
          /\ exists' = exists \cup {d}
          /\ IF client.table = "list" THEN ListWith(d, vs, k) ELSE ArrayWith(d, vs, k)
          /\ InfoTaken(d)
          /\ IF k = Len(vs)
             THEN /\ ret' = "OK"
                  /\ adapters' = adapters \cup {q}
                  /\ container' = [container EXCEPT ![q] = d]
             ELSE /\ ret' = "BAD_ALLOC"
                  /\ UNCHANGED <<adapters, container>>

(* deque_dtor, stack_dtor, queue_dtor. *)
Dtor(q) ==
  /\ q \in adapters
  /\ op' = <<"dtor", q>>
  /\ TableCall(<<"dtor", container[q]>>)
  /\ Release(container[q])
  /\ adapters' = adapters \ {q}
  /\ container' = [container EXCEPT ![q] = NoHandle]
  /\ UNCHANGED client

(* A mutant: stacks pop where queues do. *)
TableFunctionOneEnd(f) == CASE f = "push" -> "push_back"
                            [] f = "pop" -> "pop_front"
                            [] OTHER -> f

(* The function of the table an operation of the adapter calls.            *)
TableFunction(f) ==
  CASE f = "push" -> "push_back"
    [] f = "pop" -> IF client.role = "stack" THEN "pop_back" ELSE "pop_front"
    [] OTHER -> f

(* The operations the adapters' headers offer; args are what the call is   *)
(* given besides the adapter.                                              *)
Insertions(n) ==
  IF client.role = "deque"
  THEN {<<f, <<v>>>> : f \in {"push_back", "push_front"}, v \in Item}
         \cup {<<"insert", <<i, v>>>> : i \in 0 .. n, v \in Item}
  ELSE {<<"push", <<v>>>> : v \in Item}

Removals(n) ==
  IF client.role = "deque"
  THEN {<<f, <<>>>> : f \in {"pop_back", "pop_front"}} \cup {<<"erase", <<i>>>> : i \in 0 .. n - 1}
  ELSE {<<"pop", <<>>>>}

Others(n) ==
  IF client.role = "deque"
  THEN {<<"clear", <<>>>>} \cup {<<"set", <<i, v>>>> : i \in 0 .. n - 1, v \in Item}
  ELSE {}

Operation(q) ==
  /\ q \in adapters
  /\ LET n == Len(Contents(container[q]))
     IN \E o \in (IF HasRoomFor(1) THEN Insertions(n) ELSE {})
                   \cup (IF n > 0 THEN Removals(n) ELSE {}) \cup Others(n) :
          /\ op' = <<o[1], q>> \o o[2]
          /\ TableCall(<<TableFunction(o[1]), container[q]>> \o o[2])
  /\ UNCHANGED <<client, adapters, container, infoVars>>

(* A mutant: only one of the two pointers is exchanged. *)
SwapHalf(p, q) ==
  /\ {p, q} \subseteq adapters
  /\ op' = <<"swap", p, q>>
  /\ call' = <<"none">>
  /\ ret' = "OK"
  /\ container' = [container EXCEPT ![p] = container[q]]
  /\ UNCHANGED <<client, adapters, heap, infoVars>>

Swap(p, q) ==
  /\ {p, q} \subseteq adapters
  /\ op' = <<"swap", p, q>>
  /\ call' = <<"none">>
  /\ ret' = "OK"
  /\ container' = [container EXCEPT ![p] = container[q], ![q] = container[p]]
  /\ UNCHANGED <<client, adapters, heap, infoVars>>

ANext ==
  \/ \E q \in AdapterId : Ctor(q) \/ Dtor(q) \/ Operation(q)
  \/ \E q \in AdapterId, vs \in ArgLists : CtorV(q, vs)
  \/ \E p, q \in AdapterId : Swap(p, q)

ASpec == AInit /\ [][ANext]_avars

-----------------------------------------------------------------------------
(* No two adapters share a container, and an adapter never outlives its    *)
(* own: the destructors and swap keep the pointers one to one.             *)
NoSharingInv ==
  /\ \A q \in adapters : container[q] \in exists
  /\ \A p, q \in adapters : p # q => container[p] # container[q]

(* The containers own each live item once and free only what they own:     *)
(* nothing is freed twice, and nothing that was stored in the container of *)
(* an adapter leaks, however adapters are swapped.  The exception is a     *)
(* constructor that fails after it pushed some of its arguments: the       *)
(* container it leaves in exists, which no adapter can reach (queue.c,     *)
(* line 68), is counted here as the owner of these items, and neither is   *)
(* ever freed.                                                             *)
OwnershipInv ==
  CASE client.table = "array" -> A!OwnershipInv
    [] client.table = "circular_array" -> HasDfree => O!OwnershipInv
    [] client.table = "list" -> L!PartitionInv

(* What the client sees of an adapter: the items, in order.                *)
Line(q) == IF q \in adapters THEN Contents(container[q]) ELSE <<>>

Promise == INSTANCE Sequence WITH
             Handle <- AdapterId, exists <- adapters,
             contents <- [q \in AdapterId |-> Line(q)]

(* What the headers say of an operation: the last item pushed on a stack   *)
(* is the first popped, the first item of a queue is.                      *)
Meant(o) ==
  CASE o[1] = "push" -> <<"push_back", o[2], o[3]>>
    [] o[1] = "pop" /\ client.role = "stack" -> <<"pop_back", o[2]>>
    [] o[1] = "pop" /\ client.role = "queue" -> <<"pop_front", o[2]>>
    [] OTHER -> o

(* Every call changes the sequence behind its adapter as the header of the *)
(* adapter says, whatever container is behind it, and no other; one that   *)
(* runs out of memory changes none.  In one thing the headers are not      *)
(* followed: they ask for NULL after the last argument of ctorl and ctorv, *)
(* but every container reads on until CDC_END.  The client here ends its   *)
(* lists with CDC_END; one that ends them with NULL is promised nothing.   *)
CallsKeepPromise ==
  [][IF op'[1] = "ctorv"
     THEN IF ret' = "OK"
          THEN \A p \in AdapterId : Line(p)' = IF p = op'[2] THEN op'[3] ELSE Line(p)
          ELSE \A p \in AdapterId : Line(p)' = Line(p)
     ELSE Promise!Answers(Meant(op'))]_avars

(* What front, back and top return is what the pop of that end takes.      *)
PopTakesWhatIsShown ==
  [][\A q \in adapters : op'[2] = q =>
       /\ TableFunction(op'[1]) = "pop_back" =>
            Line(q) = Append(Line(q)', BackItem(container[q]))
       /\ TableFunction(op'[1]) = "pop_front" =>
            Line(q) = <<FrontItem(container[q])>> \o Line(q)']_avars
=============================================================================
