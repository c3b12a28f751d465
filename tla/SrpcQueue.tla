------------------------------ MODULE SrpcQueue ------------------------------
(***************************************************************************)
(* Tsrpc_Queue of src/src/supla-common/srpc.c: an array of pointers to     *)
(* heap blocks, packed to the left, whose freed places may keep a block    *)
(* for the next push.  MinAlloc says how many blocks are kept: none on     *)
(* Linux, two on a microcontroller.  The caller holds srpc->lck.           *)
(***************************************************************************)
EXTENDS Integers, Sequences, FiniteSets

CONSTANTS
  Packet, Ids, RrId,  \* as in RpcFifo
  Size,               \* SRPC_QUEUE_SIZE
  MinAlloc,           \* SRPC_QUEUE_MIN_ALLOC_COUNT
  Block,              \* addresses malloc can return
  Null                \* the null pointer

ASSUME QueueAssumption ==
  /\ Size \in Nat \ {0} /\ MinAlloc \in Nat
  /\ RrId \in [Packet -> Ids] /\ 0 \notin Ids
  /\ Null \notin Block
  /\ Size + MinAlloc <= 255

VARIABLES
  item,       \* queue->item, indexed from 0
  itemCount,  \* queue->item_count
  allocCount, \* queue->alloc_count
  memory,     \* what the allocated blocks hold
  taken       \* the packet copied to the caller: <<>>, or one packet

vars == <<item, itemCount, allocCount, memory, taken>>

Places    == 0..(Size - 1)
Allocated == DOMAIN memory

Init ==
  /\ item = [a \in Places |-> Null]
  /\ itemCount = 0 /\ allocCount = 0
  /\ memory = [b \in {} |-> Null]
  /\ taken = <<>>

Store(m, b, p) == [c \in DOMAIN m \cup {b} |-> IF c = b THEN p ELSE m[c]]
Release(m, b)  == [c \in DOMAIN m \ {b} |-> m[c]]

-----------------------------------------------------------------------------
(* srpc_queue_push: memory is asked for only when the place is empty, but   *)
(* the count goes up in either case.                                        *)

(* Mutant: a kept block is not looked for, and leaks. *)
PlaceAnew(b) == b \in Block \ Allocated

Place(b) ==
  IF item[itemCount] = Null THEN b \in Block \ Allocated ELSE b = item[itemCount]

Accept(p) ==
  /\ itemCount < Size
  /\ \E b \in Block :
       /\ Place(b)
       /\ item' = [item EXCEPT ![itemCount] = b]
       /\ memory' = Store(memory, b, p)
  /\ itemCount' = itemCount + 1
  /\ allocCount' = allocCount + 1
  /\ taken' = <<>>

(* No room, or no memory when some is needed. *)
Refuse ==
  /\ itemCount < Size => item[itemCount] = Null
  /\ taken' = <<>>
  /\ UNCHANGED <<item, itemCount, allocCount, memory>>

srpc_queue_push(p) == Accept(p) \/ Refuse

-----------------------------------------------------------------------------
Wanted(packet, id) == id = 0 \/ RrId[packet] = id

(* Mutant: any packet that answers to the identifier. *)
IsAny(a, id) == Wanted(memory[item[a]], id)

IsFirst(a, id) ==
  /\ Wanted(memory[item[a]], id)
  /\ \A b \in 0..(a - 1) : ~Wanted(memory[item[b]], id)

(* Mutant: the place that falls free keeps its pointer. *)
ClosedUpAliasing(a, kept) ==
  [b \in Places |-> IF b \in a..(itemCount - 2) THEN item[b + 1] ELSE item[b]]

(* The packets behind place a move up; what a pointed to, unless it was    *)
(* freed, is kept at the end.                                              *)
ClosedUp(a, kept) ==
  [b \in Places |-> CASE b = itemCount - 1           -> kept
                      [] b \in a..(itemCount - 2)    -> item[b + 1]
                      [] OTHER                       -> item[b]]

(* Mutants: the count is not taken back; one block too many is kept. *)
TakeOutForgetsCount(a) ==
  /\ taken' = <<memory[item[a]]>>
  /\ IF allocCount > MinAlloc
     THEN /\ memory' = Release(memory, item[a])
          /\ item' = ClosedUp(a, Null)
     ELSE /\ item' = ClosedUp(a, item[a])
          /\ UNCHANGED memory
  /\ itemCount' = itemCount - 1
  /\ UNCHANGED allocCount

TakeOutKeepsMore(a) ==
  /\ taken' = <<memory[item[a]]>>
  /\ IF allocCount > MinAlloc + 1
     THEN /\ allocCount' = allocCount - 1
          /\ memory' = Release(memory, item[a])
          /\ item' = ClosedUp(a, Null)
     ELSE /\ item' = ClosedUp(a, item[a])
          /\ UNCHANGED <<allocCount, memory>>
  /\ itemCount' = itemCount - 1

TakeOut(a) ==
  /\ taken' = <<memory[item[a]]>>
  /\ IF allocCount > MinAlloc
     THEN /\ allocCount' = allocCount - 1
          /\ memory' = Release(memory, item[a])
          /\ item' = ClosedUp(a, Null)
     ELSE /\ item' = ClosedUp(a, item[a])
          /\ UNCHANGED <<allocCount, memory>>
  /\ itemCount' = itemCount - 1

(* srpc_queue_pop *)
srpc_queue_pop(id) ==
  \/ \E a \in 0..(itemCount - 1) : IsFirst(a, id) /\ TakeOut(a)
  \/ /\ \A a \in 0..(itemCount - 1) : ~Wanted(memory[item[a]], id)
     /\ taken' = <<>>
     /\ UNCHANGED <<item, itemCount, allocCount, memory>>

Next ==
  \/ \E p \in Packet : srpc_queue_push(p)
  \/ \E id \in Ids \cup {0} : srpc_queue_pop(id)

Spec == Init /\ [][Next]_vars
-----------------------------------------------------------------------------
(* Properties *)

(* Type correctness.  Both counters are unsigned char in the program.      *)
TypeOK ==
  /\ item \in [Places -> Block \cup {Null}]
  /\ itemCount \in 0..Size
  /\ allocCount \in 0..255
  /\ Allocated \subseteq Block
  /\ memory \in [Allocated -> Packet]
  /\ taken = <<>> \/ \E p \in Packet : taken = <<p>>

(* The blocks in the array are allocated, no two places share one, and     *)
(* every queued place has one: nothing is used after it was freed, freed   *)
(* twice, or overwritten by a later push.                                  *)
PointersSound ==
  /\ \A a \in Places : item[a] # Null => item[a] \in Allocated
  /\ \A a, b \in Places : item[a] = item[b] /\ item[a] # Null => a = b
  /\ \A a \in 0..(itemCount - 1) : item[a] # Null

(* Every allocated block can still be reached: none leaks.                 *)
NoLeak == \A b \in Allocated : \E a \in Places : item[a] = b

(* Although a push that reuses a block counts it again, the count never    *)
(* runs away: it is bounded by what is queued and what may be kept.        *)
CountBounded == allocCount <= MinAlloc + itemCount

(* A queue that was emptied keeps no more blocks than it may.              *)
KeepsFew == Cardinality(Allocated) <= MinAlloc + itemCount

Fifo == INSTANCE RpcFifo
          WITH fifo <- [i \in 1..itemCount |-> memory[item[i - 1]]], Capacity <- Size

(* The array, with its blocks that come and go, is a first-in first-out    *)
(* queue with selective removal.                                           *)
ImplementsFifo == Fifo!Spec
=============================================================================
