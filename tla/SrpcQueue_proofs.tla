-------------------------- MODULE SrpcQueue_proofs --------------------------
(***************************************************************************)
(* Proofs about SrpcQueue, for every size of the array, every number of    *)
(* blocks that may be kept, and every set of packets and identifiers.      *)
(***************************************************************************)
EXTENDS SrpcQueue, FiniteSetTheorems, TLAPS

LEMMA Sizes ==
  /\ Size \in Nat \ {0} /\ MinAlloc \in Nat /\ Size + MinAlloc <= 255
  /\ Null \notin Block
BY QueueAssumption

(* A place is identified by the packet in it, and the count of blocks is    *)
(* tied to the packets that wait: what the operations rely on.              *)
IInv == TypeOK /\ PointersSound /\ CountBounded

LEMMA InitSound == Init => IInv
<1> SUFFICES ASSUME Init PROVE IInv
  OBVIOUS
<1>1. TypeOK
  BY Sizes DEF Init, TypeOK, Allocated
<1>2. PointersSound
  BY Sizes DEF Init, PointersSound
<1>3. CountBounded
  BY Sizes DEF Init, CountBounded
<1> QED
  BY <1>1, <1>2, <1>3 DEF IInv

-----------------------------------------------------------------------------
(* srpc_queue_push *)

LEMMA AcceptSound ==
  ASSUME IInv, NEW p \in Packet, Accept(p)
  PROVE  IInv'
<1> USE DEF IInv
<1>1. PICK b \in Block : /\ Place(b)
                         /\ item' = [item EXCEPT ![itemCount] = b]
                         /\ memory' = Store(memory, b, p)
  BY DEF Accept
<1>2. itemCount \in Places /\ itemCount < Size /\ itemCount' = itemCount + 1
      /\ allocCount' = allocCount + 1 /\ taken' = <<>>
  BY Sizes DEF Accept, TypeOK, Places
<1>3. Allocated' = Allocated \cup {b}
  BY <1>1 DEF Store, Allocated
<1>4. \A a \in Places : a # itemCount => item[a] # b
  BY <1>1, <1>2, Sizes DEF Place, TypeOK, PointersSound
<1>5. \A a \in Places : item'[a] = IF a = itemCount THEN b ELSE item[a]
  BY <1>1, <1>2 DEF TypeOK
<1>6. CountBounded'
  BY <1>2, Sizes DEF CountBounded, TypeOK
<1>7. PointersSound'
  <2>1. \A a \in Places : item'[a] # Null => item'[a] \in Allocated'
    BY <1>3, <1>5 DEF PointersSound
  <2>2. \A a, c \in Places : item'[a] = item'[c] /\ item'[a] # Null => a = c
    BY <1>4, <1>5 DEF PointersSound
  <2>3. \A a \in 0..(itemCount' - 1) : item'[a] # Null
    <3>1. \A a \in 0..(itemCount' - 1) : a \in Places /\ (a = itemCount \/ a \in 0..(itemCount - 1))
      BY <1>2, Sizes DEF TypeOK, Places
    <3> QED
      BY <1>1, <1>5, <3>1, Sizes DEF PointersSound
  <2> QED
    BY <2>1, <2>2, <2>3 DEF PointersSound, Places
<1>8. TypeOK'
  <2>1. item' \in [Places -> Block \cup {Null}]
    BY <1>1, <1>2 DEF TypeOK
  <2>2. itemCount' \in 0..Size /\ allocCount' \in 0..255
    BY <1>2, <1>6, Sizes DEF TypeOK, CountBounded
  <2>3. Allocated' \subseteq Block /\ memory' \in [Allocated' -> Packet]
    BY <1>1, <1>3 DEF TypeOK, Store, Allocated
  <2> QED
    BY <1>2, <2>1, <2>2, <2>3 DEF TypeOK, Places
<1> QED
  BY <1>6, <1>7, <1>8

-----------------------------------------------------------------------------
(* srpc_queue_pop *)

(* Closing up rearranges the places: From says which place each one's      *)
(* pointer comes from.                                                     *)
From(a, b) ==
  IF b = itemCount - 1 THEN a ELSE IF b \in a..(itemCount - 2) THEN b + 1 ELSE b

LEMMA FromIsOneToOne ==
  ASSUME IInv, NEW a \in 0..(itemCount - 1)
  PROVE  /\ \A b \in Places : From(a, b) \in Places
         /\ \A b, c \in Places : From(a, b) = From(a, c) => b = c
         /\ \A b \in Places : From(a, b) = a <=> b = itemCount - 1
         /\ \A b \in 0..(itemCount - 2) : From(a, b) \in 0..(itemCount - 1)
BY Sizes DEF IInv, TypeOK, Places, From

LEMMA TakeOutSound ==
  ASSUME IInv, NEW a \in 0..(itemCount - 1), TakeOut(a)
  PROVE  IInv'
<1> USE DEF IInv
<1>1. itemCount \in 1..Size /\ itemCount' = itemCount - 1 /\ a \in Places
      /\ itemCount - 1 \in Places /\ 0..(itemCount - 1) \subseteq Places
  BY Sizes DEF TakeOut, TypeOK, Places
<1>2. item[a] # Null /\ item[a] \in Allocated /\ taken' = <<memory[item[a]]>>
      /\ memory[item[a]] \in Packet
  BY <1>1 DEF PointersSound, TakeOut, TypeOK
<1>3. CountBounded'
  BY <1>1, Sizes DEF TakeOut, CountBounded, TypeOK
<1>4. allocCount' \in 0..255
  <2>1. allocCount' = allocCount \/ (allocCount > MinAlloc /\ allocCount' = allocCount - 1)
    BY DEF TakeOut
  <2>2. allocCount \in 0..255
    BY DEF TypeOK
  <2> QED
    BY <2>1, <2>2, Sizes
<1>5. ASSUME NEW kept \in {Null, item[a]},
             item' = ClosedUp(a, kept),
             Allocated' = IF kept = Null THEN Allocated \ {item[a]} ELSE Allocated
      PROVE  PointersSound' /\ item' \in [Places -> Block \cup {Null}]
  <2>1. \A b \in Places : item'[b] = IF b = itemCount - 1 THEN kept ELSE item[From(a, b)]
    <3> SUFFICES ASSUME NEW b \in Places
                 PROVE  item'[b] = IF b = itemCount - 1 THEN kept ELSE item[From(a, b)]
      OBVIOUS
    <3>1. CASE b = itemCount - 1
      BY <1>1, <1>5, <3>1, Sizes DEF ClosedUp
    <3>2. CASE b # itemCount - 1 /\ b \in a..(itemCount - 2)
      BY <1>5, <3>2 DEF ClosedUp, From
    <3>3. CASE b # itemCount - 1 /\ b \notin a..(itemCount - 2)
      BY <1>5, <3>3 DEF ClosedUp, From
    <3> QED
      BY <3>1, <3>2, <3>3
  <2>2. \A b \in Places : item'[b] # Null => item'[b] = item[From(a, b)]
    <3>1. From(a, itemCount - 1) = a
      BY DEF From
    <3> QED
      BY <2>1, <3>1
  <2>3. \A b \in Places : item'[b] # Null => item'[b] \in Allocated'
    <3> SUFFICES ASSUME NEW b \in Places, item'[b] # Null PROVE item'[b] \in Allocated'
      OBVIOUS
    <3>1. From(a, b) \in Places /\ (From(a, b) = a <=> b = itemCount - 1)
      BY FromIsOneToOne
    <3>2. item'[b] = item[From(a, b)] /\ item[From(a, b)] \in Allocated
      BY <2>2, <3>1 DEF PointersSound
    <3>3. CASE b = itemCount - 1
      BY <1>5, <2>1, <3>2, <3>3
    <3>4. CASE b # itemCount - 1
      BY <1>1, <1>2, <1>5, <3>1, <3>2, <3>4 DEF PointersSound
    <3> QED
      BY <3>3, <3>4
  <2>4. \A b, c \in Places : item'[b] = item'[c] /\ item'[b] # Null => b = c
    BY <2>2, FromIsOneToOne DEF PointersSound
  <2>5. \A b \in 0..(itemCount' - 1) : item'[b] # Null
    <3>1. \A b \in 0..(itemCount' - 1) : b \in 0..(itemCount - 2) /\ b \in Places /\ b # itemCount - 1
      BY <1>1, Sizes DEF Places
    <3> QED
      BY <2>1, <3>1, FromIsOneToOne DEF PointersSound
  <2>6. item' \in [Places -> Block \cup {Null}]
    <3>1. \A b \in Places : item'[b] \in Block \cup {Null}
      BY <1>1, <2>1, FromIsOneToOne DEF TypeOK
    <3> QED
      BY <1>5, <3>1 DEF ClosedUp
  <2> QED
    BY <2>3, <2>4, <2>5, <2>6 DEF PointersSound, Places
<1>6. CASE allocCount > MinAlloc
  <2>1. item' = ClosedUp(a, Null) /\ memory' = Release(memory, item[a])
    BY <1>6 DEF TakeOut
  <2>2. Allocated' = Allocated \ {item[a]}
    BY <2>1 DEF Release, Allocated
  <2>3. PointersSound' /\ item' \in [Places -> Block \cup {Null}]
    BY <1>5, <2>1, <2>2
  <2>4. Allocated' \subseteq Block /\ memory' \in [Allocated' -> Packet]
    BY <2>1, <2>2 DEF Release, TypeOK, Allocated
  <2>5. TypeOK'
    BY <1>1, <1>2, <1>4, <2>3, <2>4, Sizes DEF TypeOK, Places
  <2> QED
    BY <1>3, <2>3, <2>5
<1>7. CASE ~(allocCount > MinAlloc)
  <2>1. item' = ClosedUp(a, item[a]) /\ memory' = memory
    BY <1>7 DEF TakeOut
  <2>2. Allocated' = Allocated
    BY <2>1 DEF Allocated
  <2>3. PointersSound' /\ item' \in [Places -> Block \cup {Null}]
    BY <1>2, <1>5, <2>1, <2>2
  <2>4. TypeOK'
    BY <1>1, <1>2, <1>4, <2>1, <2>2, <2>3, Sizes DEF TypeOK, Places, Allocated
  <2> QED
    BY <1>3, <2>3, <2>4
<1> QED
  BY <1>6, <1>7

LEMMA NothingSound ==
  ASSUME IInv, UNCHANGED <<item, itemCount, allocCount, memory>>, taken' \in {taken, <<>>}
  PROVE  IInv'
BY DEF IInv, TypeOK, PointersSound, CountBounded, Allocated

LEMMA StepSound == IInv /\ [Next]_vars => IInv'
<1> SUFFICES ASSUME IInv, [Next]_vars PROVE IInv'
  OBVIOUS
<1>1. ASSUME NEW p \in Packet, srpc_queue_push(p) PROVE IInv'
  BY <1>1, AcceptSound, NothingSound DEF srpc_queue_push, Refuse
<1>2. ASSUME NEW id \in Ids \cup {0}, srpc_queue_pop(id) PROVE IInv'
  BY <1>2, TakeOutSound, NothingSound DEF srpc_queue_pop
<1>3. CASE UNCHANGED vars
  BY <1>3, NothingSound DEF vars
<1> QED
  BY <1>1, <1>2, <1>3 DEF Next

THEOREM Sound == Spec => []IInv
  BY InitSound, StepSound, PTL DEF Spec

(* The counters and the array keep their types: in particular alloc_count   *)
(* never wraps around.                                                      *)
THEOREM TypeCorrect == Spec => []TypeOK
<1>1. IInv => TypeOK
  BY DEF IInv
<1> QED
  BY <1>1, Sound, PTL

(* Every pointer of the array is to a live block of its own, so no packet   *)
(* is read from freed memory, freed twice or overwritten.                   *)
THEOREM PointersAreSound == Spec => []PointersSound
<1>1. IInv => PointersSound
  BY DEF IInv
<1> QED
  BY <1>1, Sound, PTL

(* The count of blocks is bounded by the packets that wait and the blocks   *)
(* that may be kept, although a reused block is counted again.              *)
THEOREM CountIsBounded == Spec => []CountBounded
<1>1. IInv => CountBounded
  BY DEF IInv
<1> QED
  BY <1>1, Sound, PTL

-----------------------------------------------------------------------------
(* No leak: the place from which closing up fills each place.              *)

To(a, c) ==
  IF c = a THEN itemCount - 1 ELSE IF c \in (a + 1)..(itemCount - 1) THEN c - 1 ELSE c

LEMMA EveryPlaceIsTaken ==
  ASSUME IInv, NEW a \in 0..(itemCount - 1), NEW c \in Places
  PROVE  To(a, c) \in Places /\ From(a, To(a, c)) = c
BY Sizes DEF IInv, TypeOK, Places, From, To

LEMMA ClosedUpValues ==
  ASSUME IInv, NEW a \in 0..(itemCount - 1), NEW kept, NEW c \in Places
  PROVE  IF c = a THEN ClosedUp(a, kept)[itemCount - 1] = kept
                  ELSE ClosedUp(a, kept)[To(a, c)] = item[c]
<1>1. itemCount \in 1..Size /\ a \in 0..(itemCount - 1) /\ itemCount - 1 \in Places
  BY Sizes DEF IInv, TypeOK, Places
<1>2. CASE c = a
  BY <1>1, <1>2, Sizes DEF ClosedUp
<1>3. CASE c # a /\ c \in (a + 1)..(itemCount - 1)
  <2>1. To(a, c) = c - 1 /\ c - 1 \in Places /\ c - 1 \in a..(itemCount - 2) /\ c - 1 # itemCount - 1
        /\ (c - 1) + 1 = c
    BY <1>1, <1>3, Sizes DEF To, Places
  <2> QED
    BY <1>3, <2>1 DEF ClosedUp
<1>4. CASE c # a /\ c \notin (a + 1)..(itemCount - 1)
  <2>1. To(a, c) = c /\ c \notin a..(itemCount - 2) /\ c # itemCount - 1
    BY <1>1, <1>4, Sizes DEF To, Places
  <2> QED
    BY <1>4, <2>1 DEF ClosedUp
<1> QED
  BY <1>2, <1>3, <1>4

LEMMA NoLeakStep == IInv /\ NoLeak /\ [Next]_vars => NoLeak'
<1> SUFFICES ASSUME IInv, NoLeak, [Next]_vars PROVE NoLeak'
  OBVIOUS
<1>1. ASSUME NEW p \in Packet, Accept(p) PROVE NoLeak'
  <2>1. PICK b \in Block : /\ Place(b)
                           /\ item' = [item EXCEPT ![itemCount] = b]
                           /\ memory' = Store(memory, b, p)
    BY <1>1 DEF Accept
  <2>2. Allocated' = Allocated \cup {b}
    BY <2>1 DEF Store, Allocated
  <2>3. itemCount \in Places /\ \A a \in Places : item'[a] = IF a = itemCount THEN b ELSE item[a]
    BY <1>1, <2>1, Sizes DEF Accept, IInv, TypeOK, Places
  <2>4. ASSUME NEW c \in Allocated, c # b PROVE \E a \in Places : item'[a] = c
    <3>1. PICK a \in Places : item[a] = c
      BY <2>4 DEF NoLeak
    <3>2. c # Null
      BY <2>4, Sizes DEF IInv, TypeOK
    <3>3. a # itemCount
      BY <2>1, <2>4, <3>1, <3>2 DEF Place
    <3> QED
      BY <2>3, <3>1, <3>3
  <2> QED
    BY <2>2, <2>3, <2>4 DEF NoLeak, Places
<1>2. ASSUME NEW a \in 0..(itemCount - 1), TakeOut(a) PROVE NoLeak'
  <2>1. itemCount - 1 \in Places /\ a \in Places
    BY Sizes DEF IInv, TypeOK, Places
  <2>2. PICK kept \in {Null, item[a]} :
          /\ item' = ClosedUp(a, kept)
          /\ Allocated' = IF kept = item[a] THEN Allocated ELSE Allocated \ {item[a]}
    <3>1. item[a] # Null
      BY <2>1 DEF IInv, PointersSound
    <3>2. CASE allocCount > MinAlloc
      BY <1>2, <3>1, <3>2 DEF TakeOut, Release, Allocated
    <3>3. CASE ~(allocCount > MinAlloc)
      BY <1>2, <3>1, <3>3 DEF TakeOut, Allocated
    <3> QED
      BY <3>2, <3>3
  <2>3. ASSUME NEW c \in Allocated' PROVE \E b \in Places : item'[b] = c
    <3>1. PICK d \in Places : item[d] = c
      BY <2>2, <2>3 DEF NoLeak
    <3>2. CASE d = a
      <4>1. kept = item[a]
        BY <2>2, <2>3, <3>1, <3>2
      <4> QED
        BY <2>1, <2>2, <3>1, <3>2, <4>1, ClosedUpValues
    <3>3. CASE d # a
      BY <2>2, <3>1, <3>3, ClosedUpValues, EveryPlaceIsTaken
    <3> QED
      BY <3>2, <3>3
  <2> QED
    BY <2>3 DEF NoLeak, Places
<1>3. CASE UNCHANGED <<item, memory>>
  BY <1>3 DEF NoLeak, Allocated
<1> QED
  BY <1>1, <1>2, <1>3 DEF Next, srpc_queue_push, srpc_queue_pop, Refuse, vars

(* Every block that was allocated can be reached until it is freed.        *)
THEOREM NothingLeaks == Spec => []NoLeak
<1>1. Init => NoLeak
  BY DEF Init, NoLeak, Allocated
<1> QED
  BY <1>1, NoLeakStep, Sound, PTL DEF Spec

-----------------------------------------------------------------------------
(* The count is never less than the number of blocks.                      *)
CountCovers == IsFiniteSet(Allocated) /\ Cardinality(Allocated) <= allocCount

LEMMA CountCoversStep == IInv /\ CountCovers /\ [Next]_vars => CountCovers'
<1> SUFFICES ASSUME IInv, CountCovers, [Next]_vars PROVE CountCovers'
  OBVIOUS
<1>0. Cardinality(Allocated) \in Nat /\ allocCount \in Nat
  BY FS_CardinalityType DEF CountCovers, IInv, TypeOK
<1>1. ASSUME NEW p \in Packet, Accept(p) PROVE CountCovers'
  <2>1. PICK b \in Block : memory' = Store(memory, b, p)
    BY <1>1 DEF Accept
  <2>2. Allocated' = Allocated \cup {b} /\ allocCount' = allocCount + 1
    BY <1>1, <2>1 DEF Accept, Store, Allocated
  <2>3. IsFiniteSet(Allocated \cup {b})
        /\ Cardinality(Allocated \cup {b}) \in {Cardinality(Allocated), Cardinality(Allocated) + 1}
    BY FS_AddElement DEF CountCovers
  <2> QED
    BY <1>0, <2>2, <2>3 DEF CountCovers
<1>2. ASSUME NEW a \in 0..(itemCount - 1), TakeOut(a) PROVE CountCovers'
  <2>1. item[a] \in Allocated
    BY Sizes DEF IInv, TypeOK, Places, PointersSound
  <2>2. CASE allocCount > MinAlloc
    <3>1. Allocated' = Allocated \ {item[a]} /\ allocCount' = allocCount - 1
      BY <1>2, <2>2 DEF TakeOut, Release, Allocated
    <3>2. IsFiniteSet(Allocated \ {item[a]})
          /\ Cardinality(Allocated \ {item[a]}) = Cardinality(Allocated) - 1
      BY <2>1, FS_RemoveElement DEF CountCovers
    <3> QED
      BY <1>0, <3>1, <3>2 DEF CountCovers
  <2>3. CASE ~(allocCount > MinAlloc)
    BY <1>2, <2>3 DEF TakeOut, CountCovers, Allocated
  <2> QED
    BY <2>2, <2>3
<1>3. CASE UNCHANGED <<memory, allocCount>>
  BY <1>3 DEF CountCovers, Allocated
<1> QED
  BY <1>1, <1>2, <1>3 DEF Next, srpc_queue_push, srpc_queue_pop, Refuse, vars

(* An emptied queue holds no more than the blocks it may keep.             *)
THEOREM FewAreKept == Spec => []KeepsFew
<1>1. Init => CountCovers
  BY FS_EmptySet DEF Init, CountCovers, Allocated
<1>2. IInv /\ CountCovers => KeepsFew
  <2> SUFFICES ASSUME IInv, CountCovers PROVE KeepsFew
    OBVIOUS
  <2>1. Cardinality(Allocated) \in Nat
    BY FS_CardinalityType DEF CountCovers
  <2> QED
    BY <2>1, Sizes DEF IInv, TypeOK, CountCovers, CountBounded, KeepsFew
<1> QED
  BY <1>1, <1>2, CountCoversStep, Sound, PTL DEF Spec

-----------------------------------------------------------------------------
(* The array implements the FIFO.                                          *)

Waiting == [i \in 1..itemCount |-> memory[item[i - 1]]]

LEMMA WaitingIsSeq ==
  ASSUME IInv
  PROVE  /\ Waiting \in Seq(Packet) /\ Len(Waiting) = itemCount
         /\ \A i \in 1..itemCount : /\ i - 1 \in 0..(itemCount - 1) /\ i - 1 \in Places
                                    /\ Waiting[i] = memory[item[i - 1]]
<1>1. itemCount \in Nat
  BY Sizes DEF IInv, TypeOK
<1>2. \A i \in 1..itemCount : i - 1 \in 0..(itemCount - 1) /\ i - 1 \in Places
  BY <1>1, Sizes DEF IInv, TypeOK, Places
<1>3. \A i \in 1..itemCount : memory[item[i - 1]] \in Packet
  BY <1>2 DEF IInv, TypeOK, PointersSound
<1> QED
  BY <1>1, <1>2, <1>3 DEF Waiting

LEMMA PushImplements ==
  ASSUME IInv, IInv', NEW p \in Packet, Accept(p)
  PROVE  Fifo!Push(p)
<1>1. PICK b \in Block : /\ Place(b)
                         /\ item' = [item EXCEPT ![itemCount] = b]
                         /\ memory' = Store(memory, b, p)
  BY DEF Accept
<1>2. itemCount \in Nat /\ itemCount \in Places /\ itemCount < Size
      /\ itemCount' = itemCount + 1 /\ taken' = <<>>
  BY Sizes DEF Accept, IInv, TypeOK, Places
<1>3. ASSUME NEW i \in 1..itemCount PROVE memory'[item'[i - 1]] = memory[item[i - 1]]
  <2>1. i - 1 \in 0..(itemCount - 1) /\ i - 1 \in Places /\ i - 1 # itemCount
    BY <1>2, Sizes DEF Places
  <2>2. item'[i - 1] = item[i - 1] /\ item[i - 1] # Null /\ item[i - 1] \in Allocated
    BY <1>1, <2>1 DEF IInv, TypeOK, PointersSound
  <2>3. item[i - 1] # b
    BY <1>1, <1>2, <2>1, <2>2 DEF Place, IInv, PointersSound
  <2> QED
    BY <1>1, <2>2, <2>3 DEF Store, Allocated
<1>4. memory'[item'[itemCount]] = p
  BY <1>1, <1>2 DEF Store, IInv, TypeOK
<1>5. Waiting' = Append(Waiting, p)
  <2>1. \A i \in 1..(itemCount + 1) :
          memory'[item'[i - 1]] = IF i = itemCount + 1 THEN p ELSE memory[item[i - 1]]
    <3>1. \A i \in 1..(itemCount + 1) : (i = itemCount + 1 /\ i - 1 = itemCount) \/ i \in 1..itemCount
      BY <1>2
    <3>2. itemCount + 1 \notin 1..itemCount
      BY <1>2
    <3> QED
      BY <1>3, <1>4, <3>1, <3>2
  <2>2. Waiting' = [i \in 1..(itemCount + 1) |-> memory'[item'[i - 1]]]
    BY <1>2 DEF Waiting
  <2>3. Append(Waiting, p) = [i \in 1..(itemCount + 1) |->
                               IF i = itemCount + 1 THEN p ELSE memory[item[i - 1]]]
    BY <1>2, WaitingIsSeq DEF Waiting
  <2> QED
    BY <2>1, <2>2, <2>3
<1> QED
  BY <1>2, <1>5, WaitingIsSeq DEF Fifo!Push, Waiting

LEMMA PopImplements ==
  ASSUME IInv, IInv', NEW id \in Ids \cup {0}, NEW a \in 0..(itemCount - 1),
         IsFirst(a, id), TakeOut(a)
  PROVE  Fifo!Pop(id)
<1>1. itemCount \in Nat /\ a \in Places /\ a + 1 \in 1..itemCount /\ itemCount' = itemCount - 1
      /\ itemCount - 1 \in Nat
  BY Sizes DEF IInv, TypeOK, Places, TakeOut
<1>2. Waiting[a + 1] = memory[item[a]] /\ taken' = <<memory[item[a]]>>
  BY <1>1 DEF Waiting, TakeOut
<1>3. Fifo!Wanted(Waiting[a + 1], id)
  BY <1>2 DEF IsFirst, Wanted, Fifo!Wanted
<1>4. \A j \in 1..a : ~Fifo!Wanted(Waiting[j], id)
  <2>1. \A j \in 1..a : j \in 1..itemCount /\ j - 1 \in 0..(a - 1)
    BY <1>1
  <2> QED
    BY <2>1, WaitingIsSeq DEF IsFirst, Wanted, Fifo!Wanted
<1>5. ASSUME NEW i \in 1..(itemCount - 1)
      PROVE  memory'[item'[i - 1]] = IF i < a + 1 THEN memory[item[i - 1]] ELSE memory[item[i]]
  <2> DEFINE c == IF i < a + 1 THEN i - 1 ELSE i
  <2>1. i - 1 \in Places /\ i - 1 # itemCount - 1 /\ c \in 0..(itemCount - 1) /\ c \in Places /\ c # a
        /\ (i < a + 1 => i - 1 \notin a..(itemCount - 2))
        /\ (~(i < a + 1) => i - 1 \in a..(itemCount - 2)) /\ (i - 1) + 1 = i
    BY <1>1, Sizes DEF IInv, TypeOK, Places
  <2>2. \A kept : ClosedUp(a, kept)[i - 1] = item[c]
    BY <2>1 DEF ClosedUp
  <2>3. item'[i - 1] = item[c]
    BY <2>2 DEF TakeOut
  <2>4. item[c] # Null /\ item[c] \in Allocated /\ item[c] # item[a]
    BY <1>1, <2>1 DEF IInv, PointersSound
  <2>5. memory'[item[c]] = memory[item[c]]
    <3>1. CASE allocCount > MinAlloc
      BY <2>4, <3>1 DEF TakeOut, Release, Allocated
    <3>2. CASE ~(allocCount > MinAlloc)
      BY <3>2 DEF TakeOut
    <3> QED
      BY <3>1, <3>2
  <2> QED
    BY <2>3, <2>5
<1>6. Waiting' = Fifo!Without(Waiting, a + 1)
  <2>1. Waiting' = [i \in 1..(itemCount - 1) |-> memory'[item'[i - 1]]]
    BY <1>1 DEF Waiting
  <2>2. \A i \in 1..(itemCount - 1) : /\ Waiting[i] = memory[item[i - 1]]
                                      /\ Waiting[i + 1] = memory[item[i]]
    <3>1. \A i \in 1..(itemCount - 1) : i \in 1..itemCount /\ i + 1 \in 1..itemCount /\ (i + 1) - 1 = i
      BY <1>1
    <3> QED
      BY <3>1, WaitingIsSeq
  <2>3. Fifo!Without(Waiting, a + 1)
          = [i \in 1..(itemCount - 1) |-> IF i < a + 1 THEN Waiting[i] ELSE Waiting[i + 1]]
    BY WaitingIsSeq DEF Fifo!Without
  <2> QED
    BY <1>5, <2>1, <2>2, <2>3
<1> QED
  <2>1. (a + 1) - 1 = a
    BY <1>1
  <2> QED
    BY <1>1, <1>2, <1>3, <1>4, <1>6, <2>1, WaitingIsSeq DEF Fifo!Pop, Waiting

LEMMA StepImplements ==
  IInv /\ IInv' /\ [Next]_vars => [Fifo!Next]_<<Waiting, taken>>
<1> SUFFICES ASSUME IInv, IInv', [Next]_vars PROVE [Fifo!Next]_<<Waiting, taken>>
  OBVIOUS
<1>1. ASSUME NEW p \in Packet, Accept(p) PROVE Fifo!Next
  BY <1>1, PushImplements DEF Fifo!Next
<1>2. ASSUME NEW id \in Ids \cup {0}, NEW a \in 0..(itemCount - 1), IsFirst(a, id), TakeOut(a)
      PROVE  Fifo!Next
  BY <1>2, PopImplements DEF Fifo!Next
<1>3. ASSUME UNCHANGED <<item, itemCount, memory>>, taken' = <<>> PROVE Fifo!Next
  BY <1>3 DEF Fifo!Next, Fifo!Nothing
<1>4. CASE UNCHANGED vars
  BY <1>4 DEF vars, Waiting
<1> QED
  BY <1>1, <1>2, <1>3, <1>4 DEF Next, srpc_queue_push, srpc_queue_pop, Refuse

(* For every size: packets leave the array of blocks in the order and with  *)
(* the contents in which they came, whatever is refused, taken from the     *)
(* middle, freed and reused between.                                        *)
THEOREM QueueImplementsFifo == Spec => ImplementsFifo
<1>1. Init => Fifo!Init
  BY DEF Init, Fifo!Init
<1> QED
  BY <1>1, StepImplements, Sound, PTL DEF Spec, ImplementsFifo, Fifo!Spec, Waiting
=============================================================================
