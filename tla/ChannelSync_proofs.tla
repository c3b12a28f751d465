------------------------- MODULE ChannelSync_proofs -------------------------
(***************************************************************************)
(* Proofs about ChannelSync, for any list of channels, any values, any     *)
(* size of the queue and any width of the flag that keeps an identifier.   *)
(*                                                                         *)
(* Types come first, then KeptUntilQueued, which needs nothing but them.   *)
(* ValuesShown follows from what is known of the packets on their way: the *)
(* link followed by the queue is what the server will be told.             *)
(***************************************************************************)
EXTENDS ChannelSync, SequenceTheorems, TLAPS

-----------------------------------------------------------------------------
(* Types                                                                    *)

LEMMA LenOrder == Len(Order) \in Nat /\ \A i \in 1..Len(Order) : Order[i] \in Slots
BY SyncAssumption DEF Slots

LEMMA PacketKinds ==
  ASSUME TypeOK
  PROVE  /\ Other \in Packet /\ Registration(form) \in Packet
         /\ \A s \in Slots : Data(s) \in Packet
BY DEF TypeOK, Packet, Other, Registration, Data

LEMMA PushTyped ==
  ASSUME TypeOK, NEW p \in Packet, srpc_queue_push(p)
  PROVE  queue' \in Seq(Packet) /\ Len(queue') <= QueueSize
BY SyncAssumption DEF TypeOK, srpc_queue_push, HasRoom

LEMMA IdTyped == ASSUME TypeOK, NEW n \in Nat PROVE (lastId + n) % IdWrap \in 0..(IdWrap - 1)
BY SyncAssumption DEF TypeOK

LEMMA CallTyped ==
  ASSUME TypeOK, NEW p \in Packet, srpc_async_call(p)
  PROVE  /\ queue' \in Seq(Packet) /\ Len(queue') <= QueueSize
         /\ lastId' \in 0..(IdWrap - 1)
BY PushTyped, IdTyped DEF srpc_async_call, NextId

LEMMA WriteTyped ==
  ASSUME TypeOK, NEW p \in Packet, Write(p)
  PROVE  link' \in Seq(Packet) /\ Len(link') <= LinkCap
BY SyncAssumption DEF TypeOK, Write

LEMMA PerhapsOtherTyped ==
  ASSUME TypeOK, PerhapsOther
  PROVE  /\ queue' \in Seq(Packet) /\ Len(queue') <= QueueSize
         /\ lastId' \in 0..(IdWrap - 1) /\ lull' \in 0..OtherGap
<1>1. CASE srpc_async_call(Other) /\ lull' = 0
  BY <1>1, CallTyped, PacketKinds, SyncAssumption
<1>2. CASE UNCHANGED <<queue, lull, lastId>>
  BY <1>2 DEF TypeOK
<1> QED
  BY <1>1, <1>2 DEF PerhapsOther

LEMMA FilledTyped ==
  ASSUME NEW q \in Seq(Packet), NEW m \in Nat
  PROVE  LET f == [i \in 1..m |-> IF i <= Len(q) THEN q[i] ELSE Other]
         IN  f \in Seq(Packet) /\ Len(f) = m
BY SeqDef DEF Packet

LEMMA AfterRegistrationTyped ==
  ASSUME TypeOK, AfterRegistration
  PROVE  /\ queue' \in Seq(Packet) /\ Len(queue') <= QueueSize
         /\ lastId' \in 0..(IdWrap - 1)
<1>1. PICK n \in 0..MaxBurst :
        /\ lastId' = (lastId + n) % IdWrap
        /\ queue' = [i \in 1..(IF Len(queue) + n < QueueSize THEN Len(queue) + n
                                                             ELSE QueueSize)
                      |-> IF i <= Len(queue) THEN queue[i] ELSE Other]
  BY DEF AfterRegistration
<1> DEFINE m == IF Len(queue) + n < QueueSize THEN Len(queue) + n ELSE QueueSize
<1>2. n \in Nat /\ queue \in Seq(Packet) /\ m \in Nat /\ m <= QueueSize
  BY SyncAssumption DEF TypeOK
<1>3. queue' = [i \in 1..m |-> IF i <= Len(queue) THEN queue[i] ELSE Other]
  BY <1>1
<1> HIDE DEF m
<1> QED
  BY <1>1, <1>2, <1>3, IdTyped, FilledTyped

(* A setter stores what it is given or leaves the slot alone; it marks what *)
(* is new, and whatever it stores that differs.                            *)
Effect(s, v) ==
  /\ Ask(s, v)
  /\ \/ Mark(s) /\ (Store(s, v) \/ UNCHANGED data)
     \/ UNCHANGED sync /\ ~New(s, v) /\ (UNCHANGED data \/ (Store(s, v) /\ v = data[s]))

LEMMA ValueEffect ==
  ASSUME NEW s, NEW v, supla_channel_set_value(s, v) PROVE Effect(s, v)
<1>1. s.kind = "val" /\ Ask(s, v) /\ Store(s, v)
  BY DEF supla_channel_set_value
<1>2. CASE v # data[s] \/ ~OnChange
  BY <1>1, <1>2 DEF supla_channel_set_value, Effect
<1>3. CASE ~(v # data[s] \/ ~OnChange)
  <2>1. UNCHANGED sync
    BY <1>3 DEF supla_channel_set_value
  <2>2. ~New(s, v)
    BY <1>1, <1>3 DEF New
  <2> QED
    BY <1>1, <1>3, <2>1, <2>2 DEF Effect
<1> QED
  BY <1>2, <1>3

LEMMA ExtvalEffect ==
  ASSUME NEW s, NEW v, supla_channel_set_extval(s, v) PROVE Effect(s, v)
<1>1. s.kind = "ext" /\ Ask(s, v)
  BY DEF supla_channel_set_extval
<1>2. CASE ~Alike(v, data[s]) /\ Store(s, v) /\ Mark(s)
  BY <1>1, <1>2 DEF Effect
<1>3. CASE Mark(s) /\ UNCHANGED data
  BY <1>1, <1>3 DEF Effect
<1>4. CASE Alike(v, data[s]) /\ OnChange /\ UNCHANGED <<sync, data>>
  <2>1. ~New(s, v)
    BY <1>1, <1>4 DEF New
  <2> QED
    BY <1>1, <1>4, <2>1 DEF Effect
<1> QED
  BY <1>2, <1>3, <1>4 DEF supla_channel_set_extval

LEMMA SetEffect ==
  ASSUME NEW s \in Slots, Set(s) PROVE \E v \in Value : Effect(s, v)
<1>1. PICK v \in Stock[s.kind] :
        \/ supla_channel_set_value(s, v)
        \/ supla_channel_set_extval(s, v)
        \/ supla_channel_emit_action(s, v)
  BY DEF Set
<1>2. s.kind \in Kinds
  <2>1. PICK i \in 1..Len(Order) : s = Order[i]
    BY DEF Slots
  <2>2. Order[i] \in [ch : Nat, kind : Kinds]
    BY ElementOfSeq, SyncAssumption
  <2> QED
    BY <2>1, <2>2
<1>3. v \in Value
  BY <1>2, SyncAssumption
<1>4. supla_channel_emit_action(s, v) => Effect(s, v)
  BY DEF supla_channel_emit_action, Effect
<1> QED
  BY <1>1, <1>3, <1>4, ValueEffect, ExtvalEffect

LEMMA SetTyped ==
  ASSUME TypeOK, NEW s \in Slots, Set(s)
  PROVE  /\ data' \in [Slots -> Value] /\ asked' \in [Slots -> Value]
         /\ sync' \in [Slots -> BOOLEAN] /\ fresh' \in [Slots -> BOOLEAN]
         /\ UNCHANGED session
<1>1. PICK v \in Value : Effect(s, v)
  BY SetEffect
<1>2. /\ asked' = [asked EXCEPT ![s] = v] /\ UNCHANGED session
      /\ fresh' = [fresh EXCEPT ![s] = @ \/ New(s, v)]
  BY <1>1 DEF Effect, Ask
<1>3. New(s, v) \in BOOLEAN
  BY DEF New
<1>4. asked' \in [Slots -> Value] /\ fresh' \in [Slots -> BOOLEAN]
  BY <1>2, <1>3 DEF TypeOK
<1>5. data' \in [Slots -> Value]
  BY <1>1 DEF Effect, TypeOK, Store
<1>6. sync' \in [Slots -> BOOLEAN]
  BY <1>1 DEF Effect, TypeOK, Mark
<1> QED
  BY <1>2, <1>4, <1>5, <1>6

LEMMA SyncSlotTyped ==
  ASSUME TypeOK, SyncSlot
  PROVE  TypeOK'
<1>1. pos \in 1..Len(Order) /\ Order[pos] \in Slots /\ pos' \in 1..(Len(Order) + 1)
  BY LenOrder DEF TypeOK, SyncSlot
<1>2. CASE sync[Order[pos]]
  BY <1>1, <1>2 DEF TypeOK, SyncSlot, server
<1>3. CASE ~sync[Order[pos]]
  <2>1. /\ queue' \in Seq(Packet) /\ Len(queue') <= QueueSize
        /\ lastId' \in 0..(IdWrap - 1)
    BY <1>1, <1>3, CallTyped, PacketKinds DEF SyncSlot
  <2>2. Returned \in BOOLEAN /\ HasRoom \in BOOLEAN
    BY DEF Returned, HasRoom
  <2>3. sync' \in [Slots -> BOOLEAN] /\ fresh' \in [Slots -> BOOLEAN]
    BY <1>3, <2>2 DEF TypeOK, SyncSlot
  <2> QED
    BY <1>1, <2>1, <2>3 DEF TypeOK, SyncSlot, server
<1> QED
  BY <1>2, <1>3

LEMMA SrpcWriteTyped ==
  ASSUME TypeOK, SrpcWrite
  PROVE  TypeOK'
<1>1. lull' \in 0..OtherGap
  BY SyncAssumption DEF TypeOK, SrpcWrite
<1>2. CASE queue = <<>>
  BY <1>1, <1>2 DEF TypeOK, SrpcWrite, channels, server
<1>3. CASE queue # <<>>
  <2>1. Head(queue) \in Packet /\ Tail(queue) \in Seq(Packet) /\ Len(Tail(queue)) <= QueueSize
    BY <1>3, SyncAssumption DEF TypeOK
  <2>2. link' \in Seq(Packet) /\ Len(link') <= LinkCap
    BY <1>3, <2>1, WriteTyped DEF SrpcWrite
  <2> QED
    BY <1>1, <1>3, <2>1, <2>2 DEF TypeOK, SrpcWrite, channels, server
<1> QED
  BY <1>2, <1>3

LEMMA ServerTyped ==
  ASSUME TypeOK, ServerAccepts \/ ServerRefuses \/ ServerReads
  PROVE  TypeOK'
<1>1. link # <<>> /\ link' = Tail(link)
  BY DEF ServerAccepts, ServerRefuses, ServerReads
<1>2. Head(link) \in Packet /\ link' \in Seq(Packet) /\ Len(link') <= LinkCap
  BY <1>1, SyncAssumption DEF TypeOK
<1>3. CASE ServerAccepts
  <2>1. Head(link).values \in [Valued -> Value]
    BY <1>2, <1>3 DEF ServerAccepts, Packet, Other
  <2>2. view' \in [Slots -> Value]
    BY <1>3, <2>1 DEF ServerAccepts, TypeOK
  <2> QED
    BY <1>2, <1>3, <2>2 DEF ServerAccepts, TypeOK, channels
<1>4. CASE ServerRefuses
  BY <1>2, <1>4 DEF ServerRefuses, TypeOK, channels, server
<1>5. CASE ServerReads
  <2>1. Head(link).tag = "data" => Head(link).value \in Value
    BY <1>2 DEF Packet, Other
  <2>2. view' \in [Slots -> Value]
    BY <1>5, <2>1 DEF ServerReads, TypeOK
  <2> QED
    BY <1>2, <1>5, <2>2 DEF ServerReads, TypeOK, channels
<1> QED
  BY <1>3, <1>4, <1>5

LEMMA TypeStep == TypeOK /\ [Next]_vars => TypeOK'
<1> SUFFICES ASSUME TypeOK, [Next]_vars PROVE TypeOK'
  OBVIOUS
<1>1. CASE Connect \/ LinkLost
  <2>1. link' = <<>>
    BY <1>1 DEF Connect, LinkLost
  <2>2. link' \in Seq(Packet) /\ Len(link') <= LinkCap
    BY <2>1, SyncAssumption
  <2> QED
    BY <1>1, <2>2 DEF TypeOK, Connect, LinkLost, channels, server
<1>2. CASE WaitForResult \/ SrpcFails
  BY <1>2 DEF TypeOK, WaitForResult, SrpcFails, channels, server
<1>10. CASE GiveUp
  <2>1. phase' \in {"free", "srpc"}
    BY <1>10 DEF GiveUp
  <2> QED
    BY <1>10, <2>1 DEF TypeOK, GiveUp, channels, server
<1>11. CASE EndSync
  <2>1. pos' \in 1..(Len(Order) + 1)
    BY <1>11, LenOrder DEF EndSync
  <2> QED
    BY <1>11, <2>1 DEF TypeOK, EndSync, channels, server
<1>3. CASE RegisterChannel
  <2>1. pos \in 1..Len(Order) /\ pos' \in 1..(Len(Order) + 1)
    BY <1>3, LenOrder DEF TypeOK, RegisterChannel
  <2>2. form' \in [Valued -> Value]
    BY <1>3, <2>1, LenOrder DEF TypeOK, RegisterChannel, Valued
  <2> QED
    BY <1>3, <2>1, <2>2 DEF TypeOK, RegisterChannel, channels, server
<1>4. CASE RegisterSent
  <2>1. link' \in Seq(Packet) /\ Len(link') <= LinkCap
    BY <1>4, WriteTyped, PacketKinds DEF RegisterSent
  <2>2. lastId' \in 0..(IdWrap - 1)
    BY <1>4, IdTyped DEF RegisterSent, NextId
  <2>3. form' \in [Valued -> Value] /\ pos' \in 1..(Len(Order) + 1)
    BY <1>4, SyncAssumption, LenOrder DEF RegisterSent, Blank
  <2> QED
    BY <1>4, <2>1, <2>2, <2>3 DEF TypeOK, RegisterSent, channels, server
<1>5. CASE AfterRegistration
  BY <1>5, AfterRegistrationTyped DEF TypeOK, AfterRegistration, channels, server
<1>6. CASE BeginSync
  BY <1>6, PerhapsOtherTyped DEF TypeOK, BeginSync, channels, server
<1>7. CASE ReadResult \/ ReadOther
  BY <1>7, PerhapsOtherTyped DEF TypeOK, ReadResult, ReadOther, channels, server
<1>8. ASSUME NEW s \in Slots, Set(s) PROVE TypeOK'
  BY <1>8, SetTyped DEF TypeOK, session, server
<1>9. CASE UNCHANGED vars
  BY <1>9 DEF TypeOK, vars
<1> QED
  BY <1>1, <1>2, <1>3, <1>4, <1>5, <1>6, <1>7, <1>8, <1>9, <1>10, <1>11,
     SyncSlotTyped, SrpcWriteTyped, ServerTyped DEF Next, Iterate

LEMMA TypeStarts == Init => TypeOK
<1> SUFFICES ASSUME Init PROVE TypeOK
  OBVIOUS
<1>1. queue \in Seq(Packet) /\ Len(queue) <= QueueSize /\ link \in Seq(Packet) /\ Len(link) <= LinkCap
  BY SyncAssumption DEF Init
<1>2. data \in [Slots -> Value] /\ view \in [Slots -> Value] /\ form \in [Valued -> Value]
      /\ sync \in [Slots -> BOOLEAN] /\ fresh \in [Slots -> BOOLEAN]
      /\ asked \in [Slots -> Value]
  BY SyncAssumption DEF Init, Blank
<1>3. lull \in 0..OtherGap /\ lastId \in 0..(IdWrap - 1) /\ pos \in 1..(Len(Order) + 1)
  BY SyncAssumption, LenOrder DEF Init
<1> QED
  BY <1>1, <1>2, <1>3 DEF Init, TypeOK

(* Every variable keeps its type; srpc_queue_push never passes the size of  *)
(* the queue, and nothing is written to a link that is full.               *)
THEOREM Typed == Spec => []TypeOK
BY TypeStarts, TypeStep, PTL DEF Spec

-----------------------------------------------------------------------------
(* What is set is not forgotten.                                            *)

LEMMA SetMarks ==
  ASSUME TypeOK, KeptUntilQueued, NEW s \in Slots, Set(s) PROVE KeptUntilQueued'
<1>1. PICK v \in Value : Effect(s, v)
  BY SetEffect
<1>2. fresh' = [fresh EXCEPT ![s] = @ \/ New(s, v)]
  BY <1>1 DEF Effect, Ask
<1>3. CASE Mark(s)
  BY <1>2, <1>3 DEF TypeOK, KeptUntilQueued, Mark
<1>4. CASE UNCHANGED sync /\ ~New(s, v)
  <2>1. \A t \in Slots : fresh'[t] => fresh[t]
    BY <1>2, <1>4 DEF TypeOK
  <2> QED
    BY <1>4, <2>1 DEF KeptUntilQueued
<1> QED
  BY <1>1, <1>3, <1>4 DEF Effect

LEMMA SyncSlotMarks ==
  ASSUME TypeOK, KeptUntilQueued, SyncSlot PROVE KeptUntilQueued'
<1>1. Order[pos] \in Slots
  BY LenOrder DEF SyncSlot, TypeOK
<1>2. CASE sync[Order[pos]]
  BY <1>2 DEF SyncSlot, KeptUntilQueued
<1>3. CASE ~sync[Order[pos]]
  <2>1. /\ sync' = [sync EXCEPT ![Order[pos]] = Returned]
        /\ fresh' = [fresh EXCEPT ![Order[pos]] = @ /\ ~HasRoom]
    BY <1>3 DEF SyncSlot
  <2>2. Returned => HasRoom
    BY DEF Returned
  <2>3. Returned \in BOOLEAN /\ HasRoom \in BOOLEAN
    BY DEF Returned, HasRoom
  <2> QED
    BY <1>1, <2>1, <2>2, <2>3 DEF TypeOK, KeptUntilQueued
<1> QED
  BY <1>2, <1>3

LEMMA KeptStep == TypeOK /\ KeptUntilQueued /\ [Next]_vars => KeptUntilQueued'
<1> SUFFICES ASSUME TypeOK, KeptUntilQueued, [Next]_vars PROVE KeptUntilQueued'
  OBVIOUS
<1>1. ASSUME UNCHANGED <<sync, fresh>> PROVE KeptUntilQueued'
  BY <1>1 DEF KeptUntilQueued
<1>2. CASE Connect \/ RegisterChannel \/ RegisterSent \/ WaitForResult \/ AfterRegistration
  BY <1>1, <1>2
  DEF Connect, RegisterChannel, RegisterSent, WaitForResult, AfterRegistration, channels
<1>3. CASE BeginSync \/ EndSync \/ ReadResult \/ ReadOther \/ SrpcWrite
  BY <1>1, <1>3 DEF BeginSync, EndSync, ReadResult, ReadOther, SrpcWrite, channels
<1>4. CASE SrpcFails \/ GiveUp
  BY <1>1, <1>4 DEF SrpcFails, GiveUp, channels
<1>5. CASE LinkLost \/ ServerAccepts \/ ServerRefuses \/ ServerReads
  BY <1>1, <1>5 DEF LinkLost, ServerAccepts, ServerRefuses, ServerReads, channels
<1>6. CASE UNCHANGED vars
  BY <1>1, <1>6 DEF vars
<1> QED
  BY <1>2, <1>3, <1>4, <1>5, <1>6, SetMarks, SyncSlotMarks DEF Next, Iterate

(* What a setter recognised as new stays marked until it is queued,         *)
(* whatever the size of the queue, the order of the channels and the       *)
(* moment of setting; an extended value is recognised by its beginning     *)
(* only, and of two actions the later is what is kept.                      *)
THEOREM NothingForgotten == Spec => []KeptUntilQueued
<1>1. Init => KeptUntilQueued
  BY DEF Init, KeptUntilQueued
<1> QED
  BY <1>1, Typed, KeptStep, PTL DEF Spec

-----------------------------------------------------------------------------
(* What the server will be told.                                            *)

(* The last of the packets that carries s. *)
Latest(packets, s, i) ==
  /\ i \in 1..Len(packets) /\ Carries(packets[i], s)
  /\ \A j \in (i + 1)..Len(packets) : ~Carries(packets[j], s)

(* Outside its two loops the iterating thread is at the first slot. *)
PositionsFit == phase \notin {"register", "sync"} => pos = 1

(* A connection carries one registration, ahead of everything else, and    *)
(* the server accepts the device no sooner than it has read it.            *)
LinkInOrder ==
  /\ accepted \/ link # <<>> => linkUp
  /\ phase = "register" => link = <<>> /\ ~accepted
  /\ \A i \in 1..Len(link) : link[i].tag = "registration" => i = 1 /\ ~accepted
  /\ \A i \in 1..Len(queue) : queue[i].tag # "registration"

(* The last packet of s that the server will read carries what s holds. *)
LatestIsCurrent(s) ==
  /\ \A i \in 1..Len(queue) : Latest(queue, s, i) => queue[i].value = data[s]
  /\ ~Contains(queue, s) =>
       \A i \in 1..Len(link) : Latest(link, s, i) => link[i].value = data[s]

(* So does the registration that is being written, once it is past s ...   *)
FormIsCurrent(s) ==
  phase = "register" /\ (\E k \in 1..(pos - 1) : Order[k] = s) => form[s] = data[s]

(* ... and the one on the link, if no packet of s comes after it.          *)
RegistrationIsCurrent(s) ==
  link # <<>> /\ link[1].tag = "registration" /\ ~Contains(link, s)
    => link[1].values[s] = data[s]

(* All this of a slot with nothing left to send. A slot that was set after *)
(* the registration told of it is marked, and has to be queued before      *)
(* anything is claimed of it again.                                        *)
OnItsWay(s) ==
  sync[s] => /\ LatestIsCurrent(s)
             /\ ~Contains(queue, s) => FormIsCurrent(s) /\ RegistrationIsCurrent(s)

(* The inductive invariant. *)
IInv ==
  /\ TypeOK /\ PositionsFit /\ LinkInOrder
  /\ \A s \in Valued : OnItsWay(s) /\ Shown(s)

(* Packets that do not carry s change nothing for s. *)
LEMMA Extended ==
  ASSUME NEW q \in Seq(Packet), NEW r \in Seq(Packet), NEW s, Len(q) <= Len(r),
         \A i \in 1..Len(q) : r[i] = q[i],
         \A i \in (Len(q) + 1)..Len(r) : ~Carries(r[i], s)
  PROVE  /\ Contains(r, s) <=> Contains(q, s)
         /\ \A i : Latest(r, s, i) <=> Latest(q, s, i)
<1> Len(q) \in Nat /\ Len(r) \in Nat
  OBVIOUS
<1>1. Contains(r, s) <=> Contains(q, s)
  BY DEF Contains
<1>2. ASSUME NEW i, Latest(r, s, i) PROVE Latest(q, s, i)
  BY <1>2 DEF Latest
<1>3. ASSUME NEW i, Latest(q, s, i) PROVE Latest(r, s, i)
  <2>1. i \in 1..Len(r) /\ Carries(r[i], s)
    BY <1>3 DEF Latest
  <2>2. ASSUME NEW j \in (i + 1)..Len(r) PROVE ~Carries(r[j], s)
    <3>1. CASE j <= Len(q)
      BY <1>3, <2>1, <3>1 DEF Latest
    <3>2. CASE j > Len(q)
      BY <2>1, <3>2
    <3> QED
      BY <2>1, <3>1, <3>2
  <2> QED
    BY <2>1, <2>2 DEF Latest
<1> QED
  BY <1>1, <1>2, <1>3

(* The first packet is taken away. *)
LEMMA Shortened ==
  ASSUME NEW q \in Seq(Packet), q # <<>>, NEW s
  PROVE  /\ Contains(Tail(q), s) => Contains(q, s)
         /\ Contains(q, s) /\ ~Contains(Tail(q), s) => Latest(q, s, 1)
         /\ ~Carries(q[1], s) => (Contains(Tail(q), s) <=> Contains(q, s))
         /\ \A i \in 1..Len(Tail(q)) :
              Latest(Tail(q), s, i) => Latest(q, s, i + 1) /\ Tail(q)[i] = q[i + 1]
<1>1. /\ Len(q) \in Nat \ {0} /\ Len(Tail(q)) = Len(q) - 1
      /\ \A i \in 1..Len(Tail(q)) : Tail(q)[i] = q[i + 1]
  OBVIOUS
<1>2. \A i \in 1..Len(q) : i = 1 \/ (i - 1 \in 1..Len(Tail(q)) /\ Tail(q)[i - 1] = q[i])
  BY <1>1
<1>3. Contains(Tail(q), s) => Contains(q, s)
  BY <1>1 DEF Contains
<1>4. ~Contains(Tail(q), s) => \A i \in 2..Len(q) : ~Carries(q[i], s)
  BY <1>1, <1>2 DEF Contains
<1>5. Contains(q, s) /\ ~Contains(Tail(q), s) => Latest(q, s, 1)
  BY <1>1, <1>4 DEF Contains, Latest
<1>6. ASSUME NEW i \in 1..Len(Tail(q)), Latest(Tail(q), s, i)
      PROVE  Latest(q, s, i + 1) /\ Tail(q)[i] = q[i + 1]
  <2>1. i + 1 \in 1..Len(q) /\ Carries(q[i + 1], s) /\ Tail(q)[i] = q[i + 1]
    BY <1>1, <1>6 DEF Latest
  <2>2. ASSUME NEW j \in ((i + 1) + 1)..Len(q) PROVE ~Carries(q[j], s)
    <3>1. j - 1 \in (i + 1)..Len(Tail(q)) /\ q[j] = Tail(q)[j - 1]
      BY <1>1, <1>2
    <3> QED
      BY <1>6, <3>1 DEF Latest
  <2> QED
    BY <2>1, <2>2 DEF Latest
<1> QED
  BY <1>3, <1>4, <1>5, <1>6 DEF Contains

(* A packet is put at the end. *)
LEMMA Pushed ==
  ASSUME NEW q \in Seq(Packet), NEW p \in Packet, NEW s
  PROVE  /\ Append(q, p) \in Seq(Packet) /\ Len(Append(q, p)) = Len(q) + 1
         /\ \A i \in 1..Len(q) : Append(q, p)[i] = q[i]
         /\ Append(q, p)[Len(q) + 1] = p
         /\ ~Carries(p, s) => /\ Contains(Append(q, p), s) <=> Contains(q, s)
                              /\ \A i : Latest(Append(q, p), s, i) <=> Latest(q, s, i)
         /\ Carries(p, s) => /\ Contains(Append(q, p), s)
                             /\ \A i : Latest(Append(q, p), s, i) => i = Len(q) + 1
<1>1. /\ Append(q, p) \in Seq(Packet) /\ Len(Append(q, p)) = Len(q) + 1
      /\ \A i \in 1..Len(q) : Append(q, p)[i] = q[i]
      /\ Append(q, p)[Len(q) + 1] = p
      /\ Len(q) \in Nat
  OBVIOUS
<1>2. ~Carries(p, s) => /\ Contains(Append(q, p), s) <=> Contains(q, s)
                        /\ \A i : Latest(Append(q, p), s, i) <=> Latest(q, s, i)
  <2> SUFFICES ASSUME ~Carries(p, s)
               PROVE  /\ Contains(Append(q, p), s) <=> Contains(q, s)
                      /\ \A i : Latest(Append(q, p), s, i) <=> Latest(q, s, i)
    OBVIOUS
  <2>1. \A i \in (Len(q) + 1)..Len(Append(q, p)) : ~Carries(Append(q, p)[i], s)
    BY <1>1
  <2> QED
    <3> DEFINE r == Append(q, p)
    <3>1. /\ r \in Seq(Packet) /\ Len(q) <= Len(r)
          /\ \A i \in 1..Len(q) : r[i] = q[i]
          /\ \A i \in (Len(q) + 1)..Len(r) : ~Carries(r[i], s)
      BY <1>1, <2>1
    <3> HIDE DEF r
    <3>2. /\ Contains(r, s) <=> Contains(q, s)
          /\ \A i : Latest(r, s, i) <=> Latest(q, s, i)
      BY <3>1, Extended
    <3> QED
      BY <3>2 DEF r
<1>3. Carries(p, s) => /\ Contains(Append(q, p), s)
                       /\ \A i : Latest(Append(q, p), s, i) => i = Len(q) + 1
  BY <1>1 DEF Contains, Latest
<1> QED
  BY <1>1, <1>2, <1>3

(* Steps that leave the packets, the flags and the values alone. *)
LEMMA NothingSent ==
  ASSUME IInv, TypeOK', UNCHANGED <<data, sync, queue, link, linkUp, accepted, view>>,
         phase' = "register" => phase = "register" /\ pos' = pos /\ form' = form,
         phase' \notin {"register", "sync"} => pos' = 1
  PROVE  IInv'
<1>1. PositionsFit' /\ LinkInOrder'
  BY DEF IInv, PositionsFit, LinkInOrder
<1>2. ASSUME NEW s \in Valued PROVE OnItsWay(s)' /\ Shown(s)'
  BY DEF IInv, OnItsWay, LatestIsCurrent, FormIsCurrent, RegistrationIsCurrent, Shown,
         Contains, Latest, Carries
<1> QED
  BY <1>1, <1>2 DEF IInv, Valued, Slots

LEMMA InvSets == ASSUME IInv, TypeOK', NEW s \in Slots, Set(s) PROVE IInv'
<1>1. /\ UNCHANGED session
      /\ \A r \in Slots : sync'[r] => sync[r] /\ data'[r] = data[r]
  <2>1. PICK v \in Value : Effect(s, v)
    BY SetEffect
  <2>2. UNCHANGED session
    BY <2>1 DEF Effect, Ask
  <2>3. data \in [Slots -> Value] /\ sync \in [Slots -> BOOLEAN]
    BY DEF IInv, TypeOK
  <2>4. \A r \in Slots \ {s} : sync'[r] = sync[r] /\ data'[r] = data[r]
    BY <2>1, <2>3 DEF Effect, Mark, Store
  <2>5. sync'[s] => sync[s] /\ data'[s] = data[s]
    <3>1. CASE Mark(s)
      BY <2>3, <3>1 DEF Mark
    <3>2. CASE UNCHANGED sync /\ (UNCHANGED data \/ (Store(s, v) /\ v = data[s]))
      BY <2>3, <3>2 DEF Store
    <3> QED
      BY <2>1, <3>1, <3>2 DEF Effect
  <2> QED
    BY <2>2, <2>4, <2>5
<1>2. PositionsFit' /\ LinkInOrder'
  BY <1>1 DEF IInv, PositionsFit, LinkInOrder, session, server
<1>3. ASSUME NEW r \in Valued PROVE OnItsWay(r)' /\ Shown(r)'
  <2>1. r \in Slots
    BY DEF Valued
  <2> QED
    BY <1>1, <2>1 DEF IInv, OnItsWay, LatestIsCurrent, FormIsCurrent, RegistrationIsCurrent,
         Shown, Contains, Latest, Carries, session, server
<1> QED
  BY <1>2, <1>3 DEF IInv, Valued, Slots

(* Packets without data are queued. *)
LEMMA OthersQueued ==
  ASSUME IInv, TypeOK', UNCHANGED <<data, sync, link, linkUp, accepted, view>>,
         phase' # "register", PositionsFit', Len(queue) <= Len(queue'),
         \A i \in 1..Len(queue) : queue'[i] = queue[i],
         \A i \in (Len(queue) + 1)..Len(queue') : queue'[i] = Other
  PROVE  IInv'
<1>1. queue \in Seq(Packet) /\ queue' \in Seq(Packet)
  BY DEF IInv, TypeOK
<1>2. \A i \in 1..Len(queue') : queue'[i].tag # "registration"
  <2> SUFFICES ASSUME NEW i \in 1..Len(queue') PROVE queue'[i].tag # "registration"
    OBVIOUS
  <2>1. CASE i \in 1..Len(queue)
    BY <2>1 DEF IInv, LinkInOrder
  <2>2. CASE i \in (Len(queue) + 1)..Len(queue')
    BY <2>2 DEF Other
  <2> QED
    BY <1>1, <2>1, <2>2
<1>3. LinkInOrder'
  BY <1>2 DEF IInv, LinkInOrder
<1>4. ASSUME NEW s \in Valued PROVE OnItsWay(s)' /\ Shown(s)'
  <2>1. \A i \in (Len(queue) + 1)..Len(queue') : ~Carries(queue'[i], s)
    BY DEF Carries, Other
  <2> DEFINE r == queue'
  <2>2. /\ r \in Seq(Packet) /\ Len(queue) <= Len(r)
        /\ \A i \in 1..Len(queue) : r[i] = queue[i]
        /\ \A i \in (Len(queue) + 1)..Len(r) : ~Carries(r[i], s)
    BY <1>1, <2>1
  <2>3. /\ Contains(r, s) <=> Contains(queue, s)
        /\ \A i : Latest(r, s, i) <=> Latest(queue, s, i)
    <3> HIDE DEF r
    <3> QED
      BY <1>1, <2>2, Extended
  <2>4. /\ Contains(queue, s)' <=> Contains(queue, s)
        /\ \A i : Latest(queue', s, i) <=> Latest(queue, s, i)
        /\ Contains(link, s)' <=> Contains(link, s)
    BY <2>3 DEF Contains, Carries
  <2>5. \A i : Latest(queue, s, i) => i \in 1..Len(queue)
    BY DEF Latest
  <2>6. LatestIsCurrent(s) => LatestIsCurrent(s)'
    <3>1. Latest(link, s, 1)' = Latest(link, s, 1) /\ \A i : Latest(link', s, i) = Latest(link, s, i)
      OBVIOUS
    <3> QED
      BY <2>4, <2>5, <3>1 DEF LatestIsCurrent, Latest
  <2>7. FormIsCurrent(s)' /\ (RegistrationIsCurrent(s) => RegistrationIsCurrent(s)')
    BY <2>4 DEF FormIsCurrent, RegistrationIsCurrent
  <2> QED
    BY <2>4, <2>6, <2>7 DEF IInv, OnItsWay, Shown
<1> QED
  BY <1>3, <1>4 DEF IInv

LEMMA InvCalls ==
  ASSUME IInv, TypeOK', UNCHANGED <<data, sync, link, linkUp, accepted, view>>,
         PerhapsOther, phase' # "register", PositionsFit'
  PROVE  IInv'
<1>1. queue' = queue \/ queue' = Append(queue, Other)
  BY DEF PerhapsOther, srpc_async_call, srpc_queue_push
<1>2. queue \in Seq(Packet) /\ Other \in Packet
  BY DEF IInv, TypeOK, Packet
<1>3. /\ Len(queue) <= Len(queue')
      /\ \A i \in 1..Len(queue) : queue'[i] = queue[i]
      /\ \A i \in (Len(queue) + 1)..Len(queue') : queue'[i] = Other
  <2>1. CASE queue' = queue
    BY <1>2, <2>1
  <2>2. CASE queue' = Append(queue, Other)
    BY <1>2, <2>2, Pushed
  <2> QED
    BY <1>1, <2>1, <2>2
<1> QED
  BY <1>3, OthersQueued

LEMMA InvAfterRegistration == ASSUME IInv, TypeOK', AfterRegistration PROVE IInv'
<1>1. PICK n \in 0..MaxBurst :
        queue' = [i \in 1..(IF Len(queue) + n < QueueSize THEN Len(queue) + n
                                                          ELSE QueueSize)
                      |-> IF i <= Len(queue) THEN queue[i] ELSE Other]
  BY DEF AfterRegistration
<1>2. queue \in Seq(Packet) /\ Len(queue) \in Nat /\ Len(queue) <= QueueSize
      /\ queue' \in Seq(Packet) /\ Len(queue') \in Nat /\ n \in Nat /\ QueueSize \in Nat
  BY SyncAssumption DEF IInv, TypeOK
<1>3. Len(queue) <= Len(queue')
  BY <1>1, <1>2
<1>4. /\ \A i \in 1..Len(queue) : queue'[i] = queue[i]
      /\ \A i \in (Len(queue) + 1)..Len(queue') : queue'[i] = Other
  BY <1>1, <1>2
<1>5. phase' # "register" /\ PositionsFit'
  BY DEF AfterRegistration, IInv, PositionsFit
<1>6. UNCHANGED <<data, sync, link, linkUp, accepted, view>>
  BY DEF AfterRegistration, channels, server
<1> QED
  BY <1>3, <1>4, <1>5, <1>6, OthersQueued

LEMMA InvSyncSlot == ASSUME IInv, TypeOK', SyncSlot PROVE IInv'
<1>1. pos \in 1..Len(Order) /\ Order[pos] \in Slots
  BY LenOrder DEF IInv, TypeOK, SyncSlot
<1>2. /\ phase' = phase /\ phase = "sync"
      /\ UNCHANGED <<data, link, linkUp, accepted, view>>
  BY DEF SyncSlot, server
<1> PICK s \in Slots : s = Order[pos]
  BY <1>1
<1> DEFINE d == Data(s)
<1>3. CASE sync[s]
  BY <1>2, <1>3, NothingSent DEF SyncSlot
<1>4. CASE ~sync[s] /\ ~HasRoom
  <2>1. queue' = queue /\ sync' = [sync EXCEPT ![s] = FALSE]
    BY <1>4 DEF SyncSlot, srpc_async_call, srpc_queue_push, Returned
  <2>2. sync' = sync
    BY <1>1, <1>4, <2>1 DEF IInv, TypeOK
  <2> QED
    BY <1>2, <2>1, <2>2, NothingSent
<1>5. CASE ~sync[s] /\ HasRoom
  <2>1. queue' = Append(queue, d) /\ \E b \in BOOLEAN : sync' = [sync EXCEPT ![s] = b]
    <3>1. Returned \in BOOLEAN
      BY DEF Returned, HasRoom
    <3> QED
      BY <1>5, <3>1 DEF SyncSlot, srpc_async_call, srpc_queue_push
  <2>2. queue \in Seq(Packet) /\ d \in Packet
    BY <1>1, PacketKinds DEF IInv, TypeOK
  <2>3. d.tag = "data" /\ d.slot = s /\ d.value = data[s]
    BY DEF Data
  <2> HIDE DEF d
  <2>4. /\ Len(queue') = Len(queue) + 1 /\ Len(queue) \in Nat
        /\ \A i \in 1..Len(queue) : queue'[i] = queue[i]
        /\ queue'[Len(queue) + 1] = d
    BY <2>1, <2>2, Pushed
  <2>5. LinkInOrder' /\ PositionsFit'
    <3>1. \A i \in 1..Len(queue') : queue'[i].tag # "registration"
      BY <2>3, <2>4 DEF IInv, LinkInOrder
    <3> QED
      BY <1>2, <3>1 DEF IInv, LinkInOrder, PositionsFit
  <2>6. ASSUME NEW r \in Valued, r # s PROVE OnItsWay(r)' /\ Shown(r)'
    <3>1. sync'[r] = sync[r] /\ r \in Slots
      BY <1>1, <2>1, <2>6 DEF IInv, TypeOK, Valued
    <3>2. ~Carries(d, r)
      BY <2>3, <2>6 DEF Carries
    <3>3. /\ Contains(queue, r)' <=> Contains(queue, r)
          /\ \A i : Latest(queue', r, i) <=> Latest(queue, r, i)
      <4>1. /\ Contains(queue', r) <=> Contains(queue, r)
            /\ \A i : Latest(queue', r, i) <=> Latest(queue, r, i)
        BY <2>1, <2>2, <3>2, Pushed
      <4> QED
        BY <4>1 DEF Contains, Carries
    <3>4. \A i : Latest(queue, r, i) => i \in 1..Len(queue)
      BY DEF Latest
    <3>5. LatestIsCurrent(r) => LatestIsCurrent(r)'
      BY <1>2, <2>4, <3>3, <3>4 DEF LatestIsCurrent, Latest
    <3>6. FormIsCurrent(r)' /\ (RegistrationIsCurrent(r) => RegistrationIsCurrent(r)')
      BY <1>2 DEF FormIsCurrent, RegistrationIsCurrent, Contains, Carries
    <3>7. Contains(link, r)' <=> Contains(link, r)
      BY <1>2 DEF Contains, Carries
    <3> QED
      BY <1>2, <3>1, <3>3, <3>5, <3>6, <3>7 DEF IInv, OnItsWay, Shown
  <2>7. OnItsWay(s)' /\ Shown(s)'
    <3>1. Carries(d, s)
      BY <2>3 DEF Carries
    <3>2. /\ Contains(queue', s)
          /\ \A i : Latest(queue', s, i) => i = Len(queue) + 1
      BY <2>1, <2>2, <3>1, Pushed
    <3>3. Contains(queue, s)'
      BY <3>2 DEF Contains, Carries
    <3>4. LatestIsCurrent(s)'
      BY <1>2, <2>3, <2>4, <3>2, <3>3 DEF LatestIsCurrent
    <3> QED
      BY <3>3, <3>4 DEF OnItsWay, Shown
  <2> QED
    BY <2>5, <2>6, <2>7 DEF IInv
<1> QED
  BY <1>3, <1>4, <1>5

(* What was on the link is lost; the registration has yet to be written.   *)
LEMMA InvConnection == ASSUME IInv, TypeOK', Connect \/ LinkLost PROVE IInv'
<1>1. /\ UNCHANGED <<data, sync, queue, pos, form>> /\ link' = <<>> /\ accepted' = FALSE
      /\ \/ phase' = "register" /\ phase = "free" /\ linkUp'
         \/ phase' = phase
  BY DEF Connect, LinkLost, channels
<1>2. link' = <<>> /\ Len(link') = 0
  BY <1>1
<1>3. pos \in 1..(Len(Order) + 1) /\ (phase = "free" => pos = 1)
  BY DEF IInv, TypeOK, PositionsFit
<1>4. PositionsFit' /\ LinkInOrder'
  BY <1>1, <1>2, <1>3 DEF IInv, PositionsFit, LinkInOrder
<1>5. ASSUME NEW s \in Valued PROVE OnItsWay(s)' /\ Shown(s)'
  <2>1. LatestIsCurrent(s) => LatestIsCurrent(s)'
    BY <1>1, <1>2 DEF LatestIsCurrent, Latest, Contains, Carries
  <2>2. FormIsCurrent(s) => FormIsCurrent(s)'
    BY <1>1, <1>3, LenOrder DEF FormIsCurrent
  <2>3. RegistrationIsCurrent(s)'
    BY <1>1 DEF RegistrationIsCurrent
  <2>4. Contains(queue, s)' <=> Contains(queue, s)
    BY <1>1 DEF Contains, Carries
  <2> QED
    BY <1>1, <2>1, <2>2, <2>3, <2>4 DEF IInv, OnItsWay, Shown
<1> QED
  BY <1>4, <1>5 DEF IInv

LEMMA InvRegisterChannel == ASSUME IInv, TypeOK', RegisterChannel PROVE IInv'
<1>1. /\ UNCHANGED <<data, sync, queue, link, linkUp, accepted, view>>
      /\ phase' = phase /\ phase = "register" /\ pos' = pos + 1
  BY DEF RegisterChannel, channels, server
<1>2. pos \in 1..Len(Order) /\ Order[pos] \in Slots
  BY LenOrder DEF IInv, TypeOK, RegisterChannel
<1>3. PositionsFit' /\ LinkInOrder'
  BY <1>1 DEF IInv, PositionsFit, LinkInOrder
<1>4. ASSUME NEW s \in Valued PROVE OnItsWay(s)' /\ Shown(s)'
  <2>1. /\ Contains(queue, s)' <=> Contains(queue, s)
        /\ Contains(link, s)' <=> Contains(link, s)
    BY <1>1 DEF Contains, Carries
  <2>2. LatestIsCurrent(s) => LatestIsCurrent(s)'
    BY <1>1 DEF LatestIsCurrent, Latest, Contains, Carries
  <2>3. RegistrationIsCurrent(s) => RegistrationIsCurrent(s)'
    BY <1>1, <2>1 DEF RegistrationIsCurrent
  <2>4. FormIsCurrent(s) => FormIsCurrent(s)'
    <3>1. CASE Order[pos] = s
      BY <1>1, <3>1 DEF RegisterChannel, FormIsCurrent, IInv, TypeOK
    <3>2. CASE Order[pos] # s
      <4>1. form'[s] = form[s]
        BY <3>2 DEF RegisterChannel, IInv, TypeOK
      <4>2. \A k \in 1..(pos' - 1) : k \in 1..(pos - 1) \/ k = pos
        BY <1>1, <1>2
      <4> QED
        BY <1>1, <3>2, <4>1, <4>2 DEF FormIsCurrent
    <3> QED
      BY <3>1, <3>2
  <2> QED
    BY <1>1, <2>1, <2>2, <2>3, <2>4 DEF IInv, OnItsWay, Shown
<1> QED
  BY <1>3, <1>4 DEF IInv

LEMMA InvRegisterSent ==
  ASSUME IInv, TypeOK', RegisterSent PROVE IInv'
<1> DEFINE r == Registration(form)
<1>1. /\ UNCHANGED <<data, sync, queue, linkUp, accepted, view>>
      /\ phase = "register" /\ phase' = "srpc" /\ pos' = 1 /\ pos > Len(Order)
  BY DEF RegisterSent, channels, server
<1>2. link = <<>> /\ ~accepted
  BY <1>1 DEF IInv, LinkInOrder
<1>3. link' = IF linkUp THEN <<r>> ELSE <<>>
  BY <1>2, SyncAssumption DEF RegisterSent, Write
<1>4. r.tag = "registration" /\ r.values = form
  BY DEF Registration
<1>5. PositionsFit' /\ LinkInOrder'
  BY <1>1, <1>2, <1>3 DEF IInv, PositionsFit, LinkInOrder
<1>6. ASSUME NEW s \in Valued PROVE OnItsWay(s)' /\ Shown(s)'
  <2>1. \E k \in 1..(pos - 1) : Order[k] = s
    BY <1>1, LenOrder DEF Valued, Slots, IInv, TypeOK
  <2>2. Contains(queue, s)' <=> Contains(queue, s)
    BY <1>1 DEF Contains, Carries
  <2>3. \A i : ~Latest(link', s, i)
    BY <1>3, <1>4 DEF Latest, Carries
  <2>4. LatestIsCurrent(s) => LatestIsCurrent(s)'
    BY <1>1, <2>2, <2>3 DEF LatestIsCurrent, Latest
  <2>5. FormIsCurrent(s)'
    BY <1>1 DEF FormIsCurrent
  <2>6. FormIsCurrent(s) => RegistrationIsCurrent(s)'
    BY <1>1, <1>3, <1>4, <2>1 DEF FormIsCurrent, RegistrationIsCurrent
  <2> QED
    BY <1>1, <1>2, <2>2, <2>4, <2>5, <2>6 DEF IInv, OnItsWay, Shown
<1> QED
  BY <1>5, <1>6 DEF IInv

(* The head of the queue goes to the end of the link, or is lost with a    *)
(* connection on which nobody is accepted.                                 *)
LEMMA InvSrpcWrite == ASSUME IInv, TypeOK', SrpcWrite PROVE IInv'
<1>1. /\ UNCHANGED <<data, sync, linkUp, accepted, view, pos, form>>
      /\ phase = "write" /\ phase' = "free"
  BY DEF SrpcWrite, channels, server
<1>2. PositionsFit'
  BY <1>1 DEF IInv, PositionsFit
<1>3. CASE queue = <<>>
  BY <1>1, <1>2, <1>3, NothingSent DEF SrpcWrite, PositionsFit
<1>4. CASE queue # <<>>
  <2> DEFINE p == Head(queue)
  <2>1. /\ queue \in Seq(Packet) /\ link \in Seq(Packet)
        /\ p \in Packet /\ p = queue[1]
        /\ Len(queue) \in Nat \ {0} /\ Len(link) \in Nat
        /\ queue' = Tail(queue) /\ Len(queue') = Len(queue) - 1
        /\ \A i \in 1..Len(queue') : queue'[i] = queue[i + 1]
    <3>1. queue \in Seq(Packet) /\ link \in Seq(Packet) /\ queue' = Tail(queue)
      BY <1>4 DEF IInv, TypeOK, SrpcWrite
    <3>2. /\ p \in Packet /\ p = queue[1]
          /\ Len(queue) \in Nat \ {0} /\ Len(link) \in Nat
      BY <1>4, <3>1
    <3>3. /\ Len(Tail(queue)) = Len(queue) - 1
          /\ \A i \in 1..Len(Tail(queue)) : Tail(queue)[i] = queue[i + 1]
      BY <1>4, <3>1
    <3> QED
      BY <3>1, <3>2, <3>3
  <2>2. link' = IF linkUp THEN Append(link, p) ELSE link
    BY <1>4, SyncAssumption DEF SrpcWrite, Write
  <2>3. ~linkUp => link = <<>> /\ ~accepted
    BY DEF IInv, LinkInOrder
  <2>4. p.tag # "registration"
    BY <2>1 DEF IInv, LinkInOrder
  <2> HIDE DEF p
  <2>5. linkUp => /\ Len(link') = Len(link) + 1 /\ link'[Len(link) + 1] = p
                  /\ \A i \in 1..Len(link) : link'[i] = link[i]
    BY <2>1, <2>2, Pushed
  <2>6. LinkInOrder'
    <3>1. \A i \in 1..Len(queue') : queue'[i].tag # "registration"
      BY <2>1 DEF IInv, LinkInOrder
    <3>2. \A i \in 1..Len(link') : link'[i].tag = "registration" => i = 1 /\ ~accepted'
      <4>1. CASE linkUp
        BY <1>1, <2>1, <2>4, <2>5, <4>1 DEF IInv, LinkInOrder
      <4>2. CASE ~linkUp
        BY <1>1, <2>2, <4>2 DEF IInv, LinkInOrder
      <4> QED
        BY <4>1, <4>2
    <3> QED
      BY <1>1, <2>2, <2>3, <3>1, <3>2 DEF IInv, LinkInOrder
  <2>7. ASSUME NEW s \in Valued, sync[s], linkUp PROVE OnItsWay(s)' /\ Shown(s)'
    <3>1. LatestIsCurrent(s)
      BY <2>7 DEF IInv, OnItsWay
    <3> DEFINE q == queue'
               l == link'
    <3>2. /\ q = Tail(queue)
          /\ Contains(q, s) => Contains(queue, s)
          /\ Contains(queue, s) /\ ~Contains(q, s) => Latest(queue, s, 1)
          /\ ~Carries(p, s) => (Contains(q, s) <=> Contains(queue, s))
          /\ \A i \in 1..Len(q) :
               Latest(q, s, i) => Latest(queue, s, i + 1) /\ q[i] = queue[i + 1]
      BY <1>4, <2>1, Shortened
    <3>3. /\ ~Carries(p, s) => /\ Contains(l, s) <=> Contains(link, s)
                               /\ \A i : Latest(l, s, i) <=> Latest(link, s, i)
          /\ Carries(p, s) => /\ Contains(l, s)
                              /\ \A i : Latest(l, s, i) => i = Len(link) + 1
      BY <2>1, <2>2, <2>7, Pushed
    <3>4. /\ Contains(queue, s)' <=> Contains(q, s)
          /\ Contains(link, s)' <=> Contains(l, s)
      BY DEF Contains, Carries
    <3>5. \A i \in 1..Len(q) : Latest(q, s, i) => q[i].value = data[s]
      BY <2>1, <3>1, <3>2 DEF LatestIsCurrent
    <3>6. ~Contains(q, s) => \A i \in 1..Len(l) : Latest(l, s, i) => l[i].value = data[s]
      <4> SUFFICES ASSUME ~Contains(q, s), NEW i \in 1..Len(l), Latest(l, s, i)
                   PROVE  l[i].value = data[s]
        OBVIOUS
      <4>1. CASE Carries(p, s)
        <5>1. Contains(queue, s)
          BY <2>1, <4>1 DEF Contains
        <5>2. queue[1].value = data[s]
          BY <2>1, <3>1, <3>2, <5>1 DEF LatestIsCurrent
        <5> QED
          BY <2>1, <2>5, <2>7, <3>3, <4>1, <5>2
      <4>2. CASE ~Carries(p, s)
        <5>1. Latest(link, s, i) /\ i \in 1..Len(link) /\ ~Contains(queue, s)
          BY <3>2, <3>3, <4>2 DEF Latest
        <5> QED
          BY <2>5, <2>7, <3>1, <5>1 DEF LatestIsCurrent
      <4> QED
        BY <4>1, <4>2
    <3>7. LatestIsCurrent(s)'
      BY <1>1, <3>4, <3>5, <3>6 DEF LatestIsCurrent, Latest, Carries
    <3>8. ~Contains(q, s) /\ ~Contains(l, s) => ~Contains(queue, s) /\ ~Contains(link, s)
      BY <3>2, <3>3
    <3>9. ~Contains(q, s) => RegistrationIsCurrent(s)'
      <4> SUFFICES ASSUME ~Contains(q, s), ~Contains(l, s), l # <<>>, l[1].tag = "registration"
                   PROVE  l[1].values[s] = data[s]
        BY <1>1, <3>4 DEF RegistrationIsCurrent
      <4>1. link # <<>> /\ l[1] = link[1]
        BY <2>1, <2>4, <2>5, <2>7
      <4> QED
        BY <2>7, <3>8, <4>1 DEF IInv, OnItsWay, RegistrationIsCurrent
    <3>10. FormIsCurrent(s)'
      BY <1>1 DEF FormIsCurrent
    <3>11. Shown(s)'
      BY <1>1, <3>4, <3>8 DEF IInv, Shown
    <3> QED
      BY <3>4, <3>7, <3>9, <3>10, <3>11 DEF OnItsWay
  <2>8. ASSUME NEW s \in Valued, sync[s], ~linkUp PROVE OnItsWay(s)' /\ Shown(s)'
    <3>1. LatestIsCurrent(s)
      BY <2>8 DEF IInv, OnItsWay
    <3> DEFINE q == queue'
    <3>2. \A i \in 1..Len(q) :
               Latest(q, s, i) => Latest(queue, s, i + 1) /\ q[i] = queue[i + 1]
      BY <1>4, <2>1, Shortened
    <3>3. \A i \in 1..Len(q) : Latest(q, s, i) => q[i].value = data[s]
      BY <2>1, <3>1, <3>2 DEF LatestIsCurrent
    <3>4. link' = <<>> /\ Len(link') = 0
      BY <2>2, <2>3, <2>8
    <3>5. LatestIsCurrent(s)'
      BY <1>1, <3>3, <3>4 DEF LatestIsCurrent, Latest, Carries
    <3> QED
      BY <1>1, <2>3, <2>8, <3>4, <3>5
      DEF OnItsWay, FormIsCurrent, RegistrationIsCurrent, Shown
  <2>9. ASSUME NEW s \in Valued, ~sync[s] PROVE OnItsWay(s)' /\ Shown(s)'
    BY <1>1, <2>9 DEF OnItsWay, Shown
  <2> QED
    BY <1>2, <2>6, <2>7, <2>8, <2>9 DEF IInv
<1> QED
  BY <1>3, <1>4

(* The server takes the head of the link. *)
LEMMA InvServer ==
  ASSUME IInv, TypeOK', ServerAccepts \/ ServerRefuses \/ ServerReads PROVE IInv'
<1>1. /\ UNCHANGED <<data, sync, queue, linkUp, pos, form, phase>>
      /\ link # <<>> /\ link' = Tail(link)
  BY DEF ServerAccepts, ServerRefuses, ServerReads, channels
<1>2. /\ link \in Seq(Packet) /\ Head(link) = link[1] /\ link[1] \in Packet
      /\ Len(link) \in Nat \ {0} /\ Len(link') = Len(link) - 1
      /\ \A i \in 1..Len(link') : link'[i] = link[i + 1]
  <2>1. link \in Seq(Packet)
    BY DEF IInv, TypeOK
  <2>2. /\ Len(Tail(link)) = Len(link) - 1 /\ Len(link) \in Nat \ {0}
        /\ Head(link) = link[1] /\ link[1] \in Packet
        /\ \A i \in 1..Len(Tail(link)) : Tail(link)[i] = link[i + 1]
    BY <1>1, <2>1
  <2> QED
    BY <1>1, <2>1, <2>2
<1>3. linkUp /\ phase # "register"
  BY <1>1 DEF IInv, LinkInOrder
<1>4. \A i \in 1..Len(link') : link'[i].tag # "registration"
  BY <1>2 DEF IInv, LinkInOrder
<1>5. PositionsFit' /\ LinkInOrder'
  BY <1>1, <1>3, <1>4 DEF IInv, PositionsFit, LinkInOrder
<1>6. ASSUME NEW s \in Valued PROVE OnItsWay(s)' /\ Shown(s)'
  <2> DEFINE l == link'
  <2>1. /\ l = Tail(link)
        /\ Contains(link, s) /\ ~Contains(l, s) => Latest(link, s, 1)
        /\ ~Carries(link[1], s) => (Contains(l, s) <=> Contains(link, s))
        /\ \A i \in 1..Len(l) :
             Latest(l, s, i) => Latest(link, s, i + 1) /\ l[i] = link[i + 1]
    BY <1>1, <1>2, Shortened
  <2>2. /\ Contains(queue, s)' <=> Contains(queue, s)
        /\ Contains(link, s)' <=> Contains(l, s)
    BY <1>1 DEF Contains, Carries
  <2>3. LatestIsCurrent(s) => LatestIsCurrent(s)'
    BY <1>1, <1>2, <2>1, <2>2 DEF LatestIsCurrent, Latest, Carries
  <2>4. FormIsCurrent(s)'
    BY <1>1, <1>3 DEF FormIsCurrent
  <2>5. RegistrationIsCurrent(s)'
    <3>1. l # <<>> => 1 \in 1..Len(l)
      BY <1>2, <2>1
    <3> QED
      BY <1>4, <3>1 DEF RegistrationIsCurrent
  <2>6. s \in Slots
    BY DEF Valued
  <2>7. Shown(s)'
    <3> SUFFICES ASSUME accepted', sync[s], ~Contains(queue, s), ~Contains(l, s)
                 PROVE  view'[s] = data[s]
      BY <1>1, <2>2 DEF Shown
    <3>1. CASE link[1].tag = "registration"
      <4>1. ServerAccepts
        <5>1. ~accepted
          BY <1>2, <3>1 DEF LinkInOrder, IInv
        <5>2. ~ServerReads
          BY <1>2, <3>1 DEF ServerReads
        <5>3. ~ServerRefuses
          BY <5>1 DEF ServerRefuses, server
        <5> QED
          BY <5>2, <5>3
      <4>2. ~Contains(link, s)
        BY <2>1, <3>1 DEF Carries
      <4>3. link[1].values[s] = data[s]
        BY <1>1, <3>1, <4>2 DEF IInv, OnItsWay, RegistrationIsCurrent
      <4> QED
        BY <1>2, <2>6, <4>1, <4>3 DEF ServerAccepts
    <3>2. CASE link[1].tag # "registration"
      <4>1. ServerReads /\ accepted
        BY <1>2, <3>2 DEF ServerRefuses, ServerReads, ServerAccepts
      <4>2. CASE Carries(link[1], s)
        <5>1. Contains(link, s) /\ Latest(link, s, 1)
          BY <1>2, <2>1, <4>2 DEF Contains
        <5>2. link[1].value = data[s]
          BY <1>2, <5>1 DEF IInv, OnItsWay, LatestIsCurrent
        <5> QED
          BY <1>2, <2>6, <4>1, <4>2, <5>2 DEF ServerReads, Carries, IInv, TypeOK
      <4>3. CASE ~Carries(link[1], s)
        <5>1. view[s] = data[s]
          BY <2>1, <4>1, <4>3 DEF IInv, Shown
        <5>2. view'[s] = view[s]
          BY <1>2, <2>6, <4>1, <4>3 DEF ServerReads, Carries, IInv, TypeOK
        <5> QED
          BY <5>1, <5>2
      <4> QED
        BY <4>2, <4>3
    <3> QED
      BY <3>1, <3>2
  <2> QED
    BY <1>1, <2>2, <2>3, <2>4, <2>5, <2>7 DEF IInv, OnItsWay
<1> QED
  BY <1>5, <1>6 DEF IInv

LEMMA InvStep == IInv /\ [Next]_vars => IInv'
<1> SUFFICES ASSUME IInv, [Next]_vars PROVE IInv'
  OBVIOUS
<1>1. TypeOK'
  BY TypeStep DEF IInv
<1>2. CASE WaitForResult \/ SrpcFails \/ GiveUp
  <2>1. /\ UNCHANGED <<data, sync, queue, link, linkUp, accepted, view, pos>>
        /\ phase' # "register" /\ phase # "register" /\ phase # "sync"
    BY <1>2 DEF WaitForResult, SrpcFails, GiveUp, channels, server
  <2> QED
    BY <1>1, <2>1, NothingSent DEF IInv, PositionsFit
<1>3. CASE EndSync
  BY <1>1, <1>3, NothingSent DEF EndSync, channels, server
<1>4. CASE BeginSync \/ ReadResult \/ ReadOther
  <2>1. /\ UNCHANGED <<data, sync, link, linkUp, accepted, view, pos>>
        /\ PerhapsOther /\ phase' # "register" /\ phase \in {"free", "srpc"}
    BY <1>4 DEF BeginSync, ReadResult, ReadOther, channels, server
  <2>2. PositionsFit'
    BY <2>1 DEF IInv, PositionsFit
  <2> QED
    BY <1>1, <2>1, <2>2, InvCalls
<1>5. ASSUME NEW s \in Slots, Set(s) PROVE IInv'
  BY <1>1, <1>5, InvSets
<1>6. CASE UNCHANGED vars
  BY <1>1, <1>6, NothingSent DEF vars, IInv, PositionsFit
<1> QED
  BY <1>1, <1>2, <1>3, <1>4, <1>5, <1>6, InvConnection, InvRegisterChannel, InvRegisterSent,
     InvAfterRegistration, InvSyncSlot, InvSrpcWrite, InvServer DEF Next, Iterate

LEMMA InvStarts == Init => IInv
<1> SUFFICES ASSUME Init PROVE IInv
  OBVIOUS
<1>1. ASSUME NEW s \in Valued PROVE OnItsWay(s) /\ Shown(s)
  BY DEF Init, OnItsWay, Shown, LatestIsCurrent, FormIsCurrent, RegistrationIsCurrent
<1> QED
  BY <1>1, TypeStarts DEF Init, IInv, PositionsFit, LinkInOrder

(* The server that accepted the device knows every value that has nothing   *)
(* left to send and nothing under way: for any channels, any size of the    *)
(* queue, however often the connection breaks and whenever the application  *)
(* sets the value.                                                          *)
THEOREM ValuesReachServer == Spec => []ValuesShown
<1>1. IInv => ValuesShown
  BY DEF IInv, ValuesShown
<1> QED
  BY <1>1, InvStarts, InvStep, PTL DEF Spec
=============================================================================
