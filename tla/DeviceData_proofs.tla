--------------------------- MODULE DeviceData_proofs ---------------------------
(***************************************************************************)
(* Theorems about what the threads of DeviceLocks hand to each other: the  *)
(* packets of the srpc, and the list of channels that is registered. What  *)
(* is handed over is followed by the place that the step it is for has     *)
(* among those that its thread has yet to make.                            *)
(***************************************************************************)
EXTENDS DeviceLocks_proofs

Answers == {"getdata", "handle"}
Registers == {"header", "row", "describe"}
Adders == {"count", "add", "insert"}

-----------------------------------------------------------------------------
(* Which functions make which of these steps.                              *)
LEMMA WithoutMore ==
  ASSUME NEW A, NEW B, B \subseteq A
  PROVE  Without(A) \subseteq Without(B)
  BY DEF Without

LEMMA FreeOf ==
  ASSUME NEW p, NEW q
  PROVE  /\ Free(p, q) \subseteq Without(Answers)
         /\ Free(p, q) \subseteq Without(Registers)
         /\ Free(p, q) \subseteq Without(Adders)
         /\ Free(p, q) \subseteq Without(Answers \cup Adders)
<1>1. /\ Answers \subseteq Special /\ Registers \subseteq Special
      /\ Adders \subseteq Special /\ Answers \cup Adders \subseteq Special
  BY DEF Answers, Registers, Adders, Special
<1>2. QED
  BY <1>1, WithoutMore DEF Free, Plain

LEMMA Regrouped == \A a, b, c \in Seq(Steps) : (a \o b) \o c = a \o (b \o c)
  BY ConcatAssociative

LEMMA OneWithout ==
  ASSUME NEW ops, NEW a \in Steps, a.op \notin ops
  PROVE  <<a>> \in Without(ops)
  BY DEF Without

LEMMA TailWithout ==
  ASSUME NEW ops, NEW s \in Without(ops), s # <<>>
  PROVE  Tail(s) \in Without(ops)
<1>1. /\ s \in Seq(Steps) /\ Tail(s) \in Seq(Steps)
      /\ Len(Tail(s)) = Len(s) - 1
      /\ \A i \in 1 .. Len(Tail(s)) : Tail(s)[i] = s[i + 1] /\ i + 1 \in 1 .. Len(s)
  BY DEF Without
<1>2. QED
  BY <1>1 DEF Without

LEMMA RegisterWithout ==
  ASSUME NEW p \in Under
  PROVE  RegisterTick(p) \in Without(Answers \cup Adders)
<1> DEFINE ops == Answers \cup Adders
           q == Append(p, "srpc")
           a == To(q)
           b == At("fill", p)
           c == Of("row", q, 0)
           d == To(p)
           h == At("header", p)
           s == <<a, b, c, d>>
<1>1. "srpc" \in Locks /\ p \in Roots
  BY UnderIsRoot DEF Locks
<1>2. q \in Under
  BY <1>1, TakeOne
<1>3. a \in Steps /\ b \in Steps /\ c \in Steps /\ d \in Steps /\ h \in Steps
  BY <1>1, <1>2, Brackets, SingleSteps, FirstOfLoop DEF UnderOps, RootOps
<1>4. /\ a.op = "to" /\ b.op = "fill" /\ c.op = "row" /\ d.op = "to"
      /\ h.op = "header"
  BY DEF To, At, Of, Step
<1>5. /\ srpc_call_allowed(p) \in Without(ops)
      /\ <<At("callback", p)>> \in Without(ops)
      /\ srpc_iterate(p) \in Without(ops)
  BY <1>1, AsyncCall, SingleCallback, SrpcIterate, FreeOf
<1> HIDE DEF a, b, c, d, h
<1>6. <<h>> \in Without(ops)
  BY <1>3, <1>4, OneWithout DEF Answers, Adders
<1>7. s \in Without(ops)
  <2>1. /\ s \in Seq(Steps) /\ Len(s) = 4
        /\ s[1] = a /\ s[2] = b /\ s[3] = c /\ s[4] = d
    BY <1>3
  <2>2. \A i \in 1 .. 4 : i = 1 \/ i = 2 \/ i = 3 \/ i = 4
    OBVIOUS
  <2> HIDE DEF s
  <2>3. QED
    BY <1>4, <2>1, <2>2 DEF Without, Answers, Adders
<1> HIDE DEF ops, s
<1>8. <<h>> \o srpc_call_allowed(p) \o s \in Without(ops)
  BY <1>5, <1>6, <1>7, JoinedWithout
<1>9. supla_dev_register(p) \in Without(ops)
  BY <1>8 DEF supla_dev_register, s, a, b, c, d, h
<1>10. RegisterTick(p) \in Without(ops)
  BY <1>5, <1>9, JoinedWithout DEF RegisterTick
<1>11. QED
  BY <1>10 DEF ops

LEMMA DescribingWithout ==
  ASSUME NEW p \in Under, NEW n \in Nat
  PROVE  Describing(p, n) \in Without(Answers \cup Adders)
<1> DEFINE ops == Answers \cup Adders
           a == At("describe", p)
           b == Of("row", p, n + 1)
<1>1. n + 1 \in Nat
  OBVIOUS
<1>2. a \in Steps /\ b \in Steps
  BY <1>1, SingleSteps, FirstOfLoop DEF UnderOps
<1>3. a.op = "describe" /\ b.op = "row"
  BY DEF At, Of, Step
<1>4. supla_dev_get_channel_by_num(p, n) \in Without(ops)
  BY ByNumber, UnderIsRoot, FreeOf
<1> HIDE DEF a, b
<1>5. <<a, b>> \in Without(ops)
  <2>1. /\ <<a, b>> \in Seq(Steps) /\ Len(<<a, b>>) = 2
        /\ <<a, b>>[1] = a /\ <<a, b>>[2] = b
    BY <1>2
  <2>2. QED
    BY <1>3, <2>1 DEF Without, Answers, Adders
<1> HIDE DEF ops
<1>6. supla_dev_get_channel_by_num(p, n) \o <<a, b>> \in Without(ops)
  BY <1>4, <1>5, JoinedWithout
<1>7. QED
  BY <1>6 DEF Describing, a, b, ops

LEMMA InsertingWithout ==
  ASSUME NEW p \in Roots, NEW c \in Channels
  PROVE  /\ Inserting(p, c) \in Without(Answers)
         /\ Inserting(p, c) \in Without(Registers)
<1> DEFINE s == Inserting(p, c)
<1>1. s \in Seq(Steps)
  BY AddLeg, Typed
<1>2. /\ Len(s) = 6
      /\ s[1].op = "to" /\ s[2].op = "to" /\ s[3].op = "insert"
      /\ s[4].op = "to" /\ s[5].op = "to" /\ s[6].op = "callback"
  BY Fields DEF Inserting
<1> HIDE DEF s
<1>3. \A i \in 1 .. Len(s) : i = 1 \/ i = 2 \/ i = 3 \/ i = 4 \/ i = 5 \/ i = 6
  BY <1>2
<1>4. s \in Without(Answers) /\ s \in Without(Registers)
  BY <1>1, <1>2, <1>3 DEF Without, Answers, Registers
<1>5. QED
  BY <1>4 DEF s

LEMMA AddingWithout ==
  ASSUME NEW p \in Roots, NEW c \in Channels
  PROVE  /\ supla_dev_add_channel(p, c) \in Without(Answers)
         /\ supla_dev_add_channel(p, c) \in Without(Registers)
<1> DEFINE s == supla_dev_add_channel(p, c)
<1>1. s \in Seq(Steps)
  BY AddCall, Typed
<1>2. /\ Len(s) = 4
      /\ s[1].op = "to" /\ s[2].op = "count" /\ s[3].op = "to" /\ s[4].op = "add"
  BY Fields DEF supla_dev_add_channel
<1> HIDE DEF s
<1>3. \A i \in 1 .. Len(s) : i = 1 \/ i = 2 \/ i = 3 \/ i = 4
  BY <1>2
<1>4. s \in Without(Answers) /\ s \in Without(Registers)
  BY <1>1, <1>2, <1>3 DEF Without, Answers, Registers
<1>5. QED
  BY <1>4 DEF s

LEMMA AnswerSteps ==
  ASSUME NEW p \in Under
  PROVE  /\ Answer(p) \in Seq(Steps) /\ Len(Answer(p)) = 5
         /\ Answer(p)[1] = To(p) /\ Answer(p)[2] = To(Append(p, "srpc"))
         /\ Answer(p)[3] = At("getdata", p)
         /\ Answer(p)[4] = To(p) /\ Answer(p)[5] = At("handle", p)
<1> DEFINE r == supla_dev_on_remote_call_received(p)
<1>1. /\ r \in Seq(Steps) /\ Len(r) = 4
      /\ r[1] = To(Append(p, "srpc")) /\ r[2] = At("getdata", p)
      /\ r[3] = To(p) /\ r[4] = At("handle", p)
  <2>1. r \in Seq(Steps)
    BY RemoteCall, Typed
  <2>2. QED
    BY <2>1 DEF supla_dev_on_remote_call_received
<1>2. /\ <<To(p)>> \in Seq(Steps) /\ Len(<<To(p)>>) = 1 /\ <<To(p)>>[1] = To(p)
  <2>1. To(p) \in Steps
    BY UnderIsRoot, TakeOne, SingleSteps, "srpc" \in Locks DEF Locks
  <2>2. QED
    BY <2>1
<1> HIDE DEF r
<1>3. Answer(p) = <<To(p)>> \o r
  BY DEF Answer, r
<1>4. /\ Answer(p) \in Seq(Steps) /\ Len(Answer(p)) = 1 + 4
      /\ \A i \in 1 .. 1 : Answer(p)[i] = <<To(p)>>[i]
      /\ \A i \in 1 .. 4 : Answer(p)[1 + i] = r[i]
  BY <1>1, <1>2, <1>3, Concatenation
<1>5. /\ Answer(p)[1] = To(p) /\ Answer(p)[1 + 1] = r[1] /\ Answer(p)[1 + 2] = r[2]
      /\ Answer(p)[1 + 3] = r[3] /\ Answer(p)[1 + 4] = r[4]
  BY <1>2, <1>4
<1>6. QED
  BY <1>1, <1>4, <1>5

LEMMA AnswerWithout ==
  ASSUME NEW p \in Under
  PROVE  Answer(p) \in Without(Registers) /\ Answer(p) \in Without(Adders)
<1> DEFINE s == Answer(p)
<1>1. /\ s \in Seq(Steps) /\ Len(s) = 5
      /\ s[1].op = "to" /\ s[2].op = "to" /\ s[3].op = "getdata"
      /\ s[4].op = "to" /\ s[5].op = "handle"
  BY AnswerSteps, Fields
<1> HIDE DEF s
<1>2. \A i \in 1 .. Len(s) : i = 1 \/ i = 2 \/ i = 3 \/ i = 4 \/ i = 5
  BY <1>1
<1>3. s \in Without(Registers) /\ s \in Without(Adders)
  BY <1>1, <1>2 DEF Without, Registers, Adders
<1>4. QED
  BY <1>3 DEF s

(* A thread that acts puts such steps in the place of its own.             *)
LEMMA ActsWithout ==
  ASSUME TypeOK, NEW t \in Threads, Acts(t)
  PROVE  /\ ~Receive(t) => \E steps \in Without(Answers) : Goes(t, steps)
         /\ \/ \E steps \in Without(Registers) : Goes(t, steps)
            \/ Tick(t) /\ Goes(t, RegisterTick(Now(t).path))
            \/ /\ Row(t) /\ ~(Now(t).n >= header)
               /\ Goes(t, Describing(Now(t).path, Now(t).n))
         /\ ~Add(t) => \E steps \in Without(Adders) : Goes(t, steps)
<1> DEFINE A == \E steps \in Without(Answers) : Goes(t, steps)
           R == \E steps \in Without(Registers) : Goes(t, steps)
           D == \E steps \in Without(Adders) : Goes(t, steps)
<1>1. GoesFreely(t) => A /\ R /\ D
  BY FreeOf DEF GoesFreely
<1>2. /\ <<>> \in Without(Answers) /\ <<>> \in Without(Registers)
      /\ <<>> \in Without(Adders)
  BY Nothing, FreeOf
<1>3. \A p \in Under, n \in Nat :
        /\ RegisterTick(p) \in Without(Answers) /\ RegisterTick(p) \in Without(Adders)
        /\ Describing(p, n) \in Without(Answers)
        /\ Describing(p, n) \in Without(Adders)
  <2>1. /\ Without(Answers \cup Adders) \subseteq Without(Answers)
        /\ Without(Answers \cup Adders) \subseteq Without(Adders)
    BY WithoutMore
  <2>2. QED
    BY <2>1, RegisterWithout, DescribingWithout
<1>4. CASE Find(t) \/ Count(t) \/ Insert(t) \/ Header(t) \/ Push(t) \/ Pop(t)
           \/ GetData(t)
  <2>1. Goes(t, <<>>)
    BY <1>4 DEF Find, Count, Insert, Header, Push, Pop, GetData
  <2>2. QED
    BY <1>2, <2>1
<1>5. CASE Loop(t) \/ Describe(t) \/ Callback(t) \/ Handle(t) \/ Functions(t)
           \/ IfFound(t)
  <2>1. GoesFreely(t)
    BY <1>5, LoopGoes, DescribeGoes, CallbackGoes, HandleGoes, FunctionsGoes,
       IfFoundGoes
  <2>2. QED
    BY <1>1, <2>1
<1>6. CASE Tick(t)
  BY <1>1, <1>3, <1>6, TickGoes, 0 \in Nat
<1>7. CASE Row(t)
  BY <1>2, <1>3, <1>7, RowGoes
<1>8. CASE Add(t)
  BY <1>2, <1>8, AddGoes, InsertingWithout
<1>9. CASE Receive(t)
  <2>1. R /\ D
    <3>1. CASE GoesFreely(t)
      BY <1>1, <3>1
    <3>2. CASE \E rest \in Free(Now(t).path, Now(t).path) :
                 Goes(t, Answer(Now(t).path) \o rest)
      <4>1. PICK rest \in Free(Now(t).path, Now(t).path) :
              Goes(t, Answer(Now(t).path) \o rest)
        BY <3>2
      <4>2. /\ Answer(Now(t).path) \o rest \in Without(Registers)
            /\ Answer(Now(t).path) \o rest \in Without(Adders)
        BY <1>9, ReceiveGoes, AnswerWithout, FreeOf, JoinedWithout
      <4>3. QED
        BY <4>1, <4>2
    <3>3. QED
      BY <1>9, <3>1, <3>2, ReceiveGoes
  <2>2. QED
    BY <1>9, <2>1
<1>10. QED
  BY <1>4, <1>5, <1>6, <1>7, <1>8, <1>9 DEF Acts

LEMMA StaysWithout ==
  ASSUME TypeOK, NEW t \in Threads, ~Idle(t), NEW ops,
         todo[t] \in Without(ops), NEW steps \in Without(ops), Goes(t, steps)
  PROVE  todo'[t] \in Without(ops)
<1>1. Tail(todo[t]) \in Without(ops)
  BY TailWithout DEF Idle
<1>2. steps \o Tail(todo[t]) \in Without(ops)
  BY <1>1, JoinedWithout
<1>3. QED
  BY <1>2 DEF Goes, TypeOK

-----------------------------------------------------------------------------
(* The i-th of the steps that t has yet to make is to handle a packet, and *)
(* it is with the srpc's lock given back and the device's held that it     *)
(* gets there. The packet is in the input queue until it is got.           *)
Answering(t, i) ==
  LET s == todo[t]
  IN  /\ i \in 1 .. Len(s) /\ s[i].op = "handle" /\ path[t] \in Under
      /\ \A j \in 1 .. (i - 1) : s[j].op \in {"to", "getdata"} /\ s[j].path \in Under
      /\ \A j \in 1 .. (i - 1) : s[j].op = "getdata" => j = i - 2
      /\ \A j \in (i + 1) .. Len(s) : s[j].op \notin Answers
      /\ i <= 2 => rd = "received" /\ in_queue = <<>>
      /\ i > 2 => s[i - 2].op = "getdata" /\ in_queue = <<"received">>

AnswerInv ==
  /\ \A i \in DOMAIN out_queue : out_queue[i] = "call"
  /\ \A t \in Threads : todo[t] \in Without(Answers) \/ \E i \in Nat : Answering(t, i)
  /\ in_queue = <<>> \/ \E t \in Threads, i \in Nat : Answering(t, i)

LEMMA AnsweringNow ==
  ASSUME TypeOK, NEW t \in Threads, NEW i \in Nat, Answering(t, i)
  PROVE  /\ ~Idle(t) /\ Now(t) = todo[t][1]
         /\ Now(t).op \in {"to", "getdata", "handle"}
         /\ Now(t).op = "handle" <=> i = 1
         /\ Now(t).op = "getdata" => i = 3
         /\ Now(t).op = "to" => i = 2 \/ i > 3
<1>1. /\ todo[t] \in Seq(Steps) /\ i \in 1 .. Len(todo[t]) /\ todo[t][i].op = "handle"
      /\ \A j \in 1 .. (i - 1) : todo[t][j].op \in {"to", "getdata"}
      /\ \A j \in 1 .. (i - 1) : todo[t][j].op = "getdata" => j = i - 2
      /\ i > 2 => todo[t][i - 2].op = "getdata"
  BY DEF Answering, TypeOK
<1>2. ~Idle(t) /\ Now(t) = todo[t][1]
  BY <1>1 DEF Idle, Now
<1>3. CASE i = 1
  BY <1>1, <1>2, <1>3
<1>4. CASE i > 1
  <2>1. /\ todo[t][1].op \in {"to", "getdata"}
        /\ todo[t][1].op = "getdata" => 1 = i - 2
    BY <1>1, <1>4
  <2>2. i = 3 => todo[t][1].op = "getdata"
    BY <1>1
  <2>3. QED
    BY <1>2, <1>4, <2>1, <2>2
<1>5. QED
  BY <1>1, <1>3, <1>4

LEMMA UnderHolds ==
  ASSUME NEW t, path[t] \in Under
  PROVE  "dev" \in Held(t)
<1>1. path[t] \in Seq(Locks) /\ path[t] # <<>> /\ path[t][1] = "dev"
  BY DEF Under
<1>2. 1 \in DOMAIN path[t]
  BY <1>1
<1>3. QED
  BY <1>1, <1>2 DEF Held

(* One thread at a time holds the device's lock.                           *)
LEMMA OneUnder ==
  ASSUME Exclusive, NEW t \in Threads, NEW u \in Threads,
         path[t] \in Under, path[u] \in Under
  PROVE  t = u
  BY UnderHolds DEF Exclusive

(* Where a thread that makes one of these steps is.                        *)
LEMMA StepsUnder ==
  ASSUME TypeOK, NEW t \in Threads, OnPath(t), NEW op \in UnderOps, Reaches(t, op)
  PROVE  path[t] \in Under
<1>1. Now(t).path \in Under /\ Now(t).op = op
  BY NowTyped, Kinds
<1>2. Place(Now(t)) = path[t]
  BY Where DEF UnderOps
<1>3. op \notin {"find", "count"} /\ op # "insert"
  BY DEF UnderOps
<1>4. Place(Now(t)) \in {Now(t).path, Append(Now(t).path, "srpc")}
  BY <1>1, <1>3 DEF Place
<1>5. Append(Now(t).path, "srpc") \in Under
  BY <1>1, UnderIsRoot, TakeOne, "srpc" \in Locks DEF Locks
<1>6. QED
  BY <1>1, <1>2, <1>4, <1>5

LEMMA AnswerMovesOn ==
  ASSUME TypeOK, NEW t \in Threads, NEW i \in Nat, Answering(t, i), i > 1,
         todo'[t] = Tail(todo[t]), path'[t] \in Under,
         IF i = 3 THEN rd' = "received" /\ in_queue' = <<>>
         ELSE rd' = rd /\ in_queue' = in_queue
  PROVE  Answering(t, i - 1)'
<1> DEFINE s == todo[t]
           r == Tail(s)
<1>1. /\ s \in Seq(Steps) /\ r \in Seq(Steps) /\ Len(r) = Len(s) - 1 /\ Len(s) \in Nat
      /\ \A j \in 1 .. Len(r) : r[j] = s[j + 1]
      /\ todo'[t] = r
  BY DEF TypeOK, Answering
<1>2. /\ i \in 1 .. Len(s) /\ s[i].op = "handle"
      /\ \A j \in 1 .. (i - 1) : s[j].op \in {"to", "getdata"} /\ s[j].path \in Under
      /\ \A j \in 1 .. (i - 1) : s[j].op = "getdata" => j = i - 2
      /\ \A j \in (i + 1) .. Len(s) : s[j].op \notin Answers
      /\ i <= 2 => rd = "received" /\ in_queue = <<>>
      /\ i > 2 => s[i - 2].op = "getdata" /\ in_queue = <<"received">>
  BY DEF Answering
<1> HIDE DEF s, r
<1>3. i - 1 \in 1 .. Len(r) /\ r[i - 1].op = "handle"
  <2>1. i - 1 \in 1 .. Len(r) /\ (i - 1) + 1 = i
    BY <1>1, <1>2
  <2>2. QED
    BY <1>1, <1>2, <2>1
<1>4. ASSUME NEW j \in 1 .. ((i - 1) - 1)
      PROVE  /\ r[j].op \in {"to", "getdata"} /\ r[j].path \in Under
             /\ r[j].op = "getdata" => j = (i - 1) - 2
  <2>1. j \in 1 .. Len(r) /\ j + 1 \in 1 .. (i - 1) /\ j \in Nat
    BY <1>1, <1>2
  <2>2. r[j] = s[j + 1]
    BY <1>1, <2>1
  <2>3. QED
    BY <1>2, <2>1, <2>2
<1>5. ASSUME NEW j \in ((i - 1) + 1) .. Len(r) PROVE r[j].op \notin Answers
  <2>1. j \in 1 .. Len(r) /\ j + 1 \in (i + 1) .. Len(s)
    BY <1>1, <1>2
  <2>2. QED
    BY <1>1, <1>2, <2>1
<1>6. i - 1 <= 2 => rd' = "received" /\ in_queue' = <<>>
  BY <1>2
<1>7. i - 1 > 2 => r[(i - 1) - 2].op = "getdata" /\ in_queue' = <<"received">>
  <2>1. SUFFICES ASSUME i - 1 > 2
                 PROVE  r[(i - 1) - 2].op = "getdata" /\ in_queue' = <<"received">>
    OBVIOUS
  <2>2. (i - 1) - 2 \in 1 .. Len(r) /\ ((i - 1) - 2) + 1 = i - 2
    BY <1>1, <1>2, <2>1
  <2>3. r[(i - 1) - 2] = s[i - 2]
    BY <1>1, <2>2
  <2>4. QED
    BY <1>2, <2>1, <2>3
<1>8. QED
  BY <1>1, <1>3, <1>4, <1>5, <1>6, <1>7 DEF Answering

(* A handler runs: none of the rest is about a packet.                     *)
LEMMA AnswerEnds ==
  ASSUME TypeOK, NEW t \in Threads, Answering(t, 1)
  PROVE  Tail(todo[t]) \in Without(Answers)
<1>1. /\ todo[t] \in Seq(Steps) /\ Tail(todo[t]) \in Seq(Steps)
      /\ Len(Tail(todo[t])) = Len(todo[t]) - 1 /\ Len(todo[t]) \in Nat
      /\ \A j \in 1 .. Len(Tail(todo[t])) :
           Tail(todo[t])[j] = todo[t][j + 1] /\ j + 1 \in 2 .. Len(todo[t])
  BY DEF TypeOK, Answering
<1>2. \A j \in 2 .. Len(todo[t]) : todo[t][j].op \notin Answers
  BY DEF Answering
<1>3. QED
  BY <1>1, <1>2 DEF Without

LEMMA OthersAnswer ==
  ASSUME NEW u \in Threads, NEW i \in Nat, Answering(u, i),
         todo'[u] = todo[u], path'[u] = path[u], rd' = rd, in_queue' = in_queue
  PROVE  Answering(u, i)'
  BY DEF Answering

(* A packet is received: it is to be got, and handled.                     *)
LEMMA AnswerBegins ==
  ASSUME TypeOK, NEW t \in Threads, ~Idle(t), todo[t] \in Without(Answers),
         NEW p \in Under, NEW rest \in Without(Answers),
         Goes(t, Answer(p) \o rest), path'[t] \in Under,
         in_queue' = <<"received">>
  PROVE  Answering(t, 5)'
<1> DEFINE a == Answer(p)
           b == rest \o Tail(todo[t])
           s == a \o b
<1>1. Tail(todo[t]) \in Without(Answers)
  BY TailWithout DEF Idle
<1>2. b \in Without(Answers)
  BY <1>1, JoinedWithout
<1>3. b \in Seq(Steps) /\ \A i \in 1 .. Len(b) : b[i].op \notin Answers
  BY <1>2 DEF Without
<1>4. /\ a \in Seq(Steps) /\ Len(a) = 5
      /\ a[1] = To(p) /\ a[2] = To(Append(p, "srpc")) /\ a[3] = At("getdata", p)
      /\ a[4] = To(p) /\ a[5] = At("handle", p)
  BY AnswerSteps
<1> HIDE DEF a
<1>5. todo'[t] = s
  <2>1. todo'[t] = (a \o rest) \o Tail(todo[t])
    BY DEF Goes, TypeOK, a
  <2>2. rest \in Seq(Steps) /\ Tail(todo[t]) \in Seq(Steps)
    BY <1>1 DEF Without
  <2>3. QED
    BY <1>4, <2>1, <2>2, Regrouped
<1>6. /\ a[1].op = "to" /\ a[1].path = p
      /\ a[2].op = "to" /\ a[2].path = Append(p, "srpc")
      /\ a[3].op = "getdata" /\ a[3].path = p
      /\ a[4].op = "to" /\ a[4].path = p
      /\ a[5].op = "handle"
  <2>1. \A x : To(x).op = "to" /\ To(x).path = x
    BY DEF To, Step
  <2>2. \A op, x : At(op, x).op = op /\ At(op, x).path = x
    BY DEF At, Step
  <2>3. a[1].op = "to" /\ a[1].path = p /\ a[4].op = "to" /\ a[4].path = p
    BY <1>4, <2>1
  <2>4. a[2].op = "to" /\ a[2].path = Append(p, "srpc")
    BY <1>4, <2>1
  <2>5. a[3].op = "getdata" /\ a[3].path = p /\ a[5].op = "handle"
    BY <1>4, <2>2
  <2>6. QED
    BY <2>3, <2>4, <2>5
<1>7. Append(p, "srpc") \in Under
  BY UnderIsRoot, TakeOne, "srpc" \in Locks DEF Locks
<1> HIDE DEF b
<1>8. /\ s \in Seq(Steps) /\ Len(s) = 5 + Len(b) /\ Len(b) \in Nat
      /\ \A i \in 1 .. 5 : s[i] = a[i]
      /\ \A i \in 1 .. Len(s) :
           \/ i \in 1 .. 5
           \/ i - 5 \in 1 .. Len(b) /\ s[i] = b[i - 5]
  <2>1. /\ s \in Seq(Steps) /\ Len(s) = Len(a) + Len(b) /\ Len(b) \in Nat
        /\ \A i \in 1 .. Len(a) : s[i] = a[i]
        /\ \A i \in 1 .. Len(s) :
             \/ i \in 1 .. Len(a)
             \/ i - Len(a) \in 1 .. Len(b) /\ s[i] = b[i - Len(a)]
    BY <1>3, <1>4, Concatenation
  <2>2. QED
    BY <1>4, <2>1
<1> HIDE DEF s
<1>9. /\ \A j \in 1 .. (5 - 1) : s[j].op \in {"to", "getdata"} /\ s[j].path \in Under
      /\ \A j \in 1 .. (5 - 1) : s[j].op = "getdata" => j = 5 - 2
  <2>1. \A j \in 1 .. (5 - 1) : j = 1 \/ j = 2 \/ j = 3 \/ j = 4
    OBVIOUS
  <2>2. s[1] = a[1] /\ s[2] = a[2] /\ s[3] = a[3] /\ s[4] = a[4]
    BY <1>8
  <2>3. /\ s[1].op = "to" /\ s[1].path \in Under
        /\ s[2].op = "to" /\ s[2].path \in Under
        /\ s[3].op = "getdata" /\ s[3].path \in Under
        /\ s[4].op = "to" /\ s[4].path \in Under
    BY <1>6, <1>7, <2>2
  <2>4. \A j \in 1 .. (5 - 1) : s[j].op \in {"to", "getdata"} /\ s[j].path \in Under
    BY <2>1, <2>3
  <2>5. \A j \in 1 .. (5 - 1) : s[j].op = "getdata" => j = 3
    BY <2>1, <2>3
  <2>6. QED
    BY <2>4, <2>5
<1>10. \A j \in (5 + 1) .. Len(s) : s[j].op \notin Answers
  BY <1>3, <1>8
<1>11. 5 \in 1 .. Len(s) /\ s[5].op = "handle" /\ s[5 - 2].op = "getdata"
  BY <1>6, <1>8
<1>12. ~(5 <= 2)
  OBVIOUS
<1>13. QED
  BY <1>5, <1>9, <1>10, <1>11, <1>12 DEF Answering

(* Who does nothing about a packet, goes on doing nothing.                 *)
LEMMA QuietStep ==
  ASSUME TypeOK, NEW t \in Threads,
         Call(t) \/ Fill(t) \/ (Acts(t) /\ ~Receive(t) /\ ~GetData(t) /\ ~Handle(t))
  PROVE  /\ rd' = rd /\ in_queue' = in_queue
         /\ \A i \in Nat : ~Answering(t, i)
         /\ todo[t] \in Without(Answers) => todo'[t] \in Without(Answers)
<1>1. rd' = rd /\ in_queue' = in_queue
  BY DEF Call, Fill, Acts, Loop, Find, Count, Add, Insert, Header, Row, Describe,
         Callback, Tick, Functions, IfFound, Push, Pop, srpc
<1>2. CASE Call(t)
  <2>1. Idle(t)
    BY <1>2 DEF Call
  <2>2. \A i \in Nat : ~Answering(t, i)
    BY <2>1, AnsweringNow
  <2>3. todo'[t] \in Without(Answers)
    <3>1. PICK steps \in Leg(<<>>, <<>>) :
            /\ todo' = [todo EXCEPT ![t] = steps]
            /\ \/ steps \in Plain
               \/ \E c \in Channels : /\ MayAdd(c)
                                     /\ steps = supla_dev_add_channel(<<>>, c)
      BY <1>2, CallGoes
    <3>2. steps \in Without(Answers)
      <4>1. steps \in Plain => steps \in Without(Answers)
        BY WithoutMore DEF Plain, Special, Answers
      <4>2. <<>> \in Roots
        BY DEF Roots
      <4>3. QED
        BY <3>1, <4>1, <4>2, AddingWithout
    <3>3. QED
      BY <3>1, <3>2 DEF TypeOK
  <2>4. QED
    BY <1>1, <2>2, <2>3
<1>3. CASE Fill(t) \/ (Acts(t) /\ ~Receive(t) /\ ~GetData(t) /\ ~Handle(t))
  <2>1. PICK op : Reaches(t, op) /\ op \notin {"to", "getdata", "handle"}
    <3>1. \E op \in LoopOps \cup {"fill", "find", "count", "insert", "header", "push",
                                 "pop", "add", "row", "describe", "callback",
                                 "tick", "functions", "function", "set value"} :
            Reaches(t, op)
      BY <1>3 DEF Fill, Acts, Loop, Find, Count, Add, Insert, Header, Row, Describe,
                  Callback, Tick, Functions, IfFound, Push, Pop
    <3>2. QED
      BY <3>1 DEF LoopOps
  <2>2. ~Idle(t) /\ Now(t).op = op
    BY <2>1 DEF Reaches
  <2>3. \A i \in Nat : ~Answering(t, i)
    BY <2>1, <2>2, AnsweringNow
  <2>4. \E steps \in Without(Answers) : Goes(t, steps)
    BY <1>3, ActsWithout, Nothing, FreeOf DEF Fill
  <2>5. QED
    BY <1>1, <2>2, <2>3, <2>4, StaysWithout
<1>4. QED
  BY <1>2, <1>3

(* Only calls are queued for the server.                                   *)
CallsOnly == \A i \in DOMAIN out_queue : out_queue[i] = "call"

LEMMA CallsQueued ==
  ASSUME IInv, CallsOnly, NEW t \in Threads,
         Call(t) \/ Lock(t) \/ Unlock(t) \/ Fill(t) \/ Acts(t)
  PROVE  CallsOnly'
<1>1. TypeOK /\ OnPath(t) /\ out_queue \in Seq(Packets)
  BY DEF IInv, TypeOK
<1>2. CASE Push(t)
  <2>1. sdp = "call"
    <3>1. Reaches(t, "push") /\ todo[t] # <<>> /\ Head(todo[t]).op = "push"
      BY <1>2 DEF Push, Reaches, Idle, Now
    <3>2. todo[t] \notin Leg(path[t], <<>>)
      BY <3>1, TailLeg
    <3>3. QED
      BY <1>1, <3>2 DEF OnPath
  <2>2. out_queue' \in {out_queue, Append(out_queue, "call")}
    BY <1>2, <2>1 DEF Push
  <2>3. \A i \in DOMAIN Append(out_queue, "call") :
          Append(out_queue, "call")[i] = "call"
    BY <1>1 DEF CallsOnly
  <2>4. QED
    BY <2>2, <2>3 DEF CallsOnly
<1>3. CASE Pop(t)
  <2>1. \/ out_queue' = out_queue
        \/ out_queue # <<>> /\ out_queue' = Tail(out_queue)
    BY <1>3 DEF Pop
  <2>2. out_queue # <<>> => \A i \in DOMAIN Tail(out_queue) :
          Tail(out_queue)[i] = out_queue[i + 1] /\ i + 1 \in DOMAIN out_queue
    BY <1>1
  <2>3. QED
    BY <2>1, <2>2 DEF CallsOnly
<1>4. CASE ~Push(t) /\ ~Pop(t)
  <2>1. out_queue' = out_queue
    BY <1>4 DEF Call, Lock, Unlock, Fill, Acts, Loop, Find, Count, Add, Insert, Header,
           Row, Describe, Callback, Tick, Handle, Functions, IfFound, Receive,
           GetData, srpc
  <2>2. QED
    BY <2>1 DEF CallsOnly
<1>5. QED
  BY <1>2, <1>3, <1>4

LEMMA AnswerHolds ==
  ASSUME IInv, AnswerInv, NEW t \in Threads,
         Call(t) \/ Lock(t) \/ Unlock(t) \/ Fill(t) \/ Acts(t)
  PROVE  AnswerInv'
<1> DEFINE Quiet(u) == todo[u] \in Without(Answers)
<1>1. /\ TypeOK /\ Exclusive /\ OnPath(t)
      /\ \A u \in Threads : Quiet(u) \/ \E i \in Nat : Answering(u, i)
      /\ in_queue = <<>> \/ \E u \in Threads, i \in Nat : Answering(u, i)
  BY DEF IInv, AnswerInv
<1>2. CallsOnly'
  BY CallsQueued DEF AnswerInv, CallsOnly
<1>3. \A u \in Threads : u # t => todo'[u] = todo[u] /\ path'[u] = path[u]
  BY <1>1, OthersSteps, LockOnPath, ActsGo DEF Call, Fill
<1>4. \A u \in Threads : u # t /\ Quiet(u) => Quiet(u)'
  BY <1>3
<1>5. \A u \in Threads, i \in Nat :
        u # t /\ Answering(u, i) /\ rd' = rd /\ in_queue' = in_queue
          => Answering(u, i)'
  BY <1>3, OthersAnswer
<1>6. \A u \in Threads, i \in Nat :
        path[t] \in Under /\ Answering(u, i) => u = t
  BY <1>1, OneUnder DEF Answering
<1> HIDE DEF Quiet
<1>7. CASE Call(t) \/ Fill(t) \/ (Acts(t) /\ ~Receive(t) /\ ~GetData(t) /\ ~Handle(t))
  <2>1. /\ rd' = rd /\ in_queue' = in_queue
        /\ \A i \in Nat : ~Answering(t, i)
        /\ Quiet(t) => Quiet(t)'
    BY <1>1, <1>7, QuietStep DEF Quiet
  <2>2. Quiet(t)'
    BY <1>1, <2>1
  <2>3. \A u \in Threads : Quiet(u)' \/ \E i \in Nat : Answering(u, i)'
    BY <1>1, <1>4, <1>5, <2>1, <2>2
  <2>4. in_queue' = <<>> \/ \E u \in Threads, i \in Nat : Answering(u, i)'
    BY <1>1, <1>5, <2>1
  <2>5. QED
    BY <1>2, <2>3, <2>4 DEF AnswerInv, CallsOnly, Quiet
<1>8. CASE Lock(t) \/ Unlock(t)
  <2>1. /\ Reaches(t, "to") /\ Goes(t, <<>>) /\ rd' = rd /\ in_queue' = in_queue
        /\ path' = [path EXCEPT ![t] = Now(t).path]
    BY <1>8 DEF Lock, Unlock, Wants, srpc
  <2>2. ~Idle(t) /\ Now(t).op = "to"
    BY <2>1 DEF Reaches
  <2>3. Quiet(t) => Quiet(t)'
    BY <1>1, <2>1, <2>2, StaysWithout, Nothing, FreeOf DEF Quiet
  <2>4. ASSUME NEW i \in Nat, Answering(t, i) PROVE Answering(t, i - 1)' /\ i - 1 \in Nat
    <3>1. Now(t) = todo[t][1] /\ (i = 2 \/ i > 3)
      BY <1>1, <2>2, <2>4, AnsweringNow
    <3>2. todo'[t] = Tail(todo[t])
      <4>1. Tail(todo[t]) \in Seq(Steps)
        BY <1>1, <2>1, NowTyped
      <4>2. QED
        BY <1>1, <2>1, <4>1 DEF Goes, TypeOK
    <3>3. path'[t] \in Under
      <4>1. path'[t] = todo[t][1].path
        BY <1>1, <2>1, <3>1 DEF TypeOK
      <4>2. todo[t][1].path \in Under
        BY <2>4, <3>1 DEF Answering
      <4>3. QED
        BY <4>1, <4>2
    <3>4. QED
      BY <1>1, <2>1, <2>4, <3>1, <3>2, <3>3, AnswerMovesOn
  <2>5. \A u \in Threads : Quiet(u)' \/ \E i \in Nat : Answering(u, i)'
    BY <1>1, <1>4, <1>5, <2>1, <2>3, <2>4
  <2>6. in_queue' = <<>> \/ \E u \in Threads, i \in Nat : Answering(u, i)'
    BY <1>1, <1>5, <2>1, <2>4
  <2>7. QED
    BY <1>2, <2>5, <2>6 DEF AnswerInv, CallsOnly, Quiet
<1>9. CASE GetData(t)
  <2>1. Reaches(t, "getdata") /\ Goes(t, <<>>) /\ path' = path
    BY <1>9 DEF GetData
  <2>2. ~Idle(t) /\ Now(t).op = "getdata" /\ path[t] \in Under
    BY <1>1, <2>1, StepsUnder DEF Reaches, UnderOps
  <2>3. ~Quiet(t)
    <3>1. todo[t] \in Seq(Steps) /\ todo[t] # <<>> /\ todo[t][1].op = "getdata"
      BY <1>1, <2>2 DEF TypeOK, Idle, Now
    <3>2. 1 \in 1 .. Len(todo[t])
      BY <3>1
    <3>3. QED
      BY <3>1, <3>2 DEF Quiet, Without, Answers
  <2>4. Answering(t, 3)
    BY <1>1, <2>2, <2>3, AnsweringNow
  <2>5. in_queue = <<"received">>
    BY <2>4 DEF Answering
  <2>6. rd' = "received" /\ in_queue' = <<>>
    BY <1>9, <2>5 DEF GetData
  <2>7. todo'[t] = Tail(todo[t])
    <3>1. Tail(todo[t]) \in Seq(Steps)
      BY <1>1, <2>1, NowTyped
    <3>2. QED
      BY <1>1, <2>1, <3>1 DEF Goes, TypeOK
  <2>8. Answering(t, 3 - 1)'
    BY <1>1, <2>1, <2>2, <2>4, <2>6, <2>7, AnswerMovesOn
  <2>9. \A u \in Threads : Quiet(u)' \/ \E i \in Nat : Answering(u, i)'
    BY <1>1, <1>4, <1>6, <2>2, <2>8
  <2>10. QED
    BY <1>2, <2>6, <2>9 DEF AnswerInv, CallsOnly, Quiet
<1>10. CASE Handle(t)
  <2>1. Reaches(t, "handle") /\ GoesFreely(t)
    BY <1>1, <1>10, HandleGoes DEF Handle
  <2>2. ~Idle(t) /\ Now(t).op = "handle" /\ path[t] \in Under
    BY <1>1, <2>1, StepsUnder DEF Reaches, UnderOps
  <2>3. ~Quiet(t)
    <3>1. todo[t] \in Seq(Steps) /\ todo[t] # <<>> /\ todo[t][1].op = "handle"
      BY <1>1, <2>2 DEF TypeOK, Idle, Now
    <3>2. 1 \in 1 .. Len(todo[t])
      BY <3>1
    <3>3. QED
      BY <3>1, <3>2 DEF Quiet, Without, Answers
  <2>4. Answering(t, 1)
    BY <1>1, <2>2, <2>3, AnsweringNow
  <2>5. in_queue' = <<>>
    BY <1>10, <2>4 DEF Answering, Handle
  <2>6. Quiet(t)'
    <3>1. PICK steps \in Without(Answers) : Goes(t, steps)
      BY <2>1, FreeOf DEF GoesFreely
    <3>2. Tail(todo[t]) \in Without(Answers)
      BY <1>1, <2>4, AnswerEnds
    <3>3. steps \o Tail(todo[t]) \in Without(Answers)
      BY <3>2, JoinedWithout
    <3>4. todo'[t] = steps \o Tail(todo[t])
      BY <1>1, <3>1 DEF Goes, TypeOK
    <3>5. QED
      BY <3>3, <3>4 DEF Quiet
  <2>7. \A u \in Threads : Quiet(u)'
    BY <1>1, <1>4, <1>6, <2>2, <2>6
  <2>8. QED
    BY <1>2, <2>5, <2>7 DEF AnswerInv, CallsOnly, Quiet
<1>11. CASE Receive(t)
  <2>1. Reaches(t, "receive") /\ path' = path /\ rd' = rd
    BY <1>11 DEF Receive
  <2>2. ~Idle(t) /\ Now(t).op = "receive" /\ path[t] \in Under
    BY <1>1, <2>1, StepsUnder DEF Reaches, UnderOps
  <2>3. \A u \in Threads, i \in Nat : ~Answering(u, i)
    BY <1>1, <1>6, <2>2, AnsweringNow
  <2>4. in_queue = <<>> /\ \A u \in Threads : Quiet(u)
    BY <1>1, <2>3
  <2>5. CASE in_queue' = in_queue /\ GoesFreely(t)
    <3>1. PICK steps \in Without(Answers) : Goes(t, steps)
      BY <2>5, FreeOf DEF GoesFreely
    <3>2. Quiet(t)'
      BY <1>1, <2>2, <2>4, <3>1, StaysWithout DEF Quiet
    <3>3. \A u \in Threads : Quiet(u)'
      BY <1>4, <2>4, <3>2
    <3>4. QED
      BY <1>2, <2>4, <2>5, <3>3 DEF AnswerInv, CallsOnly, Quiet
  <2>6. CASE /\ in_queue' = Append(in_queue, "received")
             /\ \E rest \in Free(Now(t).path, Now(t).path) :
                  Goes(t, Answer(Now(t).path) \o rest)
    <3>1. PICK rest \in Without(Answers) : Goes(t, Answer(Now(t).path) \o rest)
      BY <2>6, FreeOf
    <3>2. in_queue' = <<"received">>
      <4>1. Append(<<>>, "received") = <<"received">>
        OBVIOUS
      <4>2. QED
        BY <2>4, <2>6, <4>1
    <3>3. Now(t).path \in Under /\ path'[t] \in Under
      BY <1>1, <1>11, <2>1, <2>2, ReceiveGoes
    <3>4. Answering(t, 5)'
      BY <1>1, <2>2, <2>4, <3>1, <3>2, <3>3, AnswerBegins DEF Quiet
    <3>5. \A u \in Threads : Quiet(u)' \/ \E i \in Nat : Answering(u, i)'
      BY <1>4, <2>4, <3>4
    <3>6. QED
      BY <1>2, <3>4, <3>5 DEF AnswerInv, CallsOnly, Quiet
  <2>7. QED
    BY <1>1, <1>11, <2>5, <2>6, ReceiveGoes
<1>12. QED
  BY <1>7, <1>8, <1>9, <1>10, <1>11

LEMMA AnswerInit == Init => AnswerInv
<1>1. <<>> \in Without(Answers)
  BY Nothing, FreeOf
<1>2. QED
  BY <1>1 DEF Init, AnswerInv

LEMMA AnswerStutter == AnswerInv /\ UNCHANGED vars => AnswerInv'
  BY DEF AnswerInv, Answering, vars, srpc

LEMMA PacketsKept == IInv /\ AnswerInv => PacketsKeepTheirSide
<1> SUFFICES ASSUME IInv, AnswerInv PROVE PacketsKeepTheirSide
  OBVIOUS
<1>1. ASSUME NEW t \in Threads, Reaches(t, "handle") PROVE rd = "received"
  <2>1. TypeOK
    BY DEF IInv
  <2>2. ~Idle(t) /\ Now(t).op = "handle"
    BY <1>1 DEF Reaches
  <2>3. todo[t] \notin Without(Answers)
    <3>1. todo[t] \in Seq(Steps) /\ todo[t] # <<>> /\ todo[t][1].op = "handle"
      BY <2>1, <2>2 DEF TypeOK, Idle, Now
    <3>2. 1 \in 1 .. Len(todo[t])
      BY <3>1
    <3>3. QED
      BY <3>1, <3>2 DEF Without, Answers
  <2>4. Answering(t, 1)
    BY <2>1, <2>2, <2>3, AnsweringNow DEF AnswerInv
  <2>5. QED
    BY <2>4 DEF Answering
<1>2. QED
  BY <1>1 DEF AnswerInv, PacketsKeepTheirSide

(* PacketsAsSent: srpc->sdp is one buffer for all threads and both         *)
(* directions, and the lock of the srpc is given back between a packet's   *)
(* being queued and its being got: yet the handler is given what came from *)
(* the server, and what srpc_iterate sends is what a call has filled in,   *)
(* whatever the other threads do meanwhile.                                *)
THEOREM PacketsAsSent == Spec => []PacketsKeepTheirSide
<1> DEFINE Both == IInv /\ AnswerInv
<1>1. Init => Both
  BY InitHolds, AnswerInit
<1>2. Both /\ [Next]_vars => Both'
  <2> SUFFICES ASSUME Both, [Next]_vars PROVE Both'
    OBVIOUS
  <2>1. IInv'
    BY StepHolds
  <2>2. CASE UNCHANGED vars
    BY <2>1, <2>2, AnswerStutter
  <2>3. ASSUME NEW t \in Threads,
               Call(t) \/ Lock(t) \/ Unlock(t) \/ Fill(t) \/ Acts(t)
        PROVE  Both'
    BY <2>1, <2>3, AnswerHolds
  <2>4. QED
    BY <2>2, <2>3 DEF Next, Acts
<1>3. Both => PacketsKeepTheirSide
  BY PacketsKept
<1> HIDE DEF Both
<1>4. QED
  BY <1>1, <1>2, <1>3, PTL DEF Spec

-----------------------------------------------------------------------------
(* The i-th of the steps that t has yet to make adds the channel that it   *)
(* names, which is not listed yet; t has counted those that are, or is to  *)
(* count them two steps before.                                            *)
Adding(t, i) ==
  LET s == todo[t]
  IN  /\ i \in 1 .. Len(s) /\ s[i].op \in {"add", "insert"}
      /\ \A j \in 1 .. (i - 1) :
           s[j].op = "to" \/ (s[j].op = "count" /\ j = i - 2)
      /\ \A j \in (i + 1) .. Len(s) : s[j].op \notin Adders
      /\ \A j \in DOMAIN list : list[j] # s[i].ch
      /\ \/ s[i].op = "add" /\ i > 2 /\ s[i - 2].op = "count"
         \/ counted[t] = Len(list)

Numbered == \A i \in DOMAIN list : number[list[i]] = i - 1

AddInv ==
  /\ \A t \in Threads : todo[t] \in Without(Adders) \/ \E i \in Nat : Adding(t, i)
  /\ \A t, u \in Threads :
       t # u => todo[t] \in Without(Adders) \/ todo[u] \in Without(Adders)
  /\ Numbered

LEMMA AddingNow ==
  ASSUME TypeOK, NEW t \in Threads, NEW i \in Nat, Adding(t, i)
  PROVE  /\ ~Idle(t) /\ Now(t) = todo[t][1]
         /\ Now(t).op \in {"to", "count", "add", "insert"}
         /\ Now(t).op \in {"add", "insert"} <=> i = 1
         /\ Now(t).op = "count" => i = 3
<1>1. /\ todo[t] \in Seq(Steps) /\ i \in 1 .. Len(todo[t])
      /\ todo[t][i].op \in {"add", "insert"}
      /\ \A j \in 1 .. (i - 1) :
           todo[t][j].op = "to" \/ (todo[t][j].op = "count" /\ j = i - 2)
  BY DEF Adding, TypeOK
<1>2. ~Idle(t) /\ Now(t) = todo[t][1]
  BY <1>1 DEF Idle, Now
<1>3. CASE i = 1
  BY <1>1, <1>2, <1>3
<1>4. CASE i > 1
  <2>1. todo[t][1].op = "to" \/ (todo[t][1].op = "count" /\ 1 = i - 2)
    BY <1>1, <1>4
  <2>2. QED
    BY <1>2, <1>4, <2>1
<1>5. QED
  BY <1>1, <1>3, <1>4

LEMMA AddMovesOn ==
  ASSUME TypeOK, NEW t \in Threads, NEW i \in Nat, Adding(t, i), i > 1,
         todo'[t] = Tail(todo[t]), list' = list,
         Now(t).op = "count" => counted'[t] = Len(list),
         Now(t).op # "count" => counted'[t] = counted[t]
  PROVE  Adding(t, i - 1)'
<1> DEFINE s == todo[t]
           r == Tail(s)
<1>1. /\ s \in Seq(Steps) /\ r \in Seq(Steps) /\ Len(r) = Len(s) - 1 /\ Len(s) \in Nat
      /\ \A j \in 1 .. Len(r) : r[j] = s[j + 1]
      /\ todo'[t] = r
  BY DEF TypeOK, Adding
<1>2. /\ i \in 1 .. Len(s) /\ s[i].op \in {"add", "insert"}
      /\ \A j \in 1 .. (i - 1) : s[j].op = "to" \/ (s[j].op = "count" /\ j = i - 2)
      /\ \A j \in (i + 1) .. Len(s) : s[j].op \notin Adders
      /\ \A j \in DOMAIN list : list[j] # s[i].ch
      /\ \/ s[i].op = "add" /\ i > 2 /\ s[i - 2].op = "count"
         \/ counted[t] = Len(list)
  BY DEF Adding
<1>3. Now(t) = s[1]
  BY AddingNow
<1> HIDE DEF s, r
<1>4. i - 1 \in 1 .. Len(r) /\ r[i - 1] = s[i]
  <2>1. i - 1 \in 1 .. Len(r) /\ (i - 1) + 1 = i
    BY <1>1, <1>2
  <2>2. QED
    BY <1>1, <2>1
<1>5. ASSUME NEW j \in 1 .. ((i - 1) - 1)
      PROVE  r[j].op = "to" \/ (r[j].op = "count" /\ j = (i - 1) - 2)
  <2>1. j \in 1 .. Len(r) /\ j + 1 \in 1 .. (i - 1) /\ j \in Nat
    BY <1>1, <1>2
  <2>2. r[j] = s[j + 1]
    BY <1>1, <2>1
  <2>3. QED
    BY <1>2, <2>1, <2>2
<1>6. ASSUME NEW j \in ((i - 1) + 1) .. Len(r) PROVE r[j].op \notin Adders
  <2>1. j \in 1 .. Len(r) /\ j + 1 \in (i + 1) .. Len(s)
    BY <1>1, <1>2
  <2>2. QED
    BY <1>1, <1>2, <2>1
<1>7. \/ r[i - 1].op = "add" /\ i - 1 > 2 /\ r[(i - 1) - 2].op = "count"
      \/ counted'[t] = Len(list)
  <2>1. CASE counted[t] = Len(list)
    BY <1>3, <2>1
  <2>2. CASE s[i].op = "add" /\ i = 3 /\ s[i - 2].op = "count"
    BY <1>3, <2>2
  <2>3. CASE s[i].op = "add" /\ i > 3 /\ s[i - 2].op = "count"
    <3>1. (i - 1) - 2 \in 1 .. Len(r) /\ ((i - 1) - 2) + 1 = i - 2
      BY <1>1, <1>2, <2>3
    <3>2. r[(i - 1) - 2] = s[i - 2]
      BY <1>1, <3>1
    <3>3. QED
      BY <1>4, <2>3, <3>2
  <2>4. QED
    BY <1>2, <2>1, <2>2, <2>3
<1>8. \A j \in DOMAIN list : list[j] # r[i - 1].ch
  BY <1>2, <1>4
<1>9. r[i - 1].op \in {"add", "insert"}
  BY <1>2, <1>4
<1>10. QED
  BY <1>1, <1>4, <1>5, <1>6, <1>7, <1>8, <1>9 DEF Adding

LEMMA OthersAdding ==
  ASSUME NEW u \in Threads, NEW i \in Nat, Adding(u, i),
         todo'[u] = todo[u], list' = list, counted'[u] = counted[u]
  PROVE  Adding(u, i)'
  BY DEF Adding

LEMMA AddEnds ==
  ASSUME TypeOK, NEW t \in Threads, Adding(t, 1)
  PROVE  /\ Tail(todo[t]) \in Without(Adders) /\ Now(t).op \in {"add", "insert"}
         /\ counted[t] = Len(list) /\ \A j \in DOMAIN list : list[j] # Now(t).ch
<1>1. /\ todo[t] \in Seq(Steps) /\ Tail(todo[t]) \in Seq(Steps)
      /\ Len(Tail(todo[t])) = Len(todo[t]) - 1 /\ Len(todo[t]) \in Nat
      /\ \A j \in 1 .. Len(Tail(todo[t])) :
           Tail(todo[t])[j] = todo[t][j + 1] /\ j + 1 \in 2 .. Len(todo[t])
  BY DEF TypeOK, Adding
<1>2. \A j \in 2 .. Len(todo[t]) : todo[t][j].op \notin Adders
  BY DEF Adding
<1>3. Tail(todo[t]) \in Without(Adders)
  BY <1>1, <1>2 DEF Without
<1>4. /\ Now(t).op \in {"add", "insert"} /\ counted[t] = Len(list)
      /\ \A j \in DOMAIN list : list[j] # Now(t).ch
  BY AddingNow DEF Adding
<1>5. QED
  BY <1>3, <1>4

(* The channel has been created: it is to be put in the list.              *)
LEMMA InsertBegins ==
  ASSUME TypeOK, NEW t \in Threads, Adding(t, 1), NEW p \in Roots, NEW c \in Channels,
         c = Now(t).ch, Goes(t, Inserting(p, c)), list' = list,
         counted'[t] = counted[t]
  PROVE  Adding(t, 3)'
<1> DEFINE a == Inserting(p, c)
           b == Tail(todo[t])
           s == a \o b
<1>1. b \in Seq(Steps) /\ \A i \in 1 .. Len(b) : b[i].op \notin Adders
  BY AddEnds DEF Without
<1>2. a \in Seq(Steps)
  BY AddLeg, Typed
<1>3. /\ Len(a) = 6
      /\ a[1].op = "to" /\ a[2].op = "to" /\ a[3].op = "insert" /\ a[3].ch = c
      /\ a[4].op = "to" /\ a[5].op = "to" /\ a[6].op = "callback"
  BY Fields DEF Inserting
<1>4. todo'[t] = s
  BY DEF Goes, TypeOK
<1>5. counted[t] = Len(list) /\ \A j \in DOMAIN list : list[j] # c
  BY AddEnds
<1> HIDE DEF a, b
<1>6. /\ s \in Seq(Steps) /\ Len(s) = 6 + Len(b) /\ Len(b) \in Nat
      /\ \A i \in 1 .. 6 : s[i] = a[i]
      /\ \A i \in 1 .. Len(s) :
           \/ i \in 1 .. 6
           \/ i - 6 \in 1 .. Len(b) /\ s[i] = b[i - 6]
  <2>1. /\ s \in Seq(Steps) /\ Len(s) = Len(a) + Len(b) /\ Len(b) \in Nat
        /\ \A i \in 1 .. Len(a) : s[i] = a[i]
        /\ \A i \in 1 .. Len(s) :
             \/ i \in 1 .. Len(a)
             \/ i - Len(a) \in 1 .. Len(b) /\ s[i] = b[i - Len(a)]
    BY <1>1, <1>2, Concatenation
  <2>2. QED
    BY <1>3, <2>1
<1> HIDE DEF s
<1>7. s[1].op = "to" /\ s[2].op = "to" /\ s[3].op = "insert" /\ s[3].ch = c
  BY <1>3, <1>6
<1>8. \A j \in 1 .. (3 - 1) : s[j].op = "to"
  BY <1>7
<1>9. \A j \in (3 + 1) .. Len(s) : s[j].op \notin Adders
  <2>1. s[4].op = "to" /\ s[5].op = "to" /\ s[6].op = "callback"
    BY <1>3, <1>6
  <2>2. \A j \in (3 + 1) .. Len(s) : j = 4 \/ j = 5 \/ j = 6 \/ j \notin 1 .. 6
    OBVIOUS
  <2>3. QED
    BY <1>1, <1>6, <2>1, <2>2 DEF Adders
<1>10. 3 \in 1 .. Len(s)
  BY <1>6
<1>11. QED
  BY <1>4, <1>5, <1>7, <1>8, <1>9, <1>10 DEF Adding

(* A call of supla_dev_add_channel: nobody else is adding.                 *)
LEMMA AddBegins ==
  ASSUME TypeOK, ~AddsOverlap, NEW t \in Threads, NEW c \in Channels, MayAdd(c),
         todo' = [todo EXCEPT ![t] = supla_dev_add_channel(<<>>, c)], list' = list,
         \A u \in Threads : todo[u] \in Without(Adders) \/ \E i \in Nat : Adding(u, i)
  PROVE  /\ Adding(t, 4)' /\ \A u \in Threads : todo[u] \in Without(Adders)
<1> DEFINE s == supla_dev_add_channel(<<>>, c)
<1>1. <<>> \in Roots
  BY DEF Roots
<1>2. s \in Seq(Steps)
  BY <1>1, AddCall, Typed
<1>3. /\ Len(s) = 4 /\ s[1].op = "to" /\ s[2].op = "count" /\ s[3].op = "to"
      /\ s[4].op = "add" /\ s[4].ch = c
  BY Fields DEF supla_dev_add_channel
<1>4. todo'[t] = s
  BY DEF TypeOK
<1> HIDE DEF s
<1>5. Adding(t, 4)'
  <2>1. \A j \in 1 .. (4 - 1) : s[j].op = "to" \/ (s[j].op = "count" /\ j = 4 - 2)
    <3>1. \A j \in 1 .. (4 - 1) : j = 1 \/ j = 2 \/ j = 3
      OBVIOUS
    <3>2. 4 - 2 = 2
      OBVIOUS
    <3>3. QED
      BY <1>3, <3>1, <3>2
  <2>2. \A j \in (4 + 1) .. Len(s) : FALSE
    BY <1>3
  <2>3. 4 \in 1 .. Len(s) /\ 4 > 2 /\ s[4 - 2].op = "count"
    BY <1>3
  <2>4. \A j \in DOMAIN list : list[j] # c
    BY DEF MayAdd
  <2>5. QED
    BY <1>3, <1>4, <2>1, <2>2, <2>3, <2>4 DEF Adding
<1>6. ASSUME NEW u \in Threads, NEW i \in Nat, Adding(u, i) PROVE FALSE
  <2>1. /\ i \in DOMAIN todo[u] /\ todo[u][i] \in Steps
        /\ todo[u][i].op \in {"add", "insert"}
    BY <1>6 DEF Adding, TypeOK
  <2>2. todo[u][i].ch \in Channels
    BY <2>1, Kinds
  <2>3. QED
    BY <2>1, <2>2 DEF MayAdd, Adds
<1>7. QED
  BY <1>5, <1>6

(* Who adds nothing goes on adding nothing, unless it is called to.        *)
LEMMA NoAddStep ==
  ASSUME TypeOK, NEW t \in Threads, todo[t] \in Without(Adders),
         Lock(t) \/ Unlock(t) \/ Fill(t) \/ Acts(t)
  PROVE  todo'[t] \in Without(Adders) /\ ~Count(t) /\ ~Add(t) /\ ~Insert(t)
<1>1. \E op : Reaches(t, op)
  BY ActsGo DEF Lock, Unlock, Fill, Wants
<1>2. ~Idle(t)
  BY <1>1 DEF Reaches
<1>3. Now(t).op \notin Adders
  <2>1. todo[t] \in Seq(Steps) /\ todo[t] # <<>> /\ Now(t) = todo[t][1]
    BY <1>2 DEF TypeOK, Idle, Now
  <2>2. 1 \in 1 .. Len(todo[t])
    BY <2>1
  <2>3. QED
    BY <2>1, <2>2 DEF Without
<1>4. ~Count(t) /\ ~Add(t) /\ ~Insert(t)
  BY <1>3 DEF Count, Add, Insert, Reaches, Adders
<1>5. \E steps \in Without(Adders) : Goes(t, steps)
  BY <1>4, ActsWithout, Nothing, FreeOf DEF Lock, Unlock, Fill
<1>6. QED
  BY <1>2, <1>4, <1>5, StaysWithout

(* What changes the list, and what is counted of it.                       *)
LEMMA ListKept ==
  ASSUME NEW t \in Threads,
         Call(t) \/ Lock(t) \/ Unlock(t) \/ Fill(t) \/ Acts(t)
  PROVE  /\ ~Insert(t) => list' = list /\ number' = number
         /\ ~Insert(t) /\ ~Add(t) /\ ~Count(t) => counted' = counted
  BY DEF Call, Lock, Unlock, Fill, Acts, Loop, Find, Count, Add, Insert, Header, Row,
         Describe, Callback, Tick, Handle, Functions, IfFound, Push, Pop, Receive,
         GetData, lists

LEMMA AddHolds ==
  ASSUME IInv, AddInv, ~AddsOverlap, NEW t \in Threads,
         Call(t) \/ Lock(t) \/ Unlock(t) \/ Fill(t) \/ Acts(t)
  PROVE  AddInv'
<1> DEFINE Quiet(u) == todo[u] \in Without(Adders)
<1>1. /\ TypeOK
      /\ \A u \in Threads : Quiet(u) \/ \E i \in Nat : Adding(u, i)
      /\ \A u, v \in Threads : u # v => Quiet(u) \/ Quiet(v)
      /\ Numbered
  BY DEF IInv, AddInv
<1>2. \A u \in Threads : u # t => todo'[u] = todo[u]
  BY <1>1, OthersSteps
<1>3. \A u \in Threads : u # t /\ Quiet(u) => Quiet(u)'
  BY <1>2
<1> HIDE DEF Quiet
<1>4. CASE Call(t)
  <2>1. list' = list /\ number' = number /\ counted' = counted
    BY <1>4, ListKept DEF Call, Insert, Add, Count, lists
  <2>2. Numbered'
    BY <1>1, <2>1 DEF Numbered
  <2>3. Idle(t)
    BY <1>4 DEF Call
  <2>4. Quiet(t)
    BY <1>1, <2>3, AnsweringNow, AddingNow
  <2>5. PICK steps \in Leg(<<>>, <<>>) :
          /\ todo' = [todo EXCEPT ![t] = steps]
          /\ \/ steps \in Plain
             \/ \E c \in Channels : /\ MayAdd(c)
                                   /\ steps = supla_dev_add_channel(<<>>, c)
    BY <1>4, CallGoes
  <2>6. CASE steps \in Plain
    <3>1. Quiet(t)'
      <4>1. steps \in Without(Adders)
        BY <2>6, WithoutMore DEF Plain, Special, Adders
      <4>2. QED
        BY <1>1, <2>5, <4>1 DEF Quiet, TypeOK
    <3>2. \A u \in Threads : Quiet(u)' \/ \E i \in Nat : Adding(u, i)'
      BY <1>1, <1>2, <1>3, <2>1, <3>1, OthersAdding
    <3>3. \A u, v \in Threads : u # v => Quiet(u)' \/ Quiet(v)'
      BY <1>1, <1>3, <3>1
    <3>4. QED
      BY <2>2, <3>2, <3>3 DEF AddInv, Quiet
  <2>7. CASE \E c \in Channels : MayAdd(c) /\ steps = supla_dev_add_channel(<<>>, c)
    <3>1. Adding(t, 4)' /\ \A u \in Threads : Quiet(u)
      BY <1>1, <2>1, <2>5, <2>7, AddBegins DEF Quiet
    <3>2. \A u \in Threads : Quiet(u)' \/ \E i \in Nat : Adding(u, i)'
      BY <1>3, <3>1
    <3>3. \A u, v \in Threads : u # v => Quiet(u)' \/ Quiet(v)'
      BY <1>3, <3>1
    <3>4. QED
      BY <2>2, <3>2, <3>3 DEF AddInv, Quiet
  <2>8. QED
    BY <2>5, <2>6, <2>7
<1>5. CASE ~Call(t) /\ Quiet(t)
  <2>1. Lock(t) \/ Unlock(t) \/ Fill(t) \/ Acts(t)
    BY <1>5
  <2>2. Quiet(t)' /\ ~Count(t) /\ ~Add(t) /\ ~Insert(t)
    BY <1>1, <1>5, <2>1, NoAddStep DEF Quiet
  <2>3. list' = list /\ number' = number /\ counted' = counted
    BY <2>1, <2>2, ListKept
  <2>4. \A u \in Threads : Quiet(u)' \/ \E i \in Nat : Adding(u, i)'
    BY <1>1, <1>2, <1>3, <2>2, <2>3, OthersAdding
  <2>5. \A u, v \in Threads : u # v => Quiet(u)' \/ Quiet(v)'
    BY <1>1, <1>3, <2>2
  <2>6. Numbered'
    BY <1>1, <2>3 DEF Numbered
  <2>7. QED
    BY <2>4, <2>5, <2>6 DEF AddInv, Quiet
<1>6. CASE ~Call(t) /\ ~Quiet(t)
  <2>1. PICK i \in Nat : Adding(t, i)
    BY <1>1, <1>6
  <2>2. \A u \in Threads : u # t => Quiet(u)'
    BY <1>1, <1>3, <1>6
  <2>3. SUFFICES (Quiet(t)' \/ \E j \in Nat : Adding(t, j)') /\ Numbered'
    BY <2>2 DEF AddInv, Quiet
  <2>4. /\ ~Idle(t) /\ Now(t) = todo[t][1]
        /\ Now(t).op \in {"to", "count", "add", "insert"}
        /\ Now(t).op \in {"add", "insert"} <=> i = 1
    BY <1>1, <2>1, AddingNow
  <2>5. CASE Now(t).op \in {"to", "count"}
    <3>1. i > 1 /\ i - 1 \in Nat
      <4>1. i # 1
        BY <2>4, <2>5
      <4>2. i \in 1 .. Len(todo[t]) /\ Len(todo[t]) \in Nat
        <5>1. i \in 1 .. Len(todo[t])
          BY <2>1 DEF Adding
        <5>2. QED
          BY <1>1, <5>1 DEF TypeOK
      <4>3. QED
        BY <4>1, <4>2
    <3>2. Lock(t) \/ Unlock(t) \/ Count(t)
      BY <1>6, <2>5 DEF Call, Fill, Acts, Loop, Find, Add, Insert, Header, Row,
                       Describe, Callback, Tick, Handle, Functions, IfFound, Push,
                       Pop, Receive, GetData, Reaches, LoopOps
    <3>3. Goes(t, <<>>) /\ \E op : Reaches(t, op)
      BY <3>2 DEF Lock, Unlock, Count, Wants
    <3>4. todo'[t] = Tail(todo[t])
      <4>1. Tail(todo[t]) \in Seq(Steps)
        BY <1>1, <3>3, NowTyped
      <4>2. QED
        BY <1>1, <3>3, <4>1 DEF Goes, TypeOK
    <3>5. list' = list /\ number' = number
      BY <3>2 DEF Lock, Unlock, Count, lists
    <3>6. /\ Now(t).op = "count" => counted'[t] = Len(list)
          /\ Now(t).op # "count" => counted'[t] = counted[t]
      BY <1>1, <3>2 DEF Lock, Unlock, Count, lists, Wants, Reaches, TypeOK
    <3>7. Adding(t, i - 1)'
      BY <1>1, <2>1, <3>1, <3>4, <3>5, <3>6, AddMovesOn
    <3>8. Numbered'
      BY <1>1, <3>5 DEF Numbered
    <3>9. QED
      BY <3>1, <3>7, <3>8
  <2>6. CASE Now(t).op \in {"add", "insert"}
    <3>1. /\ Adding(t, 1) /\ Tail(todo[t]) \in Without(Adders)
          /\ counted[t] = Len(list) /\ \A j \in DOMAIN list : list[j] # Now(t).ch
      BY <1>1, <2>1, <2>4, <2>6, AddEnds
    <3>2. Add(t) \/ Insert(t)
      BY <1>6, <2>6 DEF Call, Lock, Unlock, Wants, Fill, Acts, Loop, Find, Count,
                       Header, Row, Describe, Callback, Tick, Handle, Functions,
                       IfFound, Push, Pop, Receive, GetData, Reaches, LoopOps
    <3>3. ASSUME Goes(t, <<>>) PROVE Quiet(t)'
      <4>1. Tail(todo[t]) \in Seq(Steps)
        BY <3>1 DEF Without
      <4>2. todo'[t] = Tail(todo[t])
        BY <1>1, <3>3, <4>1 DEF Goes, TypeOK
      <4>3. QED
        BY <3>1, <4>2 DEF Quiet
    <3>4. CASE Add(t)
      <4>1. list' = list /\ number' = number
        BY <3>4 DEF Add
      <4>2. Numbered'
        BY <1>1, <4>1 DEF Numbered
      <4>3. CASE Goes(t, <<>>)
        BY <3>3, <4>2, <4>3
      <4>4. CASE /\ ~(counted[t] + 1 >= ChannelMaxCount)
                 /\ Goes(t, Inserting(Now(t).path, Now(t).ch))
        <5>1. counted'[t] = counted[t]
          BY <3>4, <4>4 DEF Add
        <5>2. Now(t).path \in Roots /\ Now(t).ch \in Channels
          BY <1>1, <3>4, AddGoes
        <5>3. Adding(t, 3)'
          BY <1>1, <3>1, <4>1, <4>4, <5>1, <5>2, InsertBegins
        <5>4. QED
          BY <4>2, <5>3
      <4>5. QED
        BY <1>1, <3>4, <4>3, <4>4, AddGoes
    <3>5. CASE Insert(t)
      <4>1. /\ list' = Append(list, Now(t).ch) /\ Goes(t, <<>>)
            /\ number' = [number EXCEPT ![Now(t).ch] = counted[t]]
        BY <3>5 DEF Insert
      <4>2. Now(t).ch \in Channels
        BY <1>1, <3>5, NowTyped, Kinds DEF Insert
      <4>3. /\ list \in Seq(Channels) /\ number \in [Channels -> Int]
        BY <1>1 DEF TypeOK
      <4>4. ASSUME NEW j \in DOMAIN list' PROVE number'[list'[j]] = j - 1
        <5>1. CASE j \in DOMAIN list
          <6>1. list'[j] = list[j] /\ list[j] \in Channels /\ list[j] # Now(t).ch
            BY <3>1, <4>1, <4>2, <4>3, <5>1
          <6>2. number'[list[j]] = number[list[j]]
            BY <4>1, <4>3, <6>1
          <6>3. QED
            BY <1>1, <5>1, <6>1, <6>2 DEF Numbered
        <5>2. CASE j = Len(list) + 1
          <6>1. list'[j] = Now(t).ch
            BY <4>1, <4>2, <4>3, <5>2
          <6>2. number'[Now(t).ch] = counted[t]
            BY <4>1, <4>2, <4>3
          <6>3. Len(list) \in Nat
            BY <4>3
          <6>4. QED
            BY <3>1, <5>2, <6>1, <6>2, <6>3
        <5>3. QED
          BY <4>1, <4>2, <4>3, <4>4, <5>1, <5>2
      <4>5. Numbered'
        BY <4>4 DEF Numbered
      <4>6. QED
        BY <3>3, <4>1, <4>5
    <3>6. QED
      BY <3>2, <3>4, <3>5
  <2>7. QED
    BY <2>4, <2>5, <2>6
<1>7. QED
  BY <1>4, <1>5, <1>6

LEMMA AddInit == Init => AddInv
<1>1. <<>> \in Without(Adders)
  BY Nothing, FreeOf
<1>2. QED
  BY <1>1 DEF Init, AddInv, Numbered

LEMMA AddStutter == AddInv /\ UNCHANGED vars => AddInv'
  BY DEF AddInv, Adding, Numbered, vars, lists

-----------------------------------------------------------------------------
(* The step that looks at the numbers of the channels in turn.             *)
Looks(step) == step.op = "each number"

(* The i-th of the steps s is the next row of a registration. What comes   *)
(* before it is the header, or finds the channel by its number and         *)
(* describes it.                                                           *)
RowAt(s, i) ==
  /\ i \in 1 .. Len(s) /\ s[i].op = "row"
  /\ \A j \in 1 .. (i - 1) :
       /\ s[j].path \in Under
       /\ \/ s[j].op \in {"to", "fill"}
          \/ s[j].op = "header" /\ j = 1
          \/ Looks(s[j]) /\ j = i - 4
          \/ s[j].op = "find" /\ j = i - 3
          \/ s[j].op = "describe" /\ j = i - 1
  /\ \A j \in (i + 1) .. Len(s) : s[j].op \notin Registers

Describes(s, i) == i > 1 /\ s[i - 1].op = "describe"

(* And t makes it with the device's lock held: the channels told of are    *)
(* those before the row, or before the one that is being looked for.       *)
Registering(t, i) ==
  LET s == todo[t]
      n == s[i].n
  IN  /\ path[t] \in Under /\ RowAt(s, i)
      /\ s[1].op = "header" => n = 0 /\ ~Describes(s, i)
      /\ s[1].op # "header" => header = Len(list) /\ n <= header
      /\ s[1].op # "header" /\ ~Describes(s, i) => described = SubSeq(list, 1, n)
      /\ Describes(s, i) => n > 0 /\ described = SubSeq(list, 1, n - 1)
      /\ Describes(s, i) /\ i > 3 => s[i - 3].op = "find" /\ s[i - 3].n = n - 1
      /\ Describes(s, i) /\ i <= 3 => found[t] = list[n]

RegInv ==
  \A t \in Threads : todo[t] \in Without(Registers) \/ \E i \in Nat : Registering(t, i)

LEMMA LooksOnly ==
  ASSUME NEW a, Looks(a)
  PROVE  a.op \notin {"to", "fill", "header", "find", "describe", "row"}
  BY DEF Looks

(* What comes of the steps s when others come in place of the first.       *)
LEMMA Replaced ==
  ASSUME NEW s \in Seq(Steps), s # <<>>, NEW a \in Seq(Steps)
  PROVE  /\ Len(a \o Tail(s)) = Len(a) + Len(s) - 1
         /\ Len(a) \in Nat /\ Len(s) \in Nat
         /\ \A j \in 1 .. Len(a) : (a \o Tail(s))[j] = a[j]
         /\ \A m \in 2 .. Len(s) : (a \o Tail(s))[Len(a) + m - 1] = s[m]
<1>1. /\ Tail(s) \in Seq(Steps) /\ Len(Tail(s)) = Len(s) - 1 /\ Len(s) \in Nat \ {0}
      /\ \A j \in 1 .. Len(Tail(s)) : Tail(s)[j] = s[j + 1]
  OBVIOUS
<1> DEFINE b == Tail(s)
           r == a \o b
           n == Len(a)
<1>2. /\ n \in Nat /\ Len(r) = n + Len(b)
      /\ \A j \in 1 .. n : r[j] = a[j]
      /\ \A j \in 1 .. Len(b) : r[n + j] = b[j]
  BY <1>1, Concatenation
<1>3. /\ Len(b) = Len(s) - 1 /\ Len(s) \in Nat
      /\ \A j \in 1 .. Len(b) : b[j] = s[j + 1]
  BY <1>1
<1> HIDE DEF b, r, n
<1>4. ASSUME NEW m \in 2 .. Len(s) PROVE r[n + m - 1] = s[m]
  <2>1. m - 1 \in 1 .. Len(b) /\ (m - 1) + 1 = m /\ n + (m - 1) = n + m - 1
    BY <1>2, <1>3
  <2>2. r[n + (m - 1)] = b[m - 1] /\ b[m - 1] = s[(m - 1) + 1]
    BY <1>2, <1>3, <2>1
  <2>3. QED
    BY <2>1, <2>2
<1>5. Len(r) = n + Len(s) - 1
  BY <1>2, <1>3
<1>6. QED
  BY <1>2, <1>3, <1>4, <1>5 DEF r, n, b

(* The steps r are the steps s with n that take and give back locks in the  *)
(* place of the first; where a channel is looked for, it goes on after them. *)
InPlace(s, i, r, n) ==
  /\ Len(s) \in Nat /\ Len(r) = n + Len(s) - 1
  /\ \A j \in 1 .. n :
       /\ r[j].path \in Under
       /\ r[j].op = "to" \/ (Looks(r[j]) /\ j = n /\ i = 5)
  /\ \A m \in 2 .. Len(s) : r[n + m - 1] = s[m]

(* Then the row is where it was among the others.                          *)
LEMMA RowMoves ==
  ASSUME NEW s, NEW i \in Nat, RowAt(s, i), i > 1,
         NEW r, NEW n \in Nat, InPlace(s, i, r, n),
         NEW k, k = n + i - 1
  PROVE  /\ k \in Nat /\ RowAt(r, k) /\ r[k] = s[i] /\ r[1].op # "header"
         /\ Describes(r, k) <=> i > 2 /\ Describes(s, i)
         /\ (n = 0 /\ i > 4) \/ i = 5 => k > 3 /\ r[k - 3] = s[i - 3]
<1>1. /\ i \in 1 .. Len(s) /\ s[i].op = "row"
      /\ \A j \in 1 .. (i - 1) :
           /\ s[j].path \in Under
           /\ \/ s[j].op \in {"to", "fill"}
              \/ s[j].op = "header" /\ j = 1
              \/ Looks(s[j]) /\ j = i - 4
              \/ s[j].op = "find" /\ j = i - 3
              \/ s[j].op = "describe" /\ j = i - 1
      /\ \A j \in (i + 1) .. Len(s) : s[j].op \notin Registers
  BY DEF RowAt
<1>2. /\ Len(s) \in Nat /\ Len(r) = n + Len(s) - 1
      /\ \A j \in 1 .. n :
           /\ r[j].path \in Under
           /\ r[j].op = "to" \/ (Looks(r[j]) /\ j = n /\ i = 5)
      /\ \A m \in 2 .. Len(s) : r[n + m - 1] = s[m]
  BY DEF InPlace
<1>3. ASSUME NEW j, j \in (n + 1) .. Len(r)
      PROVE  /\ j - n + 1 \in 2 .. Len(s) /\ r[j] = s[j - n + 1]
  <2>1. j - n + 1 \in 2 .. Len(s) /\ n + (j - n + 1) - 1 = j
    BY <1>2, <1>3
  <2>2. QED
    BY <1>2, <2>1
<1>4. k \in 1 .. Len(r) /\ k \in Nat /\ r[k] = s[i]
  BY <1>2, <1>1
<1>5. ASSUME NEW j \in 1 .. (k - 1)
      PROVE  /\ r[j].path \in Under
             /\ \/ r[j].op \in {"to", "fill"}
                \/ r[j].op = "header" /\ j = 1
                \/ Looks(r[j]) /\ j = k - 4
                \/ r[j].op = "find" /\ j = k - 3
                \/ r[j].op = "describe" /\ j = k - 1
  <2>1. CASE j \in 1 .. n
    BY <1>2, <2>1
  <2>2. CASE j \in (n + 1) .. Len(r)
    <3> DEFINE m == j - n + 1
    <3>1. m \in 2 .. (i - 1) /\ r[j] = s[m]
      BY <1>3, <2>2
    <3>2. /\ m = i - 4 => j = k - 4
          /\ m = i - 3 => j = k - 3
          /\ m = i - 1 => j = k - 1
      BY <2>2
    <3> HIDE DEF m
    <3>3. m \in 1 .. (i - 1) /\ m # 1
      BY <3>1
    <3>4. QED
      BY <1>1, <3>1, <3>2, <3>3
  <2>3. QED
    BY <1>4, <2>1, <2>2
<1>6. ASSUME NEW j \in (k + 1) .. Len(r) PROVE r[j].op \notin Registers
  <2>1. j \in (n + 1) .. Len(r) /\ j - n + 1 \in (i + 1) .. Len(s)
    BY <1>2, <1>4
  <2>2. QED
    BY <1>1, <1>3, <2>1
<1>7. RowAt(r, k)
  BY <1>1, <1>4, <1>5, <1>6 DEF RowAt
<1>8. r[1].op # "header"
  <2>1. CASE n = 0
    <3>1. 2 \in 2 .. Len(s) /\ n + 2 - 1 = 1
      BY <1>1, <2>1
    <3>2. r[1] = s[2]
      BY <1>2, <3>1
    <3>3. s[2].op # "header"
      <4>1. CASE i = 2
        BY <1>1, <4>1
      <4>2. CASE i > 2
        <5>1. 2 \in 1 .. (i - 1) /\ ~(2 = 1)
          BY <4>2
        <5>2. \A j \in 1 .. (i - 1) :
                s[j].op # "header" \/ j = 1 \/ Looks(s[j])
          BY <1>1
        <5>3. s[2].op # "header" \/ Looks(s[2])
          BY <5>1, <5>2
        <5>4. QED
          BY <5>3, LooksOnly
      <4>3. QED
        BY <4>1, <4>2
    <3>4. QED
      BY <3>2, <3>3
  <2>2. CASE n > 0
    <3>1. r[1].op = "to" \/ Looks(r[1])
      BY <1>2, <2>2
    <3>2. QED
      BY <3>1, LooksOnly
  <2>3. QED
    BY <2>1, <2>2
<1>9. Describes(r, k) <=> i > 2 /\ Describes(s, i)
  <2>1. CASE i > 2
    <3>1. i - 1 \in 2 .. Len(s) /\ n + (i - 1) - 1 = k - 1 /\ k > 1
      BY <1>1, <2>1
    <3>2. r[k - 1] = s[i - 1]
      BY <1>2, <3>1
    <3>3. QED
      BY <2>1, <3>1, <3>2 DEF Describes
  <2>2. CASE i = 2
    <3>1. CASE n = 0
      BY <2>2, <3>1 DEF Describes
    <3>2. CASE n > 0
      <4>1. n \in 1 .. n /\ k - 1 = n
        BY <2>2, <3>2
      <4>2. k - 1 = n /\ r[n].op # "describe"
        BY <1>2, <4>1
      <4>3. QED
        BY <2>2, <4>2 DEF Describes
    <3>3. QED
      BY <3>1, <3>2
  <2>3. QED
    BY <2>1, <2>2
<1>10. ASSUME (n = 0 /\ i > 4) \/ i = 5 PROVE k > 3 /\ r[k - 3] = s[i - 3]
  <2>1. i - 3 \in 2 .. Len(s) /\ n + (i - 3) - 1 = k - 3 /\ k > 3
    BY <1>1, <1>10
  <2>2. QED
    BY <1>2, <2>1
<1>11. QED
  BY <1>4, <1>7, <1>8, <1>9, <1>10

LEMMA RegNow ==
  ASSUME TypeOK, NEW t \in Threads, NEW i \in Nat, Registering(t, i)
  PROVE  /\ ~Idle(t) /\ Now(t) = todo[t][1] /\ i > 0
         /\ todo[t] \in Seq(Steps) /\ todo[t] # <<>>
         /\ i = 1 => Now(t).op = "row"
         /\ i > 1 => /\ Now(t).path \in Under
                     /\ \/ Now(t).op \in {"to", "fill", "header"}
                        \/ Looks(Now(t)) /\ i = 5
                        \/ Now(t).op = "find" /\ i = 4
                        \/ Now(t).op = "describe" /\ i = 2
<1>1. /\ todo[t] \in Seq(Steps) /\ i \in 1 .. Len(todo[t])
      /\ todo[t][i].op = "row"
      /\ \A j \in 1 .. (i - 1) :
           /\ todo[t][j].path \in Under
           /\ \/ todo[t][j].op \in {"to", "fill"}
              \/ todo[t][j].op = "header" /\ j = 1
              \/ Looks(todo[t][j]) /\ j = i - 4
              \/ todo[t][j].op = "find" /\ j = i - 3
              \/ todo[t][j].op = "describe" /\ j = i - 1
  BY DEF Registering, RowAt, TypeOK
<1>2. /\ todo[t] # <<>> /\ ~Idle(t) /\ Now(t) = todo[t][1] /\ i > 0
  BY <1>1 DEF Idle, Now
<1>3. CASE i = 1
  BY <1>1, <1>2, <1>3
<1>4. CASE i > 1
  <2>1. /\ 1 \in 1 .. (i - 1)
        /\ 1 = i - 4 => i = 5
        /\ 1 = i - 3 => i = 4
        /\ 1 = i - 1 => i = 2
    BY <1>4
  <2>2. QED
    BY <1>1, <1>2, <1>4, <2>1
<1>5. QED
  BY <1>1, <1>2, <1>3, <1>4

(* Steps that take and give back locks, and perhaps go on looking.         *)
Bracing(a, i) ==
  \A j \in 1 .. Len(a) :
    /\ a[j].path \in Under
    /\ a[j].op = "to" \/ (Looks(a[j]) /\ j = Len(a) /\ i = 5)

LEMMA RegShape ==
  ASSUME TypeOK, NEW t \in Threads, NEW i \in Nat, Registering(t, i), i > 1,
         NEW a \in Seq(Steps), Goes(t, a), Bracing(a, i),
         NEW k, k = Len(a) + i - 1
  PROVE  LET s == todo[t]
             r == todo'[t]
         IN  /\ k \in Nat /\ RowAt(r, k) /\ r[k] = s[i] /\ r[1].op # "header"
             /\ Describes(r, k) <=> i > 2 /\ Describes(s, i)
             /\ (Len(a) = 0 /\ i > 4) \/ i = 5 => k > 3 /\ r[k - 3] = s[i - 3]
<1> DEFINE s == todo[t]
           r == a \o Tail(s)
           n == Len(a)
<1>1. /\ s \in Seq(Steps) /\ s # <<>> /\ RowAt(s, i)
  BY RegNow DEF Registering
<1>2. todo'[t] = r
  BY DEF Goes, TypeOK
<1>3. /\ Len(r) = n + Len(s) - 1 /\ n \in Nat /\ Len(s) \in Nat
      /\ \A j \in 1 .. n : r[j] = a[j]
      /\ \A m \in 2 .. Len(s) : r[n + m - 1] = s[m]
  BY <1>1, Replaced
<1>4. \A j \in 1 .. n :
        /\ a[j].path \in Under
        /\ a[j].op = "to" \/ (Looks(a[j]) /\ j = n /\ i = 5)
  BY DEF Bracing
<1>5. k = n + i - 1
  OBVIOUS
<1> HIDE DEF s, r, n
<1>6. \A j \in 1 .. n :
        /\ r[j].path \in Under
        /\ r[j].op = "to" \/ (Looks(r[j]) /\ j = n /\ i = 5)
  BY <1>3, <1>4
<1>7. /\ k \in Nat /\ RowAt(r, k) /\ r[k] = s[i] /\ r[1].op # "header"
      /\ Describes(r, k) <=> i > 2 /\ Describes(s, i)
      /\ (n = 0 /\ i > 4) \/ i = 5 => k > 3 /\ r[k - 3] = s[i - 3]
  <2>1. InPlace(s, i, r, n)
    BY <1>3, <1>6 DEF InPlace
  <2>2. RowAt(s, i) /\ n \in Nat
    BY <1>1, <1>3
  <2>3. QED
    BY <1>5, <2>1, <2>2, RowMoves
<1>8. QED
  BY <1>2, <1>7 DEF n, s

(* Locks are taken and given back: nothing is told.                        *)
LEMMA RegKept ==
  ASSUME TypeOK, NEW t \in Threads, NEW i \in Nat, Registering(t, i), i > 1,
         NEW a \in Seq(Steps), Goes(t, a), Bracing(a, i),
         Len(a) = 0 \/ i = 5,
         Now(t).op \in {"to", "fill"} \/ Looks(Now(t)),
         path'[t] \in Under, list' = list, header' = header,
         described' = described, found'[t] = found[t]
  PROVE  \E k \in Nat : Registering(t, k)'
<1> DEFINE s == todo[t]
           r == todo'[t]
           n == s[i].n
           k == Len(a) + i - 1
<1>1. /\ k \in Nat /\ RowAt(r, k) /\ r[k] = s[i] /\ r[1].op # "header"
      /\ Describes(r, k) <=> i > 2 /\ Describes(s, i)
      /\ (Len(a) = 0 /\ i > 4) \/ i = 5 => k > 3 /\ r[k - 3] = s[i - 3]
  BY RegShape
<1>2. /\ s[1].op \notin {"header", "find", "describe"}
  BY RegNow, LooksOnly
<1>3. /\ header = Len(list) /\ n <= header
      /\ ~Describes(s, i) => described = SubSeq(list, 1, n)
      /\ Describes(s, i) => n > 0 /\ described = SubSeq(list, 1, n - 1)
      /\ Describes(s, i) /\ i > 3 => s[i - 3].op = "find" /\ s[i - 3].n = n - 1
      /\ Describes(s, i) /\ i <= 3 => found[t] = list[n]
  BY <1>2 DEF Registering
<1>4. Describes(s, i) => i # 2 /\ i # 4
  <2>1. i = 2 => ~Describes(s, i)
    BY <1>2 DEF Describes
  <2>2. i = 4 => ~Describes(s, i)
    BY <1>2, <1>3
  <2>3. QED
    BY <2>1, <2>2
<1>5. i = 3 => k = 2
  OBVIOUS
<1> HIDE DEF s, r, n, k
<1>6. Describes(r, k) <=> Describes(s, i)
  BY <1>1, <1>4
<1>7. r[k].n = n
  BY <1>1 DEF n
<1>8. Describes(r, k) /\ k > 3 => r[k - 3].op = "find" /\ r[k - 3].n = n - 1
  BY <1>1, <1>3, <1>4, <1>5, <1>6
<1>9. Describes(r, k) /\ k <= 3 => found[t] = list[n]
  <2>1. i = 5 \/ i > 4 => k > 3
    BY <1>1
  <2>2. SUFFICES ASSUME Describes(r, k), k <= 3 PROVE found[t] = list[n]
    OBVIOUS
  <2>3. Describes(s, i) /\ i # 4
    BY <1>4, <1>6, <2>2
  <2>4. k \in Nat /\ ~(k > 3) /\ i <= 3
    BY <1>1, <2>1, <2>2, <2>3
  <2>5. QED
    BY <1>3, <2>3, <2>4
<1>10. Registering(t, k)'
  <2>1. /\ path'[t] \in Under /\ RowAt(r, k) /\ r[1].op # "header"
        /\ header' = Len(list') /\ r[k].n <= header'
        /\ ~Describes(r, k) => described' = SubSeq(list', 1, r[k].n)
        /\ Describes(r, k) => r[k].n > 0 /\ described' = SubSeq(list', 1, r[k].n - 1)
        /\ Describes(r, k) /\ k > 3 => r[k - 3].op = "find" /\ r[k - 3].n = r[k].n - 1
        /\ Describes(r, k) /\ k <= 3 => found'[t] = list'[r[k].n]
    BY <1>1, <1>3, <1>6, <1>7, <1>8, <1>9
  <2>2. QED
    BY <2>1 DEF Registering, r
<1>11. QED
  BY <1>1, <1>10

-----------------------------------------------------------------------------
(* Steps that take and give back locks under the device's.                 *)
Brace == {s \in Seq(Steps) : \A j \in 1 .. Len(s) : s[j].path \in Under /\ s[j].op = "to"}

LEMMA BraceJoined ==
  ASSUME NEW a \in Brace, NEW b \in Brace
  PROVE  a \o b \in Brace
<1>1. a \in Seq(Steps) /\ b \in Seq(Steps)
  BY DEF Brace
<1>2. /\ a \o b \in Seq(Steps)
      /\ \A i \in 1 .. Len(a) : (a \o b)[i] = a[i]
      /\ \A i \in 1 .. Len(a \o b) :
           \/ i \in 1 .. Len(a)
           \/ i - Len(a) \in 1 .. Len(b) /\ (a \o b)[i] = b[i - Len(a)]
  BY <1>1, Concatenation
<1>3. QED
  BY <1>2 DEF Brace

LEMMA BraceStep ==
  ASSUME NEW p \in Under
  PROVE  To(p) \in Steps /\ To(p).path \in Under /\ To(p).op = "to"
<1>1. p \in Nests
  BY UnderIsRoot, TakeOne, "srpc" \in Locks DEF Locks
<1>2. QED
  BY <1>1, SingleSteps, Fields

LEMMA BraceOne ==
  ASSUME NEW p \in Under
  PROVE  <<To(p)>> \in Brace
<1> DEFINE a == To(p)
<1>1. a \in Steps /\ a.path \in Under /\ a.op = "to"
  BY BraceStep
<1> HIDE DEF a
<1>2. <<a>> \in Brace
  BY <1>1 DEF Brace
<1>3. QED
  BY <1>2 DEF a

LEMMA BraceTwo ==
  ASSUME NEW p \in Under, NEW q \in Under
  PROVE  <<To(p), To(q)>> \in Brace
<1> DEFINE a == To(p)
           b == To(q)
<1>1. /\ a \in Steps /\ a.path \in Under /\ a.op = "to"
      /\ b \in Steps /\ b.path \in Under /\ b.op = "to"
  BY BraceStep
<1> HIDE DEF a, b
<1>2. <<a, b>> \in Brace
  BY <1>1 DEF Brace
<1>3. QED
  BY <1>2 DEF a, b

LEMMA CallBrace ==
  ASSUME NEW p \in Under, NEW c \in Channels
  PROVE  supla_channel_call(p, c) \in Brace /\ Append(p, c) \in Under
<1>1. Append(p, c) \in Under
  BY UnderIsRoot, TakeOne DEF Locks
<1>2. QED
  BY <1>1, BraceTwo DEF supla_channel_call

LEMMA StructBrace ==
  ASSUME NEW p \in Under, NEW c \in Channels
  PROVE  supla_channel_to_register_struct(p, c) \in Brace
<1> DEFINE q == Append(p, c)
           a == <<To(q)>>
           b == IF Related[c] = NoChannel THEN <<>> ELSE supla_channel_call(q, Related[c])
           d == <<To(p)>>
<1>1. q \in Under
  BY CallBrace
<1>2. a \in Brace /\ d \in Brace
  BY <1>1, BraceOne
<1>3. b \in Brace
  <2>1. Related[c] # NoChannel => Related[c] \in Channels
    BY LocksAssumption
  <2>2. <<>> \in Brace
    BY DEF Brace
  <2>3. QED
    BY <1>1, <2>1, <2>2, CallBrace
<1> HIDE DEF a, b, d
<1>4. a \o b \o d \in Brace
  BY <1>2, <1>3, BraceJoined
<1>5. QED
  BY <1>4 DEF supla_channel_to_register_struct, a, b, d, q

(* The first of the steps is made, and nothing comes in its place.         *)
LEMMA RegDropped ==
  ASSUME TypeOK, NEW t \in Threads, NEW i \in Nat, Registering(t, i), i > 1,
         Goes(t, <<>>)
  PROVE  LET s == todo[t]
             r == todo'[t]
             k == i - 1
         IN  /\ k \in Nat /\ RowAt(r, k) /\ r[k] = s[i] /\ r[1].op # "header"
             /\ Describes(r, k) <=> i > 2 /\ Describes(s, i)
             /\ i > 4 => k > 3 /\ r[k - 3] = s[i - 3]
<1> DEFINE s == todo[t]
           r == todo'[t]
           Moved(k, none) ==
             /\ k \in Nat /\ RowAt(r, k) /\ r[k] = s[i] /\ r[1].op # "header"
             /\ Describes(r, k) <=> i > 2 /\ Describes(s, i)
             /\ (none /\ i > 4) \/ i = 5 => k > 3 /\ r[k - 3] = s[i - 3]
<1>1. ASSUME NEW a \in Seq(Steps), Goes(t, a), Bracing(a, i)
      PROVE  Moved(Len(a) + i - 1, Len(a) = 0)
  BY <1>1, RegShape
<1> HIDE DEF Moved
<1>2. ASSUME NEW a \in Seq(Steps), Len(a) = 0, Goes(t, a)
      PROVE  Moved(i - 1, TRUE)
  <2>1. Bracing(a, i)
    BY <1>2 DEF Bracing
  <2>2. Moved(Len(a) + i - 1, Len(a) = 0)
    BY <1>1, <1>2, <2>1
  <2>3. Len(a) + i - 1 = i - 1 /\ (Len(a) = 0) = TRUE
    BY <1>2
  <2>4. QED
    BY <2>2, <2>3
<1>3. <<>> \in Seq(Steps) /\ Len(<<>>) = 0
  OBVIOUS
<1>4. Moved(i - 1, TRUE)
  BY <1>2, <1>3
<1>5. QED
  BY <1>4 DEF Moved

(* The header counts the channels, and none has been told of.              *)
LEMMA HeaderRegisters ==
  ASSUME TypeOK, NEW t \in Threads, NEW i \in Nat, Registering(t, i), i > 1, Header(t)
  PROVE  \E k \in Nat : Registering(t, k)'
<1> DEFINE s == todo[t]
           r == todo'[t]
           k == i - 1
<1>1. /\ s[1].op = "header" /\ Goes(t, <<>>) /\ path' = path /\ list' = list
      /\ header' = Len(list) /\ described' = <<>>
  BY RegNow DEF Header, Reaches, lists
<1>2. /\ s[i].n = 0 /\ ~Describes(s, i) /\ path[t] \in Under
  BY <1>1 DEF Registering
<1>5. /\ k \in Nat /\ RowAt(r, k) /\ r[k] = s[i] /\ r[1].op # "header"
      /\ Describes(r, k) <=> i > 2 /\ Describes(s, i)
  BY <1>1, RegDropped
<1>6. SubSeq(list, 1, 0) = <<>> /\ 0 <= Len(list)
  BY DEF TypeOK
<1> HIDE DEF s, r, k
<1>7. Registering(t, k)'
  <2>1. /\ path'[t] \in Under /\ RowAt(r, k) /\ r[1].op # "header" /\ ~Describes(r, k)
        /\ header' = Len(list') /\ r[k].n <= header'
        /\ described' = SubSeq(list', 1, r[k].n)
    BY <1>1, <1>2, <1>5, <1>6
  <2>2. QED
    BY <2>1 DEF Registering, r
<1>8. QED
  BY <1>5, <1>7

(* The channel of a number that has been counted is found.                 *)
LEMMA FindListed ==
  ASSUME TypeOK, Numbered, NEW t \in Threads, Find(t),
         NEW n \in 1 .. Len(list), Now(t).n = n - 1
  PROVE  found'[t] = list[n]
<1> DEFINE has(m) == number[list[m]] = Now(t).n
           last(m) == has(m) /\ \A j \in DOMAIN list : has(j) => j <= m
<1>1. found' = [found EXCEPT ![t] =
                  IF \E m \in DOMAIN list : last(m)
                    THEN list[CHOOSE m \in DOMAIN list : last(m)]
                    ELSE NoChannel]
  BY DEF Find
<1>2. DOMAIN list = 1 .. Len(list) /\ Len(list) \in Nat
  BY DEF TypeOK
<1>3. \A m \in DOMAIN list : has(m) <=> m = n
  BY <1>2 DEF Numbered
<1> HIDE DEF has
<1>4. n \in DOMAIN list /\ last(n)
  BY <1>2, <1>3
<1>5. \A m \in DOMAIN list : last(m) => m = n
  BY <1>3
<1> HIDE DEF last
<1>6. (CHOOSE m \in DOMAIN list : last(m)) = n
  BY <1>4, <1>5
<1>7. found' = [found EXCEPT ![t] = list[n]]
  BY <1>1, <1>4, <1>6
<1>8. QED
  BY <1>7 DEF TypeOK

LEMMA FindRegisters ==
  ASSUME TypeOK, Numbered, NEW t \in Threads, NEW i \in Nat, Registering(t, i), i > 1,
         Find(t)
  PROVE  \E k \in Nat : Registering(t, k)'
<1> DEFINE s == todo[t]
           r == todo'[t]
           k == i - 1
           n == s[i].n
<1>1. /\ Now(t) = s[1] /\ s[1].op = "find" /\ Goes(t, <<>>)
      /\ path' = path /\ list' = list /\ header' = header /\ described' = described
  BY RegNow DEF Find, Reaches, lists
<1>2. /\ k \in Nat /\ RowAt(r, k) /\ r[k] = s[i] /\ r[1].op # "header"
      /\ Describes(r, k) <=> i > 2 /\ Describes(s, i)
  BY <1>1, RegDropped
<1>3. i = 4
  BY <1>1, RegNow, LooksOnly
<1>4. /\ path[t] \in Under /\ header = Len(list) /\ n <= header
      /\ ~Describes(s, i) => described = SubSeq(list, 1, n)
      /\ Describes(s, i) => n > 0 /\ described = SubSeq(list, 1, n - 1)
      /\ Describes(s, i) /\ i > 3 => s[i - 3].n = n - 1
  BY <1>1 DEF Registering
<1>5. n \in Nat /\ Len(list) \in Nat
  <2>1. s \in Seq(Steps) /\ i \in 1 .. Len(s)
    BY RegNow DEF Registering, RowAt
  <2>2. s[i] \in Steps
    BY <2>1
  <2>3. QED
    BY <2>2, Kinds DEF TypeOK
<1> HIDE DEF s, r, n
<1>6. Describes(s, i) => s[1].n = n - 1
  <2>1. i > 3 /\ i - 3 = 1
    BY <1>3
  <2>2. QED
    BY <1>4, <2>1
<1>7. Describes(s, i) => found'[t] = list[n]
  <2>1. SUFFICES ASSUME Describes(s, i) PROVE found'[t] = list[n]
    OBVIOUS
  <2>2. n \in 1 .. Len(list)
    BY <1>4, <1>5, <2>1
  <2>3. Now(t).n = n - 1
    BY <1>1, <1>6, <2>1
  <2>4. QED
    BY <2>2, <2>3, FindListed
<1>8. Describes(r, k) <=> Describes(s, i)
  BY <1>2, <1>3
<1>9. r[k].n = n
  BY <1>2 DEF n
<1>10. ~(k > 3)
  BY <1>3
<1> HIDE DEF k
<1>11. Registering(t, k)'
  <2>1. /\ path'[t] \in Under /\ RowAt(r, k) /\ r[1].op # "header"
        /\ header' = Len(list') /\ r[k].n <= header'
        /\ ~Describes(r, k) => described' = SubSeq(list', 1, r[k].n)
        /\ Describes(r, k) => r[k].n > 0 /\ described' = SubSeq(list', 1, r[k].n - 1)
        /\ Describes(r, k) => found'[t] = list'[r[k].n]
    BY <1>1, <1>2, <1>4, <1>7, <1>8, <1>9
  <2>2. QED
    BY <1>10, <2>1 DEF Registering, r
<1>12. QED
  BY <1>2, <1>11

(* It is the next that has not been told of.                               *)
LEMMA DescribeRegisters ==
  ASSUME TypeOK, NEW t \in Threads, NEW i \in Nat, Registering(t, i), i > 1,
         Describe(t)
  PROVE  \E k \in Nat : Registering(t, k)'
<1> DEFINE s == todo[t]
           r == todo'[t]
           n == s[i].n
           a == supla_channel_to_register_struct(Now(t).path, found[t])
           k == Len(a) + i - 1
<1>1. /\ Now(t) = s[1] /\ s[1].op = "describe" /\ Goes(t, a) /\ found[t] \in Channels
      /\ path' = path /\ list' = list /\ header' = header
      /\ described' = Append(described, found[t])
  BY RegNow DEF Describe, Reaches, lists
<1>2. i = 2 /\ Now(t).path \in Under
  BY <1>1, RegNow, LooksOnly
<1>3. a \in Brace
  BY <1>1, <1>2, StructBrace
<1>4. /\ path[t] \in Under /\ header = Len(list) /\ n <= header
      /\ Describes(s, i) => n > 0 /\ described = SubSeq(list, 1, n - 1)
      /\ Describes(s, i) /\ i <= 3 => found[t] = list[n]
  BY <1>1 DEF Registering
<1>5. n \in Nat /\ Len(list) \in Nat
  <2>1. s \in Seq(Steps) /\ i \in 1 .. Len(s)
    BY RegNow DEF Registering, RowAt
  <2>2. s[i] \in Steps
    BY <2>1
  <2>3. QED
    BY <2>2, Kinds DEF TypeOK
<1> HIDE DEF a
<1>6. a \in Seq(Steps) /\ Bracing(a, i)
  BY <1>3 DEF Brace, Bracing
<1>7. /\ k \in Nat /\ RowAt(r, k) /\ r[k] = s[i] /\ r[1].op # "header"
      /\ Describes(r, k) <=> i > 2 /\ Describes(s, i)
  BY <1>1, <1>6, RegShape
<1> HIDE DEF s, r, n, k
<1>8. Describes(s, i) /\ ~Describes(r, k)
  BY <1>1, <1>2, <1>7 DEF Describes
<1>9. n \in 1 .. Len(list) /\ described = SubSeq(list, 1, n - 1) /\ found[t] = list[n]
  BY <1>2, <1>4, <1>5, <1>8
<1>10. described' = SubSeq(list, 1, n)
  <2>1. \A m \in 1 .. Len(list) :
          Append(SubSeq(list, 1, m - 1), list[m]) = SubSeq(list, 1, m)
    BY DEF TypeOK
  <2>2. QED
    BY <1>1, <1>9, <2>1
<1>11. r[k].n = n
  BY <1>7 DEF n
<1>12. ASSUME NEW m \in Nat, m = k PROVE Registering(t, m)'
  <2>1. /\ path'[t] \in Under /\ RowAt(r, m) /\ r[1].op # "header" /\ ~Describes(r, m)
        /\ header' = Len(list') /\ r[m].n <= header'
        /\ described' = SubSeq(list', 1, r[m].n)
    BY <1>1, <1>4, <1>7, <1>8, <1>10, <1>11, <1>12
  <2>2. QED
    BY <2>1 DEF Registering, r
<1>13. QED
  BY <1>7, <1>12

(* The search of a channel goes on, or has been through the list.          *)
LEMMA LoopRegisters ==
  ASSUME TypeOK, NEW t \in Threads, NEW i \in Nat, Registering(t, i), i > 1, Loop(t)
  PROVE  \E k \in Nat : Registering(t, k)'
<1>1. PICK op \in LoopOps :
        /\ Reaches(t, op)
        /\ IF Now(t).n > Len(list) THEN Goes(t, <<>>)
           ELSE \E body \in Bodies(op, Now(t).path, list[Now(t).n]) :
                  Goes(t, body \o <<Of(op, Now(t).path, Now(t).n + 1)>>)
  BY DEF Loop
<1>2. Looks(Now(t)) /\ i = 5 /\ Now(t).path \in Under
  <2>1. op \notin {"to", "fill", "header", "find", "describe"}
    BY DEF LoopOps
  <2>2. QED
    BY <1>1, <2>1, RegNow DEF Reaches
<1>3. Now(t).n \in Nat \ {0}
  BY <1>1, NowTyped, Kinds
<1>4. /\ path' = path /\ list' = list /\ header' = header /\ described' = described
      /\ found' = found /\ path[t] \in Under
  BY DEF Loop, lists, locals, Registering
<1>5. CASE Goes(t, <<>>)
  <2>1. \A a : a = <<>> => a \in Seq(Steps) /\ Bracing(a, i)
    BY DEF Bracing
  <2>2. <<>> \in Seq(Steps) /\ Bracing(<<>>, i)
    BY <2>1
  <2>3. QED
    BY <1>2, <1>4, <1>5, <2>2, RegKept
<1>6. CASE ~(Now(t).n > Len(list))
  <2> DEFINE p == Now(t).path
             c == list[Now(t).n]
             b == supla_channel_call(p, c)
             e == Of(op, p, Now(t).n + 1)
             a == b \o <<e>>
  <2>1. c \in Channels
    BY <1>3, <1>6 DEF TypeOK
  <2>2. Goes(t, a)
    <3>1. Bodies(op, p, c) = {b}
      <4>1. op = "each number"
        BY <1>1, <1>2 DEF Reaches, Looks
      <4>2. QED
        BY <4>1, Zenon DEF Bodies
    <3>2. QED
      BY <1>1, <1>6, <3>1
  <2>3. b \in Brace
    BY <1>2, <2>1, CallBrace
  <2>4. e \in Steps /\ Looks(e) /\ e.path \in Under
    <3>1. Now(t).n + 1 \in Nat \ {0}
      BY <1>3
    <3>2. e \in Steps
      BY <1>2, <3>1, SingleSteps
    <3>3. e.op = op /\ e.path = p
      BY Fields
    <3>4. QED
      BY <1>1, <1>2, <3>2, <3>3 DEF Looks, Reaches
  <2> HIDE DEF b, e
  <2>5. /\ b \in Seq(Steps) /\ <<e>> \in Seq(Steps) /\ Len(<<e>>) = 1 /\ <<e>>[1] = e
    BY <2>3, <2>4 DEF Brace
  <2>6. /\ a \in Seq(Steps) /\ Len(a) = Len(b) + 1 /\ Len(b) \in Nat
        /\ \A j \in 1 .. Len(b) : a[j] = b[j]
        /\ a[Len(b) + 1] = e
    BY <2>5, Concatenation
  <2> HIDE DEF a
  <2>7. Bracing(a, i)
    <3>1. \A j \in 1 .. Len(a) : j \in 1 .. Len(b) \/ (j = Len(b) + 1 /\ j = Len(a))
      BY <2>6
    <3>2. \A j \in 1 .. Len(b) : a[j].path \in Under /\ a[j].op = "to"
      BY <2>3, <2>6 DEF Brace
    <3>3. QED
      BY <1>2, <2>4, <2>6, <3>1, <3>2 DEF Bracing
  <2>8. QED
    BY <1>2, <1>4, <2>2, <2>6, <2>7, RegKept
<1>7. QED
  BY <1>1, <1>5, <1>6

LEMMA DescribingSteps ==
  ASSUME NEW p \in Under, NEW n \in Nat
  PROVE  /\ Describing(p, n) \in Seq(Steps) /\ Len(Describing(p, n)) = 6
         /\ Describing(p, n)[1] = To(Append(p, "dev"))
         /\ Looks(Describing(p, n)[2]) /\ Describing(p, n)[2].path = Append(p, "dev")
         /\ Describing(p, n)[3] = Of("find", p, n)
         /\ Describing(p, n)[4] = To(p)
         /\ Describing(p, n)[5] = At("describe", p)
         /\ Describing(p, n)[6] = Of("row", p, n + 1)
<1> DEFINE f == supla_dev_get_channel_by_num(p, n)
           a == To(Append(p, "dev"))
           b == Of("each number", Append(p, "dev"), 1)
           c == Of("find", p, n)
           d == To(p)
           g == At("describe", p)
           h == Of("row", p, n + 1)
           e == <<g, h>>
           z == Describing(p, n)
<1>1. Looks(b) /\ b.path = Append(p, "dev")
  <2>1. \A op, q : Of(op, q, 1).op = op /\ Of(op, q, 1).path = q
    BY Fields
  <2>2. QED
    BY <2>1, Zenon DEF Looks
<1>2. f \in Seq(Steps)
  BY ByNumber, UnderIsRoot, Typed
<1>3. f = <<a, b, c, d>>
  BY Zenon DEF supla_dev_get_channel_by_num
<1>4. g \in Steps /\ h \in Steps
  <2>1. n + 1 \in Nat
    OBVIOUS
  <2>2. QED
    BY <2>1, SingleSteps, FirstOfLoop DEF UnderOps
<1>5. z = f \o e
  BY DEF Describing
<1> HIDE DEF a, b, c, d, g, h, z
<1>6. /\ Len(f) = 4 /\ f[1] = a /\ f[2] = b /\ f[3] = c /\ f[4] = d
  <2> HIDE DEF f
  <2>1. QED
    BY <1>3
<1>7. /\ e \in Seq(Steps) /\ Len(e) = 2 /\ e[1] = g /\ e[2] = h
  BY <1>4
<1> HIDE DEF f, e
<1>8. /\ z \in Seq(Steps) /\ Len(z) = Len(f) + Len(e)
      /\ \A i \in 1 .. Len(f) : z[i] = f[i]
      /\ \A i \in 1 .. Len(e) : z[Len(f) + i] = e[i]
  <2>1. e \in Seq(Steps)
    BY <1>7
  <2>2. QED
    BY <1>2, <1>5, <2>1, Concatenation
<1>9. /\ Len(z) = 6 /\ z[1] = f[1] /\ z[2] = f[2] /\ z[3] = f[3] /\ z[4] = f[4]
      /\ z[4 + 1] = e[1] /\ z[4 + 2] = e[2]
  BY <1>6, <1>7, <1>8
<1>10. /\ Len(z) = 6 /\ z[1] = a /\ z[2] = b /\ z[3] = c /\ z[4] = d
      /\ z[5] = g /\ z[6] = h
  BY <1>6, <1>7, <1>9
<1>11. z \in Seq(Steps)
  BY <1>8
<1>12. Looks(z[2]) /\ z[2].path = Append(p, "dev")
  BY <1>1, <1>10
<1>13. QED
  BY <1>10, <1>11, <1>12 DEF a, c, d, g, h, z

(* Those after a row belong to no registration.                            *)
LEMMA RowEnds ==
  ASSUME TypeOK, NEW t \in Threads, Registering(t, 1)
  PROVE  Tail(todo[t]) \in Without(Registers)
<1>1. /\ todo[t] \in Seq(Steps) /\ Tail(todo[t]) \in Seq(Steps)
      /\ Len(Tail(todo[t])) = Len(todo[t]) - 1 /\ Len(todo[t]) \in Nat
      /\ \A j \in 1 .. Len(Tail(todo[t])) :
           Tail(todo[t])[j] = todo[t][j + 1] /\ j + 1 \in 2 .. Len(todo[t])
  BY RegNow
<1>2. \A j \in 2 .. Len(todo[t]) : todo[t][j].op \notin Registers
  BY DEF Registering, RowAt
<1>3. QED
  BY <1>1, <1>2 DEF Without

(* The next row: its channel is looked for.                                *)
LEMMA RowRegisters ==
  ASSUME TypeOK, NEW t \in Threads, Registering(t, 1), Row(t),
         ~(Now(t).n >= header), Goes(t, Describing(Now(t).path, Now(t).n))
  PROVE  Registering(t, 6)'
<1> DEFINE s == todo[t]
           r == todo'[t]
           p == Now(t).path
           n == Now(t).n
           d == Describing(p, n)
           b == Tail(s)
<1>1. /\ Now(t) = s[1] /\ s[1].op = "row" /\ path' = path /\ list' = list
      /\ header' = header /\ described' = described /\ p \in Under /\ n \in Nat
  <2>1. Now(t) = s[1] /\ Reaches(t, "row") /\ Now(t) \in Steps
    BY RegNow, NowTyped DEF Row
  <2>2. s[1].op = "row" /\ p \in Under /\ n \in Nat
    BY <2>1, Kinds DEF Reaches, UnderOps
  <2>3. QED
    BY <2>1, <2>2 DEF Row, lists
<1>2. /\ path[t] \in Under /\ header = Len(list)
      /\ described = SubSeq(list, 1, n)
  <2>1. ~Describes(s, 1)
    BY DEF Describes
  <2>2. QED
    BY <1>1, <2>1 DEF Registering
<1>3. /\ d \in Seq(Steps) /\ Len(d) = 6
      /\ d[1].op = "to" /\ d[1].path \in Under
      /\ Looks(d[2]) /\ d[2].path \in Under
      /\ d[3].op = "find" /\ d[3].path \in Under /\ d[3].n = n
      /\ d[4].op = "to" /\ d[4].path \in Under
      /\ d[5].op = "describe" /\ d[5].path \in Under
      /\ d[6].op = "row" /\ d[6].n = n + 1
  <2>1. Append(p, "dev") \in Under
    BY <1>1, UnderIsRoot, TakeOne, "dev" \in Locks DEF Locks
  <2>2. Looks(d[2]) /\ d[2].path = Append(p, "dev")
    BY <1>1, DescribingSteps
  <2>3. /\ d[1] = To(Append(p, "dev")) /\ d[3] = Of("find", p, n) /\ d[4] = To(p)
        /\ d[5] = At("describe", p) /\ d[6] = Of("row", p, n + 1)
    BY <1>1, DescribingSteps
  <2>5. d \in Seq(Steps) /\ Len(d) = 6
    BY <1>1, DescribingSteps
  <2> HIDE DEF d
  <2>6. QED
    BY <1>1, <2>1, <2>2, <2>3, <2>5, Fields
<1>4. b \in Seq(Steps) /\ \A j \in 1 .. Len(b) : b[j].op \notin Registers
  BY RowEnds DEF Without
<1>5. r = d \o b
  BY <1>4 DEF Goes, TypeOK
<1> HIDE DEF s, d, b, p, n
<1>6. /\ Len(r) = 6 + Len(b) /\ Len(b) \in Nat
      /\ \A j \in 1 .. 6 : r[j] = d[j]
      /\ \A j \in 1 .. Len(b) : r[6 + j] = b[j]
  <2>1. d \in Seq(Steps) /\ b \in Seq(Steps)
    BY <1>3, <1>4
  <2>2. /\ Len(r) = Len(d) + Len(b) /\ Len(b) \in Nat
        /\ \A j \in 1 .. Len(d) : r[j] = d[j]
        /\ \A j \in 1 .. Len(b) : r[Len(d) + j] = b[j]
    BY <1>5, <2>1, Concatenation
  <2>3. QED
    BY <1>3, <2>2
<1> HIDE DEF r
<1>7. /\ r[1] = d[1] /\ r[2] = d[2] /\ r[3] = d[3] /\ r[4] = d[4] /\ r[5] = d[5]
      /\ r[6] = d[6]
  BY <1>6
<1>8. RowAt(r, 6)
  <2>1. ASSUME NEW j \in 1 .. (6 - 1)
        PROVE  /\ r[j].path \in Under
               /\ \/ r[j].op \in {"to", "fill"}
                  \/ r[j].op = "header" /\ j = 1
                  \/ Looks(r[j]) /\ j = 6 - 4
                  \/ r[j].op = "find" /\ j = 6 - 3
                  \/ r[j].op = "describe" /\ j = 6 - 1
    <3>1. j = 1 \/ j = 2 \/ j = 3 \/ j = 4 \/ j = 5
      OBVIOUS
    <3>2. 6 - 4 = 2 /\ 6 - 3 = 3 /\ 6 - 1 = 5
      OBVIOUS
    <3>3. QED
      BY <1>3, <1>7, <3>1, <3>2
  <2>2. ASSUME NEW j \in (6 + 1) .. Len(r) PROVE r[j].op \notin Registers
    <3>1. j - 6 \in 1 .. Len(b) /\ 6 + (j - 6) = j
      BY <1>6
    <3>2. r[j] = b[j - 6]
      BY <1>6, <3>1
    <3>3. QED
      BY <1>4, <3>1, <3>2
  <2>3. 6 \in 1 .. Len(r) /\ r[6].op = "row"
    BY <1>3, <1>6, <1>7
  <2>4. QED
    BY <2>1, <2>2, <2>3 DEF RowAt
<1>9. Describes(r, 6)
  <2>1. 6 - 1 = 5 /\ 6 > 1
    OBVIOUS
  <2>2. QED
    BY <1>3, <1>7, <2>1 DEF Describes
<1>10. /\ r[6].n = n + 1 /\ n + 1 > 0 /\ (n + 1) - 1 = n /\ n + 1 <= header
       /\ r[1].op # "header"
  <2>1. header \in Nat /\ ~(n >= header)
    BY DEF TypeOK, n
  <2>2. QED
    BY <1>1, <1>3, <1>7, <2>1
<1>11. r[6 - 3].op = "find" /\ r[6 - 3].n = n
  <2>1. 6 - 3 = 3
    OBVIOUS
  <2>2. QED
    BY <1>3, <1>7, <2>1
<1>12. /\ path'[t] \in Under /\ header' = Len(list') /\ r[6].n <= header'
       /\ r[6].n > 0 /\ described' = SubSeq(list', 1, r[6].n - 1)
       /\ r[6 - 3].n = r[6].n - 1 /\ ~(6 <= 3)
  BY <1>1, <1>2, <1>10, <1>11
<1>13. QED
  BY <1>8, <1>9, <1>10, <1>11, <1>12 DEF Registering, r

LEMMA RegisterSteps ==
  ASSUME NEW p \in Under, NEW z, z = supla_dev_register(p)
  PROVE  /\ z \in Seq(Steps) /\ Len(z) = 7
         /\ z[1].op = "header" /\ z[1].path \in Under
         /\ z[2].op = "to" /\ z[2].path \in Under
         /\ z[3].op = "to" /\ z[3].path \in Under
         /\ z[4].op = "to" /\ z[4].path \in Under
         /\ z[5].op = "fill" /\ z[5].path \in Under
         /\ z[6].op = "row" /\ z[6].n = 0
         /\ z[7].op = "to"
<1> DEFINE q == Append(p, "srpc")
           h == At("header", p)
           x == To(q)
           y == To(p)
           b == At("fill", p)
           c == Of("row", q, 0)
           l == <<h>>
           m == <<x, y>>
           e == <<x, b, c, y>>
<1>1. "srpc" \in Locks /\ p \in Roots /\ 0 \in Nat
  BY UnderIsRoot DEF Locks
<1>2. q \in Under
  BY <1>1, TakeOne
<1>3. /\ x \in Steps /\ x.op = "to" /\ x.path \in Under
      /\ y \in Steps /\ y.op = "to" /\ y.path \in Under
  BY <1>2, BraceStep
<1>4. /\ h \in Steps /\ b \in Steps /\ c \in Steps
      /\ h.op = "header" /\ h.path \in Under /\ b.op = "fill" /\ b.path \in Under
      /\ c.op = "row" /\ c.n = 0
  <2>1. "header" \in UnderOps /\ "row" \in UnderOps /\ "fill" \in RootOps
    BY DEF UnderOps, RootOps
  <2>2. QED
    BY <1>1, <1>2, <2>1, SingleSteps, Fields
<1>5. z = l \o m \o e
  BY DEF supla_dev_register, srpc_call_allowed
<1> HIDE DEF h, x, y, b, c
<1>6. /\ l \in Seq(Steps) /\ Len(l) = 1 /\ l[1] = h
      /\ m \in Seq(Steps) /\ Len(m) = 2 /\ m[1] = x /\ m[2] = y
      /\ e \in Seq(Steps) /\ Len(e) = 4
      /\ e[1] = x /\ e[2] = b /\ e[3] = c /\ e[4] = y
  BY <1>3, <1>4
<1> HIDE DEF l, m, e
<1> DEFINE k == l \o m
<1>7. /\ k \in Seq(Steps) /\ Len(k) = 3 /\ k[1] = h /\ k[2] = x /\ k[3] = y
  <2>1. l \in Seq(Steps) /\ m \in Seq(Steps)
    BY <1>6
  <2>2. /\ k \in Seq(Steps) /\ Len(k) = Len(l) + Len(m)
        /\ \A i \in 1 .. Len(l) : k[i] = l[i]
        /\ \A i \in 1 .. Len(m) : k[Len(l) + i] = m[i]
    BY <2>1, Concatenation
  <2> HIDE DEF k
  <2>3. /\ Len(k) = 1 + 2 /\ k[1] = l[1] /\ k[1 + 1] = m[1] /\ k[1 + 2] = m[2]
    BY <1>6, <2>2
  <2>4. QED
    BY <1>6, <2>2, <2>3
<1>8. z = k \o e
  BY <1>5
<1> HIDE DEF k
<1>9. /\ z \in Seq(Steps) /\ Len(z) = Len(k) + Len(e)
      /\ \A i \in 1 .. Len(k) : z[i] = k[i]
      /\ \A i \in 1 .. Len(e) : z[Len(k) + i] = e[i]
  <2>1. k \in Seq(Steps) /\ e \in Seq(Steps)
    BY <1>6, <1>7
  <2>2. QED
    BY <1>8, <2>1, Concatenation
<1>10. /\ Len(z) = 3 + 4 /\ z[1] = k[1] /\ z[2] = k[2] /\ z[3] = k[3]
       /\ z[3 + 1] = e[1] /\ z[3 + 2] = e[2] /\ z[3 + 3] = e[3] /\ z[3 + 4] = e[4]
  BY <1>6, <1>7, <1>9
<1>11. /\ Len(z) = 7 /\ z[1] = h /\ z[2] = x /\ z[3] = y
       /\ z[4] = x /\ z[5] = b /\ z[6] = c /\ z[7] = y
  BY <1>6, <1>7, <1>10
<1>12. QED
  BY <1>3, <1>4, <1>9, <1>11

(* A registration begins: the channels are to be counted.                  *)
LEMMA RegisterBegins ==
  ASSUME TypeOK, NEW t \in Threads, ~Idle(t), todo[t] \in Without(Registers),
         NEW p \in Under, Goes(t, RegisterTick(p)), path'[t] \in Under
  PROVE  Registering(t, 6)'
<1> DEFINE d == supla_dev_register(p)
           f == <<At("callback", p)>>
           g == srpc_iterate(p)
           s == Tail(todo[t])
           b == f \o g \o s
           r == todo'[t]
<1>1. f \in Without(Registers) /\ g \in Without(Registers)
  BY UnderIsRoot, SingleCallback, SrpcIterate, FreeOf
<1>2. s \in Without(Registers)
  BY TailWithout DEF Idle
<1>3. RegisterTick(p) = d \o f \o g
  BY DEF RegisterTick
<1>4. r = d \o f \o g \o s
  BY <1>3 DEF Goes, TypeOK
<1>5. /\ d \in Seq(Steps) /\ Len(d) = 7
      /\ d[1].op = "header" /\ d[1].path \in Under
      /\ d[2].op = "to" /\ d[2].path \in Under
      /\ d[3].op = "to" /\ d[3].path \in Under
      /\ d[4].op = "to" /\ d[4].path \in Under
      /\ d[5].op = "fill" /\ d[5].path \in Under
      /\ d[6].op = "row" /\ d[6].n = 0
      /\ d[7].op = "to"
  BY RegisterSteps
<1> HIDE DEF d, f, g, s, r
<1>6. /\ d \in Seq(Steps) /\ f \in Seq(Steps) /\ g \in Seq(Steps) /\ s \in Seq(Steps)
  BY <1>1, <1>2, <1>5 DEF Without
<1>7. b \in Without(Registers)
  BY <1>1, <1>2, JoinedWithout
<1>8. r = d \o b
  <2>1. d \o f \in Seq(Steps) /\ f \o g \in Seq(Steps)
    BY <1>6, Concatenation
  <2>2. d \o f \o g = d \o (f \o g)
    BY <1>6, Regrouped
  <2>3. (d \o (f \o g)) \o s = d \o ((f \o g) \o s)
    BY <1>6, <2>1, Regrouped
  <2>4. QED
    BY <1>4, <2>2, <2>3
<1> HIDE DEF b
<1>9. b \in Seq(Steps) /\ \A j \in 1 .. Len(b) : b[j].op \notin Registers
  BY <1>7 DEF Without
<1>10. /\ Len(r) = 7 + Len(b) /\ Len(b) \in Nat
       /\ \A j \in 1 .. 7 : r[j] = d[j]
       /\ \A j \in 1 .. Len(b) : r[7 + j] = b[j]
  <2>1. d \in Seq(Steps) /\ b \in Seq(Steps)
    BY <1>6, <1>9
  <2>2. /\ Len(r) = Len(d) + Len(b) /\ Len(b) \in Nat
        /\ \A j \in 1 .. Len(d) : r[j] = d[j]
        /\ \A j \in 1 .. Len(b) : r[Len(d) + j] = b[j]
    BY <1>8, <2>1, Concatenation
  <2>3. QED
    BY <1>5, <2>2
<1>11. /\ r[1] = d[1] /\ r[2] = d[2] /\ r[3] = d[3] /\ r[4] = d[4] /\ r[5] = d[5]
       /\ r[6] = d[6] /\ r[7] = d[7]
  BY <1>10
<1>12. RowAt(r, 6)
  <2>1. ASSUME NEW j \in 1 .. (6 - 1)
        PROVE  /\ r[j].path \in Under
               /\ r[j].op \in {"to", "fill"} \/ (r[j].op = "header" /\ j = 1)
    <3>1. j = 1 \/ j = 2 \/ j = 3 \/ j = 4 \/ j = 5
      OBVIOUS
    <3>2. QED
      BY <1>5, <1>11, <3>1
  <2>2. ASSUME NEW j \in (6 + 1) .. Len(r) PROVE r[j].op \notin Registers
    <3>1. CASE j = 7
      BY <1>5, <1>11, <3>1 DEF Registers
    <3>2. CASE j # 7
      <4>1. j - 7 \in 1 .. Len(b) /\ 7 + (j - 7) = j
        BY <1>10, <3>2
      <4>2. r[j] = b[j - 7]
        BY <1>10, <4>1
      <4>3. QED
        BY <1>9, <4>1, <4>2
    <3>3. QED
      BY <3>1, <3>2
  <2>3. 6 \in 1 .. Len(r) /\ r[6].op = "row"
    BY <1>5, <1>10, <1>11
  <2>4. QED
    BY <2>1, <2>2, <2>3 DEF RowAt
<1>13. ~Describes(r, 6)
  <2>1. 6 - 1 = 5
    OBVIOUS
  <2>2. QED
    BY <1>5, <1>11, <2>1 DEF Describes
<1>14. r[1].op = "header" /\ r[6].n = 0
  BY <1>5, <1>11
<1>15. QED
  BY <1>12, <1>13, <1>14 DEF Registering, r

(* What a registration goes by changes under the device's lock only.       *)
LEMMA ToldKept ==
  ASSUME TypeOK, NEW t \in Threads, OnPath(t), path[t] \notin Under,
         Call(t) \/ Lock(t) \/ Unlock(t) \/ Fill(t) \/ Acts(t)
  PROVE  list' = list /\ header' = header /\ described' = described
<1>1. ~Header(t) /\ ~Row(t) /\ ~Describe(t)
  BY StepsUnder DEF Header, Row, Describe, UnderOps
<1>2. ~Insert(t)
  <2>1. SUFFICES ASSUME Reaches(t, "insert") PROVE path[t] \in Under
    BY DEF Insert
  <2>2. /\ Now(t).op = "insert" /\ Now(t).path \in Roots /\ Now(t).ch \in Locks
    BY <2>1, NowTyped, Kinds DEF Locks
  <2>3. path[t] = Append(Append(Now(t).path, "dev"), Now(t).ch)
    BY <2>1, <2>2, Where DEF Place, SrpcOps
  <2>4. Append(Now(t).path, "dev") \in Under
    BY <2>2, TakeOne
  <2>5. QED
    BY <2>2, <2>3, <2>4, UnderIsRoot, TakeOne
<1>3. QED
  BY <1>1, <1>2 DEF Call, Lock, Unlock, Fill, Acts, Loop, Find, Count, Add, Callback,
    Tick, Handle, Functions, IfFound, Push, Pop, Receive, GetData, lists, locals

LEMMA OthersFound ==
  ASSUME TypeOK, NEW t \in Threads, NEW u \in Threads, t # u,
         Call(t) \/ Lock(t) \/ Unlock(t) \/ Fill(t) \/ Acts(t)
  PROVE  found'[u] = found[u]
  BY DEF TypeOK, Call, Lock, Unlock, Fill, Acts, Loop, Find, Count, Add, Insert, Header,
    Row, Describe, Callback, Tick, Handle, Functions, IfFound, Push, Pop, Receive,
    GetData, locals

LEMMA OthersPath ==
  ASSUME TypeOK, NEW t \in Threads, OnPath(t), NEW u \in Threads, t # u,
         Call(t) \/ Lock(t) \/ Unlock(t) \/ Fill(t) \/ Acts(t)
  PROVE  path'[u] = path[u]
  BY LockOnPath, ActsGo DEF Call, Fill

(* What a thread that registers can do.                                    *)
LEMMA RegSteps ==
  ASSUME TypeOK, NEW t \in Threads, NEW i \in Nat, Registering(t, i),
         Call(t) \/ Lock(t) \/ Unlock(t) \/ Fill(t) \/ Acts(t)
  PROVE  \/ Lock(t) \/ Unlock(t) \/ Fill(t) \/ Loop(t) \/ Find(t)
         \/ Header(t) \/ Row(t) \/ Describe(t)
<1>1. ~Idle(t)
  BY RegNow
<1>2. Now(t).op \notin {"count", "add", "insert", "callback", "tick", "handle",
                       "functions", "function", "set value", "push", "pop", "receive",
                       "getdata"}
  <2>1. Now(t).op \in {"to", "fill", "header", "find", "describe", "row"} \/ Looks(Now(t))
    <3>1. i = 1 \/ i > 1
      BY RegNow
    <3>2. QED
      BY <3>1, RegNow
  <2>2. \A op \in {"to", "fill", "header", "find", "describe", "row", "each number"} :
          op \notin {"count", "add", "insert", "callback", "tick", "handle",
                     "functions", "function", "set value", "push", "pop", "receive",
                     "getdata"}
    BY Zenon
  <2>3. QED
    BY <2>1, <2>2, Zenon DEF Looks
<1>3. QED
  BY <1>1, <1>2 DEF Call, Acts, Count, Add, Insert, Callback, Tick, Handle,
    Functions, IfFound, Push, Pop, Receive, GetData, Reaches

(* The registering thread makes its step.                                  *)
LEMMA RegGoesOn ==
  ASSUME TypeOK, Numbered, NEW t \in Threads, OnPath(t), NEW i \in Nat, Registering(t, i),
         Call(t) \/ Lock(t) \/ Unlock(t) \/ Fill(t) \/ Acts(t)
  PROVE  todo'[t] \in Without(Registers) \/ \E k \in Nat : Registering(t, k)'
<1>1. /\ ~Idle(t) /\ i > 0
      /\ i = 1 => Now(t).op = "row"
      /\ i > 1 => Now(t).op # "row" /\ Now(t).path \in Under
  BY RegNow, LooksOnly
<1>2. \A a : a = <<>> => a \in Seq(Steps) /\ Len(a) = 0 /\ Bracing(a, i)
  BY DEF Bracing
<1>3. <<>> \in Seq(Steps) /\ Len(<<>>) = 0 /\ Bracing(<<>>, i)
  BY <1>2
<1>4. CASE i = 1
  <2>1. Row(t)
    <3>1. "row" \notin LoopOps
      BY Zenon DEF LoopOps
    <3>2. QED
      BY <1>1, <1>4, <3>1, RegSteps DEF Lock, Unlock, Wants, Fill, Loop, Find, Header,
                                        Describe, Reaches
  <2>2. CASE Goes(t, <<>>)
    <3>1. Tail(todo[t]) \in Without(Registers)
      BY <1>4, RowEnds
    <3>2. Tail(todo[t]) \in Seq(Steps)
      BY <3>1 DEF Without
    <3>3. todo'[t] = Tail(todo[t])
      BY <2>2, <3>2 DEF Goes, TypeOK
    <3>4. QED
      BY <3>1, <3>3
  <2>3. CASE /\ ~(Now(t).n >= header)
             /\ Goes(t, Describing(Now(t).path, Now(t).n))
    BY <1>4, <2>1, <2>3, RowRegisters
  <2>4. QED
    BY <2>1, <2>2, <2>3, RowGoes
<1>5. CASE i > 1
  <2>1. ~Row(t)
    BY <1>1, <1>5 DEF Row, Reaches
  <2>2. CASE Lock(t) \/ Unlock(t) \/ Fill(t)
    <3>1. /\ Goes(t, <<>>) /\ Now(t).op \in {"to", "fill"}
          /\ list' = list /\ header' = header /\ described' = described /\ found' = found
      BY <2>2 DEF Lock, Unlock, Fill, Wants, Reaches, lists, locals
    <3>2. path'[t] \in Under
      <4>1. CASE Lock(t) \/ Unlock(t)
        <5>1. path' = [path EXCEPT ![t] = Now(t).path]
          BY <4>1 DEF Lock, Unlock, Wants
        <5>2. QED
          BY <1>1, <1>5, <5>1 DEF TypeOK
      <4>2. CASE Fill(t)
        BY <4>2 DEF Fill, Registering
      <4>3. QED
        BY <2>2, <4>1, <4>2
    <3>3. QED
      BY <1>3, <1>5, <3>1, <3>2, RegKept
  <2>3. QED
    BY <1>5, <2>1, <2>2, RegSteps, LoopRegisters, FindRegisters, HeaderRegisters,
       DescribeRegisters
<1>6. QED
  BY <1>1, <1>4, <1>5

(* A thread that registers nothing makes its step.                         *)
LEMMA NoneRegisters ==
  ASSUME TypeOK, NEW t \in Threads, OnPath(t), todo[t] \in Without(Registers),
         Call(t) \/ Lock(t) \/ Unlock(t) \/ Fill(t) \/ Acts(t)
  PROVE  todo'[t] \in Without(Registers) \/ Registering(t, 6)'
<1>1. CASE Call(t)
  <2>1. PICK steps \in Leg(<<>>, <<>>) :
          /\ todo' = [todo EXCEPT ![t] = steps]
          /\ \/ steps \in Plain
             \/ \E c \in Channels : /\ MayAdd(c)
                                   /\ steps = supla_dev_add_channel(<<>>, c)
    BY <1>1, CallGoes
  <2>2. steps \in Without(Registers)
    <3>1. Plain \subseteq Without(Registers)
      BY WithoutMore DEF Plain, Special, Registers
    <3>2. <<>> \in Roots
      BY DEF Roots
    <3>3. QED
      BY <2>1, <3>1, <3>2, AddingWithout
  <2>3. QED
    BY <2>1, <2>2 DEF TypeOK
<1>2. CASE Lock(t) \/ Unlock(t) \/ Fill(t)
  <2>1. Goes(t, <<>>) /\ ~Idle(t)
    BY <1>2 DEF Lock, Unlock, Fill, Wants, Reaches
  <2>2. <<>> \in Without(Registers)
    BY Nothing, FreeOf
  <2>3. QED
    BY <2>1, <2>2, StaysWithout
<1>3. CASE Acts(t)
  <2>1. ~Idle(t)
    BY <1>3, ActsGo DEF Reaches
  <2>2. CASE \E steps \in Without(Registers) : Goes(t, steps)
    BY <2>1, <2>2, StaysWithout
  <2>3. CASE Tick(t) /\ Goes(t, RegisterTick(Now(t).path))
    <3>1. Now(t).path \in Under
      BY <2>3, TickGoes
    <3>2. path'[t] \in Under
      BY <2>3, StepsUnder DEF Tick, UnderOps
    <3>3. QED
      BY <2>1, <2>3, <3>1, <3>2, RegisterBegins
  <2>4. ~Row(t)
    <3>1. SUFFICES ASSUME Now(t).op = "row" PROVE FALSE
      BY DEF Row, Reaches
    <3>2. todo[t] \in Seq(Steps) /\ todo[t] # <<>> /\ todo[t][1].op = "row"
      BY <2>1, <3>1 DEF TypeOK, Idle, Now
    <3>3. 1 \in 1 .. Len(todo[t])
      BY <3>2
    <3>4. QED
      BY <3>2, <3>3 DEF Without, Registers
  <2>5. QED
    BY <1>3, <2>2, <2>3, <2>4, ActsWithout
<1>4. QED
  BY <1>1, <1>2, <1>3

LEMMA RegHolds ==
  ASSUME IInv, AddInv, RegInv, NEW t \in Threads,
         Call(t) \/ Lock(t) \/ Unlock(t) \/ Fill(t) \/ Acts(t)
  PROVE  RegInv'
<1>1. TypeOK /\ Exclusive /\ OnPath(t) /\ Numbered
  BY DEF IInv, AddInv
<1>2. todo'[t] \in Without(Registers) \/ \E k \in Nat : Registering(t, k)'
  BY <1>1, RegGoesOn, NoneRegisters, 6 \in Nat DEF RegInv
<1>3. ASSUME NEW u \in Threads, t # u
      PROVE  todo'[u] \in Without(Registers) \/ \E k \in Nat : Registering(u, k)'
  <2>1. /\ todo'[u] = todo[u] /\ path'[u] = path[u] /\ found'[u] = found[u]
    BY <1>1, <1>3, OthersSteps, OthersPath, OthersFound
  <2>2. CASE todo[u] \in Without(Registers)
    BY <2>1, <2>2
  <2>3. ASSUME NEW i \in Nat, Registering(u, i) PROVE Registering(u, i)'
    <3>1. path[t] \notin Under
      BY <1>1, <1>3, <2>3, OneUnder DEF Registering
    <3>2. list' = list /\ header' = header /\ described' = described
      BY <1>1, <3>1, ToldKept
    <3>3. QED
      BY <2>1, <2>3, <3>2 DEF Registering
  <2>4. QED
    BY <2>2, <2>3 DEF RegInv
<1>4. QED
  BY <1>2, <1>3 DEF RegInv

LEMMA RegInit == Init => RegInv
<1>1. <<>> \in Without(Registers)
  BY Nothing, FreeOf
<1>2. QED
  BY <1>1 DEF Init, RegInv

LEMMA RegStutter == RegInv /\ UNCHANGED vars => RegInv'
  BY DEF RegInv, Registering, vars, lists, locals

LEMMA ToldAsListed == IInv /\ RegInv => RegisteredAsListed
<1> SUFFICES ASSUME IInv, RegInv PROVE RegisteredAsListed
  OBVIOUS
<1>1. TypeOK
  BY DEF IInv
<1>2. ASSUME NEW t \in Threads, NEW op \in Registers, Reaches(t, op)
      PROVE  \E i \in Nat : Registering(t, i)
  <2>1. todo[t] \in Seq(Steps) /\ todo[t] # <<>> /\ todo[t][1].op = op
    BY <1>1, <1>2 DEF TypeOK, Reaches, Idle, Now
  <2>2. 1 \in 1 .. Len(todo[t])
    BY <2>1
  <2>3. QED
    BY <2>1, <2>2 DEF RegInv, Without
<1>3. ASSUME NEW t \in Threads, Reaches(t, "describe") PROVE found[t] \in Channels
  <2>1. PICK i \in Nat : Registering(t, i)
    BY <1>2, <1>3 DEF Registers
  <2>2. /\ todo[t][1].op = "describe" /\ i = 2
    <3>1. Now(t).op = "describe" /\ Now(t) = todo[t][1] /\ i > 0
      BY <1>1, <1>3, <2>1, RegNow DEF Reaches
    <3>2. i # 1
      BY <1>1, <2>1, <3>1, RegNow
    <3>3. QED
      BY <1>1, <2>1, <3>1, <3>2, RegNow, LooksOnly
  <2>3. Describes(todo[t], i)
    BY <2>2 DEF Describes
  <2>4. /\ found[t] = list[todo[t][i].n] /\ todo[t][i].n > 0
        /\ todo[t][i].n <= header /\ header = Len(list)
    BY <2>1, <2>2, <2>3 DEF Registering
  <2>5. todo[t][i].n \in Nat
    <3>1. todo[t] \in Seq(Steps) /\ i \in 1 .. Len(todo[t])
      BY <1>1, <2>1 DEF Registering, RowAt, TypeOK
    <3>2. todo[t][i] \in Steps
      BY <3>1
    <3>3. QED
      BY <3>2, Kinds
  <2>6. QED
    BY <1>1, <2>4, <2>5 DEF TypeOK
<1>4. ASSUME NEW t \in Threads, Reaches(t, "row")
      PROVE  /\ described = SubSeq(list, 1, Now(t).n)
             /\ Now(t).n >= header => described = list
  <2>1. PICK i \in Nat : Registering(t, i)
    BY <1>2, <1>4 DEF Registers
  <2>2. Now(t).op = "row" /\ Now(t) = todo[t][1] /\ i = 1
    <3>1. Now(t).op = "row" /\ Now(t) = todo[t][1] /\ i > 0
      BY <1>1, <1>4, <2>1, RegNow DEF Reaches
    <3>2. ~(i > 1)
      BY <1>1, <2>1, <3>1, RegNow, LooksOnly
    <3>3. QED
      BY <3>1, <3>2
  <2>3. ~Describes(todo[t], i)
    BY <2>2 DEF Describes
  <2>4. /\ described = SubSeq(list, 1, Now(t).n) /\ Now(t).n <= header
        /\ header = Len(list)
    BY <2>1, <2>2, <2>3 DEF Registering
  <2>5. Now(t).n \in Nat
    BY <1>1, <1>4, NowTyped, Kinds
  <2>6. Now(t).n >= header => Now(t).n = Len(list)
    BY <1>1, <2>4, <2>5 DEF TypeOK
  <2>7. SubSeq(list, 1, Len(list)) = list
    BY <1>1 DEF TypeOK
  <2>8. QED
    BY <2>4, <2>6, <2>7
<1>5. QED
  BY <1>3, <1>4 DEF RegisteredAsListed

(* ChannelsRegisteredAsListed: whatever other threads do meanwhile, a      *)
(* registration tells the server of the channels that are in the list,     *)
(* each once and in the order of its number, and the assertion of          *)
(* supla_channel_to_register_struct holds; of two additions at once it is  *)
(* not true, as both may take the number of one place.                     *)
THEOREM ChannelsRegisteredAsListed ==
  ASSUME ~AddsOverlap
  PROVE  Spec => []RegisteredAsListed
<1> DEFINE All == IInv /\ AddInv /\ RegInv
<1>1. Init => All
  BY InitHolds, AddInit, RegInit
<1>2. All /\ [Next]_vars => All'
  <2> SUFFICES ASSUME All, [Next]_vars PROVE All'
    OBVIOUS
  <2>1. IInv'
    BY StepHolds
  <2>2. CASE UNCHANGED vars
    BY <2>1, <2>2, AddStutter, RegStutter
  <2>3. ASSUME NEW t \in Threads,
               Call(t) \/ Lock(t) \/ Unlock(t) \/ Fill(t) \/ Acts(t)
        PROVE  All'
    BY <2>1, <2>3, AddHolds, RegHolds
  <2>4. QED
    BY <2>2, <2>3 DEF Next, Acts
<1>3. All => RegisteredAsListed
  BY ToldAsListed
<1> HIDE DEF All
<1>4. QED
  BY <1>1, <1>2, <1>3, PTL DEF Spec

=============================================================================
