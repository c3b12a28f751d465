-------------------------- MODULE DeviceLocks_proofs --------------------------
(***************************************************************************)
(* Theorems about DeviceLocks, for every number of threads and channels,   *)
(* and whether or not channels are added at the same time.                 *)
(*                                                                         *)
(* What a function does with the locks is said by a leg: the steps lead    *)
(* from the locks held where it is called to those held where it returns,  *)
(* each made with the locks that the one before it leaves. Every function  *)
(* is a leg from p to p, so that a step that is replaced by a function     *)
(* leaves its thread on a leg to where it holds nothing.                   *)
(***************************************************************************)
EXTENDS DeviceLocks, SequenceTheorems, TLAPS

(* The locks that a step is made with, and those it leaves.                *)
SrpcOps == {"fill", "push", "pop", "receive", "getdata"}
Place(s) ==
  IF s.op \in SrpcOps THEN Append(s.path, "srpc")
  ELSE IF s.op \in {"find", "count"} THEN Append(s.path, "dev")
  ELSE IF s.op = "insert" THEN Append(Append(s.path, "dev"), s.ch)
  ELSE s.path
Ends(s) == IF s.op \in {"to", "receive"} THEN s.path ELSE Place(s)

Fits(p, s) ==
  IF s.op = "to"
    THEN \E l \in Locks : s.path = Append(p, l) \/ p = Append(s.path, l)
    ELSE Place(s) = p

Follows(a, b) == Fits(Ends(a), b) /\ (b.op = "push" => a.op = "fill")
Chained(s) == \A i \in 2 .. Len(s) : Follows(s[i - 1], s[i])

(* The steps lead from the locks p to the locks q.                         *)
Leg(p, q) ==
  {s \in Seq(Steps) :
     IF s = <<>> THEN p = q
     ELSE /\ Fits(p, s[1]) /\ s[1].op # "push"
          /\ Chained(s)
          /\ Ends(s[Len(s)]) = q}

(* Legs without the steps that change what the data proofs follow.         *)
Without(ops) == {s \in Seq(Steps) : \A i \in 1 .. Len(s) : s[i].op \notin ops}
Special == {"getdata", "handle", "header", "row", "describe", "count", "add",
            "insert"}
Plain == Without(Special)
Free(p, q) == Leg(p, q) \cap Plain

(* Where a lock may be taken on top of others.                             *)
LEMMA TakeOne ==
  ASSUME NEW p \in Roots, NEW l \in Locks
  PROVE  /\ Append(p, l) \in Nests
         /\ p \in Under => Append(p, l) \in Under
         /\ Append(p, "dev") \in Under
         /\ p \in Nests
<1>1. "dev" \in Locks
  BY DEF Locks
<1>2. p \in Seq(Locks)
  BY DEF Roots
<1>3. CASE p = <<>>
  BY <1>1, <1>2, <1>3 DEF Roots, Nests, Under
<1>4. CASE p # <<>>
  <2>1. Append(p, l)[1] = "dev" /\ Append(p, "dev")[1] = "dev"
    BY <1>2, <1>4 DEF Roots
  <2>2. /\ Append(p, l) \in Seq(Locks) /\ Append(p, l) # <<>>
        /\ Append(p, "dev") \in Seq(Locks) /\ Append(p, "dev") # <<>>
    BY <1>1, <1>2
  <2>3. QED
    BY <1>2, <1>4, <2>1, <2>2 DEF Roots, Nests, Under
<1>5. QED
  BY <1>3, <1>4

LEMMA UnderIsRoot == Under \subseteq Roots
  BY DEF Under, Roots

LEMMA Concatenation ==
  ASSUME NEW a \in Seq(Steps), NEW b \in Seq(Steps)
  PROVE  /\ a \o b \in Seq(Steps) /\ Len(a \o b) = Len(a) + Len(b)
         /\ Len(a) \in Nat /\ Len(b) \in Nat
         /\ \A i \in 1 .. Len(a) : (a \o b)[i] = a[i]
         /\ \A i \in 1 .. Len(b) : (a \o b)[Len(a) + i] = b[i]
         /\ a = <<>> => a \o b = b
         /\ b = <<>> => a \o b = a
         /\ \A i \in 1 .. Len(a \o b) :
              \/ i \in 1 .. Len(a)
              \/ i - Len(a) \in 1 .. Len(b) /\ (a \o b)[i] = b[i - Len(a)]
  OBVIOUS

LEMMA JoinedLegs ==
  ASSUME NEW p, NEW q, NEW r, NEW a \in Leg(p, q), NEW b \in Leg(q, r)
  PROVE  a \o b \in Leg(p, r)
<1>1. a \in Seq(Steps) /\ b \in Seq(Steps)
  BY DEF Leg
<1>2. CASE a = <<>>
  BY <1>1, <1>2, Concatenation DEF Leg
<1>3. CASE b = <<>>
  BY <1>1, <1>3, Concatenation DEF Leg
<1>4. CASE a # <<>> /\ b # <<>>
  <2> DEFINE s == a \o b
  <2>1. /\ s \in Seq(Steps) /\ Len(s) = Len(a) + Len(b)
        /\ Len(a) \in Nat \ {0} /\ Len(b) \in Nat \ {0}
        /\ \A i \in 1 .. Len(a) : s[i] = a[i]
        /\ \A i \in 1 .. Len(b) : s[Len(a) + i] = b[i]
        /\ \A i \in 1 .. Len(s) :
             \/ i \in 1 .. Len(a)
             \/ i - Len(a) \in 1 .. Len(b) /\ s[i] = b[i - Len(a)]
    BY <1>1, <1>4, Concatenation
  <2>2. /\ Fits(p, a[1]) /\ a[1].op # "push"
        /\ Chained(a) /\ Ends(a[Len(a)]) = q
        /\ Fits(q, b[1]) /\ b[1].op # "push"
        /\ Chained(b) /\ Ends(b[Len(b)]) = r
    BY <1>4 DEF Leg
  <2> HIDE DEF s
  <2>3. /\ s[1] = a[1] /\ s[Len(a)] = a[Len(a)]
        /\ s[Len(s)] = b[Len(b)] /\ s # <<>>
    BY <2>1
  <2>4. ASSUME NEW i \in 2 .. Len(s) PROVE Follows(s[i - 1], s[i])
    <3>1. CASE i \in 2 .. Len(a)
      <4>1. s[i] = a[i] /\ s[i - 1] = a[i - 1]
        BY <2>1, <3>1
      <4>2. Follows(a[i - 1], a[i])
        BY <2>2, <3>1 DEF Chained
      <4> QED
        BY <4>1, <4>2
    <3>2. CASE i = Len(a) + 1
      <4>1. s[i] = b[1] /\ s[i - 1] = a[Len(a)]
        BY <2>1, <2>3, <3>2
      <4> QED
        BY <2>2, <4>1 DEF Follows
    <3>3. CASE i \in (Len(a) + 2) .. Len(s)
      <4>1. /\ i - Len(a) \in 2 .. Len(b) /\ s[i] = b[i - Len(a)]
            /\ s[i - 1] = b[(i - Len(a)) - 1]
        <5> DEFINE k == i - Len(a)
        <5>1. /\ k \in 2 .. Len(b) /\ k - 1 \in 1 .. Len(b)
              /\ i = Len(a) + k /\ i - 1 = Len(a) + (k - 1)
          BY <2>1, <3>3
        <5>2. \A m \in 1 .. Len(b) : \A x : x = Len(a) + m => s[x] = b[m]
          BY <2>1
        <5> HIDE DEF k
        <5>3. s[i] = b[k] /\ s[i - 1] = b[k - 1]
          BY <5>1, <5>2
        <5> QED
          BY <5>1, <5>3 DEF k
      <4> QED
        BY <2>2, <4>1 DEF Chained
    <3> QED
      BY <2>1, <3>1, <3>2, <3>3
  <2> QED
    BY <2>1, <2>2, <2>3, <2>4 DEF Leg, Chained, s
<1> QED
  BY <1>2, <1>3, <1>4

LEMMA JoinedWithout ==
  ASSUME NEW ops, NEW a \in Without(ops), NEW b \in Without(ops)
  PROVE  a \o b \in Without(ops)
<1>1. a \in Seq(Steps) /\ b \in Seq(Steps)
  BY DEF Without
<1>2. /\ a \o b \in Seq(Steps)
      /\ \A i \in 1 .. Len(a) : (a \o b)[i] = a[i]
      /\ \A i \in 1 .. Len(a \o b) :
           \/ i \in 1 .. Len(a)
           \/ i - Len(a) \in 1 .. Len(b) /\ (a \o b)[i] = b[i - Len(a)]
  BY <1>1, Concatenation
<1> QED
  BY <1>2 DEF Without

LEMMA Joined ==
  ASSUME NEW p, NEW q, NEW r, NEW a \in Free(p, q), NEW b \in Free(q, r)
  PROVE  a \o b \in Free(p, r)
  BY JoinedLegs, JoinedWithout DEF Free, Plain

LEMMA Nothing == \A p : <<>> \in Free(p, p)
  BY DEF Free, Leg, Plain, Without

LEMMA Single ==
  ASSUME NEW p, NEW s \in Steps, Fits(p, s), s.op # "push"
  PROVE  /\ <<s>> \in Leg(p, Ends(s))
         /\ s.op \notin Special => <<s>> \in Free(p, Ends(s))
  BY DEF Leg, Free, Plain, Without, Chained

LEMMA Two ==
  ASSUME NEW p, NEW a \in Steps, NEW b \in Steps,
         Fits(p, a), a.op # "push", Follows(a, b),
         a.op \notin Special, b.op \notin Special
  PROVE  <<a, b>> \in Free(p, Ends(b))
<1>1. /\ <<a, b>> \in Seq(Steps) /\ Len(<<a, b>>) = 2
      /\ <<a, b>>[1] = a /\ <<a, b>>[2] = b /\ <<a, b>> # <<>>
  OBVIOUS
<1> QED
  BY <1>1 DEF Free, Leg, Plain, Without, Chained

LEMMA Three ==
  ASSUME NEW p, NEW a \in Steps, NEW b \in Steps, NEW c \in Steps,
         Fits(p, a), a.op # "push", Follows(a, b), Follows(b, c)
  PROVE  /\ <<a, b, c>> \in Leg(p, Ends(c))
         /\ {a.op, b.op, c.op} \cap Special = {} =>
              <<a, b, c>> \in Free(p, Ends(c))
<1> DEFINE s == <<a, b, c>>
<1>1. /\ s \in Seq(Steps) /\ Len(s) = 3 /\ s # <<>>
      /\ s[1] = a /\ s[2] = b /\ s[3] = c
  OBVIOUS
<1> HIDE DEF s
<1>2. s \in Leg(p, Ends(c))
  <2>1. \A i \in 2 .. Len(s) : i = 2 \/ i = 3
    BY <1>1
  <2>2. Chained(s)
    BY <1>1, <2>1 DEF Chained
  <2> QED
    BY <1>1, <2>2 DEF Leg
<1>3. {a.op, b.op, c.op} \cap Special = {} => s \in Plain
  <2>1. \A i \in 1 .. Len(s) : i = 1 \/ i = 2 \/ i = 3
    BY <1>1
  <2> QED
    BY <1>1, <2>1 DEF Plain, Without
<1> QED
  BY <1>2, <1>3 DEF Free, s

LEMMA Four ==
  ASSUME NEW p, NEW a \in Steps, NEW b \in Steps, NEW c \in Steps,
         NEW d \in Steps,
         Fits(p, a), a.op # "push", Follows(a, b), Follows(b, c), Follows(c, d)
  PROVE  /\ <<a, b, c, d>> \in Leg(p, Ends(d))
         /\ {a.op, b.op, c.op, d.op} \cap Special = {} =>
              <<a, b, c, d>> \in Free(p, Ends(d))
<1> DEFINE s == <<a, b, c, d>>
<1>1. /\ s \in Seq(Steps) /\ Len(s) = 4 /\ s # <<>>
      /\ s[1] = a /\ s[2] = b /\ s[3] = c /\ s[4] = d
  OBVIOUS
<1> HIDE DEF s
<1>2. s \in Leg(p, Ends(d))
  <2>1. \A i \in 2 .. Len(s) : i = 2 \/ i = 3 \/ i = 4
    BY <1>1
  <2>2. Chained(s)
    BY <1>1, <2>1 DEF Chained
  <2> QED
    BY <1>1, <2>2 DEF Leg
<1>3. {a.op, b.op, c.op, d.op} \cap Special = {} => s \in Plain
  <2>1. \A i \in 1 .. Len(s) : i = 1 \/ i = 2 \/ i = 3 \/ i = 4
    BY <1>1
  <2> QED
    BY <1>1, <2>1 DEF Plain, Without
<1> QED
  BY <1>2, <1>3 DEF Free, s

(* How the steps are made, and where.                                      *)
LEMMA Fields ==
  /\ \A p : To(p).op = "to" /\ To(p).path = p
  /\ \A op, p : At(op, p).op = op /\ At(op, p).path = p
  /\ \A op, p, n : /\ Of(op, p, n).op = op
                   /\ Of(op, p, n).path = p /\ Of(op, p, n).n = n
  /\ \A op, p, c, n : /\ Step(op, p, c, n).op = op /\ Step(op, p, c, n).path = p
                      /\ Step(op, p, c, n).ch = c /\ Step(op, p, c, n).n = n
  BY DEF To, At, Of, Step

LEMMA Takes ==
  ASSUME NEW p, NEW l \in Locks
  PROVE  Fits(p, To(Append(p, l))) /\ Ends(To(Append(p, l))) = Append(p, l)
  BY Fields DEF Fits, Ends

LEMMA Gives ==
  ASSUME NEW p, NEW l \in Locks
  PROVE  Fits(Append(p, l), To(p)) /\ Ends(To(p)) = p
  BY Fields DEF Fits, Ends

LEMMA Stays ==
  ASSUME NEW p, NEW n, NEW op,
         op \in LoopOps \cup {"callback", "header", "row", "describe", "handle",
                             "functions", "function", "set value", "tick"}
  PROVE  /\ Fits(p, At(op, p)) /\ Ends(At(op, p)) = p
         /\ Fits(p, Of(op, p, n)) /\ Ends(Of(op, p, n)) = p
<1>1. /\ op # "to" /\ op # "receive" /\ op \notin SrpcOps
      /\ op \notin {"find", "count"} /\ op # "insert"
  BY DEF LoopOps, SrpcOps
<1> QED
  <2>1. /\ At(op, p).op = op /\ At(op, p).path = p
        /\ Of(op, p, n).op = op /\ Of(op, p, n).path = p
    BY DEF At, Of, Step
  <2>2. \A s : s.op = op /\ s.path = p => Fits(p, s) /\ Ends(s) = p
    BY <1>1 DEF Fits, Ends, Place
  <2> QED
    BY <2>1, <2>2

LEMMA StaysSrpc ==
  ASSUME NEW p, NEW op \in {"fill", "push", "pop", "getdata"}
  PROVE  /\ Fits(Append(p, "srpc"), At(op, p))
         /\ Ends(At(op, p)) = Append(p, "srpc")
<1>1. op # "to" /\ op # "receive" /\ op \in SrpcOps
  BY DEF SrpcOps
<1> QED
  BY <1>1, Fields DEF Fits, Ends, Place

LEMMA Typed ==
  \A p, q : Free(p, q) \subseteq Leg(p, q) /\ Leg(p, q) \subseteq Seq(Steps)
  BY DEF Free, Leg

LEMMA SingleSteps ==
  /\ \A p \in Nests : To(p) \in Steps
  /\ \A p \in Roots, op \in RootOps, n \in Nat :
       At(op, p) \in Steps /\ Of(op, p, n) \in Steps
  /\ \A p \in Roots, c \in Channels :
       Step("add", p, c, 0) \in Steps /\ Step("insert", p, c, 0) \in Steps
  /\ \A p \in Under, op \in LoopOps, n \in Nat \ {0} : Of(op, p, n) \in Steps
  /\ \A p \in Under, op \in UnderOps, n \in Nat :
       At(op, p) \in Steps /\ Of(op, p, n) \in Steps
  BY DEF To, At, Of, Step, Steps

LEMMA FirstOfLoop ==
  /\ 1 \in Nat \ {0} /\ 0 \in Nat
  /\ \A op \in {"each number", "each caption", "each config", "each notify",
               "each sync"} : op \in LoopOps
  BY DEF LoopOps

LEMMA ThenFree ==
  ASSUME NEW p, NEW A \in SUBSET Free(p, p), NEW B \in SUBSET Free(p, p)
  PROVE  Then(A, B) \subseteq Free(p, p)
<1>1. ASSUME NEW s \in Then(A, B) PROVE s \in Free(p, p)
  <2>1. \E a \in A, b \in B : s = a \o b
    BY DEF Then
  <2>2. PICK a \in A, b \in B : s = a \o b
    BY <2>1
  <2>3. a \in Free(p, p) /\ b \in Free(p, p)
    OBVIOUS
  <2>4. QED
    BY <2>2, <2>3, Joined
<1>2. QED
  BY <1>1

-----------------------------------------------------------------------------
(* Every function is a leg from the locks it is called with to the same.   *)
LEMMA Brackets ==
  ASSUME NEW p \in Roots, NEW l \in Locks
  PROVE  /\ To(Append(p, l)) \in Steps /\ To(p) \in Steps
         /\ <<To(Append(p, l))>> \in Free(p, Append(p, l))
         /\ <<To(p)>> \in Free(Append(p, l), p)
         /\ <<To(Append(p, l)), To(p)>> \in Free(p, p)
<1> DEFINE a == To(Append(p, l))
           b == To(p)
<1>1. a \in Steps /\ b \in Steps
  BY TakeOne, SingleSteps
<1>2. /\ a.op = "to" /\ b.op = "to" /\ "to" \notin Special
      /\ Fits(p, a) /\ Ends(a) = Append(p, l)
      /\ Fits(Append(p, l), b) /\ Ends(b) = p
  BY Takes, Gives, Fields DEF Special
<1> HIDE DEF a, b
<1>3. Follows(a, b)
  BY <1>2 DEF Follows
<1>4. <<a>> \in Free(p, Append(p, l)) /\ <<b>> \in Free(Append(p, l), p)
  BY <1>1, <1>2, Single
<1>5. <<a, b>> \in Free(p, p)
  BY <1>1, <1>2, <1>3, Two
<1> QED
  BY <1>1, <1>4, <1>5 DEF a, b

LEMMA ChannelCall ==
  ASSUME NEW p \in Roots, NEW c \in Channels
  PROVE  supla_channel_call(p, c) \in Free(p, p)
<1>1. c \in Locks
  BY DEF Locks
<1> QED
  BY <1>1, Brackets DEF supla_channel_call

LEMMA AsyncCall ==
  ASSUME NEW p \in Roots
  PROVE  /\ srpc_call_allowed(p) \in Free(p, p)
         /\ srpc_async__call(p) \in Free(p, p)
<1> DEFINE a == To(Append(p, "srpc"))
           b == At("fill", p)
           c == At("push", p)
           d == To(p)
<1>1. "srpc" \in Locks
  BY DEF Locks
<1>2. a \in Steps /\ d \in Steps /\ <<a, d>> \in Free(p, p)
  BY <1>1, Brackets
<1>3. b \in Steps /\ c \in Steps
  BY SingleSteps, FirstOfLoop DEF RootOps
<1>4. /\ Fits(p, a) /\ Ends(a) = Append(p, "srpc")
      /\ Fits(Append(p, "srpc"), d) /\ Ends(d) = p
  BY <1>1, Takes, Gives
<1>5. /\ Fits(Append(p, "srpc"), b) /\ Ends(b) = Append(p, "srpc")
      /\ Fits(Append(p, "srpc"), c) /\ Ends(c) = Append(p, "srpc")
  BY StaysSrpc
<1>6. a.op = "to" /\ b.op = "fill" /\ c.op = "push" /\ d.op = "to"
  BY Fields
<1> HIDE DEF a, b, c, d
<1>7. Follows(a, b) /\ Follows(b, c) /\ Follows(c, d)
  BY <1>4, <1>5, <1>6 DEF Follows
<1>8. <<a, b, c, d>> \in Free(p, p)
  <2>1. {a.op, b.op, c.op, d.op} \cap Special = {}
    BY <1>6 DEF Special
  <2> QED
    BY <1>2, <1>3, <1>4, <1>6, <1>7, <2>1, Four
<1>9. srpc_call_allowed(p) \in Free(p, p)
  BY <1>2 DEF srpc_call_allowed, a, d
<1> QED
  BY <1>8, <1>9, Joined DEF srpc_async__call, a, b, c, d

LEMMA ByNumber ==
  ASSUME NEW p \in Roots, NEW n \in Nat
  PROVE  supla_dev_get_channel_by_num(p, n) \in Free(p, p)
<1> DEFINE a == To(Append(p, "dev"))
           b == Of("each number", Append(p, "dev"), 1)
           c == Of("find", p, n)
           d == To(p)
<1>1. "dev" \in Locks
  BY DEF Locks
<1>2. a \in Steps /\ d \in Steps
  BY <1>1, Brackets
<1>3. Append(p, "dev") \in Under
  BY <1>1, TakeOne
<1>4. b \in Steps /\ c \in Steps
  BY <1>3, SingleSteps, FirstOfLoop DEF RootOps
<1>5. /\ Fits(p, a) /\ Ends(a) = Append(p, "dev")
      /\ Fits(Append(p, "dev"), d) /\ Ends(d) = p
  BY <1>1, Takes, Gives
<1>6. Fits(Append(p, "dev"), b) /\ Ends(b) = Append(p, "dev")
  BY FirstOfLoop, Stays
<1>7. /\ a.op = "to" /\ b.op = "each number" /\ c.op = "find" /\ d.op = "to"
      /\ c.path = p
  BY DEF To, Of, Step
<1> HIDE DEF a, b, c, d
<1>8. Fits(Append(p, "dev"), c) /\ Ends(c) = Append(p, "dev")
  BY <1>7 DEF Fits, Ends, Place, SrpcOps
<1>9. Follows(a, b) /\ Follows(b, c) /\ Follows(c, d)
  BY <1>5, <1>6, <1>7, <1>8 DEF Follows
<1>10. {a.op, b.op, c.op, d.op} \cap Special = {}
  BY <1>7 DEF Special
<1>11. <<a, b, c, d>> \in Free(p, p)
  BY <1>2, <1>4, <1>5, <1>7, <1>9, <1>10, Four
<1> QED
  BY <1>11 DEF supla_dev_get_channel_by_num, a, b, c, d

LEMMA DevCall ==
  ASSUME NEW p \in Roots
  PROVE  supla_dev_call(p) \in Free(p, p)
<1>1. "dev" \in Locks
  BY DEF Locks
<1> QED
  BY <1>1, Brackets DEF supla_dev_call

LEMMA SingleLoop ==
  ASSUME NEW p \in Under, NEW op \in LoopOps, NEW n \in Nat \ {0}
  PROVE  <<Of(op, p, n)>> \in Free(p, p)
<1>1. Of(op, p, n) \in Steps /\ Fits(p, Of(op, p, n)) /\ Ends(Of(op, p, n)) = p
  BY SingleSteps, Stays
<1>2. Of(op, p, n).op = op /\ op # "push" /\ op \notin Special
  BY DEF Of, Step, LoopOps, Special
<1> QED
  BY <1>1, <1>2, Single

LEMMA SingleCallback ==
  ASSUME NEW p \in Roots
  PROVE  At("callback", p) \in Steps /\ <<At("callback", p)>> \in Free(p, p)
<1>1. At("callback", p) \in Steps
  BY SingleSteps, FirstOfLoop DEF RootOps
<1>2. Fits(p, At("callback", p)) /\ Ends(At("callback", p)) = p
  BY Stays
<1>3. At("callback", p).op = "callback" /\ "callback" \notin Special
  BY Fields DEF Special
<1> QED
  BY <1>1, <1>2, <1>3, Single

LEMMA Notification ==
  ASSUME NEW p \in Roots, NEW b \in BOOLEAN, NEW e \in BOOLEAN
  PROVE  supla_dev_send_notification(p, b, e) \in Free(p, p)
<1> DEFINE call == IF e THEN srpc_async__call(p) ELSE <<>>
<1> DEFINE search == IF b THEN <<Of("each number", Append(p, "dev"), 1)>>
                     ELSE <<>>
<1> DEFINE d == Append(p, "dev")
<1>1. "dev" \in Locks
  BY DEF Locks
<1>2. d \in Under
  BY <1>1, TakeOne
<1>3. <<To(d)>> \in Free(p, d) /\ <<To(p)>> \in Free(d, p)
  BY <1>1, Brackets
<1>4. search \in Free(d, d)
  BY <1>2, SingleLoop, FirstOfLoop, Nothing
<1>5. call \in Free(p, p)
  BY AsyncCall, Nothing
<1> HIDE DEF search, call, d
<1>6. <<To(d)>> \o search \in Free(p, d)
  BY <1>3, <1>4, Joined
<1>7. <<To(d)>> \o search \o <<To(p)>> \in Free(p, p)
  BY <1>3, <1>6, Joined
<1>8. <<To(d)>> \o search \o <<To(p)>> \o call \in Free(p, p)
  BY <1>5, <1>7, Joined
<1>9. QED
  BY <1>8 DEF supla_dev_send_notification, search, call, d

LEMMA StateCall ==
  ASSUME NEW p \in Roots
  PROVE  supla_dev_stop(p) \in Free(p, p) /\ supla_dev_start(p) \in Free(p, p)
<1> DEFINE a == To(Append(p, "dev"))
           b == At("callback", Append(p, "dev"))
           c == To(p)
<1>1. "dev" \in Locks
  BY DEF Locks
<1>2. Append(p, "dev") \in Roots
  BY <1>1, TakeOne, UnderIsRoot
<1>3. a \in Steps /\ b \in Steps /\ c \in Steps
  BY <1>1, <1>2, Brackets, SingleCallback
<1>4. /\ Fits(p, a) /\ Ends(a) = Append(p, "dev")
      /\ Fits(Append(p, "dev"), c) /\ Ends(c) = p
      /\ Fits(Append(p, "dev"), b) /\ Ends(b) = Append(p, "dev")
  BY <1>1, Takes, Gives, Stays
<1>5. a.op = "to" /\ b.op = "callback" /\ c.op = "to"
  BY Fields
<1> HIDE DEF a, b, c
<1>6. Follows(a, b) /\ Follows(b, c)
  BY <1>4, <1>5 DEF Follows
<1>7. {a.op, b.op, c.op} \cap Special = {}
  BY <1>5 DEF Special
<1>8. <<a, b, c>> \in Free(p, p)
  BY <1>3, <1>4, <1>5, <1>6, <1>7, Three
<1>9. supla_dev_stop(p) \in Free(p, p)
  BY <1>8 DEF supla_dev_stop, a, b, c
<1> QED
  BY <1>9, DevCall, Joined DEF supla_dev_start

LEMMA AddCall ==
  ASSUME NEW p \in Roots, NEW c \in Channels
  PROVE  supla_dev_add_channel(p, c) \in Leg(p, p)
<1> DEFINE a == To(Append(p, "dev"))
           b == At("count", p)
           e == To(p)
           d == Step("add", p, c, 0)
<1>1. "dev" \in Locks
  BY DEF Locks
<1>2. a \in Steps /\ e \in Steps
  BY <1>1, Brackets
<1>3. b \in Steps /\ d \in Steps
  BY SingleSteps, FirstOfLoop DEF RootOps
<1>4. /\ Fits(p, a) /\ Ends(a) = Append(p, "dev")
      /\ Fits(Append(p, "dev"), e) /\ Ends(e) = p
  BY <1>1, Takes, Gives
<1>5. /\ a.op = "to" /\ b.op = "count" /\ b.path = p
      /\ d.op = "add" /\ d.path = p /\ e.op = "to"
  BY DEF To, At, Step
<1> HIDE DEF a, b, d, e
<1>6. /\ Fits(Append(p, "dev"), b) /\ Ends(b) = Append(p, "dev")
      /\ Fits(p, d) /\ Ends(d) = p
  BY <1>5 DEF Fits, Ends, Place, SrpcOps
<1>7. Follows(a, b) /\ Follows(b, e) /\ Follows(e, d)
  BY <1>4, <1>5, <1>6 DEF Follows
<1>8. <<a, b, e, d>> \in Leg(p, p)
  BY <1>2, <1>3, <1>4, <1>5, <1>6, <1>7, Four
<1> QED
  BY <1>8 DEF supla_dev_add_channel, a, b, d, e

LEMMA CallbacksFree ==
  ASSUME NEW p \in Roots
  PROVE  CallbackCalls(p) \subseteq Free(p, p)
  BY Nothing, DevCall, ChannelCall, Notification DEF CallbackCalls

LEMMA ApiLegs ==
  \A s \in ApiCalls :
    \/ s \in Free(<<>>, <<>>)
    \/ \E c \in Channels : MayAdd(c) /\ s = supla_dev_add_channel(<<>>, c)
<1>1. <<>> \in Roots
  BY DEF Roots
<1>2. QED
  BY <1>1, CallbacksFree, StateCall DEF ApiCalls

LEMMA RegisterStruct ==
  ASSUME NEW p \in Under, NEW c \in Channels
  PROVE  supla_channel_to_register_struct(p, c) \in Free(p, p)
<1> DEFINE q == Append(p, c)
           related == IF Related[c] = NoChannel THEN <<>>
                      ELSE supla_channel_call(q, Related[c])
<1>1. c \in Locks
  BY DEF Locks
<1>2. p \in Roots /\ q \in Roots
  BY <1>1, UnderIsRoot, TakeOne
<1>3. <<To(q)>> \in Free(p, q) /\ <<To(p)>> \in Free(q, p)
  BY <1>1, <1>2, Brackets
<1>4. Related[c] # NoChannel => Related[c] \in Channels
  BY LocksAssumption
<1>5. related \in Free(q, q)
  BY <1>2, <1>4, ChannelCall, Nothing
<1> HIDE DEF q, related
<1>6. <<To(q)>> \o related \in Free(p, q)
  BY <1>3, <1>5, Joined
<1>7. <<To(q)>> \o related \o <<To(p)>> \in Free(p, p)
  BY <1>3, <1>6, Joined
<1>8. QED
  BY <1>7 DEF supla_channel_to_register_struct, q, related

LEMMA SrpcIterate ==
  ASSUME NEW p \in Under
  PROVE  srpc_iterate(p) \in Free(p, p)
<1> DEFINE a == To(Append(p, "srpc"))
           b == At("receive", p)
<1>1. "srpc" \in Locks /\ p \in Roots
  BY UnderIsRoot DEF Locks
<1>2. a \in Steps /\ b \in Steps
  BY <1>1, Brackets, SingleSteps, FirstOfLoop DEF UnderOps
<1>3. Fits(p, a) /\ Ends(a) = Append(p, "srpc")
  BY <1>1, Takes
<1>4. a.op = "to" /\ b.op = "receive" /\ b.path = p
  BY DEF To, At, Step
<1> HIDE DEF a, b
<1>5. Fits(Append(p, "srpc"), b) /\ Ends(b) = p
  BY <1>4 DEF Fits, Ends, Place, SrpcOps
<1>6. Follows(a, b) /\ a.op \notin Special /\ b.op \notin Special
  BY <1>3, <1>4, <1>5 DEF Follows, Special
<1>7. <<a, b>> \in Free(p, p)
  BY <1>2, <1>3, <1>4, <1>5, <1>6, Two
<1> QED
  BY <1>7 DEF srpc_iterate, a, b

LEMMA RemoteCall ==
  ASSUME NEW p \in Under
  PROVE  supla_dev_on_remote_call_received(p) \in Leg(p, p)
<1> DEFINE a == To(Append(p, "srpc"))
           b == At("getdata", p)
           c == To(p)
           d == At("handle", p)
<1>1. "srpc" \in Locks /\ p \in Roots
  BY UnderIsRoot DEF Locks
<1>2. a \in Steps /\ b \in Steps /\ c \in Steps /\ d \in Steps
  BY <1>1, Brackets, SingleSteps, FirstOfLoop DEF UnderOps
<1>3. /\ Fits(p, a) /\ Ends(a) = Append(p, "srpc")
      /\ Fits(Append(p, "srpc"), c) /\ Ends(c) = p
  BY <1>1, Takes, Gives
<1>4. /\ Fits(Append(p, "srpc"), b) /\ Ends(b) = Append(p, "srpc")
      /\ Fits(p, d) /\ Ends(d) = p
  BY StaysSrpc, Stays
<1>5. a.op = "to" /\ b.op = "getdata" /\ c.op = "to" /\ d.op = "handle"
  BY Fields
<1> HIDE DEF a, b, c, d
<1>6. Follows(a, b) /\ Follows(b, c) /\ Follows(c, d)
  BY <1>3, <1>4, <1>5 DEF Follows
<1>7. <<a, b, c, d>> \in Leg(p, p)
  BY <1>2, <1>3, <1>4, <1>5, <1>6, Four
<1> QED
  BY <1>7 DEF supla_dev_on_remote_call_received, a, b, c, d

LEMMA Registration ==
  ASSUME NEW p \in Under
  PROVE  supla_dev_register(p) \in Leg(p, p)
<1> DEFINE q == Append(p, "srpc")
           a == To(q)
           b == At("fill", p)
           c == Of("row", q, 0)
           d == To(p)
           h == At("header", p)
<1>1. "srpc" \in Locks /\ p \in Roots
  BY UnderIsRoot DEF Locks
<1>2. q \in Under
  BY <1>1, TakeOne
<1>3. a \in Steps /\ b \in Steps /\ c \in Steps /\ d \in Steps /\ h \in Steps
  BY <1>1, <1>2, Brackets, SingleSteps, FirstOfLoop DEF UnderOps, RootOps
<1>4. /\ Fits(p, a) /\ Ends(a) = q
      /\ Fits(q, d) /\ Ends(d) = p
  BY <1>1, Takes, Gives
<1>5. /\ Fits(q, b) /\ Ends(b) = q
      /\ Fits(q, c) /\ Ends(c) = q
      /\ Fits(p, h) /\ Ends(h) = p
  BY StaysSrpc, Stays
<1>6. /\ a.op = "to" /\ b.op = "fill" /\ c.op = "row" /\ d.op = "to"
      /\ h.op = "header"
  BY DEF To, At, Of, Step
<1> HIDE DEF a, b, c, d, h
<1>7. Follows(a, b) /\ Follows(b, c) /\ Follows(c, d)
  BY <1>4, <1>5, <1>6 DEF Follows
<1>8. <<a, b, c, d>> \in Leg(p, p)
  BY <1>3, <1>4, <1>6, <1>7, Four
<1>9. <<h>> \in Leg(p, p)
  BY <1>3, <1>5, <1>6, Single
<1>10. <<h>> \o srpc_call_allowed(p) \in Leg(p, p)
  BY <1>1, <1>9, AsyncCall, JoinedLegs, Typed
<1>11. <<h>> \o srpc_call_allowed(p) \o <<a, b, c, d>> \in Leg(p, p)
  BY <1>8, <1>10, JoinedLegs
<1> QED
  BY <1>11 DEF supla_dev_register, a, b, c, d, h

(* A tick that registers the device.                                       *)
RegisterTick(p) ==
  supla_dev_register(p) \o <<At("callback", p)>> \o srpc_iterate(p)

(* The steps that Add, Row and Receive put in place of theirs.             *)
Inserting(p, c) ==
  LET under == Append(p, "dev")
  IN  <<To(under), To(Append(under, c)), Step("insert", p, c, 0),
        To(under), To(p), At("callback", p)>>
Describing(p, n) ==
  supla_dev_get_channel_by_num(p, n) \o <<At("describe", p), Of("row", p, n + 1)>>
Answer(p) == <<To(p)>> \o supla_dev_on_remote_call_received(p)

LEMMA TicksFree ==
  ASSUME NEW p \in Under
  PROVE  Ticks(p) \subseteq Free(p, p) \cup {RegisterTick(p)}
<1> DEFINE callback == <<At("callback", p)>>
<1> DEFINE perhaps == {<<>>, srpc_async__call(p)}
<1> DEFINE requests == <<Of("each caption", p, 1)>> \o srpc_async__call(p)
                        \o <<Of("each config", p, 1)>>
<1> DEFINE notify == <<Of("each notify", p, 1)>> \o callback \o srpc_iterate(p)
<1> DEFINE syncs == <<Of("each sync", p, 1)>> \o srpc_iterate(p)
<1>1. p \in Roots
  BY UnderIsRoot
<1>2. /\ callback \in Free(p, p)
      /\ <<Of("each caption", p, 1)>> \in Free(p, p)
      /\ <<Of("each config", p, 1)>> \in Free(p, p)
      /\ <<Of("each notify", p, 1)>> \in Free(p, p)
      /\ <<Of("each sync", p, 1)>> \in Free(p, p)
      /\ <<>> \in Free(p, p)
  BY <1>1, SingleCallback, SingleLoop, FirstOfLoop, Nothing
<1>3. srpc_iterate(p) \in Free(p, p) /\ srpc_async__call(p) \in Free(p, p)
  BY <1>1, SrpcIterate, AsyncCall
<1>4. perhaps \subseteq Free(p, p)
  BY <1>2, <1>3
<1> HIDE DEF callback, perhaps
<1>5. callback \o srpc_iterate(p) \in Free(p, p)
  BY <1>2, <1>3, Joined
<1>6. requests \in Free(p, p) /\ notify \in Free(p, p) /\ syncs \in Free(p, p)
  BY <1>2, <1>3, Joined
<1> HIDE DEF requests, notify, syncs
<1>7. Then(perhaps, {notify}) \subseteq Free(p, p)
  BY <1>4, <1>6, ThenFree
<1>8. Then({requests}, Then(perhaps, {notify})) \subseteq Free(p, p)
  BY <1>6, <1>7, ThenFree
<1>9. Then(perhaps, Then({requests}, Then(perhaps, {notify})))
        \subseteq Free(p, p)
  BY <1>4, <1>8, ThenFree
<1>10. Then(perhaps, {callback, syncs}) \subseteq Free(p, p)
  BY <1>2, <1>4, <1>6, ThenFree
<1>11. QED
  BY <1>2, <1>5, <1>9, <1>10
  DEF Ticks, RegisterTick, callback, perhaps, requests, notify, syncs

LEMMA RegisterTickLeg ==
  ASSUME NEW p \in Under PROVE RegisterTick(p) \in Leg(p, p)
<1>1. supla_dev_register(p) \o <<At("callback", p)>> \in Leg(p, p)
  BY Registration, SingleCallback, UnderIsRoot, JoinedLegs, Typed
<1> QED
  BY <1>1, SrpcIterate, JoinedLegs, Typed DEF RegisterTick

LEMMA BodiesFree ==
  ASSUME NEW op \in LoopOps, NEW p \in Under, NEW c \in Channels
  PROVE  Bodies(op, p, c) \subseteq Free(p, p)
<1>1. p \in Roots
  BY UnderIsRoot
<1>2. /\ supla_channel_call(p, c) \in Free(p, p)
      /\ srpc_async__call(p) \in Free(p, p)
  BY <1>1, ChannelCall, AsyncCall
<1>3. Request(p, c) \in Free(p, p)
  BY <1>2, Joined DEF Request
<1>4. <<>> \in Free(p, p)
  BY Nothing
<1>5. Configs(p, c) \subseteq Free(p, p)
  <2> DEFINE sched == Request(p, c) \o srpc_async__call(p)
  <2> DEFINE set == supla_channel_call(p, c) \o <<At("callback", p)>>
                     \o srpc_async__call(p)
  <2>1. <<At("callback", p)>> \in Free(p, p)
    BY <1>1, SingleCallback
  <2>2. supla_channel_call(p, c) \o <<At("callback", p)>> \in Free(p, p)
    BY <1>2, <2>1, Joined
  <2>3. sched \in Free(p, p) /\ set \in Free(p, p)
    BY <1>2, <1>3, <2>2, Joined
  <2> HIDE DEF sched, set
  <2>4. Then({<<>>, sched}, {<<>>, set}) \subseteq Free(p, p)
    BY <1>4, <2>3, ThenFree
  <2>5. Then({<<>>, supla_channel_call(p, c)}, Then({<<>>, sched}, {<<>>, set}))
          \subseteq Free(p, p)
    BY <1>2, <1>4, <2>4, ThenFree
  <2>6. QED
    BY <2>5 DEF Configs, sched, set
<1>6. \A k \in 0 .. 2 : supla_channel_sync(p, c, k) \in Free(p, p)
  <2> TAKE k \in 0 .. 2
  <2> DEFINE q == Append(p, c)
             one == IF k > 0 THEN srpc_async__call(q) ELSE <<>>
             two == IF k > 1 THEN srpc_async__call(q) ELSE <<>>
  <2>1. c \in Locks
    BY DEF Locks
  <2>2. q \in Roots
    BY <1>1, <2>1, TakeOne, UnderIsRoot
  <2>3. <<To(q)>> \in Free(p, q) /\ <<To(p)>> \in Free(q, p)
    BY <1>1, <2>1, Brackets
  <2>4. one \in Free(q, q) /\ two \in Free(q, q)
    BY <2>2, AsyncCall, Nothing
  <2> HIDE DEF q, one, two
  <2>5. <<To(q)>> \o one \in Free(p, q)
    BY <2>3, <2>4, Joined
  <2>6. <<To(q)>> \o one \o two \in Free(p, q)
    BY <2>4, <2>5, Joined
  <2>7. <<To(q)>> \o one \o two \o <<To(p)>> \in Free(p, p)
    BY <2>3, <2>6, Joined
  <2>8. QED
    BY <2>7 DEF supla_channel_sync, q, one, two
<1>7. CASE op = "each number"
  BY <1>2, <1>7, Zenon DEF Bodies
<1>8. CASE op = "each caption"
  BY <1>3, <1>4, <1>8, Zenon DEF Bodies
<1>9. CASE op = "each config"
  BY <1>4, <1>5, <1>9, Zenon DEF Bodies
<1>10. CASE op = "each notify"
  BY <1>3, <1>4, <1>10, Zenon DEF Bodies
<1>11. CASE op = "each sync"
  BY <1>6, <1>11, Zenon DEF Bodies
<1>12. QED
  BY <1>7, <1>8, <1>9, <1>10, <1>11 DEF LoopOps

LEMMA SingleUnder ==
  ASSUME NEW p \in Under, NEW op \in {"functions", "function", "set value"},
         NEW n \in Nat
  PROVE  /\ At(op, p) \in Steps /\ <<At(op, p)>> \in Free(p, p)
         /\ Of(op, p, n) \in Steps /\ <<Of(op, p, n)>> \in Free(p, p)
<1>1. At(op, p) \in Steps /\ Of(op, p, n) \in Steps
  BY SingleSteps DEF UnderOps
<1>2. /\ Fits(p, At(op, p)) /\ Ends(At(op, p)) = p
      /\ Fits(p, Of(op, p, n)) /\ Ends(Of(op, p, n)) = p
  BY Stays
<1>3. /\ At(op, p).op = op /\ Of(op, p, n).op = op
      /\ op # "push" /\ op \notin Special
  BY DEF At, Of, Step, Special
<1> QED
  BY <1>1, <1>2, <1>3, Single

LEMMA HandlersFree ==
  ASSUME NEW p \in Under
  PROVE  Handlers(p) \subseteq Free(p, p)
<1> DEFINE callback == <<At("callback", p)>>
           functions == <<At("function", p), At("set value", p)>>
<1>1. p \in Roots
  BY UnderIsRoot
<1>2. /\ callback \in Free(p, p) /\ <<>> \in Free(p, p)
      /\ <<Of("functions", p, 0)>> \in Free(p, p)
      /\ <<At("set value", p)>> \in Free(p, p)
  BY <1>1, SingleCallback, Nothing, SingleUnder, FirstOfLoop
<1>3. functions \in Free(p, p)
  <2> DEFINE a == At("function", p)
             b == At("set value", p)
  <2>1. a \in Steps /\ b \in Steps
    BY SingleUnder, FirstOfLoop
  <2>2. Fits(p, a) /\ Ends(a) = p /\ Fits(p, b) /\ Ends(b) = p
    BY Stays
  <2>3. a.op = "function" /\ b.op = "set value"
    BY Fields
  <2> HIDE DEF a, b
  <2>4. Follows(a, b) /\ a.op \notin Special /\ b.op \notin Special
    BY <2>2, <2>3 DEF Follows, Special
  <2>5. <<a, b>> \in Free(p, p)
    BY <2>1, <2>2, <2>3, <2>4, Two
  <2> QED
    BY <2>5 DEF a, b
<1>4. srpc_async__call(p) \in Free(p, p)
  BY <1>1, AsyncCall
<1>5. /\ callback \o srpc_async__call(p) \in Free(p, p)
      /\ srpc_async__call(p) \o callback \in Free(p, p)
  BY <1>2, <1>4, Joined
<1> HIDE DEF functions
<1>6. \A n \in 0 .. Len(list) :
        /\ supla_dev_get_channel_by_num(p, n) \o <<At("set value", p)>>
             \o srpc_async__call(p) \in Free(p, p)
        /\ supla_dev_get_channel_by_num(p, n) \o functions \in Free(p, p)
  <2> TAKE n \in 0 .. Len(list)
  <2>1. n \in Nat
    OBVIOUS
  <2>2. supla_dev_get_channel_by_num(p, n) \in Free(p, p)
    BY <1>1, <2>1, ByNumber
  <2>3. supla_dev_get_channel_by_num(p, n) \o <<At("set value", p)>>
          \in Free(p, p)
    BY <1>2, <2>2, Joined
  <2>4. QED
    BY <1>3, <1>4, <2>2, <2>3, Joined
<1> DEFINE sets == {supla_dev_get_channel_by_num(p, n)
                     \o <<At("set value", p)>> \o srpc_async__call(p) :
                     n \in 0 .. Len(list)}
<1>7. sets \subseteq Free(p, p)
  BY <1>6
<1> HIDE DEF callback, sets
<1>8. Then({<<>>, callback}, sets) \subseteq Free(p, p)
  BY <1>2, <1>7, ThenFree
<1>9. QED
  BY <1>2, <1>4, <1>5, <1>6, <1>8 DEF Handlers, callback, sets, functions
-----------------------------------------------------------------------------
(* Where a thread is.                                                      *)
LEMMA Kinds ==
  ASSUME NEW s \in Steps
  PROVE  /\ s.n \in Nat
         /\ s.op = "to" => s.path \in Nests
         /\ s.op \in RootOps => s.path \in Roots
         /\ s.op \in {"add", "insert"} => s.path \in Roots /\ s.ch \in Channels
         /\ s.op \in LoopOps => s.path \in Under /\ s.n # 0
         /\ s.op \in UnderOps => s.path \in Under
<1>1. CASE s \in [op : {"to"}, path : Nests, ch : {NoChannel}, n : {0}]
  <2>1. s.op = "to" /\ s.path \in Nests /\ s.n = 0
    BY <1>1
  <2>2. "to" \notin RootOps \cup LoopOps \cup UnderOps \cup {"add", "insert"}
    BY DEF RootOps, LoopOps, UnderOps
  <2>3. QED
    BY <2>1, <2>2, FirstOfLoop
<1>2. CASE s \in [op : RootOps, path : Roots, ch : {NoChannel}, n : Nat]
  BY <1>2 DEF RootOps, LoopOps, UnderOps
<1>3. CASE s \in [op : {"add", "insert"}, path : Roots, ch : Channels, n : {0}]
  <2>1. /\ s.op \in {"add", "insert"}
        /\ s.path \in Roots /\ s.ch \in Channels /\ s.n = 0
    BY <1>3
  <2>2. /\ s.op \notin RootOps /\ s.op \notin LoopOps /\ s.op \notin UnderOps
        /\ s.op # "to"
    BY <2>1 DEF RootOps, LoopOps, UnderOps
  <2>3. QED
    BY <2>1, <2>2, FirstOfLoop
<1>4. CASE s \in [op : LoopOps, path : Under, ch : {NoChannel}, n : Nat \ {0}]
  BY <1>4 DEF RootOps, LoopOps, UnderOps
<1>5. CASE s \in [op : UnderOps, path : Under, ch : {NoChannel}, n : Nat]
  BY <1>5 DEF RootOps, LoopOps, UnderOps
<1>6. QED
  BY <1>1, <1>2, <1>3, <1>4, <1>5 DEF Steps

LEMMA NowTyped ==
  ASSUME TypeOK, NEW t \in Threads, NEW op, Reaches(t, op)
  PROVE  /\ Now(t) \in Steps /\ Now(t).op = op
         /\ Tail(todo[t]) \in Seq(Steps)
<1>1. todo[t] \in Seq(Steps) /\ todo[t] # <<>> /\ Now(t).op = op
  BY DEF TypeOK, Reaches, Idle
<1>2. Head(todo[t]) \in Steps /\ Tail(todo[t]) \in Seq(Steps)
  BY <1>1
<1>3. QED
  BY <1>1, <1>2 DEF Now

(* The step that t makes is replaced by a function, or by nothing, that    *)
(* leads from where it is to where it would have ended.                    *)
GoesOn(t) == \E steps \in Leg(Place(Now(t)), Ends(Now(t))) : Goes(t, steps)
GoesFreely(t) == \E steps \in Free(Place(Now(t)), Ends(Now(t))) : Goes(t, steps)

LEMMA FreelyOn == \A t : GoesFreely(t) => GoesOn(t)
  BY Typed DEF GoesFreely, GoesOn

LEMMA GoesTyped ==
  ASSUME TypeOK, NEW t \in Threads, NEW op, Reaches(t, op),
         GoesOn(t) \/ Goes(t, <<>>)
  PROVE  todo' \in [Threads -> Seq(Steps)]
<1>1. Leg(Place(Now(t)), Ends(Now(t))) \subseteq Seq(Steps) /\ <<>> \in Seq(Steps)
  BY Typed, Nothing
<1>2. PICK steps \in Seq(Steps) : Goes(t, steps)
  BY <1>1 DEF GoesOn
<1>3. Tail(todo[t]) \in Seq(Steps)
  BY NowTyped
<1>4. steps \o Tail(todo[t]) \in Seq(Steps)
  BY <1>2, <1>3, Concatenation
<1>5. QED
  BY <1>2, <1>4 DEF TypeOK, Goes

(* Steps that are made where their path says.                              *)
LEMMA Here ==
  ASSUME NEW t, NEW op, Reaches(t, op),
         op \in LoopOps \cup {"callback", "header", "row", "describe", "handle",
                             "functions", "function", "set value", "tick",
                             "add"}
  PROVE  Place(Now(t)) = Now(t).path /\ Ends(Now(t)) = Now(t).path
<1>1. /\ op # "to" /\ op # "receive" /\ op \notin SrpcOps
      /\ op \notin {"find", "count"} /\ op # "insert"
  BY DEF LoopOps, SrpcOps
<1>2. Now(t).op = op
  BY DEF Reaches
<1>3. QED
  BY <1>1, <1>2 DEF Place, Ends

(* Steps that are taken off.                                               *)
LEMMA OffFreely ==
  ASSUME NEW t, NEW op, Reaches(t, op), op # "to", op # "receive",
         Goes(t, <<>>)
  PROVE  GoesFreely(t)
<1>1. Ends(Now(t)) = Place(Now(t))
  BY DEF Ends, Reaches
<1>2. <<>> \in Free(Place(Now(t)), Ends(Now(t)))
  BY <1>1, Nothing
<1>3. QED
  BY <1>2 DEF GoesFreely

LEMMA LoopGoes ==
  ASSUME TypeOK, NEW t \in Threads, Loop(t)
  PROVE  GoesFreely(t)
<1>1. PICK op \in LoopOps :
        /\ Reaches(t, op)
        /\ IF Now(t).n > Len(list) THEN Goes(t, <<>>)
           ELSE \E body \in Bodies(op, Now(t).path, list[Now(t).n]) :
                  Goes(t, body \o <<Of(op, Now(t).path, Now(t).n + 1)>>)
  BY DEF Loop
<1>2. Now(t).path \in Under /\ Now(t).n \in Nat \ {0}
  BY <1>1, NowTyped, Kinds
<1>3. Place(Now(t)) = Now(t).path /\ Ends(Now(t)) = Now(t).path
  BY <1>1, Here
<1>4. CASE Now(t).n > Len(list)
  BY <1>1, <1>3, <1>4, Nothing DEF GoesFreely
<1>5. CASE ~(Now(t).n > Len(list))
  <2>1. PICK body \in Bodies(op, Now(t).path, list[Now(t).n]) :
          Goes(t, body \o <<Of(op, Now(t).path, Now(t).n + 1)>>)
    BY <1>1, <1>5
  <2>2. list[Now(t).n] \in Channels
    BY <1>2, <1>5 DEF TypeOK
  <2>3. body \in Free(Now(t).path, Now(t).path)
    BY <1>2, <2>2, BodiesFree
  <2>4. <<Of(op, Now(t).path, Now(t).n + 1)>> \in Free(Now(t).path, Now(t).path)
    <3>1. Now(t).n + 1 \in Nat \ {0}
      BY <1>2
    <3>2. QED
      BY <1>2, <3>1, SingleLoop
  <2>5. body \o <<Of(op, Now(t).path, Now(t).n + 1)>>
          \in Free(Now(t).path, Now(t).path)
    BY <2>3, <2>4, Joined
  <2>6. QED
    BY <1>3, <2>1, <2>5 DEF GoesFreely
<1>6. QED
  BY <1>4, <1>5

LEMMA DescribeGoes ==
  ASSUME TypeOK, NEW t \in Threads, Describe(t)
  PROVE  GoesFreely(t)
<1>1. /\ Reaches(t, "describe") /\ found[t] \in Channels
      /\ Goes(t, supla_channel_to_register_struct(Now(t).path, found[t]))
  BY DEF Describe
<1>2. Now(t).path \in Under
  BY <1>1, NowTyped, Kinds DEF UnderOps
<1>3. Place(Now(t)) = Now(t).path /\ Ends(Now(t)) = Now(t).path
  BY <1>1, Here
<1>4. QED
  BY <1>1, <1>2, <1>3, RegisterStruct DEF GoesFreely

LEMMA CallbackGoes ==
  ASSUME TypeOK, NEW t \in Threads, Callback(t)
  PROVE  GoesFreely(t)
<1>1. Reaches(t, "callback") /\ Now(t).path \in Roots
  BY NowTyped, Kinds DEF Callback, RootOps
<1>2. PICK steps \in CallbackCalls(Now(t).path) : Goes(t, steps)
  BY DEF Callback
<1>3. Place(Now(t)) = Now(t).path /\ Ends(Now(t)) = Now(t).path
  BY <1>1, Here
<1>4. QED
  BY <1>1, <1>2, <1>3, CallbacksFree DEF GoesFreely

LEMMA TickGoes ==
  ASSUME TypeOK, NEW t \in Threads, Tick(t)
  PROVE  /\ Now(t).path \in Under /\ GoesOn(t)
         /\ GoesFreely(t) \/ Goes(t, RegisterTick(Now(t).path))
<1>1. Reaches(t, "tick") /\ Now(t).path \in Under
  BY NowTyped, Kinds DEF Tick, UnderOps
<1>2. PICK steps \in Ticks(Now(t).path) : Goes(t, steps)
  BY DEF Tick
<1>3. Place(Now(t)) = Now(t).path /\ Ends(Now(t)) = Now(t).path
  BY <1>1, Here
<1>4. \/ steps \in Free(Now(t).path, Now(t).path)
      \/ steps = RegisterTick(Now(t).path)
  BY <1>1, <1>2, TicksFree
<1>5. GoesFreely(t) \/ Goes(t, RegisterTick(Now(t).path))
  BY <1>2, <1>3, <1>4 DEF GoesFreely
<1>6. GoesOn(t)
  BY <1>1, <1>3, <1>5, RegisterTickLeg, FreelyOn DEF GoesOn
<1>7. QED
  BY <1>1, <1>5, <1>6

LEMMA HandleGoes ==
  ASSUME TypeOK, NEW t \in Threads, Handle(t)
  PROVE  GoesFreely(t)
<1>1. Reaches(t, "handle") /\ Now(t).path \in Under
  BY NowTyped, Kinds DEF Handle, UnderOps
<1>2. PICK steps \in {<<>>} \cup Handlers(Now(t).path) : Goes(t, steps)
  BY DEF Handle
<1>3. Place(Now(t)) = Now(t).path /\ Ends(Now(t)) = Now(t).path
  BY <1>1, Here
<1>4. steps \in Free(Now(t).path, Now(t).path)
  BY <1>1, <1>2, HandlersFree, Nothing
<1>5. QED
  BY <1>2, <1>3, <1>4 DEF GoesFreely

LEMMA FunctionsGoes ==
  ASSUME TypeOK, NEW t \in Threads, Functions(t)
  PROVE  GoesFreely(t)
<1> DEFINE p == Now(t).path
           n == Now(t).n
           a == At("function", p)
           b == Of("functions", p, n + 1)
<1>1. Reaches(t, "functions") /\ p \in Under /\ n \in Nat
  BY NowTyped, Kinds DEF Functions, UnderOps
<1>2. n + 1 \in Nat
  BY <1>1
<1>3. a \in Steps /\ b \in Steps
  BY <1>1, <1>2, SingleUnder
<1>4. supla_dev_get_channel_by_num(p, n) \in Free(p, p)
  BY <1>1, ByNumber, UnderIsRoot
<1>5. Fits(p, a) /\ Ends(a) = p /\ Fits(p, b) /\ Ends(b) = p
  BY Stays
<1>6. a.op = "function" /\ b.op = "functions"
  BY DEF At, Of, Step
<1>7. Place(Now(t)) = p /\ Ends(Now(t)) = p
  BY <1>1, Here
<1>8. \/ Goes(t, <<>>)
      \/ Goes(t, supla_dev_get_channel_by_num(p, n) \o <<a, b>>)
  BY DEF Functions
<1> HIDE DEF a, b, p, n
<1>9. Follows(a, b) /\ a.op \notin Special /\ b.op \notin Special
  BY <1>5, <1>6 DEF Follows, Special
<1>10. <<a, b>> \in Free(p, p)
  BY <1>3, <1>5, <1>6, <1>9, Two
<1>11. supla_dev_get_channel_by_num(p, n) \o <<a, b>> \in Free(p, p)
  BY <1>4, <1>10, Joined
<1>12. QED
  BY <1>7, <1>8, <1>11, Nothing DEF GoesFreely

LEMMA IfFoundGoes ==
  ASSUME TypeOK, NEW t \in Threads, IfFound(t)
  PROVE  GoesFreely(t)
<1> DEFINE p == Now(t).path
<1>1. PICK op \in {"function", "set value"} : Reaches(t, op)
  BY DEF IfFound
<1>2. p \in Under /\ p \in Roots
  BY <1>1, NowTyped, Kinds, UnderIsRoot DEF UnderOps
<1>3. found[t] # NoChannel => supla_channel_call(p, found[t]) \in Free(p, p)
  BY <1>2, ChannelCall DEF TypeOK
<1>4. <<At("callback", p)>> \in Free(p, p)
  BY <1>2, SingleCallback
<1>5. PICK steps \in Free(p, p) : Goes(t, steps)
  BY <1>3, <1>4, Nothing DEF IfFound
<1>6. Place(Now(t)) = p /\ Ends(Now(t)) = p
  BY <1>1, Here
<1>7. QED
  BY <1>5, <1>6 DEF GoesFreely

LEMMA AddLeg ==
  ASSUME NEW p \in Roots, NEW c \in Channels
  PROVE  Inserting(p, c) \in Leg(p, p)
<1> DEFINE under == Append(p, "dev")
           q == Append(under, c)
           a == To(under)
           b == To(q)
           d == Step("insert", p, c, 0)
           e == To(p)
           f == At("callback", p)
           s == <<a, b, d, a, e, f>>
<1>1. c \in Locks /\ "dev" \in Locks
  BY DEF Locks
<1>2. under \in Roots
  BY <1>1, TakeOne, UnderIsRoot
<1>3. a \in Steps /\ b \in Steps /\ e \in Steps
  BY <1>1, <1>2, Brackets
<1>4. d \in Steps /\ f \in Steps
  BY SingleSteps, SingleCallback
<1>5. /\ Fits(p, a) /\ Ends(a) = under /\ Fits(under, b) /\ Ends(b) = q
      /\ Fits(q, a) /\ Fits(under, e) /\ Ends(e) = p
      /\ Fits(p, f) /\ Ends(f) = p
  BY <1>1, Takes, Gives, Stays
<1>6. /\ a.op = "to" /\ b.op = "to" /\ e.op = "to" /\ f.op = "callback"
      /\ d.op = "insert" /\ d.path = p /\ d.ch = c
  BY DEF To, At, Step
<1>7. s = Inserting(p, c)
  BY DEF Inserting
<1> HIDE DEF a, b, d, e, f
<1>8. Fits(q, d) /\ Ends(d) = q
  BY <1>6 DEF Fits, Ends, Place, SrpcOps
<1>9. /\ Follows(a, b) /\ Follows(b, d) /\ Follows(d, a) /\ Follows(a, e)
      /\ Follows(e, f)
  BY <1>5, <1>6, <1>8 DEF Follows
<1>10. /\ s \in Seq(Steps) /\ Len(s) = 6 /\ s # <<>>
       /\ s[1] = a /\ s[2] = b /\ s[3] = d /\ s[4] = a /\ s[5] = e /\ s[6] = f
  BY <1>3, <1>4
<1> HIDE DEF s
<1>11. \A i \in 2 .. Len(s) : i = 2 \/ i = 3 \/ i = 4 \/ i = 5 \/ i = 6
  BY <1>10
<1>12. Chained(s)
  BY <1>9, <1>10, <1>11 DEF Chained
<1>13. s \in Leg(p, p)
  BY <1>5, <1>6, <1>10, <1>12 DEF Leg
<1>14. QED
  BY <1>7, <1>13

LEMMA AddGoes ==
  ASSUME TypeOK, NEW t \in Threads, Add(t)
  PROVE  /\ Now(t).path \in Roots /\ Now(t).ch \in Channels /\ GoesOn(t)
         /\ \/ counted[t] + 1 >= ChannelMaxCount /\ Goes(t, <<>>)
            \/ /\ ~(counted[t] + 1 >= ChannelMaxCount)
               /\ Goes(t, Inserting(Now(t).path, Now(t).ch))
<1>1. Reaches(t, "add") /\ Now(t).path \in Roots /\ Now(t).ch \in Channels
  BY NowTyped, Kinds DEF Add
<1>2. Place(Now(t)) = Now(t).path /\ Ends(Now(t)) = Now(t).path
  BY <1>1, Here
<1>3. \/ counted[t] + 1 >= ChannelMaxCount /\ Goes(t, <<>>)
      \/ /\ ~(counted[t] + 1 >= ChannelMaxCount)
         /\ Goes(t, Inserting(Now(t).path, Now(t).ch))
  BY DEF Add, Inserting
<1>4. <<>> \in Leg(Now(t).path, Now(t).path)
  BY Nothing, Typed
<1>5. GoesOn(t)
  BY <1>1, <1>2, <1>3, <1>4, AddLeg DEF GoesOn
<1>6. QED
  BY <1>1, <1>3, <1>5

LEMMA RowLeg ==
  ASSUME NEW p \in Under, NEW n \in Nat
  PROVE  Describing(p, n) \in Leg(p, p)
<1> DEFINE a == At("describe", p)
           b == Of("row", p, n + 1)
<1>1. n + 1 \in Nat
  OBVIOUS
<1>2. a \in Steps /\ b \in Steps
  BY <1>1, SingleSteps, FirstOfLoop DEF UnderOps
<1>3. Fits(p, a) /\ Ends(a) = p /\ Fits(p, b) /\ Ends(b) = p
  BY Stays
<1>4. a.op = "describe" /\ b.op = "row"
  BY DEF At, Of, Step
<1> HIDE DEF a, b
<1>5. <<a>> \in Leg(p, p) /\ <<b>> \in Leg(p, p)
  BY <1>2, <1>3, <1>4, Single
<1>6. supla_dev_get_channel_by_num(p, n) \in Leg(p, p)
  BY ByNumber, UnderIsRoot, Typed
<1>7. Follows(a, b)
  BY <1>3, <1>4 DEF Follows
<1>8. <<a, b>> \in Leg(p, p)
  <2>1. /\ <<a, b>> \in Seq(Steps) /\ Len(<<a, b>>) = 2
        /\ <<a, b>>[1] = a /\ <<a, b>>[2] = b /\ <<a, b>> # <<>>
    BY <1>2
  <2>2. QED
    BY <1>3, <1>4, <1>7, <2>1 DEF Leg, Chained
<1>9. supla_dev_get_channel_by_num(p, n) \o <<a, b>> \in Leg(p, p)
  BY <1>6, <1>8, JoinedLegs
<1>10. QED
  BY <1>9 DEF Describing, a, b

LEMMA RowGoes ==
  ASSUME TypeOK, NEW t \in Threads, Row(t)
  PROVE  /\ Now(t).path \in Under /\ Now(t).n \in Nat /\ GoesOn(t)
         /\ \/ Now(t).n >= header /\ Goes(t, <<>>)
            \/ /\ ~(Now(t).n >= header)
               /\ Goes(t, Describing(Now(t).path, Now(t).n))
<1>1. Reaches(t, "row") /\ Now(t).path \in Under /\ Now(t).n \in Nat
  BY NowTyped, Kinds DEF Row, UnderOps
<1>2. Place(Now(t)) = Now(t).path /\ Ends(Now(t)) = Now(t).path
  BY <1>1, Here
<1>3. \/ Now(t).n >= header /\ Goes(t, <<>>)
      \/ /\ ~(Now(t).n >= header)
         /\ Goes(t, Describing(Now(t).path, Now(t).n))
  BY DEF Row, Describing
<1>4. <<>> \in Leg(Now(t).path, Now(t).path)
  BY Nothing, Typed
<1>5. GoesOn(t)
  BY <1>1, <1>2, <1>3, <1>4, RowLeg DEF GoesOn
<1>6. QED
  BY <1>1, <1>3, <1>5

LEMMA ReceiveGoes ==
  ASSUME TypeOK, NEW t \in Threads, Receive(t)
  PROVE  /\ Now(t).path \in Under /\ Place(Now(t)) = Append(Now(t).path, "srpc")
         /\ GoesOn(t)
         /\ \/ sdp' = sdp /\ in_queue' = in_queue /\ GoesFreely(t)
            \/ /\ sdp' = "received" /\ in_queue' = Append(in_queue, "received")
               /\ \E rest \in Free(Now(t).path, Now(t).path) :
                    Goes(t, Answer(Now(t).path) \o rest)
<1> DEFINE p == Now(t).path
           q == Append(p, "srpc")
           end == <<To(p), At("callback", p)>>
           a == At("pop", p)
           first == <<To(p)>>
           back == <<To(q), a>>
           none == <<a>> \o end
           rest == back \o end
           got == first \o supla_dev_on_remote_call_received(p) \o back \o end
<1>1. Reaches(t, "receive") /\ p \in Under /\ p \in Roots
  BY NowTyped, Kinds, UnderIsRoot DEF Receive, UnderOps
<1>2. "srpc" \in Locks
  BY DEF Locks
<1>3. Place(Now(t)) = q /\ Ends(Now(t)) = p
  BY <1>1 DEF Reaches, Place, Ends, SrpcOps
<1>4. /\ To(p) \in Steps /\ To(q) \in Steps /\ At("callback", p) \in Steps
      /\ a \in Steps
  BY <1>1, <1>2, Brackets, SingleCallback, SingleSteps, FirstOfLoop DEF UnderOps
<1>5. /\ Fits(p, To(q)) /\ Ends(To(q)) = q /\ Fits(q, To(p)) /\ Ends(To(p)) = p
      /\ Fits(p, At("callback", p)) /\ Ends(At("callback", p)) = p
      /\ Fits(q, a) /\ Ends(a) = q
  BY <1>2, Takes, Gives, Stays, StaysSrpc
<1>6. /\ To(p).op = "to" /\ To(q).op = "to" /\ a.op = "pop"
      /\ At("callback", p).op = "callback"
  BY Fields
<1>7. {"to", "pop", "callback"} \cap Special = {}
  BY DEF Special
<1>8. \/ Goes(t, end) /\ UNCHANGED <<sdp, in_queue>>
      \/ Goes(t, none) /\ UNCHANGED <<sdp, in_queue>>
      \/ /\ sdp' = "received" /\ in_queue' = Append(in_queue, "received")
         /\ Goes(t, got)
  BY DEF Receive
<1> HIDE DEF p, q, a
<1>9. end \in Free(q, p)
  <2>1. Follows(To(p), At("callback", p))
    BY <1>5, <1>6 DEF Follows
  <2>2. QED
    BY <1>4, <1>5, <1>6, <1>7, <2>1, Two
<1>10. back \in Free(p, q)
  <2>1. Follows(To(q), a)
    BY <1>5, <1>6 DEF Follows
  <2>2. QED
    BY <1>4, <1>5, <1>6, <1>7, <2>1, Two
<1>11. <<a>> \in Free(q, q) /\ first \in Free(q, p)
  BY <1>4, <1>5, <1>6, <1>7, Single
<1>12. supla_dev_on_remote_call_received(p) \in Leg(p, p)
  BY <1>1, RemoteCall
<1> HIDE DEF end, first, back
<1>13. none \in Free(q, p) /\ rest \in Free(p, p)
  BY <1>9, <1>10, <1>11, Joined
<1>14. Answer(p) = first \o supla_dev_on_remote_call_received(p)
  BY DEF Answer, first
<1>15. Answer(p) \in Leg(q, p)
  BY <1>11, <1>12, <1>14, JoinedLegs, Typed
<1>16. got = Answer(p) \o rest
  <2>1. /\ Answer(p) \in Seq(Steps) /\ back \in Seq(Steps)
        /\ end \in Seq(Steps)
    BY <1>9, <1>10, <1>15, Typed
  <2>2. QED
    BY <1>14, <2>1, ConcatAssociative
<1> HIDE DEF none, rest, got
<1>17. Answer(p) \o rest \in Leg(q, p)
  BY <1>13, <1>15, JoinedLegs, Typed
<1>18. GoesOn(t)
  <2>1. end \in Leg(q, p) /\ none \in Leg(q, p) /\ got \in Leg(q, p)
    BY <1>9, <1>13, <1>16, <1>17, Typed
  <2>2. QED
    BY <1>3, <1>8, <2>1 DEF GoesOn
<1>19. CASE Goes(t, end) /\ UNCHANGED <<sdp, in_queue>>
  BY <1>1, <1>3, <1>9, <1>18, <1>19 DEF GoesFreely, p, q
<1>20. CASE Goes(t, none) /\ UNCHANGED <<sdp, in_queue>>
  BY <1>1, <1>3, <1>13, <1>18, <1>20 DEF GoesFreely, p, q
<1>21. CASE /\ sdp' = "received" /\ in_queue' = Append(in_queue, "received")
            /\ Goes(t, got)
  BY <1>1, <1>3, <1>13, <1>16, <1>18, <1>21 DEF p, q
<1>22. QED
  BY <1>8, <1>19, <1>20, <1>21

(* Calls are made by threads that hold nothing, and leave them so.          *)
LEMMA CallGoes ==
  ASSUME NEW t \in Threads, Call(t)
  PROVE  \E steps \in Leg(<<>>, <<>>) :
           /\ todo' = [todo EXCEPT ![t] = steps]
           /\ \/ steps \in Plain
              \/ \E c \in Channels : /\ MayAdd(c)
                                    /\ steps = supla_dev_add_channel(<<>>, c)
<1> DEFINE a == To(<<"dev">>)
           b == At("tick", <<"dev">>)
           c == To(<<>>)
<1>1. "dev" \in Locks /\ <<>> \in Roots /\ Append(<<>>, "dev") = <<"dev">>
  BY DEF Locks, Roots
<1>2. <<"dev">> \in Under
  BY <1>1 DEF Under
<1>3. supla_dev_iterate \in Free(<<>>, <<>>)
  <2>1. a \in Steps /\ c \in Steps
    BY <1>1, Brackets
  <2>2. b \in Steps
    BY <1>2, SingleSteps, FirstOfLoop DEF UnderOps
  <2>3. /\ Fits(<<>>, a) /\ Ends(a) = <<"dev">>
        /\ Fits(<<"dev">>, b) /\ Ends(b) = <<"dev">>
        /\ Fits(<<"dev">>, c) /\ Ends(c) = <<>>
    BY <1>1, Takes, Gives, Stays
  <2>4. a.op = "to" /\ b.op = "tick" /\ c.op = "to"
    BY Fields
  <2> HIDE DEF a, b, c
  <2>5. Follows(a, b) /\ Follows(b, c)
    BY <2>3, <2>4 DEF Follows
  <2>6. {a.op, b.op, c.op} \cap Special = {}
    BY <2>4 DEF Special
  <2>7. <<a, b, c>> \in Free(<<>>, <<>>)
    BY <2>1, <2>2, <2>3, <2>4, <2>5, <2>6, Three
  <2>8. QED
    BY <2>7 DEF supla_dev_iterate, a, b, c
<1>4. \A d \in Channels : supla_dev_add_channel(<<>>, d) \in Leg(<<>>, <<>>)
  BY <1>1, AddCall
<1>5. PICK steps \in {supla_dev_iterate} \cup ApiCalls :
        todo' = [todo EXCEPT ![t] = steps]
  BY DEF Call
<1>6. \/ steps \in Free(<<>>, <<>>)
      \/ \E d \in Channels : MayAdd(d) /\ steps = supla_dev_add_channel(<<>>, d)
  BY <1>3, <1>5, ApiLegs
<1>7. QED
  BY <1>4, <1>5, <1>6 DEF Free

-----------------------------------------------------------------------------
(* Every step keeps the types.                                             *)
LEMMA CallTyped ==
  ASSUME TypeOK, NEW t \in Threads, Call(t)
  PROVE  TypeOK'
<1>1. PICK steps \in Seq(Steps) : todo' = [todo EXCEPT ![t] = steps]
  BY CallGoes, Typed
<1>2. todo' \in [Threads -> Seq(Steps)]
  BY <1>1 DEF TypeOK
<1>3. QED
  BY <1>2 DEF TypeOK, Call, lists, locals, srpc

LEMMA LockTyped ==
  ASSUME TypeOK, NEW t \in Threads, Lock(t)
  PROVE  TypeOK'
<1>1. PICK l \in Locks :
        /\ Wants(t, l)
        /\ path' = [path EXCEPT ![t] = Append(@, l)]
        /\ Goes(t, <<>>)
        /\ UNCHANGED <<lists, locals, srpc>>
  BY DEF Lock
<1>2. Reaches(t, "to") /\ Now(t).path = Append(path[t], l)
  BY <1>1 DEF Wants
<1>3. Append(path[t], l) \in Nests
  BY <1>2, NowTyped, Kinds
<1>4. todo' \in [Threads -> Seq(Steps)]
  BY <1>1, <1>2, GoesTyped
<1>5. path' \in [Threads -> Nests]
  BY <1>1, <1>3 DEF TypeOK
<1>6. QED
  BY <1>1, <1>4, <1>5 DEF TypeOK, lists, locals, srpc

LEMMA UnlockTyped ==
  ASSUME TypeOK, NEW t \in Threads, Unlock(t)
  PROVE  TypeOK'
<1>1. Reaches(t, "to") /\ path' = [path EXCEPT ![t] = Now(t).path]
  BY DEF Unlock
<1>2. Now(t).path \in Nests
  BY <1>1, NowTyped, Kinds
<1>3. todo' \in [Threads -> Seq(Steps)]
  BY <1>1, GoesTyped DEF Unlock
<1>4. path' \in [Threads -> Nests]
  BY <1>1, <1>2 DEF TypeOK
<1>5. QED
  BY <1>3, <1>4 DEF TypeOK, Unlock, lists, locals, srpc

LEMMA LoopTyped ==
  ASSUME TypeOK, NEW t \in Threads, Loop(t)
  PROVE  TypeOK'
<1>1. todo' \in [Threads -> Seq(Steps)]
  BY LoopGoes, FreelyOn, GoesTyped DEF Loop
<1>2. QED
  BY <1>1 DEF TypeOK, Loop, lists, locals, srpc

LEMMA FindTyped ==
  ASSUME TypeOK, NEW t \in Threads, Find(t)
  PROVE  TypeOK'
<1> DEFINE has(i) == number[list[i]] = Now(t).n
<1> DEFINE last(i) == has(i) /\ \A j \in DOMAIN list : has(j) => j <= i
<1> DEFINE which == IF \E i \in DOMAIN list : last(i)
                      THEN list[CHOOSE i \in DOMAIN list : last(i)]
                      ELSE NoChannel
<1>1. /\ Reaches(t, "find") /\ Goes(t, <<>>)
      /\ found' = [found EXCEPT ![t] = which]
  BY DEF Find
<1>2. todo' \in [Threads -> Seq(Steps)]
  BY <1>1, GoesTyped
<1>3. which \in Channels \cup {NoChannel}
  <2> HIDE DEF last
  <2>1. CASE \E i \in DOMAIN list : last(i)
    <3>1. (CHOOSE i \in DOMAIN list : last(i)) \in DOMAIN list
      BY <2>1
    <3>2. QED
      BY <2>1, <3>1 DEF TypeOK
  <2>2. CASE ~\E i \in DOMAIN list : last(i)
    BY <2>2
  <2>3. QED
    BY <2>1, <2>2
<1> HIDE DEF which
<1>4. QED
  BY <1>1, <1>2, <1>3 DEF TypeOK, Find, lists, srpc

LEMMA CountTyped ==
  ASSUME TypeOK, NEW t \in Threads, Count(t)
  PROVE  TypeOK'
<1>1. todo' \in [Threads -> Seq(Steps)]
  BY GoesTyped DEF Count
<1>2. Len(list) \in Nat
  BY DEF TypeOK
<1>3. QED
  BY <1>1, <1>2 DEF TypeOK, Count, locals, srpc

LEMMA AddTyped ==
  ASSUME TypeOK, NEW t \in Threads, Add(t)
  PROVE  TypeOK'
<1>1. todo' \in [Threads -> Seq(Steps)]
  BY AddGoes, GoesTyped DEF Add
<1>2. QED
  BY <1>1 DEF TypeOK, Add, lists, locals, srpc

LEMMA InsertTyped ==
  ASSUME TypeOK, NEW t \in Threads, Insert(t)
  PROVE  TypeOK'
<1>1. todo' \in [Threads -> Seq(Steps)]
  BY GoesTyped DEF Insert
<1>2. Now(t).ch \in Channels
  BY NowTyped, Kinds DEF Insert
<1>3. list' \in Seq(Channels)
  BY <1>2 DEF TypeOK, Insert
<1>4. number' \in [Channels -> Int]
  <2>1. counted[t] \in Int
    BY DEF TypeOK
  <2>2. QED
    BY <1>2, <2>1 DEF TypeOK, Insert
<1>5. QED
  BY <1>1, <1>3, <1>4 DEF TypeOK, Insert, locals, srpc

LEMMA HeaderTyped ==
  ASSUME TypeOK, NEW t \in Threads, Header(t)
  PROVE  TypeOK'
<1>1. todo' \in [Threads -> Seq(Steps)]
  BY GoesTyped DEF Header
<1>2. header' \in Nat /\ described' \in Seq(Channels)
  BY DEF TypeOK, Header
<1>3. QED
  BY <1>1, <1>2 DEF TypeOK, Header, lists, srpc

LEMMA RowTyped ==
  ASSUME TypeOK, NEW t \in Threads, Row(t)
  PROVE  TypeOK'
<1>1. todo' \in [Threads -> Seq(Steps)]
  BY RowGoes, GoesTyped DEF Row
<1>2. header' \in Nat /\ described' \in Seq(Channels)
  <2>1. \/ header' = 0 /\ described' = <<>>
        \/ header' = header /\ described' = described
    BY DEF Row
  <2>2. header \in Nat /\ described \in Seq(Channels)
    BY DEF TypeOK
  <2>3. 0 \in Nat /\ <<>> \in Seq(Channels)
    OBVIOUS
  <2>4. QED
    BY <2>1, <2>2, <2>3, Zenon
<1>3. QED
  BY <1>1, <1>2 DEF TypeOK, Row, lists, srpc

LEMMA DescribeTyped ==
  ASSUME TypeOK, NEW t \in Threads, Describe(t)
  PROVE  TypeOK'
<1>1. todo' \in [Threads -> Seq(Steps)] /\ found[t] \in Channels
  BY DescribeGoes, FreelyOn, GoesTyped DEF Describe
<1>2. described' \in Seq(Channels)
  BY <1>1 DEF TypeOK, Describe
<1>3. found' \in [Threads -> Channels \cup {NoChannel}]
  BY DEF TypeOK, Describe
<1>4. QED
  BY <1>1, <1>2, <1>3 DEF TypeOK, Describe, lists, srpc

LEMMA ChoiceTyped ==
  ASSUME TypeOK, NEW t \in Threads,
         Callback(t) \/ Tick(t) \/ Handle(t) \/ Functions(t) \/ IfFound(t)
  PROVE  TypeOK'
<1>1. GoesOn(t)
  BY CallbackGoes, TickGoes, HandleGoes, FunctionsGoes, IfFoundGoes, FreelyOn
<1>2. todo' \in [Threads -> Seq(Steps)]
  BY <1>1, GoesTyped DEF Callback, Tick, Handle, Functions, IfFound
<1>3. CASE Callback(t) \/ Tick(t)
  BY <1>2, <1>3 DEF TypeOK, Callback, Tick, lists, locals, srpc
<1>4. CASE Handle(t)
  BY <1>2, <1>4 DEF TypeOK, Handle, lists, locals, Packets
<1>5. CASE Functions(t) \/ IfFound(t)
  <2>1. found' \in [Threads -> Channels \cup {NoChannel}]
    BY <1>5 DEF TypeOK, Functions, IfFound
  <2>2. QED
    BY <1>2, <1>5, <2>1 DEF TypeOK, Functions, IfFound, lists, srpc
<1>6. QED
  BY <1>3, <1>4, <1>5

LEMMA QueuesTyped ==
  ASSUME TypeOK, NEW t \in Threads, Fill(t) \/ Push(t) \/ Pop(t) \/ GetData(t)
  PROVE  TypeOK'
<1>1. todo' \in [Threads -> Seq(Steps)]
  BY GoesTyped DEF Fill, Push, Pop, GetData
<1>2. CASE Fill(t)
  BY <1>1, <1>2 DEF TypeOK, Fill, lists, locals, Packets
<1>3. CASE Push(t)
  <2>1. out_queue' \in Seq(Packets) /\ Len(out_queue') <= QueueSize
    BY <1>3, LocksAssumption DEF TypeOK, Push
  <2>2. QED
    BY <1>1, <1>3, <2>1 DEF TypeOK, Push, lists, locals
<1>4. CASE Pop(t)
  <2>1. /\ sdp' \in Packets
        /\ out_queue' \in Seq(Packets) /\ Len(out_queue') <= QueueSize
    <3>1. /\ sdp \in Packets /\ out_queue \in Seq(Packets)
          /\ Len(out_queue) <= QueueSize /\ QueueSize \in Nat
      BY LocksAssumption DEF TypeOK
    <3>2. \/ sdp' = sdp /\ out_queue' = out_queue
          \/ /\ out_queue # <<>>
             /\ sdp' = Head(out_queue) /\ out_queue' = Tail(out_queue)
      BY <1>4 DEF Pop
    <3>3. QED
      BY <3>1, <3>2
  <2>2. QED
    BY <1>1, <1>4, <2>1 DEF TypeOK, Pop, lists, locals
<1>5. CASE GetData(t)
  <2>1. sdp' \in Packets /\ rd' \in Packets /\ in_queue' \in Seq(Packets)
    <3>1. /\ sdp \in Packets /\ in_queue \in Seq(Packets)
          /\ "none" \in Packets
      BY DEF TypeOK, Packets
    <3>2. \/ rd' = "none" /\ sdp' = sdp /\ in_queue' = in_queue
          \/ /\ in_queue # <<>> /\ sdp' = Head(in_queue)
             /\ rd' = Head(in_queue) /\ in_queue' = Tail(in_queue)
      BY <1>5 DEF GetData
    <3>3. QED
      BY <3>1, <3>2
  <2>2. QED
    BY <1>1, <1>5, <2>1 DEF TypeOK, GetData, lists, locals
<1>6. QED
  BY <1>2, <1>3, <1>4, <1>5

LEMMA ReceiveTyped ==
  ASSUME TypeOK, NEW t \in Threads, Receive(t)
  PROVE  TypeOK'
<1>1. todo' \in [Threads -> Seq(Steps)]
  BY ReceiveGoes, GoesTyped DEF Receive
<1>2. sdp' \in Packets /\ in_queue' \in Seq(Packets)
  <2>1. \/ sdp' = sdp /\ in_queue' = in_queue
        \/ sdp' = "received" /\ in_queue' = Append(in_queue, "received")
    BY DEF Receive
  <2>2. sdp \in Packets /\ in_queue \in Seq(Packets) /\ "received" \in Packets
    BY DEF TypeOK, Packets
  <2>3. QED
    BY <2>1, <2>2
<1>3. QED
  BY <1>1, <1>2 DEF TypeOK, Receive, lists, locals

-----------------------------------------------------------------------------
(* A lock is held by one thread.                                           *)
Exclusive == \A t, u \in Threads : t # u => Held(t) \cap Held(u) = {}

(* A thread is on its way to where it holds nothing. When it is about to   *)
(* push a packet, the packet is that of its call.                          *)
OnPath(t) ==
  \/ todo[t] \in Leg(path[t], <<>>)
  \/ /\ Reaches(t, "push") /\ Place(Now(t)) = path[t] /\ sdp = "call"
     /\ Tail(todo[t]) \in Leg(path[t], <<>>)

IInv == TypeOK /\ Exclusive /\ \A t \in Threads : OnPath(t)

LEMMA InitHolds == Init => IInv
<1> SUFFICES ASSUME Init PROVE IInv
  OBVIOUS
<1>1. <<>> \in Nests /\ <<>> \in Leg(<<>>, <<>>)
  BY Nothing, Typed DEF Nests
<1>2. TypeOK
  BY <1>1, LocksAssumption DEF Init, TypeOK, Packets
<1>3. Exclusive
  BY DEF Init, Exclusive, Held
<1>4. \A t \in Threads : OnPath(t)
  BY <1>1 DEF Init, OnPath
<1>5. QED
  BY <1>2, <1>3, <1>4 DEF IInv

LEMMA LockExclusive ==
  ASSUME TypeOK, Exclusive, NEW t \in Threads, Lock(t)
  PROVE  Exclusive'
<1>1. PICK l \in Locks :
        /\ \A u \in Threads \ {t} : l \notin Held(u)
        /\ path' = [path EXCEPT ![t] = Append(@, l)]
  BY DEF Lock
<1>2. path \in [Threads -> Nests] /\ path[t] \in Seq(Locks)
  BY DEF TypeOK, Nests
<1>3. \A u \in Threads \ {t} : Held(u)' = Held(u)
  BY <1>1, <1>2 DEF Held
<1>4. Held(t)' \subseteq Held(t) \cup {l}
  <2>1. path'[t] = Append(path[t], l)
    BY <1>1, <1>2
  <2>2. \A i \in DOMAIN Append(path[t], l) :
          Append(path[t], l)[i] = l \/ \E j \in DOMAIN path[t] :
            Append(path[t], l)[i] = path[t][j]
    BY <1>2
  <2>3. QED
    BY <2>1, <2>2 DEF Held
<1>5. SUFFICES ASSUME NEW u \in Threads, NEW v \in Threads, u # v
               PROVE  Held(u)' \cap Held(v)' = {}
  BY DEF Exclusive
<1>6. Held(u) \cap Held(v) = {}
  BY <1>5 DEF Exclusive
<1> HIDE DEF Held
<1>7. CASE u # t /\ v # t
  BY <1>3, <1>6, <1>7
<1>8. CASE u = t
  BY <1>1, <1>3, <1>4, <1>5, <1>6, <1>8
<1>9. CASE v = t
  BY <1>1, <1>3, <1>4, <1>5, <1>6, <1>9
<1>10. QED
  BY <1>7, <1>8, <1>9

LEMMA UnlockExclusive ==
  ASSUME TypeOK, Exclusive, NEW t \in Threads, Unlock(t)
  PROVE  Exclusive'
<1>1. PICK l \in Locks : path[t] = Append(Now(t).path, l)
  BY DEF Unlock
<1>2. path' = [path EXCEPT ![t] = Now(t).path] /\ Reaches(t, "to")
  BY DEF Unlock
<1>3. Now(t).path \in Seq(Locks)
  BY <1>2, NowTyped, Kinds DEF Nests
<1>4. path \in [Threads -> Nests]
  BY DEF TypeOK
<1>5. \A u \in Threads : Held(u)' \subseteq Held(u)
  <2> TAKE u \in Threads
  <2>1. CASE u # t
    BY <1>2, <1>4, <2>1 DEF Held
  <2>2. CASE u = t
    <3>1. \A i \in DOMAIN Now(t).path :
            i \in DOMAIN path[t] /\ path[t][i] = Now(t).path[i]
      BY <1>1, <1>3
    <3>2. path'[t] = Now(t).path
      BY <1>2, <1>4
    <3>3. QED
      BY <2>2, <3>1, <3>2 DEF Held
  <2>3. QED
    BY <2>1, <2>2
<1>6. QED
  BY <1>5 DEF Exclusive

LEMMA OthersExclusive ==
  ASSUME Exclusive, UNCHANGED path
  PROVE  Exclusive'
  BY DEF Exclusive, Held

LEMMA OneLeft ==
  ASSUME NEW S, NEW s \in Seq(S), s # <<>>, Tail(s) = <<>>
  PROVE  Len(s) = 1
<1>1. Len(Tail(s)) = Len(s) - 1 /\ Len(s) \in Nat
  OBVIOUS
<1>2. \A x : x = <<>> => Len(x) = 0
  OBVIOUS
<1>3. Len(Tail(s)) = 0
  BY <1>2
<1>4. QED
  BY <1>1, <1>3

(* What is left of a leg when its first step is made.                      *)
LEMMA TailLeg ==
  ASSUME NEW p, NEW q, NEW s \in Leg(p, q), s # <<>>
  PROVE  /\ Fits(p, Head(s)) /\ Head(s).op # "push"
         /\ \/ Tail(s) \in Leg(Ends(Head(s)), q)
            \/ /\ Head(s).op = "fill" /\ Tail(s) # <<>>
               /\ Head(Tail(s)).op = "push"
               /\ Place(Head(Tail(s))) = Ends(Head(s))
               /\ Tail(Tail(s)) \in Leg(Ends(Head(s)), q)
<1> DEFINE r == Tail(s)
<1>1. /\ s \in Seq(Steps) /\ Head(s) = s[1] /\ r \in Seq(Steps)
      /\ Len(s) \in Nat \ {0} /\ Len(r) = Len(s) - 1
      /\ \A i \in 1 .. Len(r) : r[i] = s[i + 1]
  BY DEF Leg
<1>2. /\ Fits(p, s[1]) /\ s[1].op # "push" /\ Ends(s[Len(s)]) = q
      /\ \A i \in 2 .. Len(s) : Follows(s[i - 1], s[i])
  BY DEF Leg, Chained
<1>3. r = <<>> => r \in Leg(Ends(s[1]), q)
  <2>1. SUFFICES ASSUME r = <<>> PROVE r \in Leg(Ends(s[1]), q)
    OBVIOUS
  <2>2. Len(s) = 1
    BY <1>1, <2>1, OneLeft
  <2>3. Ends(s[1]) = q
    BY <1>2, <2>2
  <2>4. QED
    BY <1>1, <2>1, <2>3 DEF Leg
<1> HIDE DEF r
<1>4. r # <<>> => /\ Follows(s[1], r[1]) /\ Ends(r[Len(r)]) = q
                  /\ \A i \in 2 .. Len(r) : Follows(r[i - 1], r[i])
  <2>1. SUFFICES ASSUME r # <<>>
                 PROVE  /\ Follows(s[1], r[1]) /\ Ends(r[Len(r)]) = q
                        /\ \A i \in 2 .. Len(r) : Follows(r[i - 1], r[i])
    OBVIOUS
  <2>2. Len(r) \in Nat \ {0}
    BY <1>1, <2>1
  <2>3. Follows(s[1], r[1]) /\ Ends(r[Len(r)]) = q
    <3>1. r[1] = s[2] /\ r[Len(r)] = s[Len(s)] /\ 2 \in 2 .. Len(s)
      BY <1>1, <2>2
    <3>2. QED
      BY <1>2, <3>1
  <2>4. ASSUME NEW i \in 2 .. Len(r) PROVE Follows(r[i - 1], r[i])
    <3>1. r[i - 1] = s[(i + 1) - 1] /\ r[i] = s[i + 1] /\ i + 1 \in 2 .. Len(s)
      BY <1>1, <2>4
    <3>2. QED
      BY <1>2, <3>1
  <2>5. QED
    BY <2>3, <2>4
<1>5. r # <<>> /\ r[1].op # "push" => r \in Leg(Ends(s[1]), q)
  BY <1>1, <1>4 DEF Leg, Chained, Follows
<1>6. ASSUME r # <<>>, r[1].op = "push"
      PROVE  /\ s[1].op = "fill" /\ Place(r[1]) = Ends(s[1])
             /\ Tail(r) \in Leg(Ends(s[1]), q)
  <2> DEFINE v == Tail(r)
  <2>1. /\ v \in Seq(Steps) /\ Len(v) = Len(r) - 1 /\ Len(r) \in Nat \ {0}
        /\ \A i \in 1 .. Len(v) : v[i] = r[i + 1]
    BY <1>1, <1>6
  <2>2. s[1].op = "fill" /\ Place(r[1]) = Ends(s[1]) /\ Ends(r[1]) = Ends(s[1])
    <3>1. Follows(s[1], r[1])
      BY <1>4, <1>6
    <3>2. s[1].op = "fill" /\ Fits(Ends(s[1]), r[1])
      BY <1>6, <3>1 DEF Follows
    <3>3. r[1].op # "to" /\ r[1].op # "receive"
      BY <1>6
    <3>4. QED
      BY <3>2, <3>3 DEF Fits, Ends
  <2>3. v = <<>> => v \in Leg(Ends(s[1]), q)
    <3>1. SUFFICES ASSUME v = <<>> PROVE v \in Leg(Ends(s[1]), q)
      OBVIOUS
    <3>2. Len(r) = 1
      BY <1>1, <1>6, <3>1, OneLeft
    <3>3. Ends(r[1]) = q
      BY <1>4, <1>6, <3>2
    <3>4. QED
      BY <2>1, <2>2, <3>1, <3>3 DEF Leg
  <2> HIDE DEF v
  <2>4. ASSUME v # <<>>
        PROVE  /\ Follows(r[1], v[1]) /\ Ends(v[Len(v)]) = q
               /\ \A i \in 2 .. Len(v) : Follows(v[i - 1], v[i])
    <3>1. Len(v) \in Nat \ {0}
      BY <2>1, <2>4
    <3>2. Follows(r[1], v[1]) /\ Ends(v[Len(v)]) = q
      <4>1. v[1] = r[2] /\ v[Len(v)] = r[Len(r)] /\ 2 \in 2 .. Len(r)
        BY <2>1, <3>1
      <4>2. QED
        BY <1>4, <1>6, <4>1
    <3>3. ASSUME NEW i \in 2 .. Len(v) PROVE Follows(v[i - 1], v[i])
      <4>1. v[i - 1] = r[(i + 1) - 1] /\ v[i] = r[i + 1] /\ i + 1 \in 2 .. Len(r)
        BY <2>1, <3>3
      <4>2. QED
        BY <1>4, <1>6, <4>1
    <3>4. QED
      BY <3>2, <3>3
  <2>5. v # <<>> => v \in Leg(Ends(s[1]), q)
    <3>1. SUFFICES ASSUME v # <<>> PROVE v \in Leg(Ends(s[1]), q)
      OBVIOUS
    <3>2. Fits(Ends(s[1]), v[1]) /\ v[1].op # "push"
      BY <1>6, <2>2, <2>4, <3>1 DEF Follows
    <3>3. QED
      BY <2>1, <2>4, <3>1, <3>2 DEF Leg, Chained
  <2>6. QED
    BY <2>2, <2>3, <2>5 DEF v
<1>7. r # <<>> => r[1] = Head(r)
  BY <1>1
<1>8. QED
  BY <1>1, <1>2, <1>3, <1>5, <1>6, <1>7 DEF r

(* Where a thread is when it makes a step, and what it has left.           *)
LEMMA Where ==
  ASSUME TypeOK, NEW t \in Threads, OnPath(t), NEW op, Reaches(t, op)
  PROVE  /\ op # "to" => Place(Now(t)) = path[t]
         /\ op # "fill" => Tail(todo[t]) \in Leg(Ends(Now(t)), <<>>)
<1>1. Now(t).op = op /\ todo[t] # <<>> /\ Now(t) = Head(todo[t])
  BY DEF Reaches, Idle, Now
<1>2. CASE todo[t] \in Leg(path[t], <<>>)
  BY <1>1, <1>2, TailLeg DEF Fits
<1>3. CASE /\ Reaches(t, "push") /\ Place(Now(t)) = path[t]
           /\ Tail(todo[t]) \in Leg(path[t], <<>>)
  <2>1. op = "push" /\ Ends(Now(t)) = path[t]
    BY <1>1, <1>3 DEF Reaches, Ends
  <2>2. QED
    BY <1>3, <2>1
<1>4. QED
  BY <1>2, <1>3 DEF OnPath

LEMMA MovesOn ==
  ASSUME TypeOK, NEW t \in Threads, OnPath(t), NEW op, Reaches(t, op),
         op # "fill", NEW steps \in Leg(path'[t], Ends(Now(t))),
         Goes(t, steps)
  PROVE  OnPath(t)'
<1>1. Tail(todo[t]) \in Leg(Ends(Now(t)), <<>>)
  BY Where
<1>2. steps \o Tail(todo[t]) \in Leg(path'[t], <<>>)
  BY <1>1, JoinedLegs
<1>3. todo'[t] = steps \o Tail(todo[t])
  BY DEF Goes, TypeOK
<1>4. QED
  BY <1>2, <1>3 DEF OnPath

LEMMA GoesOnPath ==
  ASSUME TypeOK, NEW t \in Threads, OnPath(t), NEW op, Reaches(t, op),
         op \notin {"to", "fill"}, GoesOn(t), path' = path
  PROVE  OnPath(t)'
<1>1. PICK steps \in Leg(Place(Now(t)), Ends(Now(t))) : Goes(t, steps)
  BY DEF GoesOn
<1>2. Place(Now(t)) = path'[t]
  BY Where
<1>3. QED
  BY <1>1, <1>2, MovesOn

LEMMA FillOnPath ==
  ASSUME TypeOK, NEW t \in Threads, OnPath(t), Fill(t)
  PROVE  OnPath(t)'
<1>1. /\ Reaches(t, "fill") /\ Goes(t, <<>>) /\ sdp' = "call" /\ path' = path
  BY DEF Fill
<1>2. Now(t).op = "fill" /\ todo[t] # <<>> /\ Now(t) = Head(todo[t])
  BY <1>1 DEF Reaches, Idle, Now
<1>3. todo[t] \in Leg(path[t], <<>>)
  BY <1>2 DEF OnPath, Reaches
<1>4. Ends(Now(t)) = path[t]
  <2>1. Place(Now(t)) = path[t]
    BY <1>1, Where
  <2>2. QED
    BY <1>2, <2>1 DEF Ends
<1>5. Tail(todo[t]) \in Seq(Steps)
  BY <1>1, NowTyped
<1>6. todo'[t] = Tail(todo[t])
  BY <1>1, <1>5 DEF Goes, TypeOK
<1>7. CASE Tail(todo[t]) \in Leg(Ends(Now(t)), <<>>)
  BY <1>1, <1>4, <1>6, <1>7 DEF OnPath
<1>8. CASE /\ Tail(todo[t]) # <<>> /\ Head(Tail(todo[t])).op = "push"
           /\ Place(Head(Tail(todo[t]))) = Ends(Now(t))
           /\ Tail(Tail(todo[t])) \in Leg(Ends(Now(t)), <<>>)
  BY <1>1, <1>4, <1>6, <1>8 DEF OnPath, Reaches, Idle, Now
<1>9. QED
  BY <1>2, <1>3, <1>7, <1>8, TailLeg

(* A packet that a thread is about to push is not touched by the others.   *)
LEMMA HoldsSrpc ==
  ASSUME TypeOK, NEW t \in Threads, OnPath(t), NEW op \in SrpcOps,
         Reaches(t, op)
  PROVE  "srpc" \in Held(t)
<1>1. path[t] = Append(Now(t).path, "srpc")
  <2>1. op # "to" /\ Now(t).op \in SrpcOps
    BY DEF SrpcOps, Reaches
  <2>2. Place(Now(t)) = Append(Now(t).path, "srpc")
    BY <2>1 DEF Place
  <2>3. QED
    BY <2>1, <2>2, Where
<1>2. Now(t).path \in Seq(Locks)
  BY NowTyped, Kinds DEF SrpcOps, RootOps, UnderOps, Roots, Under
<1>3. Len(path[t]) \in DOMAIN path[t] /\ path[t][Len(path[t])] = "srpc"
  BY <1>1, <1>2
<1>4. QED
  BY <1>3 DEF Held

LEMMA OthersOnPath ==
  ASSUME TypeOK, Exclusive, NEW t \in Threads, OnPath(t),
         NEW u \in Threads, t # u, OnPath(u),
         todo'[u] = todo[u], path'[u] = path[u],
         sdp' = sdp \/ \E op \in SrpcOps : Reaches(t, op)
  PROVE  OnPath(u)'
<1>1. CASE todo[u] \in Leg(path[u], <<>>)
  BY <1>1 DEF OnPath
<1>2. CASE /\ Reaches(u, "push") /\ Place(Now(u)) = path[u] /\ sdp = "call"
           /\ Tail(todo[u]) \in Leg(path[u], <<>>)
  <2>1. "srpc" \in Held(u)
    BY <1>2, HoldsSrpc DEF SrpcOps
  <2>2. sdp' = sdp
    BY <2>1, HoldsSrpc DEF Exclusive
  <2>3. QED
    BY <1>2, <2>2 DEF OnPath, Reaches, Idle, Now
<1>3. QED
  BY <1>1, <1>2 DEF OnPath

LEMMA LockOnPath ==
  ASSUME TypeOK, NEW t \in Threads, OnPath(t), Lock(t) \/ Unlock(t)
  PROVE  OnPath(t)' /\ sdp' = sdp /\ \A u \in Threads \ {t} : path'[u] = path[u]
<1>1. Reaches(t, "to") /\ Goes(t, <<>>) /\ sdp' = sdp
  BY DEF Lock, Unlock, Wants, srpc
<1>2. path' = [path EXCEPT ![t] = Now(t).path]
  BY DEF Lock, Unlock, Wants
<1>3. Ends(Now(t)) = Now(t).path
  BY <1>1 DEF Ends, Reaches
<1>4. /\ path'[t] = Now(t).path
      /\ \A u \in Threads \ {t} : path'[u] = path[u]
  BY <1>2 DEF TypeOK
<1>5. <<>> \in Leg(path'[t], Ends(Now(t)))
  BY <1>3, <1>4, Nothing, Typed
<1>6. QED
  BY <1>1, <1>4, <1>5, MovesOn

LEMMA CallOnPath ==
  ASSUME TypeOK, NEW t \in Threads, OnPath(t), Call(t)
  PROVE  OnPath(t)'
<1>1. Idle(t) /\ path' = path
  BY DEF Call
<1>2. path[t] = <<>>
  BY <1>1 DEF OnPath, Leg, Reaches, Idle
<1>3. todo'[t] \in Leg(<<>>, <<>>)
  BY CallGoes DEF TypeOK
<1>4. QED
  BY <1>1, <1>2, <1>3 DEF OnPath

(* The other actions leave their thread where it is.                       *)
Acts(t) ==
  \/ Loop(t) \/ Find(t) \/ Count(t) \/ Add(t) \/ Insert(t) \/ Header(t)
  \/ Row(t) \/ Describe(t) \/ Callback(t) \/ Tick(t) \/ Handle(t)
  \/ Functions(t) \/ IfFound(t) \/ Push(t) \/ Pop(t) \/ Receive(t) \/ GetData(t)

LEMMA ActsGo ==
  ASSUME TypeOK, NEW t \in Threads, Acts(t)
  PROVE  /\ GoesOn(t) /\ path' = path
         /\ \E op : /\ Reaches(t, op) /\ op \notin {"to", "fill"}
                    /\ op \in SrpcOps \/ sdp' = sdp
<1>1. CASE \/ Find(t) \/ Count(t) \/ Insert(t) \/ Header(t) \/ Push(t) \/ Pop(t)
           \/ GetData(t)
  <2>1. PICK op \in {"find", "count", "insert", "header", "push", "pop", "getdata"} :
          Reaches(t, op) /\ Goes(t, <<>>)
    BY <1>1 DEF Find, Count, Insert, Header, Push, Pop, GetData
  <2>2. GoesFreely(t)
    BY <2>1, OffFreely
  <2>3. path' = path /\ (op \in SrpcOps \/ sdp' = sdp)
    BY <1>1, <2>1 DEF Find, Count, Insert, Header, Push, Pop, GetData, SrpcOps,
                      srpc, Reaches
  <2>4. QED
    BY <2>1, <2>2, <2>3, FreelyOn
<1>2. CASE Loop(t) \/ Add(t) \/ Row(t) \/ Describe(t) \/ Callback(t) \/ Tick(t)
           \/ Handle(t) \/ Functions(t) \/ IfFound(t)
  <2>1. GoesOn(t)
    BY <1>2, LoopGoes, AddGoes, RowGoes, DescribeGoes, CallbackGoes, TickGoes,
       HandleGoes, FunctionsGoes, IfFoundGoes, FreelyOn
  <2>2. \E op \in LoopOps \cup {"add", "row", "describe", "callback", "tick",
                             "handle", "functions", "function", "set value"} :
          Reaches(t, op)
    BY <1>2 DEF Loop, Add, Row, Describe, Callback, Tick, Handle, Functions,
                IfFound
  <2>3. path' = path /\ sdp' = sdp
    BY <1>2 DEF Loop, Add, Row, Describe, Callback, Tick, Handle, Functions,
                IfFound, srpc
  <2>4. QED
    BY <2>1, <2>2, <2>3 DEF LoopOps
<1>3. CASE Receive(t)
  <2>1. Reaches(t, "receive") /\ path' = path
    BY <1>3 DEF Receive
  <2>2. QED
    BY <1>3, <2>1, ReceiveGoes DEF SrpcOps
<1>4. QED
  BY <1>1, <1>2, <1>3 DEF Acts

LEMMA OthersSteps ==
  ASSUME TypeOK, NEW t \in Threads, NEW u \in Threads, t # u,
         Call(t) \/ Lock(t) \/ Unlock(t) \/ Fill(t) \/ Acts(t)
  PROVE  todo'[u] = todo[u]
<1>1. CASE Call(t)
  BY <1>1 DEF Call, TypeOK
<1>2. CASE Lock(t) \/ Unlock(t) \/ Fill(t) \/ Acts(t)
  <2>1. \E steps : Goes(t, steps)
    BY <1>2, ActsGo DEF Lock, Unlock, Fill, GoesOn
  <2>2. QED
    BY <2>1 DEF Goes, TypeOK
<1>3. QED
  BY <1>1, <1>2

LEMMA StepHolds == IInv /\ [Next]_vars => IInv'
<1> SUFFICES ASSUME IInv, [Next]_vars PROVE IInv'
  OBVIOUS
<1>1. TypeOK /\ Exclusive /\ \A t \in Threads : OnPath(t)
  BY DEF IInv
<1>2. CASE UNCHANGED vars
  <2>1. TypeOK'
    BY <1>1, <1>2 DEF TypeOK, vars, lists, locals, srpc
  <2>2. \A t \in Threads : OnPath(t)'
    BY <1>1, <1>2 DEF OnPath, Reaches, Idle, Now, vars, srpc
  <2>3. QED
    BY <1>1, <1>2, <2>1, <2>2, OthersExclusive DEF IInv, vars
<1>3. ASSUME NEW t \in Threads,
             Call(t) \/ Lock(t) \/ Unlock(t) \/ Fill(t) \/ Acts(t)
      PROVE  IInv'
  <2>1. TypeOK'
    BY <1>1, <1>3, CallTyped, LockTyped, UnlockTyped, LoopTyped, FindTyped,
       CountTyped, AddTyped, InsertTyped, HeaderTyped, RowTyped, DescribeTyped,
       ChoiceTyped, QueuesTyped, ReceiveTyped DEF Acts
  <2>2. Exclusive'
    <3>1. CASE Lock(t) \/ Unlock(t)
      BY <1>1, <3>1, LockExclusive, UnlockExclusive
    <3>2. CASE Call(t) \/ Fill(t) \/ Acts(t)
      <4>1. UNCHANGED path
        BY <1>1, <3>2, ActsGo DEF Call, Fill
      <4>2. QED
        BY <1>1, <4>1, OthersExclusive
    <3>3. QED
      BY <1>3, <3>1, <3>2
  <2>3. OnPath(t)'
    BY <1>1, <1>3, CallOnPath, LockOnPath, FillOnPath, ActsGo, GoesOnPath
  <2>4. ASSUME NEW u \in Threads, t # u PROVE OnPath(u)'
    <3>1. todo'[u] = todo[u]
      BY <1>1, <1>3, <2>4, OthersSteps
    <3>2. path'[u] = path[u]
      BY <1>1, <1>3, <2>4, LockOnPath, ActsGo DEF Call, Fill
    <3>3. sdp' = sdp \/ \E op \in SrpcOps : Reaches(t, op)
      BY <1>1, <1>3, LockOnPath, ActsGo DEF Call, Fill, SrpcOps, srpc
    <3>4. QED
      BY <1>1, <2>4, <3>1, <3>2, <3>3, OthersOnPath
  <2>5. QED
    BY <2>1, <2>2, <2>3, <2>4 DEF IInv
<1>4. QED
  BY <1>2, <1>3 DEF Next, Acts

(* A thread that holds a lock and waits for another holds the device's.    *)
LEMMA WaitsUnderDevice ==
  ASSUME TypeOK, NEW u \in Threads, NEW l, Held(u) # {}, Wants(u, l)
  PROVE  "dev" \in Held(u)
<1>1. path[u] \in Seq(Locks) /\ path[u] # <<>>
  <2>1. path[u] \in Seq(Locks)
    BY DEF TypeOK, Nests
  <2>2. path[u] # <<>>
    BY DEF Held
  <2>3. QED
    BY <2>1, <2>2
<1>2. Append(path[u], l) \in Nests
  BY NowTyped, Kinds DEF Wants
<1>3. Len(Append(path[u], l)) > 1 /\ Append(path[u], l)[1] = path[u][1]
  BY <1>1
<1>4. path[u][1] = "dev" /\ 1 \in DOMAIN path[u]
  <2>1. Append(path[u], l)[1] = "dev"
    BY <1>2, <1>3 DEF Nests
  <2>2. 1 \in DOMAIN path[u]
    BY <1>1
  <2>3. QED
    BY <1>3, <2>1, <2>2
<1>5. QED
  BY <1>4 DEF Held

LEMMA NoCircle == IInv => NoCircularWait
<1> SUFFICES ASSUME IInv, NEW S \in SUBSET Threads, S # {},
                    \A t \in S : \E u \in S : WaitsFor(t, u)
             PROVE  FALSE
  BY DEF NoCircularWait
<1>1. PICK t \in S : TRUE
  OBVIOUS
<1>2. PICK u \in S : WaitsFor(t, u)
  BY <1>1
<1>3. PICK v \in S : WaitsFor(u, v)
  BY <1>2
<1>4. PICK w \in S : WaitsFor(v, w)
  BY <1>3
<1>5. "dev" \in Held(u)
  BY <1>2, <1>3, WaitsUnderDevice DEF WaitsFor, IInv
<1>6. "dev" \in Held(v)
  BY <1>3, <1>4, WaitsUnderDevice DEF WaitsFor, IInv
<1>7. QED
  BY <1>3, <1>5, <1>6 DEF IInv, Exclusive, WaitsFor

-----------------------------------------------------------------------------
(* TypeCorrect: wherever a thread is, it holds at most one lock or has     *)
(* taken the device's first, and what it has yet to take, in the functions *)
(* of device.c, channel.c and srpc.c that it is in, keeps to that.         *)
THEOREM TypeCorrect == Spec => []TypeOK
<1>1. IInv => TypeOK
  BY DEF IInv
<1>2. QED
  BY <1>1, InitHolds, StepHolds, PTL DEF Spec

(* NeverWaitInACircle: no number of threads that iterate the device, call  *)
(* its functions, add channels and get callbacks can wait for each other's *)
(* locks in a circle, though the channels' and the srpc's have no order.   *)
THEOREM NeverWaitInACircle == Spec => []NoCircularWait
<1>1. QED
  BY InitHolds, StepHolds, NoCircle, PTL DEF Spec

(* NoLockKept: whatever calls are nested in each other, a thread that has  *)
(* returned from all of them holds no lock: each lck_lock on the way has   *)
(* had its lck_unlock, on every branch.                                    *)
THEOREM NoLockKept == Spec => [](\A t \in Threads : Idle(t) => Held(t) = {})
<1>1. IInv => \A t \in Threads : Idle(t) => Held(t) = {}
  BY DEF IInv, OnPath, Leg, Reaches, Idle, Held
<1>2. QED
  BY <1>1, InitHolds, StepHolds, PTL DEF Spec
=============================================================================
