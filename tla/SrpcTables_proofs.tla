------------------------- MODULE SrpcTables_proofs --------------------------
(***************************************************************************)
(* What the tables of SrpcMessages say of every call, on every machine:    *)
(* the form in which srpc.c writes it and the one in which it reads it, how *)
(* large it can be, and that what one end writes the other can read.       *)
(*                                                                         *)
(* Async(call) and GetData(call) are found part of the table by part: each *)
(* part says what it says of its own calls and skips the others.           *)
(***************************************************************************)
EXTENDS SrpcCalls, SequenceTheorems, WellFoundedInduction, TLAPS

-----------------------------------------------------------------------------
(***************************************************************************)
(* Sums of sequences                                                       *)
(*                                                                         *)
(* A pack is as large as its items together. Total is a fold over the      *)
(* sizes, which is not to be unfolded for a sequence of any length: what   *)
(* is proved of it rests on the sums of its first items, one after the     *)
(* other.                                                                  *)
(***************************************************************************)

(* Induction over 0..n, and functions defined along it. *)
LEMMA LeastNat ==
  ASSUME NEW T \in SUBSET Nat, T # {}
  PROVE  \E x \in T : \A y \in T : x <= y
<1>1. PICK x \in T : \A y \in T : ~(<<y, x>> \in OpToRel(<, Nat))
  BY NatLessThanWellFounded, WFMin
<1>2. \A y \in T : y \in Nat /\ x \in Nat /\ ~(y < x)
  BY <1>1 DEF OpToRel
<1> QED
  BY <1>2

(* Induction along 0..n, from the least number.                             *)
LEMMA Climbing ==
  ASSUME NEW n \in Nat, NEW T, 0 \in T,
         \A i \in 1 .. n : i - 1 \in T => i \in T
  PROVE  \A i \in 0 .. n : i \in T
<1> DEFINE Missing == {i \in 0 .. n : i \notin T}
<1>1. SUFFICES ASSUME Missing # {} PROVE FALSE
  OBVIOUS
<1>2. PICK i \in Missing : \A j \in Missing : i <= j
  <2>1. Missing \in SUBSET Nat
    OBVIOUS
  <2> HIDE DEF Missing
  <2> QED
    BY <1>1, <2>1, LeastNat
<1>3. i \in 1 .. n /\ i - 1 \in 0 .. n /\ i \notin T
  BY <1>2
<1>4. i - 1 \in T
  BY <1>2, <1>3
<1> QED
  BY <1>3, <1>4

(* A function that is defined step by step along 0..n exists.               *)
LEMMA Iterates ==
  ASSUME NEW n \in Nat, NEW S, NEW z \in S,
         NEW G \in [(1 .. n) \X S -> S]
  PROVE  \E f \in [0 .. n -> S] :
             f[0] = z /\ \A i \in 1 .. n : f[i] = G[<<i, f[i - 1]>>]
<1> DEFINE Upto(k, f) ==
             /\ f[0] = z
             /\ \A i \in 1 .. k : f[i] = G[<<i, f[i - 1]>>]
           T == {k \in 0 .. n : \E f \in [0 .. n -> S] : Upto(k, f)}
<1>1. 0 \in T
  <2>1. [i \in 0 .. n |-> z] \in [0 .. n -> S] /\ Upto(0, [i \in 0 .. n |-> z])
    OBVIOUS
  <2>2. 0 \in 0 .. n
    OBVIOUS
  <2> HIDE DEF Upto
  <2> QED
    BY <2>1, <2>2
<1>2. ASSUME NEW k \in 1 .. n, k - 1 \in T PROVE k \in T
  <2>1. PICK f \in [0 .. n -> S] : Upto(k - 1, f)
    BY <1>2
  <2> DEFINE g == [f EXCEPT ![k] = G[<<k, f[k - 1]>>]]
  <2>2. G[<<k, f[k - 1]>>] \in S
    OBVIOUS
  <2>3. g \in [0 .. n -> S]
    BY <2>2
  <2>4. Upto(k, g)
    <3>1. \A i \in 0 .. n : i # k => g[i] = f[i]
      OBVIOUS
    <3>2. g[k] = G[<<k, f[k - 1]>>]
      OBVIOUS
    <3> HIDE DEF g
    <3>3. g[0] = z
      BY <2>1, <3>1
    <3>4. ASSUME NEW i \in 1 .. k PROVE g[i] = G[<<i, g[i - 1]>>]
      <4>1. i - 1 \in 0 .. n /\ i - 1 # k /\ i \in 0 .. n
        OBVIOUS
      <4>2. g[i - 1] = f[i - 1]
        BY <3>1, <4>1
      <4>3. CASE i = k
        BY <3>2, <4>2, <4>3
      <4>4. CASE i # k
        <5>1. i \in 1 .. k - 1
          BY <4>4
        <5> QED
          BY <2>1, <3>1, <4>1, <4>2, <4>4, <5>1
      <4> QED
        BY <4>3, <4>4
    <3> QED
      BY <3>3, <3>4
  <2> HIDE DEF g, Upto
  <2> QED
    BY <2>3, <2>4
<1>3. n \in T
  <2> HIDE DEF T
  <2>1. \A i \in 0 .. n : i \in T
    BY <1>1, <1>2, Climbing
  <2> QED
    BY <2>1
<1> QED
  BY <1>3

(* The functions that go along 0..n, and the ways of going a step. *)
Ways(n, S) == [(1 .. n) \X S -> S]
Follows(f, n, z, G) == f[0] = z /\ \A i \in 1 .. n : f[i] = G[<<i, f[i - 1]>>]
Leads(n, S, z, G) == \E f \in [0 .. n -> S] : Follows(f, n, z, G)

LEMMA IteratesAll ==
  \A n \in Nat : \A S : \A z \in S : \A G \in Ways(n, S) : Leads(n, S, z, G)
  BY Iterates DEF Ways, Leads, Follows

(* The sums of the first items of a sequence: Total is the last of them. *)
Sums(s) ==
    CHOOSE sum : sum = [i \in 0 .. Len(s) |->
                            IF i = 0 THEN 0 ELSE sum[i - 1] + s[i]]

(* The total of the model is the last of the sums.                          *)
LEMMA TotalIsSum ==
  ASSUME NEW b, NEW s
  PROVE  Wire(b)!Total(s) = Sums(s)[Len(s)] /\ Values(b)!Total(s) = Sums(s)[Len(s)]
  BY DEF Wire!Total, Values!Total, Sums

LEMMA SumsAre ==
  ASSUME NEW s \in Seq(Nat)
  PROVE  /\ Sums(s)[0] = 0
         /\ \A i \in 1 .. Len(s) : Sums(s)[i] = Sums(s)[i - 1] + s[i]
         /\ \A i \in 0 .. Len(s) : Sums(s)[i] \in Nat
<1> DEFINE n == Len(s)
           G == [p \in (1 .. n) \X Nat |-> p[2] + s[p[1]]]
           IsSum(f) == f = [i \in 0 .. n |-> IF i = 0 THEN 0 ELSE f[i - 1] + s[i]]
<1>0. n \in Nat /\ \A i \in 1 .. n : s[i] \in Nat
  OBVIOUS
<1>1. PICK f \in [0 .. n -> Nat] :
          f[0] = 0 /\ \A i \in 1 .. n : f[i] = G[<<i, f[i - 1]>>]
  <2>1. G \in [(1 .. n) \X Nat -> Nat] /\ 0 \in Nat
    BY <1>0
  <2>2. G \in Ways(n, Nat)
    BY <2>1 DEF Ways
  <2>3. Leads(n, Nat, 0, G)
    <3> HIDE DEF n, G
    <3> QED
      BY <1>0, <2>1, <2>2, IteratesAll, Zenon
  <2> HIDE DEF n, G
  <2> QED
    BY <2>3 DEF Leads, Follows
<1>2. IsSum(f)
  <2>1. ASSUME NEW i \in 1 .. n
        PROVE  G[<<i, f[i - 1]>>] = f[i - 1] + s[i]
    <3>1. f[i - 1] \in Nat
      BY <1>0
    <3> QED
      BY <3>1
  <2>2. f = [i \in 0 .. n |-> f[i]]
    BY <1>1
  <2>3. ASSUME NEW i \in 0 .. n
        PROVE  f[i] = IF i = 0 THEN 0 ELSE f[i - 1] + s[i]
    <3>1. CASE i = 0
      BY <1>1, <3>1
    <3>2. CASE i # 0
      <4>1. i \in 1 .. n
        BY <1>0, <3>2
      <4> HIDE DEF G
      <4> QED
        BY <1>1, <2>1, <3>2, <4>1
    <3> QED
      BY <3>1, <3>2
  <2> HIDE DEF G, n
  <2> QED
    BY <2>2, <2>3
<1>3. IsSum(Sums(s))
  <2> HIDE DEF IsSum
  <2>1. Sums(s) = CHOOSE sum : IsSum(sum)
    BY DEF Sums, IsSum
  <2> QED
    BY <1>2, <2>1
<1>4. Sums(s)[0] = 0 /\ \A i \in 1 .. n : Sums(s)[i] = Sums(s)[i - 1] + s[i]
  BY <1>0, <1>3
<1> DEFINE T == {i \in 0 .. n : Sums(s)[i] \in Nat}
<1>5. 0 \in T /\ \A i \in 1 .. n : i - 1 \in T => i \in T
  <2>1. 0 \in T
    BY <1>0, <1>4
  <2>2. ASSUME NEW i \in 1 .. n, i - 1 \in T PROVE i \in T
    <3>1. i \in 0 .. n /\ s[i] \in Nat /\ Sums(s)[i - 1] \in Nat
      BY <1>0, <2>2
    <3>2. Sums(s)[i] = Sums(s)[i - 1] + s[i]
      BY <1>4
    <3> QED
      BY <3>1, <3>2
  <2> QED
    BY <2>1, <2>2
<1>6. \A i \in 0 .. n : i \in T
  <2> HIDE DEF T, n
  <2> QED
    BY <1>0, <1>5, Climbing
<1> QED
  BY <1>4, <1>6

LEMMA TimesGrows ==
  \A a, b, k \in Nat : a <= b => a * k <= b * k
<1> SUFFICES ASSUME NEW a \in Nat, NEW b \in Nat, NEW k \in Nat, a <= b
             PROVE  a * k <= b * k
  OBVIOUS
<1>1. PICK d \in Nat : b = a + d
  <2>1. b - a \in Nat /\ b = a + (b - a)
    OBVIOUS
  <2> QED
    BY <2>1
<1>2. b * k = a * k + d * k /\ a * k \in Nat /\ d * k \in Nat
  BY <1>1
<1> QED
  BY <1>2

(* Of numbers, each at most k, the sum is at most k times their number.     *)
LEMMA SumsBounded ==
  ASSUME NEW s \in Seq(Nat), NEW k \in Nat,
         \A i \in 1 .. Len(s) : s[i] <= k
  PROVE  Sums(s)[Len(s)] <= Len(s) * k
<1>0. Len(s) \in Nat /\ \A i \in 1 .. Len(s) : s[i] \in Nat
  OBVIOUS
<1> DEFINE T == {i \in 0 .. Len(s) : Sums(s)[i] <= i * k}
<1>1. 0 \in T
  BY <1>0, SumsAre
<1>2. ASSUME NEW i \in 1 .. Len(s), i - 1 \in T PROVE i \in T
  <2>1. Sums(s)[i] = Sums(s)[i - 1] + s[i] /\ Sums(s)[i - 1] \in Nat /\ s[i] <= k
        /\ Sums(s)[i - 1] <= (i - 1) * k
    BY <1>0, <1>2, SumsAre
  <2>2. i * k = (i - 1) * k + k
    BY <1>0
  <2>3. (i - 1) * k \in Nat /\ i * k \in Nat
    BY <1>0
  <2> QED
    BY <1>0, <2>1, <2>2, <2>3
<1>3. \A i \in 0 .. Len(s) : i \in T
  <2> HIDE DEF T
  <2> QED
    BY <1>0, <1>1, <1>2, Climbing
<1> QED
  BY <1>0, <1>3

(* The sum of the first few is the same, whatever follows.                  *)
LEMMA SumsAgree ==
  ASSUME NEW s \in Seq(Nat), NEW t \in Seq(Nat), Len(t) <= Len(s),
         \A i \in 1 .. Len(t) : t[i] = s[i]
  PROVE  \A i \in 0 .. Len(t) : Sums(t)[i] = Sums(s)[i]
<1>0. Len(s) \in Nat /\ Len(t) \in Nat /\ \A i \in 1 .. Len(s) : s[i] \in Nat
  OBVIOUS
<1> DEFINE T == {i \in 0 .. Len(t) : Sums(t)[i] = Sums(s)[i]}
<1>1. 0 \in T
  BY <1>0, SumsAre
<1>2. ASSUME NEW i \in 1 .. Len(t), i - 1 \in T PROVE i \in T
  <2>1. i \in 1 .. Len(s)
    BY <1>0
  <2> QED
    BY <1>0, <1>2, <2>1, SumsAre
<1>3. \A i \in 0 .. Len(t) : i \in T
  <2> HIDE DEF T
  <2> QED
    BY <1>0, <1>1, <1>2, Climbing
<1> QED
  BY <1>3

(* The sum of the first few is at most the sum of all.                      *)
LEMMA SumsOfPart ==
  ASSUME NEW s \in Seq(Nat), NEW t \in Seq(Nat), Len(t) <= Len(s),
         \A i \in 1 .. Len(t) : t[i] = s[i]
  PROVE  Sums(t)[Len(t)] <= Sums(s)[Len(s)]
<1>0. Len(s) \in Nat /\ Len(t) \in Nat /\ \A i \in 1 .. Len(s) : s[i] \in Nat
  OBVIOUS
<1> DEFINE U == {i \in 0 .. Len(s) - Len(t) :
                    Sums(s)[Len(t)] <= Sums(s)[Len(t) + i]}
<1>3. Sums(t)[Len(t)] = Sums(s)[Len(t)]
  BY <1>0, SumsAgree
<1>4. 0 \in U
  BY <1>0, SumsAre
<1>5. ASSUME NEW i \in 1 .. Len(s) - Len(t), i - 1 \in U PROVE i \in U
  <2>1. Len(t) + i \in 1 .. Len(s) /\ Len(t) + (i - 1) = (Len(t) + i) - 1
    BY <1>0
  <2>2. Sums(s)[Len(t) + i] = Sums(s)[(Len(t) + i) - 1] + s[Len(t) + i]
        /\ s[Len(t) + i] \in Nat
    BY <1>0, <2>1, SumsAre
  <2>3. (Len(t) + i) - 1 \in 0 .. Len(s) /\ Len(t) \in 0 .. Len(s)
    BY <1>0, <2>1
  <2>4. Sums(s)[(Len(t) + i) - 1] \in Nat /\ Sums(s)[Len(t)] \in Nat
    BY <2>3, SumsAre
  <2>5. Sums(s)[Len(t)] <= Sums(s)[(Len(t) + i) - 1]
    BY <1>5, <2>1
  <2> QED
    BY <2>2, <2>4, <2>5, <1>0
<1>6. Len(s) - Len(t) \in U
  <2>1. Len(s) - Len(t) \in Nat
    BY <1>0
  <2>2. \A i \in 0 .. Len(s) - Len(t) : i \in U
    <3> HIDE DEF U
    <3> QED
      BY <2>1, <1>4, <1>5, Climbing
  <2>3. Len(s) - Len(t) \in 0 .. Len(s) - Len(t)
    BY <2>1
  <2> HIDE DEF U
  <2> QED
    BY <2>2, <2>3
<1>7. Len(t) + (Len(s) - Len(t)) = Len(s)
  BY <1>0
<1> QED
  BY <1>0, <1>3, <1>6, <1>7

(* What srpc_set_pack leaves of the captions: no more, and none too long.   *)
Keeps(caps, max) ==
    CHOOSE kept : kept = [i \in 0 .. Len(caps) |->
                             IF i = 0 THEN <<>>
                             ELSE IF caps[i] <= max THEN Append(kept[i - 1], caps[i])
                             ELSE kept[i - 1]]

(* Kept is the last of the sequences kept on the way.                       *)
LEMMA KeptIsLast ==
  ASSUME NEW b, NEW caps, NEW max
  PROVE  Wire(b)!Kept(caps, max) = Keeps(caps, max)[Len(caps)]
  BY DEF Wire!Kept, Keeps

LEMMA KeptFits ==
  ASSUME NEW b, NEW caps \in Seq(Nat), NEW max \in Nat
  PROVE  /\ Wire(b)!Kept(caps, max) \in Seq(0 .. max)
         /\ Len(Wire(b)!Kept(caps, max)) <= Len(caps)
<1> DEFINE n == Len(caps)
           S == Seq(0 .. max)
           step(i, q) == IF caps[i] <= max THEN Append(q, caps[i]) ELSE q
           G == [p \in (1 .. n) \X S |-> step(p[1], p[2])]
           IsKept(f) == f = [i \in 0 .. n |->
                                IF i = 0 THEN <<>>
                                ELSE IF caps[i] <= max
                                       THEN Append(f[i - 1], caps[i])
                                ELSE f[i - 1]]
<1>0. n \in Nat /\ \A i \in 1 .. n : caps[i] \in Nat
  OBVIOUS
<1>00. \A i \in 1 .. n : \A q \in S :
          step(i, q) \in S /\ Len(step(i, q)) <= Len(q) + 1
  <2> SUFFICES ASSUME NEW i \in 1 .. n, NEW q \in S
               PROVE  step(i, q) \in S /\ Len(step(i, q)) <= Len(q) + 1
    OBVIOUS
  <2>1. caps[i] \in Nat /\ Len(q) \in Nat
    BY <1>0
  <2>2. CASE caps[i] <= max
    <3>1. caps[i] \in 0 .. max
      BY <2>1, <2>2
    <3>2. step(i, q) = Append(q, caps[i])
      BY <2>2
    <3>3. Append(q, caps[i]) \in S /\ Len(Append(q, caps[i])) = Len(q) + 1
      BY <3>1
    <3> HIDE DEF step, S
    <3> QED
      BY <3>2, <3>3, <2>1
  <2>3. CASE ~(caps[i] <= max)
    BY <2>1, <2>3
  <2> QED
    BY <2>2, <2>3
<1>1. PICK f \in [0 .. n -> S] :
          f[0] = <<>> /\ \A i \in 1 .. n : f[i] = G[<<i, f[i - 1]>>]
  <2>1. G \in Ways(n, S)
    <3> HIDE DEF step, S, n
    <3> QED
      BY <1>00 DEF Ways
  <2>2. <<>> \in S
    OBVIOUS
  <2>3. Leads(n, S, <<>>, G)
    <3> HIDE DEF n, G, S
    <3> QED
      BY <1>0, <2>1, <2>2, IteratesAll, Zenon
  <2> HIDE DEF n, G, S
  <2> QED
    BY <2>3 DEF Leads, Follows
<1>2. \A i \in 1 .. n : f[i - 1] \in S /\ f[i] = step(i, f[i - 1])
  <2> SUFFICES ASSUME NEW i \in 1 .. n
               PROVE  f[i - 1] \in S /\ f[i] = step(i, f[i - 1])
    OBVIOUS
  <2>1. i - 1 \in 0 .. n
    BY <1>0
  <2> HIDE DEF step, S, n
  <2>2. f[i - 1] \in S
    BY <2>1, <1>1
  <2> QED
    BY <2>2, <1>1
<1> HIDE DEF G
<1>3. IsKept(f)
  <2>1. f = [i \in 0 .. n |-> f[i]]
    BY <1>1
  <2>2. ASSUME NEW i \in 0 .. n
        PROVE  f[i] = IF i = 0 THEN <<>>
                      ELSE IF caps[i] <= max THEN Append(f[i - 1], caps[i])
                      ELSE f[i - 1]
    <3>1. CASE i = 0
      BY <1>1, <3>1
    <3>2. CASE i # 0
      <4>1. i \in 1 .. n
        BY <1>0, <3>2
      <4> HIDE DEF S, n
      <4> QED
        BY <1>2, <3>2, <4>1
    <3> QED
      BY <3>1, <3>2
  <2> HIDE DEF n
  <2> QED
    BY <2>1, <2>2
<1>4. IsKept(Keeps(caps, max))
  <2> HIDE DEF IsKept
  <2>1. Keeps(caps, max) = CHOOSE kept : IsKept(kept)
    BY DEF Keeps, IsKept
  <2> QED
    BY <1>3, <2>1
<1> DEFINE g == Keeps(caps, max)
<1>5. g[0] = <<>> /\ \A i \in 1 .. n : g[i] = step(i, g[i - 1])
  <2> HIDE DEF g
  <2>1. IsKept(g)
    BY <1>4 DEF g
  <2>2. g[0] = <<>>
    BY <1>0, <2>1
  <2>3. ASSUME NEW i \in 1 .. n PROVE g[i] = step(i, g[i - 1])
    <3>1. i \in 0 .. n /\ i # 0
      BY <1>0
    <3> QED
      BY <2>1, <3>1
  <2> QED
    BY <2>2, <2>3
<1> DEFINE T == {i \in 0 .. n : g[i] \in S /\ Len(g[i]) <= i}
<1>6. 0 \in T
  <2>1. <<>> \in S /\ Len(<<>>) = 0 /\ 0 \in 0 .. n
    BY <1>0
  <2> HIDE DEF g, S, n
  <2> QED
    BY <2>1, <1>5
<1>7. ASSUME NEW i \in 1 .. n, i - 1 \in T PROVE i \in T
  <2>1. g[i - 1] \in S /\ Len(g[i - 1]) <= i - 1 /\ g[i] = step(i, g[i - 1])
    BY <1>5, <1>7
  <2> HIDE DEF step, g
  <2>2. g[i] \in S /\ Len(g[i]) <= Len(g[i - 1]) + 1
    BY <2>1, <1>00
  <2>3. Len(g[i]) \in Nat /\ Len(g[i - 1]) \in Nat /\ i \in Nat
    BY <2>1, <2>2, <1>0
  <2>4. Len(g[i]) <= i /\ i \in 0 .. n
    BY <2>1, <2>2, <2>3, <1>0
  <2> QED
    BY <2>2, <2>4
<1>8. n \in T
  <2>1. \A i \in 0 .. n : i \in T
    <3> HIDE DEF T, n
    <3> QED
      BY <1>0, <1>6, <1>7, Climbing
  <2> QED
    BY <1>0, <2>1
<1> QED
  BY <1>8, KeptIsLast

-----------------------------------------------------------------------------
(***************************************************************************)
(* The numbers of the calls                                                *)
(*                                                                         *)
(* proto.h numbers them once; every instance of SrpcMessages has the same. *)
(***************************************************************************)

Counted(fixed, item, max) == [fixed |-> fixed, item |-> item, max |-> max]
Empty == [form |-> "none"]
Sized(S) == [form |-> "whole", sizes |-> S]
Items(l, T) == [form |-> "items", least |-> l, layout |-> T]
Packed(P, I) == [form |-> "pack", layout |-> P, item |-> I]

(* The numbers of proto.h.                                                  *)
LEMMA CallNumbers ==
    /\ DCS.GETVERSION = 10 /\ DCS.PING_SERVER = 40
    /\ DCS.SET_ACTIVITY_TIMEOUT = 210 /\ DCS.GET_REGISTRATION_ENABLED = 320
    /\ DCS.GET_USER_LOCALTIME = 480 /\ DCS.GET_USER_LOCALTIME_RESULT = 490
    /\ DCS.SET_CHANNEL_CAPTION = 640
    /\ SDC.GETVERSION_RESULT = 20 /\ SDC.VERSIONERROR = 30
    /\ SDC.PING_SERVER_RESULT = 50 /\ SDC.SET_ACTIVITY_TIMEOUT_RESULT = 220
    /\ SDC.GET_REGISTRATION_ENABLED_RESULT = 330
    /\ DS.REGISTER_DEVICE = 60 /\ DS.REGISTER_DEVICE_B = 65
    /\ DS.REGISTER_DEVICE_C = 67 /\ DS.REGISTER_DEVICE_D = 68
    /\ DS.REGISTER_DEVICE_E = 69 /\ DS.REGISTER_DEVICE_F = 75
    /\ DS.REGISTER_DEVICE_G = 76 /\ DS.DEVICE_CHANNEL_VALUE_CHANGED = 100
    /\ DS.DEVICE_CHANNEL_VALUE_CHANGED_B = 102
    /\ DS.DEVICE_CHANNEL_VALUE_CHANGED_C = 103
    /\ DS.DEVICE_CHANNEL_EXTENDEDVALUE_CHANGED = 105
    /\ DS.CHANNEL_SET_VALUE_RESULT = 120 /\ DS.GET_FIRMWARE_UPDATE_URL = 300
    /\ DS.DEVICE_CALCFG_RESULT = 470 /\ DS.GET_CHANNEL_FUNCTIONS = 620
    /\ DS.GET_CHANNEL_CONFIG = 680 /\ DS.SET_CHANNEL_CONFIG = 681
    /\ DS.SET_CHANNEL_CONFIG_RESULT = 692 /\ DS.SET_DEVICE_CONFIG = 684
    /\ DS.SET_DEVICE_CONFIG_RESULT = 695 /\ DS.ACTIONTRIGGER = 700
    /\ DS.REGISTER_PUSH_NOTIFICATION = 1100 /\ DS.SEND_PUSH_NOTIFICATION = 1110
    /\ DS.SET_SUBDEVICE_DETAILS = 1260
    /\ SD.REGISTER_DEVICE_RESULT = 70 /\ SD.REGISTER_DEVICE_RESULT_B = 71
    /\ SD.CHANNEL_SET_VALUE = 110 /\ SD.CHANNELGROUP_SET_VALUE = 115
    /\ SD.GET_FIRMWARE_UPDATE_URL_RESULT = 310
    /\ SD.DEVICE_CALCFG_REQUEST = 460 /\ SD.GET_CHANNEL_FUNCTIONS_RESULT = 630
    /\ SD.GET_CHANNEL_CONFIG_RESULT = 690 /\ SD.SET_CHANNEL_CONFIG_RESULT = 691
    /\ SD.SET_CHANNEL_CONFIG = 682 /\ SD.CHANNEL_CONFIG_FINISHED = 683
    /\ SD.SET_DEVICE_CONFIG_RESULT = 694 /\ SD.SET_DEVICE_CONFIG = 685
    /\ CS.REGISTER_CLIENT = 80 /\ CS.REGISTER_CLIENT_B = 85
    /\ CS.REGISTER_CLIENT_C = 86 /\ CS.REGISTER_CLIENT_D = 87
    /\ CS.GET_NEXT = 180 /\ CS.CHANNEL_SET_VALUE = 200
    /\ CS.CHANNEL_SET_VALUE_B = 205 /\ CS.OAUTH_TOKEN_REQUEST = 340
    /\ CS.SET_VALUE = 410 /\ CS.SUPERUSER_AUTHORIZATION_REQUEST = 420
    /\ CS.GET_SUPERUSER_AUTHORIZATION_RESULT = 425
    /\ CS.DEVICE_CALCFG_REQUEST = 440 /\ CS.DEVICE_CALCFG_REQUEST_B = 445
    /\ CS.GET_CHANNEL_BASIC_CFG = 520 /\ CS.SET_CHANNEL_FUNCTION = 540
    /\ CS.CLIENTS_RECONNECT_REQUEST = 560 /\ CS.SET_REGISTRATION_ENABLED = 580
    /\ CS.DEVICE_RECONNECT_REQUEST = 600 /\ CS.SET_CHANNEL_GROUP_CAPTION = 642
    /\ CS.SET_LOCATION_CAPTION = 645 /\ CS.TIMER_ARM = 800
    /\ CS.EXECUTE_ACTION = 1000 /\ CS.EXECUTE_ACTION_WITH_AUTH = 1010
    /\ CS.GET_CHANNEL_VALUE_WITH_AUTH = 1030 /\ CS.SET_SCENE_CAPTION = 1045
    /\ CS.REGISTER_PN_CLIENT_TOKEN = 1120 /\ CS.GET_CHANNEL_CONFIG = 1200
    /\ CS.SET_CHANNEL_CONFIG = 1220 /\ CS.GET_DEVICE_CONFIG = 1240
    /\ SC.REGISTER_CLIENT_RESULT = 90 /\ SC.REGISTER_CLIENT_RESULT_B = 92
    /\ SC.REGISTER_CLIENT_RESULT_C = 94 /\ SC.REGISTER_CLIENT_RESULT_D = 96
    /\ SC.LOCATION_UPDATE = 130 /\ SC.LOCATIONPACK_UPDATE = 140
    /\ SC.CHANNELPACK_UPDATE = 160 /\ SC.CHANNEL_VALUE_UPDATE = 170
    /\ SC.CHANNEL_VALUE_UPDATE_B = 171 /\ SC.EVENT = 190
    /\ SC.OAUTH_TOKEN_REQUEST_RESULT = 350 /\ SC.CHANNELPACK_UPDATE_B = 360
    /\ SC.CHANNELPACK_UPDATE_C = 361 /\ SC.CHANNELPACK_UPDATE_D = 362
    /\ SC.CHANNELPACK_UPDATE_E = 363 /\ SC.CHANNELGROUP_PACK_UPDATE = 380
    /\ SC.CHANNELGROUP_PACK_UPDATE_B = 381
    /\ SC.CHANNELGROUP_RELATION_PACK_UPDATE = 390
    /\ SC.CHANNEL_RELATION_PACK_UPDATE = 395
    /\ SC.CHANNELVALUE_PACK_UPDATE = 400 /\ SC.CHANNELVALUE_PACK_UPDATE_B = 401
    /\ SC.CHANNELEXTENDEDVALUE_PACK_UPDATE = 405
    /\ SC.CHANNEL_STATE_PACK_UPDATE = 408
    /\ SC.SUPERUSER_AUTHORIZATION_RESULT = 430 /\ SC.DEVICE_CALCFG_RESULT = 450
    /\ SC.CHANNEL_BASIC_CFG_RESULT = 530
    /\ SC.SET_CHANNEL_FUNCTION_RESULT = 550
    /\ SC.CLIENTS_RECONNECT_REQUEST_RESULT = 570
    /\ SC.SET_REGISTRATION_ENABLED_RESULT = 590
    /\ SC.DEVICE_RECONNECT_REQUEST_RESULT = 610
    /\ SC.SET_CHANNEL_GROUP_CAPTION_RESULT = 652
    /\ SC.SET_LOCATION_CAPTION_RESULT = 655 /\ SC.SCENE_PACK_UPDATE = 900
    /\ SC.SCENE_STATE_PACK_UPDATE = 910 /\ SC.ACTION_EXECUTION_RESULT = 1020
    /\ SC.GET_CHANNEL_VALUE_RESULT = 1040 /\ SC.SET_SCENE_CAPTION_RESULT = 1055
    /\ SC.REGISTER_PN_CLIENT_TOKEN_RESULT = 1121
    /\ SC.CHANNEL_CONFIG_UPDATE_OR_RESULT = 1210
    /\ SC.DEVICE_CONFIG_UPDATE_OR_RESULT = 1250
    /\ CSD.GET_CHANNEL_STATE = 500
    /\ DSC.CHANNEL_STATE_RESULT = 510
    /\ SCD.SET_CHANNEL_CAPTION_RESULT = 650
  BY DEF DCS, SDC, DS, SD, CS, SC, CSD, DSC, SCD

LEMMA SameCalls ==
  ASSUME NEW b
  PROVE  /\ Wire(b)!DCS = DCS /\ Wire(b)!SDC = SDC /\ Wire(b)!DS = DS
         /\ Wire(b)!SD = SD /\ Wire(b)!CS = CS /\ Wire(b)!SC = SC
         /\ Wire(b)!CSD = CSD /\ Wire(b)!DSC = DSC /\ Wire(b)!SCD = SCD
  BY Zenon DEF DCS, SDC, DS, SD, CS, SC, CSD, DSC, SCD, Wire!DCS, Wire!SDC,
                Wire!DS, Wire!SD, Wire!CS, Wire!SC, Wire!CSD, Wire!DSC, Wire!SCD

LEMMA WireNumbers ==
  ASSUME NEW b
  PROVE
    /\ Wire(b)!DCS.GETVERSION = 10 /\ Wire(b)!DCS.PING_SERVER = 40
    /\ Wire(b)!DCS.SET_ACTIVITY_TIMEOUT = 210
    /\ Wire(b)!DCS.GET_REGISTRATION_ENABLED = 320
    /\ Wire(b)!DCS.GET_USER_LOCALTIME = 480
    /\ Wire(b)!DCS.GET_USER_LOCALTIME_RESULT = 490
    /\ Wire(b)!DCS.SET_CHANNEL_CAPTION = 640
    /\ Wire(b)!SDC.GETVERSION_RESULT = 20 /\ Wire(b)!SDC.VERSIONERROR = 30
    /\ Wire(b)!SDC.PING_SERVER_RESULT = 50
    /\ Wire(b)!SDC.SET_ACTIVITY_TIMEOUT_RESULT = 220
    /\ Wire(b)!SDC.GET_REGISTRATION_ENABLED_RESULT = 330
    /\ Wire(b)!DS.REGISTER_DEVICE = 60 /\ Wire(b)!DS.REGISTER_DEVICE_B = 65
    /\ Wire(b)!DS.REGISTER_DEVICE_C = 67 /\ Wire(b)!DS.REGISTER_DEVICE_D = 68
    /\ Wire(b)!DS.REGISTER_DEVICE_E = 69 /\ Wire(b)!DS.REGISTER_DEVICE_F = 75
    /\ Wire(b)!DS.REGISTER_DEVICE_G = 76
    /\ Wire(b)!DS.DEVICE_CHANNEL_VALUE_CHANGED = 100
    /\ Wire(b)!DS.DEVICE_CHANNEL_VALUE_CHANGED_B = 102
    /\ Wire(b)!DS.DEVICE_CHANNEL_VALUE_CHANGED_C = 103
    /\ Wire(b)!DS.DEVICE_CHANNEL_EXTENDEDVALUE_CHANGED = 105
    /\ Wire(b)!DS.CHANNEL_SET_VALUE_RESULT = 120
    /\ Wire(b)!DS.GET_FIRMWARE_UPDATE_URL = 300
    /\ Wire(b)!DS.DEVICE_CALCFG_RESULT = 470
    /\ Wire(b)!DS.GET_CHANNEL_FUNCTIONS = 620
    /\ Wire(b)!DS.GET_CHANNEL_CONFIG = 680
    /\ Wire(b)!DS.SET_CHANNEL_CONFIG = 681
    /\ Wire(b)!DS.SET_CHANNEL_CONFIG_RESULT = 692
    /\ Wire(b)!DS.SET_DEVICE_CONFIG = 684
    /\ Wire(b)!DS.SET_DEVICE_CONFIG_RESULT = 695
    /\ Wire(b)!DS.ACTIONTRIGGER = 700
    /\ Wire(b)!DS.REGISTER_PUSH_NOTIFICATION = 1100
    /\ Wire(b)!DS.SEND_PUSH_NOTIFICATION = 1110
    /\ Wire(b)!DS.SET_SUBDEVICE_DETAILS = 1260
    /\ Wire(b)!SD.REGISTER_DEVICE_RESULT = 70
    /\ Wire(b)!SD.REGISTER_DEVICE_RESULT_B = 71
    /\ Wire(b)!SD.CHANNEL_SET_VALUE = 110
    /\ Wire(b)!SD.CHANNELGROUP_SET_VALUE = 115
    /\ Wire(b)!SD.GET_FIRMWARE_UPDATE_URL_RESULT = 310
    /\ Wire(b)!SD.DEVICE_CALCFG_REQUEST = 460
    /\ Wire(b)!SD.GET_CHANNEL_FUNCTIONS_RESULT = 630
    /\ Wire(b)!SD.GET_CHANNEL_CONFIG_RESULT = 690
    /\ Wire(b)!SD.SET_CHANNEL_CONFIG_RESULT = 691
    /\ Wire(b)!SD.SET_CHANNEL_CONFIG = 682
    /\ Wire(b)!SD.CHANNEL_CONFIG_FINISHED = 683
    /\ Wire(b)!SD.SET_DEVICE_CONFIG_RESULT = 694
    /\ Wire(b)!SD.SET_DEVICE_CONFIG = 685
    /\ Wire(b)!CS.REGISTER_CLIENT = 80 /\ Wire(b)!CS.REGISTER_CLIENT_B = 85
    /\ Wire(b)!CS.REGISTER_CLIENT_C = 86 /\ Wire(b)!CS.REGISTER_CLIENT_D = 87
    /\ Wire(b)!CS.GET_NEXT = 180 /\ Wire(b)!CS.CHANNEL_SET_VALUE = 200
    /\ Wire(b)!CS.CHANNEL_SET_VALUE_B = 205
    /\ Wire(b)!CS.OAUTH_TOKEN_REQUEST = 340
    /\ Wire(b)!CS.SET_VALUE = 410
    /\ Wire(b)!CS.SUPERUSER_AUTHORIZATION_REQUEST = 420
    /\ Wire(b)!CS.GET_SUPERUSER_AUTHORIZATION_RESULT = 425
    /\ Wire(b)!CS.DEVICE_CALCFG_REQUEST = 440
    /\ Wire(b)!CS.DEVICE_CALCFG_REQUEST_B = 445
    /\ Wire(b)!CS.GET_CHANNEL_BASIC_CFG = 520
    /\ Wire(b)!CS.SET_CHANNEL_FUNCTION = 540
    /\ Wire(b)!CS.CLIENTS_RECONNECT_REQUEST = 560
    /\ Wire(b)!CS.SET_REGISTRATION_ENABLED = 580
    /\ Wire(b)!CS.DEVICE_RECONNECT_REQUEST = 600
    /\ Wire(b)!CS.SET_CHANNEL_GROUP_CAPTION = 642
    /\ Wire(b)!CS.SET_LOCATION_CAPTION = 645 /\ Wire(b)!CS.TIMER_ARM = 800
    /\ Wire(b)!CS.EXECUTE_ACTION = 1000
    /\ Wire(b)!CS.EXECUTE_ACTION_WITH_AUTH = 1010
    /\ Wire(b)!CS.GET_CHANNEL_VALUE_WITH_AUTH = 1030
    /\ Wire(b)!CS.SET_SCENE_CAPTION = 1045
    /\ Wire(b)!CS.REGISTER_PN_CLIENT_TOKEN = 1120
    /\ Wire(b)!CS.GET_CHANNEL_CONFIG = 1200
    /\ Wire(b)!CS.SET_CHANNEL_CONFIG = 1220
    /\ Wire(b)!CS.GET_DEVICE_CONFIG = 1240
    /\ Wire(b)!SC.REGISTER_CLIENT_RESULT = 90
    /\ Wire(b)!SC.REGISTER_CLIENT_RESULT_B = 92
    /\ Wire(b)!SC.REGISTER_CLIENT_RESULT_C = 94
    /\ Wire(b)!SC.REGISTER_CLIENT_RESULT_D = 96
    /\ Wire(b)!SC.LOCATION_UPDATE = 130 /\ Wire(b)!SC.LOCATIONPACK_UPDATE = 140
    /\ Wire(b)!SC.CHANNELPACK_UPDATE = 160
    /\ Wire(b)!SC.CHANNEL_VALUE_UPDATE = 170
    /\ Wire(b)!SC.CHANNEL_VALUE_UPDATE_B = 171 /\ Wire(b)!SC.EVENT = 190
    /\ Wire(b)!SC.OAUTH_TOKEN_REQUEST_RESULT = 350
    /\ Wire(b)!SC.CHANNELPACK_UPDATE_B = 360
    /\ Wire(b)!SC.CHANNELPACK_UPDATE_C = 361
    /\ Wire(b)!SC.CHANNELPACK_UPDATE_D = 362
    /\ Wire(b)!SC.CHANNELPACK_UPDATE_E = 363
    /\ Wire(b)!SC.CHANNELGROUP_PACK_UPDATE = 380
    /\ Wire(b)!SC.CHANNELGROUP_PACK_UPDATE_B = 381
    /\ Wire(b)!SC.CHANNELGROUP_RELATION_PACK_UPDATE = 390
    /\ Wire(b)!SC.CHANNEL_RELATION_PACK_UPDATE = 395
    /\ Wire(b)!SC.CHANNELVALUE_PACK_UPDATE = 400
    /\ Wire(b)!SC.CHANNELVALUE_PACK_UPDATE_B = 401
    /\ Wire(b)!SC.CHANNELEXTENDEDVALUE_PACK_UPDATE = 405
    /\ Wire(b)!SC.CHANNEL_STATE_PACK_UPDATE = 408
    /\ Wire(b)!SC.SUPERUSER_AUTHORIZATION_RESULT = 430
    /\ Wire(b)!SC.DEVICE_CALCFG_RESULT = 450
    /\ Wire(b)!SC.CHANNEL_BASIC_CFG_RESULT = 530
    /\ Wire(b)!SC.SET_CHANNEL_FUNCTION_RESULT = 550
    /\ Wire(b)!SC.CLIENTS_RECONNECT_REQUEST_RESULT = 570
    /\ Wire(b)!SC.SET_REGISTRATION_ENABLED_RESULT = 590
    /\ Wire(b)!SC.DEVICE_RECONNECT_REQUEST_RESULT = 610
    /\ Wire(b)!SC.SET_CHANNEL_GROUP_CAPTION_RESULT = 652
    /\ Wire(b)!SC.SET_LOCATION_CAPTION_RESULT = 655
    /\ Wire(b)!SC.SCENE_PACK_UPDATE = 900
    /\ Wire(b)!SC.SCENE_STATE_PACK_UPDATE = 910
    /\ Wire(b)!SC.ACTION_EXECUTION_RESULT = 1020
    /\ Wire(b)!SC.GET_CHANNEL_VALUE_RESULT = 1040
    /\ Wire(b)!SC.SET_SCENE_CAPTION_RESULT = 1055
    /\ Wire(b)!SC.REGISTER_PN_CLIENT_TOKEN_RESULT = 1121
    /\ Wire(b)!SC.CHANNEL_CONFIG_UPDATE_OR_RESULT = 1210
    /\ Wire(b)!SC.DEVICE_CONFIG_UPDATE_OR_RESULT = 1250
    /\ Wire(b)!CSD.GET_CHANNEL_STATE = 500
    /\ Wire(b)!DSC.CHANNEL_STATE_RESULT = 510
    /\ Wire(b)!SCD.SET_CHANNEL_CAPTION_RESULT = 650
  BY CallNumbers, SameCalls

LEMMA Unions ==
  ASSUME NEW b
  PROVE  Wire(b)!ChannelValueUnion = 8
  BY DEF Wire!ChannelValueUnion, Wire!Union, Wire!SUPLA_CHANNELVALUE_SIZE,
         Wire!TActionTriggerProperties, Wire!THVACValue, Wire!Char, Wire!Int16, Wire!Int32

-----------------------------------------------------------------------------
(***************************************************************************)
(* What srpc.c writes, part by part                                        *)
(***************************************************************************)

LEMMA AsyncCommonSays ==
  ASSUME NEW b, NEW o
  PROVE  LET says(c) == Wire(b)!AsyncCommon(c, o)
         IN  /\ says(10) = Empty
             /\ says(20) = Sized({23})
             /\ says(30) = Sized({2})
             /\ says(40) = Sized({16})
             /\ says(50) = Sized({16})
             /\ says(210) = Sized({1})
             /\ says(220) = Sized({3})
             /\ says(320) = Empty
             /\ says(330) = Sized({8})
             /\ says(480) = Empty
             /\ says(490) = Items(0, Counted(12, 1, 51))
             /\ says(500) = Sized({8})
             /\ says(510) = Sized({50})
<1>1. /\ Wire(b)!TSDC_SuplaGetVersionResult = 23
      /\ Wire(b)!TSDC_SuplaVersionError = 2 /\ Wire(b)!TDCS_SuplaPingServer = 16
      /\ Wire(b)!TSDC_SuplaPingServerResult = 16
      /\ Wire(b)!TDCS_SuplaSetActivityTimeout = 1
      /\ Wire(b)!TSDC_SuplaSetActivityTimeoutResult = 3
      /\ Wire(b)!TSDC_RegistrationEnabled = 8
      /\ Wire(b)!TSDC_UserLocalTimeResult = Counted(12, 1, 51)
      /\ Wire(b)!TCSD_ChannelStateRequest = 8 /\ Wire(b)!TDSC_ChannelState = 50
  BY Unions DEF Counted, Wire!TSDC_SuplaGetVersionResult,
     Wire!TSDC_SuplaVersionError, Wire!TDCS_SuplaPingServer,
     Wire!TSDC_SuplaPingServerResult, Wire!TDCS_SuplaSetActivityTimeout,
     Wire!TSDC_SuplaSetActivityTimeoutResult, Wire!TSDC_RegistrationEnabled,
     Wire!TSDC_UserLocalTimeResult, Wire!TCSD_ChannelStateRequest,
     Wire!TDSC_ChannelState, Wire!Char, Wire!SUPLA_SOFTVER_MAXSIZE,
     Wire!Timeval, Wire!Int32, Wire!CharTail, Wire!Int16,
     Wire!SUPLA_TIMEZONE_MAXSIZE, Wire!Int64, Wire!Counted
<1> QED
  BY <1>1, WireNumbers DEF Wire!AsyncCommon, Wire!NoData, Wire!Whole, Wire!OneOf,
       Wire!UpTo, Wire!SomeOf, Wire!ItemsFrom, Empty, Sized, Items

LEMMA AsyncCommonSkips ==
  ASSUME NEW b, NEW o, NEW c \in Nat \ {10, 20, 30, 40, 50, 210, 220, 320, 330,
                                      480, 490, 500, 510}
  PROVE  Wire(b)!AsyncCommon(c, o) = o
  BY WireNumbers DEF Wire!AsyncCommon

LEMMA AsyncCaptionSays ==
  ASSUME NEW b, NEW o
  PROVE  LET says(c) == Wire(b)!AsyncCaption(c, o)
         IN  /\ says(640) = Items(0, Counted(8, 1, 401))
             /\ says(650) = Items(0, Counted(9, 1, 401))
<1>1. /\ Wire(b)!TDCS_SetCaption = Counted(8, 1, 401)
      /\ Wire(b)!TSCD_SetCaptionResult = Counted(9, 1, 401)
  BY Unions DEF Counted, Wire!TDCS_SetCaption, Wire!TSCD_SetCaptionResult,
     Wire!CharTail, Wire!Int32, Wire!SUPLA_CAPTION_MAXSIZE, Wire!Char,
     Wire!Counted
<1> QED
  BY <1>1, WireNumbers DEF Wire!AsyncCaption, Wire!SetCaption, Wire!UpTo,
       Wire!SomeOf, Wire!ItemsFrom, Wire!SetCaptionResult, Items

LEMMA AsyncCaptionSkips ==
  ASSUME NEW b, NEW o, NEW c \in Nat \ {640, 650}
  PROVE  Wire(b)!AsyncCaption(c, o) = o
  BY WireNumbers DEF Wire!AsyncCaption

LEMMA AsyncRegisterDeviceSays ==
  ASSUME NEW b, NEW o
  PROVE  LET says(c) == Wire(b)!AsyncRegisterDevice(c, o)
         IN  /\ says(300) = Sized({17})
             /\ says(60) = Items(0, Counted(276, 13, 128))
             /\ says(65) = Items(0, Counted(276, 21, 128))
             /\ says(67) = Items(0, Counted(341, 21, 128))
             /\ says(68) = Items(0, Counted(576, 21, 128))
             /\ says(69) = Items(0, Counted(584, 25, 128))
<1>1. /\ Wire(b)!TDS_FirmwareUpdateParams = 17
      /\ Wire(b)!TDS_SuplaRegisterDevice = Counted(276, 13, 128)
      /\ Wire(b)!TDS_SuplaRegisterDevice_B = Counted(276, 21, 128)
      /\ Wire(b)!TDS_SuplaRegisterDevice_C = Counted(341, 21, 128)
      /\ Wire(b)!TDS_SuplaRegisterDevice_D = Counted(576, 21, 128)
      /\ Wire(b)!TDS_SuplaRegisterDevice_E = Counted(584, 25, 128)
  BY Unions DEF Counted, Wire!TDS_FirmwareUpdateParams,
     Wire!TDS_SuplaRegisterDevice, Wire!TDS_SuplaRegisterDevice_B,
     Wire!TDS_SuplaRegisterDevice_C, Wire!TDS_SuplaRegisterDevice_D,
     Wire!TDS_SuplaRegisterDevice_E, Wire!Char, Wire!Int32, Wire!Counted,
     Wire!SUPLA_LOCATION_PWD_MAXSIZE, Wire!SUPLA_GUID_SIZE,
     Wire!SUPLA_DEVICE_NAME_MAXSIZE, Wire!SUPLA_SOFTVER_MAXSIZE,
     Wire!TDS_SuplaDeviceChannel, Wire!SUPLA_CHANNELMAXCOUNT,
     Wire!TDS_SuplaDeviceChannel_B, Wire!SUPLA_SERVER_NAME_MAXSIZE,
     Wire!SUPLA_EMAIL_MAXSIZE, Wire!SUPLA_AUTHKEY_SIZE, Wire!Int16,
     Wire!TDS_SuplaDeviceChannel_C, Wire!SUPLA_CHANNELVALUE_SIZE
<1> QED
  BY <1>1, WireNumbers DEF Wire!AsyncRegisterDevice, Wire!Whole, Wire!OneOf,
       Wire!UpTo, Wire!SomeOf, Wire!ItemsFrom, Sized, Items

LEMMA AsyncRegisterDeviceSkips ==
  ASSUME NEW b, NEW o, NEW c \in Nat \ {300, 60, 65, 67, 68, 69}
  PROVE  Wire(b)!AsyncRegisterDevice(c, o) = o
  BY WireNumbers DEF Wire!AsyncRegisterDevice

LEMMA AsyncRegisterDeviceFGSays ==
  ASSUME NEW b, NEW o
  PROVE  LET says(c) == Wire(b)!AsyncRegisterDeviceFG(c, o)
         IN  /\ says(75) = Items(0, Counted(584, 35, 128))
             /\ says(76) = Items(0, Counted(584, 36, 128))
             /\ says(70) = Sized({7})
             /\ says(71) = Items(0, Counted(9, 1, 256))
<1>1. /\ Wire(b)!TDS_SuplaRegisterDevice_F = Counted(584, 35, 128)
      /\ Wire(b)!TDS_SuplaRegisterDevice_G = Counted(584, 36, 128)
      /\ Wire(b)!TSD_SuplaRegisterDeviceResult = 7
      /\ Wire(b)!TSD_SuplaRegisterDeviceResult_B = Counted(9, 1, 256)
  BY Unions DEF Counted, Wire!TDS_SuplaRegisterDevice_F,
     Wire!TDS_SuplaRegisterDevice_G, Wire!TSD_SuplaRegisterDeviceResult,
     Wire!TSD_SuplaRegisterDeviceResult_B, Wire!Counted,
     Wire!SUPLA_EMAIL_MAXSIZE, Wire!SUPLA_AUTHKEY_SIZE, Wire!SUPLA_GUID_SIZE,
     Wire!SUPLA_DEVICE_NAME_MAXSIZE, Wire!SUPLA_SOFTVER_MAXSIZE,
     Wire!SUPLA_SERVER_NAME_MAXSIZE, Wire!Int32, Wire!Int16, Wire!Char,
     Wire!TDS_SuplaDeviceChannel_D, Wire!SUPLA_CHANNELMAXCOUNT,
     Wire!TDS_SuplaDeviceChannel_E, Wire!CharTail, Wire!CHANNEL_REPORT_MAXSIZE,
     Wire!Int64
<1> QED
  BY <1>1, WireNumbers DEF Wire!AsyncRegisterDeviceFG, Wire!UpTo, Wire!SomeOf,
       Wire!ItemsFrom, Wire!Whole, Wire!OneOf, Sized, Items

LEMMA AsyncRegisterDeviceFGSkips ==
  ASSUME NEW b, NEW o, NEW c \in Nat \ {75, 76, 70, 71}
  PROVE  Wire(b)!AsyncRegisterDeviceFG(c, o) = o
  BY WireNumbers DEF Wire!AsyncRegisterDeviceFG

LEMMA AsyncDeviceValuesSays ==
  ASSUME NEW b, NEW o
  PROVE  LET says(c) == Wire(b)!AsyncDeviceValues(c, o)
         IN  /\ says(110) = Sized({17})
             /\ says(115) = Sized({22})
             /\ says(120) = Sized({6})
             /\ says(310) = Sized({208, 1})
             /\ says(100) = Sized({9})
             /\ says(102) = Sized({10})
             /\ says(103) = Sized({14})
             /\ says(105) = Items(1, Counted(6, 1, ExtendedValueSize[b]))
<1>1. /\ Wire(b)!TSD_SuplaChannelNewValue = 17
      /\ Wire(b)!TSD_SuplaChannelGroupNewValue = 22
      /\ Wire(b)!TDS_SuplaChannelNewValueResult = 6
      /\ Wire(b)!TSD_FirmwareUpdate_UrlResult = 208
      /\ Wire(b)!TDS_SuplaDeviceChannelValue = 9
      /\ Wire(b)!TDS_SuplaDeviceChannelValue_B = 10
      /\ Wire(b)!TDS_SuplaDeviceChannelValue_C = 14
      /\ Wire(b)!TDS_SuplaDeviceChannelExtendedValue = Counted(6, 1, ExtendedValueSize[b])
  BY Unions DEF Counted, Wire!TSD_SuplaChannelNewValue,
     Wire!TSD_SuplaChannelGroupNewValue, Wire!TDS_SuplaChannelNewValueResult,
     Wire!TSD_FirmwareUpdate_UrlResult, Wire!Char,
     Wire!TDS_SuplaDeviceChannelValue, Wire!TDS_SuplaDeviceChannelValue_B,
     Wire!TDS_SuplaDeviceChannelValue_C,
     Wire!TDS_SuplaDeviceChannelExtendedValue, Wire!Int32,
     Wire!SUPLA_CHANNELVALUE_SIZE, Wire!TSD_FirmwareUpdate_Url, Wire!After,
     Wire!TSuplaChannelExtendedValue, Wire!SUPLA_URL_HOST_MAXSIZE,
     Wire!SUPLA_URL_PATH_MAXSIZE, Wire!CharTail, Wire!Counted
<1> QED
  BY <1>1, WireNumbers DEF Wire!AsyncDeviceValues, Wire!Whole, Wire!OneOf,
       Wire!UpTo, Wire!SomeOf, Wire!ItemsFrom, Wire!Char, Sized, Items

LEMMA AsyncDeviceValuesSkips ==
  ASSUME NEW b, NEW o, NEW c \in Nat \ {110, 115, 120, 310, 100, 102, 103, 105}
  PROVE  Wire(b)!AsyncDeviceValues(c, o) = o
  BY WireNumbers DEF Wire!AsyncDeviceValues

LEMMA AsyncDeviceConfigSays ==
  ASSUME NEW b, NEW o
  PROVE  LET says(c) == Wire(b)!AsyncDeviceConfig(c, o)
         IN  /\ says(460) = Items(0, Counted(21, 1, 128))
             /\ says(470) = Items(0, Counted(20, 1, 128))
             /\ says(620) = Empty
             /\ says(630) = Items(0, Counted(1, 4, 128))
             /\ says(680) = Sized({6})
             /\ says(690) = Items(0, Counted(8, 1, 512))
             /\ says(682) = Items(0, Counted(8, 1, 512))
             /\ says(692) = Sized({3})
             /\ says(681) = Items(0, Counted(8, 1, 512))
             /\ says(691) = Sized({3})
             /\ says(683) = Sized({1})
<1>1. /\ Wire(b)!TSD_DeviceCalCfgRequest = Counted(21, 1, 128)
      /\ Wire(b)!TDS_DeviceCalCfgResult = Counted(20, 1, 128)
      /\ Wire(b)!TSD_ChannelFunctions = Counted(1, 4, 128)
      /\ Wire(b)!TDS_GetChannelConfigRequest = 6
      /\ Wire(b)!TSD_ChannelConfig = Counted(8, 1, 512)
      /\ Wire(b)!TSDS_SetChannelConfig = Counted(8, 1, 512)
      /\ Wire(b)!TSDS_SetChannelConfigResult = 3
      /\ Wire(b)!TSD_ChannelConfigFinished = 1
  BY Unions DEF Counted, Wire!TSD_DeviceCalCfgRequest,
     Wire!TDS_DeviceCalCfgResult, Wire!TSD_ChannelFunctions,
     Wire!TDS_GetChannelConfigRequest, Wire!TSD_ChannelConfig,
     Wire!TSDS_SetChannelConfig, Wire!TSDS_SetChannelConfigResult,
     Wire!TSD_ChannelConfigFinished, Wire!CharTail, Wire!Int32, Wire!Char,
     Wire!SUPLA_CALCFG_DATA_MAXSIZE, Wire!Counted, Wire!SUPLA_CHANNELMAXCOUNT,
     Wire!Int16, Wire!SUPLA_CHANNEL_CONFIG_MAXSIZE
<1> QED
  BY <1>1, WireNumbers DEF Wire!AsyncDeviceConfig, Wire!UpTo, Wire!SomeOf,
       Wire!ItemsFrom, Wire!NoData, Wire!Whole, Wire!OneOf, Empty, Sized, Items

LEMMA AsyncDeviceConfigSkips ==
  ASSUME NEW b, NEW o, NEW c \in Nat \ {460, 470, 620, 630, 680, 690, 682, 692,
                                      681, 691, 683}
  PROVE  Wire(b)!AsyncDeviceConfig(c, o) = o
  BY WireNumbers DEF Wire!AsyncDeviceConfig

LEMMA AsyncDeviceSettingsSays ==
  ASSUME NEW b, NEW o
  PROVE  LET says(c) == Wire(b)!AsyncDeviceSettings(c, o)
         IN  /\ says(685) = Items(0, Counted(27, 1, 512))
             /\ says(695) = Sized({10})
             /\ says(684) = Items(0, Counted(27, 1, 512))
             /\ says(694) = Sized({10})
             /\ says(700) = Sized({15})
             /\ says(1100) = Sized({11})
             /\ says(1110) = Items(0, Counted(42, 1, 357))
             /\ says(1260) = Sized({325})
<1>1. /\ Wire(b)!TSDS_SetDeviceConfig = Counted(27, 1, 512)
      /\ Wire(b)!TSDS_SetDeviceConfigResult = 10
      /\ Wire(b)!TDS_ActionTrigger = 15
      /\ Wire(b)!TDS_RegisterPushNotification = 11
      /\ Wire(b)!TDS_PushNotification = Counted(42, 1, 357)
      /\ Wire(b)!TDS_SubdeviceDetails = 325
  BY Unions DEF Counted, Wire!TSDS_SetDeviceConfig,
     Wire!TSDS_SetDeviceConfigResult, Wire!TDS_ActionTrigger,
     Wire!TDS_RegisterPushNotification, Wire!TDS_PushNotification,
     Wire!TDS_SubdeviceDetails, Wire!CharTail, Wire!Char, Wire!Int64,
     Wire!Int16, Wire!SUPLA_DEVICE_CONFIG_MAXSIZE, Wire!Int32,
     Wire!SUPLA_PN_TITLE_MAXSIZE, Wire!SUPLA_PN_BODY_MAXSIZE,
     Wire!SUPLA_DEVICE_NAME_MAXSIZE, Wire!SUPLA_SOFTVER_MAXSIZE,
     Wire!SUPLA_SUBDEVICE_PRODUCT_CODE_MAXSIZE,
     Wire!SUPLA_SUBDEVICE_SERIAL_NUMBER_MAXSIZE, Wire!Counted
<1> QED
  BY <1>1, WireNumbers DEF Wire!AsyncDeviceSettings, Wire!UpTo, Wire!SomeOf,
       Wire!ItemsFrom, Wire!Whole, Wire!OneOf, Sized, Items

LEMMA AsyncDeviceSettingsSkips ==
  ASSUME NEW b, NEW o, NEW c \in Nat \ {685, 695, 684, 694, 700, 1100, 1110,
                                      1260}
  PROVE  Wire(b)!AsyncDeviceSettings(c, o) = o
  BY WireNumbers DEF Wire!AsyncDeviceSettings

LEMMA AsyncRegisterClientSays ==
  ASSUME NEW b, NEW o
  PROVE  LET says(c) == Wire(b)!AsyncRegisterClient(c, o)
         IN  /\ says(80) = Sized({275})
             /\ says(85) = Sized({340})
             /\ says(86) = Sized({575})
             /\ says(87) = Sized({639})
             /\ says(90) = Sized({19})
             /\ says(92) = Sized({27})
             /\ says(94) = Sized({31})
             /\ says(96) = Sized({27})
             /\ says(130) = Items(0, Counted(9, 1, 401))
<1>1. /\ Wire(b)!TCS_SuplaRegisterClient = 275
      /\ Wire(b)!TCS_SuplaRegisterClient_B = 340
      /\ Wire(b)!TCS_SuplaRegisterClient_C = 575
      /\ Wire(b)!TCS_SuplaRegisterClient_D = 639
      /\ Wire(b)!TSC_SuplaRegisterClientResult = 19
      /\ Wire(b)!TSC_SuplaRegisterClientResult_B = 27
      /\ Wire(b)!TSC_SuplaRegisterClientResult_C = 31
      /\ Wire(b)!TSC_SuplaRegisterClientResult_D = 27
      /\ Wire(b)!TSC_SuplaLocation = Counted(9, 1, 401)
  BY Unions DEF Counted, Wire!TCS_SuplaRegisterClient,
     Wire!TCS_SuplaRegisterClient_B, Wire!TCS_SuplaRegisterClient_C,
     Wire!TCS_SuplaRegisterClient_D, Wire!TSC_SuplaRegisterClientResult,
     Wire!TSC_SuplaRegisterClientResult_B, Wire!TSC_SuplaRegisterClientResult_C,
     Wire!TSC_SuplaRegisterClientResult_D, Wire!TSC_SuplaLocation, Wire!Int32,
     Wire!SUPLA_ACCESSID_PWD_MAXSIZE, Wire!SUPLA_GUID_SIZE,
     Wire!SUPLA_CLIENT_NAME_MAXSIZE, Wire!SUPLA_SOFTVER_MAXSIZE,
     Wire!SUPLA_SERVER_NAME_MAXSIZE, Wire!SUPLA_EMAIL_MAXSIZE,
     Wire!SUPLA_AUTHKEY_SIZE, Wire!SUPLA_PASSWORD_MAXSIZE, Wire!Char,
     Wire!Int16, Wire!CharTail, Wire!SUPLA_LOCATION_CAPTION_MAXSIZE,
     Wire!Counted, Wire!SUPLA_CAPTION_MAXSIZE
<1> QED
  BY <1>1, WireNumbers DEF Wire!AsyncRegisterClient, Wire!Whole, Wire!OneOf,
       Wire!UpTo, Wire!SomeOf, Wire!ItemsFrom, Sized, Items

LEMMA AsyncRegisterClientSkips ==
  ASSUME NEW b, NEW o, NEW c \in Nat \ {80, 85, 86, 87, 90, 92, 94, 96, 130}
  PROVE  Wire(b)!AsyncRegisterClient(c, o) = o
  BY WireNumbers DEF Wire!AsyncRegisterClient

LEMMA AsyncPacksSays ==
  ASSUME NEW b, NEW o
  PROVE  LET says(c) == Wire(b)!AsyncPacks(c, o)
         IN  /\ says(140) = Packed(Counted(8, 410, 20), Counted(9, 1, 401))
             /\ says(160) = Packed(Counted(8, 435, 20), Counted(34, 1, 401))
             /\ says(360) = Packed(Counted(8, 444, 20), Counted(43, 1, 401))
             /\ says(361) = Packed(Counted(8, 460, 20), Counted(59, 1, 401))
             /\ says(362) = Packed(Counted(8, 461, 20), Counted(60, 1, 401))
             /\ says(363) = Packed(Counted(8, 469, 20), Counted(68, 1, 401))
             /\ says(170) = Sized({22})
             /\ says(171) = Sized({23})
             /\ says(380) = Packed(Counted(8, 426, 20), Counted(25, 1, 401))
             /\ says(381) = Packed(Counted(8, 430, 20), Counted(29, 1, 401))
<1>1. /\ Wire(b)!TSC_SuplaLocationPack = Counted(8, 410, 20)
      /\ Wire(b)!TSC_SuplaLocation = Counted(9, 1, 401)
      /\ Wire(b)!TSC_SuplaChannelPack = Counted(8, 435, 20)
      /\ Wire(b)!TSC_SuplaChannel = Counted(34, 1, 401)
      /\ Wire(b)!TSC_SuplaChannelPack_B = Counted(8, 444, 20)
      /\ Wire(b)!TSC_SuplaChannel_B = Counted(43, 1, 401)
      /\ Wire(b)!TSC_SuplaChannelPack_C = Counted(8, 460, 20)
      /\ Wire(b)!TSC_SuplaChannel_C = Counted(59, 1, 401)
      /\ Wire(b)!TSC_SuplaChannelPack_D = Counted(8, 461, 20)
      /\ Wire(b)!TSC_SuplaChannel_D = Counted(60, 1, 401)
      /\ Wire(b)!TSC_SuplaChannelPack_E = Counted(8, 469, 20)
      /\ Wire(b)!TSC_SuplaChannel_E = Counted(68, 1, 401)
      /\ Wire(b)!TSC_SuplaChannelValue = 22
      /\ Wire(b)!TSC_SuplaChannelValue_B = 23
      /\ Wire(b)!TSC_SuplaChannelGroupPack = Counted(8, 426, 20)
      /\ Wire(b)!TSC_SuplaChannelGroup = Counted(25, 1, 401)
      /\ Wire(b)!TSC_SuplaChannelGroupPack_B = Counted(8, 430, 20)
      /\ Wire(b)!TSC_SuplaChannelGroup_B = Counted(29, 1, 401)
  BY Unions DEF Counted, Wire!TSC_SuplaLocationPack, Wire!TSC_SuplaLocation,
     Wire!TSC_SuplaChannelPack, Wire!TSC_SuplaChannel,
     Wire!TSC_SuplaChannelPack_B, Wire!TSC_SuplaChannel_B,
     Wire!TSC_SuplaChannelPack_C, Wire!TSC_SuplaChannel_C,
     Wire!TSC_SuplaChannelPack_D, Wire!TSC_SuplaChannel_D,
     Wire!TSC_SuplaChannelPack_E, Wire!TSC_SuplaChannel_E,
     Wire!TSC_SuplaChannelValue, Wire!TSC_SuplaChannelValue_B,
     Wire!TSC_SuplaChannelGroupPack, Wire!TSC_SuplaChannelGroup,
     Wire!TSC_SuplaChannelGroupPack_B, Wire!TSC_SuplaChannelGroup_B,
     Wire!Counted, Wire!Int32, Wire!SizeOf, Wire!SUPLA_LOCATIONPACK_MAXCOUNT,
     Wire!CharTail, Wire!Char, Wire!SUPLA_LOCATION_CAPTION_MAXSIZE,
     Wire!SUPLA_CHANNELPACK_MAXCOUNT, Wire!TSuplaChannelValue,
     Wire!SUPLA_CHANNEL_CAPTION_MAXSIZE, Wire!Int16, Wire!TSuplaChannelValue_B,
     Wire!Int64, Wire!SUPLA_CHANNELGROUP_PACK_MAXCOUNT,
     Wire!SUPLA_CHANNELGROUP_CAPTION_MAXSIZE, Wire!SUPLA_CAPTION_MAXSIZE,
     Wire!SUPLA_CHANNELVALUE_SIZE
<1> QED
  BY <1>1, WireNumbers DEF Wire!AsyncPacks, Wire!Pack, Wire!Whole, Wire!OneOf,
       Sized, Packed

LEMMA AsyncPacksSkips ==
  ASSUME NEW b, NEW o, NEW c \in Nat \ {140, 160, 360, 361, 362, 363, 170, 171,
                                      380, 381}
  PROVE  Wire(b)!AsyncPacks(c, o) = o
  BY WireNumbers DEF Wire!AsyncPacks

LEMMA AsyncValuePacksSays ==
  ASSUME NEW b, NEW o
  PROVE  LET says(c) == Wire(b)!AsyncValuePacks(c, o)
         IN  /\ says(390) = Items(1, Counted(8, 9, 100))
             /\ says(395) = Items(1, Counted(8, 11, 100))
             /\ says(400) = Items(1, Counted(8, 22, 20))
             /\ says(401) = Items(1, Counted(8, 23, 20))
             /\ says(405) = Items(1, Counted(12, 1, MaxDataSize[b] - 50))
             /\ says(408) = Items(1, Counted(8, 50, 20))
<1>1. /\ Wire(b)!TSC_SuplaChannelGroupRelationPack = Counted(8, 9, 100)
      /\ Wire(b)!TSC_SuplaChannelRelationPack = Counted(8, 11, 100)
      /\ Wire(b)!TSC_SuplaChannelValuePack = Counted(8, 22, 20)
      /\ Wire(b)!TSC_SuplaChannelValuePack_B = Counted(8, 23, 20)
      /\ Wire(b)!TSC_SuplaChannelExtendedValuePack = Counted(12, 1, MaxDataSize[b] - 50)
      /\ Wire(b)!TSC_SuplaChannelStatePack = Counted(8, 50, 20)
  BY Unions DEF Counted, Wire!TSC_SuplaChannelGroupRelationPack,
     Wire!TSC_SuplaChannelRelationPack, Wire!TSC_SuplaChannelValuePack,
     Wire!TSC_SuplaChannelValuePack_B, Wire!TSC_SuplaChannelExtendedValuePack,
     Wire!TSC_SuplaChannelStatePack, Wire!Counted, Wire!Int32,
     Wire!TSC_SuplaChannelGroupRelation,
     Wire!SUPLA_CHANNELGROUP_RELATION_PACK_MAXCOUNT,
     Wire!TSC_SuplaChannelRelation, Wire!SUPLA_CHANNEL_RELATION_PACK_MAXCOUNT,
     Wire!TSC_SuplaChannelValue, Wire!SUPLA_CHANNELVALUE_PACK_MAXCOUNT,
     Wire!TSC_SuplaChannelValue_B, Wire!CharTail,
     Wire!SUPLA_CHANNELEXTENDEDVALUE_PACK_MAXDATASIZE, Wire!TDSC_ChannelState,
     Wire!SUPLA_CHANNEL_STATE_PACK_MAXCOUNT, Wire!Char, Wire!Int16,
     Wire!TSuplaChannelValue, Wire!TSuplaChannelValue_B,
     Wire!SUPLA_CHANNELVALUE_SIZE
<1> QED
  BY <1>1, WireNumbers DEF Wire!AsyncValuePacks, Wire!UpTo, Wire!SomeOf,
       Wire!ItemsFrom, Items

LEMMA AsyncValuePacksSkips ==
  ASSUME NEW b, NEW o, NEW c \in Nat \ {390, 395, 400, 401, 405, 408}
  PROVE  Wire(b)!AsyncValuePacks(c, o) = o
  BY WireNumbers DEF Wire!AsyncValuePacks

LEMMA AsyncClientCallsSays ==
  ASSUME NEW b, NEW o
  PROVE  LET says(c) == Wire(b)!AsyncClientCalls(c, o)
         IN  /\ says(180) = Empty
             /\ says(190) = Items(0, Counted(20, 1, 201))
             /\ says(200) = Sized({9})
             /\ says(205) = Sized({12})
             /\ says(410) = Sized({13})
             /\ says(340) = Empty
             /\ says(350) = Items(0, Counted(9, 1, 256))
             /\ says(420) = Sized({320})
             /\ says(425) = Empty
             /\ says(430) = Sized({4})
             /\ says(440) = Items(0, Counted(16, 1, 128))
             /\ says(445) = Items(0, Counted(17, 1, 128))
             /\ says(450) = Items(0, Counted(16, 1, 128))
             /\ says(520) = Sized({4})
             /\ says(530) = Items(0, Counted(259, 1, 401))
             /\ says(540) = Sized({8})
             /\ says(550) = Sized({9})
<1>1. /\ Wire(b)!TSC_SuplaEvent = Counted(20, 1, 201)
      /\ Wire(b)!TCS_SuplaChannelNewValue = 9
      /\ Wire(b)!TCS_SuplaChannelNewValue_B = 12
      /\ Wire(b)!TCS_SuplaNewValue = 13
      /\ Wire(b)!TSC_OAuthTokenRequestResult = Counted(9, 1, 256)
      /\ Wire(b)!TCS_SuperUserAuthorizationRequest = 320
      /\ Wire(b)!TSC_SuperUserAuthorizationResult = 4
      /\ Wire(b)!TCS_DeviceCalCfgRequest = Counted(16, 1, 128)
      /\ Wire(b)!TCS_DeviceCalCfgRequest_B = Counted(17, 1, 128)
      /\ Wire(b)!TSC_DeviceCalCfgResult = Counted(16, 1, 128)
      /\ Wire(b)!TCS_ChannelBasicCfgRequest = 4
      /\ Wire(b)!TSC_ChannelBasicCfg = Counted(259, 1, 401)
      /\ Wire(b)!TCS_SetChannelFunction = 8
      /\ Wire(b)!TSC_SetChannelFunctionResult = 9
  BY Unions DEF Counted, Wire!TSC_SuplaEvent, Wire!TCS_SuplaChannelNewValue,
     Wire!TCS_SuplaChannelNewValue_B, Wire!TCS_SuplaNewValue,
     Wire!TSC_OAuthTokenRequestResult, Wire!TCS_SuperUserAuthorizationRequest,
     Wire!TSC_SuperUserAuthorizationResult, Wire!TCS_DeviceCalCfgRequest,
     Wire!TCS_DeviceCalCfgRequest_B, Wire!TSC_DeviceCalCfgResult,
     Wire!TCS_ChannelBasicCfgRequest, Wire!TSC_ChannelBasicCfg,
     Wire!TCS_SetChannelFunction, Wire!TSC_SetChannelFunctionResult,
     Wire!CharTail, Wire!Int32, Wire!SUPLA_SENDER_NAME_MAXSIZE, Wire!Char,
     Wire!SUPLA_CHANNELVALUE_SIZE, Wire!After, Wire!TSC_OAuthToken,
     Wire!SUPLA_EMAIL_MAXSIZE, Wire!SUPLA_PASSWORD_MAXSIZE,
     Wire!SUPLA_CALCFG_DATA_MAXSIZE, Wire!SUPLA_DEVICE_NAME_MAXSIZE,
     Wire!SUPLA_SOFTVER_MAXSIZE, Wire!Int16, Wire!SUPLA_CHANNEL_CAPTION_MAXSIZE,
     Wire!Counted, Wire!SUPLA_OAUTH_TOKEN_MAXSIZE, Wire!SUPLA_CAPTION_MAXSIZE
<1> DEFINE says(c) == Wire(b)!AsyncClientCalls(c, o)
<1>2. /\ says(180) = Empty
      /\ says(190) = Items(0, Counted(20, 1, 201))
      /\ says(200) = Sized({9})
      /\ says(205) = Sized({12})
      /\ says(410) = Sized({13})
      /\ says(340) = Empty
      /\ says(350) = Items(0, Counted(9, 1, 256))
      /\ says(420) = Sized({320})
      /\ says(425) = Empty
      /\ says(430) = Sized({4})
  BY <1>1, WireNumbers DEF Wire!AsyncClientCalls, Wire!NoData, Wire!UpTo,
       Wire!SomeOf, Wire!ItemsFrom, Wire!Whole, Wire!OneOf, Empty, Sized, Items
<1>3. /\ says(440) = Items(0, Counted(16, 1, 128))
      /\ says(445) = Items(0, Counted(17, 1, 128))
      /\ says(450) = Items(0, Counted(16, 1, 128))
      /\ says(520) = Sized({4})
      /\ says(530) = Items(0, Counted(259, 1, 401))
      /\ says(540) = Sized({8})
      /\ says(550) = Sized({9})
  BY <1>1, WireNumbers DEF Wire!AsyncClientCalls, Wire!NoData, Wire!UpTo,
       Wire!SomeOf, Wire!ItemsFrom, Wire!Whole, Wire!OneOf, Empty, Sized, Items
<1> HIDE DEF says
<1> QED
  BY <1>2, <1>3 DEF says

LEMMA AsyncClientCallsSkips ==
  ASSUME NEW b, NEW o, NEW c \in Nat \ {180, 190, 200, 205, 410, 340, 350, 420,
                                      425, 430, 440, 445, 450, 520, 530, 540,
                                      550}
  PROVE  Wire(b)!AsyncClientCalls(c, o) = o
  BY WireNumbers DEF Wire!AsyncClientCalls

LEMMA AsyncClientCaptionsSays ==
  ASSUME NEW b, NEW o
  PROVE  LET says(c) == Wire(b)!AsyncClientCaptions(c, o)
         IN  /\ says(642) = Items(0, Counted(8, 1, 401))
             /\ says(645) = Items(0, Counted(8, 1, 401))
             /\ says(1045) = Items(0, Counted(8, 1, 401))
             /\ says(652) = Items(0, Counted(9, 1, 401))
             /\ says(655) = Items(0, Counted(9, 1, 401))
             /\ says(1055) = Items(0, Counted(9, 1, 401))
<1>1. /\ Wire(b)!TDCS_SetCaption = Counted(8, 1, 401)
      /\ Wire(b)!TSCD_SetCaptionResult = Counted(9, 1, 401)
  BY Unions DEF Counted, Wire!TDCS_SetCaption, Wire!TSCD_SetCaptionResult,
     Wire!CharTail, Wire!Int32, Wire!SUPLA_CAPTION_MAXSIZE, Wire!Char,
     Wire!Counted
<1> QED
  BY <1>1, WireNumbers DEF Wire!AsyncClientCaptions, Wire!SetCaption, Wire!UpTo,
       Wire!SomeOf, Wire!ItemsFrom, Wire!SetCaptionResult, Items

LEMMA AsyncClientCaptionsSkips ==
  ASSUME NEW b, NEW o, NEW c \in Nat \ {642, 645, 1045, 652, 655, 1055}
  PROVE  Wire(b)!AsyncClientCaptions(c, o) = o
  BY WireNumbers DEF Wire!AsyncClientCaptions

LEMMA AsyncClientRequestsSays ==
  ASSUME NEW b, NEW o
  PROVE  LET says(c) == Wire(b)!AsyncClientRequests(c, o)
         IN  /\ says(560) = Empty
             /\ says(570) = Sized({1})
             /\ says(580) = Sized({8})
             /\ says(590) = Sized({1})
             /\ says(600) = Sized({4})
             /\ says(610) = Sized({5})
             /\ says(800) = Sized({9})
             /\ says(900) = Packed(Counted(8, 420, 20), Counted(19, 1, 401))
             /\ says(910) = Packed(Counted(8, 220, 20), Counted(19, 1, 201))
<1>1. /\ Wire(b)!TSC_ClientsReconnectRequestResult = 1
      /\ Wire(b)!TCS_SetRegistrationEnabled = 8
      /\ Wire(b)!TSC_SetRegistrationEnabledResult = 1
      /\ Wire(b)!TCS_DeviceReconnectRequest = 4
      /\ Wire(b)!TSC_DeviceReconnectRequestResult = 5
      /\ Wire(b)!TCS_TimerArmRequest = 9
      /\ Wire(b)!TSC_SuplaScenePack = Counted(8, 420, 20)
      /\ Wire(b)!TSC_SuplaScene = Counted(19, 1, 401)
      /\ Wire(b)!TSC_SuplaSceneStatePack = Counted(8, 220, 20)
      /\ Wire(b)!TSC_SuplaSceneState = Counted(19, 1, 201)
  BY Unions DEF Counted, Wire!TSC_ClientsReconnectRequestResult,
     Wire!TCS_SetRegistrationEnabled, Wire!TSC_SetRegistrationEnabledResult,
     Wire!TCS_DeviceReconnectRequest, Wire!TSC_DeviceReconnectRequestResult,
     Wire!TCS_TimerArmRequest, Wire!TSC_SuplaScenePack, Wire!TSC_SuplaScene,
     Wire!TSC_SuplaSceneStatePack, Wire!TSC_SuplaSceneState, Wire!Char,
     Wire!Int32, Wire!Counted, Wire!SizeOf, Wire!SUPLA_SCENE_PACK_MAXCOUNT,
     Wire!CharTail, Wire!Int16, Wire!SUPLA_SCENE_CAPTION_MAXSIZE,
     Wire!SUPLA_SCENE_STATE_PACK_MAXCOUNT, Wire!SUPLA_INITIATOR_NAME_MAXSIZE,
     Wire!SUPLA_CAPTION_MAXSIZE, Wire!SUPLA_SENDER_NAME_MAXSIZE
<1> QED
  BY <1>1, WireNumbers DEF Wire!AsyncClientRequests, Wire!NoData, Wire!Whole,
       Wire!OneOf, Wire!Pack, Empty, Sized, Packed

LEMMA AsyncClientRequestsSkips ==
  ASSUME NEW b, NEW o, NEW c \in Nat \ {560, 570, 580, 590, 600, 610, 800, 900,
                                      910}
  PROVE  Wire(b)!AsyncClientRequests(c, o) = o
  BY WireNumbers DEF Wire!AsyncClientRequests

LEMMA AsyncClientActionsSays ==
  ASSUME NEW b, NEW o
  PROVE  LET says(c) == Wire(b)!AsyncClientActions(c, o)
         IN  /\ says(1000) = Items(0, Counted(11, 1, 500))
             /\ says(1010) = Items(0, Counted(401, 1, 500))
             /\ says(1020) = Sized({13})
             /\ says(1030) = Sized({394})
             /\ says(1040) = Items(0, Counted(31, 1, ExtendedValueSize[b]))
             /\ says(1120) = Items(0, Counted(454, 1, 256))
             /\ says(1121) = Sized({4})
             /\ says(1200) = Sized({9})
             /\ says(1210) = Items(0, Counted(12, 1, 512))
             /\ says(1220) = Items(0, Counted(11, 1, 512))
             /\ says(1240) = Sized({20})
             /\ says(1250) = Items(0, Counted(32, 1, 512))
<1>1. /\ Wire(b)!TCS_Action = Counted(11, 1, 500)
      /\ Wire(b)!TCS_ActionWithAuth = Counted(401, 1, 500)
      /\ Wire(b)!TSC_ActionExecutionResult = 13
      /\ Wire(b)!TCS_GetChannelValueWithAuth = 394
      /\ Wire(b)!TSC_GetChannelValueResult = Counted(31, 1, ExtendedValueSize[b])
      /\ Wire(b)!TCS_RegisterPnClientToken = Counted(454, 1, 256)
      /\ Wire(b)!TSC_RegisterPnClientTokenResult = 4
      /\ Wire(b)!TCS_GetChannelConfigRequest = 9
      /\ Wire(b)!TSC_ChannelConfigUpdateOrResult = Counted(12, 1, 512)
      /\ Wire(b)!TSCS_ChannelConfig = Counted(11, 1, 512)
      /\ Wire(b)!TCS_GetDeviceConfigRequest = 20
      /\ Wire(b)!TSC_DeviceConfigUpdateOrResult = Counted(32, 1, 512)
  BY Unions DEF Counted, Wire!TCS_Action, Wire!TCS_ActionWithAuth,
     Wire!TSC_ActionExecutionResult, Wire!TCS_GetChannelValueWithAuth,
     Wire!TSC_GetChannelValueResult, Wire!TCS_RegisterPnClientToken,
     Wire!TSC_RegisterPnClientTokenResult, Wire!TCS_GetChannelConfigRequest,
     Wire!TSC_ChannelConfigUpdateOrResult, Wire!TSCS_ChannelConfig,
     Wire!TCS_GetDeviceConfigRequest, Wire!TSC_DeviceConfigUpdateOrResult,
     Wire!CharTail, Wire!Int32, Wire!Char, Wire!Int16,
     Wire!SUPLA_ACTION_PARAM_MAXSIZE, Wire!After,
     Wire!TCS_ClientAuthorizationDetails, Wire!TSuplaChannelValue_B,
     Wire!TSuplaChannelExtendedValue, Wire!TCS_PnClientToken,
     Wire!SUPLA_CHANNEL_CONFIG_MAXSIZE, Wire!Int64, Wire!TSCS_DeviceConfig,
     Wire!Counted, Wire!SUPLA_ACCESSID_PWD_MAXSIZE, Wire!SUPLA_EMAIL_MAXSIZE,
     Wire!SUPLA_AUTHKEY_SIZE, Wire!SUPLA_GUID_SIZE,
     Wire!SUPLA_SERVER_NAME_MAXSIZE, Wire!SUPLA_CHANNELVALUE_SIZE,
     Wire!SUPLA_PN_PROFILE_NAME_MAXSIZE, Wire!SUPLA_PN_CLIENT_TOKEN_MAXSIZE,
     Wire!SUPLA_DEVICE_CONFIG_MAXSIZE
<1> QED
  BY <1>1, WireNumbers DEF Wire!AsyncClientActions, Wire!UpTo, Wire!SomeOf,
       Wire!ItemsFrom, Wire!Whole, Wire!OneOf, Sized, Items

LEMMA AsyncClientActionsSkips ==
  ASSUME NEW b, NEW o, NEW c \in Nat \ {1000, 1010, 1020, 1030, 1040, 1120,
                                      1121, 1200, 1210, 1220, 1240, 1250}
  PROVE  Wire(b)!AsyncClientActions(c, o) = o
  BY WireNumbers DEF Wire!AsyncClientActions

-----------------------------------------------------------------------------
(***************************************************************************)
(* What srpc_getdata reads, part by part                                   *)
(***************************************************************************)

LEMMA GetDataCommonReads ==
  ASSUME NEW b, NEW o, NEW u
  PROVE  /\ \A c \in {10, 320, 20, 30, 50, 210, 220, 330, 480, 490, 500, 510} :
                Wire(b)!GetDataCommon(c, o) = Wire(b)!AsyncCommon(c, u)
         /\ \A c \in {650} :
                Wire(b)!GetDataCommon(c, o) = Wire(b)!AsyncCaption(c, u)
         /\ \A c \in {180} :
                Wire(b)!GetDataCommon(c, o) = Wire(b)!AsyncClientCalls(c, u)
  BY WireNumbers DEF Wire!GetDataCommon, Wire!AsyncCommon, Wire!AsyncCaption,
     Wire!AsyncClientCalls, Wire!SetCaption, Wire!SetCaptionResult

LEMMA GetDataCommonSkips ==
  ASSUME NEW b, NEW o, NEW c \in Nat \ {10, 180, 320, 20, 30, 40, 50, 210, 220,
                                      330, 480, 490, 500, 510, 650}
  PROVE  Wire(b)!GetDataCommon(c, o) = o
  BY WireNumbers DEF Wire!GetDataCommon

LEMMA GetDataRegistrationReads ==
  ASSUME NEW b, NEW o, NEW u
  PROVE  /\ \A c \in {60, 65, 67, 68, 69} :
                Wire(b)!GetDataRegistration(c, o) = Wire(b)!AsyncRegisterDevice(c, u)
         /\ \A c \in {75, 76, 70, 71} :
                Wire(b)!GetDataRegistration(c, o) = Wire(b)!AsyncRegisterDeviceFG(c, u)
  BY WireNumbers DEF Wire!GetDataRegistration, Wire!AsyncRegisterDevice,
     Wire!AsyncRegisterDeviceFG

LEMMA GetDataRegistrationSkips ==
  ASSUME NEW b, NEW o, NEW c \in Nat \ {60, 65, 67, 68, 69, 75, 76, 70, 71}
  PROVE  Wire(b)!GetDataRegistration(c, o) = o
  BY WireNumbers DEF Wire!GetDataRegistration

LEMMA GetDataDeviceValuesReads ==
  ASSUME NEW b, NEW o, NEW u
  PROVE  /\ \A c \in {300} :
                Wire(b)!GetDataDeviceValues(c, o) = Wire(b)!AsyncRegisterDevice(c, u)
         /\ \A c \in {100, 102, 103, 110, 115, 120, 310} :
                Wire(b)!GetDataDeviceValues(c, o) = Wire(b)!AsyncDeviceValues(c, u)
         /\ \A c \in {105} : \E T :
                /\ Wire(b)!GetDataDeviceValues(c, o) = Wire(b)!UpTo(T)
                /\ Wire(b)!AsyncDeviceValues(c, u) = Wire(b)!SomeOf(T)
  BY WireNumbers DEF Wire!GetDataDeviceValues, Wire!AsyncRegisterDevice,
     Wire!AsyncDeviceValues

LEMMA GetDataDeviceValuesSkips ==
  ASSUME NEW b, NEW o, NEW c \in Nat \ {100, 102, 103, 105, 110, 115, 120, 300,
                                      310}
  PROVE  Wire(b)!GetDataDeviceValues(c, o) = o
  BY WireNumbers DEF Wire!GetDataDeviceValues

LEMMA GetDataDeviceConfigReads ==
  ASSUME NEW b, NEW o, NEW u
  PROVE  /\ \A c \in {460, 470, 620, 630, 680, 690, 681, 682, 692, 691, 683} :
                Wire(b)!GetDataDeviceConfig(c, o) = Wire(b)!AsyncDeviceConfig(c, u)
         /\ \A c \in {700, 1100, 1110, 684, 685, 694, 695, 1260} :
                Wire(b)!GetDataDeviceConfig(c, o) = Wire(b)!AsyncDeviceSettings(c, u)
  BY WireNumbers DEF Wire!GetDataDeviceConfig, Wire!AsyncDeviceConfig,
     Wire!AsyncDeviceSettings

LEMMA GetDataDeviceConfigSkips ==
  ASSUME NEW b, NEW o, NEW c \in Nat \ {460, 470, 620, 630, 680, 690, 700, 1100,
                                      1110, 681, 682, 692, 691, 683, 684, 685,
                                      694, 695, 1260}
  PROVE  Wire(b)!GetDataDeviceConfig(c, o) = o
  BY WireNumbers DEF Wire!GetDataDeviceConfig

LEMMA GetDataClientRegistrationReads ==
  ASSUME NEW b, NEW o, NEW u
  PROVE  /\ \A c \in {80, 85, 86, 87, 90, 92, 94, 96, 130} :
                Wire(b)!GetDataClientRegistration(c, o)
                    = Wire(b)!AsyncRegisterClient(c, u)
  BY WireNumbers DEF Wire!GetDataClientRegistration, Wire!AsyncRegisterClient

LEMMA GetDataClientRegistrationSkips ==
  ASSUME NEW b, NEW o, NEW c \in Nat \ {80, 85, 86, 87, 90, 92, 94, 96, 130}
  PROVE  Wire(b)!GetDataClientRegistration(c, o) = o
  BY WireNumbers DEF Wire!GetDataClientRegistration

LEMMA GetDataClientUpdatesReads ==
  ASSUME NEW b, NEW o, NEW u
  PROVE  /\ \A c \in {140, 160, 360, 361, 362, 363, 170, 171, 380, 381} :
                Wire(b)!GetDataClientUpdates(c, o) = Wire(b)!AsyncPacks(c, u)
         /\ \A c \in {390, 395, 400, 401, 405, 408} : \E T :
                /\ Wire(b)!GetDataClientUpdates(c, o) = Wire(b)!UpTo(T)
                /\ Wire(b)!AsyncValuePacks(c, u) = Wire(b)!SomeOf(T)
  BY WireNumbers DEF Wire!GetDataClientUpdates, Wire!AsyncPacks,
     Wire!AsyncValuePacks, Wire!GetLocationPack, Wire!GetChannelPack,
     Wire!GetChannelPack_B, Wire!GetChannelPack_C, Wire!GetChannelPack_D,
     Wire!GetChannelPack_E, Wire!GetChannelGroupPack, Wire!GetChannelGroupPack_B

LEMMA GetDataClientUpdatesSkips ==
  ASSUME NEW b, NEW o, NEW c \in Nat \ {140, 160, 360, 361, 362, 363, 170, 171,
                                      380, 381, 390, 395, 400, 401, 405, 408}
  PROVE  Wire(b)!GetDataClientUpdates(c, o) = o
  BY WireNumbers DEF Wire!GetDataClientUpdates

LEMMA GetDataClientCallsReads ==
  ASSUME NEW b, NEW o, NEW u
  PROVE  /\ \A c \in {640} :
                Wire(b)!GetDataClientCalls(c, o) = Wire(b)!AsyncCaption(c, u)
         /\ \A c \in {200, 410, 205, 190, 340, 350, 420, 425, 430, 440, 445,
                      450, 520, 530, 540, 550} :
                Wire(b)!GetDataClientCalls(c, o) = Wire(b)!AsyncClientCalls(c, u)
         /\ \A c \in {642, 645, 1045, 652, 655, 1055} :
                Wire(b)!GetDataClientCalls(c, o) = Wire(b)!AsyncClientCaptions(c, u)
         /\ \A c \in {560, 570} :
                Wire(b)!GetDataClientCalls(c, o) = Wire(b)!AsyncClientRequests(c, u)
<1>1. \A c \in {640} :
         Wire(b)!GetDataClientCalls(c, o) = Wire(b)!AsyncCaption(c, u)
  BY WireNumbers DEF Wire!GetDataClientCalls, Wire!AsyncCaption,
     Wire!AsyncClientCalls, Wire!AsyncClientCaptions, Wire!AsyncClientRequests,
     Wire!SetCaption, Wire!SetCaptionResult
<1>2. \A c \in {200, 410, 205, 190, 340, 350, 420, 425, 430, 440, 445,
               450, 520, 530, 540, 550} :
         Wire(b)!GetDataClientCalls(c, o) = Wire(b)!AsyncClientCalls(c, u)
  BY WireNumbers DEF Wire!GetDataClientCalls, Wire!AsyncCaption,
     Wire!AsyncClientCalls, Wire!AsyncClientCaptions, Wire!AsyncClientRequests,
     Wire!SetCaption, Wire!SetCaptionResult
<1>3. \A c \in {642, 645, 1045, 652, 655, 1055} :
         Wire(b)!GetDataClientCalls(c, o) = Wire(b)!AsyncClientCaptions(c, u)
  BY WireNumbers DEF Wire!GetDataClientCalls, Wire!AsyncCaption,
     Wire!AsyncClientCalls, Wire!AsyncClientCaptions, Wire!AsyncClientRequests,
     Wire!SetCaption, Wire!SetCaptionResult
<1>4. \A c \in {560, 570} :
         Wire(b)!GetDataClientCalls(c, o) = Wire(b)!AsyncClientRequests(c, u)
  BY WireNumbers DEF Wire!GetDataClientCalls, Wire!AsyncCaption,
     Wire!AsyncClientCalls, Wire!AsyncClientCaptions, Wire!AsyncClientRequests,
     Wire!SetCaption, Wire!SetCaptionResult
<1> QED
  BY <1>1, <1>2, <1>3, <1>4

LEMMA GetDataClientCallsSkips ==
  ASSUME NEW b, NEW o, NEW c \in Nat \ {200, 410, 205, 190, 340, 350, 420, 425,
                                      430, 440, 445, 450, 520, 530, 540, 550,
                                      640, 642, 645, 1045, 652, 655, 1055, 560,
                                      570}
  PROVE  Wire(b)!GetDataClientCalls(c, o) = o
  BY WireNumbers DEF Wire!GetDataClientCalls

LEMMA GetDataClientRequestsReads ==
  ASSUME NEW b, NEW o, NEW u
  PROVE  /\ \A c \in {580, 590, 600, 610, 800, 900, 910} :
                Wire(b)!GetDataClientRequests(c, o) = Wire(b)!AsyncClientRequests(c, u)
         /\ \A c \in {1000, 1010, 1020, 1030, 1040, 1120, 1121, 1220, 1200,
                      1210, 1240, 1250} :
                Wire(b)!GetDataClientRequests(c, o) = Wire(b)!AsyncClientActions(c, u)
  BY WireNumbers DEF Wire!GetDataClientRequests, Wire!AsyncClientRequests,
     Wire!AsyncClientActions, Wire!GetScenePack, Wire!GetSceneStatePack

LEMMA GetDataClientRequestsSkips ==
  ASSUME NEW b, NEW o, NEW c \in Nat \ {580, 590, 600, 610, 800, 900, 910, 1000,
                                      1010, 1020, 1030, 1040, 1120, 1121, 1220,
                                      1200, 1210, 1240, 1250}
  PROVE  Wire(b)!GetDataClientRequests(c, o) = o
  BY WireNumbers DEF Wire!GetDataClientRequests

-----------------------------------------------------------------------------
(***************************************************************************)
(* Who makes which call                                                    *)
(***************************************************************************)

(* The calls that each end makes, by their numbers.                         *)
LEMMA Directions ==
    /\ Numbers(DCS) = {10, 40, 210, 320, 480, 490, 640}
    /\ Numbers(SDC) = {20, 30, 50, 220, 330}
    /\ Numbers(DS) = {60, 65, 67, 68, 69, 75, 76, 100, 102, 103, 105, 120, 300,
         470, 620, 680, 681, 692, 684, 695, 700, 1100, 1110, 1260}
    /\ Numbers(SD) = {70, 71, 110, 115, 310, 460, 630, 690, 691, 682, 683, 694,
         685}
    /\ Numbers(CS) = {80, 85, 86, 87, 180, 200, 205, 340, 410, 420, 425, 440,
         445, 520, 540, 560, 580, 600, 642, 645, 800, 1000, 1010, 1030, 1045,
         1120, 1200, 1220, 1240}
    /\ Numbers(SC) = {90, 92, 94, 96, 130, 140, 160, 170, 171, 190, 350, 360,
         361, 362, 363, 380, 381, 390, 395, 400, 401, 405, 408, 430, 450, 530,
         550, 570, 590, 610, 652, 655, 900, 910, 1020, 1040, 1055, 1121, 1210,
         1250}
    /\ Numbers(CSD) = {500}
    /\ Numbers(DSC) = {510}
    /\ Numbers(SCD) = {650}
<1>1. Numbers(DCS) = {10, 40, 210, 320, 480, 490, 640}
  BY DEF Numbers, DCS
<1>2. Numbers(SDC) = {20, 30, 50, 220, 330}
  BY DEF Numbers, SDC
<1>3. Numbers(DS) = {60, 65, 67, 68, 69, 75, 76, 100, 102, 103, 105, 120, 300, 470,
         620, 680, 681, 692, 684, 695, 700, 1100, 1110, 1260}
  BY DEF Numbers, DS
<1>4. Numbers(SD) = {70, 71, 110, 115, 310, 460, 630, 690, 691, 682, 683, 694, 685}
  BY DEF Numbers, SD
<1>5. Numbers(CS) = {80, 85, 86, 87, 180, 200, 205, 340, 410, 420, 425, 440, 445, 520,
         540, 560, 580, 600, 642, 645, 800, 1000, 1010, 1030, 1045, 1120, 1200,
         1220, 1240}
  BY DEF Numbers, CS
<1>6. Numbers(SC) = {90, 92, 94, 96, 130, 140, 160, 170, 171, 190, 350, 360, 361, 362,
         363, 380, 381, 390, 395, 400, 401, 405, 408, 430, 450, 530, 550, 570,
         590, 610, 652, 655, 900, 910, 1020, 1040, 1055, 1121, 1210, 1250}
  BY DEF Numbers, SC
<1>7. Numbers(CSD) = {500}
  BY DEF Numbers, CSD
<1>8. Numbers(DSC) = {510}
  BY DEF Numbers, DSC
<1>9. Numbers(SCD) = {650}
  BY DEF Numbers, SCD
<1> QED
  BY <1>1, <1>2, <1>3, <1>4, <1>5, <1>6, <1>7, <1>8, <1>9

-----------------------------------------------------------------------------
(***************************************************************************)
(* The form of every message                                               *)
(*                                                                         *)
(* Sound: the largest message of a form is within a limit. Same: the form  *)
(* does not depend on the machine that writes it.                          *)
(***************************************************************************)

(* The forms that a message can have, and that its largest is within a limit. *)
IsLayout(T) == T.fixed \in Nat /\ T.item \in Nat /\ T.max \in Nat
IsForm(e) ==
    /\ e.form \in {"none", "whole", "items", "pack"}
    /\ e.form = "whole" => e.sizes \in SUBSET Nat
    /\ e.form = "items" => e.least \in {0, 1} /\ IsLayout(e.layout)
    /\ e.form = "pack" =>
           /\ IsLayout(e.layout) /\ IsLayout(e.item)
           /\ e.item.item = 1 /\ e.layout.item = e.item.fixed + e.item.max
Within(e, limit) ==
    /\ e.form = "whole" => \A size \in e.sizes : size <= limit
    /\ e.form \in {"items", "pack"} =>
           e.layout.fixed + e.layout.item * e.layout.max <= limit
Sound(e, limit) == IsForm(e) /\ Within(e, limit)

(* The room that packets and extended values have on each machine.          *)
LEMMA Sizes ==
  ASSUME NEW b \in DOMAIN MaxDataSize
  PROVE  /\ MaxDataSize[b] \in Nat /\ MaxDataSize[b] - 50 \in Nat
         /\ MaxDataSize[b] >= 600 /\ MaxDataSize[b] <= 10240
         /\ ExtendedValueSize[b] \in {256, 1024}
         /\ 6 + ExtendedValueSize[b] <= MaxDataSize[b]
  BY DEF MaxDataSize, ExtendedValueSize

LEMMA AsyncCommonSound ==
  ASSUME NEW b \in DOMAIN MaxDataSize, NEW o
  PROVE  /\ \A c \in {10, 20, 30, 40, 50, 210, 220, 320, 330, 480, 490, 500, 510} :
                Sound(Wire(b)!AsyncCommon(c, o), 10240)
         /\ \A c \in {10, 20, 30, 40, 50, 210, 220, 320, 330, 480, 490, 500, 510} :
                Within(Wire(b)!AsyncCommon(c, o), 600)
<1> DEFINE says(c) == Wire(b)!AsyncCommon(c, o)
<1>1. /\ Sound(says(10), 10240) /\ Sound(says(20), 10240)
      /\ Sound(says(30), 10240) /\ Sound(says(40), 10240)
      /\ Sound(says(50), 10240) /\ Sound(says(210), 10240)
      /\ Sound(says(220), 10240) /\ Sound(says(320), 10240)
      /\ Sound(says(330), 10240) /\ Sound(says(480), 10240)
  BY AsyncCommonSays
     DEF Sound, IsForm, IsLayout, Within, Counted, Empty, Sized, Items, Packed
<1>2. /\ Sound(says(490), 10240) /\ Sound(says(500), 10240)
      /\ Sound(says(510), 10240) /\ Within(says(10), 600)
      /\ Within(says(20), 600) /\ Within(says(30), 600)
      /\ Within(says(40), 600) /\ Within(says(50), 600)
      /\ Within(says(210), 600) /\ Within(says(220), 600)
  BY AsyncCommonSays
     DEF Sound, IsForm, IsLayout, Within, Counted, Empty, Sized, Items, Packed
<1>3. /\ Within(says(320), 600) /\ Within(says(330), 600)
      /\ Within(says(480), 600) /\ Within(says(490), 600)
      /\ Within(says(500), 600) /\ Within(says(510), 600)
  BY AsyncCommonSays
     DEF Sound, IsForm, IsLayout, Within, Counted, Empty, Sized, Items, Packed
<1> HIDE DEF says
<1> QED
  BY <1>1, <1>2, <1>3 DEF says

LEMMA AsyncCommonSame ==
  ASSUME NEW b, NEW b2, NEW o, NEW o2
  PROVE  \A c \in {10, 20, 30, 40, 50, 210, 220, 320, 330, 480, 490, 500, 510} :
             Wire(b)!AsyncCommon(c, o) = Wire(b2)!AsyncCommon(c, o2)
<1> DEFINE says(c) == Wire(b)!AsyncCommon(c, o)
           also(c) == Wire(b2)!AsyncCommon(c, o2)
<1>1. /\ says(10) = also(10) /\ says(20) = also(20) /\ says(30) = also(30)
      /\ says(40) = also(40) /\ says(50) = also(50) /\ says(210) = also(210)
      /\ says(220) = also(220) /\ says(320) = also(320)
      /\ says(330) = also(330) /\ says(480) = also(480)
  BY AsyncCommonSays
<1>2. /\ says(490) = also(490) /\ says(500) = also(500)
      /\ says(510) = also(510)
  BY AsyncCommonSays
<1> HIDE DEF says, also
<1> QED
  BY <1>1, <1>2 DEF says, also

LEMMA AsyncCaptionSound ==
  ASSUME NEW b \in DOMAIN MaxDataSize, NEW o
  PROVE  /\ \A c \in {640, 650} :
                Sound(Wire(b)!AsyncCaption(c, o), 10240)
         /\ \A c \in {640, 650} :
                Within(Wire(b)!AsyncCaption(c, o), 600)
<1> DEFINE says(c) == Wire(b)!AsyncCaption(c, o)
<1>1. /\ Sound(says(640), 10240) /\ Sound(says(650), 10240)
      /\ Within(says(640), 600) /\ Within(says(650), 600)
  BY AsyncCaptionSays
     DEF Sound, IsForm, IsLayout, Within, Counted, Empty, Sized, Items, Packed
<1> HIDE DEF says
<1> QED
  BY <1>1 DEF says

LEMMA AsyncCaptionSame ==
  ASSUME NEW b, NEW b2, NEW o, NEW o2
  PROVE  \A c \in {640, 650} :
             Wire(b)!AsyncCaption(c, o) = Wire(b2)!AsyncCaption(c, o2)
<1> DEFINE says(c) == Wire(b)!AsyncCaption(c, o)
           also(c) == Wire(b2)!AsyncCaption(c, o2)
<1>1. /\ says(640) = also(640) /\ says(650) = also(650)
  BY AsyncCaptionSays
<1> HIDE DEF says, also
<1> QED
  BY <1>1 DEF says, also

LEMMA AsyncRegisterDeviceSound ==
  ASSUME NEW b \in DOMAIN MaxDataSize, NEW o
  PROVE  /\ \A c \in {300, 60, 65, 67, 68, 69} :
                Sound(Wire(b)!AsyncRegisterDevice(c, o), 10240)
         /\ \A c \in {300} :
                Within(Wire(b)!AsyncRegisterDevice(c, o), 600)
<1> DEFINE says(c) == Wire(b)!AsyncRegisterDevice(c, o)
<1>1. /\ Sound(says(300), 10240) /\ Sound(says(60), 10240)
      /\ Sound(says(65), 10240) /\ Sound(says(67), 10240)
      /\ Sound(says(68), 10240) /\ Sound(says(69), 10240)
      /\ Within(says(300), 600)
  BY AsyncRegisterDeviceSays
     DEF Sound, IsForm, IsLayout, Within, Counted, Empty, Sized, Items, Packed
<1> HIDE DEF says
<1> QED
  BY <1>1 DEF says

LEMMA AsyncRegisterDeviceSame ==
  ASSUME NEW b, NEW b2, NEW o, NEW o2
  PROVE  \A c \in {300, 60, 65, 67, 68, 69} :
             Wire(b)!AsyncRegisterDevice(c, o) = Wire(b2)!AsyncRegisterDevice(c, o2)
<1> DEFINE says(c) == Wire(b)!AsyncRegisterDevice(c, o)
           also(c) == Wire(b2)!AsyncRegisterDevice(c, o2)
<1>1. /\ says(300) = also(300) /\ says(60) = also(60) /\ says(65) = also(65)
      /\ says(67) = also(67) /\ says(68) = also(68) /\ says(69) = also(69)
  BY AsyncRegisterDeviceSays
<1> HIDE DEF says, also
<1> QED
  BY <1>1 DEF says, also

LEMMA AsyncRegisterDeviceFGSound ==
  ASSUME NEW b \in DOMAIN MaxDataSize, NEW o
  PROVE  /\ \A c \in {75, 76, 70, 71} :
                Sound(Wire(b)!AsyncRegisterDeviceFG(c, o), 10240)
         /\ \A c \in {70, 71} :
                Within(Wire(b)!AsyncRegisterDeviceFG(c, o), 600)
<1> DEFINE says(c) == Wire(b)!AsyncRegisterDeviceFG(c, o)
<1>1. /\ Sound(says(75), 10240) /\ Sound(says(76), 10240)
      /\ Sound(says(70), 10240) /\ Sound(says(71), 10240)
      /\ Within(says(70), 600) /\ Within(says(71), 600)
  BY AsyncRegisterDeviceFGSays
     DEF Sound, IsForm, IsLayout, Within, Counted, Empty, Sized, Items, Packed
<1> HIDE DEF says
<1> QED
  BY <1>1 DEF says

LEMMA AsyncRegisterDeviceFGSame ==
  ASSUME NEW b, NEW b2, NEW o, NEW o2
  PROVE  \A c \in {75, 76, 70, 71} :
             Wire(b)!AsyncRegisterDeviceFG(c, o) = Wire(b2)!AsyncRegisterDeviceFG(c, o2)
<1> DEFINE says(c) == Wire(b)!AsyncRegisterDeviceFG(c, o)
           also(c) == Wire(b2)!AsyncRegisterDeviceFG(c, o2)
<1>1. /\ says(75) = also(75) /\ says(76) = also(76) /\ says(70) = also(70)
      /\ says(71) = also(71)
  BY AsyncRegisterDeviceFGSays
<1> HIDE DEF says, also
<1> QED
  BY <1>1 DEF says, also

LEMMA AsyncDeviceValuesSound ==
  ASSUME NEW b \in DOMAIN MaxDataSize, NEW o
  PROVE  /\ \A c \in {110, 115, 120, 310, 100, 102, 103, 105} :
                Sound(Wire(b)!AsyncDeviceValues(c, o), 10240)
         /\ \A c \in {110, 115, 120, 310, 100, 102, 103} :
                Within(Wire(b)!AsyncDeviceValues(c, o), 600)
<1> DEFINE says(c) == Wire(b)!AsyncDeviceValues(c, o)
<1>1. /\ Sound(says(110), 10240) /\ Sound(says(115), 10240)
      /\ Sound(says(120), 10240) /\ Sound(says(310), 10240)
      /\ Sound(says(100), 10240) /\ Sound(says(102), 10240)
      /\ Sound(says(103), 10240) /\ Sound(says(105), 10240)
      /\ Within(says(110), 600) /\ Within(says(115), 600)
  BY AsyncDeviceValuesSays, Sizes
     DEF Sound, IsForm, IsLayout, Within, Counted, Empty, Sized, Items, Packed
<1>2. /\ Within(says(120), 600) /\ Within(says(310), 600)
      /\ Within(says(100), 600) /\ Within(says(102), 600)
      /\ Within(says(103), 600)
  BY AsyncDeviceValuesSays, Sizes
     DEF Sound, IsForm, IsLayout, Within, Counted, Empty, Sized, Items, Packed
<1> HIDE DEF says
<1> QED
  BY <1>1, <1>2 DEF says

LEMMA AsyncDeviceValuesSame ==
  ASSUME NEW b, NEW b2, NEW o, NEW o2
  PROVE  \A c \in {110, 115, 120, 310, 100, 102, 103} :
             Wire(b)!AsyncDeviceValues(c, o) = Wire(b2)!AsyncDeviceValues(c, o2)
<1> DEFINE says(c) == Wire(b)!AsyncDeviceValues(c, o)
           also(c) == Wire(b2)!AsyncDeviceValues(c, o2)
<1>1. /\ says(110) = also(110) /\ says(115) = also(115)
      /\ says(120) = also(120) /\ says(310) = also(310)
      /\ says(100) = also(100) /\ says(102) = also(102)
      /\ says(103) = also(103)
  BY AsyncDeviceValuesSays
<1> HIDE DEF says, also
<1> QED
  BY <1>1 DEF says, also

LEMMA AsyncDeviceConfigSound ==
  ASSUME NEW b \in DOMAIN MaxDataSize, NEW o
  PROVE  /\ \A c \in {460, 470, 620, 630, 680, 690, 682, 692, 681, 691, 683} :
                Sound(Wire(b)!AsyncDeviceConfig(c, o), 10240)
         /\ \A c \in {460, 470, 620, 630, 680, 690, 682, 692, 681, 691, 683} :
                Within(Wire(b)!AsyncDeviceConfig(c, o), 600)
<1> DEFINE says(c) == Wire(b)!AsyncDeviceConfig(c, o)
<1>1. /\ Sound(says(460), 10240) /\ Sound(says(470), 10240)
      /\ Sound(says(620), 10240) /\ Sound(says(630), 10240)
      /\ Sound(says(680), 10240) /\ Sound(says(690), 10240)
      /\ Sound(says(682), 10240) /\ Sound(says(692), 10240)
      /\ Sound(says(681), 10240) /\ Sound(says(691), 10240)
  BY AsyncDeviceConfigSays
     DEF Sound, IsForm, IsLayout, Within, Counted, Empty, Sized, Items, Packed
<1>2. /\ Sound(says(683), 10240) /\ Within(says(460), 600)
      /\ Within(says(470), 600) /\ Within(says(620), 600)
      /\ Within(says(630), 600) /\ Within(says(680), 600)
      /\ Within(says(690), 600) /\ Within(says(682), 600)
      /\ Within(says(692), 600) /\ Within(says(681), 600)
  BY AsyncDeviceConfigSays
     DEF Sound, IsForm, IsLayout, Within, Counted, Empty, Sized, Items, Packed
<1>3. /\ Within(says(691), 600) /\ Within(says(683), 600)
  BY AsyncDeviceConfigSays
     DEF Sound, IsForm, IsLayout, Within, Counted, Empty, Sized, Items, Packed
<1> HIDE DEF says
<1> QED
  BY <1>1, <1>2, <1>3 DEF says

LEMMA AsyncDeviceConfigSame ==
  ASSUME NEW b, NEW b2, NEW o, NEW o2
  PROVE  \A c \in {460, 470, 620, 630, 680, 690, 682, 692, 681, 691, 683} :
             Wire(b)!AsyncDeviceConfig(c, o) = Wire(b2)!AsyncDeviceConfig(c, o2)
<1> DEFINE says(c) == Wire(b)!AsyncDeviceConfig(c, o)
           also(c) == Wire(b2)!AsyncDeviceConfig(c, o2)
<1>1. /\ says(460) = also(460) /\ says(470) = also(470)
      /\ says(620) = also(620) /\ says(630) = also(630)
      /\ says(680) = also(680) /\ says(690) = also(690)
      /\ says(682) = also(682) /\ says(692) = also(692)
      /\ says(681) = also(681) /\ says(691) = also(691)
  BY AsyncDeviceConfigSays
<1>2. /\ says(683) = also(683)
  BY AsyncDeviceConfigSays
<1> HIDE DEF says, also
<1> QED
  BY <1>1, <1>2 DEF says, also

LEMMA AsyncDeviceSettingsSound ==
  ASSUME NEW b \in DOMAIN MaxDataSize, NEW o
  PROVE  /\ \A c \in {685, 695, 684, 694, 700, 1100, 1110, 1260} :
                Sound(Wire(b)!AsyncDeviceSettings(c, o), 10240)
         /\ \A c \in {685, 695, 684, 694, 700, 1100, 1110, 1260} :
                Within(Wire(b)!AsyncDeviceSettings(c, o), 600)
<1> DEFINE says(c) == Wire(b)!AsyncDeviceSettings(c, o)
<1>1. /\ Sound(says(685), 10240) /\ Sound(says(695), 10240)
      /\ Sound(says(684), 10240) /\ Sound(says(694), 10240)
      /\ Sound(says(700), 10240) /\ Sound(says(1100), 10240)
      /\ Sound(says(1110), 10240) /\ Sound(says(1260), 10240)
      /\ Within(says(685), 600) /\ Within(says(695), 600)
  BY AsyncDeviceSettingsSays
     DEF Sound, IsForm, IsLayout, Within, Counted, Empty, Sized, Items, Packed
<1>2. /\ Within(says(684), 600) /\ Within(says(694), 600)
      /\ Within(says(700), 600) /\ Within(says(1100), 600)
      /\ Within(says(1110), 600) /\ Within(says(1260), 600)
  BY AsyncDeviceSettingsSays
     DEF Sound, IsForm, IsLayout, Within, Counted, Empty, Sized, Items, Packed
<1> HIDE DEF says
<1> QED
  BY <1>1, <1>2 DEF says

LEMMA AsyncDeviceSettingsSame ==
  ASSUME NEW b, NEW b2, NEW o, NEW o2
  PROVE  \A c \in {685, 695, 684, 694, 700, 1100, 1110, 1260} :
             Wire(b)!AsyncDeviceSettings(c, o) = Wire(b2)!AsyncDeviceSettings(c, o2)
<1> DEFINE says(c) == Wire(b)!AsyncDeviceSettings(c, o)
           also(c) == Wire(b2)!AsyncDeviceSettings(c, o2)
<1>1. /\ says(685) = also(685) /\ says(695) = also(695)
      /\ says(684) = also(684) /\ says(694) = also(694)
      /\ says(700) = also(700) /\ says(1100) = also(1100)
      /\ says(1110) = also(1110) /\ says(1260) = also(1260)
  BY AsyncDeviceSettingsSays
<1> HIDE DEF says, also
<1> QED
  BY <1>1 DEF says, also

LEMMA AsyncRegisterClientSound ==
  ASSUME NEW b \in DOMAIN MaxDataSize, NEW o
  PROVE  /\ \A c \in {80, 85, 86, 87, 90, 92, 94, 96, 130} :
                Sound(Wire(b)!AsyncRegisterClient(c, o), 10240)
<1> DEFINE says(c) == Wire(b)!AsyncRegisterClient(c, o)
<1>1. /\ Sound(says(80), 10240) /\ Sound(says(85), 10240)
      /\ Sound(says(86), 10240) /\ Sound(says(87), 10240)
      /\ Sound(says(90), 10240) /\ Sound(says(92), 10240)
      /\ Sound(says(94), 10240) /\ Sound(says(96), 10240)
      /\ Sound(says(130), 10240)
  BY AsyncRegisterClientSays
     DEF Sound, IsForm, IsLayout, Within, Counted, Empty, Sized, Items, Packed
<1> HIDE DEF says
<1> QED
  BY <1>1 DEF says

LEMMA AsyncRegisterClientSame ==
  ASSUME NEW b, NEW b2, NEW o, NEW o2
  PROVE  \A c \in {80, 85, 86, 87, 90, 92, 94, 96, 130} :
             Wire(b)!AsyncRegisterClient(c, o) = Wire(b2)!AsyncRegisterClient(c, o2)
<1> DEFINE says(c) == Wire(b)!AsyncRegisterClient(c, o)
           also(c) == Wire(b2)!AsyncRegisterClient(c, o2)
<1>1. /\ says(80) = also(80) /\ says(85) = also(85) /\ says(86) = also(86)
      /\ says(87) = also(87) /\ says(90) = also(90) /\ says(92) = also(92)
      /\ says(94) = also(94) /\ says(96) = also(96) /\ says(130) = also(130)
  BY AsyncRegisterClientSays
<1> HIDE DEF says, also
<1> QED
  BY <1>1 DEF says, also

LEMMA AsyncPacksSound ==
  ASSUME NEW b \in DOMAIN MaxDataSize, NEW o
  PROVE  /\ \A c \in {140, 160, 360, 361, 362, 363, 170, 171, 380, 381} :
                Sound(Wire(b)!AsyncPacks(c, o), 10240)
<1> DEFINE says(c) == Wire(b)!AsyncPacks(c, o)
<1>1. /\ Sound(says(140), 10240) /\ Sound(says(160), 10240)
      /\ Sound(says(360), 10240) /\ Sound(says(361), 10240)
      /\ Sound(says(362), 10240) /\ Sound(says(363), 10240)
      /\ Sound(says(170), 10240) /\ Sound(says(171), 10240)
      /\ Sound(says(380), 10240) /\ Sound(says(381), 10240)
  BY AsyncPacksSays
     DEF Sound, IsForm, IsLayout, Within, Counted, Empty, Sized, Items, Packed
<1> HIDE DEF says
<1> QED
  BY <1>1 DEF says

LEMMA AsyncPacksSame ==
  ASSUME NEW b, NEW b2, NEW o, NEW o2
  PROVE  \A c \in {140, 160, 360, 361, 362, 363, 170, 171, 380, 381} :
             Wire(b)!AsyncPacks(c, o) = Wire(b2)!AsyncPacks(c, o2)
<1> DEFINE says(c) == Wire(b)!AsyncPacks(c, o)
           also(c) == Wire(b2)!AsyncPacks(c, o2)
<1>1. /\ says(140) = also(140) /\ says(160) = also(160)
      /\ says(360) = also(360) /\ says(361) = also(361)
      /\ says(362) = also(362) /\ says(363) = also(363)
      /\ says(170) = also(170) /\ says(171) = also(171)
      /\ says(380) = also(380) /\ says(381) = also(381)
  BY AsyncPacksSays
<1> HIDE DEF says, also
<1> QED
  BY <1>1 DEF says, also

LEMMA AsyncValuePacksSound ==
  ASSUME NEW b \in DOMAIN MaxDataSize, NEW o
  PROVE  /\ \A c \in {390, 395, 400, 401, 405, 408} :
                Sound(Wire(b)!AsyncValuePacks(c, o), 10240)
<1> DEFINE says(c) == Wire(b)!AsyncValuePacks(c, o)
<1>1. /\ Sound(says(390), 10240) /\ Sound(says(395), 10240)
      /\ Sound(says(400), 10240) /\ Sound(says(401), 10240)
      /\ Sound(says(405), 10240) /\ Sound(says(408), 10240)
  BY AsyncValuePacksSays, Sizes
     DEF Sound, IsForm, IsLayout, Within, Counted, Empty, Sized, Items, Packed
<1> HIDE DEF says
<1> QED
  BY <1>1 DEF says

LEMMA AsyncValuePacksSame ==
  ASSUME NEW b, NEW b2, NEW o, NEW o2
  PROVE  \A c \in {390, 395, 400, 401, 408} :
             Wire(b)!AsyncValuePacks(c, o) = Wire(b2)!AsyncValuePacks(c, o2)
<1> DEFINE says(c) == Wire(b)!AsyncValuePacks(c, o)
           also(c) == Wire(b2)!AsyncValuePacks(c, o2)
<1>1. /\ says(390) = also(390) /\ says(395) = also(395)
      /\ says(400) = also(400) /\ says(401) = also(401)
      /\ says(408) = also(408)
  BY AsyncValuePacksSays
<1> HIDE DEF says, also
<1> QED
  BY <1>1 DEF says, also

LEMMA AsyncClientCallsSound ==
  ASSUME NEW b \in DOMAIN MaxDataSize, NEW o
  PROVE  /\ \A c \in {180, 190, 200, 205, 410, 340, 350, 420, 425, 430, 440,
                      445, 450, 520, 530, 540, 550} :
                Sound(Wire(b)!AsyncClientCalls(c, o), 10240)
<1> DEFINE says(c) == Wire(b)!AsyncClientCalls(c, o)
<1>1. /\ Sound(says(180), 10240) /\ Sound(says(190), 10240)
      /\ Sound(says(200), 10240) /\ Sound(says(205), 10240)
      /\ Sound(says(410), 10240) /\ Sound(says(340), 10240)
      /\ Sound(says(350), 10240) /\ Sound(says(420), 10240)
      /\ Sound(says(425), 10240) /\ Sound(says(430), 10240)
  BY AsyncClientCallsSays
     DEF Sound, IsForm, IsLayout, Within, Counted, Empty, Sized, Items, Packed
<1>2. /\ Sound(says(440), 10240) /\ Sound(says(445), 10240)
      /\ Sound(says(450), 10240) /\ Sound(says(520), 10240)
      /\ Sound(says(530), 10240) /\ Sound(says(540), 10240)
      /\ Sound(says(550), 10240)
  BY AsyncClientCallsSays
     DEF Sound, IsForm, IsLayout, Within, Counted, Empty, Sized, Items, Packed
<1> HIDE DEF says
<1> QED
  BY <1>1, <1>2 DEF says

LEMMA AsyncClientCallsSame ==
  ASSUME NEW b, NEW b2, NEW o, NEW o2
  PROVE  \A c \in {180, 190, 200, 205, 410, 340, 350, 420, 425, 430, 440, 445,
                   450, 520, 530, 540, 550} :
             Wire(b)!AsyncClientCalls(c, o) = Wire(b2)!AsyncClientCalls(c, o2)
<1> DEFINE says(c) == Wire(b)!AsyncClientCalls(c, o)
           also(c) == Wire(b2)!AsyncClientCalls(c, o2)
<1>1. /\ says(180) = also(180) /\ says(190) = also(190)
      /\ says(200) = also(200) /\ says(205) = also(205)
      /\ says(410) = also(410) /\ says(340) = also(340)
      /\ says(350) = also(350) /\ says(420) = also(420)
      /\ says(425) = also(425) /\ says(430) = also(430)
  BY AsyncClientCallsSays
<1>2. /\ says(440) = also(440) /\ says(445) = also(445)
      /\ says(450) = also(450) /\ says(520) = also(520)
      /\ says(530) = also(530) /\ says(540) = also(540)
      /\ says(550) = also(550)
  BY AsyncClientCallsSays
<1> HIDE DEF says, also
<1> QED
  BY <1>1, <1>2 DEF says, also

LEMMA AsyncClientCaptionsSound ==
  ASSUME NEW b \in DOMAIN MaxDataSize, NEW o
  PROVE  /\ \A c \in {642, 645, 1045, 652, 655, 1055} :
                Sound(Wire(b)!AsyncClientCaptions(c, o), 10240)
<1> DEFINE says(c) == Wire(b)!AsyncClientCaptions(c, o)
<1>1. /\ Sound(says(642), 10240) /\ Sound(says(645), 10240)
      /\ Sound(says(1045), 10240) /\ Sound(says(652), 10240)
      /\ Sound(says(655), 10240) /\ Sound(says(1055), 10240)
  BY AsyncClientCaptionsSays
     DEF Sound, IsForm, IsLayout, Within, Counted, Empty, Sized, Items, Packed
<1> HIDE DEF says
<1> QED
  BY <1>1 DEF says

LEMMA AsyncClientCaptionsSame ==
  ASSUME NEW b, NEW b2, NEW o, NEW o2
  PROVE  \A c \in {642, 645, 1045, 652, 655, 1055} :
             Wire(b)!AsyncClientCaptions(c, o) = Wire(b2)!AsyncClientCaptions(c, o2)
<1> DEFINE says(c) == Wire(b)!AsyncClientCaptions(c, o)
           also(c) == Wire(b2)!AsyncClientCaptions(c, o2)
<1>1. /\ says(642) = also(642) /\ says(645) = also(645)
      /\ says(1045) = also(1045) /\ says(652) = also(652)
      /\ says(655) = also(655) /\ says(1055) = also(1055)
  BY AsyncClientCaptionsSays
<1> HIDE DEF says, also
<1> QED
  BY <1>1 DEF says, also

LEMMA AsyncClientRequestsSound ==
  ASSUME NEW b \in DOMAIN MaxDataSize, NEW o
  PROVE  /\ \A c \in {560, 570, 580, 590, 600, 610, 800, 900, 910} :
                Sound(Wire(b)!AsyncClientRequests(c, o), 10240)
<1> DEFINE says(c) == Wire(b)!AsyncClientRequests(c, o)
<1>1. /\ Sound(says(560), 10240) /\ Sound(says(570), 10240)
      /\ Sound(says(580), 10240) /\ Sound(says(590), 10240)
      /\ Sound(says(600), 10240) /\ Sound(says(610), 10240)
      /\ Sound(says(800), 10240) /\ Sound(says(900), 10240)
      /\ Sound(says(910), 10240)
  BY AsyncClientRequestsSays
     DEF Sound, IsForm, IsLayout, Within, Counted, Empty, Sized, Items, Packed
<1> HIDE DEF says
<1> QED
  BY <1>1 DEF says

LEMMA AsyncClientRequestsSame ==
  ASSUME NEW b, NEW b2, NEW o, NEW o2
  PROVE  \A c \in {560, 570, 580, 590, 600, 610, 800, 900, 910} :
             Wire(b)!AsyncClientRequests(c, o) = Wire(b2)!AsyncClientRequests(c, o2)
<1> DEFINE says(c) == Wire(b)!AsyncClientRequests(c, o)
           also(c) == Wire(b2)!AsyncClientRequests(c, o2)
<1>1. /\ says(560) = also(560) /\ says(570) = also(570)
      /\ says(580) = also(580) /\ says(590) = also(590)
      /\ says(600) = also(600) /\ says(610) = also(610)
      /\ says(800) = also(800) /\ says(900) = also(900)
      /\ says(910) = also(910)
  BY AsyncClientRequestsSays
<1> HIDE DEF says, also
<1> QED
  BY <1>1 DEF says, also

LEMMA AsyncClientActionsSound ==
  ASSUME NEW b \in DOMAIN MaxDataSize, NEW o
  PROVE  /\ \A c \in {1000, 1010, 1020, 1030, 1040, 1120, 1121, 1200, 1210,
                      1220, 1240, 1250} :
                Sound(Wire(b)!AsyncClientActions(c, o), 10240)
<1> DEFINE says(c) == Wire(b)!AsyncClientActions(c, o)
<1>1. /\ Sound(says(1000), 10240) /\ Sound(says(1010), 10240)
      /\ Sound(says(1020), 10240) /\ Sound(says(1030), 10240)
      /\ Sound(says(1040), 10240) /\ Sound(says(1120), 10240)
      /\ Sound(says(1121), 10240) /\ Sound(says(1200), 10240)
      /\ Sound(says(1210), 10240) /\ Sound(says(1220), 10240)
  BY AsyncClientActionsSays, Sizes
     DEF Sound, IsForm, IsLayout, Within, Counted, Empty, Sized, Items, Packed
<1>2. /\ Sound(says(1240), 10240) /\ Sound(says(1250), 10240)
  BY AsyncClientActionsSays, Sizes
     DEF Sound, IsForm, IsLayout, Within, Counted, Empty, Sized, Items, Packed
<1> HIDE DEF says
<1> QED
  BY <1>1, <1>2 DEF says

LEMMA AsyncClientActionsSame ==
  ASSUME NEW b, NEW b2, NEW o, NEW o2
  PROVE  \A c \in {1000, 1010, 1020, 1030, 1120, 1121, 1200, 1210, 1220, 1240,
                   1250} :
             Wire(b)!AsyncClientActions(c, o) = Wire(b2)!AsyncClientActions(c, o2)
<1> DEFINE says(c) == Wire(b)!AsyncClientActions(c, o)
           also(c) == Wire(b2)!AsyncClientActions(c, o2)
<1>1. /\ says(1000) = also(1000) /\ says(1010) = also(1010)
      /\ says(1020) = also(1020) /\ says(1030) = also(1030)
      /\ says(1120) = also(1120) /\ says(1121) = also(1121)
      /\ says(1200) = also(1200) /\ says(1210) = also(1210)
      /\ says(1220) = also(1220) /\ says(1240) = also(1240)
  BY AsyncClientActionsSays
<1>2. /\ says(1250) = also(1250)
  BY AsyncClientActionsSays
<1> HIDE DEF says, also
<1> QED
  BY <1>1, <1>2 DEF says, also

-----------------------------------------------------------------------------
(***************************************************************************)
(* The tables as wholes                                                    *)
(***************************************************************************)

(* Which part of the table speaks of a call.                                *)
LEMMA AsyncIs ==
  ASSUME NEW b
  PROVE  /\ \A c \in {10, 20, 30, 40, 50, 210, 220, 320, 330, 480, 490,
                      500, 510} : \E u :
                Wire(b)!Async(c) = Wire(b)!AsyncCommon(c, u)
         /\ \A c \in {640, 650} : \E u :
                Wire(b)!Async(c) = Wire(b)!AsyncCaption(c, u)
         /\ \A c \in {300, 60, 65, 67, 68, 69} : \E u :
                Wire(b)!Async(c) = Wire(b)!AsyncRegisterDevice(c, u)
         /\ \A c \in {75, 76, 70, 71} : \E u :
                Wire(b)!Async(c) = Wire(b)!AsyncRegisterDeviceFG(c, u)
         /\ \A c \in {110, 115, 120, 310, 100, 102, 103, 105} : \E u :
                Wire(b)!Async(c) = Wire(b)!AsyncDeviceValues(c, u)
         /\ \A c \in {460, 470, 620, 630, 680, 690, 682, 692, 681, 691, 683} : \E u :
                Wire(b)!Async(c) = Wire(b)!AsyncDeviceConfig(c, u)
         /\ \A c \in {685, 695, 684, 694, 700, 1100, 1110, 1260} : \E u :
                Wire(b)!Async(c) = Wire(b)!AsyncDeviceSettings(c, u)
         /\ \A c \in {80, 85, 86, 87, 90, 92, 94, 96, 130} : \E u :
                Wire(b)!Async(c) = Wire(b)!AsyncRegisterClient(c, u)
         /\ \A c \in {140, 160, 360, 361, 362, 363, 170, 171, 380, 381} : \E u :
                Wire(b)!Async(c) = Wire(b)!AsyncPacks(c, u)
         /\ \A c \in {390, 395, 400, 401, 405, 408} : \E u :
                Wire(b)!Async(c) = Wire(b)!AsyncValuePacks(c, u)
         /\ \A c \in {180, 190, 200, 205, 410, 340, 350, 420, 425, 430, 440,
                      445, 450, 520, 530, 540, 550} : \E u :
                Wire(b)!Async(c) = Wire(b)!AsyncClientCalls(c, u)
         /\ \A c \in {642, 645, 1045, 652, 655, 1055} : \E u :
                Wire(b)!Async(c) = Wire(b)!AsyncClientCaptions(c, u)
         /\ \A c \in {560, 570, 580, 590, 600, 610, 800, 900, 910} : \E u :
                Wire(b)!Async(c) = Wire(b)!AsyncClientRequests(c, u)
         /\ \A c \in {1000, 1010, 1020, 1030, 1040, 1120, 1121, 1200, 1210,
                      1220, 1240, 1250} : \E u :
                Wire(b)!Async(c) = Wire(b)!AsyncClientActions(c, u)
<1> DEFINE
     rest13(c) == Wire(b)!AsyncClientActions(c, Wire(b)!NoMessage)
     rest12(c) == Wire(b)!AsyncClientRequests(c, rest13(c))
     rest11(c) == Wire(b)!AsyncClientCaptions(c, rest12(c))
     rest10(c) == Wire(b)!AsyncClientCalls(c, rest11(c))
     rest9(c) == Wire(b)!AsyncValuePacks(c, rest10(c))
     rest8(c) == Wire(b)!AsyncPacks(c, rest9(c))
     rest7(c) == Wire(b)!AsyncRegisterClient(c, rest8(c))
     rest6(c) == Wire(b)!AsyncDeviceSettings(c, rest7(c))
     rest5(c) == Wire(b)!AsyncDeviceConfig(c, rest6(c))
     rest4(c) == Wire(b)!AsyncDeviceValues(c, rest5(c))
     rest3(c) == Wire(b)!AsyncRegisterDeviceFG(c, rest4(c))
     rest2(c) == Wire(b)!AsyncRegisterDevice(c, rest3(c))
     rest1(c) == Wire(b)!AsyncCaption(c, rest2(c))
     rest0(c) == Wire(b)!AsyncCommon(c, rest1(c))
<1>0. \A c : Wire(b)!Async(c) = rest0(c)
  BY DEF Wire!Async
<1> HIDE DEF rest0, rest1, rest2, rest3, rest4, rest5, rest6, rest7, rest8,
             rest9, rest10, rest11, rest12, rest13
<1>1. ASSUME NEW c \in Nat \ {10, 20, 30, 40, 50, 210, 220, 320, 330, 480, 490,
                              500, 510}
      PROVE  rest0(c) = rest1(c)
  BY AsyncCommonSkips DEF rest0
<1>2. ASSUME NEW c \in Nat \ {640, 650}
      PROVE  rest1(c) = rest2(c)
  BY AsyncCaptionSkips DEF rest1
<1>3. ASSUME NEW c \in Nat \ {300, 60, 65, 67, 68, 69}
      PROVE  rest2(c) = rest3(c)
  BY AsyncRegisterDeviceSkips DEF rest2
<1>4. ASSUME NEW c \in Nat \ {75, 76, 70, 71}
      PROVE  rest3(c) = rest4(c)
  BY AsyncRegisterDeviceFGSkips DEF rest3
<1>5. ASSUME NEW c \in Nat \ {110, 115, 120, 310, 100, 102, 103, 105}
      PROVE  rest4(c) = rest5(c)
  BY AsyncDeviceValuesSkips DEF rest4
<1>6. ASSUME NEW c \in Nat \ {460, 470, 620, 630, 680, 690, 682, 692, 681, 691,
                              683}
      PROVE  rest5(c) = rest6(c)
  BY AsyncDeviceConfigSkips DEF rest5
<1>7. ASSUME NEW c \in Nat \ {685, 695, 684, 694, 700, 1100, 1110, 1260}
      PROVE  rest6(c) = rest7(c)
  BY AsyncDeviceSettingsSkips DEF rest6
<1>8. ASSUME NEW c \in Nat \ {80, 85, 86, 87, 90, 92, 94, 96, 130}
      PROVE  rest7(c) = rest8(c)
  BY AsyncRegisterClientSkips DEF rest7
<1>9. ASSUME NEW c \in Nat \ {140, 160, 360, 361, 362, 363, 170, 171, 380, 381}
      PROVE  rest8(c) = rest9(c)
  BY AsyncPacksSkips DEF rest8
<1>10. ASSUME NEW c \in Nat \ {390, 395, 400, 401, 405, 408}
      PROVE  rest9(c) = rest10(c)
  BY AsyncValuePacksSkips DEF rest9
<1>11. ASSUME NEW c \in Nat \ {180, 190, 200, 205, 410, 340, 350, 420, 425, 430,
                               440, 445, 450, 520, 530, 540, 550}
      PROVE  rest10(c) = rest11(c)
  BY AsyncClientCallsSkips DEF rest10
<1>12. ASSUME NEW c \in Nat \ {642, 645, 1045, 652, 655, 1055}
      PROVE  rest11(c) = rest12(c)
  BY AsyncClientCaptionsSkips DEF rest11
<1>13. ASSUME NEW c \in Nat \ {560, 570, 580, 590, 600, 610, 800, 900, 910}
      PROVE  rest12(c) = rest13(c)
  BY AsyncClientRequestsSkips DEF rest12
<1>14. \A c \in {10, 20, 30, 40, 50, 210, 220, 320, 330, 480, 490, 500, 510} :
            Wire(b)!Async(c) = Wire(b)!AsyncCommon(c, rest1(c))
  BY <1>0 DEF rest0
<1>15. \A c \in {640, 650} :
            Wire(b)!Async(c) = Wire(b)!AsyncCaption(c, rest2(c))
  BY <1>0, <1>1 DEF rest1
<1>16. \A c \in {300, 60, 65, 67, 68, 69} :
            Wire(b)!Async(c) = Wire(b)!AsyncRegisterDevice(c, rest3(c))
  BY <1>0, <1>1, <1>2 DEF rest2
<1>17. \A c \in {75, 76, 70, 71} :
            Wire(b)!Async(c) = Wire(b)!AsyncRegisterDeviceFG(c, rest4(c))
  BY <1>0, <1>1, <1>2, <1>3 DEF rest3
<1>18. \A c \in {110, 115, 120, 310, 100, 102, 103, 105} :
            Wire(b)!Async(c) = Wire(b)!AsyncDeviceValues(c, rest5(c))
  BY <1>0, <1>1, <1>2, <1>3, <1>4 DEF rest4
<1>19. \A c \in {460, 470, 620, 630, 680, 690, 682, 692, 681, 691, 683} :
            Wire(b)!Async(c) = Wire(b)!AsyncDeviceConfig(c, rest6(c))
  BY <1>0, <1>1, <1>2, <1>3, <1>4, <1>5 DEF rest5
<1>20. \A c \in {685, 695, 684, 694, 700, 1100, 1110, 1260} :
            Wire(b)!Async(c) = Wire(b)!AsyncDeviceSettings(c, rest7(c))
  BY <1>0, <1>1, <1>2, <1>3, <1>4, <1>5, <1>6 DEF rest6
<1>21. \A c \in {80, 85, 86, 87, 90, 92, 94, 96, 130} :
            Wire(b)!Async(c) = Wire(b)!AsyncRegisterClient(c, rest8(c))
  BY <1>0, <1>1, <1>2, <1>3, <1>4, <1>5, <1>6, <1>7 DEF rest7
<1>22. \A c \in {140, 160, 360, 361, 362, 363, 170, 171, 380, 381} :
            Wire(b)!Async(c) = Wire(b)!AsyncPacks(c, rest9(c))
  BY <1>0, <1>1, <1>2, <1>3, <1>4, <1>5, <1>6, <1>7, <1>8 DEF rest8
<1>23. \A c \in {390, 395, 400, 401, 405, 408} :
            Wire(b)!Async(c) = Wire(b)!AsyncValuePacks(c, rest10(c))
  BY <1>0, <1>1, <1>2, <1>3, <1>4, <1>5, <1>6, <1>7, <1>8, <1>9 DEF rest9
<1>24. \A c \in {180, 190, 200, 205, 410, 340, 350, 420, 425, 430, 440, 445,
                 450, 520, 530, 540, 550} :
            Wire(b)!Async(c) = Wire(b)!AsyncClientCalls(c, rest11(c))
  BY <1>0, <1>1, <1>2, <1>3, <1>4, <1>5, <1>6, <1>7, <1>8, <1>9, <1>10 DEF rest10
<1>25. \A c \in {642, 645, 1045, 652, 655, 1055} :
            Wire(b)!Async(c) = Wire(b)!AsyncClientCaptions(c, rest12(c))
  BY <1>0, <1>1, <1>2, <1>3, <1>4, <1>5, <1>6, <1>7, <1>8, <1>9, <1>10, <1>11
     DEF rest11
<1>26. \A c \in {560, 570, 580, 590, 600, 610, 800, 900, 910} :
            Wire(b)!Async(c) = Wire(b)!AsyncClientRequests(c, rest13(c))
  BY <1>0, <1>1, <1>2, <1>3, <1>4, <1>5, <1>6, <1>7, <1>8, <1>9, <1>10, <1>11,
     <1>12 DEF rest12
<1>27. \A c \in {1000, 1010, 1020, 1030, 1040, 1120, 1121, 1200, 1210, 1220,
                 1240, 1250} :
            Wire(b)!Async(c) = Wire(b)!AsyncClientActions(c, Wire(b)!NoMessage)
  BY <1>0, <1>1, <1>2, <1>3, <1>4, <1>5, <1>6, <1>7, <1>8, <1>9, <1>10, <1>11,
     <1>12, <1>13 DEF rest13
<1> QED
  BY <1>14, <1>15, <1>16, <1>17, <1>18, <1>19, <1>20, <1>21, <1>22, <1>23,
     <1>24, <1>25, <1>26, <1>27

(* Which part of srpc_getdata reads a call.                                 *)
LEMMA GetDataIs ==
  ASSUME NEW b
  PROVE  /\ \A c \in {10, 180, 320, 20, 30, 40, 50, 210, 220, 330, 480, 490,
                      500, 510, 650} : \E u :
                Wire(b)!GetData(c) = Wire(b)!GetDataCommon(c, u)
         /\ \A c \in {60, 65, 67, 68, 69, 75, 76, 70, 71} : \E u :
                Wire(b)!GetData(c) = Wire(b)!GetDataRegistration(c, u)
         /\ \A c \in {100, 102, 103, 105, 110, 115, 120, 300, 310} : \E u :
                Wire(b)!GetData(c) = Wire(b)!GetDataDeviceValues(c, u)
         /\ \A c \in {460, 470, 620, 630, 680, 690, 700, 1100, 1110, 681, 682,
                      692, 691, 683, 684, 685, 694, 695, 1260} : \E u :
                Wire(b)!GetData(c) = Wire(b)!GetDataDeviceConfig(c, u)
         /\ \A c \in {80, 85, 86, 87, 90, 92, 94, 96, 130} : \E u :
                Wire(b)!GetData(c) = Wire(b)!GetDataClientRegistration(c, u)
         /\ \A c \in {140, 160, 360, 361, 362, 363, 170, 171, 380, 381, 390,
                      395, 400, 401, 405, 408} : \E u :
                Wire(b)!GetData(c) = Wire(b)!GetDataClientUpdates(c, u)
         /\ \A c \in {200, 410, 205, 190, 340, 350, 420, 425, 430, 440, 445,
                      450, 520, 530, 540, 550, 640, 642, 645, 1045, 652, 655,
                      1055, 560, 570} : \E u :
                Wire(b)!GetData(c) = Wire(b)!GetDataClientCalls(c, u)
         /\ \A c \in {580, 590, 600, 610, 800, 900, 910, 1000, 1010, 1020, 1030,
                      1040, 1120, 1121, 1220, 1200, 1210, 1240, 1250} : \E u :
                Wire(b)!GetData(c) = Wire(b)!GetDataClientRequests(c, u)
<1> DEFINE
     rest7(c) == Wire(b)!GetDataClientRequests(c, Wire(b)!NoMessage)
     rest6(c) == Wire(b)!GetDataClientCalls(c, rest7(c))
     rest5(c) == Wire(b)!GetDataClientUpdates(c, rest6(c))
     rest4(c) == Wire(b)!GetDataClientRegistration(c, rest5(c))
     rest3(c) == Wire(b)!GetDataDeviceConfig(c, rest4(c))
     rest2(c) == Wire(b)!GetDataDeviceValues(c, rest3(c))
     rest1(c) == Wire(b)!GetDataRegistration(c, rest2(c))
     rest0(c) == Wire(b)!GetDataCommon(c, rest1(c))
<1>0. \A c : Wire(b)!GetData(c) = rest0(c)
  BY DEF Wire!GetData
<1> HIDE DEF rest0, rest1, rest2, rest3, rest4, rest5, rest6, rest7
<1>1. ASSUME NEW c \in Nat \ {10, 180, 320, 20, 30, 40, 50, 210, 220, 330, 480,
                              490, 500, 510, 650}
      PROVE  rest0(c) = rest1(c)
  BY GetDataCommonSkips DEF rest0
<1>2. ASSUME NEW c \in Nat \ {60, 65, 67, 68, 69, 75, 76, 70, 71}
      PROVE  rest1(c) = rest2(c)
  BY GetDataRegistrationSkips DEF rest1
<1>3. ASSUME NEW c \in Nat \ {100, 102, 103, 105, 110, 115, 120, 300, 310}
      PROVE  rest2(c) = rest3(c)
  BY GetDataDeviceValuesSkips DEF rest2
<1>4. ASSUME NEW c \in Nat \ {460, 470, 620, 630, 680, 690, 700, 1100, 1110,
                              681, 682, 692, 691, 683, 684, 685, 694, 695, 1260}
      PROVE  rest3(c) = rest4(c)
  BY GetDataDeviceConfigSkips DEF rest3
<1>5. ASSUME NEW c \in Nat \ {80, 85, 86, 87, 90, 92, 94, 96, 130}
      PROVE  rest4(c) = rest5(c)
  BY GetDataClientRegistrationSkips DEF rest4
<1>6. ASSUME NEW c \in Nat \ {140, 160, 360, 361, 362, 363, 170, 171, 380, 381,
                              390, 395, 400, 401, 405, 408}
      PROVE  rest5(c) = rest6(c)
  BY GetDataClientUpdatesSkips DEF rest5
<1>7. ASSUME NEW c \in Nat \ {200, 410, 205, 190, 340, 350, 420, 425, 430, 440,
                              445, 450, 520, 530, 540, 550, 640, 642, 645, 1045,
                              652, 655, 1055, 560, 570}
      PROVE  rest6(c) = rest7(c)
  BY GetDataClientCallsSkips DEF rest6
<1>8. \A c \in {10, 180, 320, 20, 30, 40, 50, 210, 220, 330, 480, 490, 500, 510,
                650} :
            Wire(b)!GetData(c) = Wire(b)!GetDataCommon(c, rest1(c))
  BY <1>0 DEF rest0
<1>9. \A c \in {60, 65, 67, 68, 69, 75, 76, 70, 71} :
            Wire(b)!GetData(c) = Wire(b)!GetDataRegistration(c, rest2(c))
  BY <1>0, <1>1 DEF rest1
<1>10. \A c \in {100, 102, 103, 105, 110, 115, 120, 300, 310} :
            Wire(b)!GetData(c) = Wire(b)!GetDataDeviceValues(c, rest3(c))
  BY <1>0, <1>1, <1>2 DEF rest2
<1>11. \A c \in {460, 470, 620, 630, 680, 690, 700, 1100, 1110, 681, 682, 692,
                 691, 683, 684, 685, 694, 695, 1260} :
            Wire(b)!GetData(c) = Wire(b)!GetDataDeviceConfig(c, rest4(c))
  BY <1>0, <1>1, <1>2, <1>3 DEF rest3
<1>12. \A c \in {80, 85, 86, 87, 90, 92, 94, 96, 130} :
            Wire(b)!GetData(c) = Wire(b)!GetDataClientRegistration(c, rest5(c))
  BY <1>0, <1>1, <1>2, <1>3, <1>4 DEF rest4
<1>13. \A c \in {140, 160, 360, 361, 362, 363, 170, 171, 380, 381, 390, 395,
                 400, 401, 405, 408} :
            Wire(b)!GetData(c) = Wire(b)!GetDataClientUpdates(c, rest6(c))
  BY <1>0, <1>1, <1>2, <1>3, <1>4, <1>5 DEF rest5
<1>14. \A c \in {200, 410, 205, 190, 340, 350, 420, 425, 430, 440, 445, 450,
                 520, 530, 540, 550, 640, 642, 645, 1045, 652, 655, 1055, 560,
                 570} :
            Wire(b)!GetData(c) = Wire(b)!GetDataClientCalls(c, rest7(c))
  BY <1>0, <1>1, <1>2, <1>3, <1>4, <1>5, <1>6 DEF rest6
<1>15. \A c \in {580, 590, 600, 610, 800, 900, 910, 1000, 1010, 1020, 1030,
                 1040, 1120, 1121, 1220, 1200, 1210, 1240, 1250} :
            Wire(b)!GetData(c) = Wire(b)!GetDataClientRequests(c, Wire(b)!NoMessage)
  BY <1>0, <1>1, <1>2, <1>3, <1>4, <1>5, <1>6, <1>7 DEF rest7
<1> QED
  BY <1>8, <1>9, <1>10, <1>11, <1>12, <1>13, <1>14, <1>15

(* What is written in the form e1 is read in the form e2. *)
Matches(e1, e2) ==
    /\ e2.form = e1.form
    /\ e1.form = "whole" => e1.sizes \subseteq e2.sizes
    /\ e1.form = "items" =>
           /\ e2.layout.fixed = e1.layout.fixed
           /\ e2.layout.item = e1.layout.item
           /\ e2.layout.max \in Nat /\ e1.layout.max <= e2.layout.max
    /\ e1.form = "pack" => e2.layout = e1.layout /\ e2.item = e1.item

LEMMA MatchesItself == \A e, k : Sound(e, k) => Matches(e, e)
  BY DEF Matches, Sound, IsForm, IsLayout

LEMMA SomeMatches ==
  ASSUME NEW b, NEW k, NEW T, Sound(Wire(b)!SomeOf(T), k)
  PROVE  Matches(Wire(b)!SomeOf(T), Wire(b)!UpTo(T))
  BY DEF Matches, Sound, IsForm, IsLayout, Wire!SomeOf, Wire!UpTo, Wire!ItemsFrom

LEMMA PingReads ==
  ASSUME NEW b
  PROVE  Wire(b)!GetData(40) = Sized({16, 8})
<1>1. Wire(b)!TDCS_SuplaPingServer = 16 /\ Wire(b)!TDCS_SuplaPingServer_COMPAT = 8
  BY DEF Wire!TDCS_SuplaPingServer, Wire!TDCS_SuplaPingServer_COMPAT,
         Wire!Timeval, Wire!TimevalCompat, Wire!Int64, Wire!Int32
<1>2. \A o : Wire(b)!GetDataCommon(40, o) = Wire(b)!OneOf({16, 8})
  BY <1>1, WireNumbers DEF Wire!GetDataCommon
<1> QED
  BY <1>2 DEF Wire!GetData, Wire!OneOf, Sized

LEMMA CallsAreOfAParts ==
  \A c \in Calls :
      \/ c \in {10, 20, 30, 40, 50, 210, 220, 320, 330, 480, 490, 500, 510}
      \/ c \in {640, 650}
      \/ c \in {300, 60, 65, 67, 68, 69}
      \/ c \in {75, 76, 70, 71}
      \/ c \in {110, 115, 120, 310, 100, 102, 103, 105}
      \/ c \in {460, 470, 620, 630, 680, 690, 682, 692, 681, 691, 683}
      \/ c \in {685, 695, 684, 694, 700, 1100, 1110, 1260}
      \/ c \in {80, 85, 86, 87, 90, 92, 94, 96, 130}
      \/ c \in {140, 160, 360, 361, 362, 363, 170, 171, 380, 381}
      \/ c \in {390, 395, 400, 401, 405, 408}
      \/ c \in {180, 190, 200, 205, 410, 340, 350, 420, 425, 430, 440, 445, 450,
                520, 530, 540, 550}
      \/ c \in {642, 645, 1045, 652, 655, 1055}
      \/ c \in {560, 570, 580, 590, 600, 610, 800, 900, 910}
      \/ c \in {1000, 1010, 1020, 1030, 1040, 1120, 1121, 1200, 1210, 1220,
                1240, 1250}
<1> SUFFICES ASSUME NEW c \in Calls
             PROVE
                \/ c \in {10, 20, 30, 40, 50, 210, 220, 320, 330, 480, 490, 500,
                          510}
                \/ c \in {640, 650}
                \/ c \in {300, 60, 65, 67, 68, 69}
                \/ c \in {75, 76, 70, 71}
                \/ c \in {110, 115, 120, 310, 100, 102, 103, 105}
                \/ c \in {460, 470, 620, 630, 680, 690, 682, 692, 681, 691, 683}
                \/ c \in {685, 695, 684, 694, 700, 1100, 1110, 1260}
                \/ c \in {80, 85, 86, 87, 90, 92, 94, 96, 130}
                \/ c \in {140, 160, 360, 361, 362, 363, 170, 171, 380, 381}
                \/ c \in {390, 395, 400, 401, 405, 408}
                \/ c \in {180, 190, 200, 205, 410, 340, 350, 420, 425, 430, 440,
                          445, 450, 520, 530, 540, 550}
                \/ c \in {642, 645, 1045, 652, 655, 1055}
                \/ c \in {560, 570, 580, 590, 600, 610, 800, 900, 910}
                \/ c \in {1000, 1010, 1020, 1030, 1040, 1120, 1121, 1200, 1210,
                          1220, 1240, 1250}
  OBVIOUS
<1>1. \/ c \in Numbers(DCS) \/ c \in Numbers(SDC) \/ c \in Numbers(DS)
      \/ c \in Numbers(SD) \/ c \in Numbers(CS) \/ c \in Numbers(SC)
      \/ c \in Numbers(CSD) \/ c \in Numbers(DSC) \/ c \in Numbers(SCD)
      \/ c = 490
  BY CallNumbers DEF Calls, FromDevice, FromClient, ToDevice, ToClient
<1>2. CASE c \in Numbers(DCS)
  BY <1>2, Directions
<1>3. CASE c \in Numbers(SDC)
  BY <1>3, Directions
<1>4. CASE c \in Numbers(DS)
  BY <1>4, Directions
<1>5. CASE c \in Numbers(SD)
  BY <1>5, Directions
<1>6. CASE c \in Numbers(CS)
  BY <1>6, Directions
<1>7. CASE c \in Numbers(SC)
  BY <1>7, Directions
<1>8. CASE c \in Numbers(CSD)
  BY <1>8, Directions
<1>9. CASE c \in Numbers(DSC)
  BY <1>9, Directions
<1>10. CASE c \in Numbers(SCD)
  BY <1>10, Directions
<1>11. CASE c = 490
  BY <1>11
<1> QED
  BY <1>1, <1>2, <1>3, <1>4, <1>5, <1>6, <1>7, <1>8, <1>9, <1>10, <1>11

(* Every message has one of the four forms and takes 10240 bytes at most.   *)
LEMMA AsyncSound ==
  ASSUME NEW b \in DOMAIN MaxDataSize, NEW c \in Calls
  PROVE  Sound(Wire(b)!Async(c), 10240)
<1>1. CASE c \in {10, 20, 30, 40, 50, 210, 220, 320, 330, 480, 490, 500, 510}
  BY <1>1, AsyncIs, AsyncCommonSound
<1>2. CASE c \in {640, 650}
  BY <1>2, AsyncIs, AsyncCaptionSound
<1>3. CASE c \in {300, 60, 65, 67, 68, 69}
  BY <1>3, AsyncIs, AsyncRegisterDeviceSound
<1>4. CASE c \in {75, 76, 70, 71}
  BY <1>4, AsyncIs, AsyncRegisterDeviceFGSound
<1>5. CASE c \in {110, 115, 120, 310, 100, 102, 103, 105}
  BY <1>5, AsyncIs, AsyncDeviceValuesSound
<1>6. CASE c \in {460, 470, 620, 630, 680, 690, 682, 692, 681, 691, 683}
  BY <1>6, AsyncIs, AsyncDeviceConfigSound
<1>7. CASE c \in {685, 695, 684, 694, 700, 1100, 1110, 1260}
  BY <1>7, AsyncIs, AsyncDeviceSettingsSound
<1>8. CASE c \in {80, 85, 86, 87, 90, 92, 94, 96, 130}
  BY <1>8, AsyncIs, AsyncRegisterClientSound
<1>9. CASE c \in {140, 160, 360, 361, 362, 363, 170, 171, 380, 381}
  BY <1>9, AsyncIs, AsyncPacksSound
<1>10. CASE c \in {390, 395, 400, 401, 405, 408}
  BY <1>10, AsyncIs, AsyncValuePacksSound
<1>11. CASE c \in {180, 190, 200, 205, 410, 340, 350, 420, 425, 430, 440, 445,
                   450, 520, 530, 540, 550}
  BY <1>11, AsyncIs, AsyncClientCallsSound
<1>12. CASE c \in {642, 645, 1045, 652, 655, 1055}
  BY <1>12, AsyncIs, AsyncClientCaptionsSound
<1>13. CASE c \in {560, 570, 580, 590, 600, 610, 800, 900, 910}
  BY <1>13, AsyncIs, AsyncClientRequestsSound
<1>14. CASE c \in {1000, 1010, 1020, 1030, 1040, 1120, 1121, 1200, 1210, 1220,
                   1240, 1250}
  BY <1>14, AsyncIs, AsyncClientActionsSound
<1> QED
  BY <1>1, <1>2, <1>3, <1>4, <1>5, <1>6, <1>7, <1>8, <1>9, <1>10, <1>11, <1>12,
     <1>13, <1>14, CallsAreOfAParts

(* What a device says or is told fits in 600 bytes, the least               *)
(* SUPLA_MAX_DATA_SIZE of a device, but for registrations and extended      *)
(* values.                                                                  *)
LEMMA DeviceCallsSmall ==
  ASSUME NEW b \in DOMAIN MaxDataSize,
         NEW c \in (FromDevice \cup ToDevice)
                   \ ({60, 65, 67, 68, 69, 75, 76} \cup {105})
  PROVE  Within(Wire(b)!Async(c), 600)
<1>1. CASE c \in {10, 20, 30, 40, 50, 210, 220, 320, 330, 480, 490, 500, 510}
  BY <1>1, AsyncIs, AsyncCommonSound
<1>2. CASE c \in {640, 650}
  BY <1>2, AsyncIs, AsyncCaptionSound
<1>3. CASE c \in {300}
  BY <1>3, AsyncIs, AsyncRegisterDeviceSound
<1>4. CASE c \in {70, 71}
  BY <1>4, AsyncIs, AsyncRegisterDeviceFGSound
<1>5. CASE c \in {110, 115, 120, 310, 100, 102, 103}
  BY <1>5, AsyncIs, AsyncDeviceValuesSound
<1>6. CASE c \in {460, 470, 620, 630, 680, 690, 682, 692, 681, 691, 683}
  BY <1>6, AsyncIs, AsyncDeviceConfigSound
<1>7. CASE c \in {685, 695, 684, 694, 700, 1100, 1110, 1260}
  BY <1>7, AsyncIs, AsyncDeviceSettingsSound
<1>8. \/ c \in Numbers(DCS) \/ c \in Numbers(SDC) \/ c \in Numbers(DS)
      \/ c \in Numbers(SD) \/ c \in Numbers(CSD) \/ c \in Numbers(DSC)
      \/ c \in Numbers(SCD) \/ c = 490
  BY CallNumbers DEF FromDevice, ToDevice
<1> QED
  BY <1>1, <1>2, <1>3, <1>4, <1>5, <1>6, <1>7, <1>8, Directions

(* A message has the same form on every machine, but for the three that     *)
(* carry an extended value or a value of the size of the machine.           *)
LEMMA AsyncSame ==
  ASSUME NEW b, NEW b2, NEW c \in Calls \ {105, 405, 1040}
  PROVE  Wire(b)!Async(c) = Wire(b2)!Async(c)
<1>1. CASE c \in {10, 20, 30, 40, 50, 210, 220, 320, 330, 480, 490, 500, 510}
  <2>1. PICK u, u2 : /\ Wire(b)!Async(c) = Wire(b)!AsyncCommon(c, u)
                     /\ Wire(b2)!Async(c) = Wire(b2)!AsyncCommon(c, u2)
    BY <1>1, AsyncIs
  <2> QED
    BY <1>1, <2>1, AsyncCommonSame
<1>2. CASE c \in {640, 650}
  <2>1. PICK u, u2 : /\ Wire(b)!Async(c) = Wire(b)!AsyncCaption(c, u)
                     /\ Wire(b2)!Async(c) = Wire(b2)!AsyncCaption(c, u2)
    BY <1>2, AsyncIs
  <2> QED
    BY <1>2, <2>1, AsyncCaptionSame
<1>3. CASE c \in {300, 60, 65, 67, 68, 69}
  <2>1. PICK u, u2 : /\ Wire(b)!Async(c) = Wire(b)!AsyncRegisterDevice(c, u)
                     /\ Wire(b2)!Async(c) = Wire(b2)!AsyncRegisterDevice(c, u2)
    BY <1>3, AsyncIs
  <2> QED
    BY <1>3, <2>1, AsyncRegisterDeviceSame
<1>4. CASE c \in {75, 76, 70, 71}
  <2>1. PICK u, u2 : /\ Wire(b)!Async(c) = Wire(b)!AsyncRegisterDeviceFG(c, u)
                     /\ Wire(b2)!Async(c) = Wire(b2)!AsyncRegisterDeviceFG(c, u2)
    BY <1>4, AsyncIs
  <2> QED
    BY <1>4, <2>1, AsyncRegisterDeviceFGSame
<1>5. CASE c \in {110, 115, 120, 310, 100, 102, 103, 105}
  <2>1. PICK u, u2 : /\ Wire(b)!Async(c) = Wire(b)!AsyncDeviceValues(c, u)
                     /\ Wire(b2)!Async(c) = Wire(b2)!AsyncDeviceValues(c, u2)
    BY <1>5, AsyncIs
  <2> QED
    BY <1>5, <2>1, AsyncDeviceValuesSame
<1>6. CASE c \in {460, 470, 620, 630, 680, 690, 682, 692, 681, 691, 683}
  <2>1. PICK u, u2 : /\ Wire(b)!Async(c) = Wire(b)!AsyncDeviceConfig(c, u)
                     /\ Wire(b2)!Async(c) = Wire(b2)!AsyncDeviceConfig(c, u2)
    BY <1>6, AsyncIs
  <2> QED
    BY <1>6, <2>1, AsyncDeviceConfigSame
<1>7. CASE c \in {685, 695, 684, 694, 700, 1100, 1110, 1260}
  <2>1. PICK u, u2 : /\ Wire(b)!Async(c) = Wire(b)!AsyncDeviceSettings(c, u)
                     /\ Wire(b2)!Async(c) = Wire(b2)!AsyncDeviceSettings(c, u2)
    BY <1>7, AsyncIs
  <2> QED
    BY <1>7, <2>1, AsyncDeviceSettingsSame
<1>8. CASE c \in {80, 85, 86, 87, 90, 92, 94, 96, 130}
  <2>1. PICK u, u2 : /\ Wire(b)!Async(c) = Wire(b)!AsyncRegisterClient(c, u)
                     /\ Wire(b2)!Async(c) = Wire(b2)!AsyncRegisterClient(c, u2)
    BY <1>8, AsyncIs
  <2> QED
    BY <1>8, <2>1, AsyncRegisterClientSame
<1>9. CASE c \in {140, 160, 360, 361, 362, 363, 170, 171, 380, 381}
  <2>1. PICK u, u2 : /\ Wire(b)!Async(c) = Wire(b)!AsyncPacks(c, u)
                     /\ Wire(b2)!Async(c) = Wire(b2)!AsyncPacks(c, u2)
    BY <1>9, AsyncIs
  <2> QED
    BY <1>9, <2>1, AsyncPacksSame
<1>10. CASE c \in {390, 395, 400, 401, 405, 408}
  <2>1. PICK u, u2 : /\ Wire(b)!Async(c) = Wire(b)!AsyncValuePacks(c, u)
                     /\ Wire(b2)!Async(c) = Wire(b2)!AsyncValuePacks(c, u2)
    BY <1>10, AsyncIs
  <2> QED
    BY <1>10, <2>1, AsyncValuePacksSame
<1>11. CASE c \in {180, 190, 200, 205, 410, 340, 350, 420, 425, 430, 440, 445,
                   450, 520, 530, 540, 550}
  <2>1. PICK u, u2 : /\ Wire(b)!Async(c) = Wire(b)!AsyncClientCalls(c, u)
                     /\ Wire(b2)!Async(c) = Wire(b2)!AsyncClientCalls(c, u2)
    BY <1>11, AsyncIs
  <2> QED
    BY <1>11, <2>1, AsyncClientCallsSame
<1>12. CASE c \in {642, 645, 1045, 652, 655, 1055}
  <2>1. PICK u, u2 : /\ Wire(b)!Async(c) = Wire(b)!AsyncClientCaptions(c, u)
                     /\ Wire(b2)!Async(c) = Wire(b2)!AsyncClientCaptions(c, u2)
    BY <1>12, AsyncIs
  <2> QED
    BY <1>12, <2>1, AsyncClientCaptionsSame
<1>13. CASE c \in {560, 570, 580, 590, 600, 610, 800, 900, 910}
  <2>1. PICK u, u2 : /\ Wire(b)!Async(c) = Wire(b)!AsyncClientRequests(c, u)
                     /\ Wire(b2)!Async(c) = Wire(b2)!AsyncClientRequests(c, u2)
    BY <1>13, AsyncIs
  <2> QED
    BY <1>13, <2>1, AsyncClientRequestsSame
<1>14. CASE c \in {1000, 1010, 1020, 1030, 1040, 1120, 1121, 1200, 1210, 1220,
                   1240, 1250}
  <2>1. PICK u, u2 : /\ Wire(b)!Async(c) = Wire(b)!AsyncClientActions(c, u)
                     /\ Wire(b2)!Async(c) = Wire(b2)!AsyncClientActions(c, u2)
    BY <1>14, AsyncIs
  <2> QED
    BY <1>14, <2>1, AsyncClientActionsSame
<1> QED
  BY <1>1, <1>2, <1>3, <1>4, <1>5, <1>6, <1>7, <1>8, <1>9, <1>10, <1>11, <1>12,
     <1>13, <1>14, CallsAreOfAParts

(* srpc_getdata reads a call in a form that matches the one in which its    *)
(* function writes it.                                                      *)
LEMMA ReadsWhatItWrites ==
  ASSUME NEW b \in DOMAIN MaxDataSize, NEW c \in Calls
  PROVE  Matches(Wire(b)!Async(c), Wire(b)!GetData(c))
<1>0. Sound(Wire(b)!Async(c), 10240)
  BY AsyncSound
<1>1. CASE c \in {10, 20, 30, 50, 210, 220, 320, 330, 480, 490, 500, 510}
  <2>1. Wire(b)!GetData(c) = Wire(b)!Async(c)
    BY <1>1, AsyncIs, GetDataIs, GetDataCommonReads
  <2> QED
    BY <1>0, <2>1, MatchesItself
<1>2. CASE c \in {650}
  <2>1. Wire(b)!GetData(c) = Wire(b)!Async(c)
    BY <1>2, AsyncIs, GetDataIs, GetDataCommonReads
  <2> QED
    BY <1>0, <2>1, MatchesItself
<1>3. CASE c \in {180}
  <2>1. Wire(b)!GetData(c) = Wire(b)!Async(c)
    BY <1>3, AsyncIs, GetDataIs, GetDataCommonReads
  <2> QED
    BY <1>0, <2>1, MatchesItself
<1>4. CASE c \in {60, 65, 67, 68, 69}
  <2>1. Wire(b)!GetData(c) = Wire(b)!Async(c)
    BY <1>4, AsyncIs, GetDataIs, GetDataRegistrationReads
  <2> QED
    BY <1>0, <2>1, MatchesItself
<1>5. CASE c \in {75, 76, 70, 71}
  <2>1. Wire(b)!GetData(c) = Wire(b)!Async(c)
    BY <1>5, AsyncIs, GetDataIs, GetDataRegistrationReads
  <2> QED
    BY <1>0, <2>1, MatchesItself
<1>6. CASE c \in {300}
  <2>1. Wire(b)!GetData(c) = Wire(b)!Async(c)
    BY <1>6, AsyncIs, GetDataIs, GetDataDeviceValuesReads
  <2> QED
    BY <1>0, <2>1, MatchesItself
<1>7. CASE c \in {110, 115, 120, 310, 100, 102, 103}
  <2>1. Wire(b)!GetData(c) = Wire(b)!Async(c)
    BY <1>7, AsyncIs, GetDataIs, GetDataDeviceValuesReads
  <2> QED
    BY <1>0, <2>1, MatchesItself
<1>8. CASE c \in {105}
  <2>1. PICK T : /\ Wire(b)!GetData(c) = Wire(b)!UpTo(T)
                 /\ Wire(b)!Async(c) = Wire(b)!SomeOf(T)
    BY <1>8, AsyncIs, GetDataIs, GetDataDeviceValuesReads
  <2> QED
    BY <1>0, <2>1, SomeMatches
<1>9. CASE c \in {460, 470, 620, 630, 680, 690, 682, 692, 681, 691, 683}
  <2>1. Wire(b)!GetData(c) = Wire(b)!Async(c)
    BY <1>9, AsyncIs, GetDataIs, GetDataDeviceConfigReads
  <2> QED
    BY <1>0, <2>1, MatchesItself
<1>10. CASE c \in {685, 695, 684, 694, 700, 1100, 1110, 1260}
  <2>1. Wire(b)!GetData(c) = Wire(b)!Async(c)
    BY <1>10, AsyncIs, GetDataIs, GetDataDeviceConfigReads
  <2> QED
    BY <1>0, <2>1, MatchesItself
<1>11. CASE c \in {80, 85, 86, 87, 90, 92, 94, 96, 130}
  <2>1. Wire(b)!GetData(c) = Wire(b)!Async(c)
    BY <1>11, AsyncIs, GetDataIs, GetDataClientRegistrationReads
  <2> QED
    BY <1>0, <2>1, MatchesItself
<1>12. CASE c \in {140, 160, 360, 361, 362, 363, 170, 171, 380, 381}
  <2>1. Wire(b)!GetData(c) = Wire(b)!Async(c)
    <3>1. PICK o : Wire(b)!GetData(c) = Wire(b)!GetDataClientUpdates(c, o)
      BY <1>12, GetDataIs
    <3>2. PICK u : Wire(b)!Async(c) = Wire(b)!AsyncPacks(c, u)
      BY <1>12, AsyncIs
    <3> QED
      BY <1>12, <3>1, <3>2, GetDataClientUpdatesReads
  <2> QED
    BY <1>0, <2>1, MatchesItself
<1>13. CASE c \in {390, 395, 400, 401, 405, 408}
  <2>1. PICK T : /\ Wire(b)!GetData(c) = Wire(b)!UpTo(T)
                 /\ Wire(b)!Async(c) = Wire(b)!SomeOf(T)
    <3>1. PICK o : Wire(b)!GetData(c) = Wire(b)!GetDataClientUpdates(c, o)
      BY <1>13, GetDataIs
    <3>2. PICK u : Wire(b)!Async(c) = Wire(b)!AsyncValuePacks(c, u)
      BY <1>13, AsyncIs
    <3> QED
      BY <1>13, <3>1, <3>2, GetDataClientUpdatesReads
  <2> QED
    BY <1>0, <2>1, SomeMatches
<1>14. CASE c \in {640}
  <2>1. Wire(b)!GetData(c) = Wire(b)!Async(c)
    BY <1>14, AsyncIs, GetDataIs, GetDataClientCallsReads
  <2> QED
    BY <1>0, <2>1, MatchesItself
<1>15. CASE c \in {190, 200, 205, 410, 340, 350, 420, 425, 430, 440, 445, 450,
                   520, 530, 540, 550}
  <2>1. Wire(b)!GetData(c) = Wire(b)!Async(c)
    BY <1>15, AsyncIs, GetDataIs, GetDataClientCallsReads
  <2> QED
    BY <1>0, <2>1, MatchesItself
<1>16. CASE c \in {642, 645, 1045, 652, 655, 1055}
  <2>1. Wire(b)!GetData(c) = Wire(b)!Async(c)
    BY <1>16, AsyncIs, GetDataIs, GetDataClientCallsReads
  <2> QED
    BY <1>0, <2>1, MatchesItself
<1>17. CASE c \in {560, 570}
  <2>1. Wire(b)!GetData(c) = Wire(b)!Async(c)
    BY <1>17, AsyncIs, GetDataIs, GetDataClientCallsReads
  <2> QED
    BY <1>0, <2>1, MatchesItself
<1>18. CASE c \in {580, 590, 600, 610, 800, 900, 910}
  <2>1. Wire(b)!GetData(c) = Wire(b)!Async(c)
    BY <1>18, AsyncIs, GetDataIs, GetDataClientRequestsReads
  <2> QED
    BY <1>0, <2>1, MatchesItself
<1>19. CASE c \in {1000, 1010, 1020, 1030, 1040, 1120, 1121, 1200, 1210, 1220,
                   1240, 1250}
  <2>1. Wire(b)!GetData(c) = Wire(b)!Async(c)
    BY <1>19, AsyncIs, GetDataIs, GetDataClientRequestsReads
  <2> QED
    BY <1>0, <2>1, MatchesItself
<1>20. CASE c = 40
  BY <1>20, PingReads, AsyncIs, AsyncCommonSays DEF Matches, Sized
<1> QED
  BY <1>1, <1>2, <1>3, <1>4, <1>5, <1>6, <1>7, <1>8, <1>9, <1>10, <1>11, <1>12,
     <1>13, <1>14, <1>15, <1>16, <1>17, <1>18, <1>19, <1>20, CallsAreOfAParts

-----------------------------------------------------------------------------
(***************************************************************************)
(* What is passed, what is sent of it and what is read of that             *)
(***************************************************************************)

LEMMA Elements == \A S : \A s \in Seq(S) :
                   /\ DOMAIN s = 1 .. Len(s) /\ Len(s) \in Nat
                   /\ \A i \in 1 .. Len(s) : s[i] \in S
  OBVIOUS

LEMMA Prefix == \A S : \A s \in Seq(S) : \A i \in 1 .. Len(s) :
                   /\ SubSeq(s, 1, i) \in Seq(S) /\ Len(SubSeq(s, 1, i)) = i
                   /\ \A j \in 1 .. i : SubSeq(s, 1, i)[j] = s[j]
  OBVIOUS

(* What the items of a pack take, one by one. *)
Taken(b, e, caps) == [i \in DOMAIN caps |-> Wire(b)!SizeWith(e.item, caps[i])]

LEMMA TakenIs ==
  ASSUME NEW b, NEW e, IsForm(e), e.form = "pack",
         NEW caps \in Seq(0 .. e.item.max)
  PROVE  /\ Taken(b, e, caps) \in Seq(Nat)
         /\ Len(Taken(b, e, caps)) = Len(caps)
         /\ \A i \in 1 .. Len(caps) :
                /\ Taken(b, e, caps)[i] = e.item.fixed + caps[i]
                /\ Taken(b, e, caps)[i] <= e.layout.item
<1> DEFINE f == e.item.fixed
           m == e.item.max
           d == e.layout.item
<1>1. f \in Nat /\ m \in Nat /\ d = f + m /\ e.item.item = 1
  BY DEF IsForm, IsLayout
<1> HIDE DEF f, m, d
<1>2. \A i \in 1 .. Len(caps) : caps[i] \in 0 .. m
  BY <1>1 DEF m
<1>3. DOMAIN caps = 1 .. Len(caps) /\ Len(caps) \in Nat
  OBVIOUS
<1>4. \A i \in 1 .. Len(caps) : Wire(b)!SizeWith(e.item, caps[i]) = f + caps[i]
  <2>1. \A c \in 0 .. m : 1 * c = c
    BY <1>1
  <2> QED
    BY <1>1, <1>2, <2>1 DEF Wire!SizeWith, f
<1>5. \A i \in 1 .. Len(caps) : f + caps[i] \in Nat /\ f + caps[i] <= d
  BY <1>1, <1>2
<1>6. Taken(b, e, caps) = [i \in 1 .. Len(caps) |-> f + caps[i]]
  BY <1>3, <1>4 DEF Taken
<1>7. Taken(b, e, caps) \in Seq(Nat) /\ Len(Taken(b, e, caps)) = Len(caps)
  BY <1>3, <1>5, <1>6
<1> QED
  BY <1>5, <1>6, <1>7 DEF f, d

LEMMA PackSizes ==
  ASSUME NEW b, NEW e, IsForm(e), e.form = "pack",
         NEW caps \in Seq(0 .. e.item.max), Len(caps) <= e.layout.max
  PROVE  /\ Wire(b)!ItemsSize(e, caps) \in Nat
         /\ Wire(b)!ItemsSize(e, caps) <= e.layout.item * e.layout.max
         /\ \A i \in 1 .. Len(caps) :
                /\ Wire(b)!ItemsSize(e, SubSeq(caps, 1, i)) \in Nat
                /\ Wire(b)!ItemsSize(e, SubSeq(caps, 1, i))
                       <= Wire(b)!ItemsSize(e, caps)
<1> DEFINE s == Taken(b, e, caps)
           d == e.layout.item
           most == e.layout.max
<1>1. d \in Nat /\ most \in Nat /\ Len(caps) \in Nat
  BY DEF IsForm, IsLayout
<1>2. s \in Seq(Nat) /\ Len(s) = Len(caps) /\ \A i \in 1 .. Len(s) : s[i] <= d
  BY TakenIs
<1>3. Wire(b)!ItemsSize(e, caps) = Sums(s)[Len(s)]
  BY TotalIsSum DEF Wire!ItemsSize, Taken
<1> HIDE DEF s, d, most
<1>4. Sums(s)[Len(s)] \in Nat
  BY <1>2, SumsAre
<1>5. Sums(s)[Len(s)] <= d * most
  <2>1. Sums(s)[Len(s)] <= Len(s) * d
    BY <1>1, <1>2, SumsBounded
  <2>2. Len(s) * d <= most * d
    BY <1>1, <1>2, TimesGrows DEF most
  <2>3. most * d = d * most /\ Len(s) * d \in Nat /\ d * most \in Nat
    BY <1>1, <1>2
  <2> QED
    BY <1>4, <2>1, <2>2, <2>3
<1>6. ASSUME NEW i \in 1 .. Len(caps)
      PROVE  /\ Wire(b)!ItemsSize(e, SubSeq(caps, 1, i)) \in Nat
             /\ Wire(b)!ItemsSize(e, SubSeq(caps, 1, i)) <= Sums(s)[Len(s)]
  <2> DEFINE part == SubSeq(caps, 1, i)
             t == Taken(b, e, part)
  <2>1. part \in Seq(0 .. e.item.max) /\ Len(part) = i
        /\ \A j \in 1 .. i : part[j] = caps[j]
    BY Prefix, Zenon
  <2> HIDE DEF part
  <2>2. t \in Seq(Nat) /\ Len(t) = i
        /\ \A j \in 1 .. i : t[j] = e.item.fixed + part[j]
    <3>1. /\ t \in Seq(Nat) /\ Len(t) = Len(part)
          /\ \A j \in 1 .. Len(part) : t[j] = e.item.fixed + part[j]
      <4>1. \A c \in Seq(0 .. e.item.max) :
                /\ Taken(b, e, c) \in Seq(Nat)
                /\ Len(Taken(b, e, c)) = Len(c)
                /\ \A j \in 1 .. Len(c) : Taken(b, e, c)[j] = e.item.fixed + c[j]
        BY TakenIs
      <4> QED
        BY <2>1, <4>1, Zenon
    <3> QED
      BY <2>1, <3>1
  <2>3. \A j \in 1 .. Len(caps) : s[j] = e.item.fixed + caps[j]
    BY TakenIs DEF s
  <2>4. Wire(b)!ItemsSize(e, part) = Sums(t)[Len(t)]
    BY TotalIsSum DEF Wire!ItemsSize, Taken
  <2> HIDE DEF t
  <2>5. \A j \in 1 .. i : t[j] = s[j]
    BY <1>1, <2>1, <2>2, <2>3
  <2>6. Sums(t)[Len(t)] \in Nat
    BY <2>2, SumsAre
  <2>7. Sums(t)[Len(t)] <= Sums(s)[Len(s)]
    <3>1. Len(t) <= Len(s) /\ \A j \in 1 .. Len(t) : t[j] = s[j]
      BY <1>1, <1>2, <2>2, <2>5
    <3> QED
      BY <1>2, <2>2, <3>1, SumsOfPart
  <2> QED
    BY <2>4, <2>6, <2>7 DEF part
<1> QED
  BY <1>3, <1>4, <1>5, <1>6 DEF d, most

(* What the applications pass is in the form of its call.                   *)
Fit(e, data) ==
    /\ IsBody(data)
    /\ e.form = "none" => data = Nothing
    /\ e.form = "pack" => data.n = Len(data.caps)

(* What is sent of it fits the structure.                                   *)
Fits(e, data) ==
    /\ IsBody(data)
    /\ e.form = "none" => data = Nothing
    /\ e.form = "whole" => data.n \in e.sizes
    /\ e.form = "items" => data.n <= e.layout.max
    /\ e.form = "pack" =>
           /\ data.n = Len(data.caps) /\ data.n <= e.layout.max
           /\ data.caps \in Seq(0 .. e.item.max)

(* What is sent fits the structure, too long captions having been left out. *)
LEMMA SentFits ==
  ASSUME NEW b, NEW e, IsForm(e), NEW data, Fit(e, data),
         Wire(b)!Accepts(e, data)
  PROVE  Fits(e, Wire(b)!Sent(e, data))
<1>1. CASE e.form = "none"
  BY <1>1 DEF Fits, Fit, Wire!Sent
<1>2. CASE e.form = "whole"
  BY <1>2 DEF Fits, Fit, Wire!Sent, Wire!Accepts
<1>3. CASE e.form = "items"
  BY <1>3 DEF Fits, Fit, Wire!Sent, Wire!Accepts, IsForm, IsLayout, IsBody
<1>4. CASE e.form = "pack"
  <2> DEFINE caps == Wire(b)!Kept(data.caps, e.item.max)
  <2>1. data.caps \in Seq(Nat) /\ e.item.max \in Nat /\ e.layout.max \in Nat
        /\ Len(data.caps) \in 1 .. e.layout.max
    BY <1>4 DEF Fit, IsBody, IsForm, IsLayout, Wire!Accepts
  <2>2. caps \in Seq(0 .. e.item.max) /\ Len(caps) <= Len(data.caps)
    BY <2>1, KeptFits
  <2>3. Wire(b)!Sent(e, data) = [n |-> Len(caps), caps |-> caps]
    BY <1>4 DEF Wire!Sent
  <2> HIDE DEF caps
  <2>4. caps \in Seq(Nat) /\ Len(caps) \in Nat /\ Len(caps) <= e.layout.max
    BY <2>1, <2>2
  <2> QED
    BY <1>4, <2>2, <2>3, <2>4 DEF Fits, IsBody
<1> QED
  BY <1>1, <1>2, <1>3, <1>4 DEF IsForm

(* It takes no more bytes than the largest message of its form.             *)
LEMMA SentSizes ==
  ASSUME NEW b, NEW e, IsForm(e), NEW limit \in Nat, Within(e, limit),
         NEW data, Fits(e, data)
  PROVE  Wire(b)!SentSize(e, data) \in Nat /\ Wire(b)!SentSize(e, data) <= limit
<1>1. CASE e.form = "none"
  BY <1>1 DEF Wire!SentSize
<1>2. CASE e.form = "whole"
  BY <1>2 DEF Fits, Wire!SentSize, IsForm, Within
<1>3. CASE e.form = "items"
  <2>1. Wire(b)!SentSize(e, data) = e.layout.fixed + e.layout.item * data.n
    BY <1>3 DEF Wire!SentSize, Wire!SizeWith
  <2>2. e.layout.fixed \in Nat /\ e.layout.item \in Nat /\ e.layout.max \in Nat
        /\ data.n \in Nat /\ data.n <= e.layout.max
        /\ e.layout.fixed + e.layout.item * e.layout.max <= limit
    BY <1>3 DEF Fits, IsForm, IsLayout, Within, IsBody
  <2>3. data.n * e.layout.item <= e.layout.max * e.layout.item
    BY <2>2, TimesGrows
  <2>4. /\ data.n * e.layout.item = e.layout.item * data.n
        /\ e.layout.max * e.layout.item = e.layout.item * e.layout.max
        /\ e.layout.item * data.n \in Nat /\ e.layout.item * e.layout.max \in Nat
    BY <2>2
  <2> QED
    BY <2>1, <2>2, <2>3, <2>4
<1>4. CASE e.form = "pack"
  <2>1. data.caps \in Seq(0 .. e.item.max) /\ Len(data.caps) <= e.layout.max
    BY <1>4 DEF Fits
  <2>2. /\ Wire(b)!ItemsSize(e, data.caps) \in Nat
        /\ Wire(b)!ItemsSize(e, data.caps) <= e.layout.item * e.layout.max
    BY <1>4, <2>1, PackSizes
  <2>3. Wire(b)!SentSize(e, data) = e.layout.fixed + Wire(b)!ItemsSize(e, data.caps)
    BY <1>4 DEF Wire!SentSize
  <2>4. e.layout.fixed \in Nat /\ e.layout.item * e.layout.max \in Nat
        /\ e.layout.fixed + e.layout.item * e.layout.max <= limit
    BY <1>4 DEF IsForm, IsLayout, Within
  <2> QED
    BY <2>2, <2>3, <2>4
<1> QED
  BY <1>1, <1>2, <1>3, <1>4 DEF IsForm

(* What one end writes the other reads, if the forms match.                 *)
LEMMA SentIsReadable ==
  ASSUME NEW b, NEW b2, NEW e, NEW e2, IsForm(e), Matches(e, e2),
         NEW data, Fits(e, data)
  PROVE  /\ Wire(b2)!Readable(e2, Wire(b)!SentSize(e, data), data)
         /\ Wire(b2)!Shape(e2) = Wire(b)!Shape(e)
<1>0. e2.form = e.form
  BY DEF Matches
<1>1. CASE e.form = "none"
  BY <1>0, <1>1 DEF Wire!Readable, Wire!Shape
<1>2. CASE e.form = "whole"
  BY <1>0, <1>2 DEF Wire!Readable, Wire!Shape, Wire!SentSize, Fits, Matches
<1>3. CASE e.form = "items"
  <2>1. Wire(b)!SentSize(e, data) = e.layout.fixed + e.layout.item * data.n
    BY <1>3 DEF Wire!SentSize, Wire!SizeWith
  <2>2. e.layout.fixed \in Nat /\ e.layout.item \in Nat /\ e.layout.max \in Nat
        /\ data.n \in Nat /\ data.n <= e.layout.max
    BY <1>3 DEF Fits, IsForm, IsLayout, IsBody
  <2>3. e2.layout.fixed = e.layout.fixed /\ e2.layout.item = e.layout.item
        /\ e2.layout.max \in Nat /\ e.layout.max <= e2.layout.max
    BY <1>3 DEF Matches
  <2>4. data.n * e.layout.item <= e2.layout.max * e.layout.item
    BY <2>2, <2>3, TimesGrows
  <2>5. /\ data.n * e.layout.item = e.layout.item * data.n
        /\ e2.layout.max * e.layout.item = e.layout.item * e2.layout.max
        /\ e.layout.item * data.n \in Nat /\ e.layout.item * e2.layout.max \in Nat
    BY <2>2, <2>3
  <2>6. Wire(b2)!VALID_SIZE(e2.layout, Wire(b)!SentSize(e, data), data.n)
    BY <2>1, <2>2, <2>3, <2>4, <2>5 DEF Wire!VALID_SIZE, Wire!SizeOf
  <2> QED
    BY <1>0, <1>3, <2>3, <2>6 DEF Wire!Readable, Wire!Shape
<1>4. CASE e.form = "pack"
  <2>1. e2.layout = e.layout /\ e2.item = e.item
    BY <1>4 DEF Matches
  <2>2. data.caps \in Seq(0 .. e.item.max) /\ Len(data.caps) <= e.layout.max
        /\ data.n = Len(data.caps) /\ data.n \in Nat
    BY <1>4 DEF Fits, IsBody
  <2>3. \A caps : Wire(b2)!ItemsSize(e2, caps) = Wire(b2)!ItemsSize(e, caps)
    BY <2>1 DEF Wire!ItemsSize
  <2>4. \A caps : Wire(b2)!ItemsSize(e, caps) = Wire(b)!ItemsSize(e, caps)
    BY TotalIsSum DEF Wire!ItemsSize, Wire!SizeWith
  <2>5. /\ Wire(b)!ItemsSize(e, data.caps) \in Nat
        /\ Wire(b)!ItemsSize(e, data.caps) <= e.layout.item * e.layout.max
        /\ \A i \in 1 .. Len(data.caps) :
               /\ Wire(b)!ItemsSize(e, SubSeq(data.caps, 1, i)) \in Nat
               /\ Wire(b)!ItemsSize(e, SubSeq(data.caps, 1, i))
                      <= Wire(b)!ItemsSize(e, data.caps)
    BY <1>4, <2>2, PackSizes
  <2>6. Wire(b)!SentSize(e, data) = e.layout.fixed + Wire(b)!ItemsSize(e, data.caps)
    BY <1>4 DEF Wire!SentSize
  <2>7. e.layout.fixed \in Nat /\ e.layout.item * e.layout.max \in Nat
        /\ e.item.max \in Nat
    BY <1>4 DEF IsForm, IsLayout
  <2>8. DOMAIN data.caps = 1 .. Len(data.caps)
        /\ \A i \in 1 .. Len(data.caps) : data.caps[i] \in 0 .. e.item.max
    BY <2>2, Elements, Zenon
  <2> DEFINE size == Wire(b)!SentSize(e, data)
  <2>9. size \in e.layout.fixed .. Wire(b2)!SizeOf(e.layout)
    BY <2>5, <2>6, <2>7 DEF Wire!SizeOf
  <2>10. ASSUME NEW i \in DOMAIN data.caps
         PROVE  /\ data.caps[i] <= e.item.max
                /\ e.layout.fixed + Wire(b2)!ItemsSize(e2, SubSeq(data.caps, 1, i))
                       <= size
    BY <2>3, <2>4, <2>5, <2>6, <2>7, <2>8
  <2>11. Wire(b2)!srpc_getpack(e2, size, data)
    BY <2>1, <2>2, <2>9, <2>10 DEF Wire!srpc_getpack, IsForm, IsLayout
  <2> QED
    BY <1>0, <1>4, <2>1, <2>11 DEF Wire!Readable, Wire!Shape
<1> QED
  BY <1>1, <1>2, <1>3, <1>4 DEF IsForm

=============================================================================
