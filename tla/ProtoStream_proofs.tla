-------------------------- MODULE ProtoStream_proofs --------------------------
(***************************************************************************)
(* Theorems about ProtoStream: types, the soundness of both buffers, and   *)
(* that it implements PacketPipe: however a stream of bytes is cut, it     *)
(* carries the packets that were sent.                                     *)
(***************************************************************************)
EXTENDS ProtoStream, SequenceTheorems, WellFoundedInduction, TLAPS

USE StreamAssumption DEF StreamAssumption

(* A buffer as the operations on it find it and leave it. *)
Sound(buf, size) ==
  /\ buf \in Seq(Bytes) /\ size \in Nat
  /\ Len(buf) <= size /\ size < BufferMax

IInv == TypeOK /\ BuffersSound

-----------------------------------------------------------------------------
(* The bytes of packets *)

LEMMA NoBytes == <<>> \in Seq(Bytes) /\ <<>> \in Seq(Packet) /\ Len(<<>>) = 0
OBVIOUS

LEMMA TagBytes == Tag \in Seq(Bytes) /\ Len(Tag) = TagSize
<1>1. \A i \in 1..TagSize : Byte("tag", None, i) \in Bytes
  BY DEF Byte, Bytes
<1>2. Tag \in [1..TagSize -> Bytes]
  BY <1>1 DEF Tag
<1> QED
  BY <1>2 DEF Tag

LEMMA BodyBytes == ASSUME NEW p \in Packet PROVE Body(p) \in Seq(Bytes)
<1> DEFINE header == <<Byte("header", p, 0)>>
           data   == [i \in 1..DataLen[p] |-> Byte("data", p, i)]
<1>1. header \in Seq(Bytes)
  BY DEF Byte, Bytes
<1>2. \A i \in 1..DataLen[p] : Byte("data", p, i) \in Bytes
  BY DEF Byte, Bytes
<1>3. DataLen[p] \in Nat
  OBVIOUS
<1>4. data \in Seq(Bytes)
  BY <1>2, <1>3
<1>5. Tag \o header \in Seq(Bytes)
  BY TagBytes, <1>1, ConcatProperties
<1> QED
  BY <1>4, <1>5, ConcatProperties DEF Body

LEMMA FramedBytes == ASSUME NEW p \in Packet PROVE Framed(p) \in Seq(Bytes)
BY BodyBytes, TagBytes, ConcatProperties DEF Framed

LEMMA FromBytes ==
  ASSUME NEW buf \in Seq(Bytes), NEW n \in 0..Len(buf)
  PROVE  From(buf, n) \in Seq(Bytes) /\ Len(From(buf, n)) = Len(buf) - n
BY SubSeqProperties DEF From

LEMMA FrontBytes ==
  ASSUME NEW buf \in Seq(Bytes), NEW n \in 0..Len(buf)
  PROVE  SubSeq(buf, 1, n) \in Seq(Bytes) /\ Len(SubSeq(buf, 1, n)) = n
BY SubSeqProperties

(* What stands at the front of a buffer stays there when it grows. *)
LEMMA FrontStays ==
  ASSUME NEW buf \in Seq(Bytes), NEW more \in Seq(Bytes), StartsWithTag(buf)
  PROVE  StartsWithTag(buf \o more)
<1>1. /\ Len(buf \o more) = Len(buf) + Len(more)
      /\ buf \o more \in Seq(Bytes)
  BY ConcatProperties
<1>2. \A i \in 1..TagSize : (buf \o more)[i] = buf[i]
  BY ConcatProperties DEF StartsWithTag
<1>3. SubSeq(buf \o more, 1, TagSize) = SubSeq(buf, 1, TagSize)
  <2> DEFINE a == SubSeq(buf \o more, 1, TagSize)
             b == SubSeq(buf, 1, TagSize)
  <2>1. a \in Seq(Bytes) /\ Len(a) = TagSize /\ \A i \in 1..TagSize : a[i] = (buf \o more)[i]
    BY <1>1, SubSeqProperties DEF StartsWithTag
  <2>2. b \in Seq(Bytes) /\ Len(b) = TagSize /\ \A i \in 1..TagSize : b[i] = buf[i]
    BY SubSeqProperties DEF StartsWithTag
  <2> HIDE DEF a, b
  <2>3. a = b
    BY <2>1, <2>2, <1>2, SeqEqual
  <2> QED
    BY <2>3 DEF a, b
<1> QED
  BY <1>1, <1>3 DEF StartsWithTag

-----------------------------------------------------------------------------
(* The operations on a buffer *)

(* sproto_buffer_append never puts more into a buffer than it has grown to, *)
(* and leaves in front what was there.                                      *)
LEMMA AppendIsSound ==
  ASSUME NEW buf, NEW size, NEW more \in Seq(Bytes), Sound(buf, size),
         NEW b \in sproto_buffer_append(buf, size, more)
  PROVE  /\ Sound(b.bytes, b.size)
         /\ b.bytes \in {buf, buf \o more}
         /\ b.ret \in {"true", "false", "overflow"}
<1> DEFINE grown == Grown(buf, size, Len(more))
<1>1. /\ Len(more) \in Nat /\ Len(buf) \in Nat /\ size \in Nat
      /\ Len(buf \o more) = Len(buf) + Len(more) /\ buf \o more \in Seq(Bytes)
  BY ConcatProperties DEF Sound
<1>2. grown \in Nat /\ Len(buf \o more) <= grown
  BY <1>1 DEF Sound, Grown, Larger
<1>3. \/ b = [ret |-> "overflow", bytes |-> buf, size |-> size]
      \/ b = [ret |-> "false", bytes |-> buf, size |-> size]
      \/ b = [ret |-> "true", bytes |-> buf \o more, size |-> grown] /\ ~(grown >= BufferMax)
  BY DEF sproto_buffer_append
<1> HIDE DEF grown
<1>4. CASE b = [ret |-> "overflow", bytes |-> buf, size |-> size]
  BY <1>4
<1>5. CASE b = [ret |-> "false", bytes |-> buf, size |-> size]
  BY <1>5
<1>6. CASE b = [ret |-> "true", bytes |-> buf \o more, size |-> grown] /\ ~(grown >= BufferMax)
  <2>1. grown < BufferMax
    BY <1>2, <1>6
  <2>2. Sound(buf \o more, grown)
    BY <1>1, <1>2, <2>1 DEF Sound
  <2> QED
    BY <1>6, <2>2
<1> QED
  BY <1>3, <1>4, <1>5, <1>6

(* A buffer that shrinks still holds what is left in it. *)
LEMMA ShrunkIsSound ==
  ASSUME NEW buf, NEW size, Sound(buf, size), NEW n \in 0..Len(buf),
         NEW s \in Shrunk(From(buf, n), size)
  PROVE  Sound(From(buf, n), s)
<1>1. From(buf, n) \in Seq(Bytes) /\ Len(From(buf, n)) = Len(buf) - n /\ Len(buf) \in Nat
  BY FromBytes DEF Sound
<1>2. s \in Nat /\ Len(From(buf, n)) <= s /\ s < BufferMax
  BY <1>1 DEF Sound, Shrunk, Larger
<1> QED
  BY <1>1, <1>2 DEF Sound

LEMMA RecognisedOrNot ==
  ASSUME NEW body
  PROVE  Recognised(body) \in Packet \cup {Garbled}
<1>1. CASE \E p \in Packet : body = Body(p)
  <2>1. (CHOOSE p \in Packet : body = Body(p)) \in Packet
    BY <1>1, Zenon
  <2> QED
    BY <1>1, <2>1, Zenon DEF Recognised
<1>2. CASE ~\E p \in Packet : body = Body(p)
  BY <1>2, Zenon DEF Recognised
<1> QED
  BY <1>1, <1>2

(* sproto_pop_in_sdp takes no more than there is, and remembers a tag only *)
(* if it is there and stays.                                               *)
LEMMA PopIsSound ==
  ASSUME NEW buf \in Seq(Bytes), NEW size \in Nat, NEW tagged \in BOOLEAN,
         tagged => StartsWithTag(buf),
         NEW r \in sproto_pop_in_sdp(buf, tagged, size)
  PROVE  /\ r.got \in Packet \cup {None, Error, Garbled}
         /\ r.drop \in 0..Len(buf)
         /\ r.tagged \in BOOLEAN
         /\ r.tagged => r.drop = 0 /\ StartsWithTag(buf)
<1>1. CASE r = Waits(FALSE)
  BY <1>1 DEF Waits
<1>2. CASE r = Fails(buf)
  BY <1>2 DEF Fails
<1>3. CASE r # Waits(FALSE) /\ r # Fails(buf)
  <2>1. StartsWithTag(buf)
    <3>1. CASE tagged
      BY <3>1
    <3>2. CASE ~tagged
      <4>1. sproto_pop_in_sdp(buf, tagged, size) \in {{Waits(FALSE)}, {Fails(buf)}} \/ StartsWithTag(buf)
        BY <3>2 DEF sproto_pop_in_sdp, StartsWithTag
      <4> QED
        BY <4>1, <1>3
    <3> QED
      BY <3>1, <3>2
  <2>2. CASE r = Waits(TRUE)
    BY <2>1, <2>2 DEF Waits
  <2>3. CASE r # Waits(TRUE)
    <3>1. /\ Len(buf) - TagSize >= HeaderSize
          /\ \E n \in Claimed(buf[HeaderSize]) : r = PacketOf(buf, size, n)
      <4>1. /\ ~(~tagged /\ Len(buf) < TagSize)
            /\ ~(~tagged /\ ~StartsWithTag(buf))
        BY <2>1 DEF StartsWithTag
      <4>2. ~(Len(buf) - TagSize < HeaderSize)
        BY <4>1, <2>3 DEF sproto_pop_in_sdp
      <4>3. r \in {PacketOf(buf, size, n) : n \in Claimed(buf[HeaderSize])}
                    \cup (IF buf[HeaderSize].kind = "header" THEN {} ELSE {Fails(buf)})
        BY <4>1, <4>2 DEF sproto_pop_in_sdp
      <4>4. r \in {PacketOf(buf, size, n) : n \in Claimed(buf[HeaderSize])}
        BY <4>3, <1>3
      <4> QED
        <5>1. Len(buf) \in Nat /\ HeaderSize \in Nat
          BY DEF HeaderSize
        <5>2. Len(buf) - TagSize >= HeaderSize
          BY <4>2, <5>1
        <5> QED
          BY <5>2, <4>4
    <3>2. buf[HeaderSize] \in Bytes
      BY <3>1 DEF HeaderSize
    <3>3. Claimed(buf[HeaderSize]) \subseteq Nat
      BY <3>2 DEF Claimed, Bytes
    <3>4. PICK n \in Nat : r = PacketOf(buf, size, n)
      BY <3>1, <3>3
    <3>5. /\ HeaderSize + n + TagSize <= Len(buf)
          /\ r = [got |-> Recognised(SubSeq(buf, 1, HeaderSize + n)),
                  drop |-> HeaderSize + n + TagSize, tagged |-> FALSE]
      <4>1. Len(buf) \in Nat /\ HeaderSize + n + TagSize \in Nat
        BY DEF HeaderSize
      <4>2. ~(HeaderSize + n + TagSize > Len(buf))
        BY <3>4, <2>3 DEF PacketOf
      <4>3. r = [got |-> Recognised(SubSeq(buf, 1, HeaderSize + n)),
                 drop |-> HeaderSize + n + TagSize, tagged |-> FALSE]
        BY <3>4, <4>2, <1>3, Zenon DEF PacketOf
      <4> QED
        BY <4>1, <4>2, <4>3
    <3>6. r.got \in Packet \cup {Garbled}
      BY <3>5, RecognisedOrNot
    <3>7. r.drop = HeaderSize + n + TagSize /\ r.tagged = FALSE
      BY <3>5
    <3>8. r.drop \in 0..Len(buf)
      BY <3>5, <3>7 DEF HeaderSize
    <3> QED
      BY <3>6, <3>7, <3>8
  <2> QED
    BY <2>2, <2>3
<1> QED
  BY <1>1, <1>2, <1>3

-----------------------------------------------------------------------------
(* The steps *)

(* What a receiver does with what it has, or has just read. *)
LEMMA PopInKeeps ==
  ASSUME IInv, up, NEW buf, NEW size, Sound(buf, size),
         beginTag => StartsWithTag(buf), PopIn(buf, size)
  PROVE  /\ Sound(in', inSize')
         /\ beginTag' \in BOOLEAN /\ (beginTag' => StartsWithTag(in)')
         /\ handed' \in Packet \cup {None, Error, Garbled}
         /\ up' \in BOOLEAN /\ whole' \in BOOLEAN /\ (whole' => up')
         /\ handed' = Error => wire' = <<>>
<1>1. beginTag \in BOOLEAN /\ up \in BOOLEAN /\ whole \in BOOLEAN /\ (whole => up)
  BY DEF IInv, TypeOK
<1>2. PICK r \in sproto_pop_in_sdp(buf, beginTag, size) :
         /\ handed' = r.got
         /\ beginTag' = r.tagged
         /\ in' = From(buf, r.drop)
         /\ inSize' \in IF r.drop = 0 THEN {size} ELSE Shrunk(in', size)
         /\ \/ r.got = Error /\ Ended
            \/ r.got # Error /\ UNCHANGED <<up, whole>>
  BY DEF PopIn
<1>3. /\ r.got \in Packet \cup {None, Error, Garbled}
      /\ r.drop \in 0..Len(buf)
      /\ r.tagged \in BOOLEAN
      /\ r.tagged => r.drop = 0 /\ StartsWithTag(buf)
  BY <1>1, PopIsSound DEF Sound
<1>4. r.drop = 0 => in' = buf
  BY <1>2, SubSeqProperties DEF From, Sound
<1>5. Sound(in', inSize')
  <2>1. CASE r.drop = 0
    BY <1>2, <1>4, <2>1
  <2>2. CASE r.drop # 0
    BY <1>2, <1>3, <2>2, ShrunkIsSound
  <2> QED
    BY <2>1, <2>2
<1>6. beginTag' => StartsWithTag(in)'
  BY <1>2, <1>3, <1>4 DEF StartsWithTag
<1> QED
  BY <1>1, <1>2, <1>3, <1>5, <1>6 DEF Ended

(* What is offered to the socket leaves the output buffer. *)
LEMMA WriteOutKeeps ==
  ASSUME IInv, up, NEW b, Sound(b.bytes, b.size), NEW complete \in BOOLEAN,
         WriteOut(b, complete)
  PROVE  /\ Sound(out', outSize')
         /\ wire' \in Seq(Bytes)
         /\ up' \in BOOLEAN /\ whole' \in BOOLEAN /\ (whole' => up')
<1> DEFINE n == Smaller(Len(b.bytes), IoSize)
<1>1. n \in 0..Len(b.bytes)
  BY DEF Sound, Smaller
<1>2. /\ out' = From(b.bytes, n)
      /\ outSize' \in IF n = 0 THEN {b.size} ELSE Shrunk(out', b.size)
      /\ up' = up
  BY DEF WriteOut
<1>3. PICK k \in 0..n : wire' = wire \o SubSeq(b.bytes, 1, k)
                       /\ whole' = (whole /\ complete /\ k = n)
  BY DEF WriteOut
<1>4. Sound(out', outSize')
  <2>1. CASE n = 0
    BY <1>1, <1>2, <2>1, FromBytes DEF Sound
  <2>2. CASE n # 0
    BY <1>1, <1>2, <2>2, ShrunkIsSound
  <2> QED
    BY <2>1, <2>2
<1>5. wire' \in Seq(Bytes)
  <2>1. SubSeq(b.bytes, 1, k) \in Seq(Bytes)
    BY <1>1, <1>3, FrontBytes DEF Sound
  <2> QED
    BY <1>3, <2>1, ConcatProperties DEF IInv, TypeOK
<1> QED
  BY <1>2, <1>3, <1>4, <1>5 DEF IInv, TypeOK

(* sproto_out_buffer_append is two appends. *)
LEMMA OutAppendIsSound ==
  ASSUME IInv, NEW p \in Packet, NEW b \in sproto_out_buffer_append(p)
  PROVE  Sound(b.bytes, b.size)
<1>1. Sound(out, outSize)
  BY DEF IInv, TypeOK, BuffersSound, Sound
<1>2. PICK c \in sproto_buffer_append(out, outSize, Body(p)) :
         b \in IF c.ret = "true" THEN sproto_buffer_append(c.bytes, c.size, Tag)
                                ELSE {[c EXCEPT !.ret = "false"]}
  BY DEF sproto_out_buffer_append
<1>3. Sound(c.bytes, c.size)
  BY <1>1, <1>2, BodyBytes, AppendIsSound
<1>4. CASE c.ret = "true"
  BY <1>2, <1>3, <1>4, TagBytes, AppendIsSound
<1>5. CASE c.ret # "true"
  <2>1. b = [c EXCEPT !.ret = "false"]
    BY <1>2, <1>5
  <2>2. c = [ret |-> c.ret, bytes |-> c.bytes, size |-> c.size]
    BY <1>2 DEF sproto_buffer_append
  <2>3. b.bytes = c.bytes /\ b.size = c.size
    BY <2>1, <2>2
  <2> QED
    BY <1>3, <2>3
<1> QED
  BY <1>4, <1>5
LEMMA PushKeeps == ASSUME IInv, NEW p \in Packet, Push(p) PROVE IInv'
<1>1. queue' \in Seq(Packet) /\ Len(queue') <= QueueSize
  BY DEF IInv, TypeOK, Push
<1>2. UNCHANGED <<device, up, out, outSize, wire, in, inSize, beginTag, handed, whole>>
  BY DEF Push, receiver
<1>3. TypeOK'
  BY <1>1, <1>2 DEF IInv, TypeOK
<1>4. BuffersSound'
  BY <1>2 DEF IInv, BuffersSound, StartsWithTag
<1> QED
  BY <1>3, <1>4 DEF IInv

LEMMA SenderKeeps == ASSUME IInv, SenderIterate PROVE IInv'
<1>1. /\ up
      /\ UNCHANGED <<device, in, inSize, beginTag, handed>>
  BY DEF SenderIterate, receiver
<1>2. /\ Sound(out', outSize')
      /\ wire' \in Seq(Bytes)
      /\ up' \in BOOLEAN /\ whole' \in BOOLEAN /\ (whole' => up')
      /\ queue' \in Seq(Packet) /\ Len(queue') <= QueueSize
  <2>1. CASE queue = <<>> /\ WriteOut([bytes |-> out, size |-> outSize], TRUE) /\ UNCHANGED queue
    <3> DEFINE b == [bytes |-> out, size |-> outSize]
    <3>1. Sound(b.bytes, b.size)
      BY DEF IInv, TypeOK, BuffersSound, Sound
    <3>2. WriteOut(b, TRUE)
      BY <2>1
    <3> HIDE DEF b
    <3> QED
      BY <1>1, <2>1, <3>1, <3>2, WriteOutKeeps DEF IInv, TypeOK
  <2>2. CASE /\ queue # <<>>
             /\ queue' = Tail(queue)
             /\ \E b \in sproto_out_buffer_append(Head(queue)) :
                  \/ /\ b.ret # "overflow"
                     /\ WriteOut(b, b.ret = "true")
                  \/ /\ b.ret = "overflow"
                     /\ out' = b.bytes /\ outSize' = b.size
                     /\ Ended
    <3>1. /\ queue \in Seq(Packet) /\ Len(queue) <= QueueSize
          /\ Head(queue) \in Packet
          /\ queue' \in Seq(Packet) /\ Len(queue') <= QueueSize
      BY <2>2 DEF IInv, TypeOK
    <3>2. PICK b \in sproto_out_buffer_append(Head(queue)) :
             \/ /\ b.ret # "overflow"
                /\ WriteOut(b, b.ret = "true")
             \/ /\ b.ret = "overflow"
                /\ out' = b.bytes /\ outSize' = b.size
                /\ Ended
      BY <2>2
    <3>3. Sound(b.bytes, b.size)
      BY <3>1, OutAppendIsSound
    <3>4. CASE WriteOut(b, b.ret = "true")
      <4> DEFINE complete == b.ret = "true"
      <4>1. complete \in BOOLEAN /\ WriteOut(b, complete)
        BY <3>4
      <4> HIDE DEF complete
      <4> QED
        BY <1>1, <3>1, <3>3, <4>1, WriteOutKeeps
    <3>5. CASE out' = b.bytes /\ outSize' = b.size /\ Ended
      <4>1. Sound(out', outSize')
        BY <3>3, <3>5
      <4>2. wire' = <<>> /\ up' = FALSE /\ whole' = FALSE
        BY <3>5 DEF Ended
      <4> QED
        BY <3>1, <4>1, <4>2, NoBytes
    <3> QED
      BY <3>2, <3>4, <3>5
  <2> QED
    BY <2>1, <2>2 DEF SenderIterate
<1>3. TypeOK'
  BY <1>1, <1>2 DEF IInv, TypeOK, Sound
<1>4. BuffersSound'
  BY <1>1, <1>2 DEF IInv, BuffersSound, StartsWithTag, Sound
<1> QED
  BY <1>3, <1>4 DEF IInv

(* Both actions of the receiver come to this. *)
LEMMA ReceiverKeeps ==
  ASSUME IInv, UNCHANGED <<device, sender>>, wire' \in Seq(Bytes),
         Sound(in', inSize'),
         beginTag' \in BOOLEAN, beginTag' => StartsWithTag(in)',
         handed' \in Packet \cup {None, Error, Garbled},
         up' \in BOOLEAN, whole' \in BOOLEAN, whole' => up'
  PROVE  IInv'
<1>1. UNCHANGED <<device, queue, out, outSize>>
  BY DEF sender
<1>2. TypeOK'
  BY <1>1 DEF IInv, TypeOK, Sound
<1>3. BuffersSound'
  BY <1>1 DEF IInv, BuffersSound, Sound
<1> QED
  BY <1>2, <1>3 DEF IInv

LEMMA ReadsKeeps == ASSUME IInv, ReceiverReads PROVE IInv'
<1>1. up /\ UNCHANGED <<device, sender>>
  BY DEF ReceiverReads
<1> DEFINE Read(n, b) ==
        \/ /\ b.ret = "true"
           /\ PopIn(b.bytes, b.size)
           /\ handed' # Error => wire' = From(wire, n)
        \/ /\ b.ret # "true"
           /\ handed' = None
           /\ Ended
           /\ UNCHANGED receiver
<1>0. PICK n \in 1..Smaller(Len(wire), IoSize) :
         \E b \in sproto_buffer_append(in, inSize, SubSeq(wire, 1, n)) : Read(n, b)
  BY DEF ReceiverReads
<1>2. PICK b \in sproto_buffer_append(in, inSize, SubSeq(wire, 1, n)) : Read(n, b)
  BY <1>0
<1>3. n \in 0..Len(wire) /\ wire \in Seq(Bytes)
  BY DEF Smaller, IInv, TypeOK
<1>4. SubSeq(wire, 1, n) \in Seq(Bytes) /\ From(wire, n) \in Seq(Bytes)
  BY <1>3, FrontBytes, FromBytes
<1>5. Sound(in, inSize) /\ (beginTag => StartsWithTag(in))
  BY DEF IInv, TypeOK, BuffersSound, Sound
<1>6. Sound(b.bytes, b.size) /\ b.bytes \in {in, in \o SubSeq(wire, 1, n)}
  BY <1>2, <1>4, <1>5, AppendIsSound
<1>7. beginTag => StartsWithTag(b.bytes)
  BY <1>4, <1>5, <1>6, FrontStays DEF Sound
<1>8. CASE PopIn(b.bytes, b.size) /\ (handed' # Error => wire' = From(wire, n))
  <2> DEFINE buf == b.bytes
             size == b.size
  <2>1. Sound(buf, size) /\ (beginTag => StartsWithTag(buf)) /\ PopIn(buf, size)
    BY <1>6, <1>7, <1>8
  <2> HIDE DEF buf, size
  <2>2. /\ Sound(in', inSize')
        /\ beginTag' \in BOOLEAN /\ (beginTag' => StartsWithTag(in)')
        /\ handed' \in Packet \cup {None, Error, Garbled}
        /\ up' \in BOOLEAN /\ whole' \in BOOLEAN /\ (whole' => up')
        /\ handed' = Error => wire' = <<>>
    BY <1>1, <2>1, PopInKeeps
  <2>3. wire' \in Seq(Bytes)
    BY <1>4, <1>8, <2>2, NoBytes
  <2> QED
    BY <1>1, <2>2, <2>3, ReceiverKeeps
<1>9. CASE handed' = None /\ Ended /\ UNCHANGED receiver
  <2>1. UNCHANGED <<in, inSize, beginTag>> /\ wire' = <<>> /\ up' = FALSE /\ whole' = FALSE
    BY <1>9 DEF Ended, receiver
  <2>2. beginTag' => StartsWithTag(in)'
    BY <1>5, <2>1 DEF StartsWithTag
  <2>3. Sound(in', inSize') /\ beginTag' \in BOOLEAN
    BY <1>5, <2>1 DEF IInv, TypeOK
  <2> QED
    BY <1>1, <1>9, <2>1, <2>2, <2>3, NoBytes, ReceiverKeeps
<1> QED
  BY <1>2, <1>8, <1>9

LEMMA FindsNothingKeeps == ASSUME IInv, ReceiverFindsNothing PROVE IInv'
<1>1. /\ up /\ UNCHANGED <<device, sender>>
      /\ PopIn(in, inSize)
      /\ handed' # Error => wire' = wire
  BY DEF ReceiverFindsNothing
<1>2. Sound(in, inSize) /\ (beginTag => StartsWithTag(in))
  BY DEF IInv, TypeOK, BuffersSound, Sound
<1>3. /\ Sound(in', inSize')
      /\ beginTag' \in BOOLEAN /\ (beginTag' => StartsWithTag(in)')
      /\ handed' \in Packet \cup {None, Error, Garbled}
      /\ up' \in BOOLEAN /\ whole' \in BOOLEAN /\ (whole' => up')
      /\ handed' = Error => wire' = <<>>
  BY <1>1, <1>2, PopInKeeps
<1>4. wire' \in Seq(Bytes)
  BY <1>1, <1>3, NoBytes DEF IInv, TypeOK
<1> QED
  BY <1>1, <1>3, <1>4, ReceiverKeeps

LEMMA BreakKeeps == ASSUME IInv, Break PROVE IInv'
<1>1. /\ UNCHANGED <<device, queue, out, outSize, in, inSize, beginTag>>
      /\ up' = FALSE /\ wire' = <<>> /\ whole' = FALSE /\ handed' = None
  BY DEF Break, Ended, sender, receiver
<1>2. TypeOK'
  BY <1>1, NoBytes DEF IInv, TypeOK
<1>3. BuffersSound'
  BY <1>1 DEF IInv, BuffersSound, StartsWithTag
<1> QED
  BY <1>2, <1>3 DEF IInv

LEMMA ConnectKeeps == ASSUME IInv, Connect PROVE IInv'
<1>1. up' = TRUE /\ handed' = None /\ UNCHANGED device
  BY DEF Connect
<1>2. CASE /\ device = "receiver"
           /\ queue' = <<>> /\ out' = <<>> /\ outSize' = 0
           /\ wire' = <<>>
           /\ whole' = (in = <<>>)
           /\ UNCHANGED receiver
  <2>1. UNCHANGED <<in, inSize, beginTag>>
    BY <1>2 DEF receiver
  <2>2. TypeOK'
    BY <1>1, <1>2, <2>1, NoBytes DEF IInv, TypeOK
  <2>3. BuffersSound'
    BY <1>2, <2>1 DEF IInv, BuffersSound, StartsWithTag
  <2> QED
    BY <2>2, <2>3 DEF IInv
<1>3. CASE /\ device = "sender"
           /\ in' = <<>> /\ inSize' = 0 /\ beginTag' = FALSE
           /\ \E p \in Packet : wire' = Framed(p)
           /\ whole' = (out = <<>>)
           /\ UNCHANGED sender
  <2>1. UNCHANGED <<queue, out, outSize>> /\ wire' \in Seq(Bytes)
    BY <1>3, FramedBytes DEF sender
  <2>2. TypeOK'
    BY <1>1, <1>3, <2>1, NoBytes DEF IInv, TypeOK
  <2>3. BuffersSound'
    BY <1>3, <2>1 DEF IInv, BuffersSound
  <2> QED
    BY <2>2, <2>3 DEF IInv
<1> QED
  BY <1>2, <1>3 DEF Connect

LEMMA Inductive == IInv /\ [Next]_vars => IInv'
<1> SUFFICES ASSUME IInv, [Next]_vars PROVE IInv'
  OBVIOUS
<1>1. CASE \E p \in Packet : Push(p)
  BY <1>1, PushKeeps
<1>2. CASE SenderIterate
  BY <1>2, SenderKeeps
<1>3. CASE ReceiverReads
  BY <1>3, ReadsKeeps
<1>4. CASE ReceiverFindsNothing
  BY <1>4, FindsNothingKeeps
<1>5. CASE Break
  BY <1>5, BreakKeeps
<1>6. CASE Connect
  BY <1>6, ConnectKeeps
<1>7. CASE UNCHANGED vars
  BY <1>7 DEF IInv, TypeOK, BuffersSound, StartsWithTag, vars
<1> QED
  BY <1>1, <1>2, <1>3, <1>4, <1>5, <1>6, <1>7 DEF Next

LEMMA Initially == Init => IInv
<1> SUFFICES ASSUME Init PROVE IInv
  OBVIOUS
<1>1. TypeOK
  <2>1. out \in Seq(Bytes) /\ in \in Seq(Bytes) /\ wire \in Seq(Bytes)
    <3>1. out = <<>> /\ in = <<>> /\ wire = <<>>
      BY DEF Init
    <3> QED
      BY <3>1, NoBytes, Zenon
  <2>2. queue \in Seq(Packet) /\ Len(queue) <= QueueSize
    <3>1. queue = <<>>
      BY DEF Init
    <3>2. queue \in Seq(Packet) /\ Len(queue) = 0
      BY <3>1, NoBytes, Zenon
    <3> QED
      BY <3>2
  <2>3. device \in {"sender", "receiver"} /\ up \in BOOLEAN /\ (whole => up)
    BY DEF Init
  <2>4. outSize \in Nat /\ inSize \in Nat /\ beginTag \in BOOLEAN /\ whole \in BOOLEAN
    BY DEF Init
  <2>5. handed \in Packet \cup {None, Error, Garbled}
    BY DEF Init
  <2> QED
    BY <2>1, <2>2, <2>3, <2>4, <2>5 DEF TypeOK
<1>2. BuffersSound
  <2>1. Len(in) = 0 /\ Len(out) = 0 /\ inSize = 0 /\ outSize = 0 /\ beginTag = FALSE
    BY NoBytes DEF Init
  <2> QED
    BY <2>1 DEF BuffersSound
<1> QED
  BY <1>1, <1>2 DEF IInv

(* The buffers of proto.c are sound and typed throughout. *)
LEMMA Always == Spec => []IInv
BY Initially, Inductive, PTL DEF Spec

-----------------------------------------------------------------------------

(* Every variable keeps its type, and only a standing connection is whole. *)
THEOREM TypeCorrect == Spec => []TypeOK
<1>1. IInv => TypeOK
  BY DEF IInv
<1> QED
  BY Always, <1>1, PTL

(* No buffer of proto.c ever holds more than it was given, whatever is      *)
(* read, written, refused by the allocator or left over from an earlier     *)
(* connection, and begin_tag is never set without a tag.                    *)
THEOREM BuffersAreSound == Spec => []BuffersSound
<1>1. IInv => BuffersSound
  BY DEF IInv
<1> QED
  BY Always, <1>1, PTL

-----------------------------------------------------------------------------
(* Recovery from bad input: with the error the connection ends and the      *)
(* buffer is empty, and it stays empty until the device connects again.     *)
ErrorEmpties == handed = Error => ~up /\ in = <<>>

LEMMA ErrorDropsAll ==
  ASSUME NEW buf, NEW size, NEW tagged, NEW r \in sproto_pop_in_sdp(buf, tagged, size),
         r.got = Error
  PROVE  r.drop = Len(buf)
<1>1. \A t : r # Waits(t)
  BY DEF Waits
<1>2. r = Fails(buf) \/ \E n \in Claimed(buf[HeaderSize]) : r = PacketOf(buf, size, n)
  BY <1>1, Zenon DEF sproto_pop_in_sdp
<1>3. CASE r = Fails(buf)
  BY <1>3 DEF Fails
<1>4. CASE \E n \in Claimed(buf[HeaderSize]) : r = PacketOf(buf, size, n)
  <2>1. PICK n : r = PacketOf(buf, size, n)
    BY <1>4
  <2> DEFINE body == SubSeq(buf, 1, HeaderSize + n)
  <2>2. \/ r = Waits(TRUE)
        \/ r = Fails(buf)
        \/ r = [got |-> Recognised(body), drop |-> HeaderSize + n + TagSize, tagged |-> FALSE]
    BY <2>1, Zenon DEF PacketOf
  <2>3. Recognised(body) # Error
    <3>1. Recognised(body) \in Packet \cup {Garbled}
      BY RecognisedOrNot, Zenon
    <3>2. Error \notin Packet /\ Error # Garbled
      OBVIOUS
    <3> QED
      BY <3>1, <3>2, Zenon
  <2>4. r = Fails(buf)
    <3>1. CASE r = [got |-> Recognised(body), drop |-> HeaderSize + n + TagSize, tagged |-> FALSE]
      <4>1. r.got = Recognised(body)
        BY <3>1
      <4> QED
        BY <4>1, <2>3
    <3> QED
      BY <1>1, <2>2, <3>1, Zenon
  <2> QED
    BY <2>4 DEF Fails
<1> QED
  BY <1>2, <1>3, <1>4

LEMMA PopInEmpties ==
  ASSUME NEW buf \in Seq(Bytes), NEW size, PopIn(buf, size), handed' = Error
  PROVE  up' = FALSE /\ in' = <<>>
<1>1. PICK r \in sproto_pop_in_sdp(buf, beginTag, size) :
         /\ handed' = r.got
         /\ in' = From(buf, r.drop)
         /\ \/ r.got = Error /\ Ended
            \/ r.got # Error
  BY DEF PopIn
<1>2. r.drop = Len(buf)
  BY <1>1, ErrorDropsAll
<1>3. From(buf, Len(buf)) = <<>>
  BY FromBytes, EmptySeq
<1> QED
  BY <1>1, <1>2, <1>3 DEF Ended

LEMMA ErrorEmptiesStep == IInv /\ ErrorEmpties /\ [Next]_vars => ErrorEmpties'
<1> SUFFICES ASSUME IInv, ErrorEmpties, [Next]_vars PROVE ErrorEmpties'
  OBVIOUS
<1>1. CASE \E p \in Packet : Push(p)
  BY <1>1 DEF Push, receiver, ErrorEmpties
<1>2. CASE SenderIterate
  BY <1>2 DEF SenderIterate, receiver, ErrorEmpties
<1>3. CASE ReceiverReads
  <2>1. Sound(in, inSize) /\ wire \in Seq(Bytes)
    BY DEF IInv, TypeOK, BuffersSound, Sound
  <2>2. PICK n \in 1..Smaller(Len(wire), IoSize) :
           \E b \in sproto_buffer_append(in, inSize, SubSeq(wire, 1, n)) :
             PopIn(b.bytes, b.size) \/ handed' = None
    BY <1>3 DEF ReceiverReads
  <2>5. PICK b \in sproto_buffer_append(in, inSize, SubSeq(wire, 1, n)) :
           PopIn(b.bytes, b.size) \/ handed' = None
    BY <2>2
  <2>3. SubSeq(wire, 1, n) \in Seq(Bytes)
    BY <2>1, FrontBytes DEF Smaller
  <2>4. b.bytes \in Seq(Bytes)
    BY <2>1, <2>5, <2>3, AppendIsSound DEF Sound
  <2> QED
    BY <2>5, <2>4, PopInEmpties DEF ErrorEmpties
<1>4. CASE ReceiverFindsNothing
  BY <1>4, PopInEmpties DEF ReceiverFindsNothing, ErrorEmpties, IInv, TypeOK
<1>5. CASE Break
  BY <1>5 DEF Break, ErrorEmpties
<1>6. CASE Connect
  BY <1>6 DEF Connect, ErrorEmpties
<1>7. CASE UNCHANGED vars
  BY <1>7 DEF vars, ErrorEmpties
<1> QED
  BY <1>1, <1>2, <1>3, <1>4, <1>5, <1>6, <1>7 DEF Next

(* sproto_pop_in_sdp throws everything away when it finds an error: the     *)
(* connection that the device makes next is not spoilt by what it read on   *)
(* the last.                                                                *)
THEOREM ErrorsHeal == Spec => ErrorHeals
<1>1. Init => ErrorEmpties
  BY DEF Init, ErrorEmpties
<1>2. ErrorEmpties /\ [Next]_vars => [Connect /\ device = "receiver" /\ handed = Error => whole']_vars
  BY DEF ErrorEmpties, Connect
<1> QED
  BY Always, <1>1, <1>2, ErrorEmptiesStep, PTL DEF Spec, ErrorHeals

-----------------------------------------------------------------------------
(***************************************************************************)
(* The refinement. What a stream holds is found by reading it from its     *)
(* front, and what is proved of it by going back from its end, place by    *)
(* place.                                                                  *)
(***************************************************************************)

-----------------------------------------------------------------------------
(* Going back from the end of a stream                                      *)

LEMMA LeastNat ==
  ASSUME NEW T \in SUBSET Nat, T # {}
  PROVE  \E x \in T : \A y \in T : x <= y
<1>1. PICK x \in T : \A y \in T : ~(<<y, x>> \in OpToRel(<, Nat))
  BY NatLessThanWellFounded, WFMin
<1>2. \A y \in T : y \in Nat /\ x \in Nat /\ ~(y < x)
  BY <1>1 DEF OpToRel
<1> QED
  BY <1>2

LEMMA GoingBack ==
  ASSUME NEW N \in Nat, NEW T,
         \A i \in 0..N : (\A j \in (i + 1)..N : j \in T) => i \in T
  PROVE  \A i \in 0..N : i \in T
<1> DEFINE Missing == {m \in 0..N : N - m \notin T}
<1>1. CASE Missing = {}
  <2> SUFFICES ASSUME NEW i \in 0..N PROVE i \in T
    OBVIOUS
  <2>1. N - i \in 0..N /\ N - (N - i) = i
    OBVIOUS
  <2>2. i \notin T => N - i \in Missing
    BY <2>1, Zenon
  <2> QED
    BY <1>1, <2>2, Zenon
<1>2. CASE Missing # {}
  <2>1. PICK m \in Missing : \A k \in Missing : m <= k
    <3>1. Missing \in SUBSET Nat
      OBVIOUS
    <3> HIDE DEF Missing
    <3> QED
      BY <1>2, <3>1, LeastNat
  <2>2. N - m \in 0..N /\ N - m \notin T
    OBVIOUS
  <2>3. ASSUME NEW j \in (N - m + 1)..N PROVE j \in T
    <3>1. N - j \in 0..N /\ N - j < m /\ N - (N - j) = j
      OBVIOUS
    <3> QED
      BY <2>1, <3>1
  <2> QED
    BY <2>2, <2>3
<1> QED
  BY <1>1, <1>2

-----------------------------------------------------------------------------
(* Frames                                                                   *)

LEMMA Joined ==
  ASSUME NEW a \in Seq(Bytes), NEW b \in Seq(Bytes)
  PROVE  /\ a \o b \in Seq(Bytes) /\ Len(a \o b) = Len(a) + Len(b)
         /\ \A i \in 1..Len(a) : (a \o b)[i] = a[i]
         /\ \A i \in 1..Len(b) : (a \o b)[Len(a) + i] = b[i]
BY ConcatProperties

LEMMA FrameOf ==
  ASSUME NEW p \in Packet
  PROVE  /\ Framed(p) \in Seq(Bytes)
         /\ Len(Framed(p)) = HeaderSize + DataLen[p] + TagSize
         /\ Len(Framed(p)) \in Nat /\ Len(Framed(p)) > HeaderSize
         /\ Framed(p)[HeaderSize] = Byte("header", p, 0)
         /\ Body(p) \in Seq(Bytes) /\ Len(Body(p)) = HeaderSize + DataLen[p]
         /\ DataLen[p] \in Nat
<1> DEFINE header == <<Byte("header", p, 0)>>
           data   == [i \in 1..DataLen[p] |-> Byte("data", p, i)]
<1>1. header \in Seq(Bytes) /\ Len(header) = 1 /\ header[1] = Byte("header", p, 0)
  BY DEF Byte, Bytes
<1>2. \A i \in 1..DataLen[p] : Byte("data", p, i) \in Bytes
  BY DEF Byte, Bytes
<1>3. DataLen[p] \in Nat
  OBVIOUS
<1>4. data \in Seq(Bytes) /\ Len(data) = DataLen[p]
  BY <1>2, <1>3
<1> HIDE DEF header, data
<1>5. /\ Tag \o header \in Seq(Bytes) /\ Len(Tag \o header) = HeaderSize
      /\ (Tag \o header)[HeaderSize] = Byte("header", p, 0)
      /\ HeaderSize \in Nat \ {0}
  <2>1. 1 \in 1..Len(header)
    BY <1>1
  <2>2. /\ Tag \o header \in Seq(Bytes)
        /\ Len(Tag \o header) = Len(Tag) + Len(header)
        /\ \A i \in 1..Len(header) : (Tag \o header)[Len(Tag) + i] = header[i]
    BY <1>1, TagBytes, Joined, Zenon
  <2> QED
    BY <1>1, <2>1, <2>2, TagBytes DEF HeaderSize
<1>6. /\ Body(p) \in Seq(Bytes) /\ Len(Body(p)) = HeaderSize + DataLen[p]
      /\ Body(p)[HeaderSize] = Byte("header", p, 0)
  <2> DEFINE front == Tag \o header
  <2>1. Body(p) = front \o data
    BY DEF Body, header, data
  <2>2. /\ front \in Seq(Bytes) /\ Len(front) = HeaderSize
        /\ front[HeaderSize] = Byte("header", p, 0)
    BY <1>5
  <2> HIDE DEF front
  <2>3. /\ front \o data \in Seq(Bytes)
        /\ Len(front \o data) = Len(front) + Len(data)
        /\ \A i \in 1..Len(front) : (front \o data)[i] = front[i]
    BY <1>4, <2>2, Joined
  <2>4. HeaderSize \in 1..Len(front)
    BY <1>5, <2>2
  <2> QED
    BY <1>4, <2>1, <2>2, <2>3, <2>4
<1>7. HeaderSize \in 1..Len(Body(p))
  BY <1>3, <1>5, <1>6
<1>8. /\ Framed(p) \in Seq(Bytes) /\ Len(Framed(p)) = Len(Body(p)) + Len(Tag)
      /\ Framed(p)[HeaderSize] = Body(p)[HeaderSize]
  BY <1>6, <1>7, TagBytes, Joined DEF Framed
<1> QED
  BY <1>3, <1>5, <1>6, <1>8, TagBytes

LEMMA Within ==
  ASSUME NEW s \in Seq(Bytes), NEW i \in 0..Len(s), NEW n \in Nat, i + n <= Len(s)
  PROVE  /\ SubSeq(s, i + 1, i + n) \in Seq(Bytes) /\ Len(SubSeq(s, i + 1, i + n)) = n
         /\ \A k \in 1..n : SubSeq(s, i + 1, i + n)[k] = s[i + k]
BY SubSeqProperties

LEMMA FramedIs ==
  ASSUME NEW s \in Seq(Bytes), NEW i \in 0..Len(s), NEW p \in Packet
  PROVE  p \in FramedAt(s, i) <=> /\ i + Len(Framed(p)) <= Len(s)
                                  /\ \A k \in 1..Len(Framed(p)) :
                                       s[i + k] = Framed(p)[k]
<1> DEFINE n == Len(Framed(p))
           f == Framed(p)
<1>1. n \in Nat /\ f \in Seq(Bytes) /\ Len(f) = n
  BY FrameOf
<1>2. CASE i + n <= Len(s)
  <2> DEFINE a == SubSeq(s, i + 1, i + n)
  <2>1. a \in Seq(Bytes) /\ Len(a) = n /\ \A k \in 1..n : a[k] = s[i + k]
    BY <1>1, <1>2, Within
  <2>2. p \in FramedAt(s, i) <=> a = f
    BY <1>2 DEF FramedAt
  <2> HIDE DEF a, f, n
  <2>3. a = f <=> \A k \in 1..n : a[k] = f[k]
    BY <1>1, <2>1, SeqEqual
  <2> QED
    BY <1>2, <2>1, <2>2, <2>3 DEF f, n
<1>3. CASE ~(i + n <= Len(s))
  BY <1>3 DEF FramedAt
<1> QED
  BY <1>2, <1>3

(* A header tells the packet. *)
LEMMA OneAtMost ==
  ASSUME NEW s \in Seq(Bytes), NEW i \in 0..Len(s),
         NEW p \in FramedAt(s, i), NEW q \in FramedAt(s, i)
  PROVE  p = q
<1>1. p \in Packet /\ q \in Packet /\ HeaderSize \in Nat \ {0}
  BY DEF FramedAt, HeaderSize
<1>2. HeaderSize \in 1..Len(Framed(p)) /\ HeaderSize \in 1..Len(Framed(q))
  <2>1. Len(Framed(p)) \in Nat /\ Len(Framed(p)) > HeaderSize
    BY <1>1, FrameOf, Zenon
  <2>2. Len(Framed(q)) \in Nat /\ Len(Framed(q)) > HeaderSize
    BY <1>1, FrameOf, Zenon
  <2> QED
    BY <1>1, <2>1, <2>2
<1>3. /\ s[i + HeaderSize] = Framed(p)[HeaderSize]
      /\ s[i + HeaderSize] = Framed(q)[HeaderSize]
  BY <1>1, <1>2, FramedIs
<1>4. Byte("header", p, 0) = Byte("header", q, 0)
  BY <1>1, <1>3, FrameOf
<1> QED
  BY <1>4 DEF Byte

-----------------------------------------------------------------------------
(* Reading a stream from any of its places                                  *)

(* What is read from the i-th place, if f is what is read further on. *)
Read(s, i, f) ==
  IF i = Len(s) THEN <<>>
  ELSE IF FramedAt(s, i) = {} THEN <<Garbled>>
  ELSE LET p == CHOOSE p \in FramedAt(s, i) : TRUE
       IN  <<p>> \o f[i + Len(Framed(p))]

Reads(s, n, f) == f = [i \in n..Len(s) |-> Read(s, i, f)]

LEMMA Chosen ==
  ASSUME NEW s \in Seq(Bytes), NEW i \in 0..Len(s), NEW p \in FramedAt(s, i)
  PROVE  (CHOOSE q \in FramedAt(s, i) : TRUE) = p
<1>1. (CHOOSE q \in FramedAt(s, i) : TRUE) \in FramedAt(s, i)
  OBVIOUS
<1> QED
  BY <1>1, OneAtMost

LEMMA FrameAhead ==
  ASSUME NEW s \in Seq(Bytes), NEW i \in 0..Len(s), NEW p \in FramedAt(s, i)
  PROVE  /\ p \in Packet /\ i < Len(s)
         /\ i + Len(Framed(p)) \in (i + 1)..Len(s)
<1>1. p \in Packet /\ i + Len(Framed(p)) <= Len(s)
  BY DEF FramedAt
<1>2. Len(Framed(p)) \in Nat \ {0}
  BY <1>1, FrameOf DEF HeaderSize
<1> QED
  BY <1>1, <1>2

LEMMA ReadCases ==
  ASSUME NEW s \in Seq(Bytes), NEW i \in 0..Len(s), NEW f
  PROVE  /\ i = Len(s) => Read(s, i, f) = <<>>
         /\ i # Len(s) /\ FramedAt(s, i) = {} => Read(s, i, f) = <<Garbled>>
         /\ \A p \in FramedAt(s, i) :
              /\ i # Len(s)
              /\ Read(s, i, f) = <<p>> \o f[i + Len(Framed(p))]
<1>1. ASSUME NEW p \in FramedAt(s, i)
      PROVE  i # Len(s) /\ Read(s, i, f) = <<p>> \o f[i + Len(Framed(p))]
  <2>1. i # Len(s) /\ FramedAt(s, i) # {}
    BY FrameAhead
  <2>2. (CHOOSE q \in FramedAt(s, i) : TRUE) = p
    BY Chosen
  <2> QED
    BY <2>1, <2>2 DEF Read
<1> QED
  BY <1>1 DEF Read

(* A place is read by what is read further on. *)
LEMMA ReadAhead ==
  ASSUME NEW s \in Seq(Bytes), NEW i \in 0..Len(s), NEW f, NEW g,
         \A j \in (i + 1)..Len(s) : f[j] = g[j]
  PROVE  Read(s, i, f) = Read(s, i, g)
<1>1. CASE FramedAt(s, i) = {}
  BY <1>1 DEF Read
<1>2. ASSUME NEW p \in FramedAt(s, i) PROVE Read(s, i, f) = Read(s, i, g)
  <2>1. f[i + Len(Framed(p))] = g[i + Len(Framed(p))]
    BY FrameAhead
  <2> QED
    BY <2>1, ReadCases
<1> QED
  BY <1>1, <1>2

LEMMA ReadsFromHere ==
  ASSUME NEW s \in Seq(Bytes), NEW i \in 0..Len(s), NEW g, Reads(s, i + 1, g)
  PROVE  \E h : Reads(s, i, h)
<1> DEFINE h == [j \in i..Len(s) |-> IF j = i THEN Read(s, i, g) ELSE g[j]]
<1>1. \A j \in (i + 1)..Len(s) : h[j] = g[j]
  OBVIOUS
<1>2. ASSUME NEW j \in i..Len(s) PROVE h[j] = Read(s, j, h)
  <2>1. j \in 0..Len(s) /\ (j # i => j \in (i + 1)..Len(s))
    OBVIOUS
  <2>2. \A k \in (j + 1)..Len(s) : k \in (i + 1)..Len(s)
    BY <2>1
  <2>3. \A k \in (j + 1)..Len(s) : g[k] = h[k]
    BY <1>1, <2>2
  <2>4. Read(s, j, g) = Read(s, j, h)
    BY <2>1, <2>3, ReadAhead
  <2>5. j # i => g[j] = Read(s, j, g)
    BY <2>1 DEF Reads
  <2> QED
    BY <2>4, <2>5
<1>3. h = [j \in i..Len(s) |-> h[j]]
  OBVIOUS
<1> HIDE DEF h
<1> QED
  BY <1>2, <1>3 DEF Reads

LEMMA Readable ==
  ASSUME NEW s \in Seq(Bytes)
  PROVE  \E f : Reads(s, 0, f)
<1> DEFINE T == {i \in 0..Len(s) : \E f : Reads(s, i, f)}
<1>1. ASSUME NEW i \in 0..Len(s), \A j \in (i + 1)..Len(s) : j \in T
      PROVE  i \in T
  <2>1. CASE i = Len(s)
    <3> DEFINE g == [j \in {} |-> j]
    <3>1. Reads(s, i + 1, g)
      <4>1. (i + 1)..Len(s) = {}
        BY <2>1
      <4> QED
        BY <4>1 DEF Reads
    <3> QED
      BY <3>1, ReadsFromHere
  <2>2. CASE i # Len(s)
    <3>1. i + 1 \in T
      BY <1>1, <2>2
    <3> QED
      BY <3>1, ReadsFromHere
  <2> QED
    BY <2>1, <2>2
<1>2. Len(s) \in Nat /\ 0 \in 0..Len(s)
  OBVIOUS
<1> HIDE DEF T
<1>3. \A i \in 0..Len(s) : i \in T
  BY <1>1, <1>2, GoingBack
<1> QED
  BY <1>2, <1>3 DEF T

(* The recursion of PacketsAfter has a solution, which it is. *)
LEMMA AfterIs ==
  ASSUME NEW s \in Seq(Bytes)
  PROVE  Reads(s, 0, PacketsAfter(s))
<1>1. PacketsAfter(s) = CHOOSE f : Reads(s, 0, f)
  BY DEF PacketsAfter, Reads, Read
<1> QED
  BY <1>1, Readable

LEMMA After ==
  ASSUME NEW s \in Seq(Bytes), NEW i \in 0..Len(s)
  PROVE  LET f == PacketsAfter(s)
         IN  /\ i = Len(s) => f[i] = <<>>
             /\ i # Len(s) /\ FramedAt(s, i) = {} => f[i] = <<Garbled>>
             /\ \A p \in FramedAt(s, i) : f[i] = <<p>> \o f[i + Len(Framed(p))]
<1> DEFINE f == PacketsAfter(s)
<1>1. f = [j \in 0..Len(s) |-> Read(s, j, f)]
  BY AfterIs DEF Reads
<1> HIDE DEF f
<1>2. f[i] = Read(s, i, f)
  BY <1>1
<1> QED
  BY <1>2, ReadCases DEF f

-----------------------------------------------------------------------------
(* What is read from a stream                                               *)

Told == Packet \cup {Garbled}

LEMMA Prefixed ==
  ASSUME NEW S, NEW a \in S, NEW t \in Seq(S)
  PROVE  /\ <<a>> \o t \in Seq(S) /\ Len(<<a>> \o t) = Len(t) + 1
         /\ <<a>> \o t # <<>>
         /\ (<<a>> \o t)[1] = a
         /\ \A i \in 1..Len(t) : (<<a>> \o t)[i + 1] = t[i]
         /\ Head(<<a>> \o t) = a /\ Tail(<<a>> \o t) = t
<1>1. <<a>> \in Seq(S) /\ Len(<<a>>) = 1 /\ <<a>>[1] = a
  OBVIOUS
<1>2. /\ <<a>> \o t \in Seq(S) /\ Len(<<a>> \o t) = Len(t) + 1
      /\ (<<a>> \o t)[1] = a
      /\ \A i \in 1..Len(t) : (<<a>> \o t)[i + 1] = t[i]
  BY <1>1, ConcatProperties
<1> DEFINE u == <<a>> \o t
<1> HIDE DEF u
<1>3. u \in Seq(S) /\ Len(u) = Len(t) + 1 /\ \A i \in 1..Len(t) : u[i + 1] = t[i]
  BY <1>2 DEF u
<1>4. u # <<>>
  BY <1>3
<1>5. /\ Tail(u) \in Seq(S) /\ Len(Tail(u)) = Len(t)
      /\ \A i \in 1..Len(t) : Tail(u)[i] = t[i]
  BY <1>3, <1>4, HeadTailProperties
<1>6. Tail(u) = t
  BY <1>5, SeqEqual
<1> QED
  BY <1>2, <1>4, <1>6 DEF u

LEMMA Narrowed ==
  ASSUME NEW R, NEW S, NEW t \in Seq(S), \A i \in 1..Len(t) : t[i] \in R
  PROVE  t \in Seq(R)
<1>1. Len(t) \in Nat /\ t \in [1..Len(t) -> R]
  OBVIOUS
<1> QED
  BY <1>1, SeqDef

LEMMA AfterTyped ==
  ASSUME NEW s \in Seq(Bytes)
  PROVE  \A i \in 0..Len(s) : PacketsAfter(s)[i] \in Seq(Told)
<1> DEFINE f == PacketsAfter(s)
           T == {i \in 0..Len(s) : f[i] \in Seq(Told)}
<1>1. ASSUME NEW i \in 0..Len(s), \A j \in (i + 1)..Len(s) : j \in T
      PROVE  i \in T
  <2>1. CASE i = Len(s)
    <3>1. f[i] = <<>> /\ <<>> \in Seq(Told)
      BY <2>1, After
    <3> QED
      BY <3>1, Zenon
  <2>2. CASE i # Len(s) /\ FramedAt(s, i) = {}
    <3>1. f[i] = <<Garbled>>
      BY <2>2, After
    <3>2. Garbled \in Told /\ <<Garbled>> \in Seq(Told)
      BY DEF Told
    <3> QED
      BY <3>1, <3>2, Zenon
  <2>3. ASSUME NEW p \in FramedAt(s, i) PROVE i \in T
    <3>1. p \in Told /\ f[i + Len(Framed(p))] \in Seq(Told)
      BY <1>1, FrameAhead DEF Told
    <3>2. f[i] = <<p>> \o f[i + Len(Framed(p))]
      BY After
    <3> HIDE DEF f
    <3>3. f[i] \in Seq(Told)
      BY <3>1, <3>2, Prefixed
    <3> QED
      BY <3>3
  <2> QED
    BY <2>1, <2>2, <2>3
<1> HIDE DEF T
<1>2. \A i \in 0..Len(s) : i \in T
  <2>1. Len(s) \in Nat
    OBVIOUS
  <2> QED
    BY <1>1, <2>1, GoingBack
<1> QED
  BY <1>2 DEF T

LEMMA GarbledIsNoPacket == Garbled \notin Packet /\ <<Garbled>> \notin Seq(Packet)
<1>1. Garbled \notin Packet
  OBVIOUS
<1>2. ASSUME <<Garbled>> \in Seq(Packet) PROVE FALSE
  <2>1. <<Garbled>>[1] \in Packet
    BY <1>2
  <2> QED
    BY <1>1, <2>1
<1> QED
  BY <1>1, <1>2

(* A stream that holds packets only begins with one, if it is not over. *)
LEMMA NextFrame ==
  ASSUME NEW s \in Seq(Bytes), NEW i \in 0..Len(s), i # Len(s),
         PacketsAfter(s)[i] \in Seq(Packet)
  PROVE  \E p \in FramedAt(s, i) :
           /\ PacketsAfter(s)[i] = <<p>> \o PacketsAfter(s)[i + Len(Framed(p))]
           /\ PacketsAfter(s)[i + Len(Framed(p))] \in Seq(Packet)
<1> DEFINE f == PacketsAfter(s)
<1>1. PICK p \in FramedAt(s, i) : TRUE
  BY After, GarbledIsNoPacket
<1>2. f[i] = <<p>> \o f[i + Len(Framed(p))]
  BY After
<1> DEFINE t == f[i + Len(Framed(p))]
<1>3. p \in Packet /\ t \in Seq(Told)
  BY FrameAhead, AfterTyped
<1>4. /\ p \in Told
      /\ f[i] \in Seq(Packet) /\ f[i] = <<p>> \o t
  BY <1>2, <1>3 DEF Told
<1> HIDE DEF f, t
<1>5. /\ Len(<<p>> \o t) = Len(t) + 1
      /\ \A j \in 1..Len(t) : (<<p>> \o t)[j + 1] = t[j]
  BY <1>3, <1>4, Prefixed
<1>6. \A j \in 1..Len(t) : t[j] \in Packet
  <2> SUFFICES ASSUME NEW j \in 1..Len(t) PROVE t[j] \in Packet
    OBVIOUS
  <2>1. j + 1 \in 1..Len(f[i]) /\ f[i][j + 1] = t[j]
    BY <1>3, <1>4, <1>5
  <2> QED
    BY <1>4, <2>1
<1>7. t \in Seq(Packet)
  BY <1>3, <1>6, Narrowed
<1> QED
  BY <1>4, <1>7 DEF f, t

-----------------------------------------------------------------------------
(* Streams that grow and shrink                                             *)

LEMMA FramesStay ==
  ASSUME NEW s \in Seq(Bytes), NEW more \in Seq(Bytes), NEW i \in 0..Len(s),
         NEW p \in FramedAt(s, i)
  PROVE  p \in FramedAt(s \o more, i)
<1> DEFINE t == s \o more
           f == Framed(p)
<1>1. /\ t \in Seq(Bytes) /\ Len(t) = Len(s) + Len(more)
      /\ \A j \in 1..Len(s) : t[j] = s[j]
  BY Joined
<1>2. p \in Packet /\ Len(f) \in Nat
  BY FrameAhead, FrameOf
<1>3. i + Len(f) <= Len(s) /\ \A k \in 1..Len(f) : s[i + k] = f[k]
  BY <1>2, FramedIs
<1> HIDE DEF t, f
<1>4. i + Len(f) <= Len(t) /\ i \in 0..Len(t)
  BY <1>1, <1>2, <1>3
<1>5. \A k \in 1..Len(f) : t[i + k] = f[k]
  BY <1>1, <1>2, <1>3
<1> QED
  BY <1>1, <1>2, <1>4, <1>5, FramedIs DEF t, f

LEMMA FrameAtEnd ==
  ASSUME NEW s \in Seq(Bytes), NEW p \in Packet
  PROVE  /\ p \in FramedAt(s \o Framed(p), Len(s))
         /\ Len(s \o Framed(p)) = Len(s) + Len(Framed(p))
<1> DEFINE f == Framed(p)
           t == s \o f
<1>1. f \in Seq(Bytes) /\ Len(f) \in Nat /\ Len(s) \in Nat
  BY FrameOf
<1>2. /\ t \in Seq(Bytes) /\ Len(t) = Len(s) + Len(f)
      /\ \A k \in 1..Len(f) : t[Len(s) + k] = f[k]
  BY <1>1, Joined
<1>3. Len(s) \in 0..Len(t) /\ Len(s) + Len(f) <= Len(t)
  BY <1>1, <1>2
<1>4. p \in FramedAt(t, Len(s))
  <2> HIDE DEF t
  <2> QED
    BY <1>2, <1>3, FramedIs
<1> QED
  BY <1>2, <1>4

LEMMA Appended ==
  ASSUME NEW S, NEW a \in S, NEW t \in Seq(S), NEW p \in S
  PROVE  <<a>> \o Append(t, p) = Append(<<a>> \o t, p)
<1>1. /\ Append(t, p) \in Seq(S) /\ Len(Append(t, p)) = Len(t) + 1
      /\ Append(t, p)[Len(t) + 1] = p
      /\ \A i \in 1..Len(t) : Append(t, p)[i] = t[i]
  BY AppendProperties
<1> DEFINE b == Append(t, p)
           u == <<a>> \o t
           v == <<a>> \o b
           w == Append(u, p)
<1>2. /\ u \in Seq(S) /\ Len(u) = Len(t) + 1 /\ u[1] = a
      /\ \A i \in 1..Len(t) : u[i + 1] = t[i]
  BY Prefixed
<1>3. /\ v \in Seq(S) /\ Len(v) = Len(b) + 1 /\ v[1] = a
      /\ \A i \in 1..Len(b) : v[i + 1] = b[i]
  BY <1>1, Prefixed
<1>4. /\ w \in Seq(S) /\ Len(w) = Len(u) + 1
      /\ w[Len(u) + 1] = p
      /\ \A i \in 1..Len(u) : w[i] = u[i]
  BY <1>2, AppendProperties
<1>5. Len(b) = Len(t) + 1 /\ b[Len(t) + 1] = p /\ \A i \in 1..Len(t) : b[i] = t[i]
  BY <1>1
<1> HIDE DEF b, u, v, w
<1>6. ASSUME NEW i \in 1..Len(v) PROVE v[i] = w[i]
  <2>1. CASE i = 1
    BY <1>2, <1>3, <1>4, <2>1
  <2>2. CASE i = Len(t) + 2
    <3>1. Len(t) + 1 \in 1..Len(b) /\ i = (Len(t) + 1) + 1 /\ i = Len(u) + 1
      BY <1>2, <1>5, <2>2
    <3> QED
      BY <1>3, <1>4, <1>5, <3>1
  <2>3. CASE i \in 2..(Len(t) + 1)
    <3>1. /\ i - 1 \in 1..Len(t) /\ i - 1 \in 1..Len(b) /\ i \in 1..Len(u)
          /\ (i - 1) + 1 = i
      BY <1>2, <1>5, <2>3
    <3>2. v[i] = b[i - 1] /\ u[i] = t[i - 1] /\ w[i] = u[i] /\ b[i - 1] = t[i - 1]
      BY <1>2, <1>3, <1>4, <1>5, <3>1
    <3> QED
      BY <3>2
  <2> QED
    BY <1>3, <1>5, <2>1, <2>2, <2>3
<1>7. v = w
  BY <1>2, <1>3, <1>4, <1>5, <1>6, SeqEqual
<1> QED
  BY <1>7 DEF b, u, v, w

(* A packet that follows a stream of packets is read last. *)
LEMMA ReadToEnd ==
  ASSUME NEW s \in Seq(Bytes), NEW p \in Packet
  PROVE  \A i \in 0..Len(s) :
           PacketsAfter(s)[i] \in Seq(Packet) =>
             PacketsAfter(s \o Framed(p))[i] = Append(PacketsAfter(s)[i], p)
<1> DEFINE t == s \o Framed(p)
           f == PacketsAfter(s)
           g == PacketsAfter(t)
           T == {i \in 0..Len(s) : f[i] \in Seq(Packet) => g[i] = Append(f[i], p)}
<1>1. /\ Framed(p) \in Seq(Bytes) /\ Len(Framed(p)) \in Nat
      /\ t \in Seq(Bytes) /\ Len(t) = Len(s) + Len(Framed(p)) /\ Len(s) \in Nat
  BY FrameOf, Joined
<1>2. ASSUME NEW i \in 0..Len(s), \A j \in (i + 1)..Len(s) : j \in T,
             f[i] \in Seq(Packet)
      PROVE  g[i] = Append(f[i], p)
  <2>1. i \in 0..Len(t)
    BY <1>1
  <2>2. CASE i = Len(s)
    <3>1. f[i] = <<>>
      BY <2>2, After
    <3>2. g[i] = <<p>> \o g[Len(t)]
      <4>1. p \in FramedAt(t, i) /\ i + Len(Framed(p)) = Len(t)
        BY <1>1, <2>2, FrameAtEnd
      <4> HIDE DEF t
      <4> QED
        BY <1>1, <2>1, <4>1, After
    <3>3. g[Len(t)] = <<>>
      <4>1. Len(t) \in 0..Len(t)
        BY <1>1
      <4> HIDE DEF t
      <4> QED
        BY <1>1, <4>1, After
    <3> HIDE DEF f, g, t
    <3>4. <<p>> \o <<>> = <<p>> /\ Append(<<>>, p) = <<p>>
      OBVIOUS
    <3> QED
      BY <3>1, <3>2, <3>3, <3>4, Zenon
  <2>3. CASE i # Len(s)
    <3>1. PICK q \in FramedAt(s, i) : /\ f[i] = <<q>> \o f[i + Len(Framed(q))]
                                      /\ f[i + Len(Framed(q))] \in Seq(Packet)
      BY <1>2, <2>3, NextFrame
    <3> DEFINE k == i + Len(Framed(q))
    <3>2. q \in Packet /\ k \in (i + 1)..Len(s) /\ k \in T
      BY <1>2, FrameAhead
    <3>3. q \in FramedAt(t, i)
      BY <1>1, FramesStay
    <3>4. g[i] = <<q>> \o g[k]
      BY <1>1, <2>1, <3>3, After
    <3>5. g[k] = Append(f[k], p)
      BY <3>1, <3>2
    <3>6. f[k] \in Seq(Packet) /\ f[i] = <<q>> \o f[k]
      BY <3>1
    <3> HIDE DEF f, g, t, k, T
    <3>7. <<q>> \o Append(f[k], p) = Append(<<q>> \o f[k], p)
      <4> DEFINE u == f[k]
      <4>1. q \in Packet /\ u \in Seq(Packet)
        BY <3>2, <3>6
      <4> HIDE DEF u
      <4>2. <<q>> \o Append(u, p) = Append(<<q>> \o u, p)
        BY <4>1, Appended
      <4> QED
        BY <4>2 DEF u
    <3> QED
      BY <3>4, <3>5, <3>6, <3>7, Zenon
  <2> QED
    BY <2>2, <2>3
<1>3. \A i \in 0..Len(s) : (\A j \in (i + 1)..Len(s) : j \in T) => i \in T
  BY <1>2
<1> HIDE DEF T
<1>4. \A i \in 0..Len(s) : i \in T
  BY <1>1, <1>3, GoingBack
<1> QED
  BY <1>4 DEF T

(* Without its front, a stream is read as it was from there on. *)
LEMMA FramedFurther ==
  ASSUME NEW s \in Seq(Bytes), NEW k \in 0..Len(s), NEW j \in 0..(Len(s) - k)
  PROVE  FramedAt(From(s, k), j) = FramedAt(s, k + j)
<1> DEFINE r == From(s, k)
<1>1. /\ r \in Seq(Bytes) /\ Len(r) = Len(s) - k
      /\ \A i \in 1..Len(r) : r[i] = s[k + i]
  BY SubSeqProperties DEF From
<1> HIDE DEF r
<1>2. ASSUME NEW p \in Packet
      PROVE  p \in FramedAt(r, j) <=> p \in FramedAt(s, k + j)
  <2> DEFINE f == Framed(p)
  <2>1. Len(f) \in Nat /\ j \in 0..Len(r) /\ k + j \in 0..Len(s)
    BY <1>1, FrameOf
  <2>2. /\ p \in FramedAt(r, j) <=> /\ j + Len(f) <= Len(r)
                                    /\ \A i \in 1..Len(f) : r[j + i] = f[i]
        /\ p \in FramedAt(s, k + j) <=> /\ (k + j) + Len(f) <= Len(s)
                                        /\ \A i \in 1..Len(f) : s[(k + j) + i] = f[i]
    BY <1>1, <2>1, FramedIs
  <2> HIDE DEF f
  <2>3. j + Len(f) <= Len(r) <=> (k + j) + Len(f) <= Len(s)
    BY <1>1, <2>1
  <2>4. ASSUME j + Len(f) <= Len(r), NEW i \in 1..Len(f)
        PROVE  r[j + i] = s[(k + j) + i]
    <3>1. j + i \in 1..Len(r) /\ k + (j + i) = (k + j) + i
      BY <2>1, <2>4
    <3> QED
      BY <1>1, <3>1
  <2> QED
    BY <2>2, <2>3, <2>4
<1> QED
  BY <1>2 DEF FramedAt, r

LEMMA ReadFurther ==
  ASSUME NEW s \in Seq(Bytes), NEW k \in 0..Len(s)
  PROVE  \A j \in 0..(Len(s) - k) :
           PacketsAfter(From(s, k))[j] = PacketsAfter(s)[k + j]
<1> DEFINE r == From(s, k)
           f == PacketsAfter(s)
           g == PacketsAfter(r)
           N == Len(s) - k
           T == {j \in 0..N : g[j] = f[k + j]}
<1>1. r \in Seq(Bytes) /\ Len(r) = N /\ N \in Nat
  BY FromBytes
<1>2. ASSUME NEW j \in 0..N, \A i \in (j + 1)..N : i \in T
      PROVE  g[j] = f[k + j]
  <2>1. /\ j \in 0..Len(r) /\ k + j \in 0..Len(s)
        /\ j = Len(r) <=> k + j = Len(s)
    BY <1>1
  <2>2. FramedAt(r, j) = FramedAt(s, k + j)
    BY FramedFurther
  <2>3. CASE j = Len(r)
    BY <1>1, <2>1, <2>3, After
  <2>4. CASE j # Len(r) /\ FramedAt(r, j) = {}
    BY <1>1, <2>1, <2>2, <2>4, After
  <2>5. ASSUME NEW p \in FramedAt(r, j) PROVE g[j] = f[k + j]
    <3> DEFINE n == Len(Framed(p))
    <3>1. g[j] = <<p>> \o g[j + n]
      BY <1>1, <2>1, After
    <3>2. f[k + j] = <<p>> \o f[(k + j) + n]
      BY <2>1, <2>2, After
    <3>3. j + n \in (j + 1)..N /\ n \in Nat
      BY <1>1, <2>1, FrameAhead, FrameOf
    <3>4. g[j + n] = f[k + (j + n)] /\ k + (j + n) = (k + j) + n
      BY <1>2, <3>3
    <3> QED
      BY <3>1, <3>2, <3>4
  <2> QED
    BY <2>3, <2>4, <2>5
<1>3. \A j \in 0..N : (\A i \in (j + 1)..N : i \in T) => j \in T
  BY <1>2
<1> HIDE DEF T
<1>4. \A j \in 0..N : j \in T
  BY <1>1, <1>3, GoingBack
<1> QED
  BY <1>4 DEF T

-----------------------------------------------------------------------------
(* What sproto_pop_in_sdp finds in a buffer                                 *)

LEMMA FrameParts ==
  ASSUME NEW p \in Packet
  PROVE  /\ \A k \in 1..TagSize : Framed(p)[k] = Tag[k]
         /\ \A k \in 1..Len(Body(p)) : Framed(p)[k] = Body(p)[k]
         /\ \A k \in 1..TagSize : Framed(p)[Len(Body(p)) + k] = Tag[k]
         /\ Body(p)[HeaderSize] = Byte("header", p, 0)
<1> DEFINE b == Body(p)
           header == <<Byte("header", p, 0)>>
           data == [i \in 1..DataLen[p] |-> Byte("data", p, i)]
           front == Tag \o header
<1>1. /\ b \in Seq(Bytes) /\ Len(b) = HeaderSize + DataLen[p] /\ DataLen[p] \in Nat
      /\ Tag \in Seq(Bytes) /\ Len(Tag) = TagSize
      /\ HeaderSize = TagSize + 1 /\ HeaderSize \in 1..Len(b)
  BY FrameOf, TagBytes DEF HeaderSize
<1>2. header \in Seq(Bytes) /\ Len(header) = 1
  BY DEF Byte, Bytes
<1>3. data \in Seq(Bytes)
  <2>1. \A i \in 1..DataLen[p] : Byte("data", p, i) \in Bytes
    BY DEF Byte, Bytes
  <2>2. DataLen[p] \in Nat
    OBVIOUS
  <2> QED
    BY <2>1, <2>2
<1>4. b = front \o data
  BY DEF Body
<1> HIDE DEF b, header, data
<1>5. /\ front \in Seq(Bytes) /\ Len(front) = TagSize + 1
      /\ \A k \in 1..TagSize : front[k] = Tag[k]
  <2>1. /\ front \in Seq(Bytes) /\ Len(front) = Len(Tag) + Len(header)
        /\ \A k \in 1..Len(Tag) : front[k] = Tag[k]
    BY <1>1, <1>2, Joined, Zenon
  <2> HIDE DEF front
  <2> QED
    BY <1>1, <1>2, <2>1
<1> HIDE DEF front
<1>6. \A k \in 1..Len(front) : (front \o data)[k] = front[k]
  BY <1>3, <1>5, Joined
<1>7. \A k \in 1..TagSize : b[k] = Tag[k]
  <2>1. \A k \in 1..TagSize : k \in 1..Len(front)
    BY <1>5
  <2> QED
    BY <1>4, <1>5, <1>6, <2>1
<1>8. /\ \A k \in 1..Len(b) : (b \o Tag)[k] = b[k]
      /\ \A k \in 1..Len(Tag) : (b \o Tag)[Len(b) + k] = Tag[k]
  BY <1>1, Joined
<1>9. Framed(p) = b \o Tag
  BY DEF Framed, b
<1>10. \A k \in 1..TagSize : k \in 1..Len(b)
  BY <1>1
<1>11. b[HeaderSize] = Framed(p)[HeaderSize]
  BY <1>1, <1>8, <1>9
<1>12. Framed(p)[HeaderSize] = Byte("header", p, 0)
  BY FrameOf
<1> QED
  BY <1>1, <1>7, <1>8, <1>9, <1>10, <1>11, <1>12 DEF b

LEMMA BodyTells ==
  ASSUME NEW p \in Packet
  PROVE  Recognised(Body(p)) = p
<1>1. \A q \in Packet : Body(p) = Body(q) => q = p
  <2> SUFFICES ASSUME NEW q \in Packet, Body(p) = Body(q) PROVE q = p
    OBVIOUS
  <2>1. Byte("header", p, 0) = Byte("header", q, 0)
    BY FrameParts
  <2> QED
    BY <2>1 DEF Byte
<1>2. (CHOOSE q \in Packet : Body(p) = Body(q)) \in Packet
      /\ Body(p) = Body(CHOOSE q \in Packet : Body(p) = Body(q))
  OBVIOUS
<1>3. \E q \in Packet : Body(p) = Body(q)
  OBVIOUS
<1> QED
  BY <1>1, <1>2, <1>3, Zenon DEF Recognised

LEMMA PartIs ==
  ASSUME NEW s \in Seq(Bytes), NEW t \in Seq(Bytes), NEW i \in 0..Len(s),
         i + Len(t) <= Len(s), \A k \in 1..Len(t) : s[i + k] = t[k]
  PROVE  SubSeq(s, i + 1, i + Len(t)) = t
<1>1. Len(t) \in Nat
  OBVIOUS
<1>2. LET a == SubSeq(s, i + 1, i + Len(t))
      IN  a \in Seq(Bytes) /\ Len(a) = Len(t) /\ \A k \in 1..Len(t) : a[k] = s[i + k]
  BY <1>1, Within
<1> QED
  BY <1>2, SeqEqual

LEMMA FrontIs ==
  ASSUME NEW s \in Seq(Bytes), NEW t \in Seq(Bytes), Len(t) <= Len(s),
         \A k \in 1..Len(t) : s[k] = t[k]
  PROVE  SubSeq(s, 1, Len(t)) = t
<1>1. 0 \in 0..Len(s) /\ 0 + Len(t) <= Len(s) /\ \A k \in 1..Len(t) : s[0 + k] = t[k]
  OBVIOUS
<1>2. SubSeq(s, 0 + 1, 0 + Len(t)) = t
  BY <1>1, PartIs
<1>3. 0 + 1 = 1 /\ 0 + Len(t) = Len(t)
  OBVIOUS
<1> QED
  BY <1>2, <1>3

(* The buffer begins like a stream of packets: the first of them is found  *)
(* as soon as there is all of it, and nothing else.                        *)
LEMMA PopsFirst ==
  ASSUME NEW buf \in Seq(Bytes), NEW s \in Seq(Bytes), NEW size \in Nat,
         NEW tagged \in BOOLEAN, Len(buf) <= size, Len(buf) <= Len(s),
         \A k \in 1..Len(buf) : s[k] = buf[k],
         tagged => StartsWithTag(buf),
         Packets(s) \in Seq(Packet),
         NEW r \in sproto_pop_in_sdp(buf, tagged, size)
  PROVE  \/ r.got = None /\ r.drop = 0
         \/ /\ r.got \in FramedAt(s, 0)
            /\ r.drop = Len(Framed(r.got)) /\ r.drop <= Len(buf)
<1>1. CASE Len(buf) < TagSize
  <2>1. ~tagged
    BY <1>1 DEF StartsWithTag
  <2>2. r = Waits(FALSE)
    BY <1>1, <2>1 DEF sproto_pop_in_sdp
  <2> QED
    BY <2>2 DEF Waits
<1>2. CASE Len(buf) >= TagSize
  <2>1. 0 \in 0..Len(s) /\ 0 # Len(s)
    BY <1>2
  <2>2. PICK p \in FramedAt(s, 0) : TRUE
    BY <2>1, NextFrame DEF Packets
  <2> DEFINE n == DataLen[p]
             f == Framed(p)
  <2>3. p \in Packet /\ n \in Nat /\ HeaderSize = TagSize + 1 /\ HeaderSize \in Nat
    BY <2>1, <2>2, FrameAhead DEF HeaderSize
  <2>4. /\ f \in Seq(Bytes) /\ Len(f) = HeaderSize + n + TagSize
        /\ Body(p) \in Seq(Bytes) /\ Len(Body(p)) = HeaderSize + n
        /\ Tag \in Seq(Bytes) /\ Len(Tag) = TagSize
    BY <2>3, FrameOf, TagBytes
  <2>5. /\ Len(f) <= Len(s)
        /\ \A k \in 1..Len(f) : s[k] = f[k]
    <3>1. /\ 0 + Len(Framed(p)) <= Len(s)
          /\ \A k \in 1..Len(Framed(p)) : s[0 + k] = Framed(p)[k]
      <4>1. p \in FramedAt(s, 0) /\ p \in Packet /\ 0 \in 0..Len(s)
        BY <2>1, <2>2, <2>3
      <4> HIDE DEF f, n
      <4> QED
        BY <4>1, FramedIs
    <3> HIDE DEF n
    <3>2. Len(f) \in Nat /\ Len(s) \in Nat
      BY <2>4
    <3>3. 0 + Len(f) <= Len(s) /\ \A k \in 1..Len(f) : s[0 + k] = f[k]
      BY <3>1
    <3> HIDE DEF f
    <3>4. \A k \in 1..Len(f) : 0 + k = k
      BY <3>2
    <3> QED
      BY <3>2, <3>3, <3>4
  <2>6. \A k \in 1..Len(f) : k <= Len(buf) => buf[k] = f[k]
    BY <2>4, <2>5
  <2>7. /\ \A k \in 1..TagSize : f[k] = Tag[k]
        /\ \A k \in 1..(HeaderSize + n) : f[k] = Body(p)[k]
        /\ \A k \in 1..TagSize : f[(HeaderSize + n) + k] = Tag[k]
        /\ f[HeaderSize] = Byte("header", p, 0)
    <3>1. /\ \A k \in 1..TagSize : f[k] = Tag[k]
          /\ \A k \in 1..Len(Body(p)) : f[k] = Body(p)[k]
          /\ \A k \in 1..TagSize : f[Len(Body(p)) + k] = Tag[k]
          /\ f[HeaderSize] = Byte("header", p, 0)
      BY <2>3, FrameOf, FrameParts
    <3> QED
      BY <2>4, <3>1
  <2> HIDE DEF f, n
  <2>8. StartsWithTag(buf)
    <3>1. \A k \in 1..TagSize : buf[k] = Tag[k]
      BY <1>2, <2>3, <2>4, <2>6, <2>7
    <3>2. \A k \in 1..Len(Tag) : buf[k] = Tag[k]
      BY <2>4, <3>1
    <3>3. Len(Tag) <= Len(buf)
      BY <1>2, <2>4
    <3>4. SubSeq(buf, 1, Len(Tag)) = Tag
      BY <2>4, <3>2, <3>3, FrontIs
    <3> QED
      BY <1>2, <2>4, <3>4 DEF StartsWithTag
  <2>9. CASE Len(buf) - TagSize < HeaderSize
    <3>1. r = Waits(TRUE)
      <4>1. ~(~tagged /\ Len(buf) < TagSize) /\ ~(~tagged /\ ~StartsWithTag(buf))
        BY <1>2, <2>8
      <4>2. r \in {Waits(TRUE)}
        BY <2>9, <4>1, Zenon DEF sproto_pop_in_sdp
      <4> QED
        BY <4>2
    <3> QED
      BY <3>1 DEF Waits
  <2>10. CASE Len(buf) - TagSize >= HeaderSize
    <3>1. buf[HeaderSize] = Byte("header", p, 0)
      BY <2>3, <2>4, <2>6, <2>7, <2>10
    <3>2. /\ buf[HeaderSize].kind = "header"
          /\ Claimed(buf[HeaderSize]) = {n}
      BY <3>1 DEF Byte, Claimed, n
    <3>3. r = PacketOf(buf, size, n)
      <4>1. ~(Len(buf) - TagSize < HeaderSize)
        BY <2>3, <2>10
      <4>2. ~(~tagged /\ Len(buf) < TagSize) /\ ~(~tagged /\ ~StartsWithTag(buf))
        BY <1>2, <2>8
      <4>3. r \in {PacketOf(buf, size, m) : m \in {n}} \cup {}
        BY <3>2, <4>1, <4>2, Zenon DEF sproto_pop_in_sdp
      <4> QED
        BY <4>3
    <3>4. CASE HeaderSize + n + TagSize > Len(buf)
      <4>1. r = Waits(TRUE)
        BY <3>3, <3>4 DEF PacketOf
      <4> QED
        BY <4>1 DEF Waits
    <3>5. CASE ~(HeaderSize + n + TagSize > Len(buf))
      <4>1. HeaderSize + n + TagSize <= Len(buf) /\ HeaderSize + n < size
        BY <2>3, <3>5
      <4>2. SubSeq(buf, HeaderSize + n + 1, HeaderSize + n + TagSize) = Tag
        <5>1. \A k \in 1..TagSize : buf[(HeaderSize + n) + k] = Tag[k]
          BY <2>3, <2>4, <2>6, <2>7, <4>1
        <5>2. HeaderSize + n \in 0..Len(buf)
          BY <2>3, <4>1
        <5> QED
          BY <2>4, <4>1, <5>1, <5>2, PartIs
      <4>3. SubSeq(buf, 1, HeaderSize + n) = Body(p)
        <5>1. \A k \in 1..Len(Body(p)) : buf[k] = Body(p)[k]
          BY <2>3, <2>4, <2>6, <2>7, <4>1
        <5>2. Len(Body(p)) <= Len(buf)
          BY <2>3, <2>4, <4>1
        <5>3. SubSeq(buf, 1, Len(Body(p))) = Body(p)
          BY <2>4, <5>1, <5>2, FrontIs
        <5> QED
          BY <2>4, <5>3
      <4>4. ~(HeaderSize + n >= size)
        BY <2>3, <4>1
      <4>5. r = [got |-> p, drop |-> HeaderSize + n + TagSize, tagged |-> FALSE]
        BY <2>3, <3>3, <3>5, <4>2, <4>3, <4>4, BodyTells, Zenon DEF PacketOf
      <4>6. r.got = p /\ r.drop = HeaderSize + n + TagSize
        BY <4>5
      <4> QED
        BY <2>2, <2>4, <4>1, <4>6 DEF f
    <3> QED
      BY <3>4, <3>5
  <2> QED
    BY <2>3, <2>9, <2>10
<1> QED
  BY <1>1, <1>2

-----------------------------------------------------------------------------
(* Taking streams apart                                                     *)

LEMMA Cut ==
  ASSUME NEW S, NEW a \in Seq(S), NEW n \in 0..Len(a)
  PROVE  /\ SubSeq(a, 1, n) \in Seq(S) /\ From(a, n) \in Seq(S)
         /\ Len(From(a, n)) = Len(a) - n
         /\ \A i \in 1..(Len(a) - n) : From(a, n)[i] = a[n + i]
         /\ SubSeq(a, 1, n) \o From(a, n) = a
<1>1. /\ SubSeq(a, 1, n) \in Seq(S) /\ From(a, n) \in Seq(S)
      /\ Len(From(a, n)) = Len(a) - n
      /\ \A i \in 1..(Len(a) - n) : From(a, n)[i] = a[n + i]
  BY SubSeqProperties DEF From
<1>2. 1 \in 1..(Len(a) + 1) /\ n \in (1 - 1)..Len(a) /\ Len(a) \in n..Len(a)
  OBVIOUS
<1>3. SubSeq(a, 1, n) \o SubSeq(a, n + 1, Len(a)) = SubSeq(a, 1, Len(a))
  BY <1>2, ConcatAdjacentSubSeq
<1> QED
  BY <1>1, <1>3, SubSeqFull DEF From

LEMMA CutJoined ==
  ASSUME NEW S, NEW a \in Seq(S), NEW b \in Seq(S), NEW n \in 0..Len(a)
  PROVE  From(a \o b, n) = From(a, n) \o b
<1> DEFINE c == a \o b
           x == From(c, n)
           y == From(a, n)
           z == y \o b
<1>1. /\ c \in Seq(S) /\ Len(c) = Len(a) + Len(b) /\ Len(b) \in Nat
      /\ \A i \in 1..(Len(a) + Len(b)) :
           c[i] = IF i <= Len(a) THEN a[i] ELSE b[i - Len(a)]
  BY ConcatProperties
<1>2. y \in Seq(S) /\ Len(y) = Len(a) - n /\ \A i \in 1..Len(y) : y[i] = a[n + i]
  BY Cut
<1>3. n \in 0..Len(c)
  BY <1>1
<1> HIDE DEF c
<1>4. x \in Seq(S) /\ Len(x) = Len(c) - n /\ \A i \in 1..Len(x) : x[i] = c[n + i]
  BY <1>1, <1>3, Cut
<1> HIDE DEF x, y
<1>5. /\ z \in Seq(S) /\ Len(z) = Len(y) + Len(b)
      /\ \A i \in 1..(Len(y) + Len(b)) :
           z[i] = IF i <= Len(y) THEN y[i] ELSE b[i - Len(y)]
  BY <1>2, ConcatProperties
<1> HIDE DEF z
<1>6. ASSUME NEW i \in 1..Len(x) PROVE x[i] = z[i]
  <2>1. n + i \in 1..(Len(a) + Len(b)) /\ i \in 1..(Len(y) + Len(b))
    BY <1>1, <1>2, <1>4
  <2>2. CASE i <= Len(y)
    BY <1>1, <1>2, <1>4, <1>5, <2>1, <2>2
  <2>3. CASE ~(i <= Len(y))
    <3>1. ~(n + i <= Len(a)) /\ (n + i) - Len(a) = i - Len(y)
      BY <1>2, <2>3
    <3> QED
      BY <1>1, <1>4, <1>5, <2>1, <2>3, <3>1
  <2> QED
    BY <2>2, <2>3
<1>7. Len(x) = Len(z)
  BY <1>1, <1>2, <1>4, <1>5
<1>8. x = z
  BY <1>4, <1>5, <1>6, <1>7, SeqEqual
<1> QED
  BY <1>8 DEF x, y, z, c

LEMMA CutOff ==
  ASSUME NEW S, NEW a \in Seq(S), NEW b \in Seq(S)
  PROVE  From(a \o b, Len(a)) = b
<1>1. Len(a) \in 0..Len(a)
  OBVIOUS
<1>2. From(a, Len(a)) \in Seq(S) /\ Len(From(a, Len(a))) = 0
  BY <1>1, Cut
<1>3. From(a, Len(a)) = <<>>
  BY <1>2
<1>4. From(a \o b, Len(a)) = From(a, Len(a)) \o b
  BY <1>1, CutJoined
<1> QED
  BY <1>3, <1>4, ConcatEmptySeq

LEMMA Regrouped ==
  \A a, b, c \in Seq(Bytes) : (a \o b) \o c = a \o (b \o c)
BY ConcatAssociative

LEMMA HeadFirst ==
  ASSUME NEW S, NEW b \in Seq(S), b # <<>>
  PROVE  <<Head(b)>> \o Tail(b) = b
<1> DEFINE t == Tail(b)
           u == <<Head(b)>> \o t
<1>1. /\ Head(b) \in S /\ Head(b) = b[1] /\ t \in Seq(S)
      /\ Len(t) = Len(b) - 1 /\ Len(b) \in Nat \ {0}
      /\ \A i \in 1..Len(t) : t[i] = b[i + 1]
  BY HeadTailProperties
<1>2. /\ u \in Seq(S) /\ Len(u) = Len(t) + 1 /\ u[1] = Head(b)
      /\ \A i \in 1..Len(t) : u[i + 1] = t[i]
  BY <1>1, Prefixed
<1> HIDE DEF t, u
<1>3. ASSUME NEW i \in 1..Len(b) PROVE b[i] = u[i]
  <2>1. CASE i = 1
    BY <1>1, <1>2, <2>1
  <2>2. CASE i # 1
    <3>1. i - 1 \in 1..Len(t) /\ (i - 1) + 1 = i
      BY <1>1, <2>2
    <3> QED
      BY <1>1, <1>2, <3>1
  <2> QED
    BY <2>1, <2>2
<1>4. Len(u) = Len(b)
  BY <1>1, <1>2
<1>5. b = u
  BY <1>2, <1>3, <1>4, SeqEqual
<1> QED
  BY <1>5 DEF t, u

LEMMA CutOffOne ==
  ASSUME NEW S, NEW a \in Seq(S), NEW b \in Seq(S), b # <<>>
  PROVE  From(a \o b, Len(a) + 1) = Tail(b)
<1> DEFINE h == <<Head(b)>>
           t == Tail(b)
<1>1. Head(b) \in S /\ h \in Seq(S) /\ Len(h) = 1 /\ t \in Seq(S)
  OBVIOUS
<1>2. b = h \o t
  BY HeadFirst
<1> HIDE DEF h, t
<1>3. a \o h \in Seq(S) /\ Len(a \o h) = Len(a) + 1
  BY <1>1, ConcatProperties
<1>4. a \o b = (a \o h) \o t
  <2>1. (a \o h) \o t = a \o (h \o t)
    BY <1>1, ConcatAssociative
  <2> QED
    BY <1>2, <2>1, Zenon
<1>5. From((a \o h) \o t, Len(a \o h)) = t
  BY <1>1, <1>3, CutOff
<1> QED
  BY <1>3, <1>4, <1>5 DEF t

-----------------------------------------------------------------------------
(* Streams of packets                                                       *)

HoldsPackets(s) == s \in Seq(Bytes) /\ Packets(s) \in Seq(Packet)

LEMMA HoldsNone == HoldsPackets(<<>>) /\ Packets(<<>>) = <<>>
<1>1. <<>> \in Seq(Bytes) /\ Len(<<>>) = 0 /\ 0 \in 0..0
  OBVIOUS
<1>2. PacketsAfter(<<>>)[0] = <<>>
  BY <1>1, After
<1> QED
  BY <1>1, <1>2, Zenon, NoBytes DEF HoldsPackets, Packets

LEMMA HoldsMore ==
  ASSUME NEW s, HoldsPackets(s), NEW p \in Packet
  PROVE  /\ HoldsPackets(s \o Framed(p))
         /\ Packets(s \o Framed(p)) = Append(Packets(s), p)
<1>1. s \in Seq(Bytes) /\ Packets(s) \in Seq(Packet) /\ 0 \in 0..Len(s)
  BY DEF HoldsPackets
<1>2. Packets(s \o Framed(p)) = Append(Packets(s), p)
  BY <1>1, ReadToEnd DEF Packets
<1>3. s \o Framed(p) \in Seq(Bytes)
  BY <1>1, FrameOf, Joined
<1>4. Append(Packets(s), p) \in Seq(Packet)
  BY <1>1, AppendProperties
<1> QED
  BY <1>2, <1>3, <1>4 DEF HoldsPackets

LEMMA HoldsOne ==
  ASSUME NEW p \in Packet
  PROVE  HoldsPackets(Framed(p)) /\ Packets(Framed(p)) = <<p>>
<1>1. <<>> \o Framed(p) = Framed(p)
  BY FrameOf, ConcatEmptySeq
<1>2. /\ HoldsPackets(<<>> \o Framed(p))
      /\ Packets(<<>> \o Framed(p)) = Append(Packets(<<>>), p)
  BY HoldsNone, HoldsMore
<1>3. Append(<<>>, p) = <<p>>
  OBVIOUS
<1> QED
  BY <1>1, <1>2, <1>3, HoldsNone, Zenon

LEMMA HoldsLess ==
  ASSUME NEW s, HoldsPackets(s), NEW p \in FramedAt(s, 0)
  PROVE  /\ p \in Packet /\ Len(Framed(p)) \in 0..Len(s)
         /\ HoldsPackets(From(s, Len(Framed(p))))
         /\ Packets(s) = <<p>> \o Packets(From(s, Len(Framed(p))))
<1> DEFINE n == Len(Framed(p))
<1>1. s \in Seq(Bytes) /\ Packets(s) \in Seq(Packet) /\ 0 \in 0..Len(s)
  BY DEF HoldsPackets
<1>2. p \in Packet /\ n \in Nat /\ n \in 0..Len(s) /\ 0 # Len(s) /\ 0 + n = n
  BY <1>1, FrameAhead, FrameOf
<1>3. PICK q \in FramedAt(s, 0) :
        /\ Packets(s) = <<q>> \o PacketsAfter(s)[0 + Len(Framed(q))]
        /\ PacketsAfter(s)[0 + Len(Framed(q))] \in Seq(Packet)
  BY <1>1, <1>2, NextFrame DEF Packets
<1>4. q = p
  BY <1>1, OneAtMost
<1>5. /\ Packets(s) = <<p>> \o PacketsAfter(s)[n]
      /\ PacketsAfter(s)[n] \in Seq(Packet)
  BY <1>2, <1>3, <1>4
<1>6. Packets(From(s, n)) = PacketsAfter(s)[n]
  <2>1. 0 \in 0..(Len(s) - n) /\ n + 0 = n
    BY <1>1, <1>2
  <2>2. PacketsAfter(From(s, n))[0] = PacketsAfter(s)[n + 0]
    BY <1>1, <1>2, <2>1, ReadFurther
  <2> QED
    BY <2>1, <2>2 DEF Packets
<1>7. From(s, n) \in Seq(Bytes)
  BY <1>1, <1>2, FromBytes
<1> QED
  BY <1>2, <1>5, <1>6, <1>7 DEF HoldsPackets

-----------------------------------------------------------------------------
(* The mapping                                                              *)

Stream == in \o wire \o out

(* What makes the mapping work: on a connection that is whole, the two     *)
(* buffers and the wire between them hold packets and nothing else, and    *)
(* the receiver's buffer begins with one.                                  *)
PipeInv == IInv /\ (whole => HoldsPackets(Stream))

(* OnTheWay, of any state. *)
Carried(w, s, q) == (IF w THEN Packets(s) ELSE <<>>) \o q

LEMMA CarriedIs ==
  ASSUME NEW w \in BOOLEAN, NEW s, NEW q \in Seq(Packet), w => HoldsPackets(s)
  PROVE  /\ Carried(w, s, q) \in Seq(Packet)
         /\ w => Carried(w, s, q) = Packets(s) \o q
         /\ ~w => Carried(w, s, q) = q
<1>1. CASE w
  BY <1>1, ConcatProperties DEF Carried, HoldsPackets
<1>2. CASE ~w
  <2>1. Carried(w, s, q) = <<>> \o q
    BY <1>2 DEF Carried
  <2>2. <<>> \o q = q
    BY ConcatEmptySeq
  <2> QED
    BY <1>2, <2>1, <2>2
<1> QED
  BY <1>1, <1>2

LEMMA OnTheWayIs ==
  /\ OnTheWay = Carried(whole, Stream, queue)
  /\ OnTheWay' = Carried(whole', Stream', queue')
BY DEF OnTheWay, Carried, Stream

LEMMA StreamTyped ==
  ASSUME TypeOK
  PROVE  /\ Stream \in Seq(Bytes) /\ in \o wire \in Seq(Bytes)
         /\ in \in Seq(Bytes) /\ wire \in Seq(Bytes) /\ out \in Seq(Bytes)
         /\ queue \in Seq(Packet) /\ whole \in BOOLEAN
<1>1. in \in Seq(Bytes) /\ wire \in Seq(Bytes) /\ out \in Seq(Bytes)
  BY DEF TypeOK
<1>2. in \o wire \in Seq(Bytes)
  BY <1>1, Joined
<1>3. (in \o wire) \o out \in Seq(Bytes)
  BY <1>1, <1>2, Joined
<1> QED
  BY <1>1, <1>2, <1>3 DEF Stream, TypeOK

(* A step after which nothing counts loses what is not queued any more. *)
LEMMA Loses ==
  ASSUME PipeInv, ~whole',
         queue' = queue \/ (queue # <<>> /\ queue' = Tail(queue))
  PROVE  Pipe!Lose
<1> DEFINE base == IF whole THEN Packets(Stream) ELSE <<>>
           pipe == base \o queue
<1>1. queue \in Seq(Packet) /\ (queue # <<>> => Tail(queue) \in Seq(Packet))
  BY DEF PipeInv, IInv, TypeOK
<1>2. base \in Seq(Packet)
  BY DEF PipeInv, HoldsPackets
<1>3. OnTheWay = pipe
  BY DEF OnTheWay, Stream
<1>4. queue' \in Seq(Packet)
  BY <1>1
<1>5. OnTheWay' = queue'
  <2>1. OnTheWay' = <<>> \o queue'
    BY DEF OnTheWay
  <2> QED
    BY <1>4, <2>1, ConcatEmptySeq
<1> HIDE DEF base
<1>6. /\ pipe \in Seq(Packet) /\ Len(pipe) = Len(base) + Len(queue)
      /\ From(pipe, Len(base)) = queue
  BY <1>1, <1>2, ConcatProperties, CutOff
<1> HIDE DEF pipe
<1>7. CASE queue' = queue
  <2>1. Len(base) \in 0..Len(pipe)
    BY <1>1, <1>2, <1>6
  <2>2. OnTheWay' = SubSeq(OnTheWay, Len(base) + 1, Len(OnTheWay))
    BY <1>3, <1>5, <1>6, <1>7 DEF From
  <2> QED
    BY <1>3, <2>1, <2>2 DEF Pipe!Lose
<1>8. CASE queue # <<>> /\ queue' = Tail(queue)
  <2> DEFINE k == Len(base) + 1
  <2>1. Len(queue) >= 1 /\ k \in 0..Len(pipe)
    BY <1>1, <1>2, <1>6, <1>8
  <2>2. From(pipe, k) = Tail(queue)
    BY <1>1, <1>2, <1>8, CutOffOne DEF pipe
  <2>3. OnTheWay' = SubSeq(OnTheWay, k + 1, Len(OnTheWay))
    BY <1>3, <1>5, <1>8, <2>2 DEF From
  <2> QED
    BY <1>3, <2>1, <2>3 DEF Pipe!Lose
<1> QED
  BY <1>7, <1>8

-----------------------------------------------------------------------------
(* The steps                                                                *)

Mapped == Pipe!Next \/ UNCHANGED <<OnTheWay, handed, whole>>

LEMMA Damaged ==
  ASSUME PipeInv, IInv', ~whole', handed' \in {handed, None},
         queue' = queue \/ (queue # <<>> /\ queue' = Tail(queue))
  PROVE  Mapped /\ PipeInv'
<1>1. whole' = FALSE
  BY DEF IInv, TypeOK
<1>2. Pipe!Damage
  BY <1>1, Loses DEF Pipe!Damage
<1>3. PipeInv'
  BY <1>1 DEF PipeInv
<1> QED
  BY <1>2, <1>3 DEF Mapped, Pipe!Next

LEMMA PushMapped ==
  ASSUME PipeInv, IInv', NEW p \in Packet, Push(p)
  PROVE  Mapped /\ PipeInv'
<1>1. /\ UNCHANGED <<in, wire, out, handed, whole>>
      /\ queue' = Append(queue, p)
  BY DEF Push, receiver
<1>2. Stream' = Stream
  BY <1>1 DEF Stream
<1>3. PipeInv'
  BY <1>1, <1>2 DEF PipeInv, HoldsPackets
<1> DEFINE base == IF whole THEN Packets(Stream) ELSE <<>>
<1>4. queue \in Seq(Packet) /\ base \in Seq(Packet)
  BY DEF PipeInv, IInv, TypeOK, HoldsPackets
<1>5. OnTheWay = base \o queue /\ OnTheWay' = base \o Append(queue, p)
  BY <1>1, <1>2 DEF OnTheWay, Stream
<1> HIDE DEF base
<1>6. base \o Append(queue, p) = Append(base \o queue, p)
  <2>1. <<p>> \in Seq(Packet) /\ base \o queue \in Seq(Packet)
    BY <1>4, ConcatProperties
  <2>2. Append(queue, p) = queue \o <<p>>
    BY <1>4, AppendIsConcat
  <2>3. Append(base \o queue, p) = (base \o queue) \o <<p>>
    BY <2>1, AppendIsConcat
  <2>4. (base \o queue) \o <<p>> = base \o (queue \o <<p>>)
    BY <1>4, <2>1, ConcatAssociative
  <2> QED
    BY <2>2, <2>3, <2>4
<1>7. Pipe!Send(p)
  BY <1>1, <1>5, <1>6 DEF Pipe!Send
<1> QED
  BY <1>3, <1>7 DEF Mapped, Pipe!Next

(* On a connection that stays whole, the bytes in a buffer for output go   *)
(* on to the wire.                                                         *)
LEMMA WrittenStream ==
  ASSUME TypeOK, NEW b, b.bytes \in Seq(Bytes), NEW complete,
         WriteOut(b, complete), whole', UNCHANGED in
  PROVE  whole /\ complete /\ Stream' = (in \o wire) \o b.bytes
<1> DEFINE n == Smaller(Len(b.bytes), IoSize)
           x == SubSeq(b.bytes, 1, n)
           y == From(b.bytes, n)
<1>1. n \in 0..Len(b.bytes)
  BY DEF Smaller
<1>2. whole /\ complete /\ out' = y /\ wire' = wire \o x
  BY DEF WriteOut
<1>3. x \in Seq(Bytes) /\ y \in Seq(Bytes) /\ x \o y = b.bytes
  BY <1>1, Cut
<1>4. in \in Seq(Bytes) /\ wire \in Seq(Bytes) /\ in \o wire \in Seq(Bytes)
  BY StreamTyped
<1>5. Stream' = (in \o (wire \o x)) \o y
  BY <1>2 DEF Stream
<1> HIDE DEF x, y
<1>6. (in \o (wire \o x)) \o y = (in \o wire) \o (x \o y)
  <2>1. in \in Seq(Bytes) /\ wire \in Seq(Bytes) /\ x \in Seq(Bytes)
    BY <1>3, <1>4
  <2>2. (in \o wire) \o x = in \o (wire \o x)
    BY <2>1, Regrouped, Zenon
  <2>3. in \o wire \in Seq(Bytes) /\ x \in Seq(Bytes) /\ y \in Seq(Bytes)
    BY <1>3, <1>4
  <2>4. ((in \o wire) \o x) \o y = (in \o wire) \o (x \o y)
    BY <2>3, Regrouped, Zenon
  <2> QED
    BY <2>2, <2>4, Zenon
<1> QED
  BY <1>2, <1>3, <1>5, <1>6

(* sproto_out_buffer_append adds the whole packet, if it says so. *)
LEMMA OutAppended ==
  ASSUME IInv, NEW p \in Packet, NEW b \in sproto_out_buffer_append(p),
         b.ret = "true"
  PROVE  b.bytes = out \o Framed(p)
<1>1. PICK c \in sproto_buffer_append(out, outSize, Body(p)) :
         b \in IF c.ret = "true" THEN sproto_buffer_append(c.bytes, c.size, Tag)
                                ELSE {[c EXCEPT !.ret = "false"]}
  BY DEF sproto_out_buffer_append
<1>2. c.ret = "true"
  <2>1. CASE c.ret # "true"
    <3>1. b = [c EXCEPT !.ret = "false"]
      BY <1>1, <2>1
    <3>2. c = [ret |-> c.ret, bytes |-> c.bytes, size |-> c.size]
      BY <1>1 DEF sproto_buffer_append
    <3>3. b.ret = "false"
      BY <3>1, <3>2
    <3> QED
      BY <3>3
  <2> QED
    BY <2>1
<1>3. \A buf, size, more : \A r \in sproto_buffer_append(buf, size, more) :
        r.ret = "true" => r.bytes = buf \o more
  BY DEF sproto_buffer_append
<1>4. c.bytes = out \o Body(p)
  BY <1>1, <1>2, <1>3
<1>5. b.bytes = c.bytes \o Tag
  BY <1>1, <1>2, <1>3
<1>6. out \in Seq(Bytes)
  BY DEF IInv, TypeOK
<1>7. (out \o Body(p)) \o Tag = out \o (Body(p) \o Tag)
  BY <1>6, BodyBytes, TagBytes, ConcatAssociative
<1> QED
  BY <1>4, <1>5, <1>7 DEF Framed

LEMMA SenderMapped ==
  ASSUME PipeInv, IInv', SenderIterate
  PROVE  Mapped /\ PipeInv'
<1>1. /\ UNCHANGED <<in, handed>> /\ IInv
  BY DEF SenderIterate, receiver, PipeInv
<1>2. queue' = queue \/ (queue # <<>> /\ queue' = Tail(queue))
  BY DEF SenderIterate
<1>3. CASE ~whole'
  BY <1>1, <1>2, <1>3, Damaged
<1>4. CASE whole'
  <2>1. TypeOK /\ queue \in Seq(Packet)
    BY DEF PipeInv, IInv, TypeOK
  <2>2. CASE /\ queue = <<>>
             /\ WriteOut([bytes |-> out, size |-> outSize], TRUE)
             /\ UNCHANGED queue
    <3> DEFINE b == [bytes |-> out, size |-> outSize]
    <3>1. b.bytes = out /\ out \in Seq(Bytes) /\ WriteOut(b, TRUE)
      BY <2>1, <2>2 DEF TypeOK
    <3> HIDE DEF b
    <3>2. whole /\ Stream' = (in \o wire) \o b.bytes
      BY <1>1, <1>4, <2>1, <3>1, WrittenStream
    <3>3. Stream' = Stream
      BY <3>1, <3>2 DEF Stream
    <3>4. whole' = whole
      BY <1>4, <3>2 DEF PipeInv, IInv, TypeOK
    <3>5. PipeInv'
      BY <3>3, <3>4 DEF PipeInv, HoldsPackets
    <3>6. UNCHANGED <<OnTheWay, handed, whole>>
      BY <1>1, <2>2, <3>3, <3>4, OnTheWayIs
    <3> QED
      BY <3>5, <3>6 DEF Mapped
  <2>3. ASSUME queue # <<>>, queue' = Tail(queue),
               NEW b \in sproto_out_buffer_append(Head(queue)), b.ret # "overflow",
               WriteOut(b, b.ret = "true")
        PROVE  Mapped /\ PipeInv'
    <3> DEFINE p == Head(queue)
    <3>1. p \in Packet /\ Tail(queue) \in Seq(Packet)
      BY <2>1, <2>3
    <3>2. b.bytes \in Seq(Bytes)
      BY <1>1, <2>3, <3>1, OutAppendIsSound DEF Sound
    <3>3. whole /\ b.ret = "true" /\ Stream' = (in \o wire) \o b.bytes
      <4> DEFINE complete == b.ret = "true"
      <4>1. WriteOut(b, complete)
        BY <2>3
      <4> HIDE DEF complete
      <4>2. whole /\ complete /\ Stream' = (in \o wire) \o b.bytes
        BY <1>1, <1>4, <2>1, <3>2, <4>1, WrittenStream
      <4> QED
        BY <4>2 DEF complete
    <3>4. b.bytes = out \o Framed(p)
      BY <1>1, <2>3, <3>1, <3>3, OutAppended
    <3>5. Stream' = Stream \o Framed(p)
      <4>1. ((in \o wire) \o out) \o Framed(p) = (in \o wire) \o (out \o Framed(p))
        <5>1. /\ in \o wire \in Seq(Bytes) /\ out \in Seq(Bytes)
              /\ Framed(p) \in Seq(Bytes)
          BY <2>1, <3>1, StreamTyped, FrameOf
        <5> QED
          BY <5>1, Regrouped, Zenon
      <4> QED
        BY <3>3, <3>4, <4>1 DEF Stream
    <3>6. HoldsPackets(Stream)
      BY <3>3 DEF PipeInv
    <3>7. HoldsPackets(Stream)' /\ Packets(Stream') = Append(Packets(Stream), p)
      BY <3>1, <3>5, <3>6, HoldsMore DEF HoldsPackets
    <3>8. PipeInv'
      BY <3>7 DEF PipeInv
    <3>9. OnTheWay = Packets(Stream) \o queue
      BY <3>3 DEF OnTheWay, Stream
    <3>10. OnTheWay' = Append(Packets(Stream), p) \o Tail(queue)
      BY <1>4, <2>3, <3>7 DEF OnTheWay, Stream
    <3> DEFINE a == Packets(Stream)
    <3>11. a \in Seq(Packet)
      BY <3>6 DEF HoldsPackets
    <3> HIDE DEF a, p
    <3>12. Append(a, p) \o Tail(queue) = a \o queue
      <4>1. <<p>> \in Seq(Packet) /\ Append(a, p) = a \o <<p>>
        BY <3>1, <3>11, AppendIsConcat
      <4>2. (a \o <<p>>) \o Tail(queue) = a \o (<<p>> \o Tail(queue))
        BY <3>1, <3>11, <4>1, ConcatAssociative
      <4>3. <<p>> \o Tail(queue) = queue
        BY <2>1, <2>3, HeadFirst DEF p
      <4> QED
        BY <4>1, <4>2, <4>3
    <3>13. whole' = whole
      BY <1>4, <3>3 DEF PipeInv, IInv, TypeOK
    <3>14. UNCHANGED <<OnTheWay, handed, whole>>
      BY <1>1, <3>9, <3>10, <3>12, <3>13 DEF a
    <3> QED
      BY <3>8, <3>14 DEF Mapped
  <2>4. CASE Ended
    BY <1>4, <2>4 DEF Ended
  <2> QED
    BY <2>2, <2>3, <2>4 DEF SenderIterate
<1> QED
  BY <1>3, <1>4

LEMMA CutThrough ==
  \A b, w, o \in Seq(Bytes) : \A n \in 0..Len(b) :
    (From(b, n) \o w) \o o = From((b \o w) \o o, n)
<1> SUFFICES ASSUME NEW b \in Seq(Bytes), NEW w \in Seq(Bytes), NEW o \in Seq(Bytes),
                    NEW n \in 0..Len(b)
             PROVE  (From(b, n) \o w) \o o = From((b \o w) \o o, n)
  OBVIOUS
<1>1. PICK bw \in Seq(Bytes) : bw = b \o w
  BY Joined
<1>2. n \in 0..Len(bw)
  BY <1>1, Joined
<1>3. From(bw, n) = From(b, n) \o w
  BY <1>1, CutJoined
<1>4. From(bw \o o, n) = From(bw, n) \o o
  BY <1>2, CutJoined
<1> QED
  BY <1>1, <1>3, <1>4, Zenon

LEMMA PopsFirstOf ==
  \A buf, s \in Seq(Bytes), size \in Nat, tagged \in BOOLEAN :
    /\ Len(buf) <= size /\ Len(buf) <= Len(s)
    /\ \A k \in 1..Len(buf) : s[k] = buf[k]
    /\ Packets(s) \in Seq(Packet)
    /\ tagged => StartsWithTag(buf)
    => \A r \in sproto_pop_in_sdp(buf, tagged, size) :
         \/ r.got = None /\ r.drop = 0
         \/ /\ r.got \in FramedAt(s, 0)
            /\ r.drop = Len(Framed(r.got)) /\ r.drop <= Len(buf)
BY PopsFirst

(* What the receiver has read and what it has not, with what is not        *)
(* written yet.                                                            *)
HoldStream(buf, w) == (buf \o w) \o out = Stream

(* The receiver takes the first packet of the stream, or leaves it all. *)
LEMMA PopsMapped ==
  ASSUME PipeInv, IInv', NEW buf, NEW size, Sound(buf, size),
         beginTag => StartsWithTag(buf), PopIn(buf, size), UNCHANGED sender,
         NEW w \in Seq(Bytes), handed' # Error => wire' = w,
         HoldStream(buf, w)
  PROVE  Mapped /\ PipeInv'
<1>1. /\ TypeOK /\ queue' = queue /\ out' = out
      /\ buf \in Seq(Bytes) /\ size \in Nat /\ Len(buf) <= size
      /\ out \in Seq(Bytes) /\ queue \in Seq(Packet) /\ beginTag \in BOOLEAN
  BY DEF PipeInv, IInv, TypeOK, sender, Sound
<1>2. PICK r \in sproto_pop_in_sdp(buf, beginTag, size) :
         /\ handed' = r.got /\ in' = From(buf, r.drop)
         /\ \/ r.got = Error /\ Ended
            \/ r.got # Error /\ UNCHANGED <<up, whole>>
  BY DEF PopIn
<1>3. CASE ~whole
  <2>1. whole = FALSE /\ whole' = FALSE
    BY <1>1, <1>2, <1>3 DEF Ended, TypeOK
  <2>2. Pipe!Lose
    BY <1>1, <2>1, Loses
  <2>3. handed' \in Packet \cup {None, Error, Garbled}
    BY DEF IInv, TypeOK
  <2>4. Pipe!Muddle
    BY <2>1, <2>2, <2>3 DEF Pipe!Muddle
  <2>5. PipeInv'
    BY <2>1 DEF PipeInv
  <2> QED
    BY <2>4, <2>5 DEF Mapped, Pipe!Next
<1>4. CASE whole
  <2>1. Stream \in Seq(Bytes) /\ Packets(Stream) \in Seq(Packet) /\ HoldsPackets(Stream)
    BY <1>4 DEF PipeInv, HoldsPackets
  <2>2. Len(buf) <= Len(Stream) /\ \A k \in 1..Len(buf) : Stream[k] = buf[k]
    <3>1. PICK bw \in Seq(Bytes) :
             /\ bw = buf \o w /\ Len(bw) = Len(buf) + Len(w)
             /\ \A k \in 1..Len(buf) : bw[k] = buf[k]
      BY <1>1, Joined
    <3>2. /\ Len(bw \o out) = Len(bw) + Len(out)
          /\ \A k \in 1..Len(bw) : (bw \o out)[k] = bw[k]
      BY <1>1, Joined
    <3>3. Stream = bw \o out
      BY <3>1 DEF HoldStream
    <3>4. /\ Len(Stream) = Len(bw) + Len(out)
          /\ \A k \in 1..Len(bw) : Stream[k] = bw[k]
      BY <3>2, <3>3
    <3>5. Len(buf) \in Nat /\ Len(w) \in Nat /\ Len(out) \in Nat
      BY <1>1
    <3> QED
      BY <3>1, <3>4, <3>5
  <2>3. \/ r.got = None /\ r.drop = 0
        \/ /\ r.got \in FramedAt(Stream, 0)
           /\ r.drop = Len(Framed(r.got)) /\ r.drop <= Len(buf)
    <3>1. /\ buf \in Seq(Bytes) /\ Stream \in Seq(Bytes)
          /\ size \in Nat /\ beginTag \in BOOLEAN
          /\ Len(buf) <= size /\ Len(buf) <= Len(Stream)
          /\ \A k \in 1..Len(buf) : Stream[k] = buf[k]
          /\ Packets(Stream) \in Seq(Packet)
          /\ beginTag => StartsWithTag(buf)
          /\ r \in sproto_pop_in_sdp(buf, beginTag, size)
      BY <1>1, <2>1, <2>2
    <3> QED
      BY <3>1, PopsFirstOf
  <2>4. CASE r.got = None /\ r.drop = 0
    <3>1. handed' = None /\ wire' = w /\ UNCHANGED whole
      BY <1>2, <2>4, StreamAssumption
    <3>2. in' = buf
      BY <1>1, <1>2, <2>4, SubSeqFull DEF From
    <3>3. Stream' = Stream
      BY <1>1, <3>1, <3>2 DEF Stream, HoldStream
    <3>4. PipeInv'
      BY <3>1, <3>3 DEF PipeInv, HoldsPackets
    <3>5. OnTheWay' = OnTheWay
      BY <1>1, <3>1, <3>3, OnTheWayIs
    <3>6. Pipe!NothingYet
      BY <3>1, <3>5 DEF Pipe!NothingYet
    <3> QED
      BY <3>4, <3>6 DEF Mapped, Pipe!Next
  <2>5. ASSUME NEW p \in FramedAt(Stream, 0), r.got = p,
               r.drop = Len(Framed(p)), r.drop <= Len(buf)
        PROVE  Mapped /\ PipeInv'
    <3> DEFINE n == Len(Framed(p))
               rest == From(Stream, n)
    <3>1. /\ p \in Packet /\ n \in 0..Len(Stream)
          /\ HoldsPackets(rest) /\ Packets(Stream) = <<p>> \o Packets(rest)
      BY <2>1, HoldsLess
    <3>2. n \in Nat /\ n \in 0..Len(buf)
      BY <1>1, <2>5, <3>1, FrameOf
    <3>3. p # Error /\ handed' = p /\ UNCHANGED whole /\ wire' = w /\ in' = From(buf, n)
      BY <1>2, <2>5, <3>1, StreamAssumption
    <3> HIDE DEF n, rest
    <3>4. Stream' = (From(buf, n) \o w) \o out
      BY <1>1, <3>3 DEF Stream
    <3>5. (From(buf, n) \o w) \o out = From((buf \o w) \o out, n)
      <4>1. /\ buf \in Seq(Bytes) /\ w \in Seq(Bytes) /\ out \in Seq(Bytes)
            /\ n \in 0..Len(buf)
        BY <1>1, <3>2
      <4> QED
        BY <4>1, CutThrough
    <3>6. Stream' = rest
      BY <3>4, <3>5 DEF rest, HoldStream
    <3>7. PipeInv'
      BY <3>1, <3>6 DEF PipeInv, HoldsPackets
    <3>8. OnTheWay = (<<p>> \o Packets(rest)) \o queue
      BY <1>4, <3>1 DEF OnTheWay, Stream
    <3>9. OnTheWay' = Packets(rest) \o queue
      <4>1. OnTheWay' = Carried(whole', Stream', queue')
        BY OnTheWayIs
      <4> QED
        BY <1>1, <1>4, <3>3, <3>6, <4>1 DEF Carried
    <3>10. Packets(rest) \in Seq(Packet) /\ <<p>> \in Seq(Packet)
      BY <3>1 DEF HoldsPackets
    <3>11. (<<p>> \o Packets(rest)) \o queue = <<p>> \o (Packets(rest) \o queue)
      BY <1>1, <3>10, ConcatAssociative
    <3>12. Packets(rest) \o queue \in Seq(Packet)
      BY <1>1, <3>10, ConcatProperties
    <3>13. OnTheWay = <<p>> \o OnTheWay' /\ OnTheWay' \in Seq(Packet)
      BY <3>8, <3>9, <3>11, <3>12
    <3>14. OnTheWay # <<>> /\ Head(OnTheWay) = p /\ Tail(OnTheWay) = OnTheWay'
      BY <3>1, <3>13, Prefixed
    <3>15. Pipe!Deliver
      BY <1>4, <3>3, <3>14 DEF Pipe!Deliver
    <3> QED
      BY <3>7, <3>15 DEF Mapped, Pipe!Next
  <2> QED
    BY <2>3, <2>4, <2>5
<1> QED
  BY <1>3, <1>4

LEMMA ReadsMapped == ASSUME PipeInv, IInv', ReceiverReads PROVE Mapped /\ PipeInv'
<1>1. IInv /\ TypeOK /\ UNCHANGED sender
  BY DEF ReceiverReads, PipeInv, IInv
<1>2. PICK n \in 1..Smaller(Len(wire), IoSize) :
        \E b \in sproto_buffer_append(in, inSize, SubSeq(wire, 1, n)) :
          \/ /\ b.ret = "true"
             /\ PopIn(b.bytes, b.size)
             /\ handed' # Error => wire' = From(wire, n)
          \/ handed' = None /\ Ended
  BY DEF ReceiverReads
<1> DEFINE x == SubSeq(wire, 1, n)
           w == From(wire, n)
<1>3. PICK b \in sproto_buffer_append(in, inSize, x) :
        \/ /\ b.ret = "true"
           /\ PopIn(b.bytes, b.size)
           /\ handed' # Error => wire' = w
        \/ handed' = None /\ Ended
  BY <1>2
<1>4. wire \in Seq(Bytes) /\ n \in 0..Len(wire)
  BY <1>1 DEF Smaller, TypeOK
<1>5. x \in Seq(Bytes) /\ w \in Seq(Bytes) /\ x \o w = wire
  BY <1>4, Cut
<1> HIDE DEF x, w
<1>6. Sound(in, inSize) /\ (beginTag => StartsWithTag(in))
  BY <1>1 DEF IInv, TypeOK, BuffersSound, Sound
<1>7. CASE b.ret = "true" /\ PopIn(b.bytes, b.size) /\ (handed' # Error => wire' = w)
  <2> DEFINE buf == b.bytes
             size == b.size
  <2>1. Sound(buf, size) /\ buf \in {in, in \o x}
    BY <1>3, <1>5, <1>6, AppendIsSound
  <2>2. buf = in \o x
    BY <1>3, <1>7 DEF sproto_buffer_append
  <2>3. beginTag => StartsWithTag(buf)
    BY <1>5, <1>6, <2>2, FrontStays DEF Sound
  <2>4. PopIn(buf, size)
    BY <1>7
  <2> HIDE DEF buf, size
  <2>5. HoldStream(buf, w)
    <3>1. in \in Seq(Bytes) /\ x \in Seq(Bytes) /\ w \in Seq(Bytes)
      BY <1>5, <1>6 DEF Sound
    <3>2. (in \o x) \o w = in \o (x \o w)
      BY <3>1, Regrouped
    <3> QED
      BY <1>5, <2>2, <3>2, Zenon DEF HoldStream, Stream
  <2> QED
    BY <1>1, <1>5, <1>7, <2>1, <2>3, <2>4, <2>5, PopsMapped
<1>8. CASE handed' = None /\ Ended
  <2>1. ~whole' /\ queue' = queue
    BY <1>1, <1>8 DEF Ended, sender
  <2> QED
    BY <1>8, <2>1, Damaged
<1> QED
  BY <1>3, <1>7, <1>8

LEMMA FindsNothingMapped ==
  ASSUME PipeInv, IInv', ReceiverFindsNothing
  PROVE  Mapped /\ PipeInv'
<1>1. PopIn(in, inSize) /\ (handed' # Error => wire' = wire) /\ UNCHANGED sender
  BY DEF ReceiverFindsNothing
<1>2. Sound(in, inSize) /\ (beginTag => StartsWithTag(in)) /\ wire \in Seq(Bytes)
  BY DEF PipeInv, IInv, TypeOK, BuffersSound, Sound
<1>3. HoldStream(in, wire)
  BY DEF HoldStream, Stream
<1> QED
  BY <1>1, <1>2, <1>3, PopsMapped

LEMMA BreakMapped == ASSUME PipeInv, IInv', Break PROVE Mapped /\ PipeInv'
<1>1. ~whole' /\ queue' = queue /\ handed' = None
  BY DEF Break, Ended, sender
<1> QED
  BY <1>1, Damaged

(* A connection begins whole if the device kept nothing in its buffer. *)
LEMMA ConnectMapped == ASSUME PipeInv, IInv', Connect PROVE Mapped /\ PipeInv'
<1>1. /\ TypeOK /\ whole = FALSE /\ handed' = None
      /\ queue \in Seq(Packet) /\ queue' \in Seq(Packet) /\ whole' \in BOOLEAN
  BY DEF Connect, PipeInv, IInv, TypeOK
<1>2. OnTheWay = queue
  BY <1>1, OnTheWayIs, CarriedIs
<1>3. OnTheWay' = Carried(whole', Stream', queue')
  BY OnTheWayIs
<1>4. CASE device = "receiver"
  <2>1. /\ queue' = <<>> /\ out' = <<>> /\ wire' = <<>>
        /\ whole' = (in = <<>>) /\ in' = in
    BY <1>4 DEF Connect, receiver
  <2>2. whole' => Stream' = <<>>
    <3>1. ASSUME whole' PROVE in' = <<>>
      BY <2>1, <3>1
    <3>2. <<>> \o <<>> = <<>>
      BY NoBytes, ConcatEmptySeq
    <3> QED
      BY <2>1, <3>1, <3>2, Zenon DEF Stream
  <2>3. whole' => HoldsPackets(Stream')
    BY <2>2, HoldsNone
  <2>4. PipeInv'
    BY <2>3 DEF PipeInv, HoldsPackets
  <2>5. OnTheWay' = <<>>
    BY <1>3, <2>1, <2>2, HoldsNone DEF Carried
  <2>6. Pipe!Connect
    BY <1>1, <2>5 DEF Pipe!Connect
  <2> QED
    BY <2>4, <2>6 DEF Mapped, Pipe!Next
<1>5. CASE device = "sender"
  <2>1. /\ in' = <<>> /\ queue' = queue /\ out' = out
        /\ whole' = (out = <<>>)
        /\ \E p \in Packet : wire' = Framed(p)
    BY <1>5 DEF Connect, sender
  <2>2. PICK p \in Packet : wire' = Framed(p)
    BY <2>1
  <2>3. whole' => Stream' = Framed(p)
    BY <2>1, <2>2, FrameOf, ConcatEmptySeq DEF Stream
  <2>4. whole' => HoldsPackets(Stream')
    BY <2>3, HoldsOne
  <2>5. PipeInv'
    BY <2>4 DEF PipeInv, HoldsPackets
  <2>6. OnTheWay' = <<p>> \o OnTheWay \/ OnTheWay' = OnTheWay
    <3>1. CASE whole'
      BY <1>2, <1>3, <2>1, <2>3, <3>1, HoldsOne DEF Carried
    <3>2. CASE ~whole'
      BY <1>1, <1>2, <1>3, <2>1, <2>4, <3>2, CarriedIs
    <3> QED
      BY <3>1, <3>2
  <2>7. Pipe!Connect
    BY <1>1, <2>6 DEF Pipe!Connect
  <2> QED
    BY <2>5, <2>7 DEF Mapped, Pipe!Next
<1> QED
  BY <1>4, <1>5 DEF Connect

-----------------------------------------------------------------------------

LEMMA PipeInitially == Init => PipeInv /\ Pipe!Init
<1> SUFFICES ASSUME Init PROVE PipeInv /\ Pipe!Init
  OBVIOUS
<1>1. IInv /\ ~whole /\ queue = <<>> /\ handed = None /\ whole = FALSE
  BY Initially DEF Init
<1>2. OnTheWay = <<>>
  BY <1>1 DEF OnTheWay
<1> QED
  BY <1>1, <1>2 DEF PipeInv, Pipe!Init

LEMMA PipeStep ==
  PipeInv /\ [Next]_vars => PipeInv' /\ [Pipe!Next]_<<OnTheWay, handed, whole>>
<1> SUFFICES ASSUME PipeInv, [Next]_vars
             PROVE  Mapped /\ PipeInv'
  BY DEF Mapped
<1>1. IInv'
  BY Inductive DEF PipeInv
<1>2. ASSUME NEW p \in Packet, Push(p) PROVE Mapped /\ PipeInv'
  BY <1>1, <1>2, PushMapped
<1>3. CASE SenderIterate
  BY <1>1, <1>3, SenderMapped
<1>4. CASE ReceiverReads
  BY <1>1, <1>4, ReadsMapped
<1>5. CASE ReceiverFindsNothing
  BY <1>1, <1>5, FindsNothingMapped
<1>6. CASE Break
  BY <1>1, <1>6, BreakMapped
<1>7. CASE Connect
  BY <1>1, <1>7, ConnectMapped
<1>8. CASE UNCHANGED vars
  <2>1. UNCHANGED <<in, wire, out, queue, whole, handed>>
    BY <1>8 DEF vars
  <2>2. Stream' = Stream
    BY <2>1 DEF Stream
  <2>3. PipeInv'
    BY <1>1, <2>1, <2>2 DEF PipeInv, HoldsPackets
  <2>4. OnTheWay' = OnTheWay
    BY <2>1, <2>2, OnTheWayIs
  <2> QED
    BY <2>1, <2>3, <2>4 DEF Mapped
<1> QED
  BY <1>2, <1>3, <1>4, <1>5, <1>6, <1>7, <1>8 DEF Next

(* For all packets, sizes and cuts: a connection that stays whole hands up  *)
(* the packets that were sent, complete, in order, each of them once, and   *)
(* reports no error; whatever the buffers of proto.c were left with by the  *)
(* connection before it, the allocator refuses or the socket does not take. *)
THEOREM StreamCarriesPackets == Spec => CarriesPackets
BY PipeInitially, PipeStep, PTL DEF Spec, CarriesPackets, Pipe!Spec

=============================================================================
