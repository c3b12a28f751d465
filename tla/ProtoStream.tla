------------------------------ MODULE ProtoStream ------------------------------
(***************************************************************************)
(* Packets as a stream of bytes: the buffers of                            *)
(* src/src/supla-common/proto.c and the two halves of srpc_iterate() that  *)
(* fill and empty them.  One direction of a connection is modelled, from   *)
(* the queue of the sender to what the receiver is handed; both ends run   *)
(* the same code.  One of them is the device, which keeps its buffers from *)
(* one connection to the next; the other one is new on every connection.   *)
(*                                                                         *)
(* A byte is a record: which packet it belongs to and where.  The header   *)
(* after the opening tag (version, rr_id, call_id, data_size) is one unit. *)
(***************************************************************************)
EXTENDS Integers, Sequences

CONSTANTS
  Packet,
  DataLen,    \* sdp->data_size of each packet
  TagSize,    \* SUPLA_TAG_SIZE
  BufferMin,  \* BUFFER_MIN_SIZE
  BufferMax,  \* BUFFER_MAX_SIZE
  IoSize,     \* SRPC_BUFFER_SIZE
  QueueSize,  \* SRPC_QUEUE_SIZE
  WireCap,    \* bound: bytes on the way; what the sockets hold
  None, Error, Garbled  \* results of sproto_pop_in_sdp

ASSUME StreamAssumption ==
  /\ DataLen \in [Packet -> Nat]
  /\ TagSize \in Nat \ {0} /\ IoSize \in Nat \ {0} /\ QueueSize \in Nat \ {0}
  /\ BufferMin \in Nat /\ BufferMax \in Nat /\ BufferMin < BufferMax
  /\ WireCap \in Nat
  /\ None # Error /\ None # Garbled /\ Error # Garbled
  /\ Packet \cap {None, Error, Garbled} = {}

VARIABLES
  device,    \* which end is the device: "sender" or "receiver"
  up,        \* is there a connection?
  queue,     \* srpc->out_queue of the sender
  out,       \* spd->out: the bytes in its buffer
  outSize,   \* ... and spd->out.size
  wire,      \* bytes that were written and not read
  in,        \* spd->in of the receiver: the bytes in its buffer
  inSize,    \* spd->in.size
  beginTag,  \* spd->in.begin_tag
  handed,    \* what the receiver's last iteration handed up
  whole      \* history: the connection began with empty buffers, and nothing was lost on it

sender   == <<queue, out, outSize>>
receiver == <<in, inSize, beginTag>>
vars     == <<device, up, queue, out, outSize, wire, in, inSize, beginTag, handed, whole>>

-----------------------------------------------------------------------------
Byte(kind, p, i) == [kind |-> kind, of |-> p, at |-> i]

Tag     == [i \in 1..TagSize |-> Byte("tag", None, i)]
Body(p) == Tag \o <<Byte("header", p, 0)>> \o [i \in 1..DataLen[p] |-> Byte("data", p, i)]
Framed(p) == Body(p) \o Tag

(* sizeof(TSuplaDataPacket) - SUPLA_MAX_DATA_SIZE *)
HeaderSize == TagSize + 1

Larger(a, b)  == IF a > b THEN a ELSE b
Smaller(a, b) == IF a < b THEN a ELSE b

(* Mutant: what is in the buffer already does not count. *)
GrownByRoom(buf, size, more) == Larger(Larger(size, BufferMin), more)

(* The size a buffer is given to take some more bytes. *)
Grown(buf, size, more) ==
  LET least == Larger(size, BufferMin)
  IN  IF more > least - Len(buf) THEN Len(buf) + more ELSE least

(* Bound: memory is short, and a socket full, only on a connection that is  *)
(* still whole; what can go wrong after that is the same with fewer bytes. *)
CanFail == whole

(* sproto_buffer_append: realloc may fail, and is not called for a buffer  *)
(* that is large enough.                                                   *)
sproto_buffer_append(buf, size, more) ==
  LET grown == Grown(buf, size, Len(more))
      as(result) == [ret |-> result, bytes |-> buf, size |-> size]
  IN  IF grown >= BufferMax
      THEN {as("overflow")}
      ELSE {[ret |-> "true", bytes |-> buf \o more, size |-> grown]}
             \cup (IF CanFail /\ grown # size THEN {as("false")} ELSE {})

(* The sizes a buffer may have when some bytes were taken from its front:  *)
(* a realloc that fails leaves the old one.                                *)
Shrunk(rest, size) ==
  LET least == Larger(Len(rest), BufferMin)
  IN  IF Len(rest) >= size THEN {size}
      ELSE {least} \cup (IF CanFail /\ least > 0 THEN {size} ELSE {})

From(buf, n) == SubSeq(buf, n + 1, Len(buf))

-----------------------------------------------------------------------------
(* The sender *)

(* Mutant: one packet too many. *)
PushOffByOne(p) ==
  /\ up /\ Len(queue) <= QueueSize
  /\ queue' = Append(queue, p)
  /\ UNCHANGED <<device, up, out, outSize, wire, receiver, handed, whole>>

(* srpc_queue_push; a refused packet is the caller's concern. *)
Push(p) ==
  /\ up /\ Len(queue) < QueueSize
  /\ queue' = Append(queue, p)
  /\ UNCHANGED <<device, up, out, outSize, wire, receiver, handed, whole>>

(* sproto_out_buffer_append: the packet, then its closing tag. *)
sproto_out_buffer_append(p) ==
  UNION {IF b.ret = "true"
         THEN sproto_buffer_append(b.bytes, b.size, Tag)
         ELSE {[b EXCEPT !.ret = "false"]} : b \in sproto_buffer_append(out, outSize, Body(p))}

(* sproto_pop_out_data and data_write: the socket may take less than it is *)
(* offered, which nobody looks at.                                         *)
WriteOut(buffer, complete) ==
  LET n == Smaller(Len(buffer.bytes), IoSize)
  IN  /\ Len(wire) + n <= WireCap
      /\ out' = From(buffer.bytes, n)
      /\ outSize' \in IF n = 0 THEN {buffer.size} ELSE Shrunk(out', buffer.size)
      /\ \E k \in 0..n :
           /\ k < n => CanFail
           /\ wire' = wire \o SubSeq(buffer.bytes, 1, k)
           /\ whole' = (whole /\ complete /\ k = n)
      /\ UNCHANGED up

(* The end of a connection, for whatever reason: bytes on the way are lost. *)
Ended == up' = FALSE /\ wire' = <<>> /\ whole' = FALSE

(* The OUT half of srpc_iterate.  An append that failed without an error   *)
(* code goes unnoticed.                                                    *)
SenderIterate ==
  /\ up
  /\ \/ /\ queue = <<>>
        /\ WriteOut([bytes |-> out, size |-> outSize], TRUE)
        /\ UNCHANGED queue
     \/ /\ queue # <<>>
        /\ queue' = Tail(queue)
        /\ \E b \in sproto_out_buffer_append(Head(queue)) :
             \/ /\ b.ret # "overflow"
                /\ WriteOut(b, b.ret = "true")
             \/ /\ b.ret = "overflow"
                /\ out' = b.bytes /\ outSize' = b.size
                /\ Ended
  /\ UNCHANGED <<device, receiver, handed>>

-----------------------------------------------------------------------------
(* The receiver *)

StartsWithTag(buf) == Len(buf) >= TagSize /\ SubSeq(buf, 1, TagSize) = Tag

(* The data_size found in a header.  Where the bytes of a header should be *)
(* there may be others, if some were lost; a tag reads as a version that   *)
(* is not supported, data as anything.                                     *)
Claimed(byte) ==
  CASE byte.kind = "header" -> {DataLen[byte.of]}
    [] byte.kind = "data"   -> UNION {0..DataLen[p] : p \in Packet}
    [] OTHER                -> {}

Recognised(body) ==
  IF \E p \in Packet : body = Body(p) THEN CHOOSE p \in Packet : body = Body(p) ELSE Garbled

(* More bytes are needed. *)
Waits(tagged) == [got |-> None, drop |-> 0, tagged |-> tagged]

(* Mutant: only the opening tag is thrown away. *)
FailsDropsTag(buf) == [got |-> Error, drop |-> TagSize, tagged |-> FALSE]

(* Bad input: all that was read is thrown away. *)
Fails(buf) == [got |-> Error, drop |-> Len(buf), tagged |-> FALSE]

(* Mutant: the closing tag is not waited for. *)
PacketEndsEarly(buf, size, n) ==
  IF HeaderSize + n > Len(buf)
  THEN Waits(TRUE)
  ELSE [got |-> Recognised(SubSeq(buf, 1, HeaderSize + n)), drop |-> HeaderSize + n,
        tagged |-> FALSE]

(* The packet of n bytes of data at the front of the buffer. *)
PacketOf(buf, size, n) ==
  IF HeaderSize + n + TagSize > Len(buf)
  THEN Waits(TRUE)
  ELSE IF HeaderSize + n >= size
          \/ SubSeq(buf, HeaderSize + n + 1, HeaderSize + n + TagSize) # Tag
  THEN Fails(buf)
  ELSE [got |-> Recognised(SubSeq(buf, 1, HeaderSize + n)), drop |-> HeaderSize + n + TagSize,
        tagged |-> FALSE]

(* sproto_pop_in_sdp: what is handed up, how many bytes go, and whether    *)
(* the opening tag has been seen.                                          *)
sproto_pop_in_sdp(buf, tagged, size) ==
  IF ~tagged /\ Len(buf) < TagSize THEN {Waits(FALSE)}
  ELSE IF ~tagged /\ ~StartsWithTag(buf) THEN {Fails(buf)}
  ELSE IF Len(buf) - TagSize < HeaderSize THEN {Waits(TRUE)}
  ELSE {PacketOf(buf, size, n) : n \in Claimed(buf[HeaderSize])}
         \cup (IF buf[HeaderSize].kind = "header" THEN {} ELSE {Fails(buf)})

(* sproto_pop_in_sdp and sproto_shrink_in_buffer, on what was read so far. *)
PopIn(buf, size) ==
  \E r \in sproto_pop_in_sdp(buf, beginTag, size) :
    /\ handed' = r.got
    /\ beginTag' = r.tagged
    /\ in' = From(buf, r.drop)
    /\ inSize' \in IF r.drop = 0 THEN {size} ELSE Shrunk(in', size)
    /\ \/ r.got = Error /\ Ended
       \/ r.got # Error /\ UNCHANGED <<up, whole>>

(* The IN half of srpc_iterate, when the socket has something. *)
ReceiverReads ==
  /\ up
  /\ \E n \in 1..Smaller(Len(wire), IoSize) :
     \E b \in sproto_buffer_append(in, inSize, SubSeq(wire, 1, n)) :
       \/ /\ b.ret = "true"
          /\ PopIn(b.bytes, b.size)
          /\ handed' # Error => wire' = From(wire, n)
       \/ /\ b.ret # "true"
          /\ handed' = None
          /\ Ended
          /\ UNCHANGED receiver
  /\ UNCHANGED <<device, sender>>

(* Mutant: without new bytes there is nothing to do. *)
ReceiverReturnsEarly ==
  /\ up /\ handed' = None
  /\ UNCHANGED <<device, up, sender, wire, receiver, whole>>

(* ... and when it has nothing: a packet read earlier may still be there.  *)
ReceiverFindsNothing ==
  /\ up
  /\ PopIn(in, inSize)
  /\ handed' # Error => wire' = wire
  /\ UNCHANGED <<device, sender>>

-----------------------------------------------------------------------------
(* The connection *)

Break ==
  /\ up /\ Ended
  /\ handed' = None
  /\ UNCHANGED <<device, sender, receiver>>

(* supla_dev_iterate connects, and a device that sends writes its          *)
(* registration straight to the socket.  The other end is a new one.       *)
Connect ==
  /\ ~up /\ up' = TRUE
  /\ handed' = None
  /\ \/ /\ device = "receiver"
        /\ queue' = <<>> /\ out' = <<>> /\ outSize' = 0
        /\ wire' = <<>>
        /\ whole' = (in = <<>>)
        /\ UNCHANGED receiver
     \/ /\ device = "sender"
        /\ in' = <<>> /\ inSize' = 0 /\ beginTag' = FALSE
        /\ \E p \in Packet : wire' = Framed(p)
        /\ whole' = (out = <<>>)
        /\ UNCHANGED sender
  /\ UNCHANGED device

Init ==
  /\ device \in {"sender", "receiver"}
  /\ up = FALSE /\ wire = <<>>
  /\ queue = <<>> /\ out = <<>> /\ outSize = 0
  /\ in = <<>> /\ inSize = 0 /\ beginTag = FALSE
  /\ handed = None /\ whole = FALSE

Next ==
  \/ \E p \in Packet : Push(p)
  \/ SenderIterate
  \/ ReceiverReads \/ ReceiverFindsNothing
  \/ Break \/ Connect

Spec == Init /\ [][Next]_vars

(* Both ends call srpc_iterate for ever. *)
Fairness == WF_vars(SenderIterate) /\ WF_vars(ReceiverReads) /\ WF_vars(ReceiverFindsNothing)

FairSpec == Spec /\ Fairness
-----------------------------------------------------------------------------
(* Properties *)

(* Sizes: no buffer holds more than was allocated for it, or is allowed    *)
(* more than BUFFER_MAX_SIZE; and begin_tag, which is not looked up again  *)
(* once it is set, tells the truth about the front of the buffer.          *)
BuffersSound ==
  /\ Len(in) <= inSize /\ inSize < BufferMax
  /\ Len(out) <= outSize /\ outSize < BufferMax
  /\ beginTag => StartsWithTag(in)

(* Types.  Whether a buffer is sound is another property. *)
Bytes ==
  [kind : {"tag"}, of : {None}, at : Nat] \cup [kind : {"header", "data"}, of : Packet, at : Nat]

TypeOK ==
  /\ device \in {"sender", "receiver"} /\ up \in BOOLEAN
  /\ queue \in Seq(Packet) /\ Len(queue) <= QueueSize
  /\ out \in Seq(Bytes) /\ in \in Seq(Bytes) /\ wire \in Seq(Bytes)
  /\ outSize \in Nat /\ inSize \in Nat
  /\ beginTag \in BOOLEAN /\ whole \in BOOLEAN
  /\ handed \in Packet \cup {None, Error, Garbled}
  /\ whole => up

(* Bad input costs the device one connection: it leaves nothing behind     *)
(* that could spoil the next.                                              *)
ErrorHeals ==
  [][Connect /\ device = "receiver" /\ handed = Error => whole']_vars

(* The packets of which there is all, at some place in a stream. *)
FramedAt(stream, i) ==
  {p \in Packet : /\ i + Len(Framed(p)) <= Len(stream)
                  /\ SubSeq(stream, i + 1, i + Len(Framed(p))) = Framed(p)}

(* A stream that is read at once: one complete packet after another, from  *)
(* each place on.                                                          *)
PacketsAfter(stream) ==
  LET after[i \in 0..Len(stream)] ==
        IF i = Len(stream) THEN <<>>
        ELSE IF FramedAt(stream, i) = {} THEN <<Garbled>>
        ELSE LET p == CHOOSE p \in FramedAt(stream, i) : TRUE
             IN  <<p>> \o after[i + Len(Framed(p))]
  IN  after

Packets(stream) == PacketsAfter(stream)[0]

OnTheWay == (IF whole THEN Packets(in \o wire \o out) ELSE <<>>) \o queue

(* However the stream is cut into writes and reads, and whatever the       *)
(* buffers go through, it carries the packets that were sent.              *)
Pipe == INSTANCE PacketPipe WITH pipe <- OnTheWay
CarriesPackets == Pipe!Spec

(* Nothing gets stuck: while the connection stays whole, what is on its    *)
(* way is handed up, also when no more bytes follow it.                    *)
Arrives == (whole /\ OnTheWay # <<>>) ~> (~whole \/ handed \in Packet)
=============================================================================
