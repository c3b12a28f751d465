------------------------------- MODULE RpcFifo -------------------------------
(***************************************************************************)
(* What the packet queues of src/src/supla-common/srpc.c promise: packets  *)
(* are kept in the order in which they were pushed, none is lost, doubled  *)
(* or altered, and the one taken out is the oldest that was asked for.  A  *)
(* push may be refused, for want of room or of memory.                     *)
(***************************************************************************)
EXTENDS Integers, Sequences

CONSTANTS
  Packet,   \* what can be queued
  Ids,      \* identifiers of requests; 0 asks for any packet
  RrId,     \* the identifier of each packet
  Capacity  \* SRPC_QUEUE_SIZE

VARIABLES
  fifo,   \* the packets that wait, oldest first
  taken   \* what the last operation gave its caller: <<>>, or one packet

Wanted(packet, id) == id = 0 \/ RrId[packet] = id

Without(s, i) == [j \in 1..(Len(s) - 1) |-> IF j < i THEN s[j] ELSE s[j + 1]]

Init == fifo = <<>> /\ taken = <<>>

Push(p) ==
  /\ Len(fifo) < Capacity
  /\ fifo' = Append(fifo, p) /\ taken' = <<>>

(* A push that is refused, a pop that finds nothing. *)
Nothing == taken' = <<>> /\ UNCHANGED fifo

Pop(id) ==
  \E i \in 1..Len(fifo) :
    /\ Wanted(fifo[i], id)
    /\ \A j \in 1..(i - 1) : ~Wanted(fifo[j], id)
    /\ fifo' = Without(fifo, i) /\ taken' = <<fifo[i]>>

Next ==
  \/ \E p \in Packet : Push(p)
  \/ \E id \in Ids \cup {0} : Pop(id)
  \/ Nothing

Spec == Init /\ [][Next]_<<fifo, taken>>
=============================================================================
