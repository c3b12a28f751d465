------------------------------ MODULE PacketPipe ------------------------------
(***************************************************************************)
(* What a connection promises to those who exchange packets over it: as    *)
(* long as it is whole they are handed up complete, in the order in which  *)
(* they were sent, each of them once, and no error is reported.  Once      *)
(* something was lost nothing is promised until the next connection.       *)
(***************************************************************************)
EXTENDS Integers, Sequences

CONSTANTS
  Packet,   \* what can be sent
  None,     \* nothing is handed up
  Error,    \* a malformed packet is reported
  Garbled   \* a packet nobody sent is handed up

VARIABLES
  pipe,     \* the packets that are on their way, oldest first
  handed,   \* what the receiver was last handed
  whole     \* is there a connection on which everything counts?

Init == pipe = <<>> /\ handed = None /\ whole = FALSE

(* The oldest packets are lost, some or all or none of them. *)
Lose == \E k \in 0..Len(pipe) : pipe' = SubSeq(pipe, k + 1, Len(pipe))

Send(p) == pipe' = Append(pipe, p) /\ UNCHANGED <<handed, whole>>

Deliver ==
  /\ whole /\ pipe # <<>>
  /\ handed' = Head(pipe) /\ pipe' = Tail(pipe)
  /\ UNCHANGED whole

NothingYet == handed' = None /\ UNCHANGED <<pipe, whole>>

Damage ==
  /\ whole' = FALSE /\ Lose
  /\ handed' \in {handed, None}

Muddle ==
  /\ ~whole /\ Lose
  /\ handed' \in Packet \cup {None, Error, Garbled}
  /\ UNCHANGED whole

(* A connection on which the device is the sender begins with its          *)
(* registration, and what it had queued follows.                           *)
Connect ==
  /\ ~whole /\ whole' \in BOOLEAN
  /\ handed' = None
  /\ pipe' = <<>> \/ \E p \in Packet : pipe' = <<p>> \o pipe \/ pipe' = pipe

Next ==
  \/ \E p \in Packet : Send(p)
  \/ Deliver \/ NothingYet \/ Damage \/ Muddle \/ Connect

Spec == Init /\ [][Next]_<<pipe, handed, whole>>
=============================================================================
