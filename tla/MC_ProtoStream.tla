--------------------------- MODULE MC_ProtoStream ---------------------------
(* Two packets for the runs of ProtoStream.  The data of the long one is as *)
(* long as what precedes the closing tag of the short one, so that the two  *)
(* can be mistaken for each other when the link breaks between them.        *)
EXTENDS ProtoStream, TLC

CONSTANTS short, long

PacketsUsed == {short, long}
LenOf       == (short :> 0) @@ (long :> 3)
=============================================================================
