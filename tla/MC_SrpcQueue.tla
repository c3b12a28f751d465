---------------------------- MODULE MC_SrpcQueue ----------------------------
(* Packets and blocks for the runs of SrpcQueue.  Two packets answer to the *)
(* same identifier.                                                         *)
EXTENDS SrpcQueue, TLC

CONSTANTS p1, p2, p3, b1, b2, b3, b4, null

Packets == {p1, p2, p3}
Blocks  == {b1, b2, b3, b4}
IdOf    == (p1 :> 1) @@ (p2 :> 2) @@ (p3 :> 1)

BlockSymmetry == Permutations(Blocks)
=============================================================================
