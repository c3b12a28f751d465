-------------------------- MODULE MC_DeviceSession --------------------------
(* Model values and symmetry for the runs of DeviceSession. *)
EXTENDS DeviceSession, TLC

CONSTANTS a1, a2

OneThread  == {a1}
TwoThreads == {a1, a2}

ThreadSymmetry == Permutations(App)
=============================================================================
