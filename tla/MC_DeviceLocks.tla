---------------------------- MODULE MC_DeviceLocks ----------------------------
(* Channels for the run of DeviceLocks: an action trigger and its channel. *)
EXTENDS DeviceLocks, TLC

CONSTANTS button, sensor

ButtonOfSensor == [c \in Channels |-> IF c = button THEN sensor ELSE NoChannel]

AppSymmetry == Permutations(Apps)
=============================================================================
