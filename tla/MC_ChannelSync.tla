--------------------------- MODULE MC_ChannelSync ---------------------------
(* Channels and values for the runs of ChannelSync. *)
EXTENDS ChannelSync

Val(c)    == [ch |-> c, kind |-> "val"]
Ext(c)    == [ch |-> c, kind |-> "ext"]
Action(c) == [ch |-> c, kind |-> "action"]

TwoSensors      == <<Val(1), Val(2)>>
OneMeter        == <<Val(1), Ext(1)>>
SensorAndButton == <<Val(1), Action(2)>>
ButtonAndSensor == <<Action(1), Val(2)>>

(* No two values are alike; or the last two are. *)
EveryByte   == [v \in Value |-> v]
LastIsAlike == [v \in Value |-> IF v = 2 THEN 1 ELSE v]

(* The application sets a slot to anything; or only an extended value is    *)
(* set to what is alike.                                                   *)
AnyValue    == [k \in Kinds |-> Value]
AlikeAreExt == [val |-> {0, 1}, ext |-> {1, 2}, action |-> {1}]
=============================================================================
