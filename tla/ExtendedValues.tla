---------------------------- MODULE ExtendedValues ----------------------------
(***************************************************************************)
(* The extended values of channels, as srpc_evtool_* of srpc.c writes them *)
(* into a TSuplaChannelExtendedValue, reads them back, converts the three  *)
(* versions of a meter's value into one another and puts several values    *)
(* into one.                                                               *)
(*                                                                         *)
(* A value that an application fills in is a record:                       *)
(*   meter       its version; the number of measurements and the array of  *)
(*               them; the fields that every version has (total), those    *)
(*               since version 2 (balanced) and version 3 (phases); and    *)
(*               measured, the ones the bits of measured_values announce   *)
(*   thermostat  Fields, the parts it announces, and the parts themselves  *)
(*   counter, other   a whole structure, or bytes that nobody looks at     *)
(* What a part holds is Filled, or Blank after a memset.                   *)
(*                                                                         *)
(* An extended value is [type, size, value]; a multi value holds others.   *)
(***************************************************************************)
EXTENDS WireTypes, Integers

Blank == "blank"
Filled == "filled"

EV_TYPE_NONE == "none"
EV_TYPE_MULTI_VALUE == "multi"
EV_TYPE_ELECTRICITY_METER_MEASUREMENT ==
    [v \in 1 .. 3 |-> <<"meter V1", "meter V2", "meter V3">>[v]]
EV_TYPE_IMPULSE_COUNTER_DETAILS_V1 == "counter"
EV_TYPE_THERMOSTAT_DETAILS_V1 == "thermostat"
EV_TYPE_OTHER == "other"

Nowhere == [type |-> EV_TYPE_NONE, size |-> 0, value |-> Blank]

(* What a function that returns 0 leaves of its result.                    *)
Refused == [kind |-> "refused"]

(***************************************************************************)
(* Meters.                                                                 *)
(***************************************************************************)
MeterLayout == <<TElectricityMeter_ExtendedValue,
                 TElectricityMeter_ExtendedValue_V2,
                 TElectricityMeter_ExtendedValue_V3>>

(* The quantities of a meter, and the version each one came with.          *)
Quantities == {"total", "balanced", "phases"}
Since(q) == CASE q = "total" -> 1 [] q = "balanced" -> 2 [] q = "phases" -> 3

Meter(version, m_count, measured) ==
    [kind |-> "meter", version |-> version, m_count |-> m_count,
     m |-> [i \in 1 .. EM_MEASUREMENT_COUNT |-> IF i <= m_count THEN Filled
                                                                ELSE Blank],
     measured |-> measured,
     fields |-> [q \in Quantities |-> IF Since(q) <= version THEN Filled
                                                             ELSE Blank]]

(* RETURN_EMEXTENDED2EXTENDED: the array is cut after m_count items.       *)
emextended2extended(em) ==
    LET size == SizeWith(MeterLayout[em.version], em.m_count)
    IN  IF \/ em.m_count \notin 0 .. EM_MEASUREMENT_COUNT
           \/ size > SUPLA_CHANNELEXTENDEDVALUE_SIZE
          THEN Nowhere
          ELSE [type |-> EV_TYPE_ELECTRICITY_METER_MEASUREMENT[em.version],
                size |-> size,
                value |-> [em EXCEPT !.m = SubSeq(@, 1, em.m_count)]]

(* RETURN_EXTENDED2EMEXTENDED: the size must be that of m_count items, and *)
(* the array of the reader must have room for them.                        *)
extended2emextended(version, ev) ==
    LET L == MeterLayout[version]
    IN  IF \/ ev.type # EV_TYPE_ELECTRICITY_METER_MEASUREMENT[version]
           \/ ev.size \notin 1 .. SizeOf(L)
           \/ ev.value.m_count > EM_MEASUREMENT_COUNT
           \/ ev.size # SizeWith(L, ev.value.m_count)
          THEN Refused
          ELSE [ev.value EXCEPT
                   !.m = [i \in 1 .. EM_MEASUREMENT_COUNT |->
                             IF i <= Len(@) THEN @[i] ELSE Blank]]

(* EMEV_COPY: what all the versions have; the rest is blank.               *)
EMEV_COPY(source, version) ==
    [source EXCEPT !.version = version, !.fields.balanced = Blank,
                   !.fields.phases = Blank]

srpc_evtool_emev_v1to2(v1) ==
    [EMEV_COPY(v1, 2) EXCEPT !.measured = @ \ {"balanced"}]
srpc_evtool_emev_v2to1(v2) ==
    [EMEV_COPY(v2, 1) EXCEPT !.measured = @ \ {"balanced"}]

BalancedToo(source, version) ==
    [EMEV_COPY(source, version) EXCEPT
        !.fields.balanced = source.fields.balanced,
        !.measured = @ \ {"phases"}]

(* Mutant: version 3 is given the bits of fields it has nothing for.       *)
V2to3KeepsBits(v2) ==
    [EMEV_COPY(v2, 3) EXCEPT !.fields.balanced = v2.fields.balanced]

srpc_evtool_emev_v2to3(v2) == BalancedToo(v2, 3)
srpc_evtool_emev_v3to2(v3) == BalancedToo(v3, 2)

srpc_evtool_extended2emextended_latest(ev) ==
    LET v3 == extended2emextended(3, ev)
        v2 == extended2emextended(2, ev)
        v1 == extended2emextended(1, ev)
    IN  IF v3 # Refused THEN v3
        ELSE IF v2 # Refused THEN srpc_evtool_emev_v2to3(v2)
        ELSE IF v1 # Refused
          THEN srpc_evtool_emev_v2to3(srpc_evtool_emev_v1to2(v1))
        ELSE Refused

(***************************************************************************)
(* Thermostats. The parts are at the end of the structure in this order,   *)
(* and those at the end that Fields does not announce are not sent.        *)
(***************************************************************************)
Parts == <<"MeasuredTemperatures", "PresetTemperatures", "Flags", "Values",
           "Time", "Schedule">>
PartSize == <<10 * Int16, 10 * Int16, 8 * Int16, 8 * Int16,
              TThermostat_Time, TThermostat_Schedule>>

Thermostat(Fields) ==
    [kind |-> "thermostat", Fields |-> Fields,
     parts |-> [i \in DOMAIN Parts |-> Filled]]

(* The last part that is announced: all up to it are sent.                 *)
Announced(th) == {i \in DOMAIN Parts : Parts[i] \in th.Fields}
LastPart(th) ==
    CHOOSE i \in {0} \cup Announced(th) : \A j \in Announced(th) : j <= i

srpc_evtool_v1_thermostatextended2extended(th) ==
    [type |-> EV_TYPE_THERMOSTAT_DETAILS_V1,
     size |-> Char + Total(SubSeq(PartSize, 1, LastPart(th))),
     value |-> [th EXCEPT !.parts = SubSeq(@, 1, LastPart(th))]]

srpc_evtool_v1_extended2thermostatextended(ev) ==
    IF \/ ev.type # EV_TYPE_THERMOSTAT_DETAILS_V1
       \/ ev.size \notin 1 .. TThermostat_ExtendedValue
      THEN Refused
      ELSE [ev.value EXCEPT !.parts = [i \in DOMAIN Parts |->
                                          IF i <= Len(@) THEN @[i] ELSE Blank]]

(***************************************************************************)
(* Impulse counters, and other values that are passed on as they are.      *)
(***************************************************************************)
Counter == [kind |-> "counter"]
OtherValue(size) == [kind |-> "other", size |-> size]

srpc_evtool_v1_icextended2extended(ic) ==
    [type |-> EV_TYPE_IMPULSE_COUNTER_DETAILS_V1,
     size |-> TSC_ImpulseCounter_ExtendedValue, value |-> ic]

srpc_evtool_v1_extended2icextended(ev) ==
    IF \/ ev.type # EV_TYPE_IMPULSE_COUNTER_DETAILS_V1
       \/ ev.size # TSC_ImpulseCounter_ExtendedValue
      THEN Refused
      ELSE ev.value

(***************************************************************************)
(* Several values in one: each is stored with its type and its size.       *)
(***************************************************************************)
header_size == TSuplaChannelExtendedValue.fixed
Stored(ev) == SizeWith(TSuplaChannelExtendedValue, ev.size)

(* Mutant: the type and the size of the new value are not counted.         *)
NoRoomForValue(used, ev) == used + ev.size > SUPLA_CHANNELEXTENDEDVALUE_SIZE

NoRoom(used, ev) == used + Stored(ev) > SUPLA_CHANNELEXTENDEDVALUE_SIZE

Multi(items) ==
    [type |-> EV_TYPE_MULTI_VALUE,
     size |-> Total([i \in DOMAIN items |-> Stored(items[i])]),
     value |-> items]

(* What dest is afterwards; it stays as it was when 0 is returned.         *)
srpc_evtool_value_add(dest, src) ==
    LET items == IF dest.type = EV_TYPE_MULTI_VALUE THEN dest.value ELSE <<dest>>
    IN  IF src.type = EV_TYPE_NONE \/ src.size = 0 THEN dest
        ELSE IF dest.type = EV_TYPE_NONE THEN src
        ELSE IF NoRoom(Multi(items).size, src) THEN dest
        ELSE Multi(Append(items, src))

(* The items are walked through from the first on, over their sizes.       *)
Offset(items, i) == Multi(SubSeq(items, 1, i - 1)).size
InReach(ev, i) ==
    /\ i <= Len(ev.value)
    /\ Offset(ev.value, i) < ev.size - header_size
WellFormed(ev, i) ==
    /\ ev.value[i].type # EV_TYPE_NONE /\ ev.value[i].size # 0
    /\ Offset(ev.value, i) + Stored(ev.value[i])
           <= SUPLA_CHANNELEXTENDEDVALUE_SIZE

srpc_evtool_value_get(ev, index) ==
    IF ev.type = EV_TYPE_NONE THEN Nowhere
    ELSE IF ev.type # EV_TYPE_MULTI_VALUE
      THEN IF index = 0 THEN ev ELSE Nowhere
    ELSE IF \A i \in 1 .. index + 1 : InReach(ev, i) /\ WellFormed(ev, i)
      THEN ev.value[index + 1]
    ELSE IF index = 0 /\ ~InReach(ev, 1) THEN ev ELSE Nowhere

(***************************************************************************)
(* From an application to another.                                         *)
(***************************************************************************)
Encoded(source) ==
    CASE source.kind = "meter"      -> emextended2extended(source)
      [] source.kind = "thermostat" ->
             srpc_evtool_v1_thermostatextended2extended(source)
      [] source.kind = "counter"    -> srpc_evtool_v1_icextended2extended(source)
      [] source.kind = "other"      -> [type |-> EV_TYPE_OTHER,
                                        size |-> source.size, value |-> source]

Decoded(ev) ==
    LET readings == {srpc_evtool_extended2emextended_latest(ev),
                     srpc_evtool_v1_extended2thermostatextended(ev),
                     srpc_evtool_v1_extended2icextended(ev)} \ {Refused}
    IN  IF ev.type = EV_TYPE_OTHER THEN ev.value
        ELSE IF readings = {} THEN Refused
        ELSE CHOOSE reading \in readings : TRUE

(* A meter's value for a reader that knows versions up to this one.        *)
InVersion(em, version) ==
    CASE version = 3 -> em
      [] version = 2 -> srpc_evtool_emev_v3to2(em)
      [] version = 1 -> srpc_evtool_emev_v2to1(srpc_evtool_emev_v3to2(em))

(* What a value tells: the quantities it announces and what they hold.     *)
Tells(value, upTo) ==
    CASE value.kind = "meter" ->
             [m |-> SubSeq(value.m, 1, value.m_count),
              told |-> {<<q, value.fields[q]>> :
                           q \in {r \in value.measured : Since(r) <= upTo}}]
      [] value.kind = "thermostat" ->
             {<<Parts[i], value.parts[i]>> : i \in Announced(value)}
      [] OTHER -> value

==============================================================================
