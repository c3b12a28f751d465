-------------------------- MODULE SrpcCalls_proofs --------------------------
(***************************************************************************)
(* Theorems about SrpcCalls, for every set of machines and of versions.    *)
(*                                                                         *)
(* First the versions; then what an extended value tells its reader; then  *)
(* the packet on the wire, of which the other invariants say something.    *)
(***************************************************************************)
EXTENDS SrpcTables_proofs

-----------------------------------------------------------------------------
(***************************************************************************)
(* Versions                                                                *)
(***************************************************************************)

LEMMA VersionsAreNumbers ==
  ASSUME NEW call
  PROVE  srpc_call_min_version_required(call) \in Nat
<1>1. /\ 2 \in Nat /\ 3 \in Nat /\ 5 \in Nat /\ 6 \in Nat /\ 7 \in Nat
      /\ 8 \in Nat /\ 9 \in Nat /\ 10 \in Nat /\ 11 \in Nat /\ 12 \in Nat
      /\ 13 \in Nat /\ 14 \in Nat /\ 15 \in Nat /\ 16 \in Nat /\ 17 \in Nat
      /\ 18 \in Nat /\ 19 \in Nat /\ 20 \in Nat /\ 21 \in Nat /\ 23 \in Nat
      /\ 25 \in Nat /\ 26 \in Nat /\ 255 \in Nat
  OBVIOUS
<1>2. SinceLater(call) \in Nat
  BY <1>1, Zenon DEF SinceLater
<1>3. QED
  BY <1>2 DEF srpc_call_min_version_required

LEMMA FirstCallsAreOld ==
    /\ srpc_call_min_version_required(DCS.PING_SERVER) = 1
    /\ srpc_call_min_version_required(SDC.VERSIONERROR) = 1
  BY DEF srpc_call_min_version_required, SinceTheFirst, DCS, SDC

LEMMA PacketFields ==
  ASSUME NEW end, NEW call, NEW data, NEW v
  PROVE  LET pk == PacketOf(end, call, data, v)
         IN  /\ pk.to = Other(end) /\ pk.version = v /\ pk.call = call
             /\ \A s : LET cut == [pk EXCEPT !.size = s]
                       IN  /\ cut.to = Other(end) /\ cut.version = v
                           /\ cut.call = call
  BY DEF PacketOf

(***************************************************************************)
(* The inductive invariant. What makes it work is that every packet, in    *)
(* either direction, has the version of the peer: the peer never changes   *)
(* its own, the server says nothing of itself before it has taken over     *)
(* that version, and answers a version error in the version it refuses.    *)
(***************************************************************************)
VersionsAgree ==
    /\ peer.proto \in Nat /\ peer.proto >= 1
    /\ server \in Nat
    /\ version \in [Ends -> Nat]
    /\ version["peer"] = peer.proto
    /\ adopted => version["server"] = peer.proto

PacketAgrees ==
    packet.to \in Ends =>
        /\ packet.version = peer.proto
        /\ srpc_call_min_version_required(packet.call) <= packet.version

VersionInv == VersionsAgree /\ PacketAgrees /\ NeverTooNew /\ AnswersReadable

LEMMA VersionInvInit == Init => VersionInv
<1>1. SUFFICES ASSUME Init PROVE VersionInv
  OBVIOUS
<1>2. peer.proto \in PeerVersions /\ server \in ServerVersions
  BY <1>1 DEF Init, Peers
<1>3. VersionsAgree
  BY <1>1, <1>2, CallsAssumption
     DEF Init, VersionsAgree, Ends, SUPLA_PROTO_VERSION_MIN
<1>4. PacketAgrees
  BY <1>1 DEF Init, PacketAgrees, NoPacket, Ends
<1>5. NeverTooNew /\ AnswersReadable
  BY <1>1 DEF Init, NeverTooNew, AnswersReadable, Silence
<1>6. QED
  BY <1>3, <1>4, <1>5 DEF VersionInv

(* What a step that hears nothing leaves to show.                          *)
LEMMA Unheard ==
  ASSUME VersionInv, UNCHANGED <<peer, server, version, adopted>>,
         heard' = Silence \/ heard' = heard, PacketAgrees'
  PROVE  VersionInv'
<1>1. VersionsAgree'
  BY DEF VersionInv, VersionsAgree
<1>2. NeverTooNew' /\ AnswersReadable'
  <2>1. CASE heard' = Silence
    BY <2>1 DEF NeverTooNew, AnswersReadable, Silence
  <2>2. CASE heard' = heard
    BY <2>2 DEF VersionInv, NeverTooNew, AnswersReadable, ProtoVersion
  <2>3. QED
    BY <2>1, <2>2
<1>3. QED
  BY <1>1, <1>2 DEF VersionInv

LEMMA CallAgrees ==
  ASSUME VersionInv, NEW end \in Ends, Call(end)
  PROVE  VersionInv'
<1>1. PICK call, data : srpc_async_call(end, call, data)
  BY DEF Call
<1>2. version[end] = peer.proto
  BY DEF Call, VersionInv, VersionsAgree, Ends
<1>3. PacketAgrees'
  <2>1. CASE packet' = NoPacket
    BY <2>1 DEF PacketAgrees, NoPacket, Ends
  <2>2. CASE packet' # NoPacket
    <3>1. /\ packet' = PacketOf(end, call, data, version[end])
          /\ srpc_call_allowed(end, call)
      BY <1>1, <2>2 DEF srpc_async_call
    <3>2. peer' = peer
      BY DEF Call
    <3>3. QED
      BY <1>2, <3>1, <3>2, PacketFields, VersionsAreNumbers
         DEF PacketAgrees, srpc_call_allowed, VersionInv, VersionsAgree
  <2>3. QED
    BY <2>1, <2>2
<1>4. heard' = Silence
  BY <1>1 DEF srpc_async_call
<1>5. QED
  BY <1>3, <1>4, Unheard DEF Call

LEMMA ChunksAgree ==
  ASSUME VersionInv, registerdevice_in_chunks_g
  PROVE  VersionInv'
<1>1. PICK data : packet' = PacketOf("peer", DS.REGISTER_DEVICE_G, data,
                                     version["peer"])
  BY DEF registerdevice_in_chunks_g
<1>2. PacketAgrees'
  BY <1>1, PacketFields, VersionsAreNumbers
     DEF registerdevice_in_chunks_g, PacketAgrees, srpc_call_allowed,
         VersionInv, VersionsAgree
<1>3. QED
  BY <1>2, Unheard DEF registerdevice_in_chunks_g

LEMMA PingAgrees ==
  ASSUME VersionInv, PingOfOldDevice
  PROVE  VersionInv'
<1>1. PICK size, data :
         packet' = [PacketOf("peer", DCS.PING_SERVER, data, version["peer"])
                       EXCEPT !.size = size]
  BY DEF PingOfOldDevice
<1>2. PacketAgrees'
  BY <1>1, PacketFields, FirstCallsAreOld
     DEF PingOfOldDevice, PacketAgrees, VersionInv, VersionsAgree
<1>3. QED
  BY <1>2, Unheard DEF PingOfOldDevice

LEMMA ForgetAgrees ==
  ASSUME VersionInv, Forget
  PROVE  VersionInv'
<1>1. PacketAgrees'
  BY DEF Forget, VersionInv, PacketAgrees
<1>2. QED
  BY <1>1, Unheard DEF Forget

LEMMA VersionErrorAgrees ==
  ASSUME VersionInv, NEW end \in Ends, ReceiveVersionError(end)
  PROVE  VersionInv'
<1>1. /\ packet.version = peer.proto /\ peer.proto \in Nat /\ peer.proto >= 1
      /\ UNCHANGED <<peer, server, version, adopted>>
  BY DEF ReceiveVersionError, VersionInv, VersionsAgree, PacketAgrees
<1>2. end = "server"
  <2>1. packet.version \notin SUPLA_PROTO_VERSION_MIN .. ProtoVersion(end)
    BY DEF ReceiveVersionError
  <2>2. end # "peer"
    BY <1>1, <2>1 DEF ProtoVersion, SUPLA_PROTO_VERSION_MIN
  <2>3. QED
    BY <2>2 DEF Ends
<1>3. PICK answer : packet' = PacketOf("server", SDC.VERSIONERROR, answer,
                                       packet.version)
  BY <1>2 DEF ReceiveVersionError
<1>4. PacketAgrees'
  BY <1>1, <1>3, PacketFields, FirstCallsAreOld DEF PacketAgrees
<1>5. heard'.result = "version error" /\ heard'.at = "server"
  BY <1>2 DEF ReceiveVersionError, Hears
<1>6. NeverTooNew' /\ AnswersReadable'
  BY <1>5 DEF NeverTooNew, AnswersReadable
<1>7. VersionsAgree'
  BY <1>1 DEF VersionInv, VersionsAgree
<1>8. QED
  BY <1>4, <1>6, <1>7 DEF VersionInv

LEMMA ReceiveAgrees ==
  ASSUME VersionInv, NEW end \in Ends, Receive(end)
  PROVE  VersionInv'
<1>1. /\ packet.version = peer.proto
      /\ srpc_call_min_version_required(packet.call) <= packet.version
      /\ packet.version \in SUPLA_PROTO_VERSION_MIN .. ProtoVersion(end)
      /\ peer' = peer /\ server' = server /\ packet' = NoPacket
  BY DEF Receive, VersionInv, PacketAgrees
<1>2. PacketAgrees'
  BY <1>1 DEF PacketAgrees, NoPacket, Ends
<1>3. PICK result, data : Hears(end, result, data)
  BY DEF Receive
<1>4. heard'.at = end /\ heard'.call = packet.call /\ heard'.result = result
  BY <1>3 DEF Hears
<1>5. NeverTooNew'
  <2>1. /\ ProtoVersion(end) \in Nat /\ packet.version \in Nat
        /\ ProtoVersion(end)' = ProtoVersion(end)
    BY <1>1 DEF ProtoVersion, VersionInv, VersionsAgree
  <2>2. srpc_call_min_version_required(packet.call) <= ProtoVersion(end)
    BY <1>1, <2>1, VersionsAreNumbers DEF SUPLA_PROTO_VERSION_MIN
  <2>3. QED
    BY <1>4, <2>1, <2>2 DEF NeverTooNew
<1>6. AnswersReadable'
  <2>1. heard'.result # "version error"
    BY DEF Receive, Hears
  <2>2. QED
    BY <2>1 DEF AnswersReadable
<1>7. VersionsAgree'
  <2>1. CASE end = "server"
    <3>1. sproto_set_version("server", packet.version) = peer.proto
      BY <1>1, <2>1 DEF sproto_set_version
    <3>2. version' = [version EXCEPT !.server = peer.proto]
      BY <2>1, <3>1 DEF Receive
    <3>3. QED
      BY <1>1, <3>2 DEF VersionInv, VersionsAgree, Ends
  <2>2. CASE end # "server"
    BY <1>1, <2>2 DEF Receive, VersionInv, VersionsAgree
  <2>3. QED
    BY <2>1, <2>2
<1>8. QED
  BY <1>2, <1>5, <1>6, <1>7 DEF VersionInv

LEMMA VersionInvStep == VersionInv /\ [Next]_vars => VersionInv'
<1>1. SUFFICES ASSUME VersionInv, [Next]_vars PROVE VersionInv'
  OBVIOUS
<1>2. ASSUME NEW end \in Ends, Call(end) PROVE VersionInv'
  BY <1>1, <1>2, CallAgrees
<1>3. ASSUME NEW end \in Ends, Receive(end) PROVE VersionInv'
  BY <1>1, <1>3, ReceiveAgrees
<1>4. ASSUME NEW end \in Ends, ReceiveVersionError(end) PROVE VersionInv'
  BY <1>1, <1>4, VersionErrorAgrees
<1>5. CASE registerdevice_in_chunks_g
  BY <1>1, <1>5, ChunksAgree
<1>6. CASE PingOfOldDevice
  BY <1>1, <1>6, PingAgrees
<1>7. CASE Forget
  BY <1>1, <1>7, ForgetAgrees
<1>8. CASE UNCHANGED vars
  <2>1. PacketAgrees'
    BY <1>1, <1>8 DEF vars, VersionInv, PacketAgrees
  <2>2. QED
    BY <1>1, <1>8, <2>1, Unheard DEF vars
<1>9. QED
  BY <1>1, <1>2, <1>3, <1>4, <1>5, <1>6, <1>7, <1>8 DEF Next

LEMMA VersionInvHolds == Spec => []VersionInv
  BY VersionInvInit, VersionInvStep, PTL DEF Spec

(* No end is handed a call newer than its own version of the protocol, of  *)
(* whatever versions device, client and server are (srpc_call_allowed and  *)
(* sproto_set_version at the sender, the version check of the receiver).   *)
THEOREM CallsAreNeverTooNew == Spec => []NeverTooNew
<1>1. VersionInv => NeverTooNew
  BY DEF VersionInv
<1>2. QED
  BY <1>1, VersionInvHolds, PTL

(* A device or client reads all that the server says, the version error    *)
(* included, of whatever versions the two are.                             *)
THEOREM AnswersAreReadable == Spec => []AnswersReadable
<1>1. VersionInv => AnswersReadable
  BY DEF VersionInv
<1>2. QED
  BY <1>1, VersionInvHolds, PTL

-----------------------------------------------------------------------------
(***************************************************************************)
(* Meters                                                                  *)
(*                                                                         *)
(* A meter's value has the fields of its version; a conversion to a newer  *)
(* version leaves those it does not have blank, one to an older version    *)
(* drops them. Whichever the versions, its reader is told what the writer  *)
(* measured.                                                               *)
(***************************************************************************)

(* A meter's value, field by field. *)
MeterValue(v, k, m, q, fields) ==
    [kind |-> "meter", version |-> v, m_count |-> k, m |-> m,
     measured |-> q, fields |-> fields]
Quants == {"total", "balanced", "phases"}
Age(r) == IF r = "total" THEN 1 ELSE IF r = "balanced" THEN 2 ELSE 3

LEMMA QuantitiesAre ==
  ASSUME NEW b
  PROVE  /\ Values(b)!Quantities = Quants
         /\ \A r \in Quants : Values(b)!Since(r) = Age(r)
         /\ Values(b)!Filled = "filled" /\ Values(b)!Blank = "blank"
<1>1. Values(b)!Quantities = Quants
  BY DEF Values!Quantities, Quants
<1>2. \A r \in Quants : Values(b)!Since(r) = Age(r)
  BY DEF Values!Since, Quants, Age
<1>3. Values(b)!Filled = "filled" /\ Values(b)!Blank = "blank"
  BY DEF Values!Filled, Values!Blank
<1> QED
  BY <1>1, <1>2, <1>3

MeterTypes == <<"meter V1", "meter V2", "meter V3">>
MeterFixed == <<119, 139, 144>>

LEMMA MeterLayouts ==
  ASSUME NEW b
  PROVE  Values(b)!MeterLayout =
             <<Counted(119, 62, MeasurementCount[b]),
               Counted(139, 62, MeasurementCount[b]),
               Counted(144, 62, MeasurementCount[b])>>
<1>1. Values(b)!TElectricityMeter_Measurement = 62
  BY DEF Values!TElectricityMeter_Measurement, Values!Int16, Values!Int32
<1>2. /\ 12 * 8 + 5 * 4 + 3 * 1 = 119 /\ 14 * 8 + 6 * 4 + 3 * 1 = 139
      /\ 14 * 8 + 2 * 2 + 4 * 1 + 6 * 4 = 144
  OBVIOUS
<1> QED
  BY <1>1, <1>2
     DEF Values!MeterLayout, Values!TElectricityMeter_ExtendedValue,
         Values!TElectricityMeter_ExtendedValue_V2,
         Values!TElectricityMeter_ExtendedValue_V3, Values!Counted, Counted,
         Values!Int64, Values!Int32, Values!Int16, Values!Char

LEMMA MeterSizes ==
  ASSUME NEW b, NEW v \in 1 .. 3, NEW k \in Int
  PROVE  /\ Values(b)!SizeWith(Values(b)!MeterLayout[v], k) = MeterFixed[v] + 62 * k
         /\ Values(b)!SizeOf(Values(b)!MeterLayout[v])
                = MeterFixed[v] + 62 * MeasurementCount[b]
         /\ Values(b)!EV_TYPE_ELECTRICITY_METER_MEASUREMENT[v] = MeterTypes[v]
<1>1. Values(b)!EV_TYPE_ELECTRICITY_METER_MEASUREMENT[v] = MeterTypes[v]
  BY DEF Values!EV_TYPE_ELECTRICITY_METER_MEASUREMENT, MeterTypes
<1>2. Values(b)!MeterLayout[v] = Counted(MeterFixed[v], 62, MeasurementCount[b])
  BY MeterLayouts DEF MeterFixed
<1> QED
  BY <1>1, <1>2 DEF Values!SizeWith, Values!SizeOf, Counted

Filling(n, k) == [i \in 1 .. n |-> IF i <= k THEN "filled" ELSE "blank"]
Fresh(v) == [r \in Quants |-> IF Age(r) <= v THEN "filled" ELSE "blank"]

LEMMA MeterIs ==
  ASSUME NEW b, NEW v, NEW k, NEW q
  PROVE  Values(b)!Meter(v, k, q)
             = MeterValue(v, k, Filling(MeasurementCount[b], k), q, Fresh(v))
<1>1. [r \in Values(b)!Quantities |-> IF Values(b)!Since(r) <= v
                                        THEN Values(b)!Filled
                                        ELSE Values(b)!Blank] = Fresh(v)
  BY QuantitiesAre DEF Fresh
<1>2. [i \in 1 .. MeasurementCount[b] |->
          IF i <= k THEN Values(b)!Filled ELSE Values(b)!Blank]
          = Filling(MeasurementCount[b], k)
  BY QuantitiesAre DEF Filling
<1> QED
  BY <1>1, <1>2 DEF Values!Meter, MeterValue

(* What is on the wire of it. *)
MeterOnWire(v, k, q, fields) ==
    [type |-> MeterTypes[v], size |-> MeterFixed[v] + 62 * k,
     value |-> MeterValue(v, k, Filling(k, k), q, fields)]

LEMMA Counts ==
  ASSUME NEW b \in DOMAIN MaxDataSize
  PROVE  /\ MeasurementCount[b] \in 1 .. 5
         /\ MeasurementCount[b] = 5 => ExtendedValueSize[b] = 1024
         /\ MeasurementCount[b] # 5 => /\ MeasurementCount[b] = 1
                                       /\ ExtendedValueSize[b] = 256
         /\ MeasurementCount["linux"] = 5 /\ ExtendedValueSize["linux"] = 1024
         /\ "linux" \in DOMAIN MaxDataSize
  BY DEF MaxDataSize, ExtendedValueSize, MeasurementCount

LEMMA FillingCut ==
  ASSUME NEW n \in 0 .. 5, NEW k \in 0 .. n
  PROVE  SubSeq(Filling(n, k), 1, k) = Filling(k, k)
<1>1. Filling(n, k) \in Seq({"filled", "blank"}) /\ Len(Filling(n, k)) = n
  BY DEF Filling
<1>2. /\ Len(SubSeq(Filling(n, k), 1, k)) = k
      /\ SubSeq(Filling(n, k), 1, k) = [i \in 1 .. k |-> Filling(n, k)[i]]
  BY <1>1
<1> QED
  BY <1>2 DEF Filling

(* What a meter makes of itself to be sent: its kind, size and value.       *)
LEMMA MeterEncodes ==
  ASSUME NEW b \in DOMAIN MaxDataSize, NEW v \in 1 .. 3,
         NEW k \in 0 .. MeasurementCount[b], NEW q, NEW fields
  PROVE  Values(b)!Encoded(MeterValue(v, k, Filling(MeasurementCount[b], k),
                                      q, fields))
             = MeterOnWire(v, k, q, fields)
<1> DEFINE em == MeterValue(v, k, Filling(MeasurementCount[b], k), q, fields)
<1>1. em.kind = "meter" /\ em.version = v /\ em.m_count = k
  BY DEF MeterValue
<1>2. k \in 0 .. 5 /\ k \in Int /\ MeasurementCount[b] \in 0 .. 5
  BY Counts
<1>3. MeterFixed[v] + 62 * k <= ExtendedValueSize[b]
  BY Counts DEF MeterFixed
<1>4. [em EXCEPT !.m = SubSeq(@, 1, k)] = MeterValue(v, k, Filling(k, k), q, fields)
  <2>1. em.m = Filling(MeasurementCount[b], k)
    BY DEF MeterValue
  <2>2. SubSeq(em.m, 1, k) = Filling(k, k)
    BY <1>2, <2>1, FillingCut
  <2>3. [em EXCEPT !.m = Filling(k, k)] = MeterValue(v, k, Filling(k, k), q, fields)
    BY DEF MeterValue
  <2> HIDE DEF em
  <2> QED
    BY <2>2, <2>3
<1>5. MeterFixed[v] + 62 * k \in Nat /\ ExtendedValueSize[b] \in Nat
  BY <1>2, Sizes DEF MeterFixed
<1>6. ~(MeterFixed[v] + 62 * k > ExtendedValueSize[b])
  BY <1>3, <1>5
<1>7. Values(b)!emextended2extended(em) = MeterOnWire(v, k, q, fields)
  <2> DEFINE size == MeterFixed[v] + 62 * k
  <2>1. /\ Values(b)!SizeWith(Values(b)!MeterLayout[em.version], em.m_count) = size
        /\ Values(b)!EV_TYPE_ELECTRICITY_METER_MEASUREMENT[em.version]
               = MeterTypes[v]
    BY <1>1, <1>2, MeterSizes
  <2>2. em.m_count \in 0 .. MeasurementCount[b] /\ ~(size > ExtendedValueSize[b])
    BY <1>1, <1>6
  <2>3. [em EXCEPT !.m = SubSeq(@, 1, em.m_count)]
            = MeterValue(v, k, Filling(k, k), q, fields)
    BY <1>1, <1>4
  <2> HIDE DEF em, size
  <2>4. Values(b)!emextended2extended(em)
            = [type |-> MeterTypes[v], size |-> size,
               value |-> MeterValue(v, k, Filling(k, k), q, fields)]
    BY <2>1, <2>2, <2>3 DEF Values!emextended2extended
  <2> QED
    BY <2>4 DEF MeterOnWire, size
<1> HIDE DEF em
<1> QED
  BY <1>1, <1>7 DEF Values!Encoded, em

(* A conversion it refuses. *)
LEMMA MeterRefused ==
  ASSUME NEW b \in DOMAIN MaxDataSize, NEW v \in 1 .. 3, NEW k, NEW q,
         k \notin 0 .. MeasurementCount[b]
  PROVE  Values(b)!Encoded(Values(b)!Meter(v, k, q)) = Values(b)!Nowhere
<1> DEFINE em == Values(b)!Meter(v, k, q)
<1>1. em.kind = "meter" /\ em.version = v /\ em.m_count = k
  BY MeterIs DEF MeterValue
<1> HIDE DEF em
<1> QED
  BY <1>1 DEF Values!Encoded, Values!emextended2extended, em

LEMMA FillingRead ==
  ASSUME NEW k \in 0 .. 5
  PROVE  [i \in 1 .. 5 |-> IF i <= Len(Filling(k, k)) THEN Filling(k, k)[i]
                                                       ELSE "blank"]
             = Filling(5, k)
<1>1. Len(Filling(k, k)) = k
  BY DEF Filling
<1>2. \A i \in 1 .. k : Filling(k, k)[i] = "filled"
  BY DEF Filling
<1>3. \A i \in 1 .. 5 : (IF i <= k THEN Filling(k, k)[i] ELSE "blank")
                            = IF i <= k THEN "filled" ELSE "blank"
  BY <1>2
<1>4. Filling(5, k) = [i \in 1 .. 5 |-> IF i <= k THEN "filled" ELSE "blank"]
  BY DEF Filling
<1> QED
  BY <1>1, <1>3, <1>4

LEMMA MeterTypesDiffer ==
  ASSUME NEW u \in 1 .. 3, NEW v \in 1 .. 3, MeterTypes[u] = MeterTypes[v]
  PROVE  u = v
<1>1. /\ MeterTypes[1] = "meter V1" /\ MeterTypes[2] = "meter V2"
      /\ MeterTypes[3] = "meter V3"
  BY DEF MeterTypes
<1>2. (u = 1 \/ u = 2 \/ u = 3) /\ (v = 1 \/ v = 2 \/ v = 3)
  OBVIOUS
<1>3. /\ "meter V1" # "meter V2" /\ "meter V1" # "meter V3"
      /\ "meter V2" # "meter V3"
  OBVIOUS
<1>4. MeterTypes[u] = MeterTypes[v]
  OBVIOUS
<1> HIDE DEF MeterTypes
<1>5. CASE u = 1
  BY <1>1, <1>2, <1>3, <1>4, <1>5
<1>6. CASE u = 2
  BY <1>1, <1>2, <1>3, <1>4, <1>6
<1>7. CASE u = 3
  BY <1>1, <1>2, <1>3, <1>4, <1>7
<1> QED
  BY <1>2, <1>5, <1>6, <1>7

(* And what is read of that.                                                *)
LEMMA MeterIsRead ==
  ASSUME NEW u \in 1 .. 3, NEW v \in 1 .. 3, NEW k \in 0 .. 5, NEW q, NEW fields
  PROVE  Values("linux")!extended2emextended(u, MeterOnWire(v, k, q, fields))
             = IF u = v THEN MeterValue(v, k, Filling(5, k), q, fields)
                        ELSE Values("linux")!Refused
<1> DEFINE ev == MeterOnWire(v, k, q, fields)
           size == MeterFixed[v] + 62 * k
           most == MeterFixed[v] + 62 * 5
           held == MeterValue(v, k, Filling(k, k), q, fields)
<1>1. ev.type = MeterTypes[v] /\ ev.size = size /\ ev.value = held
      /\ held.m_count = k /\ held.m = Filling(k, k)
  BY DEF MeterOnWire, MeterValue
<1>2. k \in Int /\ MeasurementCount["linux"] = 5
  <2>1. k \in Int
    OBVIOUS
  <2> QED
    BY <2>1 DEF MeasurementCount
<1>3. Values("linux")!EV_TYPE_ELECTRICITY_METER_MEASUREMENT[u] = MeterTypes[u]
  BY <1>2, MeterSizes
<1>4. size \in 1 .. most
  BY DEF MeterFixed
<1>5. [held EXCEPT !.m = Filling(5, k)] = MeterValue(v, k, Filling(5, k), q, fields)
  BY DEF MeterValue
<1>6. [i \in 1 .. MeasurementCount["linux"] |->
          IF i <= Len(held.m) THEN held.m[i] ELSE Values("linux")!Blank]
          = Filling(5, k)
  BY <1>1, <1>2, FillingRead, QuantitiesAre
<1>7. ~(k > 5)
  OBVIOUS
<1>8. CASE u = v
  <2>1. /\ Values("linux")!SizeWith(Values("linux")!MeterLayout[u], k) = size
        /\ Values("linux")!SizeOf(Values("linux")!MeterLayout[u]) = most
    BY <1>2, <1>8, MeterSizes
  <2>2. [held EXCEPT !.m = [i \in 1 .. MeasurementCount["linux"] |->
                               IF i <= Len(@) THEN @[i]
                                              ELSE Values("linux")!Blank]]
            = MeterValue(v, k, Filling(5, k), q, fields)
    BY <1>5, <1>6
  <2> HIDE DEF ev, size, held, most
  <2>3. ~(\/ ev.type # Values("linux")!EV_TYPE_ELECTRICITY_METER_MEASUREMENT[u]
          \/ ev.size \notin 1 .. Values("linux")!SizeOf(Values("linux")!MeterLayout[u])
          \/ ev.value.m_count > MeasurementCount["linux"]
          \/ ev.size # Values("linux")!SizeWith(Values("linux")!MeterLayout[u],
                                                ev.value.m_count))
    BY <1>1, <1>2, <1>3, <1>4, <1>7, <1>8, <2>1
  <2>4. Values("linux")!extended2emextended(u, ev)
            = MeterValue(v, k, Filling(5, k), q, fields)
    BY <1>1, <2>2, <2>3 DEF Values!extended2emextended
  <2> QED
    BY <1>8, <2>4 DEF ev
<1>9. CASE u # v
  <2>1. ev.type # Values("linux")!EV_TYPE_ELECTRICITY_METER_MEASUREMENT[u]
    BY <1>1, <1>3, <1>9, MeterTypesDiffer
  <2> HIDE DEF ev
  <2>2. Values("linux")!extended2emextended(u, ev) = Values("linux")!Refused
    BY <2>1 DEF Values!extended2emextended
  <2> QED
    BY <1>9, <2>2 DEF ev
<1> QED
  BY <1>8, <1>9

Holdings == [Quants -> {"filled", "blank"}]

(* The fields that came with version u or earlier. *)
Cut(fields, u) == [r \in Quants |-> IF Age(r) <= u THEN fields[r] ELSE "blank"]

LEMMA CutIs ==
  ASSUME NEW fields \in Holdings
  PROVE  /\ [[fields EXCEPT !.balanced = "blank"] EXCEPT !.phases = "blank"]
                = Cut(fields, 1)
         /\ [Cut(fields, 1) EXCEPT !.balanced = fields.balanced] = Cut(fields, 2)
<1>1. Cut(fields, 1) = [r \in Quants |-> IF r = "total" THEN fields[r] ELSE "blank"]
  <2>1. \A r \in Quants : Age(r) <= 1 <=> r = "total"
    BY DEF Quants, Age
  <2> QED
    BY <2>1 DEF Cut
<1>2. Cut(fields, 2) = [r \in Quants |-> IF r = "phases" THEN "blank" ELSE fields[r]]
  <2>1. \A r \in Quants : Age(r) <= 2 <=> r # "phases"
    BY DEF Quants, Age
  <2> QED
    BY <2>1 DEF Cut
<1>3. [[fields EXCEPT !.balanced = "blank"] EXCEPT !.phases = "blank"]
          = Cut(fields, 1)
  BY <1>1 DEF Quants, Holdings
<1>4. [Cut(fields, 1) EXCEPT !.balanced = fields.balanced] = Cut(fields, 2)
  BY <1>1, <1>2 DEF Quants, Holdings
<1> QED
  BY <1>3, <1>4

LEMMA CutHolds == \A fields \in Holdings : \A u : Cut(fields, u) \in Holdings
  BY DEF Holdings, Cut

(* A meter's value of which one field is written. *)
LEMMA MeterWrites ==
  \A v, k, m, q, fields, x :
      /\ [MeterValue(v, k, m, q, fields) EXCEPT !.version = x]
             = MeterValue(x, k, m, q, fields)
      /\ [MeterValue(v, k, m, q, fields) EXCEPT !.measured = x]
             = MeterValue(v, k, m, x, fields)
      /\ [MeterValue(v, k, m, q, fields) EXCEPT !.fields.balanced = x]
             = MeterValue(v, k, m, q, [fields EXCEPT !.balanced = x])
      /\ [MeterValue(v, k, m, q, fields) EXCEPT !.fields.phases = x]
             = MeterValue(v, k, m, q, [fields EXCEPT !.phases = x])
      /\ MeterValue(v, k, m, q, fields).measured = q
      /\ MeterValue(v, k, m, q, fields).fields = fields
<1> SUFFICES ASSUME NEW v, NEW k, NEW m, NEW q, NEW fields, NEW x
             PROVE
      /\ [MeterValue(v, k, m, q, fields) EXCEPT !.version = x]
             = MeterValue(x, k, m, q, fields)
      /\ [MeterValue(v, k, m, q, fields) EXCEPT !.measured = x]
             = MeterValue(v, k, m, x, fields)
      /\ [MeterValue(v, k, m, q, fields) EXCEPT !.fields.balanced = x]
             = MeterValue(v, k, m, q, [fields EXCEPT !.balanced = x])
      /\ [MeterValue(v, k, m, q, fields) EXCEPT !.fields.phases = x]
             = MeterValue(v, k, m, q, [fields EXCEPT !.phases = x])
      /\ MeterValue(v, k, m, q, fields).measured = q
      /\ MeterValue(v, k, m, q, fields).fields = fields
  OBVIOUS
<1>1. [MeterValue(v, k, m, q, fields) EXCEPT !.version = x]
          = MeterValue(x, k, m, q, fields)
  BY DEF MeterValue
<1>2. [MeterValue(v, k, m, q, fields) EXCEPT !.measured = x]
          = MeterValue(v, k, m, x, fields)
  BY DEF MeterValue
<1>3. [MeterValue(v, k, m, q, fields) EXCEPT !.fields.balanced = x]
          = MeterValue(v, k, m, q, [fields EXCEPT !.balanced = x])
  BY DEF MeterValue
<1>4. [MeterValue(v, k, m, q, fields) EXCEPT !.fields.phases = x]
          = MeterValue(v, k, m, q, [fields EXCEPT !.phases = x])
  BY DEF MeterValue
<1>5. MeterValue(v, k, m, q, fields).measured = q
  BY DEF MeterValue
<1>6. MeterValue(v, k, m, q, fields).fields = fields
  BY DEF MeterValue
<1> QED
  BY <1>1, <1>2, <1>3, <1>4, <1>5, <1>6

LEMMA MeterCopies ==
  \A v, w, k, m, q : \A fields \in Holdings :
      Values("linux")!EMEV_COPY(MeterValue(v, k, m, q, fields), w)
          = MeterValue(w, k, m, q, Cut(fields, 1))
<1> SUFFICES
      ASSUME NEW v, NEW w, NEW k, NEW m, NEW q, NEW fields \in Holdings
      PROVE  Values("linux")!EMEV_COPY(MeterValue(v, k, m, q, fields), w)
                 = MeterValue(w, k, m, q, Cut(fields, 1))
  OBVIOUS
<1> DEFINE em == MeterValue(v, k, m, q, fields)
           copy == MeterValue(w, k, m, q, Cut(fields, 1))
<1>1. Values("linux")!Blank = "blank"
  BY DEF Values!Blank
<1>2. \A r, x, y, z :
          [r EXCEPT !.version = x, !.fields.balanced = y, !.fields.phases = z]
              = [[[r EXCEPT !.version = x] EXCEPT !.fields.balanced = y]
                    EXCEPT !.fields.phases = z]
  OBVIOUS
<1>3. Values("linux")!EMEV_COPY(em, w) = copy
  <2>1. Values("linux")!EMEV_COPY(em, w)
           = [[[em EXCEPT !.version = w] EXCEPT !.fields.balanced = "blank"]
                 EXCEPT !.fields.phases = "blank"]
    BY <1>1, <1>2 DEF Values!EMEV_COPY
  <2> DEFINE half == [fields EXCEPT !.balanced = "blank"]
  <2>2. [em EXCEPT !.version = w] = MeterValue(w, k, m, q, fields)
    BY MeterWrites
  <2>3. [MeterValue(w, k, m, q, fields) EXCEPT !.fields.balanced = "blank"]
           = MeterValue(w, k, m, q, half)
    BY DEF MeterValue
  <2>4. [half EXCEPT !.phases = "blank"] = Cut(fields, 1)
    BY CutIs
  <2> HIDE DEF half
  <2>5. [MeterValue(w, k, m, q, half) EXCEPT !.fields.phases = "blank"]
           = MeterValue(w, k, m, q, [half EXCEPT !.phases = "blank"])
    BY DEF MeterValue
  <2> HIDE DEF em
  <2> QED
    BY <2>1, <2>2, <2>3, <2>4, <2>5
<1> QED
  BY <1>3

LEMMA MeterBalances ==
  \A v, w, k, m, q : \A fields \in Holdings :
      Values("linux")!BalancedToo(MeterValue(v, k, m, q, fields), w)
          = MeterValue(w, k, m, q \ {"phases"}, Cut(fields, 2))
<1> SUFFICES
      ASSUME NEW v, NEW w, NEW k, NEW m, NEW q, NEW fields \in Holdings
      PROVE  Values("linux")!BalancedToo(MeterValue(v, k, m, q, fields), w)
                 = MeterValue(w, k, m, q \ {"phases"}, Cut(fields, 2))
  OBVIOUS
<1> DEFINE em == MeterValue(v, k, m, q, fields)
           copy == MeterValue(w, k, m, q, Cut(fields, 1))
<1>1. \A r, x, y :
          [r EXCEPT !.fields.balanced = x, !.measured = y]
              = [[r EXCEPT !.fields.balanced = x] EXCEPT !.measured = y]
  OBVIOUS
<1>2. Values("linux")!EMEV_COPY(em, w) = copy
  BY MeterCopies
<1>3. Values("linux")!BalancedToo(em, w)
          = MeterValue(w, k, m, q \ {"phases"}, Cut(fields, 2))
  <2>1. em.fields = fields /\ copy.measured = q
    BY MeterWrites
  <2>2. Values("linux")!BalancedToo(em, w)
           = [[copy EXCEPT !.fields.balanced = fields.balanced]
                 EXCEPT !.measured = q \ {"phases"}]
    BY <1>1, <1>2, <2>1 DEF Values!BalancedToo
  <2>3. [copy EXCEPT !.fields.balanced = fields.balanced]
           = MeterValue(w, k, m, q,
                        [Cut(fields, 1) EXCEPT !.balanced = fields.balanced])
    BY DEF MeterValue
  <2>4. [MeterValue(w, k, m, q, Cut(fields, 2)) EXCEPT !.measured = q \ {"phases"}]
           = MeterValue(w, k, m, q \ {"phases"}, Cut(fields, 2))
    BY DEF MeterValue
  <2> QED
    BY <2>2, <2>3, <2>4, CutIs
<1> QED
  BY <1>3

(* The conversions between the first and the second version.                *)
LEMMA MeterConverts ==
  \A k, m, q : \A fields \in Holdings :
      /\ Values("linux")!srpc_evtool_emev_v1to2(MeterValue(1, k, m, q, fields))
             = MeterValue(2, k, m, q \ {"balanced"}, Cut(fields, 1))
      /\ Values("linux")!srpc_evtool_emev_v2to1(MeterValue(2, k, m, q, fields))
             = MeterValue(1, k, m, q \ {"balanced"}, Cut(fields, 1))
<1> SUFFICES
      ASSUME NEW k, NEW m, NEW q, NEW fields \in Holdings
      PROVE
        /\ Values("linux")!srpc_evtool_emev_v1to2(MeterValue(1, k, m, q, fields))
               = MeterValue(2, k, m, q \ {"balanced"}, Cut(fields, 1))
        /\ Values("linux")!srpc_evtool_emev_v2to1(MeterValue(2, k, m, q, fields))
               = MeterValue(1, k, m, q \ {"balanced"}, Cut(fields, 1))
  OBVIOUS
<1> DEFINE copy(w) == MeterValue(w, k, m, q, Cut(fields, 1))
<1>1. \A w : copy(w).measured = q
  BY DEF MeterValue
<1>2. \A w : [copy(w) EXCEPT !.measured = q \ {"balanced"}]
               = MeterValue(w, k, m, q \ {"balanced"}, Cut(fields, 1))
  BY DEF MeterValue
<1>3. Values("linux")!EMEV_COPY(MeterValue(1, k, m, q, fields), 2) = copy(2)
  BY MeterCopies
<1>4. Values("linux")!EMEV_COPY(MeterValue(2, k, m, q, fields), 1) = copy(1)
  BY MeterCopies
<1> HIDE DEF copy
<1>5. Values("linux")!srpc_evtool_emev_v1to2(MeterValue(1, k, m, q, fields))
          = MeterValue(2, k, m, q \ {"balanced"}, Cut(fields, 1))
  BY <1>1, <1>2, <1>3 DEF Values!srpc_evtool_emev_v1to2
<1>6. Values("linux")!srpc_evtool_emev_v2to1(MeterValue(2, k, m, q, fields))
          = MeterValue(1, k, m, q \ {"balanced"}, Cut(fields, 1))
  BY <1>1, <1>2, <1>4 DEF Values!srpc_evtool_emev_v2to1
<1> QED
  BY <1>5, <1>6

LEMMA MeterConvertsTo3 ==
  \A k, m, q : \A fields \in Holdings :
      /\ Values("linux")!srpc_evtool_emev_v2to3(MeterValue(2, k, m, q, fields))
             = MeterValue(3, k, m, q \ {"phases"}, Cut(fields, 2))
      /\ Values("linux")!srpc_evtool_emev_v3to2(MeterValue(3, k, m, q, fields))
             = MeterValue(2, k, m, q \ {"phases"}, Cut(fields, 2))
<1> SUFFICES
      ASSUME NEW k, NEW m, NEW q, NEW fields \in Holdings
      PROVE
        /\ Values("linux")!srpc_evtool_emev_v2to3(MeterValue(2, k, m, q, fields))
               = MeterValue(3, k, m, q \ {"phases"}, Cut(fields, 2))
        /\ Values("linux")!srpc_evtool_emev_v3to2(MeterValue(3, k, m, q, fields))
               = MeterValue(2, k, m, q \ {"phases"}, Cut(fields, 2))
  OBVIOUS
<1>1. Values("linux")!BalancedToo(MeterValue(2, k, m, q, fields), 3)
          = MeterValue(3, k, m, q \ {"phases"}, Cut(fields, 2))
  BY MeterBalances
<1>2. Values("linux")!BalancedToo(MeterValue(3, k, m, q, fields), 2)
          = MeterValue(2, k, m, q \ {"phases"}, Cut(fields, 2))
  BY MeterBalances
<1> QED
  BY <1>1, <1>2
     DEF Values!srpc_evtool_emev_v2to3, Values!srpc_evtool_emev_v3to2

(* What a meter's value tells. *)
MeterTells(k, q, v) ==
    [m |-> Filling(k, k), told |-> {<<r, "filled">> : r \in {p \in q : Age(p) <= v}}]

Holds(q, fields, u) == \A r \in q : Age(r) <= u => fields[r] = "filled"

LEMMA MeterTold ==
  ASSUME NEW b, NEW v, NEW k, NEW m, NEW q \in SUBSET Quants, NEW fields, NEW u,
         SubSeq(m, 1, k) = Filling(k, k), Holds(q, fields, u)
  PROVE  Values(b)!Tells(MeterValue(v, k, m, q, fields), u) = MeterTells(k, q, u)
<1> DEFINE em == MeterValue(v, k, m, q, fields)
<1>1. em.kind = "meter" /\ em.m = m /\ em.m_count = k
      /\ em.measured = q /\ em.fields = fields
  BY DEF MeterValue
<1>2. SubSeq(em.m, 1, em.m_count) = Filling(k, k)
  BY <1>1
<1>3. {r \in em.measured : Values(b)!Since(r) <= u} = {p \in q : Age(p) <= u}
  BY <1>1, QuantitiesAre
<1>4. {<<r, em.fields[r]>> : r \in {p \in q : Age(p) <= u}}
          = {<<r, "filled">> : r \in {p \in q : Age(p) <= u}}
  BY <1>1 DEF Holds
<1> HIDE DEF em
<1> QED
  BY <1>1, <1>2, <1>3, <1>4 DEF Values!Tells, MeterTells, em

LEMMA MeterIsNoRefusal ==
  \A v, k, m, q, fields : MeterValue(v, k, m, q, fields) # Values("linux")!Refused
<1> SUFFICES ASSUME NEW v, NEW k, NEW m, NEW q, NEW fields
             PROVE  MeterValue(v, k, m, q, fields) # Values("linux")!Refused
  OBVIOUS
<1>1. MeterValue(v, k, m, q, fields).kind = "meter"
  BY DEF MeterValue
<1>2. Values("linux")!Refused.kind = "refused"
  BY DEF Values!Refused
<1>3. "meter" # "refused"
  OBVIOUS
<1> QED
  BY <1>1, <1>2, <1>3, Zenon

(* A value of any version, as it is read. *)
ReadAs(v, k, q, em) ==
    \E p \in SUBSET Quants, told \in Holdings :
        /\ em = MeterValue(3, k, Filling(5, k), p, told)
        /\ p = {r \in q : Age(r) <= v}
        /\ \A r \in p : told[r] = "filled"

(* What was read is converted up to the third version.                      *)
LEMMA MeterLatest ==
  ASSUME NEW v \in 1 .. 3, NEW k \in 0 .. 5, NEW q \in SUBSET Quants,
         NEW fields \in Holdings,
         Holds(Quants, fields, v)
  PROVE  ReadAs(v, k, q, Values("linux")!srpc_evtool_extended2emextended_latest(
                             MeterOnWire(v, k, q, fields)))
<1> DEFINE ev == MeterOnWire(v, k, q, fields)
           m == Filling(5, k)
           read(u) == Values("linux")!extended2emextended(u, ev)
           latest == Values("linux")!srpc_evtool_extended2emextended_latest(ev)
<1>1. \A u \in 1 .. 3 : read(u) = IF u = v THEN MeterValue(v, k, m, q, fields)
                                           ELSE Values("linux")!Refused
  BY MeterIsRead
<1>2. MeterValue(v, k, m, q, fields) # Values("linux")!Refused
  BY MeterIsNoRefusal
<1> HIDE DEF ev, m
<1>3. CASE v = 3
  <2>1. latest = MeterValue(3, k, m, q, fields)
    <3>1. read(3) = MeterValue(3, k, m, q, fields) /\ read(3) # Values("linux")!Refused
      BY <1>1, <1>2, <1>3
    <3> QED
      BY <3>1 DEF Values!srpc_evtool_extended2emextended_latest
  <2>2. q = {r \in q : Age(r) <= v}
    BY <1>3 DEF Quants, Age
  <2>3. \A r \in q : fields[r] = "filled"
    BY <2>2 DEF Holds
  <2> HIDE DEF latest
  <2> QED
    BY <2>1, <2>2, <2>3 DEF latest, ev, m, ReadAs
<1>4. CASE v = 2
  <2>1. latest = MeterValue(3, k, m, q \ {"phases"}, Cut(fields, 2))
    <3>1. /\ read(3) = Values("linux")!Refused
          /\ read(2) = MeterValue(2, k, m, q, fields)
          /\ read(2) # Values("linux")!Refused
      BY <1>1, <1>2, <1>4
    <3>2. latest = Values("linux")!srpc_evtool_emev_v2to3(
                       MeterValue(2, k, m, q, fields))
      BY <3>1 DEF Values!srpc_evtool_extended2emextended_latest
    <3> QED
      BY <3>2, MeterConvertsTo3
  <2>2. q \ {"phases"} = {r \in q : Age(r) <= v}
    <3>1. \A r \in Quants : Age(r) <= v <=> r # "phases"
      BY <1>4 DEF Quants, Age
    <3> QED
      BY <3>1
  <2>3. \A r \in q \ {"phases"} : Cut(fields, 2)[r] = "filled"
    BY <1>4, <2>2 DEF Cut, Holds
  <2>4. Cut(fields, 2) \in Holdings /\ q \ {"phases"} \in SUBSET Quants
    BY CutHolds
  <2> HIDE DEF latest
  <2> QED
    BY <2>1, <2>2, <2>3, <2>4 DEF latest, ev, m, ReadAs
<1>5. CASE v = 1
  <2> DEFINE p == (q \ {"balanced"}) \ {"phases"}
             told == Cut(Cut(fields, 1), 2)
  <2>1. latest = MeterValue(3, k, m, p, told)
    <3>1. /\ read(3) = Values("linux")!Refused
          /\ read(2) = Values("linux")!Refused
          /\ read(1) = MeterValue(1, k, m, q, fields)
          /\ read(1) # Values("linux")!Refused
      BY <1>1, <1>2, <1>5
    <3>2. latest = Values("linux")!srpc_evtool_emev_v2to3(
                       Values("linux")!srpc_evtool_emev_v1to2(
                           MeterValue(1, k, m, q, fields)))
      BY <3>1 DEF Values!srpc_evtool_extended2emextended_latest
    <3>3. Cut(fields, 1) \in Holdings
      BY CutHolds
    <3>4. Values("linux")!srpc_evtool_emev_v1to2(MeterValue(1, k, m, q, fields))
              = MeterValue(2, k, m, q \ {"balanced"}, Cut(fields, 1))
      BY MeterConverts
    <3>5. Values("linux")!srpc_evtool_emev_v2to3(
              MeterValue(2, k, m, q \ {"balanced"}, Cut(fields, 1)))
              = MeterValue(3, k, m, p, told)
      BY <3>3, MeterConvertsTo3
    <3> QED
      BY <3>2, <3>4, <3>5
  <2>2. p = {r \in q : Age(r) <= v}
    <3>1. \A r \in Quants : Age(r) <= v <=> r \notin {"balanced", "phases"}
      BY <1>5 DEF Quants, Age
    <3> QED
      BY <3>1
  <2>3. \A r \in p : told[r] = "filled"
    <3>1. \A r \in p : r \in Quants /\ Age(r) <= 1 /\ Age(r) <= 2
      BY <1>5, <2>2 DEF Quants, Age
    <3> QED
      BY <1>5, <3>1 DEF Cut, Holds
  <2>4. told \in Holdings /\ p \in SUBSET Quants
    BY CutHolds
  <2> HIDE DEF latest, p, told
  <2> QED
    BY <2>1, <2>2, <2>3, <2>4 DEF latest, ev, m, ReadAs
<1> QED
  BY <1>3, <1>4, <1>5

(* Together: what the reader finds in a value of any version.               *)
LEMMA MeterDecodes ==
  ASSUME NEW v \in 1 .. 3, NEW k \in 0 .. 5, NEW q \in SUBSET Quants,
         NEW fields \in Holdings,
         Holds(Quants, fields, v)
  PROVE  LET read == Values("linux")!Decoded(MeterOnWire(v, k, q, fields))
         IN  /\ read # Values("linux")!Refused
             /\ Values("linux")!Tells(read, 3) = MeterTells(k, q, v)
<1> DEFINE ev == MeterOnWire(v, k, q, fields)
           latest == Values("linux")!srpc_evtool_extended2emextended_latest(ev)
<1>1. PICK p \in SUBSET Quants, told \in Holdings :
          /\ latest = MeterValue(3, k, Filling(5, k), p, told)
          /\ p = {r \in q : Age(r) <= v}
          /\ \A r \in p : told[r] = "filled"
  <2>1. ReadAs(v, k, q, latest)
    BY MeterLatest
  <2> HIDE DEF latest
  <2> QED
    BY <2>1 DEF ReadAs
<1>2. latest # Values("linux")!Refused
  BY <1>1, MeterIsNoRefusal
<1>3. ev.type = MeterTypes[v]
  BY DEF MeterOnWire
<1>4. MeterTypes[v] \notin {"other", "thermostat", "counter"}
  <2>1. /\ MeterTypes[1] = "meter V1" /\ MeterTypes[2] = "meter V2"
        /\ MeterTypes[3] = "meter V3"
    BY DEF MeterTypes
  <2>2. v = 1 \/ v = 2 \/ v = 3
    OBVIOUS
  <2> HIDE DEF MeterTypes
  <2>3. CASE v = 1
    BY <2>1, <2>3
  <2>4. CASE v = 2
    BY <2>1, <2>4
  <2>5. CASE v = 3
    BY <2>1, <2>5
  <2> QED
    BY <2>2, <2>3, <2>4, <2>5
<1> HIDE DEF ev, latest
<1>5. /\ Values("linux")!srpc_evtool_v1_extended2thermostatextended(ev)
             = Values("linux")!Refused
      /\ Values("linux")!srpc_evtool_v1_extended2icextended(ev)
             = Values("linux")!Refused
  BY <1>3, <1>4
     DEF Values!srpc_evtool_v1_extended2thermostatextended,
         Values!srpc_evtool_v1_extended2icextended,
         Values!EV_TYPE_THERMOSTAT_DETAILS_V1,
         Values!EV_TYPE_IMPULSE_COUNTER_DETAILS_V1
<1>6. Values("linux")!Decoded(ev) = latest
  <2>1. {Values("linux")!srpc_evtool_extended2emextended_latest(ev),
         Values("linux")!srpc_evtool_v1_extended2thermostatextended(ev),
         Values("linux")!srpc_evtool_v1_extended2icextended(ev)}
             \ {Values("linux")!Refused} = {latest}
    BY <1>2, <1>5 DEF latest
  <2>2. (CHOOSE reading \in {latest} : TRUE) = latest
    OBVIOUS
  <2>3. ev.type # Values("linux")!EV_TYPE_OTHER
    BY <1>3, <1>4 DEF Values!EV_TYPE_OTHER
  <2> QED
    BY <2>1, <2>2, <2>3 DEF Values!Decoded
<1>7. Values("linux")!Tells(latest, 3) = MeterTells(k, p, 3)
  <2>1. Values("linux")!Tells(MeterValue(3, k, Filling(5, k), p, told), 3)
            = MeterTells(k, p, 3)
    <3>1. Holds(p, told, 3)
      BY <1>1 DEF Holds
    <3>2. SubSeq(Filling(5, k), 1, k) = Filling(k, k)
      <4>1. 5 \in 0 .. 5
        OBVIOUS
      <4> QED
        BY <4>1, FillingCut
    <3>3. p \in SUBSET Quants
      OBVIOUS
    <3> QED
      BY <3>1, <3>2, <3>3, MeterTold
  <2> QED
    BY <1>1, <2>1
<1>8. MeterTells(k, p, 3) = MeterTells(k, q, v)
  <2>1. {r \in p : Age(r) <= 3} = {r \in q : Age(r) <= v}
    BY <1>1 DEF Quants, Age
  <2> QED
    BY <2>1 DEF MeterTells
<1> QED
  BY <1>2, <1>6, <1>7, <1>8 DEF ev

LEMMA MeterReads ==
  ASSUME NEW v \in 1 .. 3, NEW k \in 0 .. 5, NEW q \in SUBSET Quants,
         NEW fields \in Holdings, Holds(Quants, fields, v),
         NEW w, NEW m, NEW p \in SUBSET Quants, NEW told,
         SubSeq(m, 1, k) = Filling(k, k), Holds(p, told, v),
         MeterTells(k, p, v) = MeterTells(k, q, v)
  PROVE  Reads(MeterValue(w, k, m, p, told), MeterOnWire(v, k, q, fields), v)
<1> DEFINE read == Values("linux")!Decoded(MeterOnWire(v, k, q, fields))
           source == MeterValue(w, k, m, p, told)
<1>1. read # Values("linux")!Refused
      /\ Values("linux")!Tells(read, 3) = MeterTells(k, q, v)
  BY MeterDecodes
<1>2. Values("linux")!Tells(source, v) = MeterTells(k, p, v)
  BY MeterTold
<1> HIDE DEF source
<1> QED
  BY <1>1, <1>2 DEF Reads, source

LEMMA FreshHolds ==
  ASSUME NEW v \in 1 .. 3
  PROVE  /\ Fresh(v) \in Holdings
         /\ \A q \in SUBSET Quants : Holds(q, Fresh(v), v)
<1>1. Fresh(v) \in Holdings
  BY DEF Fresh, Holdings
<1>2. \A q \in SUBSET Quants : Holds(q, Fresh(v), v)
  BY DEF Fresh, Holds
<1> QED
  BY <1>1, <1>2

(* A meter of a device tells what was measured.                             *)
LEMMA DeviceMeterTells ==
  ASSUME NEW b \in DOMAIN MaxDataSize, NEW v \in 1 .. 3,
         NEW k \in 0 .. MeasurementCount[b], NEW q \in SUBSET Quants
  PROVE  LET source == Values(b)!Meter(v, k, q)
         IN  /\ Values(b)!Encoded(source) = MeterOnWire(v, k, q, Fresh(v))
             /\ Reads(source, MeterOnWire(v, k, q, Fresh(v)), v)
             /\ source.kind = "meter" /\ source.version = v
<1> DEFINE n == MeasurementCount[b]
<1>1. n \in 0 .. 5 /\ k \in 0 .. 5
  BY Counts
<1>2. Values(b)!Meter(v, k, q) = MeterValue(v, k, Filling(n, k), q, Fresh(v))
  BY MeterIs
<1>3. Values(b)!Encoded(MeterValue(v, k, Filling(n, k), q, Fresh(v)))
          = MeterOnWire(v, k, q, Fresh(v))
  BY MeterEncodes
<1>4. SubSeq(Filling(n, k), 1, k) = Filling(k, k)
  BY <1>1, FillingCut
<1>5. /\ Fresh(v) \in Holdings /\ Holds(Quants, Fresh(v), v) /\ Holds(q, Fresh(v), v)
  <2>1. Quants \in SUBSET Quants
    OBVIOUS
  <2> QED
    BY <2>1, FreshHolds
<1> HIDE DEF n
<1>6. Reads(MeterValue(v, k, Filling(n, k), q, Fresh(v)),
            MeterOnWire(v, k, q, Fresh(v)), v)
  BY <1>1, <1>4, <1>5, MeterReads
<1>7. MeterValue(v, k, Filling(n, k), q, Fresh(v)).kind = "meter"
      /\ MeterValue(v, k, Filling(n, k), q, Fresh(v)).version = v
  BY DEF MeterValue
<1> QED
  BY <1>2, <1>3, <1>6, <1>7 DEF n

(* A server's meter in an older version. *)
LEMMA ServerMeterTells ==
  ASSUME NEW w \in 1 .. 3, NEW k \in 0 .. 5, NEW q \in SUBSET Quants
  PROVE  LET source == Values("linux")!Meter(3, k, q)
             sent == Values("linux")!Encoded(Values("linux")!InVersion(source, w))
         IN  /\ Reads(source, sent, w)
             /\ source.kind = "meter"
             /\ sent.type = MeterTypes[w] /\ sent.size = MeterFixed[w] + 62 * k
<1> DEFINE m == Filling(5, k)
           source == Values("linux")!Meter(3, k, q)
<1>1. source = MeterValue(3, k, m, q, Fresh(3)) /\ source.kind = "meter"
  <2>1. source = MeterValue(3, k, m, q, Fresh(3))
    BY MeterIs DEF MeasurementCount
  <2> QED
    BY <2>1 DEF MeterValue
<1>2. SubSeq(m, 1, k) = Filling(k, k)
  <2>1. 5 \in 0 .. 5
    OBVIOUS
  <2> QED
    BY <2>1, FillingCut
<1>3. Fresh(3) \in Holdings /\ Holds(q, Fresh(3), w) /\ Holds(Quants, Fresh(3), w)
  <2>1. Fresh(3) \in Holdings
    BY DEF Fresh, Holdings
  <2>2. \A r \in Quants : Fresh(3)[r] = "filled"
    BY DEF Fresh, Quants, Age
  <2> QED
    BY <2>1, <2>2 DEF Holds
<1> HIDE DEF m, source
<1>4. \E p \in SUBSET Quants, told \in Holdings :
          /\ Values("linux")!InVersion(source, w) = MeterValue(w, k, m, p, told)
          /\ Holds(Quants, told, w)
          /\ \A r \in Quants : Age(r) <= w => (r \in p <=> r \in q)
  <2>1. CASE w = 3
    <3>1. Values("linux")!InVersion(source, w) = MeterValue(w, k, m, q, Fresh(3))
      BY <1>1, <2>1 DEF Values!InVersion
    <3> QED
      BY <1>3, <3>1
  <2> DEFINE p2 == q \ {"phases"}
             told2 == Cut(Fresh(3), 2)
             p1 == p2 \ {"balanced"}
             told1 == Cut(told2, 1)
  <2>2. /\ told2 \in Holdings /\ told1 \in Holdings
        /\ p2 \in SUBSET Quants /\ p1 \in SUBSET Quants
    BY <1>3, CutHolds
  <2>3. Values("linux")!srpc_evtool_emev_v3to2(source)
            = MeterValue(2, k, m, p2, told2)
    BY <1>1, <1>3, MeterConvertsTo3
  <2>4. /\ \A r \in Quants : Age(r) <= 2 <=> r # "phases"
        /\ \A r \in Quants : Age(r) <= 1 <=> r \notin {"balanced", "phases"}
        /\ \A r \in Quants : Age(r) <= 1 => Age(r) <= 2
    BY DEF Quants, Age
  <2>5. CASE w = 2
    <3>1. Values("linux")!InVersion(source, w) = MeterValue(w, k, m, p2, told2)
      BY <2>3, <2>5 DEF Values!InVersion
    <3>2. Holds(Quants, told2, w)
      BY <1>3, <2>5 DEF Holds, Cut
    <3>3. \A r \in Quants : Age(r) <= w => (r \in p2 <=> r \in q)
      BY <2>4, <2>5
    <3> HIDE DEF p2, told2
    <3> QED
      BY <2>2, <3>1, <3>2, <3>3
  <2>6. CASE w = 1
    <3>1. Values("linux")!srpc_evtool_emev_v2to1(MeterValue(2, k, m, p2, told2))
              = MeterValue(1, k, m, p1, told1)
      <4>1. told2 \in Holdings
        BY <2>2
      <4> HIDE DEF p2, told2
      <4>2. \A h \in Holdings :
                Values("linux")!srpc_evtool_emev_v2to1(MeterValue(2, k, m, p2, h))
                    = MeterValue(1, k, m, p2 \ {"balanced"}, Cut(h, 1))
        BY MeterConverts
      <4> QED
        BY <4>1, <4>2
    <3>2. Values("linux")!InVersion(source, w) = MeterValue(w, k, m, p1, told1)
      BY <2>3, <2>6, <3>1 DEF Values!InVersion
    <3>3. Holds(Quants, told1, w)
      BY <1>3, <2>4, <2>6 DEF Holds, Cut
    <3>4. \A r \in Quants : Age(r) <= w => (r \in p1 <=> r \in q)
      BY <2>4, <2>6
    <3> HIDE DEF p1, told1
    <3> QED
      BY <2>2, <3>2, <3>3, <3>4
  <2> QED
    BY <2>1, <2>5, <2>6
<1>5. PICK p \in SUBSET Quants, told \in Holdings :
          /\ Values("linux")!InVersion(source, w) = MeterValue(w, k, m, p, told)
          /\ Holds(Quants, told, w)
          /\ \A r \in Quants : Age(r) <= w => (r \in p <=> r \in q)
  BY <1>4
<1>6. Values("linux")!Encoded(MeterValue(w, k, m, p, told))
          = MeterOnWire(w, k, p, told)
  <2>1. /\ "linux" \in DOMAIN MaxDataSize /\ MeasurementCount["linux"] = 5
        /\ k \in 0 .. MeasurementCount["linux"]
    BY DEF MaxDataSize, MeasurementCount
  <2> QED
    BY <2>1, MeterEncodes DEF m
<1>7. MeterTells(k, q, w) = MeterTells(k, p, w)
  <2>1. {r \in q : Age(r) <= w} = {r \in p : Age(r) <= w}
    BY <1>5
  <2> QED
    BY <2>1 DEF MeterTells
<1>8. Reads(source, MeterOnWire(w, k, p, told), w)
  <2>1. Reads(MeterValue(3, k, m, q, Fresh(3)), MeterOnWire(w, k, p, told), w)
    BY <1>2, <1>3, <1>5, <1>7, MeterReads
  <2> QED
    BY <1>1, <2>1
<1>9. MeterOnWire(w, k, p, told).type = MeterTypes[w]
      /\ MeterOnWire(w, k, p, told).size = MeterFixed[w] + 62 * k
  BY DEF MeterOnWire
<1> QED
  BY <1>1, <1>5, <1>6, <1>8, <1>9 DEF source

-----------------------------------------------------------------------------
(***************************************************************************)
(* Thermostats, counters and the rest                                      *)
(***************************************************************************)

(* What is no meter is not read as one.                                     *)
LEMMA NoMeter ==
  ASSUME NEW ev, ev.type \in {"thermostat", "counter", "other"}
  PROVE  Values("linux")!srpc_evtool_extended2emextended_latest(ev)
             = Values("linux")!Refused
<1>1. \A u \in 1 .. 3 :
          ev.type # Values("linux")!EV_TYPE_ELECTRICITY_METER_MEASUREMENT[u]
  <2>1. /\ MeterTypes[1] = "meter V1" /\ MeterTypes[2] = "meter V2"
        /\ MeterTypes[3] = "meter V3"
    BY DEF MeterTypes
  <2>2. Values("linux")!EV_TYPE_ELECTRICITY_METER_MEASUREMENT
            = [u \in 1 .. 3 |-> MeterTypes[u]]
    BY DEF Values!EV_TYPE_ELECTRICITY_METER_MEASUREMENT, MeterTypes
  <2>3. /\ ev.type # "meter V1" /\ ev.type # "meter V2" /\ ev.type # "meter V3"
    OBVIOUS
  <2>4. \A u \in 1 .. 3 : u = 1 \/ u = 2 \/ u = 3
    OBVIOUS
  <2> HIDE DEF MeterTypes
  <2> QED
    BY <2>1, <2>2, <2>3, <2>4
<1>2. \A u \in 1 .. 3 :
          Values("linux")!extended2emextended(u, ev) = Values("linux")!Refused
  BY <1>1 DEF Values!extended2emextended
<1> QED
  BY <1>2 DEF Values!srpc_evtool_extended2emextended_latest

PartNames == <<"MeasuredTemperatures", "PresetTemperatures", "Flags", "Values",
               "Time", "Schedule">>
PartSizes == <<20, 20, 16, 16, 4, 169>>
ThermostatValue(F, parts) == [kind |-> "thermostat", Fields |-> F, parts |-> parts]

LEMMA PartsAre ==
  ASSUME NEW b
  PROVE  /\ Values(b)!Parts = PartNames /\ Values(b)!PartSize = PartSizes
         /\ DOMAIN PartNames = 1 .. 6
         /\ PartSizes \in Seq(Nat) /\ Len(PartSizes) = 6
         /\ Values(b)!TThermostat_ExtendedValue = 246
         /\ Values(b)!Char = 1
<1>1. Values(b)!Parts = PartNames
  BY DEF Values!Parts, PartNames
<1>2. Values(b)!PartSize = PartSizes
  <2>1. 10 * 2 = 20 /\ 8 * 2 = 16 /\ 4 * 1 = 4 /\ 169 * 1 = 169
    OBVIOUS
  <2> QED
    BY <2>1 DEF Values!PartSize, PartSizes, Values!Int16, Values!TThermostat_Time,
                Values!TThermostat_Schedule, Values!Char
<1>3. DOMAIN PartNames = 1 .. 6
  BY DEF PartNames
<1>4. PartSizes \in Seq(Nat) /\ Len(PartSizes) = 6
  BY DEF PartSizes
<1>5. Values(b)!TThermostat_ExtendedValue = 246 /\ Values(b)!Char = 1
  BY DEF Values!TThermostat_ExtendedValue, Values!Int16, Values!TThermostat_Time,
         Values!TThermostat_Schedule, Values!Char
<1> QED
  BY <1>1, <1>2, <1>3, <1>4, <1>5

LEMMA FirstFew == \A S : \A s \in Seq(S) : \A i \in 0 .. Len(s) :
                   /\ SubSeq(s, 1, i) \in Seq(S) /\ Len(SubSeq(s, 1, i)) = i
                   /\ \A j \in 1 .. i : SubSeq(s, 1, i)[j] = s[j]
<1> SUFFICES ASSUME NEW S, NEW s \in Seq(S), NEW i \in 0 .. Len(s)
             PROVE  /\ SubSeq(s, 1, i) \in Seq(S) /\ Len(SubSeq(s, 1, i)) = i
                    /\ \A j \in 1 .. i : SubSeq(s, 1, i)[j] = s[j]
  OBVIOUS
<1>1. CASE i \in 1 .. Len(s)
  BY <1>1, Prefix, Zenon
<1>2. CASE i = 0
  BY <1>2
<1>3. i \in 1 .. Len(s) \/ i = 0
  OBVIOUS
<1> QED
  BY <1>1, <1>2, <1>3

LEMMA PartsFit ==
  ASSUME NEW b, NEW n \in 0 .. 6
  PROVE  Values(b)!Total(SubSeq(PartSizes, 1, n)) \in 0 .. 245
<1>1. PartSizes \in Seq(Nat) /\ Len(PartSizes) = 6
  BY PartsAre
<1>2. \A i \in 0 .. 6 : Sums(PartSizes)[i] \in 0 .. 245
  <2>1. /\ Sums(PartSizes)[0] = 0
        /\ \A i \in 1 .. 6 : Sums(PartSizes)[i] = Sums(PartSizes)[i - 1] + PartSizes[i]
    BY <1>1, SumsAre
  <2>2. /\ PartSizes[1] = 20 /\ PartSizes[2] = 20 /\ PartSizes[3] = 16
        /\ PartSizes[4] = 16 /\ PartSizes[5] = 4 /\ PartSizes[6] = 169
    BY DEF PartSizes
  <2>3. /\ Sums(PartSizes)[1] = Sums(PartSizes)[0] + PartSizes[1]
        /\ Sums(PartSizes)[2] = Sums(PartSizes)[1] + PartSizes[2]
        /\ Sums(PartSizes)[3] = Sums(PartSizes)[2] + PartSizes[3]
        /\ Sums(PartSizes)[4] = Sums(PartSizes)[3] + PartSizes[4]
        /\ Sums(PartSizes)[5] = Sums(PartSizes)[4] + PartSizes[5]
        /\ Sums(PartSizes)[6] = Sums(PartSizes)[5] + PartSizes[6]
    BY <2>1
  <2>4. /\ Sums(PartSizes)[0] = 0 /\ Sums(PartSizes)[1] = 20
        /\ Sums(PartSizes)[2] = 40 /\ Sums(PartSizes)[3] = 56
        /\ Sums(PartSizes)[4] = 72 /\ Sums(PartSizes)[5] = 76
        /\ Sums(PartSizes)[6] = 245
    BY <2>1, <2>2, <2>3
  <2> QED
    BY <2>4
<1> DEFINE t == SubSeq(PartSizes, 1, n)
<1>3. /\ t \in Seq(Nat) /\ Len(t) = n
      /\ \A i \in 1 .. n : t[i] = PartSizes[i]
  <2>1. n \in 0 .. Len(PartSizes)
    BY <1>1
  <2> QED
    BY <1>1, <2>1, FirstFew, Zenon
<1> HIDE DEF t
<1>4. Sums(t)[n] = Sums(PartSizes)[n]
  <2>1. Len(t) <= Len(PartSizes) /\ n \in 0 .. Len(t)
    BY <1>1, <1>3
  <2>2. \A i \in 1 .. Len(t) : t[i] = PartSizes[i]
    BY <1>3
  <2> QED
    BY <1>1, <1>3, <2>1, <2>2, SumsAgree
<1>5. Values(b)!Total(t) = Sums(t)[n]
  BY <1>3, TotalIsSum
<1> QED
  BY <1>2, <1>4, <1>5 DEF t

LEMMA LastIsLast ==
  ASSUME NEW S \in SUBSET (1 .. 6)
  PROVE  LET last == CHOOSE i \in {0} \cup S : \A j \in S : j <= i
         IN  last \in 0 .. 6 /\ \A j \in S : j <= last
<1>1. \E i \in {0} \cup S : \A j \in S : j <= i
  <2>1. CASE 6 \in S
    BY <2>1
  <2>2. CASE 6 \notin S /\ 5 \in S
    BY <2>2
  <2>3. CASE 6 \notin S /\ 5 \notin S /\ 4 \in S
    BY <2>3
  <2>4. CASE 6 \notin S /\ 5 \notin S /\ 4 \notin S /\ 3 \in S
    BY <2>4
  <2>5. CASE 6 \notin S /\ 5 \notin S /\ 4 \notin S /\ 3 \notin S /\ 2 \in S
    BY <2>5
  <2>6. CASE S \subseteq {1}
    BY <2>6
  <2> QED
    BY <2>1, <2>2, <2>3, <2>4, <2>5, <2>6
<1>2. \A i \in {0} \cup S : i \in 0 .. 6
  OBVIOUS
<1> DEFINE last == CHOOSE i \in {0} \cup S : \A j \in S : j <= i
<1>3. last \in {0} \cup S /\ \A j \in S : j <= last
  BY <1>1
<1> QED
  BY <1>2, <1>3

(* A thermostat is cut after its last part in use; the rest is read as      *)
(* blank.                                                                   *)
LEMMA ThermostatTells ==
  ASSUME NEW b, NEW F
  PROVE  LET source == Values(b)!Thermostat(F)
             ev == Values(b)!Encoded(source)
         IN  /\ \A u : Reads(source, ev, u)
             /\ source.kind = "thermostat"
             /\ ev.type = "thermostat" /\ ev.size \in 1 .. 246
<1> DEFINE full == [i \in 1 .. 6 |-> "filled"]
           source == ThermostatValue(F, full)
           known == {i \in 1 .. 6 : PartNames[i] \in F}
           n == CHOOSE i \in {0} \cup known : \A j \in known : j <= i
           sent == ThermostatValue(F, SubSeq(full, 1, n))
           size == 1 + Values(b)!Total(SubSeq(PartSizes, 1, n))
           ev == [type |-> "thermostat", size |-> size, value |-> sent]
           got == [i \in 1 .. 6 |-> IF i <= n THEN "filled" ELSE "blank"]
           read == ThermostatValue(F, got)
<1>1. Values(b)!Thermostat(F) = source
  <2>1. DOMAIN Values(b)!Parts = 1 .. 6
    BY PartsAre
  <2>2. Values(b)!Filled = "filled"
    BY DEF Values!Filled
  <2> QED
    BY <2>1, <2>2 DEF Values!Thermostat, ThermostatValue
<1>2. n \in 0 .. 6 /\ \A j \in known : j <= n
  <2>1. known \in SUBSET (1 .. 6)
    OBVIOUS
  <2> HIDE DEF known
  <2> QED
    BY <2>1, LastIsLast
<1>3. \A c, parts : Values(c)!Announced(ThermostatValue(F, parts)) = known
  <2>1. \A parts : ThermostatValue(F, parts).Fields = F
    BY DEF ThermostatValue
  <2> SUFFICES ASSUME NEW c, NEW parts
               PROVE  Values(c)!Announced(ThermostatValue(F, parts)) = known
    OBVIOUS
  <2>2. Values(c)!Parts = PartNames /\ DOMAIN PartNames = 1 .. 6
    BY PartsAre
  <2> QED
    BY <2>1, <2>2 DEF Values!Announced
<1>4. Values(b)!LastPart(source) = n
  <2>1. Values(b)!Announced(source) = known
    BY <1>3
  <2> HIDE DEF source, known
  <2> QED
    BY <2>1 DEF Values!LastPart
<1>5. /\ source.kind = "thermostat" /\ source.parts = full
      /\ [source EXCEPT !.parts = SubSeq(full, 1, n)] = sent
  <2> DEFINE cut == SubSeq(full, 1, n)
  <2> HIDE DEF full, cut
  <2>1. /\ ThermostatValue(F, full).kind = "thermostat"
        /\ ThermostatValue(F, full).parts = full
        /\ [ThermostatValue(F, full) EXCEPT !.parts = cut] = ThermostatValue(F, cut)
    BY DEF ThermostatValue
  <2> QED
    BY <2>1 DEF cut
<1>6. Values(b)!Encoded(source) = ev
  <2>1. Values(b)!srpc_evtool_v1_thermostatextended2extended(source) = ev
    <3> HIDE DEF source, n, full, sent
    <3> QED
      BY <1>4, <1>5, PartsAre
         DEF Values!srpc_evtool_v1_thermostatextended2extended,
             Values!EV_TYPE_THERMOSTAT_DETAILS_V1
  <2> HIDE DEF source, ev
  <2> QED
    BY <1>5, <2>1 DEF Values!Encoded
<1>7. size \in 1 .. 246
  <2>1. Values(b)!Total(SubSeq(PartSizes, 1, n)) \in 0 .. 245
    <3> HIDE DEF n
    <3> QED
      BY <1>2, PartsFit
  <2> DEFINE sum == Values(b)!Total(SubSeq(PartSizes, 1, n))
  <2> HIDE DEF sum
  <2>2. 1 + sum \in 1 .. 246
    <3>1. sum \in 0 .. 245
      BY <2>1 DEF sum
    <3> QED
      BY <3>1
  <2> QED
    BY <2>2 DEF sum
<1>8. ev.type = "thermostat" /\ ev.size = size /\ ev.value = sent
  OBVIOUS
<1>9. Values("linux")!srpc_evtool_v1_extended2thermostatextended(ev) = read
  <2>1. /\ Len(SubSeq(full, 1, n)) = n
        /\ \A i \in 1 .. n : SubSeq(full, 1, n)[i] = "filled"
    <3> HIDE DEF n
    <3>1. full \in Seq({"filled"}) /\ Len(full) = 6
      OBVIOUS
    <3>2. \A i \in 1 .. n : i \in 1 .. 6
      BY <1>2
    <3> QED
      BY <1>2, <3>1, <3>2
  <2> DEFINE cut == SubSeq(full, 1, n)
  <2>2. sent.parts = cut
    BY DEF ThermostatValue
  <2> HIDE DEF cut, n
  <2>3. [i \in 1 .. 6 |-> IF i <= Len(cut) THEN cut[i] ELSE "blank"] = got
    BY <1>2, <2>1 DEF cut
  <2>4. [ThermostatValue(F, cut) EXCEPT !.parts = got] = read
    BY DEF ThermostatValue
  <2>5. [sent EXCEPT !.parts = [i \in 1 .. 6 |-> IF i <= Len(@) THEN @[i]
                                                                ELSE "blank"]] = read
    BY <2>2, <2>3, <2>4 DEF cut
  <2> HIDE DEF ev, sent, read
  <2>6. /\ ev.type = "thermostat" /\ ev.size \in 1 .. 246 /\ ev.value = sent
    BY <1>7, <1>8
  <2>7. /\ Values("linux")!TThermostat_ExtendedValue = 246
        /\ DOMAIN Values("linux")!Parts = 1 .. 6
        /\ Values("linux")!Blank = "blank"
        /\ Values("linux")!EV_TYPE_THERMOSTAT_DETAILS_V1 = "thermostat"
    BY PartsAre DEF Values!Blank, Values!EV_TYPE_THERMOSTAT_DETAILS_V1
  <2>8. [i \in DOMAIN Values("linux")!Parts |->
            IF i <= Len(ev.value.parts) THEN ev.value.parts[i]
                                        ELSE Values("linux")!Blank] = got
    BY <2>2, <2>3, <2>6, <2>7
  <2>9. [ev.value EXCEPT !.parts = got] = read
    <3>1. ev.value = ThermostatValue(F, cut)
      BY <2>6 DEF cut, sent
    <3> QED
      BY <2>4, <3>1
  <2> HIDE DEF got
  <2> QED
    BY <2>6, <2>7, <2>8, <2>9
       DEF Values!srpc_evtool_v1_extended2thermostatextended
<1>10. Values("linux")!Decoded(ev) = read /\ read # Values("linux")!Refused
  <2>1. read.kind = "thermostat" /\ Values("linux")!Refused.kind = "refused"
    BY DEF ThermostatValue, Values!Refused
  <2>2. read # Values("linux")!Refused
    BY <2>1
  <2>3. ev.type = "thermostat"
    OBVIOUS
  <2> HIDE DEF ev, read
  <2>4. Values("linux")!srpc_evtool_extended2emextended_latest(ev)
            = Values("linux")!Refused
    BY <2>3, NoMeter
  <2>5. Values("linux")!srpc_evtool_v1_extended2icextended(ev)
            = Values("linux")!Refused
    BY <2>3 DEF Values!srpc_evtool_v1_extended2icextended,
                Values!EV_TYPE_IMPULSE_COUNTER_DETAILS_V1
  <2>6. {Values("linux")!srpc_evtool_extended2emextended_latest(ev),
         Values("linux")!srpc_evtool_v1_extended2thermostatextended(ev),
         Values("linux")!srpc_evtool_v1_extended2icextended(ev)}
             \ {Values("linux")!Refused} = {read}
    BY <1>9, <2>2, <2>4, <2>5
  <2>7. (CHOOSE reading \in {read} : TRUE) = read
    OBVIOUS
  <2>8. ev.type # Values("linux")!EV_TYPE_OTHER
    BY <2>3 DEF Values!EV_TYPE_OTHER
  <2> QED
    BY <2>2, <2>6, <2>7, <2>8 DEF Values!Decoded
<1>11. \A u : Values("linux")!Tells(read, 3) = Values("linux")!Tells(source, u)
  <2>1. /\ read.kind = "thermostat" /\ read.parts = got
        /\ source.kind = "thermostat" /\ source.parts = full
    BY DEF ThermostatValue
  <2>2. Values("linux")!Announced(read) = known
        /\ Values("linux")!Announced(source) = known
    BY <1>3
  <2>3. \A i \in known : got[i] = full[i]
    <3> HIDE DEF n
    <3> QED
      BY <1>2
  <2> HIDE DEF read, source, known, got, full
  <2>4. {<<Values("linux")!Parts[i], got[i]>> : i \in known}
            = {<<Values("linux")!Parts[i], full[i]>> : i \in known}
    BY <2>3
  <2> QED
    BY <2>1, <2>2, <2>4 DEF Values!Tells
<1>12. \A u : Reads(source, ev, u)
  <2> HIDE DEF source, ev, read
  <2> QED
    BY <1>10, <1>11 DEF Reads
<1> HIDE DEF source, ev, size
<1>13. /\ Values(b)!Encoded(source) = ev /\ source.kind = "thermostat"
       /\ ev.type = "thermostat" /\ ev.size \in 1 .. 246
  BY <1>5, <1>6, <1>7, <1>8
<1> QED
  BY <1>1, <1>12, <1>13

LEMMA OtherTells ==
  ASSUME NEW b, NEW n
  PROVE  LET source == Values(b)!OtherValue(n)
             ev == Values(b)!Encoded(source)
         IN  /\ \A u : Reads(source, ev, u)
             /\ source.kind = "other"
             /\ ev.type = "other" /\ ev.size = n
<1> DEFINE source == [kind |-> "other", size |-> n]
           ev == [type |-> "other", size |-> n, value |-> source]
<1>1. Values(b)!OtherValue(n) = source
  BY DEF Values!OtherValue
<1>2. Values(b)!Encoded(source) = ev
  BY DEF Values!Encoded, Values!EV_TYPE_OTHER
<1>3. ev.type = "other" /\ ev.value = source /\ ev.size = n
      /\ source.kind = "other"
  OBVIOUS
<1>4. Values("linux")!EV_TYPE_OTHER = "other"
      /\ Values("linux")!Refused.kind = "refused"
  BY DEF Values!EV_TYPE_OTHER, Values!Refused
<1> HIDE DEF source, ev
<1>5. Values("linux")!Decoded(ev) = source
  BY <1>3, <1>4 DEF Values!Decoded
<1>6. source # Values("linux")!Refused
  BY <1>3, <1>4
<1>7. \A u : Values("linux")!Tells(source, u) = source
  BY <1>3 DEF Values!Tells
<1>8. \A u : Reads(source, ev, u)
  BY <1>5, <1>6, <1>7 DEF Reads
<1> QED
  BY <1>1, <1>2, <1>3, <1>8

LEMMA CounterTells ==
  LET source == Values("linux")!Counter
      ev == Values("linux")!Encoded(source)
  IN  /\ \A u : Reads(source, ev, u)
      /\ source.kind = "counter"
      /\ ev.type = "counter" /\ ev.size \in 1 .. 246
<1> DEFINE source == [kind |-> "counter"]
           size == Values("linux")!TSC_ImpulseCounter_ExtendedValue
           ev == [type |-> "counter", size |-> size, value |-> source]
<1>1. Values("linux")!Counter = source
  BY DEF Values!Counter
<1>2. size \in 1 .. 246
  BY DEF Values!TSC_ImpulseCounter_ExtendedValue, Values!Int32, Values!Int64,
         Values!Char
<1>3. Values("linux")!EV_TYPE_IMPULSE_COUNTER_DETAILS_V1 = "counter"
      /\ Values("linux")!EV_TYPE_THERMOSTAT_DETAILS_V1 = "thermostat"
      /\ Values("linux")!EV_TYPE_OTHER = "other"
      /\ Values("linux")!Refused.kind = "refused"
  BY DEF Values!EV_TYPE_IMPULSE_COUNTER_DETAILS_V1,
         Values!EV_TYPE_THERMOSTAT_DETAILS_V1, Values!EV_TYPE_OTHER,
         Values!Refused
<1> HIDE DEF size
<1>4. Values("linux")!Encoded(source) = ev
  BY <1>3 DEF Values!Encoded, Values!srpc_evtool_v1_icextended2extended, size
<1>5. ev.type = "counter" /\ ev.value = source /\ ev.size = size
      /\ source.kind = "counter"
  OBVIOUS
<1> HIDE DEF source, ev
<1>6. source # Values("linux")!Refused
  BY <1>3, <1>5
<1>7. Values("linux")!srpc_evtool_extended2emextended_latest(ev)
          = Values("linux")!Refused
  BY <1>5, NoMeter
<1>8. Values("linux")!srpc_evtool_v1_extended2thermostatextended(ev)
          = Values("linux")!Refused
  BY <1>3, <1>5 DEF Values!srpc_evtool_v1_extended2thermostatextended
<1>9. Values("linux")!srpc_evtool_v1_extended2icextended(ev) = source
  BY <1>3, <1>5 DEF Values!srpc_evtool_v1_extended2icextended, size
<1>10. Values("linux")!Decoded(ev) = source
  <2>1. {Values("linux")!srpc_evtool_extended2emextended_latest(ev),
         Values("linux")!srpc_evtool_v1_extended2thermostatextended(ev),
         Values("linux")!srpc_evtool_v1_extended2icextended(ev)}
             \ {Values("linux")!Refused} = {source}
    BY <1>6, <1>7, <1>8, <1>9
  <2>2. (CHOOSE reading \in {source} : TRUE) = source
    OBVIOUS
  <2>3. ev.type # Values("linux")!EV_TYPE_OTHER
    BY <1>3, <1>5
  <2> QED
    BY <2>1, <2>2, <2>3 DEF Values!Decoded
<1>11. \A u : Values("linux")!Tells(source, u) = source
  BY <1>5 DEF Values!Tells
<1>12. \A u : Reads(source, ev, u)
  BY <1>6, <1>10, <1>11 DEF Reads
<1> QED
  BY <1>1, <1>2, <1>4, <1>5, <1>12

-----------------------------------------------------------------------------
(***************************************************************************)
(* What a device sends                                                     *)
(***************************************************************************)

(* An extended value tells its reader what its writer had to tell. *)
TellsTrue(call, data) ==
    /\ call = DS.DEVICE_CHANNEL_EXTENDEDVALUE_CHANGED =>
           \A i \in DOMAIN data.of : Reads(data.of[i], data.value, data.upTo)
    /\ (call = SC.CHANNELEXTENDEDVALUE_PACK_UPDATE /\ "of" \in DOMAIN data) =>
           LET get(k) == Values("linux")!srpc_evtool_value_get(data.value, k)
           IN  /\ \A k \in DOMAIN data.of :
                      Reads(data.of[k], get(k - 1), data.upTo)
               /\ get(Len(data.of)) = Values("linux")!Nowhere

(* What a call of a device brings: a value, and what it was made of.        *)
Body(ev, of, upTo) ==
    [n |-> ev.size, caps |-> <<>>, value |-> ev, of |-> of, upTo |-> upTo]

LEMMA OneValueTells ==
  ASSUME NEW ev, ev.size \in Nat, NEW of, NEW upTo,
         of = <<>> \/ \E source : of = <<source>> /\ Reads(source, ev, upTo)
  PROVE  /\ Body(ev, of, upTo).n \in Nat /\ Body(ev, of, upTo).caps = <<>>
         /\ TellsTrue(DS.DEVICE_CHANNEL_EXTENDEDVALUE_CHANGED, Body(ev, of, upTo))
<1> DEFINE data == Body(ev, of, upTo)
<1>1. /\ data.n = ev.size /\ data.caps = <<>> /\ data.value = ev
      /\ data.of = of /\ data.upTo = upTo
  BY DEF Body
<1> HIDE DEF data
<1>2. DS.DEVICE_CHANNEL_EXTENDEDVALUE_CHANGED = 105
      /\ SC.CHANNELEXTENDEDVALUE_PACK_UPDATE = 405
  BY CallNumbers
<1>3. DS.DEVICE_CHANNEL_EXTENDEDVALUE_CHANGED
          # SC.CHANNELEXTENDEDVALUE_PACK_UPDATE
  BY <1>2
<1>4. \A i \in DOMAIN of : Reads(of[i], ev, upTo)
  <2>1. CASE of = <<>>
    BY <2>1
  <2>2. ASSUME NEW source, of = <<source>>, Reads(source, ev, upTo)
        PROVE  \A i \in DOMAIN of : Reads(of[i], ev, upTo)
    <3>1. DOMAIN of = {1} /\ of[1] = source
      BY <2>2
    <3> QED
      BY <2>2, <3>1
  <2> QED
    BY <2>1, <2>2
<1>5. TellsTrue(DS.DEVICE_CHANNEL_EXTENDEDVALUE_CHANGED, data)
  BY <1>1, <1>3, <1>4, Zenon DEF TellsTrue
<1> QED
  BY <1>1, <1>5 DEF data

(* Every value that a setter of a device sends is of one of these forms.    *)
SetOf(b, source) ==
    IF Values(b)!Encoded(source) # Values(b)!Nowhere
      THEN {Body(Values(b)!Encoded(source), <<source>>,
                 IF source.kind = "meter" THEN source.version ELSE 3)}
      ELSE {Body(ev, <<>>, 3) :
               ev \in {Values(b)!Nowhere,
                       Values(b)!Encoded(Values(b)!Meter(3, 0, {}))}}

LEMMA ASetTells ==
  ASSUME NEW b, NEW source, NEW upTo,
         upTo = IF source.kind = "meter" THEN source.version ELSE 3,
         Values(b)!Encoded(source) # Values(b)!Nowhere,
         Values(b)!Encoded(source).size \in Nat,
         Reads(source, Values(b)!Encoded(source), upTo),
         NEW data \in SetOf(b, source)
  PROVE  /\ data.n \in Nat /\ data.caps = <<>>
         /\ TellsTrue(DS.DEVICE_CHANNEL_EXTENDEDVALUE_CHANGED, data)
<1> DEFINE ev == Values(b)!Encoded(source)
           of == <<source>>
<1>1. data = Body(ev, of, upTo)
  BY DEF SetOf
<1>2. \E it : of = <<it>> /\ Reads(it, ev, upTo)
  OBVIOUS
<1>3. ev.size \in Nat
  OBVIOUS
<1> HIDE DEF ev, of
<1> QED
  BY <1>1, <1>2, <1>3, OneValueTells

LEMMA NothingSetTells ==
  ASSUME NEW b \in DOMAIN MaxDataSize, NEW source,
         Values(b)!Encoded(source) = Values(b)!Nowhere,
         NEW data \in SetOf(b, source)
  PROVE  /\ data.n \in Nat /\ data.caps = <<>>
         /\ TellsTrue(DS.DEVICE_CHANNEL_EXTENDEDVALUE_CHANGED, data)
<1> DEFINE left == Values(b)!Encoded(Values(b)!Meter(3, 0, {}))
<1>1. left.size \in Nat
  <2>1. 3 \in 1 .. 3 /\ 0 \in 0 .. MeasurementCount[b] /\ {} \in SUBSET Quants
    BY Counts
  <2>2. left = MeterOnWire(3, 0, {}, Fresh(3))
    BY <2>1, DeviceMeterTells
  <2> HIDE DEF left
  <2> QED
    BY <2>2 DEF MeterOnWire, MeterFixed
<1>2. Values(b)!Nowhere.size \in Nat
  BY DEF Values!Nowhere
<1>3. \E ev \in {Values(b)!Nowhere, left} : data = Body(ev, <<>>, 3)
  BY DEF SetOf
<1> HIDE DEF left
<1>4. PICK ev \in {Values(b)!Nowhere, left} : data = Body(ev, <<>>, 3)
  BY <1>3
<1>5. ev.size \in Nat
  BY <1>1, <1>2
<1> QED
  BY <1>4, <1>5, OneValueTells

LEMMA MeterIsSome ==
  \A v \in 1 .. 3 : MeterTypes[v] # "none" /\ MeterTypes[v] # "multi"
<1>1. /\ MeterTypes[1] = "meter V1" /\ MeterTypes[2] = "meter V2"
      /\ MeterTypes[3] = "meter V3"
  BY DEF MeterTypes
<1>2. \A v \in 1 .. 3 : v = 1 \/ v = 2 \/ v = 3
  OBVIOUS
<1>3. /\ MeterTypes[1] # "none" /\ MeterTypes[1] # "multi"
      /\ MeterTypes[2] # "none" /\ MeterTypes[2] # "multi"
      /\ MeterTypes[3] # "none" /\ MeterTypes[3] # "multi"
  BY <1>1
<1> HIDE DEF MeterTypes
<1> QED
  BY <1>2, <1>3

(* Whatever a device sends tells what it was made of.                       *)
LEMMA DeviceValuesTell ==
  ASSUME NEW b \in DOMAIN MaxDataSize, NEW data \in DeviceValues(b)
  PROVE  /\ data.n \in Nat /\ data.caps = <<>>
         /\ TellsTrue(DS.DEVICE_CHANNEL_EXTENDEDVALUE_CHANGED, data)
<1> DEFINE meters == {Values(b)!Meter(v, k, q) :
                         v \in 1 .. 3, k \in -1 .. MeasurementCount[b] + 1,
                         q \in SUBSET Values(b)!Quantities}
           thermostats == {Values(b)!Thermostat(F) :
                              F \in SUBSET {Values(b)!Parts[i] : i \in 1 .. 6}}
           others == {Values(b)!OtherValue(Values(b)!TTimerState_ExtendedValue)}
<1>1. DeviceValues(b) = UNION {SetOf(b, source) :
                                  source \in meters \cup thermostats \cup others}
  BY DEF DeviceValues, SetOf, Body
<1>2. PICK source \in meters \cup thermostats \cup others :
          data \in SetOf(b, source)
  <2> HIDE DEF meters, thermostats, others
  <2> QED
    BY <1>1
<1>3. Values(b)!Nowhere.type = "none"
  BY DEF Values!Nowhere, Values!EV_TYPE_NONE
<1> DEFINE ev == Values(b)!Encoded(source)
           Goal == /\ data.n \in Nat /\ data.caps = <<>>
                   /\ TellsTrue(DS.DEVICE_CHANNEL_EXTENDEDVALUE_CHANGED, data)
<1>4. CASE source \in meters
  <2>1. PICK v \in 1 .. 3, k \in -1 .. MeasurementCount[b] + 1,
             q \in SUBSET Quants : source = Values(b)!Meter(v, k, q)
    BY <1>4, QuantitiesAre
  <2>2. CASE k \in 0 .. MeasurementCount[b]
    <3>1. /\ ev = MeterOnWire(v, k, q, Fresh(v))
          /\ Reads(source, ev, v)
          /\ source.kind = "meter" /\ source.version = v
      BY <2>1, <2>2, DeviceMeterTells
    <3>2. k \in Nat
      BY <2>2
    <3> DEFINE wire == MeterOnWire(v, k, q, Fresh(v))
    <3>3. wire.type = MeterTypes[v] /\ wire.size = MeterFixed[v] + 62 * k
      BY DEF MeterOnWire
    <3>4. MeterTypes[v] # "none" /\ MeterFixed[v] + 62 * k \in Nat
      <4>1. MeterFixed[v] \in Nat
        BY DEF MeterFixed
      <4> QED
        BY <3>2, <4>1, MeterIsSome
    <3> HIDE DEF ev, wire, meters, thermostats, others
    <3>5. ev # Values(b)!Nowhere /\ ev.size \in Nat
      BY <1>3, <3>1, <3>3, <3>4 DEF wire
    <3>6. Reads(source, ev, v)
      BY <3>1
    <3>7. v = IF source.kind = "meter" THEN source.version ELSE 3
      BY <3>1
    <3> QED
      BY <1>2, <3>5, <3>6, <3>7, ASetTells DEF ev
  <2>3. CASE k \notin 0 .. MeasurementCount[b]
    <3>1. ev = Values(b)!Nowhere
      BY <2>1, <2>3, MeterRefused
    <3> QED
      BY <1>2, <3>1, NothingSetTells
  <2> QED
    BY <2>2, <2>3
<1>5. CASE source \in thermostats
  <2>1. PICK F : source = Values(b)!Thermostat(F)
    BY <1>5
  <2>2. /\ Reads(source, ev, 3) /\ source.kind = "thermostat"
        /\ ev.type = "thermostat" /\ ev.size \in 1 .. 246
    BY <2>1, ThermostatTells
  <2> HIDE DEF ev
  <2>3. ev # Values(b)!Nowhere /\ ev.size \in Nat
    BY <1>3, <2>2
  <2> QED
    BY <1>2, <2>2, <2>3, ASetTells DEF ev
<1>6. CASE source \in others
  <2> DEFINE n == Values(b)!TTimerState_ExtendedValue
  <2>1. source = Values(b)!OtherValue(n)
    BY <1>6
  <2>2. n \in Nat
    BY DEF Values!TTimerState_ExtendedValue, Values!Int32,
           Values!SUPLA_CHANNELVALUE_SIZE, Values!SUPLA_SENDER_NAME_MAXSIZE
  <2> HIDE DEF n
  <2>3. /\ Reads(source, ev, 3) /\ source.kind = "other"
        /\ ev.type = "other" /\ ev.size = n
    BY <2>1, OtherTells
  <2> HIDE DEF ev
  <2>4. ev # Values(b)!Nowhere /\ ev.size \in Nat
    BY <1>3, <2>2, <2>3
  <2> QED
    BY <1>2, <2>3, <2>4, ASetTells DEF ev
<1> QED
  BY <1>2, <1>4, <1>5, <1>6

-----------------------------------------------------------------------------
(***************************************************************************)
(* Several values in one                                                   *)
(*                                                                         *)
(* Each is stored behind the ones before it: the k-th is found after the   *)
(* sum of the sizes of the first k - 1.                                    *)
(***************************************************************************)

(* Values that can be stored in one with others.                            *)
Storable(ev) ==
    /\ ev.type # "none" /\ ev.type # "multi"
    /\ ev.size \in Nat /\ ev.size # 0

Row(evs, T) == evs \in Seq(T) /\ \A ev \in T : Storable(ev)
StoredSizes(evs) == [i \in 1 .. Len(evs) |-> 5 + evs[i].size]
SumOf(evs) == Sums(StoredSizes(evs))[Len(evs)]

LEMMA LinuxIs ==
    /\ Values("linux")!EV_TYPE_NONE = "none"
    /\ Values("linux")!EV_TYPE_MULTI_VALUE = "multi"
    /\ Values("linux")!header_size = 5
    /\ ExtendedValueSize["linux"] = 1024
    /\ Values("linux")!Nowhere.type = "none" /\ Values("linux")!Nowhere.size = 0
<1>1. ExtendedValueSize["linux"] = 1024
  BY DEF ExtendedValueSize
<1>2. Values("linux")!header_size = 5
  BY DEF Values!header_size, Values!TSuplaChannelExtendedValue, Values!CharTail,
         Values!Counted, Values!Char, Values!Int32
<1>3. /\ Values("linux")!Nowhere.type = "none" /\ Values("linux")!Nowhere.size = 0
      /\ Values("linux")!EV_TYPE_NONE = "none"
      /\ Values("linux")!EV_TYPE_MULTI_VALUE = "multi"
  BY DEF Values!Nowhere, Values!EV_TYPE_NONE, Values!EV_TYPE_MULTI_VALUE
<1> QED
  BY <1>1, <1>2, <1>3

(* The room that a value takes in one of several.                           *)
LEMMA StoredIs ==
  ASSUME NEW ev, ev.size \in Nat
  PROVE  Values("linux")!Stored(ev) = 5 + ev.size
<1>1. /\ Values("linux")!TSuplaChannelExtendedValue.fixed = 5
      /\ Values("linux")!TSuplaChannelExtendedValue.item = 1
  BY DEF Values!TSuplaChannelExtendedValue, Values!CharTail,
         Values!Counted, Values!Char, Values!Int32
<1> QED
  BY <1>1 DEF Values!Stored, Values!SizeWith

LEMMA RowSizes ==
  ASSUME NEW T, NEW evs, Row(evs, T)
  PROVE  /\ Len(evs) \in Nat /\ DOMAIN evs = 1 .. Len(evs)
         /\ \A i \in 1 .. Len(evs) : Storable(evs[i])
         /\ StoredSizes(evs) \in Seq(Nat) /\ Len(StoredSizes(evs)) = Len(evs)
         /\ \A i \in 1 .. Len(evs) : StoredSizes(evs)[i] = 5 + evs[i].size
<1>1. /\ Len(evs) \in Nat /\ DOMAIN evs = 1 .. Len(evs)
      /\ \A i \in 1 .. Len(evs) : evs[i] \in T
  BY Elements DEF Row
<1>2. \A i \in 1 .. Len(evs) : Storable(evs[i])
  BY <1>1 DEF Row
<1> DEFINE n == Len(evs)
<1>3. \A i \in 1 .. n : 5 + evs[i].size \in Nat
  BY <1>2 DEF Storable
<1>4. StoredSizes(evs) = [i \in 1 .. n |-> 5 + evs[i].size]
  BY DEF StoredSizes
<1> HIDE DEF n
<1>5. n \in Nat
  BY <1>1 DEF n
<1>6. StoredSizes(evs) \in Seq(Nat) /\ Len(StoredSizes(evs)) = n
      /\ \A i \in 1 .. n : StoredSizes(evs)[i] = 5 + evs[i].size
  BY <1>3, <1>4, <1>5
<1> QED
  BY <1>1, <1>2, <1>6 DEF n

(* The value that is made of a row of several.                              *)
LEMMA MultiIs ==
  ASSUME NEW T, NEW evs, Row(evs, T)
  PROVE  Values("linux")!Multi(evs)
             = [type |-> "multi", size |-> SumOf(evs), value |-> evs]
<1>1. DOMAIN evs = 1 .. Len(evs)
      /\ \A i \in 1 .. Len(evs) : Storable(evs[i])
  BY RowSizes
<1>0. Len(StoredSizes(evs)) = Len(evs)
  BY RowSizes
<1>2. \A i \in 1 .. Len(evs) : Values("linux")!Stored(evs[i]) = 5 + evs[i].size
  BY <1>1, StoredIs DEF Storable
<1>3. [i \in DOMAIN evs |-> Values("linux")!Stored(evs[i])] = StoredSizes(evs)
  BY <1>1, <1>2 DEF StoredSizes
<1>4. Values("linux")!Total(StoredSizes(evs)) = SumOf(evs)
  <2> DEFINE s == StoredSizes(evs)
  <2>1. Len(s) = Len(evs)
    BY <1>0
  <2>2. SumOf(evs) = Sums(s)[Len(evs)]
    BY DEF SumOf
  <2> HIDE DEF s
  <2>3. Values("linux")!Total(s) = Sums(s)[Len(s)]
    BY TotalIsSum
  <2> QED
    BY <2>1, <2>2, <2>3 DEF s
<1>5. Values("linux")!EV_TYPE_MULTI_VALUE = "multi"
  BY LinuxIs
<1>6. Values("linux")!Multi(evs)
          = [type |-> Values("linux")!EV_TYPE_MULTI_VALUE,
             size |-> Values("linux")!Total(
                          [i \in DOMAIN evs |-> Values("linux")!Stored(evs[i])]),
             value |-> evs]
  BY DEF Values!Multi
<1> QED
  BY <1>3, <1>4, <1>5, <1>6

(* The first few of a row take as much room as they take in it.             *)
LEMMA FirstOfRow ==
  ASSUME NEW T, NEW evs, Row(evs, T), NEW i \in 0 .. Len(evs)
  PROVE  /\ SumOf(SubSeq(evs, 1, i)) = Sums(StoredSizes(evs))[i]
         /\ Row(SubSeq(evs, 1, i), T)
         /\ SumOf(SubSeq(evs, 1, i)) \in Nat /\ SumOf(evs) \in Nat
         /\ SumOf(SubSeq(evs, 1, i)) <= SumOf(evs)
<1> DEFINE part == SubSeq(evs, 1, i)
           t == StoredSizes(part)
           s == StoredSizes(evs)
<1>1. part \in Seq(T) /\ Len(part) = i /\ \A j \in 1 .. i : part[j] = evs[j]
  BY FirstFew, Zenon DEF Row
<1> HIDE DEF part
<1>2. Row(part, T)
  BY <1>1 DEF Row
<1>3. /\ t \in Seq(Nat) /\ Len(t) = i
      /\ \A j \in 1 .. i : t[j] = 5 + part[j].size
  BY <1>1, <1>2, RowSizes
<1>4. /\ s \in Seq(Nat) /\ Len(s) = Len(evs) /\ Len(evs) \in Nat
      /\ \A j \in 1 .. Len(evs) : s[j] = 5 + evs[j].size
  BY RowSizes
<1> HIDE DEF s, t
<1>5. \A j \in 1 .. i : t[j] = s[j]
  <2>1. \A j \in 1 .. i : j \in 1 .. Len(evs)
    BY <1>4
  <2> QED
    BY <1>1, <1>3, <1>4, <2>1
<1>6. Len(t) <= Len(s) /\ \A j \in 1 .. Len(t) : t[j] = s[j]
  BY <1>3, <1>4, <1>5
<1>7. Sums(t)[i] = Sums(s)[i]
  <2>1. \A j \in 0 .. Len(t) : Sums(t)[j] = Sums(s)[j]
    BY <1>3, <1>4, <1>6, SumsAgree
  <2>2. i \in 0 .. Len(t)
    BY <1>3
  <2> QED
    BY <2>1, <2>2
<1>8. Sums(t)[Len(t)] <= Sums(s)[Len(s)]
  BY <1>3, <1>4, <1>6, SumsOfPart
<1>9. Sums(t)[i] \in Nat /\ Sums(s)[Len(s)] \in Nat
  <2>1. i \in 0 .. Len(t) /\ Len(s) \in 0 .. Len(s)
    BY <1>3, <1>4
  <2> QED
    BY <1>3, <1>4, <2>1, SumsAre
<1>10. SumOf(part) = Sums(t)[i] /\ SumOf(evs) = Sums(s)[Len(s)]
  BY <1>1, <1>4 DEF SumOf, s, t
<1> QED
  BY <1>2, <1>3, <1>7, <1>8, <1>9, <1>10 DEF part, s

(* A row with one more value.                                               *)
LEMMA OneMore ==
  ASSUME NEW T, NEW evs, Row(evs, T), NEW ev \in T
  PROVE  /\ Row(Append(evs, ev), T)
         /\ SumOf(Append(evs, ev)) = SumOf(evs) + (5 + ev.size)
<1> DEFINE more == Append(evs, ev)
           n == Len(evs)
           s == StoredSizes(more)
<1>1. evs \in Seq(T) /\ n \in Nat
  BY DEF Row
<1>2. /\ more \in Seq(T) /\ Len(more) = n + 1 /\ more[n + 1] = ev
      /\ \A i \in 1 .. n : more[i] = evs[i]
  BY <1>1
<1>3. SubSeq(more, 1, n) = evs
  BY <1>1
<1> HIDE DEF more, n
<1>4. Row(more, T)
  BY <1>2 DEF Row
<1>5. n \in 0 .. Len(more)
  BY <1>1, <1>2
<1>6. SumOf(evs) = Sums(s)[n]
  BY <1>3, <1>4, <1>5, FirstOfRow
<1>7. /\ s \in Seq(Nat) /\ Len(s) = n + 1 /\ s[n + 1] = 5 + ev.size
  <2>1. n + 1 \in 1 .. Len(more)
    BY <1>1, <1>2
  <2> QED
    BY <1>2, <1>4, <2>1, RowSizes
<1> HIDE DEF s
<1>8. Sums(s)[n + 1] = Sums(s)[n] + s[n + 1]
  <2>1. n + 1 \in 1 .. Len(s) /\ (n + 1) - 1 = n
    BY <1>1, <1>7
  <2>2. Sums(s)[n + 1] = Sums(s)[(n + 1) - 1] + s[n + 1]
    BY <1>7, <2>1, SumsAre
  <2> QED
    BY <2>1, <2>2
<1>9. SumOf(more) = Sums(s)[n + 1]
  BY <1>2 DEF SumOf, s
<1> QED
  BY <1>4, <1>6, <1>7, <1>8, <1>9 DEF more

(* The value that holds a row: nothing, the only one, or several in one.    *)
ValueOf(evs) ==
    IF Len(evs) = 0 THEN Values("linux")!Nowhere
    ELSE IF Len(evs) = 1 THEN evs[1]
    ELSE [type |-> "multi", size |-> SumOf(evs), value |-> evs]

(* It is in reach of its reader.                                            *)
InRoom(evs) == Len(evs) >= 2 => SumOf(evs) <= 1024

LEMMA ValueOfSize ==
  ASSUME NEW T, NEW evs, Row(evs, T)
  PROVE  ValueOf(evs).size \in Nat
<1>1. Len(evs) \in Nat /\ \A i \in 1 .. Len(evs) : Storable(evs[i])
  BY RowSizes
<1>2. CASE Len(evs) = 0
  BY <1>2, LinuxIs DEF ValueOf
<1>3. CASE Len(evs) = 1
  BY <1>1, <1>3 DEF ValueOf, Storable
<1>4. CASE Len(evs) # 0 /\ Len(evs) # 1
  <2>1. SumOf(evs) \in Nat
    <3>1. 0 \in 0 .. Len(evs)
      BY <1>1
    <3> QED
      BY <3>1, FirstOfRow
  <2>2. ValueOf(evs).size = SumOf(evs)
    BY <1>4 DEF ValueOf
  <2> QED
    BY <2>1, <2>2
<1> QED
  BY <1>2, <1>3, <1>4

(* A value is added at the end of the row, or there is no room for it.      *)
LEMMA AddedIs ==
  ASSUME NEW T, NEW evs, Row(evs, T), NEW ev \in T
  PROVE  LET sum == Values("linux")!srpc_evtool_value_add(ValueOf(evs), ev)
         IN  \/ sum = ValueOf(evs)
             \/ sum = ValueOf(Append(evs, ev)) /\ InRoom(Append(evs, ev))
<1> DEFINE dest == ValueOf(evs)
           more == Append(evs, ev)
           sum == Values("linux")!srpc_evtool_value_add(dest, ev)
<1>1. /\ Len(evs) \in Nat /\ \A i \in 1 .. Len(evs) : Storable(evs[i])
  BY RowSizes
<1>2. ev.type # "none" /\ ev.size # 0 /\ ev.size \in Nat
  BY DEF Row, Storable
<1>3. Len(more) = Len(evs) + 1 /\ more[Len(evs) + 1] = ev
  BY DEF Row
<1>4. Row(more, T) /\ SumOf(more) = SumOf(evs) + (5 + ev.size)
  BY OneMore
<1>5. Values("linux")!Multi(evs)
          = [type |-> "multi", size |-> SumOf(evs), value |-> evs]
  BY MultiIs
<1>6. Values("linux")!Multi(more)
          = [type |-> "multi", size |-> SumOf(more), value |-> more]
  BY <1>4, MultiIs
<1>7. SumOf(evs) \in Nat
  <2>1. 0 \in 0 .. Len(evs)
    BY <1>1
  <2> QED
    BY <2>1, FirstOfRow
<1>8. /\ Values("linux")!EV_TYPE_NONE = "none"
      /\ Values("linux")!EV_TYPE_MULTI_VALUE = "multi"
      /\ ExtendedValueSize["linux"] = 1024
      /\ Values("linux")!Nowhere.type = "none"
  BY LinuxIs
<1>9. Values("linux")!Stored(ev) = 5 + ev.size
  BY <1>2, StoredIs
<1> HIDE DEF more
<1>10. CASE Len(evs) = 0
  <2>1. dest.type = "none"
    BY <1>8, <1>10 DEF ValueOf
  <2>2. ValueOf(more) = ev /\ InRoom(more)
    BY <1>3, <1>10 DEF ValueOf, InRoom
  <2> HIDE DEF dest
  <2>3. sum = ev
    BY <1>2, <1>8, <2>1 DEF Values!srpc_evtool_value_add
  <2> HIDE DEF sum
  <2> QED
    BY <2>2, <2>3 DEF sum, dest, more
<1>11. CASE Len(evs) # 0
  <2>1. dest.type # "none"
        /\ (IF dest.type = "multi" THEN dest.value ELSE <<dest>>) = evs
    <3>1. CASE Len(evs) = 1
      <4>1. dest = evs[1] /\ Storable(evs[1])
        BY <1>1, <3>1 DEF ValueOf
      <4>2. <<evs[1]>> = evs
        BY <3>1 DEF Row
      <4> HIDE DEF dest
      <4> QED
        BY <4>1, <4>2 DEF Storable
    <3>2. CASE Len(evs) # 1
      <4>1. dest = [type |-> "multi", size |-> SumOf(evs), value |-> evs]
        BY <1>11, <3>2 DEF ValueOf
      <4> HIDE DEF dest
      <4> QED
        BY <4>1
    <3> QED
      BY <3>1, <3>2
  <2>2. ValueOf(more) = [type |-> "multi", size |-> SumOf(more), value |-> more]
    <3>1. Len(more) # 0 /\ Len(more) # 1
      BY <1>1, <1>3, <1>11
    <3> QED
      BY <3>1 DEF ValueOf
  <2>3. Values("linux")!Multi(evs).size = SumOf(evs)
    BY <1>5
  <2>4. Values("linux")!NoRoom(SumOf(evs), ev) <=> SumOf(more) > 1024
    BY <1>4, <1>8, <1>9 DEF Values!NoRoom
  <2> HIDE DEF dest
  <2>5. sum = IF SumOf(more) > 1024 THEN dest ELSE Values("linux")!Multi(more)
    BY <1>2, <1>8, <2>1, <2>3, <2>4
       DEF Values!srpc_evtool_value_add, more
  <2>6. SumOf(more) \in Nat
    BY <1>2, <1>4, <1>7
  <2> HIDE DEF sum
  <2>7. CASE SumOf(more) > 1024
    BY <2>5, <2>7 DEF sum, dest
  <2>8. CASE ~(SumOf(more) > 1024)
    <3>1. InRoom(more)
      BY <2>6, <2>8 DEF InRoom
    <3>2. sum = ValueOf(more)
      BY <1>6, <2>2, <2>5, <2>8
    <3> QED
      BY <3>1, <3>2 DEF sum, dest, more
  <2> QED
    BY <2>7, <2>8
<1> QED
  BY <1>10, <1>11

(* Its reader finds every one of them, and then no more.                    *)
LEMMA GetIs ==
  ASSUME NEW T, NEW evs, Row(evs, T), InRoom(evs)
  PROVE  /\ \A k \in 1 .. Len(evs) :
                Values("linux")!srpc_evtool_value_get(ValueOf(evs), k - 1) = evs[k]
         /\ Values("linux")!srpc_evtool_value_get(ValueOf(evs), Len(evs))
                = Values("linux")!Nowhere
<1> DEFINE ev == ValueOf(evs)
           n == Len(evs)
           s == StoredSizes(evs)
<1>1. /\ n \in Nat /\ \A i \in 1 .. n : Storable(evs[i])
      /\ s \in Seq(Nat) /\ Len(s) = n
      /\ \A i \in 1 .. n : s[i] = 5 + evs[i].size
  BY RowSizes
<1>2. /\ Values("linux")!EV_TYPE_NONE = "none"
      /\ Values("linux")!EV_TYPE_MULTI_VALUE = "multi"
      /\ Values("linux")!header_size = 5
      /\ ExtendedValueSize["linux"] = 1024
      /\ Values("linux")!Nowhere.type = "none"
  BY LinuxIs
<1>3. CASE n = 0
  <2>1. ev.type = "none"
    BY <1>2, <1>3 DEF ValueOf
  <2> HIDE DEF ev
  <2>2. \A k : Values("linux")!srpc_evtool_value_get(ev, k) = Values("linux")!Nowhere
    BY <1>2, <2>1 DEF Values!srpc_evtool_value_get
  <2> QED
    BY <1>3, <2>2 DEF ev
<1>4. CASE n = 1
  <2>1. ev = evs[1] /\ Storable(evs[1])
    BY <1>1, <1>4 DEF ValueOf
  <2> HIDE DEF ev
  <2>2. /\ Values("linux")!srpc_evtool_value_get(ev, 0) = ev
        /\ Values("linux")!srpc_evtool_value_get(ev, 1) = Values("linux")!Nowhere
    BY <1>2, <2>1 DEF Values!srpc_evtool_value_get, Storable
  <2>3. \A k \in 1 .. n : k = 1 /\ k - 1 = 0
    BY <1>4
  <2> QED
    BY <1>4, <2>1, <2>2, <2>3 DEF ev
<1>5. CASE n # 0 /\ n # 1
  <2>1. ev = [type |-> "multi", size |-> SumOf(evs), value |-> evs]
    BY <1>5 DEF ValueOf
  <2>2. SumOf(evs) <= 1024
    BY <1>1, <1>5 DEF InRoom
  <2>3. ev.type = "multi" /\ ev.size = SumOf(evs) /\ ev.value = evs
    BY <2>1
  <2> HIDE DEF ev, s, n
  <2>4. ASSUME NEW i \in 1 .. n
        PROVE  /\ Values("linux")!InReach(ev, i)
               /\ Values("linux")!WellFormed(ev, i)
    <3>1. i - 1 \in 0 .. n /\ i \in 0 .. n
      BY <1>1
    <3>2. /\ SumOf(SubSeq(evs, 1, i - 1)) = Sums(s)[i - 1]
          /\ Row(SubSeq(evs, 1, i - 1), T)
          /\ SumOf(SubSeq(evs, 1, i - 1)) \in Nat
      BY <3>1, FirstOfRow DEF n, s
    <3>3. Values("linux")!Offset(evs, i) = Sums(s)[i - 1]
      <4>1. Values("linux")!Multi(SubSeq(evs, 1, i - 1))
                = [type |-> "multi", size |-> SumOf(SubSeq(evs, 1, i - 1)),
                   value |-> SubSeq(evs, 1, i - 1)]
        BY <3>2, MultiIs
      <4> QED
        BY <3>2, <4>1 DEF Values!Offset
    <3>4. Sums(s)[i] <= SumOf(evs) /\ Sums(s)[i] \in Nat /\ SumOf(evs) \in Nat
      BY <3>1, FirstOfRow DEF n, s
    <3>5. Sums(s)[i] = Sums(s)[i - 1] + s[i]
      BY <1>1, SumsAre
    <3>6. s[i] = 5 + evs[i].size /\ Storable(evs[i])
      BY <1>1
    <3>7. Values("linux")!Stored(evs[i]) = 5 + evs[i].size
      BY <3>6, StoredIs DEF Storable
    <3>8. /\ evs[i].type # "none" /\ evs[i].size \in Nat /\ evs[i].size # 0
      BY <3>6 DEF Storable
    <3>9. Sums(s)[i - 1] \in Nat
      BY <3>2
    <3>10. Values("linux")!InReach(ev, i)
      <4>1. i <= n /\ Sums(s)[i - 1] < SumOf(evs) - 5
        <5> DEFINE x == Sums(s)[i - 1]
                   y == Sums(s)[i]
                   z == SumOf(evs)
                   w == evs[i].size
        <5>1. /\ x \in Nat /\ y \in Nat /\ z \in Nat /\ w \in Nat /\ w # 0
              /\ y = x + (5 + w) /\ y <= z
          BY <3>4, <3>5, <3>6, <3>8, <3>9
        <5>2. i <= n
          BY <1>1
        <5> HIDE DEF x, y, z, w
        <5>3. x < z - 5
          BY <5>1
        <5> QED
          BY <5>2, <5>3 DEF x, z
      <4> QED
        BY <1>2, <2>3, <3>3, <4>1 DEF Values!InReach, n
    <3>11. Values("linux")!WellFormed(ev, i)
      <4>1. Sums(s)[i - 1] + (5 + evs[i].size) <= 1024
        BY <2>2, <3>4, <3>5, <3>6, <3>8, <3>9
      <4> QED
        BY <1>2, <2>3, <3>3, <3>7, <3>8, <4>1 DEF Values!WellFormed
    <3> QED
      BY <3>10, <3>11
  <2>5. ~Values("linux")!InReach(ev, n + 1)
    <3>1. ~(n + 1 <= n)
      BY <1>1
    <3> QED
      BY <2>3, <3>1 DEF Values!InReach, n
  <2>6. ASSUME NEW k \in 1 .. n
        PROVE  Values("linux")!srpc_evtool_value_get(ev, k - 1) = evs[k]
    <3>1. (k - 1) + 1 = k /\ \A i \in 1 .. k : i \in 1 .. n
      BY <1>1
    <3>2. \A i \in 1 .. (k - 1) + 1 : /\ Values("linux")!InReach(ev, i)
                                     /\ Values("linux")!WellFormed(ev, i)
      BY <2>4, <3>1
    <3>3. Values("linux")!srpc_evtool_value_get(ev, k - 1) = ev.value[(k - 1) + 1]
      BY <1>2, <2>3, <3>2 DEF Values!srpc_evtool_value_get
    <3> QED
      BY <2>3, <3>1, <3>3
  <2>7. Values("linux")!srpc_evtool_value_get(ev, n) = Values("linux")!Nowhere
    <3>1. n + 1 \in 1 .. n + 1 /\ n # 0
      BY <1>1, <1>5
    <3>2. ~(\A i \in 1 .. n + 1 : /\ Values("linux")!InReach(ev, i)
                                  /\ Values("linux")!WellFormed(ev, i))
      BY <2>5, <3>1
    <3> QED
      BY <1>2, <2>3, <3>1, <3>2 DEF Values!srpc_evtool_value_get
  <2> QED
    BY <2>6, <2>7 DEF ev, n
<1> QED
  BY <1>3, <1>4, <1>5

-----------------------------------------------------------------------------
(***************************************************************************)
(* What the server sends                                                   *)
(***************************************************************************)

(* What the server sends of a value to a reader of version w.               *)
SentTo(w, source) ==
    Values("linux")!Encoded(IF source.kind = "meter"
                              THEN Values("linux")!InVersion(source, w)
                              ELSE source)

(* Each value of the stock tells a reader of version w what it was made of. *)
LEMMA StockTells ==
  ASSUME NEW w \in 1 .. 3, NEW source \in Stock
  PROVE  Reads(source, SentTo(w, source), w) /\ Storable(SentTo(w, source))
<1> DEFINE ev == SentTo(w, source)
<1>1. ASSUME NEW k \in 0 .. 5, NEW q \in SUBSET Quants,
             source = Values("linux")!Meter(3, k, q)
      PROVE  Reads(source, ev, w) /\ Storable(ev)
  <2>1. source.kind = "meter"
    BY <1>1, ServerMeterTells
  <2>2. ev = Values("linux")!Encoded(Values("linux")!InVersion(source, w))
    BY <2>1 DEF SentTo
  <2> HIDE DEF ev
  <2>3. Reads(source, ev, w) /\ ev.type = MeterTypes[w]
        /\ ev.size = MeterFixed[w] + 62 * k
    BY <1>1, <2>2, ServerMeterTells
  <2>4. MeterFixed[w] + 62 * k \in Nat /\ MeterFixed[w] + 62 * k # 0
    <3>1. MeterFixed[w] \in Nat /\ MeterFixed[w] >= 119 /\ k \in Nat
      BY DEF MeterFixed
    <3> QED
      BY <3>1
  <2> QED
    BY <2>3, <2>4, MeterIsSome DEF Storable
<1>2. ASSUME NEW F, source = Values("linux")!Thermostat(F)
      PROVE  Reads(source, ev, w) /\ Storable(ev)
  <2>1. source.kind = "thermostat"
    BY <1>2, ThermostatTells
  <2>2. ev = Values("linux")!Encoded(source)
    BY <2>1 DEF SentTo
  <2> HIDE DEF ev
  <2>3. Reads(source, ev, w) /\ ev.type = "thermostat" /\ ev.size \in 1 .. 246
    BY <1>2, <2>2, ThermostatTells
  <2> QED
    BY <2>3 DEF Storable
<1>3. ASSUME source = Values("linux")!Counter
      PROVE  Reads(source, ev, w) /\ Storable(ev)
  <2>1. source.kind = "counter"
    BY <1>3, CounterTells
  <2>2. ev = Values("linux")!Encoded(source)
    BY <2>1 DEF SentTo
  <2> HIDE DEF ev
  <2>3. Reads(source, ev, w) /\ ev.type = "counter" /\ ev.size \in 1 .. 246
    BY <1>3, <2>2, CounterTells
  <2> QED
    BY <2>3 DEF Storable
<1>4. ASSUME NEW n \in Nat \ {0}, source = Values("linux")!OtherValue(n)
      PROVE  Reads(source, ev, w) /\ Storable(ev)
  <2>1. source.kind = "other"
    BY <1>4, OtherTells
  <2>2. ev = Values("linux")!Encoded(source)
    BY <2>1 DEF SentTo
  <2> HIDE DEF ev
  <2>3. Reads(source, ev, w) /\ ev.type = "other" /\ ev.size = n
    BY <1>4, <2>2, OtherTells
  <2> QED
    BY <2>3 DEF Storable
<1>5. /\ {"total", "balanced"} \in SUBSET Quants /\ 5 \in 0 .. 5
      /\ {"total", "phases"} \in SUBSET Quants /\ 1 \in 0 .. 5
      /\ 507 \in Nat \ {0} /\ 508 \in Nat \ {0}
  BY DEF Quants
<1>6. \/ source = Values("linux")!Meter(3, 5, {"total", "balanced"})
      \/ source = Values("linux")!Meter(3, 1, {"total", "phases"})
      \/ source = Values("linux")!Thermostat({"Flags"})
      \/ source = Values("linux")!Counter
      \/ source = Values("linux")!OtherValue(507)
      \/ source = Values("linux")!OtherValue(508)
  BY DEF Stock
<1> HIDE DEF ev
<1>7. Reads(source, ev, w) /\ Storable(ev)
  <2>1. CASE source = Values("linux")!Meter(3, 5, {"total", "balanced"})
    BY <1>1, <1>5, <2>1, Zenon
  <2>2. CASE source = Values("linux")!Meter(3, 1, {"total", "phases"})
    BY <1>1, <1>5, <2>2, Zenon
  <2>3. CASE source = Values("linux")!Thermostat({"Flags"})
    BY <1>2, <2>3, Zenon
  <2>4. CASE source = Values("linux")!Counter
    BY <1>3, <2>4, Zenon
  <2>5. CASE source = Values("linux")!OtherValue(507)
    BY <1>4, <1>5, <2>5, Zenon
  <2>6. CASE source = Values("linux")!OtherValue(508)
    BY <1>4, <1>5, <2>6, Zenon
  <2> QED
    BY <1>6, <2>1, <2>2, <2>3, <2>4, <2>5, <2>6
<1> QED
  BY <1>7 DEF ev

LEMMA ItsItems == \A S : \A s \in Seq(S) : s = [i \in 1 .. Len(s) |-> s[i]]
  OBVIOUS

(* What is sent of a row of the stock.                                      *)
Goods(w) == {SentTo(w, source) : source \in Stock}
Sents(w, of) == [i \in 1 .. Len(of) |-> SentTo(w, of[i])]

LEMMA SentsAre ==
  ASSUME NEW w \in 1 .. 3, NEW of \in Seq(Stock)
  PROVE  /\ Row(Sents(w, of), Goods(w)) /\ Len(Sents(w, of)) = Len(of)
         /\ \A i \in 1 .. Len(of) : Sents(w, of)[i] = SentTo(w, of[i])
         /\ \A source \in Stock :
                Sents(w, Append(of, source))
                    = Append(Sents(w, of), SentTo(w, source))
<1> DEFINE n == Len(of)
           evs == Sents(w, of)
<1>1. n \in Nat /\ \A i \in 1 .. n : of[i] \in Stock
  BY Elements
<1>2. \A i \in 1 .. n : SentTo(w, of[i]) \in Goods(w)
  BY <1>1 DEF Goods
<1>3. evs = [i \in 1 .. n |-> SentTo(w, of[i])]
  BY DEF Sents
<1>4. \A ev \in Goods(w) : Storable(ev)
  BY StockTells DEF Goods
<1>5. ASSUME NEW source \in Stock
      PROVE  Sents(w, Append(of, source)) = Append(evs, SentTo(w, source))
  <2> DEFINE more == Append(of, source)
  <2>1. /\ Len(more) = n + 1 /\ more[n + 1] = source
        /\ \A i \in 1 .. n : more[i] = of[i]
    OBVIOUS
  <2>2. Sents(w, more) = [i \in 1 .. n + 1 |-> SentTo(w, more[i])]
    BY <2>1 DEF Sents
  <2> HIDE DEF more, n
  <2>3. evs \in Seq(Goods(w)) /\ Len(evs) = n
        /\ \A i \in 1 .. n : evs[i] = SentTo(w, of[i])
    <3> HIDE DEF evs
    <3> QED
      BY <1>1, <1>2, <1>3
  <2>4. SentTo(w, source) \in Goods(w)
    BY DEF Goods
  <2> HIDE DEF evs
  <2> DEFINE last == SentTo(w, source)
             all == Append(evs, last)
  <2>5. all \in Seq(Goods(w)) /\ Len(all) = n + 1 /\ all[n + 1] = last
        /\ \A i \in 1 .. n : all[i] = evs[i]
    BY <2>3, <2>4
  <2> HIDE DEF all, last
  <2>6. all = [i \in 1 .. n + 1 |-> all[i]]
    <3>1. all = [i \in 1 .. Len(all) |-> all[i]]
      BY <2>5, ItsItems, Zenon
    <3> QED
      BY <2>5, <3>1
  <2>7. \A i \in 1 .. n + 1 : all[i] = SentTo(w, more[i])
    <3> SUFFICES ASSUME NEW i \in 1 .. n + 1 PROVE all[i] = SentTo(w, more[i])
      OBVIOUS
    <3>1. CASE i \in 1 .. n
      BY <2>1, <2>3, <2>5, <3>1
    <3>2. CASE i = n + 1
      BY <2>1, <2>5, <3>2 DEF last
    <3>3. i \in 1 .. n \/ i = n + 1
      BY <1>1
    <3> QED
      BY <3>1, <3>2, <3>3
  <2>8. Sents(w, more) = all
    BY <2>2, <2>6, <2>7
  <2> QED
    BY <2>8 DEF more, all, last
<1>6. evs \in Seq(Goods(w)) /\ Len(evs) = n
      /\ \A i \in 1 .. n : evs[i] = SentTo(w, of[i])
  <2> HIDE DEF evs, n
  <2> QED
    BY <1>1, <1>2, <1>3
<1> QED
  BY <1>4, <1>5, <1>6 DEF Row

(* What a server has after putting values into one: those that were taken.  *)
Held(w) ==
    {[value |-> ValueOf(Sents(w, of)), of |-> of] :
        of \in {row \in Seq(Stock) : InRoom(Sents(w, row))}}
NoneYet == [value |-> Values("linux")!Nowhere, of |-> <<>>]
AddTo(w, all, source) ==
    LET sum == Values("linux")!srpc_evtool_value_add(all.value, SentTo(w, source))
    IN  IF sum = all.value THEN all
        ELSE [value |-> sum, of |-> Append(all.of, source)]
Adds(w, sources) ==
    CHOOSE after : after = [i \in 0 .. Len(sources) |->
                               IF i = 0 THEN NoneYet
                               ELSE AddTo(w, after[i - 1], sources[i])]

(* The values of a server are the last of those made step by step.          *)
LEMMA ServerValuesAre ==
  ASSUME NEW v
  PROVE  ServerValues(v) =
             {[n |-> Values("linux")!Int32 +
                     Values("linux")!Stored(Adds(MeterVersion(v), sources)
                                                [Len(sources)].value),
               caps |-> <<>>,
               value |-> Adds(MeterVersion(v), sources)[Len(sources)].value,
               of |-> Adds(MeterVersion(v), sources)[Len(sources)].of,
               upTo |-> MeterVersion(v)] :
                 sources \in UNION {[1 .. k -> Stock] : k \in 1 .. 3}}
  BY Zenon DEF ServerValues, Adds, AddTo, SentTo, NoneYet

(* With one more put into it, a value of the server is still one that holds *)
(* a row.                                                                   *)
LEMMA AddToHeld ==
  ASSUME NEW w \in 1 .. 3, NEW all \in Held(w), NEW source \in Stock
  PROVE  AddTo(w, all, source) \in Held(w)
<1>1. PICK of \in Seq(Stock) :
          /\ InRoom(Sents(w, of))
          /\ all = [value |-> ValueOf(Sents(w, of)), of |-> of]
  BY DEF Held
<1> DEFINE ev == SentTo(w, source)
           sum == Values("linux")!srpc_evtool_value_add(all.value, ev)
           more == Append(of, source)
<1>2. all.value = ValueOf(Sents(w, of)) /\ all.of = of
  BY <1>1
<1>3. Row(Sents(w, of), Goods(w)) /\ ev \in Goods(w)
  BY SentsAre DEF Goods
<1>4. Sents(w, more) = Append(Sents(w, of), ev)
  BY SentsAre
<1>5. more \in Seq(Stock)
  OBVIOUS
<1> HIDE DEF more, ev
<1>6. \/ sum = all.value
      \/ sum = ValueOf(Sents(w, more)) /\ InRoom(Sents(w, more))
  <2>1. \A e \in Goods(w) :
            LET new == Values("linux")!srpc_evtool_value_add(
                           ValueOf(Sents(w, of)), e)
            IN  \/ new = ValueOf(Sents(w, of))
                \/ /\ new = ValueOf(Append(Sents(w, of), e))
                   /\ InRoom(Append(Sents(w, of), e))
    BY <1>3, AddedIs
  <2> QED
    BY <1>2, <1>3, <1>4, <2>1
<1>7. AddTo(w, all, source)
          = IF sum = all.value THEN all ELSE [value |-> sum, of |-> more]
  BY <1>2 DEF AddTo, ev, more
<1> HIDE DEF sum
<1>8. CASE sum = all.value
  BY <1>7, <1>8
<1>9. CASE sum # all.value
  <2>1. AddTo(w, all, source) = [value |-> ValueOf(Sents(w, more)), of |-> more]
    BY <1>6, <1>7, <1>9
  <2>2. InRoom(Sents(w, more))
    BY <1>6, <1>9
  <2> QED
    BY <1>5, <2>1, <2>2 DEF Held
<1> QED
  BY <1>8, <1>9

LEMMA NoneYetHeld ==
  ASSUME NEW w \in 1 .. 3
  PROVE  NoneYet \in Held(w)
<1>1. <<>> \in Seq(Stock) /\ Len(<<>>) = 0
  OBVIOUS
<1>2. Len(Sents(w, <<>>)) = 0
  BY <1>1, SentsAre
<1>3. InRoom(Sents(w, <<>>)) /\ ValueOf(Sents(w, <<>>)) = Values("linux")!Nowhere
  BY <1>2 DEF InRoom, ValueOf
<1> QED
  BY <1>1, <1>3 DEF Held, NoneYet

LEMMA AddsHeld ==
  ASSUME NEW w \in 1 .. 3, NEW sources \in Seq(Stock)
  PROVE  Adds(w, sources)[Len(sources)] \in Held(w)
<1> DEFINE n == Len(sources)
           S == Held(w)
           step(i, all) == AddTo(w, all, sources[i])
           G == [p \in (1 .. n) \X S |-> step(p[1], p[2])]
           IsAfter(f) == f = [i \in 0 .. n |->
                                 IF i = 0 THEN NoneYet ELSE step(i, f[i - 1])]
<1>0. n \in Nat /\ \A i \in 1 .. n : sources[i] \in Stock
  OBVIOUS
<1>00. \A i \in 1 .. n : \A all \in S : step(i, all) \in S
  BY <1>0, AddToHeld
<1>1. PICK f \in [0 .. n -> S] :
          f[0] = NoneYet /\ \A i \in 1 .. n : f[i] = G[<<i, f[i - 1]>>]
  <2>1. G \in Ways(n, S)
    <3> HIDE DEF step, S, n
    <3> QED
      BY <1>00 DEF Ways
  <2>2. NoneYet \in S
    BY NoneYetHeld
  <2>3. Leads(n, S, NoneYet, G)
    <3> HIDE DEF n, G, S
    <3> QED
      BY <1>0, <2>1, <2>2, IteratesAll, Zenon
  <2> HIDE DEF n, G, S
  <2> QED
    BY <2>3 DEF Leads, Follows
<1>2. \A i \in 1 .. n : f[i - 1] \in S /\ f[i] = step(i, f[i - 1])
  <2> SUFFICES ASSUME NEW i \in 1 .. n
               PROVE  f[i - 1] \in S /\ f[i] = step(i, f[i - 1])
    OBVIOUS
  <2>1. i - 1 \in 0 .. n
    BY <1>0
  <2> HIDE DEF step, S, n
  <2>2. f[i - 1] \in S
    BY <2>1, <1>1
  <2> QED
    BY <2>2, <1>1
<1> HIDE DEF G
<1>3. IsAfter(f)
  <2>1. f = [i \in 0 .. n |-> f[i]]
    BY <1>1
  <2>2. ASSUME NEW i \in 0 .. n
        PROVE  f[i] = IF i = 0 THEN NoneYet ELSE step(i, f[i - 1])
    <3>1. CASE i = 0
      BY <1>1, <3>1
    <3>2. CASE i # 0
      <4>1. i \in 1 .. n
        BY <1>0, <3>2
      <4> HIDE DEF S, n, step
      <4> QED
        BY <1>2, <3>2, <4>1
    <3> QED
      BY <3>1, <3>2
  <2> HIDE DEF n, step
  <2> QED
    BY <2>1, <2>2
<1>4. IsAfter(Adds(w, sources))
  <2> HIDE DEF IsAfter
  <2>1. Adds(w, sources) = CHOOSE after : IsAfter(after)
    BY DEF Adds, IsAfter
  <2> QED
    BY <1>3, <2>1
<1> DEFINE g == Adds(w, sources)
<1>5. g[0] = NoneYet /\ \A i \in 1 .. n : g[i] = step(i, g[i - 1])
  <2> HIDE DEF g, step
  <2>1. IsAfter(g)
    BY <1>4 DEF g
  <2>2. g[0] = NoneYet
    BY <1>0, <2>1
  <2>3. ASSUME NEW i \in 1 .. n PROVE g[i] = step(i, g[i - 1])
    <3>1. i \in 0 .. n /\ i # 0
      BY <1>0
    <3> QED
      BY <2>1, <3>1
  <2> QED
    BY <2>2, <2>3
<1> DEFINE U == {i \in 0 .. n : g[i] \in S}
<1>6. 0 \in U
  <2>1. NoneYet \in S /\ 0 \in 0 .. n
    BY <1>0, NoneYetHeld
  <2> HIDE DEF g, S, n
  <2> QED
    BY <2>1, <1>5
<1>7. ASSUME NEW i \in 1 .. n, i - 1 \in U PROVE i \in U
  <2>1. g[i - 1] \in S /\ g[i] = step(i, g[i - 1])
    BY <1>5, <1>7
  <2> HIDE DEF step, g, S
  <2>2. g[i] \in S /\ i \in 0 .. n
    BY <1>0, <1>00, <2>1
  <2> QED
    BY <2>2
<1>8. n \in U
  <2>1. \A i \in 0 .. n : i \in U
    <3> HIDE DEF U, n
    <3> QED
      BY <1>0, <1>6, <1>7, Climbing
  <2>2. n \in 0 .. n
    BY <1>0
  <2> HIDE DEF U, n
  <2> QED
    BY <2>1, <2>2
<1> HIDE DEF g, S, n
<1>9. g[n] \in S
  BY <1>8
<1> QED
  BY <1>9 DEF g, S, n

(* Whatever a server sends tells what was put into it.                      *)
LEMMA ServerValuesTell ==
  ASSUME NEW v, NEW data \in ServerValues(v)
  PROVE  /\ data.n \in Nat /\ data.caps = <<>>
         /\ TellsTrue(SC.CHANNELEXTENDEDVALUE_PACK_UPDATE, data)
<1> DEFINE w == MeterVersion(v)
<1>1. w \in 1 .. 3
  BY DEF MeterVersion
<1> HIDE DEF w
<1>2. PICK k \in 1 .. 3 : \E sources \in [1 .. k -> Stock] :
          data = [n |-> Values("linux")!Int32 +
                        Values("linux")!Stored(Adds(w, sources)[Len(sources)].value),
                  caps |-> <<>>,
                  value |-> Adds(w, sources)[Len(sources)].value,
                  of |-> Adds(w, sources)[Len(sources)].of, upTo |-> w]
  <2>1. data \in {[n |-> Values("linux")!Int32 +
                         Values("linux")!Stored(Adds(w, sources)
                                                    [Len(sources)].value),
                   caps |-> <<>>,
                   value |-> Adds(w, sources)[Len(sources)].value,
                   of |-> Adds(w, sources)[Len(sources)].of, upTo |-> w] :
                     sources \in UNION {[1 .. k -> Stock] : k \in 1 .. 3}}
    BY ServerValuesAre, Zenon DEF w
  <2> QED
    BY <2>1, Zenon
<1>3. PICK sources \in [1 .. k -> Stock] :
          data = [n |-> Values("linux")!Int32 +
                        Values("linux")!Stored(Adds(w, sources)[Len(sources)].value),
                  caps |-> <<>>,
                  value |-> Adds(w, sources)[Len(sources)].value,
                  of |-> Adds(w, sources)[Len(sources)].of, upTo |-> w]
  BY <1>2
<1> DEFINE all == Adds(w, sources)[Len(sources)]
<1>4. all \in Held(w)
  <2>1. sources \in Seq(Stock)
    OBVIOUS
  <2> QED
    BY <1>1, <2>1, AddsHeld
<1>5. /\ data.n = Values("linux")!Int32 + Values("linux")!Stored(all.value)
      /\ data.caps = <<>> /\ data.value = all.value /\ data.of = all.of
      /\ data.upTo = w
  BY <1>3
<1> HIDE DEF all
<1>6. PICK of \in Seq(Stock) :
          /\ InRoom(Sents(w, of))
          /\ all = [value |-> ValueOf(Sents(w, of)), of |-> of]
  BY <1>4 DEF Held
<1> DEFINE evs == Sents(w, of)
<1>7. all.value = ValueOf(evs) /\ all.of = of
  BY <1>6
<1>8. /\ Row(evs, Goods(w)) /\ Len(evs) = Len(of)
      /\ \A i \in 1 .. Len(of) : evs[i] = SentTo(w, of[i])
  BY <1>1, SentsAre
<1>9. DOMAIN of = 1 .. Len(of) /\ Len(of) \in Nat
      /\ \A i \in 1 .. Len(of) : of[i] \in Stock
  BY Elements
<1>10. InRoom(evs)
  BY <1>6
<1> HIDE DEF evs
<1>11. data.n \in Nat
  <2>1. ValueOf(evs).size \in Nat
    BY <1>8, ValueOfSize
  <2>2. Values("linux")!Stored(all.value) = 5 + ValueOf(evs).size
    BY <1>7, <2>1, StoredIs
  <2>3. Values("linux")!Int32 = 4
    BY DEF Values!Int32
  <2> QED
    BY <1>5, <2>1, <2>2, <2>3
<1>12. /\ \A k1 \in 1 .. Len(evs) :
              Values("linux")!srpc_evtool_value_get(ValueOf(evs), k1 - 1) = evs[k1]
       /\ Values("linux")!srpc_evtool_value_get(ValueOf(evs), Len(evs))
              = Values("linux")!Nowhere
  BY <1>8, <1>10, GetIs
<1>13. \A i \in DOMAIN data.of :
           Reads(data.of[i],
                 Values("linux")!srpc_evtool_value_get(data.value, i - 1),
                 data.upTo)
  <2> SUFFICES ASSUME NEW i \in 1 .. Len(of)
               PROVE  Reads(of[i],
                            Values("linux")!srpc_evtool_value_get(ValueOf(evs), i - 1),
                            w)
    BY <1>5, <1>7, <1>9
  <2>1. Values("linux")!srpc_evtool_value_get(ValueOf(evs), i - 1)
            = SentTo(w, of[i])
    BY <1>8, <1>12
  <2>2. Reads(of[i], SentTo(w, of[i]), w)
    BY <1>1, <1>9, StockTells
  <2> QED
    BY <2>1, <2>2
<1>14. Values("linux")!srpc_evtool_value_get(data.value, Len(data.of))
           = Values("linux")!Nowhere
  BY <1>5, <1>7, <1>8, <1>12
<1>15. SC.CHANNELEXTENDEDVALUE_PACK_UPDATE
           # DS.DEVICE_CHANNEL_EXTENDEDVALUE_CHANGED
  <2>1. DS.DEVICE_CHANNEL_EXTENDEDVALUE_CHANGED = 105
        /\ SC.CHANNELEXTENDEDVALUE_PACK_UPDATE = 405
    BY CallNumbers
  <2> QED
    BY <2>1
<1>16. TellsTrue(SC.CHANNELEXTENDEDVALUE_PACK_UPDATE, data)
  BY <1>13, <1>14, <1>15, Zenon DEF TellsTrue
<1> QED
  BY <1>5, <1>11, <1>16

-----------------------------------------------------------------------------
(***************************************************************************)
(* Packets                                                                 *)
(***************************************************************************)

(* The tables by the machine and the call.                                  *)
LEMMA Tables ==
  ASSUME NEW b \in DOMAIN MaxDataSize, NEW call \in Calls
  PROVE  /\ Async[b][call] = Wire(b)!Async(call)
         /\ GetData[b][call] = Wire(b)!GetData(call)
  BY DEF Async, GetData

LEMMA Machines ==
  ASSUME peer \in Peers, NEW end \in Ends
  PROVE  /\ Build(end) \in DOMAIN MaxDataSize
         /\ Other(end) \in Ends /\ Other(Other(end)) = end
         /\ peer.role = "client" => Build(end) = "linux"
         /\ end = "server" => Build(end) = "linux"
         /\ peer.role \in {"device", "client"}
  BY CallsAssumption DEF Peers, Build, Ends, Other, MaxDataSize

LEMMA CallsAreCalls ==
  ASSUME peer \in Peers, NEW end \in Ends, NEW call \in CallsOf(end)
  PROVE  /\ call \in Calls
         /\ peer.role = "device" => call \in FromDevice \cup ToDevice
         /\ call \in {405, 1040} => peer.role = "client" /\ end = "server"
         /\ call = 105 => peer.role = "device" /\ end = "peer"
<1>1. \/ end = "peer" /\ peer.role = "device" /\ call \in FromDevice
      \/ end = "peer" /\ peer.role = "client" /\ call \in FromClient
      \/ end = "server" /\ peer.role = "device" /\ call \in ToDevice
      \/ end = "server" /\ peer.role = "client" /\ call \in ToClient
  BY Machines DEF CallsOf, Ends
<1>2. {405, 1040} \cap (FromDevice \cup FromClient \cup ToDevice) = {}
  BY Directions, CallNumbers DEF FromDevice, FromClient, ToDevice
<1>3. 105 \notin FromClient \cup ToDevice \cup ToClient
  BY Directions, CallNumbers DEF ToClient, FromClient, ToDevice
<1> QED
  BY <1>1, <1>2, <1>3 DEF Calls

(* The form in which a call is written and the one in which it is read.     *)
LEMMA Crossing ==
  ASSUME peer \in Peers, NEW end \in Ends, NEW call \in CallsOf(end)
  PROVE  /\ Sound(Async[Build(end)][call], 10240)
         /\ Matches(Async[Build(end)][call], GetData[Build(Other(end))][call])
<1> DEFINE b == Build(end)
           b2 == Build(Other(end))
<1>1. b \in DOMAIN MaxDataSize /\ b2 \in DOMAIN MaxDataSize /\ call \in Calls
  BY Machines, CallsAreCalls
<1> HIDE DEF b, b2
<1>2. /\ Async[b][call] = Wire(b)!Async(call)
      /\ Async[b2][call] = Wire(b2)!Async(call)
      /\ GetData[b2][call] = Wire(b2)!GetData(call)
  BY <1>1, Tables
<1>3. Sound(Wire(b)!Async(call), 10240)
  BY <1>1, AsyncSound
<1>4. Matches(Wire(b2)!Async(call), Wire(b2)!GetData(call))
  BY <1>1, ReadsWhatItWrites
<1>5. Matches(Wire(b)!Async(call), Wire(b2)!GetData(call))
  <2>1. CASE call \in {405, 1040}
    <3>1. b = b2
      BY <2>1, CallsAreCalls, Machines DEF b, b2
    <3> QED
      BY <1>4, <3>1
  <2>2. CASE call = 105
    <3>1. b2 = "linux"
      BY <2>2, CallsAreCalls, Machines DEF b2, Other
    <3>2. /\ Wire(b)!Async(call) = Items(1, Counted(6, 1, ExtendedValueSize[b]))
          /\ Wire(b2)!Async(call) = Items(1, Counted(6, 1, ExtendedValueSize[b2]))
      BY <2>2, AsyncIs, AsyncDeviceValuesSays
    <3>3. ExtendedValueSize[b] \in {256, 1024} /\ ExtendedValueSize[b2] = 1024
      BY <1>1, <3>1, Sizes DEF ExtendedValueSize
    <3> QED
      BY <1>4, <3>2, <3>3 DEF Matches, Items, Counted
  <2>3. CASE call \notin {105, 405, 1040}
    <3>1. Wire(b)!Async(call) = Wire(b2)!Async(call)
      BY <1>1, <2>3, AsyncSame
    <3> QED
      BY <1>4, <3>1
  <2> QED
    BY <2>1, <2>2, <2>3
<1> QED
  BY <1>2, <1>3, <1>5 DEF b, b2

(* The calls that are sent in chunks if they are too large.                 *)
Registrations == {DS.REGISTER_DEVICE, DS.REGISTER_DEVICE_B,
                  DS.REGISTER_DEVICE_C, DS.REGISTER_DEVICE_D,
                  DS.REGISTER_DEVICE_E, DS.REGISTER_DEVICE_F,
                  DS.REGISTER_DEVICE_G}

LEMMA RegistrationsAre == Registrations = {60, 65, 67, 68, 69, 75, 76}
  BY CallNumbers DEF Registrations

LEMMA WithinMore ==
  ASSUME NEW e, NEW k \in Nat, NEW m \in Nat, k <= m, IsForm(e), Within(e, k)
  PROVE  Within(e, m)
<1>1. CASE e.form = "none"
  BY <1>1 DEF Within
<1>2. CASE e.form = "whole"
  BY <1>2 DEF Within, IsForm
<1>3. CASE e.form \in {"items", "pack"}
  <2>1. e.layout.fixed \in Nat /\ e.layout.item \in Nat /\ e.layout.max \in Nat
    BY <1>3 DEF IsForm, IsLayout
  <2>2. e.layout.fixed + e.layout.item * e.layout.max \in Nat
    BY <2>1
  <2> QED
    BY <1>3, <2>2 DEF Within
<1> QED
  BY <1>1, <1>2, <1>3 DEF IsForm

(* Every other call fits in a packet of its sender, and every call in one   *)
(* of its receiver.                                                         *)
LEMMA PacketsFit ==
  ASSUME peer \in Peers, NEW end \in Ends, NEW call \in CallsOf(end)
  PROVE  /\ call \notin Registrations =>
                Within(Async[Build(end)][call], MaxDataSize[Build(end)])
         /\ Within(Async[Build(end)][call], MaxDataSize[Build(Other(end))])
<1> DEFINE b == Build(end)
           b2 == Build(Other(end))
<1>1. b \in DOMAIN MaxDataSize /\ b2 \in DOMAIN MaxDataSize /\ call \in Calls
  BY Machines, CallsAreCalls
<1>2. /\ b # "linux" => end = "peer" /\ peer.role = "device" /\ b2 = "linux"
      /\ b2 # "linux" => end = "server" /\ peer.role = "device" /\ b = "linux"
  <2>1. /\ Build("server") = "linux"
        /\ peer.role = "client" => Build("peer") = "linux"
        /\ peer.role \in {"device", "client"}
    BY Machines DEF Ends
  <2>2. Other("peer") = "server" /\ Other("server") = "peer"
    BY DEF Other
  <2> QED
    BY <2>1, <2>2 DEF Ends
<1>3. MaxDataSize["linux"] = 10240
  BY DEF MaxDataSize
<1>4. Sound(Async[b][call], 10240)
  BY Crossing
<1>5. /\ MaxDataSize[b] \in Nat /\ MaxDataSize[b] >= 600
      /\ MaxDataSize[b2] \in Nat /\ MaxDataSize[b2] >= 600
      /\ 6 + ExtendedValueSize[b] <= MaxDataSize[b]
      /\ ExtendedValueSize[b] \in {256, 1024}
  BY <1>1, Sizes
<1> HIDE DEF b, b2
<1>6. Async[b][call] = Wire(b)!Async(call)
  BY <1>1, Tables
<1>7. ASSUME peer.role = "device", call \notin Registrations, call # 105
      PROVE  Within(Async[b][call], 600)
  <2>1. call \in (FromDevice \cup ToDevice)
                   \ ({60, 65, 67, 68, 69, 75, 76} \cup {105})
    BY <1>7, CallsAreCalls, RegistrationsAre
  <2> QED
    BY <1>1, <1>6, <2>1, DeviceCallsSmall
<1>8. ASSUME call \notin Registrations PROVE Within(Async[b][call], MaxDataSize[b])
  <2>1. CASE b = "linux"
    BY <1>3, <1>4, <2>1 DEF Sound
  <2>2. CASE b # "linux" /\ call # 105
    BY <1>2, <1>4, <1>5, <1>7, <1>8, <2>2, WithinMore DEF Sound
  <2>3. CASE call = 105
    <3>1. Wire(b)!Async(call) = Items(1, Counted(6, 1, ExtendedValueSize[b]))
      BY <2>3, AsyncIs, AsyncDeviceValuesSays
    <3> QED
      BY <1>5, <1>6, <3>1 DEF Within, Items, Counted
  <2> QED
    BY <2>1, <2>2, <2>3
<1>9. Within(Async[b][call], MaxDataSize[b2])
  <2>1. CASE b2 = "linux"
    BY <1>3, <1>4, <2>1 DEF Sound
  <2>2. CASE b2 # "linux"
    <3>1. call \notin Registrations /\ call # 105
      <4>1. call \in ToDevice
        BY <1>2, <2>2 DEF CallsOf
      <4> QED
        BY <4>1, RegistrationsAre, Directions, CallNumbers DEF ToDevice
    <3> QED
      BY <1>2, <1>4, <1>5, <1>7, <2>2, <3>1, WithinMore DEF Sound
  <2> QED
    BY <2>1, <2>2
<1> QED
  BY <1>8, <1>9 DEF b, b2

(* The bodies that applications pass are in the form of their call.         *)
LEMMA PlainFits ==
  ASSUME NEW e, IsForm(e), NEW data \in Plain(e)
  PROVE  Fit(e, data) /\ "of" \notin DOMAIN data
<1>1. CASE e.form = "none"
  <2>1. data = Nothing
    BY <1>1 DEF Plain
  <2> QED
    BY <1>1, <2>1 DEF Fit, IsBody, Nothing
<1>2. CASE e.form = "whole"
  <2>1. PICK size \in e.sizes : data = [n |-> size, caps |-> <<>>]
    BY <1>2 DEF Plain
  <2> QED
    BY <1>2, <2>1 DEF Fit, IsBody, IsForm
<1>3. CASE e.form = "items"
  <2>1. PICK n \in {0, 1, e.layout.max, e.layout.max + 1} :
            data = [n |-> n, caps |-> <<>>]
    BY <1>3 DEF Plain
  <2>2. n \in Nat
    BY <1>3 DEF IsForm, IsLayout
  <2> QED
    BY <1>3, <2>1, <2>2 DEF Fit, IsBody
<1>4. CASE e.form = "pack"
  <2> DEFINE most == e.layout.max
             long == e.item.max
             uniform == {Captions(k, c) : k \in {0, 1, most, most + 1},
                                          c \in {0, long, long + 1}}
  <2>1. PICK caps \in uniform \cup {<<long + 1, long, 0>>, <<0, long + 1, long>>} :
            data = [n |-> Len(caps), caps |-> caps]
    BY <1>4 DEF Plain
  <2>2. most \in Nat /\ long \in Nat
    BY <1>4 DEF IsForm, IsLayout
  <2>3. caps \in Seq(Nat)
    <3>1. CASE caps \in uniform
      <4>1. PICK k \in {0, 1, most, most + 1}, c \in {0, long, long + 1} :
                caps = Captions(k, c)
        BY <3>1
      <4>2. k \in Nat /\ c \in Nat
        BY <2>2
      <4> QED
        BY <4>1, <4>2 DEF Captions
    <3>2. CASE caps = <<long + 1, long, 0>>
      BY <2>2, <3>2
    <3>3. CASE caps = <<0, long + 1, long>>
      BY <2>2, <3>3
    <3> QED
      BY <2>1, <3>1, <3>2, <3>3
  <2>4. Len(caps) \in Nat
    BY <2>3
  <2> HIDE DEF uniform
  <2> QED
    BY <1>4, <2>1, <2>3, <2>4 DEF Fit, IsBody
<1> QED
  BY <1>1, <1>2, <1>3, <1>4 DEF IsForm

LEMMA BodiesFit ==
  ASSUME peer \in Peers, NEW end \in Ends, NEW call \in CallsOf(end),
         NEW data \in Bodies(end, call)
  PROVE  Fit(Async[Build(end)][call], data) /\ TellsTrue(call, data)
<1> DEFINE e == Async[Build(end)][call]
<1>1. Sound(e, 10240) /\ call \in Calls /\ Build(end) \in DOMAIN MaxDataSize
  BY Crossing, CallsAreCalls, Machines
<1>2. CASE call = 105
  <2>1. end = "peer" /\ data \in DeviceValues(peer.build) /\ Build(end) = peer.build
    BY <1>2, CallsAreCalls, CallNumbers DEF Bodies, Build
  <2>2. data.n \in Nat /\ data.caps = <<>> /\ TellsTrue(call, data)
    <3>1. peer.build \in DOMAIN MaxDataSize
      BY <1>1, <2>1
    <3>2. call = DS.DEVICE_CHANNEL_EXTENDEDVALUE_CHANGED
      BY <1>2, CallNumbers
    <3> QED
      BY <2>1, <3>1, <3>2, DeviceValuesTell
  <2>3. e.form = "items"
    <3>1. e = Items(1, Counted(6, 1, ExtendedValueSize[Build(end)]))
      BY <1>1, <1>2, AsyncIs, AsyncDeviceValuesSays, Tables
    <3> QED
      BY <3>1 DEF Items
  <2> HIDE DEF e
  <2> QED
    BY <2>2, <2>3 DEF Fit, IsBody, e
<1>3. CASE call = 405
  <2>1. end = "server" /\ Build(end) = "linux"
    BY <1>3, CallsAreCalls, Machines
  <2>2. data \in ServerValues(version[end]) \cup Plain(e)
    BY <1>3, <2>1, CallNumbers DEF Bodies
  <2>3. CASE data \in Plain(e)
    BY <1>1, <1>3, <2>3, PlainFits, CallNumbers DEF Sound, TellsTrue
  <2>4. CASE data \in ServerValues(version[end])
    <3>1. data.n \in Nat /\ data.caps = <<>> /\ TellsTrue(call, data)
      BY <1>3, <2>4, ServerValuesTell, CallNumbers
    <3>2. e.form = "items"
      <4>1. e = Items(1, Counted(12, 1, MaxDataSize[Build(end)] - 50))
        BY <1>1, <1>3, AsyncIs, AsyncValuePacksSays, Tables
      <4> QED
        BY <4>1 DEF Items
    <3> HIDE DEF e
    <3> QED
      BY <3>1, <3>2 DEF Fit, IsBody, e
  <2> QED
    BY <2>2, <2>3, <2>4
<1>4. CASE call \notin {105, 405}
  <2>1. data \in Plain(e)
    BY <1>4, CallNumbers DEF Bodies
  <2> QED
    BY <1>1, <1>4, <2>1, PlainFits, CallNumbers DEF Sound, TellsTrue
<1> QED
  BY <1>2, <1>3, <1>4

(* A packet as the other end finds it.                                      *)
Arrives(to, by, call, data, pk) ==
    LET e == GetData[Build(to)][call]
    IN  /\ to = Other(by) /\ call \in CallsOf(by)
        /\ pk.size <= MaxDataSize[Build(to)]
        /\ pk.data = Wire(Build(by))!Sent(Async[Build(by)][call], data)
        /\ Wire(Build(to))!Readable(e, pk.size, pk.data)
        /\ pk.shape = Wire(Build(to))!Shape(e)
        /\ e.form = "none" => pk.data = Nothing
        /\ call \in {105, 405} => pk.data = data

(* The fields of a packet.                                                  *)
LEMMA PacketParts ==
  ASSUME NEW end, NEW call, NEW data, NEW v
  PROVE  LET pk == PacketOf(end, call, data, v)
             b == Build(end)
             e == Async[b][call]
         IN  /\ pk.to = Other(end) /\ pk.version = v /\ pk.call = call
             /\ pk.size = Wire(b)!SentSize(e, Wire(b)!Sent(e, data))
             /\ pk.shape = Wire(b)!Shape(e)
             /\ pk.data = Wire(b)!Sent(e, data)
  BY DEF PacketOf

(* A packet that was sent arrives.                                          *)
LEMMA Sending ==
  ASSUME peer \in Peers, NEW end \in Ends, NEW call \in CallsOf(end), NEW data,
         Fit(Async[Build(end)][call], data),
         Wire(Build(end))!Accepts(Async[Build(end)][call], data), NEW v \in Nat
  PROVE  LET pk == PacketOf(end, call, data, v)
         IN  /\ IsPacket(pk) /\ Arrives(Other(end), end, call, data, pk)
             /\ call \notin Registrations => pk.size <= MaxDataSize[Build(end)]
<1> DEFINE b == Build(end)
           b2 == Build(Other(end))
           e == Async[b][call]
           e2 == GetData[b2][call]
           pk == PacketOf(end, call, data, v)
           sent == Wire(b)!Sent(e, data)
<1>1. /\ b \in DOMAIN MaxDataSize /\ b2 \in DOMAIN MaxDataSize
      /\ Other(end) \in Ends /\ call \in Calls
  BY Machines, CallsAreCalls
<1>2. Sound(e, 10240) /\ Matches(e, e2)
  BY Crossing
<1>3. call \notin Registrations => Within(e, MaxDataSize[b])
  BY PacketsFit
<1>4. Within(e, MaxDataSize[b2])
  BY PacketsFit
<1>5. /\ pk.to = Other(end) /\ pk.version = v /\ pk.call = call
      /\ pk.size = Wire(b)!SentSize(e, sent)
      /\ pk.shape = Wire(b)!Shape(e)
      /\ pk.data = sent
  BY PacketParts
<1>6. MaxDataSize[b] \in Nat /\ MaxDataSize[b2] \in Nat
  BY <1>1, Sizes
<1>7. Fit(e, data) /\ Wire(b)!Accepts(e, data)
  OBVIOUS
<1>8. call \in {105, 405} => e.form = "items"
  BY <1>1, AsyncIs, AsyncDeviceValuesSays, AsyncValuePacksSays, Tables DEF Items
<1>9. call \in {105, 405} => sent = data
  BY <1>8 DEF Wire!Sent
<1> HIDE DEF b, b2, e, e2, pk, sent
<1>10. IsForm(e)
  BY <1>2 DEF Sound
<1>11. Fits(e, sent)
  BY <1>7, <1>10, SentFits DEF sent
<1>12. Wire(b)!SentSize(e, sent) \in Nat /\ Wire(b)!SentSize(e, sent) <= MaxDataSize[b2]
  BY <1>4, <1>6, <1>10, <1>11, SentSizes
<1>13. call \notin Registrations => Wire(b)!SentSize(e, sent) <= MaxDataSize[b]
  BY <1>3, <1>6, <1>10, <1>11, SentSizes
<1>14. /\ Wire(b2)!Readable(e2, Wire(b)!SentSize(e, sent), sent)
       /\ Wire(b2)!Shape(e2) = Wire(b)!Shape(e)
  BY <1>2, <1>10, <1>11, SentIsReadable
<1>15. Wire(b)!Shape(e) \in Seq(Nat)
  BY <1>10 DEF Wire!Shape, IsForm, IsLayout
<1>16. IsPacket(pk)
  BY <1>1, <1>5, <1>11, <1>12, <1>15 DEF IsPacket, Fits
<1>17. e2.form = "none" => sent = Nothing
  BY <1>2, <1>11 DEF Matches, Fits
<1>18. Arrives(Other(end), end, call, data, pk)
  BY <1>5, <1>9, <1>12, <1>14, <1>17 DEF Arrives, b, b2, e, e2, sent
<1> QED
  BY <1>5, <1>13, <1>16, <1>18 DEF pk, b

-----------------------------------------------------------------------------
(***************************************************************************)
(* The packet on the wire                                                  *)
(*                                                                         *)
(* What makes TypeOK, Understood and ValuesTold inductive is that the      *)
(* packet on the wire is what was said, and that it arrives: it fits in    *)
(* the buffers of both ends and has a form that its reader knows.          *)
(***************************************************************************)

PacketSound ==
    packet.to \in Ends =>
        /\ said.by \in Ends /\ packet.call = said.call
        /\ Arrives(packet.to, said.by, said.call, said.data, packet)
        /\ TellsTrue(said.call, said.data)

CallsInv ==
    /\ TypeOK /\ PacketSound
    /\ Understood /\ ValuesTold /\ OnlyRegistrationsTooLarge

(* It goes on to arrive while the two ends stay what they are.              *)
LEMMA ArrivesStays ==
  ASSUME peer' = peer, NEW to, NEW by, NEW call, NEW data, NEW pk,
         Arrives(to, by, call, data, pk)
  PROVE  Arrives(to, by, call, data, pk)'
  BY DEF Arrives, Build, CallsOf

LEMMA Unsaid ==
  ASSUME heard' = Silence
  PROVE  Understood' /\ ValuesTold'
  BY DEF Understood, ValuesTold, Silence

LEMMA CallsInvInit == Init => CallsInv
<1> SUFFICES ASSUME Init PROVE CallsInv
  OBVIOUS
<1>1. peer.proto \in PeerVersions /\ server \in ServerVersions
  BY DEF Init, Peers
<1>2. version \in [Ends -> PeerVersions \cup ServerVersions]
  BY <1>1 DEF Init, Ends
<1>3. TypeOK
  BY <1>1, <1>2 DEF Init, TypeOK
<1>4. PacketSound
  BY DEF Init, PacketSound, NoPacket, Ends
<1>5. Understood /\ ValuesTold
  BY DEF Init, Understood, ValuesTold, Silence
<1>6. OnlyRegistrationsTooLarge
  BY DEF Init, OnlyRegistrationsTooLarge, Silence
<1> QED
  BY <1>3, <1>4, <1>5, <1>6 DEF CallsInv

(* A packet that an end has just sent. *)
LEMMA SentSound ==
  ASSUME TypeOK, UNCHANGED <<peer, server, version, adopted>>,
         NEW end \in Ends, NEW call \in CallsOf(end), NEW data,
         IsBody(data), TellsTrue(call, data),
         said' = [by |-> end, call |-> call, data |-> data,
                  result |-> "sent"],
         NEW pk, packet' = pk, IsPacket(pk), pk.call = call, pk.to = Other(end),
         Arrives(Other(end), end, call, data, pk)
  PROVE  PacketSound' /\ OnlyRegistrationsTooLarge' /\ IsPacket(packet)'
         /\ (\/ said' = Silence
             \/ /\ said'.by \in Ends /\ said'.call \in Calls /\ IsBody(said'.data)
                /\ said'.result \in {"sent", "not accepted", "not allowed",
                                     "too large"})
<1>1. peer \in Peers
  BY DEF TypeOK
<1>2. call \in Calls
  BY <1>1, CallsAreCalls
<1>3. /\ said'.by = end /\ said'.call = call /\ said'.data = data
      /\ said'.result = "sent"
  OBVIOUS
<1>4. PacketSound'
  <2>1. Arrives(Other(end), end, call, data, pk)'
    BY ArrivesStays
  <2>2. TellsTrue(call, data)'
    BY DEF TellsTrue
  <2>3. Arrives(packet.to, said.by, said.call, said.data, packet)'
    BY <1>3, <2>1 DEF Arrives, Build, CallsOf
  <2>4. TellsTrue(said.call, said.data)'
    BY <1>3, <2>2 DEF TellsTrue
  <2> QED
    BY <1>3, <2>3, <2>4 DEF PacketSound
<1>5. OnlyRegistrationsTooLarge'
  BY <1>3 DEF OnlyRegistrationsTooLarge
<1>6. IsPacket(packet)'
  BY DEF IsPacket, IsBody
<1> QED
  BY <1>2, <1>3, <1>4, <1>5, <1>6

LEMMA TypesStay ==
  ASSUME TypeOK, UNCHANGED <<peer, server, version, adopted>>
  PROVE  /\ (peer \in Peers)' /\ (server \in ServerVersions)'
         /\ (version \in [Ends -> PeerVersions \cup ServerVersions])'
         /\ (adopted \in BOOLEAN)'
  BY DEF TypeOK, Peers

LEMMA NotTooLarge ==
  ASSUME peer \in Peers, NEW end \in Ends, NEW call \in CallsOf(end), NEW data,
         Fit(Async[Build(end)][call], data),
         Wire(Build(end))!Accepts(Async[Build(end)][call], data), NEW v \in Nat,
         PacketOf(end, call, data, v).size > MaxDataSize[Build(end)]
  PROVE  call \in Registrations
<1> SUFFICES ASSUME call \notin Registrations PROVE FALSE
  OBVIOUS
<1> DEFINE sent == PacketOf(end, call, data, v)
           limit == MaxDataSize[Build(end)]
<1>1. IsPacket(sent) /\ sent.size <= limit
  BY Sending
<1>2. sent.size > limit
  OBVIOUS
<1>3. limit \in Nat
  <2>1. Build(end) \in DOMAIN MaxDataSize
    BY Machines
  <2> QED
    BY <2>1, Sizes
<1> HIDE DEF sent, limit
<1>4. sent.size \in Nat
  BY <1>1 DEF IsPacket
<1> QED
  BY <1>1, <1>2, <1>3, <1>4

(* A call of either application.                                            *)
LEMMA CallKeeps ==
  ASSUME VersionInv, CallsInv, NEW end \in Ends, Call(end)
  PROVE  CallsInv'
<1>0. PICK call \in CallsOf(end) :
          \E data \in Bodies(end, call) : srpc_async_call(end, call, data)
  BY DEF Call
<1>1. PICK data \in Bodies(end, call) : srpc_async_call(end, call, data)
  BY <1>0
<1> DEFINE b == Build(end)
           e == Async[b][call]
           pk == PacketOf(end, call, data, version[end])
<1>2. UNCHANGED <<peer, server, version, adopted>> /\ peer \in Peers /\ TypeOK
  BY DEF Call, CallsInv, TypeOK
<1>3. Fit(e, data) /\ TellsTrue(call, data) /\ IsBody(data) /\ call \in Calls
  BY <1>2, BodiesFit, CallsAreCalls DEF Fit
<1>4. version[end] \in Nat
  BY DEF VersionInv, VersionsAgree
<1>5. heard' = Silence
  BY <1>1 DEF srpc_async_call
<1>6. Understood' /\ ValuesTold'
  BY <1>5, Unsaid
<1>7. CASE said'.result = "sent"
  <2>1. /\ Wire(b)!Accepts(e, data)
        /\ packet' = pk
        /\ said' = [by |-> end, call |-> call, data |-> data, result |-> "sent"]
    BY <1>1, <1>7 DEF srpc_async_call
  <2>2. IsPacket(pk) /\ Arrives(Other(end), end, call, data, pk)
    BY <1>2, <1>3, <1>4, <2>1, Sending
  <2>3. pk.to = Other(end) /\ pk.call = call
    BY PacketParts
  <2> HIDE DEF b, e, pk
  <2>4. PacketSound' /\ OnlyRegistrationsTooLarge' /\ IsPacket(packet)'
         /\ (\/ said' = Silence
             \/ /\ said'.by \in Ends /\ said'.call \in Calls /\ IsBody(said'.data)
                /\ said'.result \in {"sent", "not accepted", "not allowed",
                                     "too large"})
    BY <1>2, <1>3, <2>1, <2>2, <2>3, SentSound
  <2>5. TypeOK'
    BY <1>2, <1>5, <2>4, TypesStay DEF TypeOK, IsBody
  <2> QED
    BY <1>6, <2>4, <2>5 DEF CallsInv
<1>8. CASE said'.result # "sent"
  <2>1. /\ packet' = NoPacket
        /\ said'.by = end /\ said'.call = call /\ said'.data = data
        /\ said'.result \in {"not accepted", "not allowed", "too large"}
        /\ said'.result = "too large" =>
               Wire(b)!Accepts(e, data) /\ pk.size > MaxDataSize[b]
    BY <1>1, <1>8 DEF srpc_async_call
  <2>2. said'.result = "too large" => call \in Registrations
    BY <1>2, <1>3, <1>4, <2>1, NotTooLarge
  <2>3. PacketSound'
    BY <2>1 DEF PacketSound, NoPacket, Ends
  <2>4. OnlyRegistrationsTooLarge'
    BY <2>1, <2>2 DEF OnlyRegistrationsTooLarge, Registrations
  <2>5. TypeOK'
    BY <1>2, <1>3, <1>5, <2>1, TypesStay DEF TypeOK, IsBody
  <2> QED
    BY <1>6, <2>3, <2>4, <2>5 DEF CallsInv
<1> QED
  BY <1>7, <1>8

(* A registration in chunks.                                                *)
LEMMA ChunksKeep ==
  ASSUME VersionInv, CallsInv, registerdevice_in_chunks_g
  PROVE  CallsInv'
<1> DEFINE call == DS.REGISTER_DEVICE_G
<1>1. PICK data \in Bodies("peer", call) :
          /\ Wire(peer.build)!Accepts(Async[peer.build][call], data)
          /\ packet' = PacketOf("peer", call, data, version["peer"])
          /\ said' = [by |-> "peer", call |-> call, data |-> data,
                      result |-> "sent"]
  BY DEF registerdevice_in_chunks_g
<1> DEFINE pk == PacketOf("peer", call, data, version["peer"])
<1>2. UNCHANGED <<peer, server, version, adopted>> /\ peer \in Peers /\ TypeOK
      /\ heard' = Silence /\ "peer" \in Ends /\ Build("peer") = peer.build
  BY DEF registerdevice_in_chunks_g, CallsInv, TypeOK, Ends, Build
<1>3. call \in CallsOf("peer")
  BY Directions, CallNumbers DEF registerdevice_in_chunks_g, CallsOf, FromDevice
<1>4. /\ Fit(Async[Build("peer")][call], data) /\ TellsTrue(call, data)
      /\ IsBody(data)
  BY <1>2, <1>3, BodiesFit DEF Fit
<1>5. version["peer"] \in Nat
  BY <1>2 DEF VersionInv, VersionsAgree
<1>6. IsPacket(pk) /\ Arrives(Other("peer"), "peer", call, data, pk)
  BY <1>1, <1>2, <1>3, <1>4, <1>5, Sending
<1>7. pk.to = Other("peer") /\ pk.call = call
  BY PacketParts
<1> HIDE DEF pk, call
<1>8. PacketSound' /\ OnlyRegistrationsTooLarge' /\ IsPacket(packet)'
      /\ (\/ said' = Silence
          \/ /\ said'.by \in Ends /\ said'.call \in Calls /\ IsBody(said'.data)
             /\ said'.result \in {"sent", "not accepted", "not allowed",
                                  "too large"})
  BY <1>1, <1>2, <1>3, <1>4, <1>6, <1>7, SentSound DEF pk
<1>9. TypeOK'
  BY <1>2, <1>8, TypesStay DEF TypeOK, IsBody
<1> QED
  BY <1>2, <1>8, <1>9, Unsaid DEF CallsInv

(* A ping.                                                                  *)
LEMMA PingKeeps ==
  ASSUME VersionInv, CallsInv, PingOfOldDevice
  PROVE  CallsInv'
<1> DEFINE call == DCS.PING_SERVER
           data == [n |-> Wire(peer.build)!TDCS_SuplaPingServer, caps |-> <<>>]
           size == Wire(peer.build)!TDCS_SuplaPingServer_COMPAT
           pk == PacketOf("peer", call, data, version["peer"])
           cut == [pk EXCEPT !.size = size]
           e == Async[peer.build][call]
<1>1. /\ packet' = cut
      /\ said' = [by |-> "peer", call |-> call, data |-> data,
                  result |-> "sent"]
  BY DEF PingOfOldDevice
<1>2. UNCHANGED <<peer, server, version, adopted>> /\ peer \in Peers /\ TypeOK
      /\ heard' = Silence /\ "peer" \in Ends /\ Build("peer") = peer.build
      /\ Build(Other("peer")) = "linux"
  BY DEF PingOfOldDevice, CallsInv, TypeOK, Ends, Build, Other
<1>3. call = 40 /\ call \in CallsOf("peer")
  BY Directions, CallNumbers DEF PingOfOldDevice, CallsOf, FromDevice
<1>4. data.n = 16 /\ data.caps = <<>> /\ size = 8 /\ IsBody(data)
  BY DEF Wire!TDCS_SuplaPingServer, Wire!TDCS_SuplaPingServer_COMPAT,
         Wire!Timeval, Wire!TimevalCompat, Wire!Int64, Wire!Int32, IsBody
<1>5. peer.build \in DOMAIN MaxDataSize /\ "linux" \in DOMAIN MaxDataSize
      /\ call \in Calls
  BY <1>2, <1>3, Machines, CallsAreCalls DEF MaxDataSize
<1>6. e.form = "whole" /\ 16 \in e.sizes
  BY <1>3, <1>5, AsyncIs, AsyncCommonSays, Tables DEF Sized
<1>7. GetData["linux"][call] = Sized({16, 8})
  BY <1>3, <1>5, PingReads, Tables
<1> HIDE DEF data, call, e
<1>8. Fit(e, data) /\ Wire(peer.build)!Accepts(e, data) /\ TellsTrue(call, data)
  BY <1>3, <1>4, <1>6, CallNumbers DEF Fit, Wire!Accepts, TellsTrue
<1>9. version["peer"] \in Nat
  BY <1>2 DEF VersionInv, VersionsAgree
<1>10. IsPacket(pk) /\ Arrives(Other("peer"), "peer", call, data, pk)
  BY <1>2, <1>3, <1>8, <1>9, Sending DEF e
<1>11. pk.to = Other("peer") /\ pk.call = call
  BY PacketParts
<1>12. /\ cut.to = pk.to /\ cut.call = pk.call /\ cut.data = pk.data
       /\ cut.shape = pk.shape /\ cut.version = pk.version /\ cut.size = size
  BY DEF PacketOf
<1> HIDE DEF pk, cut, size
<1>13. IsPacket(cut)
  BY <1>4, <1>10, <1>12 DEF IsPacket
<1>14. Arrives(Other("peer"), "peer", call, data, cut)
  <2>1. Wire("linux")!Readable(GetData["linux"][call], 8, cut.data)
    BY <1>7 DEF Wire!Readable, Sized
  <2>2. 8 <= MaxDataSize["linux"]
    BY DEF MaxDataSize
  <2>3. GetData["linux"][call].form # "none"
    BY <1>7 DEF Sized
  <2> QED
    BY <1>2, <1>3, <1>4, <1>10, <1>12, <2>1, <2>2, <2>3 DEF Arrives
<1>15. PacketSound' /\ OnlyRegistrationsTooLarge' /\ IsPacket(packet)'
      /\ (\/ said' = Silence
          \/ /\ said'.by \in Ends /\ said'.call \in Calls /\ IsBody(said'.data)
             /\ said'.result \in {"sent", "not accepted", "not allowed",
                                  "too large"})
  <2>1. cut.to = Other("peer") /\ cut.call = call
    BY <1>11, <1>12
  <2> QED
    BY <1>1, <1>2, <1>3, <1>4, <1>8, <1>13, <1>14, <2>1, SentSound
<1>16. TypeOK'
  BY <1>2, <1>15, TypesStay DEF TypeOK, IsBody
<1> QED
  BY <1>2, <1>15, <1>16, Unsaid DEF CallsInv

(* What was said and heard is forgotten.                                    *)
LEMMA ForgetKeeps ==
  ASSUME CallsInv, Forget
  PROVE  CallsInv'
<1>1. UNCHANGED <<peer, server, version, adopted>> /\ TypeOK
      /\ packet' = NoPacket /\ said' = Silence /\ heard' = Silence
  BY DEF Forget, CallsInv
<1>2. TypeOK'
  BY <1>1, TypesStay DEF TypeOK
<1>3. PacketSound'
  BY <1>1 DEF PacketSound, NoPacket, Ends
<1>4. OnlyRegistrationsTooLarge'
  BY <1>1 DEF OnlyRegistrationsTooLarge, Silence
<1> QED
  BY <1>1, <1>2, <1>3, <1>4, Unsaid DEF CallsInv

LEMMA OnTheWire ==
  ASSUME TypeOK, NEW end \in Ends, packet.to = end
  PROVE  IsPacket(packet)
<1>1. packet = NoPacket \/ IsPacket(packet)
  BY DEF TypeOK
<1>2. packet # NoPacket
  BY DEF NoPacket, Ends
<1> QED
  BY <1>1, <1>2

(* The answer to a version that the server does not speak.                  *)
LEMMA VersionErrorKeeps ==
  ASSUME VersionInv, CallsInv, NEW end \in Ends, ReceiveVersionError(end)
  PROVE  CallsInv'
<1>1. /\ UNCHANGED <<peer, server, version, adopted>> /\ TypeOK
      /\ packet.to = end /\ peer \in Peers
  BY DEF ReceiveVersionError, CallsInv, TypeOK
<1>2. IsPacket(packet)
  BY <1>1, OnTheWire
<1>3. heard' = [at |-> end, call |-> packet.call, data |-> Nothing,
                result |-> "version error"]
  BY DEF ReceiveVersionError, Hears
<1>4. Understood' /\ ValuesTold'
  BY <1>3 DEF Understood, ValuesTold
<1>5. /\ heard'.at \in Ends /\ heard'.call \in Calls /\ IsBody(heard'.data)
      /\ heard'.result = "version error"
  <2>1. IsBody(Nothing)
    BY DEF IsBody, Nothing
  <2>2. packet.call \in Calls
    BY <1>2 DEF IsPacket
  <2> QED
    BY <1>3, <2>1, <2>2
<1>6. CASE end = "server"
  <2> DEFINE call == SDC.VERSIONERROR
             data == [n |-> Wire("linux")!TSDC_SuplaVersionError,
                      caps |-> <<>>]
             pk == PacketOf("server", call, data, packet.version)
             e == Async["linux"][call]
  <2>1. /\ packet' = pk
        /\ said' = [by |-> "server", call |-> call, data |-> data,
                    result |-> "sent"]
    BY <1>6 DEF ReceiveVersionError
  <2>2. /\ "server" \in Ends /\ Build("server") = "linux"
        /\ "linux" \in DOMAIN MaxDataSize /\ packet.version \in Nat
    BY <1>2 DEF Ends, Build, MaxDataSize, IsPacket
  <2>3. call = 30 /\ call \in CallsOf("server")
    <3>1. call = 30 /\ call \in ToDevice /\ call \in ToClient
      BY Directions, CallNumbers DEF ToDevice, ToClient
    <3> QED
      BY <1>1, <3>1, Machines, Zenon DEF CallsOf, Ends
  <2>4. call \in Calls
    BY <1>1, <2>2, <2>3, CallsAreCalls
  <2>5. data.n = 2 /\ data.caps = <<>> /\ IsBody(data)
    BY DEF Wire!TSDC_SuplaVersionError, Wire!Char, IsBody
  <2>6. e.form = "whole" /\ 2 \in e.sizes
    BY <2>2, <2>3, <2>4, AsyncIs, AsyncCommonSays, Tables DEF Sized
  <2> HIDE DEF call, data, e, pk
  <2>7. Fit(e, data) /\ Wire("linux")!Accepts(e, data) /\ TellsTrue(call, data)
    BY <2>3, <2>5, <2>6, CallNumbers DEF Fit, Wire!Accepts, TellsTrue
  <2>8. IsPacket(pk) /\ Arrives(Other("server"), "server", call, data, pk)
    BY <1>1, <2>2, <2>3, <2>7, Sending DEF e, pk
  <2>9. pk.to = Other("server") /\ pk.call = call
    BY PacketParts DEF pk
  <2>10. PacketSound' /\ OnlyRegistrationsTooLarge' /\ IsPacket(packet)'
         /\ (\/ said' = Silence
             \/ /\ said'.by \in Ends /\ said'.call \in Calls /\ IsBody(said'.data)
                /\ said'.result \in {"sent", "not accepted", "not allowed",
                                     "too large"})
    BY <1>1, <2>1, <2>2, <2>3, <2>5, <2>7, <2>8, <2>9, SentSound
  <2>11. TypeOK'
    BY <1>1, <1>5, <2>10, TypesStay DEF TypeOK, IsBody
  <2> QED
    BY <1>4, <2>10, <2>11 DEF CallsInv
<1>7. CASE end # "server"
  <2>1. packet' = NoPacket /\ said' = said
    BY <1>7 DEF ReceiveVersionError
  <2>2. PacketSound'
    BY <2>1 DEF PacketSound, NoPacket, Ends
  <2>3. OnlyRegistrationsTooLarge'
    BY <2>1 DEF CallsInv, OnlyRegistrationsTooLarge
  <2>4. TypeOK'
    BY <1>1, <1>5, <2>1, TypesStay DEF TypeOK, IsBody
  <2> QED
    BY <1>4, <2>2, <2>3, <2>4 DEF CallsInv
<1> QED
  BY <1>6, <1>7

(* A packet is read: where everything is put together.                      *)
LEMMA ReceiveKeeps ==
  ASSUME VersionInv, CallsInv, NEW end \in Ends, Receive(end)
  PROVE  CallsInv'
<1>1. /\ peer' = peer /\ server' = server /\ said' = said /\ packet' = NoPacket
      /\ TypeOK /\ packet.to = end /\ peer \in Peers
  BY DEF Receive, CallsInv, TypeOK
<1>2. IsPacket(packet)
  BY <1>1, OnTheWire
<1> DEFINE b == Build(end)
           e == GetData[b][packet.call]
<1>3. /\ said.by \in Ends /\ packet.call = said.call
      /\ Arrives(end, said.by, said.call, said.data, packet)
      /\ TellsTrue(said.call, said.data)
  BY <1>1 DEF CallsInv, PacketSound
<1>4. /\ end = Other(said.by)
      /\ packet.size <= MaxDataSize[b]
      /\ packet.data = Wire(Build(said.by))!Sent(Async[Build(said.by)][said.call],
                                                 said.data)
      /\ Wire(b)!Readable(e, packet.size, packet.data)
      /\ packet.shape = Wire(b)!Shape(e)
      /\ e.form = "none" => packet.data = Nothing
      /\ said.call \in {105, 405} => packet.data = said.data
  BY <1>3 DEF Arrives
<1>5. ~(packet.size > MaxDataSize[b])
  <2>1. MaxDataSize[b] \in Nat
    <3>1. b \in DOMAIN MaxDataSize
      BY <1>1, Machines
    <3> QED
      BY <3>1, Sizes
  <2>2. packet.size \in Nat
    BY <1>2 DEF IsPacket
  <2> DEFINE limit == MaxDataSize[b]
  <2>3. packet.size <= limit /\ limit \in Nat
    BY <1>4, <2>1
  <2> HIDE DEF limit
  <2>4. ~(packet.size > limit)
    BY <2>2, <2>3
  <2> QED
    BY <2>4 DEF limit
<1>6. heard' = [at |-> end, call |-> packet.call, data |-> packet.data,
                result |-> "data"]
  <2>1. Hears(end, "data", IF e.form = "none" THEN Nothing ELSE packet.data)
    BY <1>4, <1>5 DEF Receive
  <2> QED
    BY <1>4, <2>1 DEF Hears
<1>7. heard'.at = end /\ heard'.call = said.call /\ heard'.result = "data"
      /\ heard'.data = packet.data
  BY <1>3, <1>6
<1>8. Understood'
  <2>1. Build(said.by)' = Build(said.by)
    BY <1>1 DEF Build
  <2> QED
    BY <1>1, <1>4, <1>7, <2>1 DEF Understood
<1>9. ValuesTold'
  <2>1. /\ DS.DEVICE_CHANNEL_EXTENDEDVALUE_CHANGED = 105
        /\ SC.CHANNELEXTENDEDVALUE_PACK_UPDATE = 405
    BY CallNumbers
  <2>2. /\ said'.data = said.data
        /\ said.call \in {105, 405} => heard'.data = said.data
    BY <1>1, <1>4, <1>7
  <2>3. CASE said.call = 105
    BY <1>3, <1>7, <2>1, <2>2, <2>3 DEF ValuesTold, TellsTrue
  <2>4. CASE said.call = 405
    BY <1>3, <1>7, <2>1, <2>2, <2>4 DEF ValuesTold, TellsTrue
  <2>5. CASE said.call \notin {105, 405}
    BY <1>7, <2>1, <2>5 DEF ValuesTold
  <2> QED
    BY <2>3, <2>4, <2>5
<1>10. PacketSound' /\ OnlyRegistrationsTooLarge'
  BY <1>1 DEF PacketSound, NoPacket, Ends, CallsInv, OnlyRegistrationsTooLarge
<1>11. (version \in [Ends -> PeerVersions \cup ServerVersions])'
       /\ (adopted \in BOOLEAN)'
  <2>1. packet.version = peer.proto /\ peer.proto \in PeerVersions
        /\ server \in ServerVersions
    BY <1>1 DEF VersionInv, PacketAgrees, Peers, TypeOK
  <2>2. sproto_set_version("server", packet.version)
            \in PeerVersions \cup ServerVersions
    BY <2>1 DEF sproto_set_version, ProtoVersion
  <2> DEFINE v == sproto_set_version("server", packet.version)
  <2> HIDE DEF v
  <2>3. \/ adopted' = TRUE /\ version' = [version EXCEPT !.server = v]
        \/ UNCHANGED <<adopted, version>>
    BY DEF Receive, v
  <2> QED
    BY <1>1, <2>2, <2>3 DEF TypeOK, v
<1>12. /\ heard'.at \in Ends /\ heard'.call \in Calls /\ IsBody(heard'.data)
  BY <1>2, <1>3, <1>7 DEF IsPacket
<1>13. TypeOK'
  BY <1>1, <1>7, <1>11, <1>12 DEF TypeOK, IsBody, Peers
<1> QED
  BY <1>8, <1>9, <1>10, <1>13 DEF CallsInv

LEMMA CallsInvStep == VersionInv /\ CallsInv /\ [Next]_vars => CallsInv'
<1>1. SUFFICES ASSUME VersionInv, CallsInv, [Next]_vars PROVE CallsInv'
  OBVIOUS
<1>2. ASSUME NEW end \in Ends, Call(end) PROVE CallsInv'
  BY <1>1, <1>2, CallKeeps
<1>3. ASSUME NEW end \in Ends, Receive(end) PROVE CallsInv'
  BY <1>1, <1>3, ReceiveKeeps
<1>4. ASSUME NEW end \in Ends, ReceiveVersionError(end) PROVE CallsInv'
  BY <1>1, <1>4, VersionErrorKeeps
<1>5. CASE registerdevice_in_chunks_g
  BY <1>1, <1>5, ChunksKeep
<1>6. CASE PingOfOldDevice
  BY <1>1, <1>6, PingKeeps
<1>7. CASE Forget
  BY <1>1, <1>7, ForgetKeeps
<1>8. CASE UNCHANGED vars
  <2>1. /\ peer' = peer /\ server' = server /\ version' = version
        /\ adopted' = adopted /\ packet' = packet /\ said' = said
        /\ heard' = heard
    BY <1>8 DEF vars
  <2>2. TypeOK'
    BY <1>1, <2>1 DEF CallsInv, TypeOK, IsPacket, IsBody, Peers
  <2>3. PacketSound'
    BY <1>1, <2>1 DEF CallsInv, PacketSound, TellsTrue, Arrives, Build, CallsOf
  <2>4. Understood'
    BY <1>1, <2>1 DEF CallsInv, Understood, Build
  <2>5. ValuesTold' /\ OnlyRegistrationsTooLarge'
    BY <1>1, <2>1 DEF CallsInv, ValuesTold, OnlyRegistrationsTooLarge
  <2> QED
    BY <2>2, <2>3, <2>4, <2>5 DEF CallsInv
<1>9. QED
  BY <1>1, <1>2, <1>3, <1>4, <1>5, <1>6, <1>7, <1>8 DEF Next

LEMMA CallsInvHolds == Spec => []CallsInv
<1>1. Init => CallsInv
  BY CallsInvInit
<1>2. VersionInv /\ CallsInv /\ [Next]_vars => CallsInv'
  BY CallsInvStep
<1> QED
  BY <1>1, <1>2, VersionInvHolds, PTL DEF Spec

(* The variables keep their types: what was said, the packet on the wire    *)
(* and what was heard are each a call of the protocol with a body, between  *)
(* the two ends (TSuplaDataPacket and the handlers around it).              *)
THEOREM TypesAreCorrect == Spec => []TypeOK
<1>1. CallsInv => TypeOK
  BY DEF CallsInv
<1> QED
  BY <1>1, CallsInvHolds, PTL

(* Every call that an end is handed is read as it was meant: the length is  *)
(* one that srpc_getdata accepts for that call, with as many items as were  *)
(* sent, on whatever machines and of whatever versions the two ends are.    *)
THEOREM CallsAreUnderstood == Spec => []Understood
<1>1. CallsInv => Understood
  BY DEF CallsInv
<1> QED
  BY <1>1, CallsInvHolds, PTL

(* Every extended value that is handed over tells what the sender had to    *)
(* tell: converted to the version of the reader, cut to the parts in use or *)
(* stored with others in one value (supla-common/srpc.c,                    *)
(* srpc_evtool_value_add, srpc_evtool_value_get and the conversions of      *)
(* meters).                                                                 *)
THEOREM ValuesAreTold == Spec => []ValuesTold
<1>1. CallsInv => ValuesTold
  BY DEF CallsInv
<1> QED
  BY <1>1, CallsInvHolds, PTL

(* Of all the calls only the registrations of a device can be too large for *)
(* its packet, and those the library sends in chunks: no other call fails   *)
(* for its size.                                                            *)
THEOREM RegistrationsOnly == Spec => []OnlyRegistrationsTooLarge
<1>1. CallsInv => OnlyRegistrationsTooLarge
  BY DEF CallsInv
<1> QED
  BY <1>1, CallsInvHolds, PTL

=============================================================================
