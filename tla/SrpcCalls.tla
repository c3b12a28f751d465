------------------------------ MODULE SrpcCalls ------------------------------
(***************************************************************************)
(* Calls between the server and one peer, a device or a client, whose      *)
(* library may be older or newer than the server's and built for another   *)
(* machine. A call passes the version gate and the size check of its       *)
(* sender (srpc_async__call, sproto_set_data), crosses the wire and passes *)
(* the version check, the size check and the layout check of its receiver  *)
(* (sproto_pop_in_sdp, srpc_getdata).                                      *)
(*                                                                         *)
(* One packet is on the wire at a time: their order and the queues on the  *)
(* way are in ProtoStream and SrpcQueue. An older or newer end is this     *)
(* code with another SUPLA_PROTO_VERSION. What the server's application    *)
(* does is not in this repository: it takes over the version of its peer   *)
(* from on_remote_call_received and answers a version error, the two uses  *)
(* that srpc_set_proto_version and srpc_sdc_async_versionerror are for.    *)
(***************************************************************************)
EXTENDS CallIds, Integers, Sequences

CONSTANTS DeviceBuilds,     \* machines of the devices
          PeerVersions,     \* SUPLA_PROTO_VERSION of devices and clients
          ServerVersions    \* SUPLA_PROTO_VERSION of servers

SUPLA_PROTO_VERSION_MIN == 1

ASSUME CallsAssumption ==
    /\ DeviceBuilds \subseteq {"arduino", "esp8266", "esp32", "linux"}
    /\ \A v \in PeerVersions \cup ServerVersions :
           v \in Nat /\ v >= SUPLA_PROTO_VERSION_MIN

(* The sizes that depend on the machine.                                   *)
MaxDataSizeTooSmall ==
    [arduino |-> 512, esp8266 |-> 1536, esp32 |-> 10240, linux |-> 10240]
MaxDataSize ==
    [arduino |-> 600, esp8266 |-> 1536, esp32 |-> 10240, linux |-> 10240]
ExtendedValueSize ==
    [arduino |-> 256, esp8266 |-> 256, esp32 |-> 256, linux |-> 1024]
MeasurementCount == [arduino |-> 1, esp8266 |-> 1, esp32 |-> 1, linux |-> 5]

Wire(b) == INSTANCE SrpcMessages WITH
               SUPLA_MAX_DATA_SIZE <- MaxDataSize[b],
               SUPLA_CHANNELEXTENDEDVALUE_SIZE <- ExtendedValueSize[b],
               EM_MEASUREMENT_COUNT <- MeasurementCount[b]

Values(b) == INSTANCE ExtendedValues WITH
               SUPLA_MAX_DATA_SIZE <- MaxDataSize[b],
               SUPLA_CHANNELEXTENDEDVALUE_SIZE <- ExtendedValueSize[b],
               EM_MEASUREMENT_COUNT <- MeasurementCount[b]

Async == [b \in DOMAIN MaxDataSize |-> [c \in Calls |-> Wire(b)!Async(c)]]
GetData == [b \in DOMAIN MaxDataSize |-> [c \in Calls |-> Wire(b)!GetData(c)]]

VARIABLES peer,      \* the device or client: role, build and version
          server,    \* SUPLA_PROTO_VERSION of the server
          version,   \* sproto's version of each end, set by set_proto_version
          adopted,   \* the server has taken over its peer's version
          packet,    \* the packet on the wire, if any
          said,      \* history: the last call made and what came of it
          heard      \* history: what the other end's application got of it

vars == <<peer, server, version, adopted, packet, said, heard>>

Ends == {"peer", "server"}
Other(end) == IF end = "peer" THEN "server" ELSE "peer"
Build(end) == IF end = "peer" THEN peer.build ELSE "linux"
ProtoVersion(end) == IF end = "peer" THEN peer.proto ELSE server

Peers == [role : {"device"}, build : DeviceBuilds, proto : PeerVersions]
         \cup [role : {"client"}, build : {"linux"}, proto : PeerVersions]

(* What each end has to say to the other.                                  *)
CallsOf(end) ==
    CASE end = "peer" /\ peer.role = "device"   -> FromDevice
      [] end = "peer" /\ peer.role = "client"   -> FromClient
      [] end = "server" /\ peer.role = "device" -> ToDevice
      [] end = "server" /\ peer.role = "client" -> ToClient

(***************************************************************************)
(* What the applications pass, as [n, caps]. bound: of an array none, one, *)
(* as many as there is room for, and one more; of a pack empty captions,   *)
(* captions of the largest size, and captions too long between others.     *)
(***************************************************************************)
Nothing == [n |-> 0, caps |-> <<>>]
Captions(k, c) == [i \in 1 .. k |-> c]
Plain(e) ==
    CASE e.form = "none"  -> {Nothing}
      [] e.form = "whole" -> {[n |-> size, caps |-> <<>>] : size \in e.sizes}
      [] e.form = "items" -> {[n |-> n, caps |-> <<>>] :
                                 n \in {0, 1, e.layout.max, e.layout.max + 1}}
      [] e.form = "pack"  ->
           LET most == e.layout.max
               long == e.item.max
               uniform == {Captions(k, c) : k \in {0, 1, most, most + 1},
                                            c \in {0, long, long + 1}}
           IN  {[n |-> Len(caps), caps |-> caps] :
                   caps \in uniform \cup {<<long + 1, long, 0>>,
                                          <<0, long + 1, long>>}}

(* Extended values also carry what they were made of, and the version of a *)
(* meter's value up to which they tell of it. A device sends one           *)
(* (supla_channel_set_*_extvalue; an older one, an older meter's value).   *)
(* The setter of meters does not look at whether the conversion refused,   *)
(* and goes on with what its local variable happens to hold: made of       *)
(* nothing. bound: an empty value, or one that an earlier call left there. *)
DeviceValues(b) ==
    LET meters == {Values(b)!Meter(v, k, q) :
                      v \in 1 .. 3, k \in -1 .. MeasurementCount[b] + 1,
                      q \in SUBSET Values(b)!Quantities}
        thermostats == {Values(b)!Thermostat(F) :
                           F \in SUBSET {Values(b)!Parts[i] : i \in 1 .. 6}}
        others == {Values(b)!OtherValue(Values(b)!TTimerState_ExtendedValue)}
        body(ev, of, upTo) == [n |-> ev.size, caps |-> <<>>, value |-> ev,
                               of |-> of, upTo |-> upTo]
        set(source) ==
            IF Values(b)!Encoded(source) # Values(b)!Nowhere
              THEN {body(Values(b)!Encoded(source), <<source>>,
                         IF source.kind = "meter" THEN source.version ELSE 3)}
              ELSE {body(ev, <<>>, 3) :
                       ev \in {Values(b)!Nowhere,
                               Values(b)!Encoded(Values(b)!Meter(3, 0, {}))}}
    IN  UNION {set(source) : source \in meters \cup thermostats \cup others}

(* The version of a meter's value that came with a version of the protocol *)
(* (proto.h: "v. >= 10", "v. >= 12", "v. >= 25").                          *)
MeterVersion(v) == IF v >= 25 THEN 3 ELSE IF v >= 12 THEN 2 ELSE 1

(* external: the server sends a client several values in one, added one    *)
(* after another as long as they are taken, the meters                     *)
(* in the version that the client's protocol has. bound: up to three of a  *)
(* stock in which some two fill an extended value to the last byte.        *)
Stock ==
    {Values("linux")!Meter(3, 5, {"total", "balanced"}),
     Values("linux")!Meter(3, 1, {"total", "phases"}),
     Values("linux")!Thermostat({"Flags"}), Values("linux")!Counter,
     Values("linux")!OtherValue(507), Values("linux")!OtherValue(508)}
ServerValues(v) ==
    LET sent(source) ==
            Values("linux")!Encoded(
                IF source.kind = "meter"
                  THEN Values("linux")!InVersion(source, MeterVersion(v))
                  ELSE source)
        add(all, source) ==
            LET sum == Values("linux")!srpc_evtool_value_add(all.value,
                                                             sent(source))
            IN  IF sum = all.value THEN all
                ELSE [value |-> sum, of |-> Append(all.of, source)]
        added(sources) ==
            LET after[i \in 0 .. Len(sources)] ==
                    IF i = 0
                      THEN [value |-> Values("linux")!Nowhere, of |-> <<>>]
                      ELSE add(after[i - 1], sources[i])
            IN  after[Len(sources)]
    IN  {[n |-> Values("linux")!Int32 + Values("linux")!Stored(added(sources).value),
          caps |-> <<>>,
          value |-> added(sources).value, of |-> added(sources).of,
          upTo |-> MeterVersion(v)] :
            sources \in UNION {[1 .. k -> Stock] : k \in 1 .. 3}}

Bodies(end, call) ==
    CASE call = DS.DEVICE_CHANNEL_EXTENDEDVALUE_CHANGED ->
             DeviceValues(peer.build)
      [] call = SC.CHANNELEXTENDEDVALUE_PACK_UPDATE ->
             ServerValues(version[end]) \cup Plain(Async["linux"][call])
      [] OTHER -> Plain(Async[Build(end)][call])

IsBody(data) == data.n \in Nat /\ data.caps \in Seq(Nat)

NoPacket == [to |-> "nobody"]
IsPacket(pk) ==
    /\ pk.to \in Ends /\ pk.version \in Nat /\ pk.call \in Calls
    /\ pk.size \in Nat /\ pk.shape \in Seq(Nat) /\ IsBody(pk.data)

Silence == [result |-> "nothing"]

TypeOK ==
    /\ peer \in Peers
    /\ server \in ServerVersions
    /\ version \in [Ends -> PeerVersions \cup ServerVersions]
    /\ adopted \in BOOLEAN
    /\ packet = NoPacket \/ IsPacket(packet)
    /\ \/ said = Silence
       \/ /\ said.by \in Ends /\ said.call \in Calls /\ IsBody(said.data)
          /\ said.result \in {"sent", "not accepted", "not allowed",
                              "too large"}
    /\ \/ heard = Silence
       \/ /\ heard.at \in Ends /\ heard.call \in Calls /\ IsBody(heard.data)
          /\ heard.result \in {"version error", "packet error", "data error",
                               "garbled", "data"}

Init ==
    /\ peer \in Peers
    /\ server \in ServerVersions
    /\ version = [peer |-> peer.proto, server |-> server]
    /\ adopted = FALSE
    /\ packet = NoPacket
    /\ said = Silence
    /\ heard = Silence

-----------------------------------------------------------------------------
(* A call is allowed when the version the end speaks has it.               *)
srpc_call_always_allowed(end, call) == TRUE
srpc_call_allowed(end, call) ==
    version[end] >= srpc_call_min_version_required(call)

Idle == packet = NoPacket /\ said = Silence

(* bookkeeping: what was said and heard is forgotten before the next call. *)
Forget ==
    /\ packet = NoPacket /\ said # Silence
    /\ said' = Silence /\ heard' = Silence
    /\ UNCHANGED <<peer, server, version, adopted, packet>>

(* What an end puts on the wire: the structure cut to the bytes in use.    *)
PacketOf(end, call, data, v) ==
    LET e == Async[Build(end)][call]
    IN  [to |-> Other(end), version |-> v, call |-> call,
         size |-> Wire(Build(end))!SentSize(e, Wire(Build(end))!Sent(e, data)),
         shape |-> Wire(Build(end))!Shape(e),
         data |-> Wire(Build(end))!Sent(e, data)]

(* An async function, srpc_async__call and sproto_set_data: the function   *)
(* checks its argument, then the version is looked at, then the size.      *)
srpc_async_call(end, call, data) ==
    LET b == Build(end)
        pk == PacketOf(end, call, data, version[end])
        result ==
            IF ~Wire(b)!Accepts(Async[b][call], data) THEN "not accepted"
            ELSE IF ~srpc_call_allowed(end, call) THEN "not allowed"
            ELSE IF pk.size > MaxDataSize[b] THEN "too large"
            ELSE "sent"
    IN  /\ packet' = IF result = "sent" THEN pk ELSE NoPacket
        /\ said' = [by |-> end, call |-> call, data |-> data,
                    result |-> result]
        /\ heard' = Silence

(* A device or client calls the server at any time, the server once it has *)
(* heard of it. A version error is only said in answer to one.             *)
Call(end) ==
    /\ Idle
    /\ end = "server" => adopted
    /\ \E call \in CallsOf(end) \ {SDC.VERSIONERROR} :
         \E data \in Bodies(end, call) :
             srpc_async_call(end, call, data)
    /\ UNCHANGED <<peer, server, version, adopted>>

(* A device with a small packet writes its registration in chunks: the     *)
(* header says the size of all that follows, and goes around the queue,    *)
(* the buffer and the size check.                                          *)
registerdevice_in_chunks_g ==
    /\ Idle
    /\ peer.role = "device"
    /\ srpc_call_allowed("peer", DS.REGISTER_DEVICE_G)
    /\ \E data \in Bodies("peer", DS.REGISTER_DEVICE_G) :
         /\ Wire(peer.build)!Accepts(Async[peer.build][DS.REGISTER_DEVICE_G],
                                     data)
         /\ packet' = PacketOf("peer", DS.REGISTER_DEVICE_G, data,
                               version["peer"])
         /\ said' = [by |-> "peer", call |-> DS.REGISTER_DEVICE_G,
                     data |-> data, result |-> "sent"]
    /\ heard' = Silence
    /\ UNCHANGED <<peer, server, version, adopted>>

(* external: a device whose clock has 32 bits pings with half the bytes.   *)
PingOfOldDevice ==
    /\ Idle
    /\ peer.role = "device"
    /\ LET size == Wire(peer.build)!TDCS_SuplaPingServer_COMPAT
           data == [n |-> Wire(peer.build)!TDCS_SuplaPingServer, caps |-> <<>>]
       IN  /\ packet' = [PacketOf("peer", DCS.PING_SERVER, data,
                                  version["peer"]) EXCEPT !.size = size]
           /\ said' = [by |-> "peer", call |-> DCS.PING_SERVER,
                       data |-> data, result |-> "sent"]
    /\ heard' = Silence
    /\ UNCHANGED <<peer, server, version, adopted>>

-----------------------------------------------------------------------------
(* sproto_set_version: out of range means the newest.                      *)
sproto_set_version_kept(end, v) == ProtoVersion(end)
sproto_set_version_below(end, v) ==
    IF v \in SUPLA_PROTO_VERSION_MIN .. ProtoVersion(end) - 1 THEN v ELSE 0
sproto_set_version(end, v) ==
    IF v \in SUPLA_PROTO_VERSION_MIN .. ProtoVersion(end)
      THEN v
      ELSE ProtoVersion(end)

Hears(end, result, data) ==
    heard' = [at |-> end, call |-> packet.call, data |-> data,
              result |-> result]

(* sproto_pop_in_sdp refuses a version it does not know; srpc_iterate      *)
(* tells the application. The server answers in the version of the packet, *)
(* since the peer would not read its own; a device has no handler for it.  *)
ReceiveVersionError(end) ==
    /\ packet.to = end
    /\ packet.version \notin SUPLA_PROTO_VERSION_MIN .. ProtoVersion(end)
    /\ Hears(end, "version error", Nothing)
    /\ LET answer == [n |-> Wire("linux")!TSDC_SuplaVersionError,
                      caps |-> <<>>]
       IN  IF end = "server"
             THEN /\ packet' = PacketOf("server", SDC.VERSIONERROR, answer,
                                        packet.version)
                  /\ said' = [by |-> "server", call |-> SDC.VERSIONERROR,
                              data |-> answer, result |-> "sent"]
             ELSE /\ packet' = NoPacket
                  /\ UNCHANGED said
    /\ UNCHANGED <<peer, server, version, adopted>>

(* sproto_pop_in_sdp refuses what is larger than a packet of this end, and *)
(* srpc_getdata what does not have the layout of the call. The application *)
(* of the server takes over the version of what it hears.                  *)
Receive(end) ==
    /\ packet.to = end
    /\ packet.version \in SUPLA_PROTO_VERSION_MIN .. ProtoVersion(end)
    /\ LET b == Build(end)
           e == GetData[b][packet.call]
       IN  Hears(end,
                 IF packet.size > MaxDataSize[b] THEN "packet error"
                 ELSE IF ~Wire(b)!Readable(e, packet.size, packet.data)
                   THEN "data error"
                 ELSE IF Wire(b)!Shape(e) # packet.shape THEN "garbled"
                 ELSE "data",
                 IF e.form = "none" THEN Nothing ELSE packet.data)
    /\ packet' = NoPacket
    /\ IF end = "server"
         THEN /\ adopted' = TRUE
              /\ version' = [version EXCEPT !.server =
                                sproto_set_version("server", packet.version)]
         ELSE UNCHANGED <<adopted, version>>
    /\ UNCHANGED <<peer, server, said>>

Next ==
    \/ \E end \in Ends : Call(end) \/ Receive(end) \/ ReceiveVersionError(end)
    \/ registerdevice_in_chunks_g
    \/ PingOfOldDevice
    \/ Forget

Spec == Init /\ [][Next]_vars

-----------------------------------------------------------------------------
(* Understood: whatever a function of one end sends, the other end reads,  *)
(* whatever the machines and versions of the two: the packet fits its      *)
(* buffer, has the layout it expects and holds the items that were sent,   *)
(* all but those with a caption too long. The functions that write and the *)
(* cases that read were written apart, call by call (srpc.c 826-1692 and   *)
(* 1951-3448), and a call of which the two differ is lost in silence.      *)
Understood ==
    /\ heard.result \notin {"packet error", "data error", "garbled"}
    /\ heard.result = "data" =>
           /\ heard.at = Other(said.by)
           /\ heard.call = said.call
           /\ LET b == Build(said.by)
              IN  heard.data = Wire(b)!Sent(Async[b][said.call], said.data)

(* ValuesTold: an extended value tells its reader what it told its writer: *)
(* the measurements, and every quantity that is announced with what it     *)
(* holds, none lost to the cutting of arrays, to a conversion between the  *)
(* versions of meters or to a value that found no more room, and none      *)
(* announced that the writer's version does not have. Several values in    *)
(* one are found in their order, and no more than were put in.             *)
(* Of a value that its writer's conversion refused nothing is said.        *)
Reads(source, ev, upTo) ==
    /\ Values("linux")!Decoded(ev) # Values("linux")!Refused
    /\ Values("linux")!Tells(Values("linux")!Decoded(ev), 3)
           = Values("linux")!Tells(source, upTo)
ValuesTold ==
    heard.result = "data" =>
        /\ heard.call = DS.DEVICE_CHANNEL_EXTENDEDVALUE_CHANGED =>
               \A i \in DOMAIN said.data.of :
                   Reads(said.data.of[i], heard.data.value, said.data.upTo)
        /\ (heard.call = SC.CHANNELEXTENDEDVALUE_PACK_UPDATE
                /\ "of" \in DOMAIN said.data) =>
               LET get(k) == Values("linux")!srpc_evtool_value_get(
                                 heard.data.value, k)
                   put == said.data.of
               IN  /\ \A k \in DOMAIN put :
                          Reads(put[k], get(k - 1), said.data.upTo)
                   /\ get(Len(put)) = Values("linux")!Nowhere

(* OnlyRegistrationsTooLarge: the largest message of every function fits   *)
(* in a packet of the machine it runs on, but for the registrations that   *)
(* are sent in chunks instead. "SUPLA_MAX_DATA_SIZE should be bigger then  *)
(* calcfg, device config, channel config MAXSIZE. Otherwise sending will   *)
(* fail" (proto.h:129-130), and the caller is told no more than 0.         *)
OnlyRegistrationsTooLarge ==
    said.result = "too large" =>
        said.call \in {DS.REGISTER_DEVICE, DS.REGISTER_DEVICE_B,
                       DS.REGISTER_DEVICE_C, DS.REGISTER_DEVICE_D,
                       DS.REGISTER_DEVICE_E, DS.REGISTER_DEVICE_F,
                       DS.REGISTER_DEVICE_G}

(* NeverTooNew: an end is never handed a call that came with a version of  *)
(* the protocol newer than its own. The gate is at the sender, which knows *)
(* the other end's version only by what it has adopted.                    *)
NeverTooNew ==
    heard.result = "data" =>
        srpc_call_min_version_required(heard.call) <= ProtoVersion(heard.at)

(* AnswersReadable: a device or client never refuses the version of what   *)
(* the server says, be it newer, older or the server's answer that it does *)
(* not speak the peer's version.                                           *)
AnswersReadable == heard.result = "version error" => heard.at = "server"

==============================================================================
