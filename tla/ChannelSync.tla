----------------------------- MODULE ChannelSync -----------------------------
(***************************************************************************)
(* How the data of a device's channels reaches the server: the setters of  *)
(* src/src/channel.c that application threads call, supla_channel_sync()   *)
(* and the registration that read what they set, the bounded output queue  *)
(* of src/src/supla-common/srpc.c, and the connection behind it, which     *)
(* comes and goes while the queue stays.                                   *)
(*                                                                         *)
(* A channel holds up to three things to send: a value, an extended value  *)
(* and the action of an action trigger.  Each is a slot.  The iterating    *)
(* thread goes through the slots one by one; the lock of a channel is held *)
(* from its first slot to its last, so a setter of that channel waits.     *)
(***************************************************************************)
EXTENDS Integers, Sequences

CONSTANTS
  Order,      \* the slots, in the order of dev->channels: records [ch, kind]
  Value,      \* what a slot can hold
  Zero,       \* what it holds at first
  Beginning,  \* an extended value up to its last five bytes: a value that begins the same
  Stock,      \* what the application sets the slots of each kind to
  OnChange,   \* config.sync_values_onchange, of every channel
  QueueSize,  \* SRPC_QUEUE_SIZE
  IdWrap,     \* ids of requests that the type of "sync" tells apart (256 for a char)
  OtherGap,   \* bound: calls of iterate between two packets that carry no data
  MaxBurst,   \* bound: requests queued in one go by a device that is REGISTERED
  LinkCap     \* bound: packets on the way to the server; what the socket has room for

Kinds == {"val", "ext", "action"}

Slots  == {Order[i] : i \in 1..Len(Order)}
Valued == {s \in Slots : s.kind = "val"}

ASSUME SyncAssumption ==
  /\ Order \in Seq([ch : Nat, kind : Kinds])
  /\ \A i, j \in 1..Len(Order) : Order[i] = Order[j] => i = j
  /\ Zero \in Value /\ Beginning \in [Value -> Value]
  /\ Stock \in [Kinds -> SUBSET Value]
  /\ OnChange \in BOOLEAN
  /\ QueueSize \in Nat \ {0} /\ IdWrap \in Nat \ {0}
  /\ OtherGap \in Nat /\ MaxBurst \in Nat /\ LinkCap \in Nat \ {0}

VARIABLES
  data,      \* what each slot holds
  sync,      \* its "sync" flag: TRUE when there is nothing to send
  asked,     \* history: what the application last set it to
  fresh,     \* history: was it set to something new since it was last queued?
  queue,     \* srpc->out_queue
  lull,      \* calls of iterate since a packet without data was queued, up to OtherGap
  lastId,    \* the low byte of spd->next_rr_id
  state,     \* dev->state; INIT stands for CONFIG and IDLE too, which send nothing either
  phase,     \* what the iterating thread is doing
  pos,       \* ... and the slot it has come to
  form,      \* the values written into the registration so far
  link,      \* packets written to the connection and not yet read by the server
  linkUp,    \* does the connection still carry them?
  accepted,  \* has the server accepted the registration made on this connection?
  answered,  \* is the result of a registration waiting to be read?
  view       \* what the server knows of each slot

channels == <<data, sync, asked, fresh>>
server   == <<accepted, answered, view>>
vars     == <<data, sync, asked, fresh, queue, lull, lastId, state, phase, pos, form, link, linkUp,
              accepted, answered, view>>

Other == [tag |-> "other"]
Registration(values) == [tag |-> "registration", values |-> values]
Data(s) == [tag |-> "data", slot |-> s, value |-> data[s]]

Carries(packet, s) == packet.tag = "data" /\ packet.slot = s

Blank == [s \in Valued |-> Zero]

Init ==
  /\ data = [s \in Slots |-> Zero]
  /\ sync = [s \in Slots |-> TRUE]
  /\ asked = [s \in Slots |-> Zero]
  /\ fresh = [s \in Slots |-> FALSE]
  /\ queue = <<>> /\ lull = OtherGap /\ lastId = 0
  /\ state = "INIT" /\ phase = "free" /\ pos = 1
  /\ form = Blank
  /\ link = <<>> /\ linkUp = FALSE
  /\ accepted = FALSE /\ answered = FALSE
  /\ view = [s \in Slots |-> Zero]

-----------------------------------------------------------------------------
(* The application's threads.                                               *)

(* The iterating thread is between two slots of the channel. *)
Locked(ch) ==
  /\ phase = "sync"
  /\ pos \in 2..Len(Order)
  /\ Order[pos].ch = ch /\ Order[pos - 1].ch = ch

session == <<queue, lull, lastId, state, phase, pos, form, link, linkUp, server>>

(* Extended values are alike when they differ in their last five bytes only. *)
Alike(v, w) == Beginning[v] = Beginning[w]

(* What a call asks for that the slot does not hold, or that is to be sent  *)
(* every time: an action, and without sync_values_onchange everything.      *)
New(s, v) ==
  \/ s.kind = "action" \/ ~OnChange
  \/ s.kind = "val" /\ v # data[s]
  \/ s.kind = "ext" /\ ~Alike(v, data[s])

(* A call of a setter, as the application sees it. *)
Ask(s, v) ==
  /\ ~Locked(s.ch)
  /\ asked' = [asked EXCEPT ![s] = v]
  /\ fresh' = [fresh EXCEPT ![s] = @ \/ New(s, v)]
  /\ UNCHANGED session

Store(s, v) == data' = [data EXCEPT ![s] = v]
Mark(s)     == sync' = [sync EXCEPT ![s] = FALSE]

(* Mutant: a new value is stored, but marked only if every call marks it. *)
SetForgetsToSync(s, v) ==
  /\ s.kind = "val"
  /\ Ask(s, v) /\ Store(s, v)
  /\ IF ~OnChange THEN Mark(s) ELSE UNCHANGED sync

supla_channel_set_value(s, v) ==
  /\ s.kind = "val"
  /\ Ask(s, v) /\ Store(s, v)
  /\ IF v # data[s] \/ ~OnChange THEN Mark(s) ELSE UNCHANGED sync

(* supla_extval_set compares as many bytes as an extended value has room    *)
(* for, from the start of a structure that is five bytes longer: a          *)
(* difference in the last five alone goes unnoticed.  The comparison takes  *)
(* in the bytes beyond the value's size, which the typed setters leave      *)
(* uninitialised: the same value may look like another.                     *)
supla_channel_set_extval(s, v) ==
  /\ s.kind = "ext"
  /\ Ask(s, v)
  /\ \/ ~Alike(v, data[s]) /\ Store(s, v) /\ Mark(s)
     \/ v = data[s] /\ Mark(s) /\ UNCHANGED data
     \/ /\ Alike(v, data[s])
        /\ IF OnChange THEN UNCHANGED sync ELSE Mark(s)
        /\ UNCHANGED data

(* Zero stands for no action.  There is room for one: an action that was    *)
(* not yet queued is overwritten by the next.                               *)
supla_channel_emit_action(s, a) ==
  /\ s.kind = "action" /\ a # Zero
  /\ Ask(s, a) /\ Store(s, a)
  /\ Mark(s)

Set(s) ==
  \E v \in Stock[s.kind] :
    supla_channel_set_value(s, v) \/ supla_channel_set_extval(s, v)
      \/ supla_channel_emit_action(s, v)

-----------------------------------------------------------------------------
(* The output queue.                                                        *)

HasRoom == Len(queue) < QueueSize

NextId == (lastId + 1) % IdWrap

(* Mutant: the test lets one packet too many in. *)
PushOffByOne(packet) ==
  queue' = IF Len(queue) <= QueueSize THEN Append(queue, packet) ELSE queue

srpc_queue_push(packet) ==
  queue' = IF HasRoom THEN Append(queue, packet) ELSE queue

(* srpc_async__call takes an id whether or not there is room. *)
srpc_async_call(packet) ==
  /\ lastId' = NextId
  /\ srpc_queue_push(packet)

(* What it returns, as the flag "sync" sees it: FALSE when the queue is    *)
(* full, else the id cut down to a char.                                   *)
Returned == HasRoom /\ NextId # 0

(* send() waits until the socket has room; a socket is non-blocking only   *)
(* while it connects.  What send() returns is not looked at: a packet that *)
(* is written to a connection that is lost is gone.                        *)
Write(packet) ==
  /\ Len(link) < LinkCap
  /\ link' = IF linkUp THEN Append(link, packet) ELSE link

-----------------------------------------------------------------------------
(* The iterating thread.                                                    *)

(* supla_cloud_disconnect and supla_cloud_connect.  The queue is not       *)
(* emptied, and a packet that was read from the old connection stays in    *)
(* the input buffer.                                                       *)
Connect ==
  /\ state = "INIT" /\ phase = "free"
  /\ link' = <<>> /\ linkUp' = TRUE /\ accepted' = FALSE
  /\ phase' = "register"
  /\ UNCHANGED <<channels, queue, lull, lastId, state, pos, form, answered, view>>

(* supla_channel_to_register_struct: the value goes along, the extended    *)
(* value does not.                                                         *)
RegisterChannel ==
  /\ phase = "register" /\ pos <= Len(Order)
  /\ form' = IF Order[pos] \in Valued
             THEN [form EXCEPT ![Order[pos]] = data[Order[pos]]] ELSE form
  /\ pos' = pos + 1
  /\ UNCHANGED <<channels, queue, lull, lastId, state, phase, link, linkUp, server>>

(* The registration goes past the queue, straight to the connection. *)
RegisterSent ==
  /\ phase = "register" /\ pos > Len(Order)
  /\ Write(Registration(form))
  /\ lastId' = NextId
  /\ state' = "CONNECTED" /\ phase' = "srpc" /\ pos' = 1 /\ form' = Blank
  /\ UNCHANGED <<channels, queue, lull, linkUp, server>>

WaitForResult ==
  /\ state = "CONNECTED" /\ phase = "free"
  /\ phase' = "srpc"
  /\ UNCHANGED <<channels, queue, lull, lastId, state, pos, form, link, linkUp, server>>

(* Captions, functions, configurations, notifications: as many as the      *)
(* application configured, of which those that find no room are dropped.   *)
AfterRegistration ==
  /\ state = "REGISTERED" /\ phase = "free"
  /\ \E n \in 0..MaxBurst :
       /\ lastId' = (lastId + n) % IdWrap
       /\ queue' = [i \in 1..(IF Len(queue) + n < QueueSize THEN Len(queue) + n
                                                            ELSE QueueSize)
                      |-> IF i <= Len(queue) THEN queue[i] ELSE Other]
  /\ state' = "ONLINE" /\ phase' = "srpc"
  /\ UNCHANGED <<channels, lull, pos, form, link, linkUp, server>>

(* A ping, the answer to a call of the server, a request. *)
PerhapsOther ==
  \/ lull = OtherGap /\ lull' = 0 /\ srpc_async_call(Other)
  \/ UNCHANGED <<queue, lull, lastId>>

(* supla_connection_ping comes before the channels. *)
BeginSync ==
  /\ state = "ONLINE" /\ phase = "free"
  /\ PerhapsOther
  /\ phase' = "sync"
  /\ UNCHANGED <<channels, state, pos, form, link, linkUp, server>>

(* Mutant: the flag is set whatever the call returned. *)
SyncAssumesSent ==
  /\ phase = "sync" /\ pos <= Len(Order)
  /\ IF sync[Order[pos]]
     THEN UNCHANGED <<sync, fresh, queue, lastId>>
     ELSE /\ srpc_async_call(Data(Order[pos]))
          /\ sync' = [sync EXCEPT ![Order[pos]] = TRUE]
          /\ fresh' = [fresh EXCEPT ![Order[pos]] = @ /\ ~HasRoom]
  /\ pos' = pos + 1
  /\ UNCHANGED <<data, asked, lull, state, phase, form, link, linkUp, server>>

(* supla_channel_sync, one slot at a time. *)
SyncSlot ==
  /\ phase = "sync" /\ pos <= Len(Order)
  /\ IF sync[Order[pos]]
     THEN UNCHANGED <<sync, fresh, queue, lastId>>
     ELSE /\ srpc_async_call(Data(Order[pos]))
          /\ sync' = [sync EXCEPT ![Order[pos]] = Returned]
          /\ fresh' = [fresh EXCEPT ![Order[pos]] = @ /\ ~HasRoom]
  /\ pos' = pos + 1
  /\ UNCHANGED <<data, asked, lull, state, phase, form, link, linkUp, server>>

EndSync ==
  /\ phase = "sync" /\ pos > Len(Order)
  /\ phase' = "srpc" /\ pos' = 1
  /\ UNCHANGED <<channels, queue, lull, lastId, state, form, link, linkUp, server>>

(* srpc_iterate: at most one packet is read and acted upon, which may take *)
(* an answer ...                                                           *)
ReadResult ==
  /\ phase = "srpc" /\ answered
  /\ PerhapsOther
  /\ answered' = FALSE /\ state' = "REGISTERED" /\ phase' = "write"
  /\ UNCHANGED <<channels, pos, form, link, linkUp, accepted, view>>

ReadOther ==
  /\ phase = "srpc"
  /\ PerhapsOther
  /\ phase' = "write"
  /\ UNCHANGED <<channels, state, pos, form, link, linkUp, server>>

(* ... and then at most one is taken from the queue and written.           *)
SrpcWrite ==
  /\ phase = "write"
  /\ IF queue = <<>>
     THEN UNCHANGED <<queue, link>>
     ELSE Write(Head(queue)) /\ queue' = Tail(queue)
  /\ lull' = IF lull < OtherGap THEN lull + 1 ELSE OtherGap
  /\ phase' = "free"
  /\ UNCHANGED <<channels, lastId, state, pos, form, linkUp, server>>

SrpcFails ==
  /\ phase = "srpc"
  /\ state' = "INIT" /\ phase' = "free"
  /\ UNCHANGED <<channels, queue, lull, lastId, pos, form, link, linkUp, server>>

(* The registration was not answered in time, the server fell silent, or   *)
(* the application stopped the device.                                     *)
GiveUp ==
  /\ phase = "free" /\ state # "INIT"
  /\ state' = "INIT"
  /\ phase' \in IF state = "CONNECTED" THEN {"free", "srpc"} ELSE {"free"}
  /\ UNCHANGED <<channels, queue, lull, lastId, pos, form, link, linkUp, server>>

-----------------------------------------------------------------------------
(* The connection and the server.                                           *)

LinkLost ==
  /\ linkUp
  /\ linkUp' = FALSE /\ link' = <<>> /\ accepted' = FALSE
  /\ UNCHANGED <<channels, queue, lull, lastId, state, phase, pos, form, answered, view>>

(* A server takes the values of a registration it accepts, and nothing     *)
(* from a device it has not accepted.                                      *)
ServerAccepts ==
  /\ link # <<>> /\ Head(link).tag = "registration"
  /\ link' = Tail(link)
  /\ accepted' = TRUE /\ answered' = TRUE
  /\ view' = [s \in Slots |-> IF s \in Valued THEN Head(link).values[s] ELSE view[s]]
  /\ UNCHANGED <<channels, queue, lull, lastId, state, phase, pos, form, linkUp>>

ServerRefuses ==
  /\ link # <<>> /\ Head(link).tag = "registration"
  /\ link' = Tail(link)
  /\ UNCHANGED <<channels, queue, lull, lastId, state, phase, pos, form, linkUp, server>>

ServerReads ==
  /\ link # <<>> /\ Head(link).tag # "registration"
  /\ link' = Tail(link)
  /\ view' = IF accepted /\ Head(link).tag = "data"
             THEN [view EXCEPT ![Head(link).slot] = Head(link).value] ELSE view
  /\ UNCHANGED <<channels, queue, lull, lastId, state, phase, pos, form, linkUp, accepted, answered>>

Iterate ==
  Connect \/ RegisterChannel \/ RegisterSent \/ WaitForResult \/ AfterRegistration
    \/ BeginSync \/ SyncSlot \/ EndSync \/ ReadResult \/ ReadOther \/ SrpcWrite

Next ==
  \/ Iterate \/ SrpcFails \/ GiveUp
  \/ LinkLost \/ ServerAccepts \/ ServerRefuses \/ ServerReads
  \/ \E s \in Slots : Set(s)

Spec == Init /\ [][Next]_vars

(* Nothing more can come of this connection: it is gone, or the server     *)
(* turned the device away and does not answer it.                          *)
Hopeless ==
  \/ ~linkUp
  \/ /\ ~accepted
     /\ \A i \in 1..Len(link) : link[i].tag # "registration"

(* The main thread iterates for ever and gives a hopeless connection up;   *)
(* the server reads what it is sent, and the device what it is answered.    *)
Fairness ==
  /\ WF_vars(Iterate) /\ SF_vars(ReadResult)
  /\ SF_vars(GiveUp /\ Hopeless)
  /\ WF_vars(ServerAccepts \/ ServerReads)

FairSpec == Spec /\ Fairness
-----------------------------------------------------------------------------
(* Properties *)

Packet ==
  {Other} \cup [tag : {"registration"}, values : [Valued -> Value]]
          \cup [tag : {"data"}, slot : Slots, value : Value]

(* Type correctness; neither the queue nor the bound on the link is passed. *)
TypeOK ==
  /\ data \in [Slots -> Value] /\ view \in [Slots -> Value]
  /\ asked \in [Slots -> Value]
  /\ sync \in [Slots -> BOOLEAN] /\ fresh \in [Slots -> BOOLEAN]
  /\ queue \in Seq(Packet) /\ Len(queue) <= QueueSize
  /\ lull \in 0..OtherGap
  /\ lastId \in 0..(IdWrap - 1)
  /\ state \in {"INIT", "CONNECTED", "REGISTERED", "ONLINE"}
  /\ phase \in {"free", "register", "sync", "srpc", "write"}
  /\ pos \in 1..(Len(Order) + 1)
  /\ form \in [Valued -> Value]
  /\ link \in Seq(Packet) /\ Len(link) <= LinkCap
  /\ linkUp \in BOOLEAN /\ accepted \in BOOLEAN /\ answered \in BOOLEAN

Contains(packets, s) == \E i \in 1..Len(packets) : Carries(packets[i], s)

Shown(s) ==
  accepted /\ sync[s] /\ ~Contains(queue, s) /\ ~Contains(link, s) => view[s] = data[s]

(* When a value has nothing left to send and nothing under way, the server *)
(* that accepted the device knows it: no setting of a value is lost to a   *)
(* full queue, to a connection that breaks with packets on it, to packets  *)
(* of an earlier connection that are sent on the next, or to a thread that *)
(* sets the value while the registration is being written.                 *)
ValuesShown == \A s \in Valued : Shown(s)

(* The same of extended values: "Device would automatically synchronize    *)
(* channels data with server" (README.md).                                 *)
ExtendedValuesShown == \A s \in Slots : s.kind = "ext" => Shown(s)

(* A slot that was set to something new and not queued since is still       *)
(* marked to be sent: a full queue, a setter that runs between two slots    *)
(* and a new connection leave what the slot holds to be sent later.  Of an  *)
(* extended value that is as much as its setter compares (see              *)
(* StoredAsSet), of actions the last one.                                   *)
KeptUntilQueued == \A s \in Slots : fresh[s] => ~sync[s]

(* A setter that reports success has stored what it was given, for only    *)
(* what is stored can be sent: "Device would automatically synchronize      *)
(* channels data with server" (README.md).                                  *)
StoredAsSet == \A s \in Slots : data[s] = asked[s]

(* A slot is sent only when it was set since it was last sent: "sync       *)
(* values with server only when changed" (include/libsupla/channel.h).     *)
SentOnlyWhenSet ==
  [][SyncSlot /\ HasRoom /\ ~sync[Order[pos]] => fresh[Order[pos]]]_vars

(* What keeps a device from coming to rest. *)
Disturbance ==
  \/ SrpcFails \/ LinkLost \/ ServerRefuses \/ (GiveUp /\ ~Hopeless)
  \/ \E s \in Slots : Set(s)

(* Once the application leaves the values alone and the connection holds,  *)
(* the server comes to know every value and is not led astray again.       *)
ValuesConverge ==
  <>[][~Disturbance]_vars => <>[](\A s \in Valued : view[s] = data[s])
=============================================================================
