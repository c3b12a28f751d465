# A TLA+ development of libsupla

libsupla is the C library with which a device joins a SUPLA home-automation
server: it keeps a connection, registers the device and its channels, sends what
the channels measure and acts on what the server asks. This directory models
the part of it that is hard to get right, the session, the synchronisation of data and
the calls that carry it, checks it with TLC on small instances and proves the safety properties
with TLAPS for every value of the constants.

Paths below are relative to the repository (`src/device.c`). Line numbers are in
PROJECT.json, where `map` gives the lines of every definition.

## 1. The system

### Components, their state, their operations

| component | state | operations |
|---|---|---|
| Device session, `src/device.c`, `src/device-priv.h` | `state` (CONFIG, IDLE, INIT, CONNECTED, REGISTERED, ONLINE), `activity_timeout`, the times `register_time`, `last_ping`, `last_resp`, `connection_uptime`, the pause `wait_iterate_msec`, `connection_reset_cause`; all under `dev->lck` | `supla_dev_iterate`; handlers of the server's calls; `supla_dev_start`, `_stop`, `_enter_config_mode`, `_exit_config_mode`, `_set_activity_timeout` |
| Channels, `src/channel.c`, `src/supla-value.c`, `src/supla-extvalue.c`, `src/supla-action-trigger.c` | a value, an extended value and the last action, each with a flag `sync`; under `ch->lck` | typed setters, `supla_channel_emit_action`, `supla_channel_sync`, `supla_channel_to_register_struct` |
| SRPC, `src/supla-common/srpc.c` | input and output queue (`Tsrpc_Queue`), a work packet `sdp`; under `srpc->lck` | `srpc_async__call` (some 150 calls go through it), `srpc_iterate`, `srpc_getdata`, queue push and pop |
| Extended values, `srpc_evtool_*` in `src/supla-common/srpc.c` | none | conversions of meters, thermostats and counters; adding to and getting from a value of several |
| Framing, `src/supla-common/proto.c` | input and output byte buffers, `begin_tag`, `next_rr_id` | append, `sproto_pop_in_sdp`, `sproto_pop_out_data`, `sproto_sdp_init` |
| Locks, `src/supla-common/lck.c` | recursive mutexes | lock, unlock |
| Cloud link, `src/port/arch_unix.c`, `src/supla-common/supla-socket.c` | a socket, perhaps with TLS | connect, disconnect, receive, send: a plain socket blocks (`O_NONBLOCK` is set for the connecting only), one with TLS does not |
| Not part of the running device | - | `log.c`, `tools.c`; `cfg.c`, `ini.c`, `eh.c` are built and not used by the device; `sthread.c`, `safearray.c`, `ipcsocket.c` and the C++ files are not built |

### How they interact

One thread calls `supla_dev_iterate` in a loop (see `example/app.c`). One call
holds `dev->lck` throughout: a switch on the state (connect and register; look at
the registration's time; send the requests that follow a registration; ping and
synchronise every channel), then `srpc_iterate`: read what the socket has,
dispatch at most one packet to `supla_dev_on_remote_call_received`, take at most
one packet from the output queue and write it. Other threads call the setters of
channels, which take only `ch->lck`, and the API of the device, which takes
`dev->lck`. Callbacks run inside iterate with `dev->lck` held; the mutex is
recursive, so a callback may call the API itself.

Five facts about the code shape the models:

* A reconnection replaces the socket and nothing else. The output queue, the
  buffers and the flags of the channels live on; a packet of the old connection
  may be dispatched, or sent, on the new one.
* `sync` takes the return value of the call: an identifier of the request, cut
  down to a `char`, or 0 when the queue is full.
* The registration does not go through the queue. It carries the channels'
  values, not the extended values and not the actions.
* What the device says goes through the queue, pings included. A ping that finds no room
  is dropped, and counted as sent.
* Time is read from the wall clock (`gettimeofday`), which the callback for the
  server's time steps; only the pause between attempts is on a monotonic clock.

### What is hard here, and what makes each component correct

PROJECT.json lists the hazards with their lines. In short: a stop that races the
main loop or comes from inside it; check-then-act in start and exit; timers
that are zeroed, set and stepped by four different handlers; leftovers of a
connection that met its end; a queue of ten places that every channel and
request shares; setters that run between the registration and the
synchronisation; pointers of queue places that are kept for reuse.

* **Session.** It does not give up a live server, gives up a dead one in time,
  keeps the link alive, keeps its pauses, stops when told to, and otherwise comes
  back ONLINE.
* **Channels.** Whatever is set reaches the server, or is still marked to be sent;
  nothing is sent without being set.
* **Queues.** A first-in first-out queue with selective removal, with no leak and no
  dangling or shared block.
* **Framing.** Any division of the stream into reads gives the same packets; after
  bad input the buffer is empty.
* **Calls.** What one end writes the other reads, whatever their machines and versions; what
  cannot be read is not sent.
* **Locks.** No circular wait; what a thread counted or received under a lock still holds when it
  is used after the lock was given back.

## 2. The modules

| module | what it is |
|---|---|
| `DeviceSession` | the session: state machine, timers, handlers, API threads, callbacks |
| `DeviceSession_proofs` | theorems about it |
| `ChannelSync` | setters, flags, registration, synchronisation, output queue, connection and server; composes the channel layer, the queue and the session's phases |
| `ChannelSync_proofs` | theorems about it |
| `RpcFifo` | abstract: what a packet queue promises |
| `SrpcQueue` | detailed: the array of heap blocks; implements `RpcFifo` |
| `SrpcQueue_proofs` | theorems about it, the refinement included |
| `PacketPipe` | abstract: what a connection promises about packets |
| `ProtoStream` | detailed: packets as bytes in buffers, cut into writes and reads; implements `PacketPipe` |
| `ProtoStream_proofs` | theorems about it, the refinement included |
| `CallIds` | the calls of the protocol, their numbers, their versions, who says them |
| `WireTypes` | the sizes of the structures that are sent, for each machine |
| `SrpcMessages` | each call twice: as the function that sends it writes it, as `srpc_getdata` reads it |
| `ExtendedValues` | `srpc_evtool_*`: meters, thermostats, counters, several values in one |
| `SrpcCalls` | a device or client and a server of any two versions that call each other; composes the four above |
| `SrpcTables_proofs` | lemmas about every call: its form as it is written and as it is read, on every machine |
| `SrpcCalls_proofs` | theorems about `SrpcCalls` |
| `DeviceLocks` | the locks of the device, the channels and the srpc, and the threads that nest them; composes the lock-taking paths of device.c, channel.c and srpc.c |
| `DeviceLocks_proofs` | theorems about the locks |
| `DeviceData_proofs` | theorems about what the threads hand to each other: packets, and the list of channels |
| `MC_DeviceSession`, `MC_ChannelSync`, `MC_SrpcQueue`, `MC_ProtoStream`, `MC_SrpcCalls`, `MC_DeviceLocks` | model values, channel lists and symmetry for TLC |

Operators named `...` after a comment that begins with "Mutant" are plausible
mistakes in one definition; each property is known to fail when its mutant takes
the place of that definition, so it does say something about the code.

### DeviceSession

The variables are the fields of `struct supla_dev`. A time is kept as its *age*,
which is all the program ever computes from it; ages are whole seconds and
saturate at `AgeCap`, and a zeroed `timeval` is as old as can be. A call of
`supla_dev_iterate` is two steps, the switch (`IterateConnected`,
`IterateRegistered`, ...) and `srpc_iterate` (`SrpcNothing`, `SrpcFails`, one
action for each handler that touches the session, `OnOtherCall` for the
others). Between them `phase` is `"srpc"`, no time passes and no other thread
gets the lock: the point of the split is that the second step acts on a state
the first, or a callback in it, has changed. A call that connects has one step more: `IterateInit` zeroes
the times and begins the attempt, and while `phase` is `"connect"` seconds pass, any number of
them, until `ConnectSucceeds` or `ConnectFails`. The pause after a failure is `wait_iterate_msec` (`waiting`) and
the age of `iterate_time_msec` (`sinceIterate`), which is taken at the start of a call that is
not a pause: an attempt that takes the whole pause is followed by the next at once.

`supla_dev_start` and
`supla_dev_exit_config_mode` are two steps each, since they let the lock go
between check and act (`pc`). `SetState` is `supla_dev_set_state` with its
callback, which may call `supla_dev_stop` or `supla_dev_enter_config_mode` when
`Reentrant` allows it.

Of the output queue the session keeps the number of packets (`backlog`). The requests after a registration,
the pings, the values of the channels, answers and the notifications of other threads add to it as far as
there is room; a ping that finds none sets `last_ping` as if it had been sent (`Pinged`). The OUT half
of `srpc_iterate` takes one packet (`EndIterate`). Only there, and by the registration, is
anything written, which is what `quiet` counts from.

`OnLocaltimeResult` is the one handler with a trap: the callback steps the wall
clock by any amount, and the handler then sets the three times again. Their
modelled ages afterwards are what it assigns; the *history* variables `silence`
(of the server), `quiet` (of the device) and `sinceFailure` (since the call that failed began) count real seconds, and the properties compare the
two. `Stale` says whether a packet of an earlier connection can still be
dispatched (the input buffer is not reset).

### ChannelSync

A *slot* is a value, an extended value or an action of a channel; `Order` lists
them as `supla_dev_sync_channels_data` meets them. The iterating thread takes one
slot per step, in the registration as in the synchronisation, and setters of
other channels come between (of the same channel too, except while
`supla_channel_sync` holds its lock: `Locked`). `srpc_async_call` advances the
identifier and pushes if there is room; `Returned` is what the flag makes of its
result. `SrpcWrite` takes one packet per iteration from the queue and writes it:
`send` waits until there is room on the link, and what it returns is not looked at, so that on a connection that is lost
the packet is gone. `LinkLost` drops what is on the
way. The server (external) accepts or refuses a registration, takes the values
from it, and takes data only from a device it accepted. The timers of the session
are abstracted to `GiveUp`, which may happen whenever no call is in progress.

The setters compare. A value is stored and marked when it differs from the one held. Of an extended value
only as many bytes are compared as it has room for, from the start of a structure that begins with its type and size: two values
that differ in their last five bytes only are `Alike`, and the second is neither stored nor marked. What the typed
setters leave uninitialised is compared too, so that the same value may be marked again. `Beginning` says which
values are alike, `Stock` what the application sets.

History: `asked` is what the application last set a slot to, `fresh` records that it was set to something
the setter takes for new since it was last queued.

### SrpcQueue and RpcFifo

`memory` maps the allocated blocks to their packets, `item` is the array of
pointers. A push may find its place empty and allocate (or be refused a block),
or reuse the block kept there; a pop copies a packet out, frees its block or
keeps it, and closes the array up. `malloc`, `free` and `memcpy` are `Store`
and `Release`. The mapping to `RpcFifo` reads the packets of the first
`itemCount` places.

### ProtoStream and PacketPipe

One direction of a connection, from the sender's queue through its output buffer,
the wire and the receiver's input buffer to what the receiver is handed. Both ends
run `srpc_iterate`: its OUT half is `SenderIterate`, its IN half `ReceiverReads` (the
socket has something) and `ReceiverFindsNothing`. `device` says which end keeps its
buffers when a connection ends and the next is made (`Connect`); the server's end is new
every time. Appending, shrinking and taking a packet out are functions from a buffer to the
set of its possible successors, since `realloc` may fail; their early returns are those of
`sproto_buffer_append`, `sproto_out_buffer_append` and `sproto_pop_in_sdp`.

A byte is a record that says which packet it belongs to and where. The header is one
such unit: it is never cut in two. Where a header is expected and bytes were lost there may be
anything else; a tag reads as an unsupported version and data as any size.

`whole` is a history variable: the connection began with empty buffers and nothing was lost on
it, neither to a short write nor to an append that failed. `PacketPipe` promises order and
completeness for such a connection and nothing for another one. The mapping reads the
bytes of both buffers and the wire at once (`Packets`), which is also the definition of what a
stream means. That the promise cannot be extended to connections that are not whole is
real: the device does not empty its input buffer when it reconnects, and a packet of which the
beginning was read on the old connection can be completed by bytes of the new one and
be handed up (`Garbled` is reached in this run).

### SrpcCalls and the tables below it

The modules above do not look into a packet. These four do, as far as the two ends must
agree on it. A structure of `proto.h` is its size, or when its last member is an array of which
only the used part is sent, a record of the bytes before it, the size of one item and how many
there is room for (`WireTypes`; the structures are packed, and their sizes are sums like those in
the source). A function of `srpc.c` and the case of `srpc_getdata` that answers to it are each one
line of a table that says how the data is cut and which structure that is (`SrpcMessages`): a structure sent
whole, one cut after its last item (`VALID_SIZE`), or a pack of items that are each cut after
their captions (`srpc_set_pack`, `srpc_getpack`). The tables are translated separately, from the
two separate places, so that a disagreement of the two is a counterexample to `Understood`. Each is
a chain of groups of functions: a group says what it has to say of its own calls and leaves the others
to the next.

In `SrpcCalls` each of the two ends has a machine and a `SUPLA_PROTO_VERSION`; an older end is this
code with a lower number, which is what the version gates are about. `srpc_async_call` is the
function's own check, the gate (`srpc_call_allowed`) and the size check of `sproto_set_data`;
`Receive` is the version and size check of `sproto_pop_in_sdp` and `srpc_getdata`. The registration
in chunks goes around the size check, as in the code. One packet is on the wire at a time. The server's
application is not in this repository: that it takes over the version it hears and answers a
version error is marked external, and so is what it relays to its clients.

Data is abstracted to what the checks tell apart: how many items, how long their captions. Extended
values also carry what they were made of (`of`), and for those `ValuesTold` compares what the last
reader is told with what the first writer filled in, over cutting, conversion of meters
down to the version the client knows, and several values in one up to the last byte.

### DeviceLocks

The other modules take a call under a lock as one step. This one takes the calls apart. A function
is the sequence of the steps it makes from the locks `p` that its caller holds: `To(q)` takes
or gives back one lock, so that `q` is held afterwards, and the other steps are what happens between:
counting, inserting, looking for a number, filling and queueing `srpc->sdp`. A thread is the steps it has
yet to make (`todo`) and the locks it holds (`path`). A loop over the channels, a callback
and a choice are single steps that are replaced by what they stand for when they are reached, so
that a list which grows meanwhile is met as it is then.

The thread `Main` calls `supla_dev_iterate` and whatever the others call; these call setters and getters of
channels and of the device, send notifications, start and stop the device and add channels. Callbacks may do all that but start, stop and add. Two actors meet in three
places, and there is a property for each:

* A synchronisation takes the srpc's lock under a channel's (`supla_channel_sync`), a registration
  the channels' under the srpc's (`srpc_ds_async_registerdevice_in_chunks_g` calls back
  `get_channel_data_callback`). What keeps two threads from doing both at once is only that both
  hold `dev->lck` (`NoCircularWait`). `Steps` and `Nests` state that as a type: whoever holds two
  locks has taken the device's first.
* `supla_dev_add_channel` counts under the lock, gives it back and numbers by what it counted; a
  registration counts the channels, then asks for them one by one by their numbers (`RegisteredAsListed`).
* `srpc->sdp` is filled by received packets, by calls and by the packets on their way out, of all threads,
  and `srpc_iterate` gives the lock back before the handler reads (`PacketsKeepTheirSide`).

`RegisteredAsListed` holds when no two threads are adding a channel at the same time, and it is checked
so (`AddsOverlap` is FALSE). Two that are can count the same and give two channels one number; the next registration then looks for a
number that no channel has, and the assertion of `supla_channel_to_register_struct` fails. (Set `AddsOverlap` to
TRUE in `locks.cfg` to see it.) An application that adds its channels before it starts its
threads, as the example does, is not concerned.

## 3. What is checked

| run | what it shows | bounds |
|---|---|---|
| `session_fresh` | `HandshakeBounded`, `HandshakePatient`: an unanswered registration is given up in time and not before; `KeepAlive`; `StopIsFinal`; `CheckSurvivesIterate` | two API threads, no stale packets, no calls from callbacks; a queue of two; the server may switch pings off |
| `session_stale` | `TypeOK`; `DeadPeerDetected`, `NoFalseActivityTimeout`, `RetryPaced`; `Reconnects` under fairness | stale packets, one API thread, callbacks that stop the device or send it to config mode; a queue of two; pings are always on |
| `sync_values` | `TypeOK`; `ValuesShown`; `KeptUntilQueued` | one channel with a value and an extended value, of which two are alike, queue of 2, two packets under way, identifiers modulo 3 |
| `sync_live` | `ValuesConverge` under fairness | an action trigger in front of a sensor, queue of 1 |
| `queue_mcu` | `TypeOK`, `PointersSound`, `NoLeak`, `CountBounded`, `KeepsFew`, `ImplementsFifo` | three places, two blocks kept (as on a microcontroller), four blocks, three packets of which two share an identifier |
| `stream` | `TypeOK`, `BuffersSound`, `ErrorHeals`, `CarriesPackets`; `Arrives` under fairness | two packets, of 5 and of 8 bytes, tags of 2, buffers below 12, writes and reads of at most 6, 8 bytes on the wire, a queue of one |
| `locks` | `TypeOK`; `NoCircularWait`; `RegisteredAsListed`; `PacketsKeepTheirSide` | three threads, any of which adds a channel when no other is adding one; two channels, of which one is an action trigger of the other; a queue of one |
| `calls` | `TypeOK`; `Understood`: whatever is sent is read as it was sent; `ValuesTold`: extended values survive their conversions; `OnlyRegistrationsTooLarge`; `NeverTooNew`; `AnswersReadable` | every call, four kinds of machine, devices and clients of every version from 1 to 28, servers of versions 10, 20 and 28; arrays with no item, one, all there is room for and one more |

Times are scaled: in `session_fresh` the registration's 10 seconds are 2, the margins 5 and 10 are 2
and 1, the pause of 5 is 2, activity timeouts are 3 and 4, or 0; in `session_stale` the first three are 1 and the timeouts 1 and 2. What matters is their
order and that each is passed by one second: `AgeCap` is above all of them, so
that an age never saturates before it was compared. A second may pass at most
`MaxGap` times between two calls of iterate, and as often as it likes in an attempt to connect.
`SyncLatency`, the seconds within which the server answers the request for its time, is an assumption as well as a bound:
the answer resets `last_ping`, and one that comes late puts off the ping that is next (`KeepAlive` allows for it).
`QueueSize` is 2 where the program's is 10: the queue is empty, full, and neither. In ChannelSync, two values
suffice to tell stale from new and a third to be like one of them, a queue of one or two places is full as often as
it is not, and an identifier that wraps after 3 reaches the zero byte that the
program reaches at every 256th request. `OtherGap` and `MaxBurst` bound the
requests that carry no data. In ProtoStream, a write is smaller than the long packet, so that
one is left in the buffer when a connection ends; two packets overflow a buffer; the data of the
long packet is as long as a short one without its closing tag, so that they can be confused. In SrpcCalls, the layouts depend on
how many items an array has only at its ends, hence none, one, the last that fits and the one
that does not; captions likewise; the stock of extended values has two that fill
a value to the last byte together. In DeviceLocks, two threads suffice for a circle of two locks and the third for one of
three; callbacks in callbacks do not call back; every call is one that the version of the connection
has; the limit of the number of channels (`supla_dev_add_channel` refuses the 128th of 128: 127 can be
added) is above what the run adds.
`CanFail` is a bound: memory and writes fall short only on a connection that is still whole. `CHECK_DEADLOCK` is left on throughout.

Fairness (`DeviceSession`): the main loop calls iterate for ever (`WF` of both
halves) and time passes (`SF`, as an iterate call in progress stops the clock of
the model for a moment). Two clauses are about the world: a connection attempt comes to an end (`WF`) and
succeeds again and again (`SF`), and so does the answer to a registration that is waiting for one
(`SF`); without either no device can come ONLINE. `Reconnects` also assumes that packets of
earlier connections run out (`StaleDispatch`): each of them was sent once. `ChannelSync`: the iterating thread
goes on (`WF`), reads an answer that is there (`SF`), gives up a connection that
is lost or was turned away (`SF`; this is what `DeadPeerDetected` and
`HandshakeBounded` show of the session), and the server reads what it is sent
(`WF`). `ValuesConverge` assumes that setters, losses and refusals come to an
end. `ProtoStream`: both ends call `srpc_iterate` for ever (`WF` of its halves). `DeviceLocks` assumes
none and promises no progress of a single thread: a pthread mutex does not say which of those that wait gets it.

### Where the code and its documentation disagree

Four runs end in a counterexample, each of a property that the documentation
states. PROJECT.json quotes the lines.

* `session_callback`: `supla_dev_stop` called in `on_state_change(CONNECTED)` is
  undone when `srpc_iterate` fails later in the same call: line 1094 sets INIT
  without looking at the state.
* `sync_meter`: the flag of an extended value is set when the packet is *queued*; if
  the connection breaks before the server has it, the next registration does not
  repeat it, and it is not sent until it changes.
* `sync_tail`: `supla_extval_set` compares `SUPLA_CHANNELEXTENDEDVALUE_SIZE` bytes of a structure that is
  five bytes longer. A value of full length that differs in its last five bytes only is not stored and never
  sent, and the setter reports success.
* `sync_ids`: every 256th identifier is 0 as a `char`: a value that went out is sent
  again, and so is the action of a trigger.

## 4. What is proved

All proofs hold for every value of the constants under the modules' named
assumptions (`ConstantsAssumption`, `SyncAssumption`, `QueueAssumption`, `StreamAssumption`, `CallsAssumption`, `LocksAssumption`:
types, a bound `AgeCap` above what is compared, counters that fit a byte, versions from 1)
and what the theorem itself assumes.

**DeviceSession.** `TypeCorrect` first. The others rest on these inductive
invariants, each with a step lemma of one case per action:

* `RespIsTrue` (REGISTERED or ONLINE implies `sinceResp = silence`): the
  handlers that step the clock set `last_resp` too. Gives `ActivityTimeoutHonest`
  with no assumption about stale packets, threads or callbacks.
* `CallRuns`: which states a call in progress can meet, and that it is not paused.
* `PausePending` (until `RetryDelay` has passed since the start of the call that failed, the pause is set and
  `iterate_time_msec` is no older than that start): neither a stop nor a start touches the two. Gives `RetryIsPaced`,
  under no assumption.
* `StoppedIsIdle`: `srpc_iterate` is never reached asleep, and after an accepted
  stop the device is idle. The first half is what the property lacks to be
  inductive: without it a handler could wake the device. Gives `StopHolds` and
  `ChecksSurvive`, when no callback calls the API (`session_callback` shows
  why that is needed).
* `HandshakeTimed`: in CONNECTED no one has stepped the clock (no time request is answered before
  the registration is), no pause is pending (`CallRuns`: a pause would let iterate return before the check),
  and the real time since the registration is the measured one. Gives
  `HandshakeIsBounded`, `HandshakeIsPatient`, without stale packets.
* `PeerWatched`: `silence` at each check of `supla_connection_ping` is below the
  limit. Gives `DeadPeerIsDetected`, for pings that are never switched off and a
  main loop that runs at least every `RespMargin` (10) seconds.
* `PingsTimed`: between two calls of a device ONLINE, something was written no longer ago than the last ping is
  *measured* to be, plus `SyncLatency`, and no longer ago than the registration is. The second part bounds the harm of
  `last_ping` being reset by the time answer, which comes within `SyncLatency` of the registration. The same holds in a call of which the queue is
  still empty; once there is a packet in it, the call writes one. So it holds of a ping that was due, whether it found room or not:
  afterwards the queue is not empty. Gives `LinkIsKeptAlive`, without stale packets and
  whatever timeouts are granted: where pings are off, or every `PingMargin` or less, `KeepAlive` promises nothing,
  and the invariant still holds when they are on again.

**SrpcQueue.** `IInv` is type correctness, sound pointers and the bound on
`alloc_count` together: `TypeOK` needs the bound (the counter is a byte and a
reused block is counted again), the bound needs nothing more, and pointers need
types. Closing up is a permutation of the places (`From`, `To`,
`FromIsOneToOne`, `EveryPlaceIsTaken`), from which distinct pointers and no leak
follow. `QueueImplementsFifo` maps each push to `Push` or `Nothing` and each pop
to `Pop` or `Nothing`, using that a push writes to a block no waiting packet
is in, and that what is freed is not pointed to.

**ProtoStream.** `IInv` is `TypeOK` and `BuffersSound`. What an append, a shrink and a pop do to
a sound buffer are lemmas (`AppendIsSound`, `ShrunkIsSound`, `PopIsSound`), stated for any buffer
since both ends use the same functions; `begin_tag` needs that the front of a buffer stays
when it grows (`FrontStays`) and that a pop which takes bytes resets it. They give `TypeCorrect`
and `BuffersAreSound`. `ErrorsHeal` adds `ErrorEmpties`: from the error until the next connection the
buffer is empty.

`StreamCarriesPackets` is the refinement of `PacketPipe`. Its invariant `PipeInv`
adds to `IInv` that on a whole connection the receiver's buffer, the wire and the sender's buffer, one
after the other (`Stream`), hold packets and nothing else. Then every step is a step of the pipe:

* A write or a read that hands up nothing moves bytes inside `Stream`, wherever it cuts them, and
  the mapping does not change (`WrittenStream`, `HoldStream`). A packet taken from the queue is added at
  the end (`HoldsMore`): it changes its place but not its turn.
* What `sproto_pop_in_sdp` finds is the first packet of `Stream` as soon as there is all of it, and
  nothing before (`PopsFirst`): in particular never an error, since a sound buffer's size is at least what it holds. What
  is left still holds packets, and the others are the same (`HoldsLess`).
* A failed append, a short write, an overflow, a break: the pipe loses some of its oldest packets
  and keeps the rest in order (`Loses`), and a new connection is whole only if no bytes are left over.

`Packets` reads a stream from its front by recursion. The library's induction theorems cannot be used,
but `WFMin`, that a set of naturals that is not empty has a least element, can. From it
follows `GoingBack`: what is true of a place when it is true of all places behind it is true of every
place. That gives the recursion's solution (`Readable`, `After`), its types, that an added packet
is read last (`ReadToEnd`) and that the front of a stream does not matter to what is behind it
(`ReadFurther`).

**ChannelSync.** `Typed` first; `NothingForgotten` needs nothing but the types, as `KeptUntilQueued` is then
inductive. What was set is what the setter recognised as new (`New`): `sync_tail` shows what it does not, and an
action that is overwritten before it is queued is gone. `ValuesShown` is not inductive: it says nothing of what is under way. Its invariant (`IInv`)
takes the link followed by the queue as what the server will be told:

* `LatestIsCurrent`: of a slot with nothing left to send, the last packet in the queue carries the value the
  channel holds, and if none is in the queue the last on the link does.
* `FormIsCurrent` and `RegistrationIsCurrent`: if no packet of the slot comes later, the registration
  tells this value, while it is filled in as well as on the link. A slot that is set behind the
  registration's back is marked, so that nothing is claimed of it until it is queued again.
* `LinkInOrder`: a connection carries one registration, ahead of everything else, and the server
  accepts the device no sooner than it has read it; `PositionsFit` says where the loops start.

`ValuesReachServer` needs no assumption. It is about
plain values (`Valued`): for extended values `sync_meter` shows the contrary, and an action has nothing to be shown.

**SrpcCalls.** `VersionInv`: every packet, in either direction, carries the version of the
*peer*, and a call that this version has. The two properties alone are not inductive: the server
would be free to speak its own version. It holds since the peer never changes its
version, the server says nothing before it has taken over the version it heard, a version
in its range is taken over as it is (`sproto_set_version`), and the version error answers in the
version that was refused. Gives `CallsAreNeverTooNew` and `AnswersAreReadable` for all versions
and machines; what the version table holds matters only in that the ping and the version
error need version 1 (`FirstCallsAreOld`).

The other four properties rest on `CallsInv`: `PacketSound` says that the packet on the wire is
what was said last and that it *arrives* (`Arrives`): its size is that of what was sent, fits the receiver's
buffer and is one that `srpc_getdata` accepts for this call in the form it knows. What makes a step keep it is
not a matter of the state but of each call's data, and was put into lemmas, first about the tables
(`SrpcTables_proofs`):

* `AsyncIs` and `GetDataIs` take the two chains apart: which group speaks of a call. With them, group by
  group, `AsyncSound` (every message has one of the four forms and takes at most 10240 bytes),
  `DeviceCallsSmall` (600, a microcontroller's packet, for what devices say and are told, registrations and
  extended values apart),
  `AsyncSame` (its form is the same on every machine, except for calls 105, 405 and 1040, which carry extended
  values of the machine's size) and `ReadsWhatItWrites`: the form a call is read in `Matches` the one it is written
  in, so that what was sent is accepted (`SentIsReadable`).
* A pack is as long as its items together. `Total` is a recursion over them; as above,
  from `WFMin` follow the solution of such a recursion along 0..n (`Iterates`), the sums of the first items
  (`Sums`, `TotalIsSum`), their bounds (`SumsBounded`, `SumsOfPart`) and what `srpc_set_pack` leaves of a pack
  (`KeptFits`).

`CallsAreUnderstood` and `RegistrationsOnly` follow, and `TypesAreCorrect`, for every set of machines and versions.
`ValuesAreTold` adds `TellsTrue` of what was said, which is a lemma for each way of making a
value: a device's (`DeviceValuesTell`), where a meter of each version is read and converted up to the
newest (`MeterIsRead`, `MeterConverts`, `MeterDecodes`), a thermostat is cut after its last part in use
(`ThermostatTells`); and a server's (`ServerValuesTell`), where a meter is converted down to what the client
knows (`ServerMeterTells`) and several values are stored in one. What the server has after putting
any values into one is a row of those that were taken (`Held`), of which the one numbered k is found behind the
sizes of those before it, and none behind the last (`GetIs`). These lemmas hold for rows of
any length; what is put in is the model's stock.

**DeviceLocks.** A call is a list of steps, and what has to be said of it is where it starts and where it ends. A
`Leg(p, q)` is a list whose first step is possible with the locks `p` held, whose steps each lead to where the
next one is possible, in the order of `Nests`, and which ends with `q` held. Legs are joined
(`JoinedLegs`), and a lemma for each function says which leg it is from wherever it is called
(`AsyncCall`, `ChannelCall`, `SrpcIterate`, ...): setters and calls of the srpc under the device's lock or under none,
what takes two only under the device's. `IInv` is `TypeOK`, `Exclusive` (a lock is held by one thread)
and `OnPath`: what a thread has yet to do is a leg from what it holds to nothing. It gives

* `NoLockKept`: whoever has returned from all calls holds no lock;
* `NeverWaitInACircle`: in a circle every thread holds a lock and waits for another, so each has the
  device's (`WaitsUnderDevice`), and only one can.

Both hold for any number of threads and channels, overlapping additions included.

**DeviceData.** What a step relies on is prepared some steps before it, by the same thread. The invariants
follow such a step by its place `i` among those that its thread has yet to make, and say what holds of the shared state
when the steps before it are of certain kinds:

* `Answering(t, i)`: `t` is about to handle a packet. The packet is in the input queue until it is
  got two steps before and in `rd` afterwards, and the device's lock is held all the way. Nobody else is
  `Answering` (that lock is exclusive), so that no one else gets or fills in a packet meanwhile. Gives
  `PacketsAsSent`, with the clause of `OnPath` about a push: what is pushed was filled in under the
  same lock.
* `Adding(t, i)`: `t` is about to put a channel at the end of the list, with the number it
  has counted; one thread at most is (`~AddsOverlap`), so that numbers are places (`Numbered`).
* `Registering(t, i)`: `t` is about to tell of the `i`-th step's row, or to find out that there is
  none left. The rows told so far are the front of the list, and the header has its length; the
  list stays as it is, since both need the device's lock. The channel is found by its number
  because of `Numbered`.

The last two give `ChannelsRegisteredAsListed`. It assumes `~AddsOverlap`, without which it is false (section 2).

Only model-checked: the liveness properties (`Reconnects`, `ValuesConverge`, `Arrives`), which are out of the
prover's reach. Every invariant and every action property of a passing run is stated by a theorem.

## 5. What is not modelled

What the fields of a call mean: a structure is its size and the number of its items. Registration F in
chunks (`srpc_ds_async_registerdevice_in_chunks`), which nothing calls. Extended values of channel
states and timers are bytes that are passed on. The typed setters' conversions, the strings of the configuration,
TLS and sockets, logging, and the files that the device does not use. The
NOSSL variant of the link and other ports differ only in the link and the size of
the queue. In ChannelSync the framing layer is represented by "one packet is read" and "one
packet is written". In `sproto_buffer_append`, an `errno` that still says ENOMEM after a `realloc` that
succeeded makes it fail with its old buffer freed: what follows is undefined, and left out.
`srpc_iterate_device` is not used by `device.c`.
What a TLS socket does when it has no room: it does not block, `SSL_write` may take nothing and keep the record it began, and
`srpc_iterate` does not look. How long a plain `send` blocks: it does so with `dev->lck` held, so that neither the API nor the
activity timeout runs meanwhile; DeviceSession has no such wait, and ChannelSync waits. A server that answers a registration
with `SUPLA_SD_CALL_REGISTER_DEVICE_RESULT_B` (version 25 and later): `srpc_getdata` reads it,
`supla_dev_on_remote_call_received` has no case for it, and the device gives the registration up and makes another; DeviceSession's server uses the
older answer. In DeviceSession and ChannelSync the queue is never refused memory (SrpcQueue has that). Nothing is promised to a channel while others before it in the
list are set in every period and the queue is full: they and the session's own requests take each place that falls free
(`ValuesConverge` is about the time after). In DeviceLocks, `supla_dev_free` and channels that are freed while in use,
which the application must not do; the fields `uptime`, `last_resp` and the like, which callbacks change
under a lock that iterate holds anyway.

## 6. Plan

1. The whole device: ProtoStream below ChannelSync, so that the queue, the packet that is cut
   by a short write, and the values of the channels are in one model.
2. `StartupBurst`: the captions, functions, configurations and notifications that
   follow a registration, one by one, into a queue that may hold leftovers; which of
   them are lost.
3. An abstract specification of the link (what a server sees of a device), with
   DeviceSession shown to implement it.
4. The link as it is used: sends that block under `dev->lck`, the pending record of a TLS socket.
5. The typed setters of channel.c as conversions, the list helpers of safearray.c, the
   event wait of eh.c with its timeouts, and the two variants of the socket with what they
   do when a write is short.
