----------------------------- MODULE DeviceLocks -----------------------------
(***************************************************************************)
(* The locks of the library and the threads that take them: the one that   *)
(* calls supla_dev_iterate and those of the application. There is a        *)
(* recursive lock for the device, for each channel and for the srpc, and   *)
(* no order between the last two: a synchronisation takes the srpc's under *)
(* a channel's, a registration the channels' under the srpc's.             *)
(*                                                                         *)
(* A thread is where it is in its call, todo, and the locks that it holds, *)
(* path, innermost last. A function is the list of steps it makes from     *)
(* where it is called; a loop or a choice is a step that is replaced by    *)
(* what it stands for when it is reached. Locals are cleared where their   *)
(* scope ends.                                                             *)
(***************************************************************************)
EXTENDS Integers, Sequences

CONSTANTS
  Main,            \* the thread that calls supla_dev_iterate
  Apps,            \* the other threads of the application
  AddsOverlap,     \* whether two threads may be adding channels at once
  Channels,        \* what supla_channel_create has made; also names their locks
  NoChannel,
  Related,         \* action_trigger_related_channel of each
  ChannelMaxCount, \* SUPLA_CHANNELMAXCOUNT
  QueueSize        \* SRPC_QUEUE_SIZE

Threads == Apps \cup {Main}
Locks == Channels \cup {"dev", "srpc"}

ASSUME LocksAssumption ==
  /\ AddsOverlap \in BOOLEAN
  /\ NoChannel \notin Channels /\ Channels \cap {"dev", "srpc"} = {}
  /\ Related \in [Channels -> Channels \cup {NoChannel}]
  /\ ChannelMaxCount \in Nat /\ QueueSize \in Nat

VARIABLES
  path,      \* the locks that each thread holds
  todo,      \* the steps that remain of the call each thread is in
  list,      \* dev->channels
  number,    \* ch->number
  counted,   \* local: what supla_dev_get_channel_count returned
  found,     \* local: what supla_dev_get_channel_by_num returned
  header,    \* local: channel_count of a registration
  described, \* history: the channels that the registration has told of
  sdp,       \* whose packet is in srpc->sdp: none, received, a call's
  in_queue,  \* srpc->in_queue, of such packets
  out_queue, \* srpc->out_queue
  rd         \* what srpc_getdata has returned

lists  == <<list, number, counted>>
locals == <<found, header, described>>
srpc   == <<sdp, in_queue, out_queue, rd>>
vars   == <<path, todo, lists, locals, srpc>>

Held(t) == {path[t][i] : i \in DOMAIN path[t]}

(* More than one lock is held only by who has taken the device's first:    *)
(* a function that takes two is called under it, one that takes one and    *)
(* gives it back before it goes on, under it or under none.                *)
Nests == {p \in Seq(Locks) : Len(p) > 1 => p[1] = "dev"}
Roots == {p \in Seq(Locks) : p # <<>> => p[1] = "dev"}
Under == {p \in Seq(Locks) : p # <<>> /\ p[1] = "dev"}

RootOps == {"count", "find", "fill", "push", "callback"}
LoopOps == {"each number", "each caption", "each config", "each notify",
            "each sync"}
UnderOps == {"header", "row", "describe", "receive", "getdata", "pop",
             "handle", "functions", "function", "set value", "tick"}

Steps ==
  [op : {"to"}, path : Nests, ch : {NoChannel}, n : {0}]
  \cup [op : RootOps, path : Roots, ch : {NoChannel}, n : Nat]
  \cup [op : {"add", "insert"}, path : Roots, ch : Channels, n : {0}]
  \cup [op : LoopOps, path : Under, ch : {NoChannel}, n : Nat \ {0}]
  \cup [op : UnderOps, path : Under, ch : {NoChannel}, n : Nat]

Packets == {"none", "received", "call"}

TypeOK ==
  /\ path \in [Threads -> Nests]
  /\ todo \in [Threads -> Seq(Steps)]
  /\ list \in Seq(Channels)
  /\ number \in [Channels -> Int]
  /\ counted \in [Threads -> Nat]
  /\ found \in [Threads -> Channels \cup {NoChannel}]
  /\ header \in Nat
  /\ described \in Seq(Channels)
  /\ sdp \in Packets /\ rd \in Packets
  /\ in_queue \in Seq(Packets) /\ out_queue \in Seq(Packets)
  /\ Len(out_queue) <= QueueSize

-----------------------------------------------------------------------------
(* Functions, called with the locks p held.                                 *)
Step(op, p, c, n) == [op |-> op, path |-> p, ch |-> c, n |-> n]
To(p)     == Step("to", p, NoChannel, 0)     \* lck_lock and lck_unlock
At(op, p) == Step(op, p, NoChannel, 0)
Of(op, p, n) == Step(op, p, NoChannel, n)

(* The version of the connection is read under the lock of the srpc.       *)
(* bound: it is one that has all of the device's calls.                    *)
srpc_call_allowed(p) == <<To(Append(p, "srpc")), To(p)>>

srpc_async__call(p) ==
  srpc_call_allowed(p)
  \o <<To(Append(p, "srpc")), At("fill", p), At("push", p), To(p)>>

(* Mutant: a setter that sends what it was given at once.                  *)
ChannelCallThatSends(p, c) ==
  <<To(Append(p, c))>> \o srpc_async__call(Append(p, c)) \o <<To(p)>>

(* The setters and getters of a channel, and those of the device.          *)
supla_channel_call(p, c) == <<To(Append(p, c)), To(p)>>
supla_dev_call(p) == <<To(Append(p, "dev")), To(p)>>

supla_dev_get_channel_by_num(p, n) ==
  <<To(Append(p, "dev")), Of("each number", Append(p, "dev"), 1),
    Of("find", p, n), To(p)>>

(* The channel is counted under the lock, the lock is given back, and the  *)
(* rest ("add") goes by what was counted.                                  *)
supla_dev_add_channel(p, c) ==
  <<To(Append(p, "dev")), At("count", p), To(p), Step("add", p, c, 0)>>

(* A notification of the device, or of a channel that is looked for; it is *)
(* sent when notifications of that are enabled.                            *)
supla_dev_send_notification(p, ofChannel, enabled) ==
  <<To(Append(p, "dev"))>>
  \o (IF ofChannel THEN <<Of("each number", Append(p, "dev"), 1)>> ELSE <<>>)
  \o <<To(p)>> \o (IF enabled THEN srpc_async__call(p) ELSE <<>>)

(* supla_dev_stop and supla_dev_enter_config_mode; supla_dev_start and      *)
(* supla_dev_exit_config_mode look at the state first.                     *)
supla_dev_stop(p) ==
  <<To(Append(p, "dev")), At("callback", Append(p, "dev")), To(p)>>
supla_dev_start(p) == supla_dev_call(p) \o supla_dev_stop(p)

(* What a thread may call, and what a callback may call in turn.           *)
(* bound: what is called in a callback has no callback of its own.         *)
CallbackCalls(p) ==
  {<<>>, supla_dev_call(p)}
  \cup {supla_channel_call(p, c) : c \in Channels}
  \cup {supla_dev_send_notification(p, b, TRUE) : b \in BOOLEAN}
  \cup {supla_dev_send_notification(p, b, FALSE) : b \in BOOLEAN}

(* A channel is added once: the list is threaded through the channels.     *)
Adds(t, c) == \E i \in DOMAIN todo[t] : todo[t][i].ch = c
MayAdd(c) ==
  /\ \A i \in DOMAIN list : list[i] # c
  /\ \A t \in Threads, d \in Channels : Adds(t, d) => AddsOverlap /\ d # c
ApiCalls ==
  (CallbackCalls(<<>>) \ {<<>>}) \cup {supla_dev_stop(<<>>), supla_dev_start(<<>>)}
  \cup {supla_dev_add_channel(<<>>, c) : c \in {x \in Channels : MayAdd(x)}}

supla_channel_to_register_struct(p, c) ==
  <<To(Append(p, c))>>
  \o (IF Related[c] = NoChannel THEN <<>>
      ELSE supla_channel_call(Append(p, c), Related[c]))
  \o <<To(p)>>

(* The header counts the channels, then srpc_ds_async_registerdevice_in_   *)
(* chunks_g has the callback describe them by their numbers.               *)
supla_dev_register(p) ==
  <<At("header", p)>> \o srpc_call_allowed(p)
  \o <<To(Append(p, "srpc")), At("fill", p), Of("row", Append(p, "srpc"), 0),
       To(p)>>

srpc_iterate(p) == <<To(Append(p, "srpc")), At("receive", p)>>

supla_dev_on_remote_call_received(p) ==
  <<To(Append(p, "srpc")), At("getdata", p), To(p), At("handle", p)>>

Then(A, B) == UNION {{a \o b : b \in B} : a \in A}

(* supla_dev_iterate_tick, by dev->state (DeviceSession has when each is   *)
(* taken): at rest, or the connection fails; a registration; waiting for   *)
(* its result; the requests after it; a ping, and then the end of the      *)
(* connection or the synchronisation of the channels.                      *)
Ticks(p) ==
  LET callback == <<At("callback", p)>>
      perhaps == {<<>>, srpc_async__call(p)}
  IN  {<<>>,
       supla_dev_register(p) \o callback \o srpc_iterate(p),
       callback \o srpc_iterate(p)}
      \cup Then(perhaps,
           Then({<<Of("each caption", p, 1)>> \o srpc_async__call(p)
                   \o <<Of("each config", p, 1)>>},
           Then(perhaps,
                {<<Of("each notify", p, 1)>> \o callback \o srpc_iterate(p)})))
      \cup Then(perhaps, {callback, <<Of("each sync", p, 1)>> \o srpc_iterate(p)})

supla_dev_iterate == <<To(<<"dev">>), At("tick", <<"dev">>), To(<<>>)>>

(* Bodies of the loops over the channels.                                  *)
supla_channel_sync(p, c, requests) ==
  <<To(Append(p, c))>>
  \o (IF requests > 0 THEN srpc_async__call(Append(p, c)) ELSE <<>>)
  \o (IF requests > 1 THEN srpc_async__call(Append(p, c)) ELSE <<>>)
  \o <<To(p)>>

Request(p, c) == supla_channel_call(p, c) \o srpc_async__call(p)

Configs(p, c) ==
  Then({<<>>, supla_channel_call(p, c)},
  Then({<<>>, Request(p, c) \o srpc_async__call(p)},
       {<<>>, supla_channel_call(p, c) \o <<At("callback", p)>> \o srpc_async__call(p)}))

Bodies(op, p, c) ==
  CASE op = "each number"  -> {supla_channel_call(p, c)}
    [] op = "each caption" -> {<<>>, Request(p, c)}
    [] op = "each config"  -> Configs(p, c)
    [] op = "each notify"  -> {<<>>, Request(p, c)}
    [] op = "each sync"    -> {supla_channel_sync(p, c, k) : k \in 0 .. 2}

-----------------------------------------------------------------------------
Init ==
  /\ path = [t \in Threads |-> <<>>]
  /\ todo = [t \in Threads |-> <<>>]
  /\ list = <<>> /\ number = [c \in Channels |-> -1]
  /\ counted = [t \in Threads |-> 0]
  /\ found = [t \in Threads |-> NoChannel]
  /\ header = 0 /\ described = <<>>
  /\ sdp = "none" /\ rd = "none"
  /\ in_queue = <<>> /\ out_queue = <<>>

Idle(t) == todo[t] = <<>>
Now(t) == Head(todo[t])
Reaches(t, op) == ~Idle(t) /\ Now(t).op = op

(* The step of t is made, and steps come in its place.                     *)
Goes(t, steps) == todo' = [todo EXCEPT ![t] = steps \o Tail(@)]

Call(t) ==
  /\ Idle(t)
  /\ \E steps \in IF t = Main THEN {supla_dev_iterate} \cup ApiCalls ELSE ApiCalls :
       todo' = [todo EXCEPT ![t] = steps]
  /\ UNCHANGED <<path, lists, locals, srpc>>

(* lck_lock: the lock is free, or the thread's own already.                *)
Wants(t, l) == Reaches(t, "to") /\ Now(t).path = Append(path[t], l)
WaitsFor(t, u) == t # u /\ \E l \in Held(u) : Wants(t, l)

Lock(t) ==
  \E l \in Locks :
    /\ Wants(t, l)
    /\ \A u \in Threads \ {t} : l \notin Held(u)
    /\ path' = [path EXCEPT ![t] = Append(@, l)]
    /\ Goes(t, <<>>)
    /\ UNCHANGED <<lists, locals, srpc>>

Unlock(t) ==
  /\ Reaches(t, "to")
  /\ \E l \in Locks : path[t] = Append(Now(t).path, l)
  /\ path' = [path EXCEPT ![t] = Now(t).path]
  /\ Goes(t, <<>>)
  /\ UNCHANGED <<lists, locals, srpc>>

(* STAILQ_FOREACH(ch, &dev->channels, channels)                            *)
Loop(t) ==
  /\ \E op \in LoopOps :
       /\ Reaches(t, op)
       /\ IF Now(t).n > Len(list) THEN Goes(t, <<>>)
          ELSE \E body \in Bodies(op, Now(t).path, list[Now(t).n]) :
                 Goes(t, body \o <<Of(op, Now(t).path, Now(t).n + 1)>>)
  /\ UNCHANGED <<path, lists, locals, srpc>>

(* supla_dev_get_channel_by_num: the last channel with that number.        *)
Find(t) ==
  LET has(i) == number[list[i]] = Now(t).n
      last(i) == has(i) /\ \A j \in DOMAIN list : has(j) => j <= i
  IN  /\ Reaches(t, "find")
      /\ found' = [found EXCEPT ![t] =
                     IF \E i \in DOMAIN list : last(i)
                       THEN list[CHOOSE i \in DOMAIN list : last(i)]
                       ELSE NoChannel]
      /\ Goes(t, <<>>)
      /\ UNCHANGED <<path, lists, header, described, srpc>>

(* supla_dev_get_channel_count, under the lock.                            *)
Count(t) ==
  /\ Reaches(t, "count")
  /\ counted' = [counted EXCEPT ![t] = Len(list)]
  /\ Goes(t, <<>>)
  /\ UNCHANGED <<path, list, number, locals, srpc>>

(* The rest of supla_dev_add_channel; on_channel_init is called last.      *)
Add(t) ==
  LET p == Now(t).path
      c == Now(t).ch
      under == Append(p, "dev")
  IN  /\ Reaches(t, "add")
      /\ Goes(t, IF counted[t] + 1 >= ChannelMaxCount THEN <<>>
                 ELSE <<To(under), To(Append(under, c)),
                        Step("insert", p, c, 0),
                        To(under), To(p), At("callback", p)>>)
      /\ counted' = IF counted[t] + 1 >= ChannelMaxCount
                    THEN [counted EXCEPT ![t] = 0] ELSE counted
      /\ UNCHANGED <<path, list, number, locals, srpc>>

(* Mutant: the new channel comes first.                                    *)
InsertHead(t) ==
  /\ Reaches(t, "insert")
  /\ list' = <<Now(t).ch>> \o list
  /\ number' = [number EXCEPT ![Now(t).ch] = counted[t]]
  /\ counted' = [counted EXCEPT ![t] = 0]
  /\ Goes(t, <<>>)
  /\ UNCHANGED <<path, locals, srpc>>

(* STAILQ_INSERT_TAIL, with the number that was counted.                   *)
Insert(t) ==
  /\ Reaches(t, "insert")
  /\ list' = Append(list, Now(t).ch)
  /\ number' = [number EXCEPT ![Now(t).ch] = counted[t]]
  /\ counted' = [counted EXCEPT ![t] = 0]
  /\ Goes(t, <<>>)
  /\ UNCHANGED <<path, locals, srpc>>

Header(t) ==
  /\ Reaches(t, "header")
  /\ header' = Len(list) /\ described' = <<>>
  /\ Goes(t, <<>>)
  /\ UNCHANGED <<path, lists, found, srpc>>

Row(t) ==
  LET p == Now(t).path
      n == Now(t).n
  IN  /\ Reaches(t, "row")
      /\ Goes(t, IF n >= header THEN <<>>
                 ELSE supla_dev_get_channel_by_num(p, n)
                      \o <<At("describe", p), Of("row", p, n + 1)>>)
      /\ IF n >= header THEN header' = 0 /\ described' = <<>>
         ELSE UNCHANGED <<header, described>>
      /\ UNCHANGED <<path, lists, found, srpc>>

(* assert(NULL != ch)                                                      *)
Describe(t) ==
  /\ Reaches(t, "describe")
  /\ found[t] \in Channels
  /\ described' = Append(described, found[t])
  /\ found' = [found EXCEPT ![t] = NoChannel]
  /\ Goes(t, supla_channel_to_register_struct(Now(t).path, found[t]))
  /\ UNCHANGED <<path, lists, header, srpc>>

Callback(t) ==
  /\ Reaches(t, "callback")
  /\ \E steps \in CallbackCalls(Now(t).path) : Goes(t, steps)
  /\ UNCHANGED <<path, lists, locals, srpc>>

Tick(t) ==
  /\ Reaches(t, "tick")
  /\ \E steps \in Ticks(Now(t).path) : Goes(t, steps)
  /\ UNCHANGED <<path, lists, locals, srpc>>

-----------------------------------------------------------------------------
(* What is done under the lock of the srpc.                                 *)
(* sproto_sdp_init, sproto_set_data                                        *)
Fill(t) ==
  /\ Reaches(t, "fill")
  /\ sdp' = "call"
  /\ Goes(t, <<>>)
  /\ UNCHANGED <<path, lists, locals, in_queue, out_queue, rd>>

(* Mutant: the last place is filled twice.                                 *)
PushTooMany(t) ==
  /\ Reaches(t, "push")
  /\ out_queue' = IF Len(out_queue) <= QueueSize THEN Append(out_queue, sdp)
                  ELSE out_queue
  /\ Goes(t, <<>>)
  /\ UNCHANGED <<path, lists, locals, sdp, in_queue, rd>>

(* srpc_out_queue_push: a call for which there is no room is dropped.      *)
Push(t) ==
  /\ Reaches(t, "push")
  /\ out_queue' = IF Len(out_queue) < QueueSize THEN Append(out_queue, sdp)
                  ELSE out_queue
  /\ Goes(t, <<>>)
  /\ UNCHANGED <<path, lists, locals, sdp, in_queue, rd>>

Pop(t) ==
  /\ Reaches(t, "pop")
  /\ IF out_queue = <<>> THEN UNCHANGED <<sdp, out_queue>>
     ELSE sdp' = Head(out_queue) /\ out_queue' = Tail(out_queue)
  /\ Goes(t, <<>>)
  /\ UNCHANGED <<path, lists, locals, in_queue, rd>>

(* The first half of srpc_iterate: it fails, nothing came, or a packet is  *)
(* queued and the lock given back while the callback handles it. When      *)
(* either half fails, supla_dev_iterate_tick sets the state to INIT.       *)
Receive(t) ==
  LET p == Now(t).path
      end == <<To(p), At("callback", p)>>
  IN  /\ Reaches(t, "receive")
      /\ \/ /\ Goes(t, end)
            /\ UNCHANGED <<sdp, in_queue>>
         \/ /\ Goes(t, <<At("pop", p)>> \o end)
            /\ UNCHANGED <<sdp, in_queue>>
         \/ /\ sdp' = "received" /\ in_queue' = Append(in_queue, "received")
            /\ Goes(t, <<To(p)>> \o supla_dev_on_remote_call_received(p)
                       \o <<To(Append(p, "srpc")), At("pop", p)>> \o end)
      /\ UNCHANGED <<path, lists, locals, out_queue, rd>>

(* Mutant: what a build without an input queue does, which has no threads. *)
GetDataWithoutQueue(t) ==
  /\ Reaches(t, "getdata")
  /\ rd' = sdp /\ in_queue' = Tail(in_queue) /\ UNCHANGED sdp
  /\ Goes(t, <<>>)
  /\ UNCHANGED <<path, lists, locals, out_queue>>

(* srpc_getdata pops the input queue into sdp.                             *)
GetData(t) ==
  /\ Reaches(t, "getdata")
  /\ IF in_queue = <<>> THEN rd' = "none" /\ UNCHANGED <<sdp, in_queue>>
     ELSE /\ sdp' = Head(in_queue) /\ rd' = Head(in_queue)
          /\ in_queue' = Tail(in_queue)
  /\ Goes(t, <<>>)
  /\ UNCHANGED <<path, lists, locals, out_queue>>

(* The handlers of the server's messages, without the lock of the srpc:    *)
(* those that concern no channel, those that look for one, and the         *)
(* functions, which look for one after another.                            *)
Handlers(p) ==
  LET callback == <<At("callback", p)>>
  IN  {<<>>, callback, srpc_async__call(p), callback \o srpc_async__call(p),
       srpc_async__call(p) \o callback, <<Of("functions", p, 0)>>}
      \cup Then({<<>>, callback},
                {supla_dev_get_channel_by_num(p, n)
                   \o <<At("set value", p)>> \o srpc_async__call(p) : n \in 0 .. Len(list)})
      \cup {supla_dev_get_channel_by_num(p, n)
              \o <<At("function", p), At("set value", p)>> : n \in 0 .. Len(list)}

Handle(t) ==
  /\ Reaches(t, "handle")
  /\ \E steps \in IF rd = "none" THEN {<<>>} ELSE Handlers(Now(t).path) :
       Goes(t, steps)
  /\ rd' = "none"
  /\ UNCHANGED <<path, lists, locals, sdp, in_queue, out_queue>>

(* bound: the server names the functions of as many channels as there are, *)
(* and one more.                                                           *)
Functions(t) ==
  LET p == Now(t).path
      n == Now(t).n
  IN  /\ Reaches(t, "functions")
      /\ Goes(t, IF n > Len(list) THEN <<>>
                 ELSE supla_dev_get_channel_by_num(p, n)
                      \o <<At("function", p), Of("functions", p, n + 1)>>)
      /\ found' = [found EXCEPT ![t] = NoChannel]
      /\ UNCHANGED <<path, lists, header, described, srpc>>

(* if (ch) supla_channel_set_active_function, if (ch) the channel's own    *)
(* callback                                                                *)
IfFound(t) ==
  LET p == Now(t).path
  IN  /\ \/ /\ Reaches(t, "function")
            /\ Goes(t, IF found[t] = NoChannel THEN <<>>
                       ELSE supla_channel_call(p, found[t]))
            /\ UNCHANGED found
         \/ /\ Reaches(t, "set value")
            /\ Goes(t, IF found[t] = NoChannel THEN <<>>
                       ELSE <<At("callback", p)>>)
            /\ found' = [found EXCEPT ![t] = NoChannel]
      /\ UNCHANGED <<path, lists, header, described, srpc>>

Next ==
  \E t \in Threads :
    \/ Call(t) \/ Lock(t) \/ Unlock(t) \/ Loop(t) \/ Find(t)
    \/ Count(t) \/ Add(t) \/ Insert(t)
    \/ Header(t) \/ Row(t) \/ Describe(t)
    \/ Callback(t) \/ Tick(t) \/ Handle(t) \/ Functions(t) \/ IfFound(t)
    \/ Fill(t) \/ Push(t) \/ Pop(t) \/ Receive(t) \/ GetData(t)

Spec == Init /\ [][Next]_vars

-----------------------------------------------------------------------------
(* NoCircularWait: threads never wait for each other's locks in a circle.  *)
(* The locks of a channel and of the srpc are taken in both orders, by     *)
(* supla_channel_sync and by supla_channel_to_register_struct inside       *)
(* srpc_ds_async_registerdevice_in_chunks_g, and callbacks take what they  *)
(* like on top of what supla_dev_iterate holds.                            *)
NoCircularWait ==
  \A S \in SUBSET Threads :
    S # {} => \E t \in S : \A u \in S : ~WaitsFor(t, u)

(* RegisteredAsListed: a registration describes every channel that its     *)
(* header counts, once and in the order of their numbers, and the          *)
(* assertion of supla_channel_to_register_struct holds, whatever else runs *)
(* meanwhile, as long as additions do not overlap.                         *)
RegisteredAsListed ==
  \A t \in Threads :
    /\ Reaches(t, "describe") => found[t] \in Channels
    /\ Reaches(t, "row") =>
         /\ described = SubSeq(list, 1, Now(t).n)
         /\ Now(t).n >= header => described = list

(* PacketsKeepTheirSide: srpc->sdp serves all threads and both directions, *)
(* yet a handler is given what came from the server, and only calls are    *)
(* queued for it.                                                          *)
PacketsKeepTheirSide ==
  /\ \A i \in DOMAIN out_queue : out_queue[i] = "call"
  /\ \A t \in Threads : Reaches(t, "handle") => rd = "received"
=============================================================================
