---------------------------- MODULE DeviceSession ----------------------------
(***************************************************************************)
(* The life of a SUPLA device's connection, as src/src/device.c runs it:   *)
(* the state machine of supla_dev_iterate_tick(), its timers, the server   *)
(* messages that move it, and the application threads that call the        *)
(* supla_dev_* API meanwhile.                                              *)
(*                                                                         *)
(* dev->lck is held for a whole iterate call.  The call is two steps here: *)
(* the switch on the state, and srpc_iterate(); between them phase is      *)
(* "srpc".  An attempt to connect, which may take any time, is a step of   *)
(* its own before that: phase is "connect" until it returns.  Unless phase *)
(* is "free", every action of another thread that needs the lock waits.    *)
(*                                                                         *)
(* A timeval of the program (register_time, last_ping, last_resp) is       *)
(* modelled by its age, the difference to the wall clock that the program  *)
(* computes, in whole seconds and saturating at AgeCap.  A zeroed timeval  *)
(* is as old as can be.                                                    *)
(***************************************************************************)
EXTENDS Integers

CONSTANTS
  App,             \* application threads that call the API
  Reentrant,       \* API calls the application makes from inside its callbacks
  Stale,           \* may a packet of an earlier connection still be dispatched?
  RegisterTimeout, \* seconds CONNECTED waits for the result of a registration
  PingMargin,      \* a ping is sent this long before the activity timeout ...
  RespMargin,      \* ... and the link is given up this long after it
  RetryDelay,      \* pause after a failed connect or a failed srpc_iterate
  QueueSize,       \* SRPC_QUEUE_SIZE
  DefaultTimeout,  \* activity timeout of a new device
  AppTimeouts,     \* activity timeouts the application asks for
  ServerTimeouts,  \* activity timeouts the server grants (0 switches pings off)
  MaxGap,          \* bound: seconds from one call of supla_dev_iterate to the next
  SyncLatency,     \* bound: seconds from a registration to the answer to a time request
  AgeCap           \* bound: an age saturates here

ApiCalls == {"none", "start", "stop", "config", "exit"}

Timeouts == {DefaultTimeout} \cup (AppTimeouts \ {0}) \cup ServerTimeouts

ASSUME ConstantsAssumption ==
  /\ Reentrant \subseteq {"stop", "config"}
  /\ Stale \in BOOLEAN
  /\ RegisterTimeout \in Nat /\ PingMargin \in Nat /\ RespMargin \in Nat
  /\ RetryDelay \in Nat /\ DefaultTimeout \in Nat
  /\ MaxGap \in Nat /\ SyncLatency \in Nat /\ AgeCap \in Nat
  /\ DefaultTimeout # 0 /\ QueueSize \in Nat \ {0}
  /\ AppTimeouts \subseteq Nat /\ ServerTimeouts \subseteq Nat
  /\ RegisterTimeout + MaxGap < AgeCap /\ RetryDelay < AgeCap
  /\ \A t \in Timeouts : t + RespMargin + MaxGap < AgeCap
  /\ SyncLatency < AgeCap

VARIABLES
  state,           \* dev->state
  activityTimeout, \* dev->activity_timeout
  sinceRegister,   \* age of dev->register_time
  sincePing,       \* age of dev->last_ping
  sinceResp,       \* age of dev->last_resp
  connUptime,      \* dev->connection_uptime
  resetCause,      \* dev->connection_reset_cause
  waiting,         \* is dev->wait_iterate_msec set (to RetryDelay)?
  sinceIterate,    \* age of dev->iterate_time_msec, saturating at RetryDelay
  phase,           \* "free", or how far the iterate call in progress has come
  pc,              \* what an API call that has read dev->state goes on to do
  backlog,         \* packets in srpc->out_queue
  registering,     \* does the server owe the result of a registration?
  silence,         \* history: seconds since a message of the server was dispatched
  quiet,           \* history: seconds since the registration was sent; from then on,
                   \*   once it was accepted, since anything was written
  sinceFailure,    \* history: seconds since the last call that failed began, saturating
                   \*   at RetryDelay
  sinceCall,       \* seconds since the last supla_dev_iterate call returned
  command          \* history: the last API call that changes the state, once accepted

timers   == <<sinceRegister, sincePing, sinceResp>>
pause    == <<waiting, sinceIterate, sinceFailure>>
settings == <<activityTimeout, connUptime>>
vars     == <<state, activityTimeout, sinceRegister, sincePing, sinceResp, connUptime,
              resetCause, waiting, sinceIterate, phase, pc, backlog, registering, silence,
              quiet, sinceFailure, sinceCall, command>>

States == {"CONFIG", "IDLE", "INIT", "CONNECTED", "REGISTERED", "ONLINE"}

Age == 0..AgeCap

Older(age, cap) == IF age < cap THEN age + 1 ELSE cap

Init ==
  /\ state = "IDLE"
  /\ activityTimeout = DefaultTimeout
  /\ sinceRegister = AgeCap /\ sincePing = AgeCap /\ sinceResp = AgeCap
  /\ connUptime = 0
  /\ resetCause = "UNKNOWN"
  /\ waiting = FALSE /\ sinceIterate = RetryDelay
  /\ phase = "free"
  /\ pc = [t \in App |-> "ready"]
  /\ backlog = 0
  /\ registering = FALSE
  /\ silence = AgeCap /\ quiet = AgeCap /\ sinceFailure = RetryDelay
  /\ sinceCall = 0
  /\ command = "none"

-----------------------------------------------------------------------------
(* supla_dev_set_state: the lock is recursive, so the state change callback, *)
(* called when the state really changes, may itself stop the device or send  *)
(* it to config mode.                                                        *)

Target(call) == CASE call = "start"  -> "INIT"
                  [] call = "config" -> "CONFIG"
                  [] OTHER           -> "IDLE"

CallFromCallback == \E call \in Reentrant : state' = Target(call) /\ command' = call

SetState(s, cmd) ==
  \/ state' = s /\ command' = cmd
  \/ s # state /\ CallFromCallback

Callback == UNCHANGED <<state, command>> \/ CallFromCallback

(* supla_dev_set_connection_reset_cause and the return to INIT. *)
Reconnect(cause) ==
  /\ resetCause' = cause
  /\ SetState("INIT", command)

-----------------------------------------------------------------------------
(* supla_dev_iterate: first part, up to srpc_iterate.                       *)

(* The pause is counted from the beginning of the call that failed. *)
Paused == waiting /\ sinceIterate < RetryDelay

BeginIterate(s) ==
  /\ phase = "free" /\ ~Paused /\ state = s
  /\ waiting' = FALSE /\ sinceIterate' = 0 /\ sinceCall' = 0
  /\ UNCHANGED <<pc, sinceFailure>>

IteratePaused ==
  /\ phase = "free" /\ Paused
  /\ sinceCall' = 0
  /\ UNCHANGED <<state, settings, timers, resetCause, pause, phase, pc, backlog, registering,
                 silence, quiet, command>>

(* Mutant: IDLE and CONFIG break out of the switch instead of returning.   *)
DormantFallsThrough ==
  /\ BeginIterate("CONFIG") \/ BeginIterate("IDLE")
  /\ phase' = "srpc"
  /\ UNCHANGED <<state, settings, timers, resetCause, backlog, registering, silence, quiet,
                 command>>

(* The device is not started. *)
IterateDormant ==
  /\ BeginIterate("CONFIG") \/ BeginIterate("IDLE")
  /\ UNCHANGED <<state, settings, timers, resetCause, phase, backlog, registering, silence,
                 quiet, command>>

(* The old link is closed, so its unanswered requests are never answered;  *)
(* what is in the queue stays there.                                       *)
IterateInit ==
  /\ BeginIterate("INIT")
  /\ sinceRegister' = AgeCap /\ sincePing' = AgeCap /\ sinceResp' = AgeCap
  /\ registering' = FALSE
  /\ phase' = "connect"
  /\ UNCHANGED <<state, settings, resetCause, backlog, silence, quiet, command>>

(* Mutant: supla_dev_register leaves the zeroed register_time alone. *)
ConnectKeepsRegisterTime ==
  /\ phase = "connect" /\ phase' = "srpc"
  /\ registering' = TRUE /\ quiet' = 0
  /\ SetState("CONNECTED", command)
  /\ UNCHANGED <<settings, timers, resetCause, pause, pc, backlog, silence, sinceCall>>

(* supla_dev_register: the registration goes past the queue. *)
ConnectSucceeds ==
  /\ phase = "connect" /\ phase' = "srpc"
  /\ sinceRegister' = 0
  /\ registering' = TRUE /\ quiet' = 0
  /\ SetState("CONNECTED", command)
  /\ UNCHANGED <<settings, sincePing, sinceResp, resetCause, pause, pc, backlog, silence,
                 sinceCall>>

ConnectFails ==
  /\ phase = "connect" /\ phase' = "free"
  /\ waiting' = TRUE /\ sinceFailure' = sinceIterate
  /\ UNCHANGED <<state, settings, timers, resetCause, sinceIterate, pc, backlog, registering,
                 silence, quiet, sinceCall, command>>

(* Mutant: the registration is not timed. *)
ConnectedUntimed ==
  /\ BeginIterate("CONNECTED")
  /\ phase' = "srpc"
  /\ UNCHANGED <<state, command, resetCause, settings, timers, backlog, registering, silence,
                 quiet>>

IterateConnected ==
  /\ BeginIterate("CONNECTED")
  /\ IF sinceRegister > RegisterTimeout
     THEN Reconnect("CONNECTION_LOST")
     ELSE UNCHANGED <<state, command, resetCause>>
  /\ phase' = "srpc"
  /\ UNCHANGED <<settings, timers, backlog, registering, silence, quiet>>

(* The requests that follow a registration are queued in one go, as far as *)
(* there is room: the functions of the channels are always asked for, the  *)
(* time only when the application has a callback for it.                   *)
IterateRegistered ==
  /\ BeginIterate("REGISTERED")
  /\ backlog' \in 1..QueueSize /\ backlog' >= backlog
  /\ SetState("ONLINE", command)
  /\ phase' = "srpc"
  /\ UNCHANGED <<settings, timers, resetCause, registering, silence, quiet>>

(* Mutants: the ping waits for the whole activity timeout; the answer is    *)
(* looked for in the time of the last ping.                                 *)
PingLate     == activityTimeout # 0 /\ sincePing >= activityTimeout
PingedNotYet == activityTimeout # 0 /\ sincePing >= activityTimeout + RespMargin

(* supla_connection_ping *)
PingDue  == activityTimeout # 0 /\ sincePing >= activityTimeout - PingMargin
PeerDead == activityTimeout # 0 /\ sinceResp >= activityTimeout + RespMargin

(* The queue may have no room for a ping that is due; last_ping is set to   *)
(* the present all the same.                                                *)
Pinged == IF PingDue /\ backlog < QueueSize THEN backlog + 1 ELSE backlog

(* The values of the channels are queued after the ping. *)
IterateOnline ==
  /\ BeginIterate("ONLINE")
  /\ connUptime' = sinceRegister
  /\ sincePing' = IF PingDue THEN 0 ELSE sincePing
  /\ IF PeerDead
     THEN /\ phase' = "free" /\ backlog' = Pinged
          /\ Reconnect("ACTIVITY_TIMEOUT")
     ELSE /\ phase' = "srpc" /\ backlog' \in Pinged..QueueSize
          /\ UNCHANGED <<state, command, resetCause>>
  /\ UNCHANGED <<activityTimeout, sinceRegister, sinceResp, registering, silence, quiet>>

-----------------------------------------------------------------------------
(* srpc_iterate: what it reads, and supla_dev_on_remote_call_received.      *)

(* The output half of srpc_iterate, with n packets in the queue, takes one  *)
(* and writes it.                                                           *)
EndIterate(n) ==
  /\ phase = "srpc" /\ phase' = "free"
  /\ backlog' = IF n > 0 THEN n - 1 ELSE 0
  /\ quiet' = IF n > 0 /\ state # "CONNECTED" THEN 0 ELSE quiet
  /\ UNCHANGED <<pause, pc, sinceCall>>

SrpcNothing ==
  /\ EndIterate(backlog)
  /\ UNCHANGED <<state, settings, timers, resetCause, registering, silence, command>>

(* Mutant: no pause after a failure. *)
SrpcFailsAtOnce ==
  /\ phase = "srpc" /\ phase' = "free"
  /\ Reconnect("CONNECTION_LOST")
  /\ sinceFailure' = sinceIterate
  /\ UNCHANGED <<settings, timers, waiting, sinceIterate, pc, backlog, registering, silence,
                 quiet, sinceCall>>

(* The server closed the link, or what was read is not a SUPLA packet.      *)
(* Nothing is written in such a call.                                       *)
SrpcFails ==
  /\ phase = "srpc" /\ phase' = "free"
  /\ Reconnect("CONNECTION_LOST")
  /\ waiting' = TRUE /\ sinceFailure' = sinceIterate
  /\ UNCHANGED <<settings, timers, sinceIterate, pc, backlog, registering, silence, quiet,
                 sinceCall>>

(* A message of the server, which may take an answer. *)
Dispatch ==
  /\ \E n \in backlog..QueueSize : EndIterate(n)
  /\ sinceResp' = 0 /\ silence' = 0
  /\ UNCHANGED resetCause

(* The server answers each registration once; a stale answer leaves the    *)
(* one that is due still to come.                                          *)
RegisterAnswered ==
  \/ registering /\ registering' = FALSE
  \/ Stale /\ UNCHANGED registering

OnRegisterResult ==
  /\ Dispatch
  /\ RegisterAnswered
  /\ sinceRegister' = 0
  /\ SetState("REGISTERED", command)
  /\ UNCHANGED <<settings, sincePing>>

(* Any result code but SUPLA_RESULTCODE_TRUE is only logged. *)
OnRegisterRefused ==
  /\ Dispatch
  /\ RegisterAnswered
  /\ UNCHANGED <<state, command, settings, sinceRegister, sincePing>>

OnActivityTimeoutResult ==
  /\ Dispatch
  /\ activityTimeout' \in ServerTimeouts
  /\ UNCHANGED <<state, command, connUptime, sinceRegister, sincePing, registering>>

(* A request for the time may have stayed in the queue over a reconnection; *)
(* the server answers it only after it has accepted the registration, whose *)
(* result comes before.                                                     *)
TimeAnswered == ~registering /\ state # "CONNECTED" /\ sinceRegister <= SyncLatency

(* Mutant: last_resp is left as it was, and the clock has leapt ahead. *)
LocaltimeKeepsLastResp ==
  /\ EndIterate(backlog)
  /\ Stale \/ TimeAnswered
  /\ sinceResp' = AgeCap /\ silence' = 0
  /\ sinceRegister' = connUptime
  /\ sincePing' = 0
  /\ UNCHANGED <<state, command, settings, resetCause, registering>>

(* The callback has stepped the wall clock, by any amount: the timevals are *)
(* set again so that they agree with the new time.                          *)
OnLocaltimeResult ==
  /\ Dispatch
  /\ Stale \/ TimeAnswered
  /\ sinceRegister' = connUptime
  /\ sincePing' = 0
  /\ UNCHANGED <<state, command, settings, registering>>

OnEnterConfigRequest ==
  /\ Dispatch
  /\ SetState("CONFIG", command)
  /\ UNCHANGED <<settings, sinceRegister, sincePing, registering>>

(* The other calls do not touch the session, save through their callbacks. *)
OnOtherCall ==
  /\ Dispatch
  /\ Callback
  /\ UNCHANGED <<settings, sinceRegister, sincePing, registering>>

-----------------------------------------------------------------------------
(* The API.  supla_dev_start and supla_dev_exit_config_mode read the state  *)
(* under the lock, release it, and take it again to set the new state.      *)

session == <<settings, timers, resetCause, pause, phase, backlog, registering, silence, quiet,
             sinceCall>>

CheckState(t, s, next) ==
  /\ phase = "free" /\ pc[t] = "ready" /\ state = s
  /\ pc' = [pc EXCEPT ![t] = next]
  /\ UNCHANGED <<session, state, command>>

CommitState(t, from, s) ==
  /\ phase = "free" /\ pc[t] = from
  /\ pc' = [pc EXCEPT ![t] = "ready"]
  /\ SetState(s, from)
  /\ UNCHANGED session

supla_dev_start(t) ==
  \/ CheckState(t, "IDLE", "start")
  \/ CommitState(t, "start", "INIT")

supla_dev_exit_config_mode(t) ==
  \/ CheckState(t, "CONFIG", "exit")
  \/ CommitState(t, "exit", "IDLE")

(* Mutant: supla_dev_stop does not take the lock. *)
StopUnlocked(t) ==
  /\ pc[t] = "ready"
  /\ SetState("IDLE", "stop")
  /\ UNCHANGED <<session, pc>>

supla_dev_stop(t) ==
  /\ phase = "free" /\ pc[t] = "ready"
  /\ SetState("IDLE", "stop")
  /\ UNCHANGED <<session, pc>>

supla_dev_enter_config_mode(t) ==
  /\ phase = "free" /\ pc[t] = "ready"
  /\ SetState("CONFIG", "config")
  /\ UNCHANGED <<session, pc>>

(* Mutant: 0 is taken as it is, and not as the default. *)
TimeoutUnchecked(t) ==
  /\ phase = "free" /\ pc[t] = "ready"
  /\ activityTimeout' \in AppTimeouts
  /\ UNCHANGED <<state, command, connUptime, timers, resetCause, pause, phase, pc, backlog,
                 registering, silence, quiet, sinceCall>>

supla_dev_set_activity_timeout(t) ==
  /\ phase = "free" /\ pc[t] = "ready"
  /\ \E sec \in AppTimeouts :
       activityTimeout' = IF sec = 0 THEN DefaultTimeout ELSE sec
  /\ UNCHANGED <<state, command, connUptime, timers, resetCause, pause, phase, pc, backlog,
                 registering, silence, quiet, sinceCall>>

(* The notification is queued after dev->lck was released. *)
supla_dev_send_notification ==
  /\ backlog' = IF backlog < QueueSize THEN backlog + 1 ELSE backlog
  /\ UNCHANGED <<state, settings, timers, resetCause, pause, phase, pc, registering, silence,
                 quiet, sinceCall, command>>

-----------------------------------------------------------------------------
(* A second passes: between two calls of supla_dev_iterate, which the       *)
(* program makes in a loop, so that no more than MaxGap seconds lie between *)
(* them; or in an attempt to connect, which takes as long as it takes.      *)
Second ==
  /\ \/ phase = "free" /\ sinceCall < MaxGap /\ sinceCall' = sinceCall + 1
     \/ phase = "connect" /\ UNCHANGED sinceCall
  /\ sinceRegister' = Older(sinceRegister, AgeCap)
  /\ sincePing' = Older(sincePing, AgeCap)
  /\ sinceResp' = Older(sinceResp, AgeCap)
  /\ silence' = Older(silence, AgeCap)
  /\ quiet' = Older(quiet, AgeCap)
  /\ sinceIterate' = Older(sinceIterate, RetryDelay)
  /\ sinceFailure' = Older(sinceFailure, RetryDelay)
  /\ UNCHANGED <<state, settings, resetCause, waiting, phase, pc, backlog, registering, command>>

IterateHead ==
  IteratePaused \/ IterateDormant \/ IterateInit \/ ConnectSucceeds \/ ConnectFails
    \/ IterateConnected \/ IterateRegistered \/ IterateOnline

SrpcIterate ==
  SrpcNothing \/ SrpcFails \/ OnRegisterResult \/ OnRegisterRefused
    \/ OnActivityTimeoutResult \/ OnLocaltimeResult \/ OnEnterConfigRequest \/ OnOtherCall

Api(t) ==
  supla_dev_start(t) \/ supla_dev_exit_config_mode(t) \/ supla_dev_stop(t)
    \/ supla_dev_enter_config_mode(t) \/ supla_dev_set_activity_timeout(t)

Next ==
  \/ IterateHead \/ SrpcIterate \/ Second
  \/ supla_dev_send_notification \/ \E t \in App : Api(t)

Spec == Init /\ [][Next]_vars

(* The main thread iterates for ever, and time passes however often it does *)
(* (an iterate call in progress stops Second for a moment, hence strong     *)
(* fairness); an attempt to connect comes to an end.  The last two clauses  *)
(* are the environment's: the server can be reached again and again, and it *)
(* does not refuse or ignore every registration.                            *)
Fairness ==
  /\ WF_vars(IterateHead) /\ WF_vars(SrpcIterate) /\ SF_vars(Second)
  /\ SF_vars(ConnectSucceeds) /\ SF_vars(registering /\ OnRegisterResult)

FairSpec == Spec /\ Fairness
-----------------------------------------------------------------------------
(* Properties *)

(* Type correctness of the session's state.                                *)
TypeOK ==
  /\ state \in States
  /\ activityTimeout \in Timeouts
  /\ sinceRegister \in Age /\ sincePing \in Age /\ sinceResp \in Age
  /\ connUptime \in Age
  /\ silence \in Age /\ quiet \in Age
  /\ resetCause \in {"UNKNOWN", "CONNECTION_LOST", "ACTIVITY_TIMEOUT"}
  /\ waiting \in BOOLEAN
  /\ sinceIterate \in 0..RetryDelay /\ sinceFailure \in 0..RetryDelay
  /\ phase \in {"free", "connect", "srpc"}
  /\ pc \in [App -> {"ready", "start", "exit"}]
  /\ registering \in BOOLEAN
  /\ backlog \in 0..QueueSize
  /\ sinceCall \in 0..MaxGap
  /\ command \in ApiCalls

(* An activity timeout is declared only when no message of the server has   *)
(* been dispatched for activity_timeout + 10 seconds of real time, although *)
(* the program measures on a wall clock that time synchronisation steps.    *)
NoFalseActivityTimeout ==
  [][IterateOnline /\ phase' = "free" => silence >= activityTimeout + RespMargin]_vars

(* A device that is ONLINE notices a dead server: silence never outlasts    *)
(* the activity timeout, the margin and one iterate period.                 *)
DeadPeerDetected ==
  state = "ONLINE" => \E t \in Timeouts : silence <= t + RespMargin + MaxGap

(* A registration without an answer is abandoned after 10 seconds ...       *)
HandshakeBounded ==
  state = "CONNECTED" => quiet <= RegisterTimeout + MaxGap

(* ... and never before, whatever the clock did to dev->register_time.      *)
HandshakePatient ==
  [][IterateConnected /\ state' # "CONNECTED" => quiet > RegisterTimeout]_vars

(* No attempt to connect begins within 5 seconds of the beginning of a call *)
(* that failed, whether in connecting or in srpc_iterate, even when the     *)
(* application stops the device, changes to config mode and starts it again *)
(* meanwhile.  (The time is taken before the attempt: one that itself takes *)
(* 5 seconds or more is followed by the next at once.)                      *)
RetryPaced ==
  [][IterateInit => sinceFailure >= RetryDelay]_vars

(* Whenever a call leaves the device ONLINE, the server was sent something  *)
(* less than activity_timeout - 5 seconds ago, give or take the latency of  *)
(* the time answer, which resets last_ping without a ping having been sent. *)
(* A ping that finds no room in the queue is counted as sent and is not     *)
(* repeated before the next is due; but then the queue is full, and one of  *)
(* its packets goes out instead.                                            *)
KeepAlive ==
  [][phase = "srpc" /\ phase' = "free" /\ state = "ONLINE" /\ state' = "ONLINE"
       /\ activityTimeout > PingMargin => quiet' < SyncLatency + activityTimeout - PingMargin]_vars

(* "Stop SUPLA device activity" (include/libsupla/device.h): once a stop has *)
(* been accepted, only another call of the application wakes the device.    *)
StopIsFinal == command = "stop" => state = "IDLE"

(* supla_dev_start and supla_dev_exit_config_mode act on a state that they  *)
(* read before they took the lock: whatever iterate does in between, it     *)
(* leaves that state alone (another thread's call need not).                *)
CheckSurvivesIterate ==
  [][IterateHead \/ SrpcIterate =>
       \A t \in App : /\ pc[t] = "start" /\ state = "IDLE" => state' = "IDLE"
                      /\ pc[t] = "exit" /\ state = "CONFIG" => state' = "CONFIG"]_vars

(* A packet of an earlier connection is dispatched. *)
StaleDispatch ==
  \/ (OnRegisterResult \/ OnRegisterRefused) /\ UNCHANGED registering
  \/ OnLocaltimeResult /\ ~TimeAnswered

(* A device that is started goes ONLINE again and again, whatever happens   *)
(* to its connections, unless it is stopped or sent to config mode. Packets *)
(* of earlier connections may hold it up for as long as there are any.      *)
Reconnects ==
  <>[][~StaleDispatch]_vars => []<>(state \in {"ONLINE", "IDLE", "CONFIG"})
=============================================================================
