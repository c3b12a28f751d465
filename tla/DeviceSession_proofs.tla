------------------------ MODULE DeviceSession_proofs ------------------------
(***************************************************************************)
(* Proofs about DeviceSession, for every choice of its constants.          *)
(***************************************************************************)
EXTENDS DeviceSession, TLAPS

(* The actions, opened down to the assignments of the variables. *)

LEMMA Numbers ==
  /\ AgeCap \in Nat /\ MaxGap \in Nat /\ RetryDelay \in Nat /\ SyncLatency \in Nat
  /\ RegisterTimeout \in Nat /\ PingMargin \in Nat /\ RespMargin \in Nat
  /\ RetryDelay < AgeCap
  /\ QueueSize \in Nat \ {0}
BY ConstantsAssumption

LEMMA Ends ==
  /\ 0 \in Age /\ AgeCap \in Age
  /\ 0 \in 0..MaxGap
  /\ 0 \in 0..RetryDelay /\ RetryDelay \in 0..RetryDelay
BY Numbers DEF Age

LEMMA OlderInAge == ASSUME NEW a \in Age PROVE Older(a, AgeCap) \in Age
BY Numbers DEF Older, Age

LEMMA OlderInPause ==
  ASSUME NEW a \in 0..RetryDelay PROVE Older(a, RetryDelay) \in 0..RetryDelay
BY Numbers DEF Older

(* The output half of srpc_iterate. *)
LEMMA EndTyped ==
  ASSUME TypeOK, NEW n \in backlog..QueueSize, EndIterate(n)
  PROVE  /\ backlog' \in 0..QueueSize /\ quiet' \in Age /\ phase' = "free"
         /\ UNCHANGED <<pause, pc, sinceCall>>
<1>1. n \in 0..QueueSize
  BY Numbers DEF TypeOK
<1>2. backlog' \in 0..QueueSize
  BY <1>1, Numbers DEF EndIterate
<1>3. quiet' \in Age
  BY Ends DEF EndIterate, TypeOK
<1> QED
  BY <1>2, <1>3 DEF EndIterate

LEMMA DispatchTyped ==
  ASSUME TypeOK, Dispatch
  PROVE  /\ backlog' \in 0..QueueSize /\ quiet' \in Age /\ phase' = "free"
         /\ sinceResp' = 0 /\ silence' = 0
         /\ UNCHANGED <<pause, pc, sinceCall, resetCause>>
BY EndTyped DEF Dispatch

(* The ping, or the queue as it was. *)
LEMMA PingedTyped == TypeOK => Pinged \in 0..QueueSize
BY Numbers DEF TypeOK, Pinged

LEMMA StateStep ==
  ASSUME TypeOK, NEW s \in States, NEW c \in ApiCalls, SetState(s, c)
  PROVE  state' \in States /\ command' \in ApiCalls
BY ConstantsAssumption DEF SetState, CallFromCallback, Target, States, ApiCalls

LEMMA CallbackStep ==
  ASSUME TypeOK, Callback
  PROVE  state' \in States /\ command' \in ApiCalls
BY ConstantsAssumption DEF Callback, CallFromCallback, Target, TypeOK, States, ApiCalls

(* Every session keeps its variables within their types, whatever the      *)
(* server sends and in whatever order the threads call the API.            *)
THEOREM TypeCorrect == Spec => []TypeOK
<1>1. Init => TypeOK
  <2>1. 0 \in 0..QueueSize
    BY Numbers
  <2> QED
    BY <2>1, Ends DEF Init, TypeOK, States, Timeouts, ApiCalls
<1>2. TypeOK /\ [Next]_vars => TypeOK'
  <2> SUFFICES ASSUME TypeOK, [Next]_vars PROVE TypeOK'
    OBVIOUS
  <2> USE Ends
  <2>1. CASE IteratePaused
    BY <2>1 DEF IteratePaused, TypeOK, settings, timers, pause
  <2>2. CASE IterateDormant
    BY <2>2 DEF IterateDormant, BeginIterate, TypeOK, settings, timers
  <2>3. CASE IterateInit
    BY <2>3 DEF IterateInit, BeginIterate, TypeOK, settings
  <2>18. CASE ConnectSucceeds
    BY <2>18, StateStep DEF ConnectSucceeds, TypeOK, settings, pause, States
  <2>19. CASE ConnectFails
    BY <2>19 DEF ConnectFails, TypeOK, settings, timers
  <2>4. CASE IterateConnected
    BY <2>4, StateStep DEF IterateConnected, BeginIterate, Reconnect, TypeOK, settings, timers,
                           States
  <2>5. CASE IterateRegistered
    <3>1. backlog' \in 0..QueueSize
      BY <2>5, Numbers DEF IterateRegistered
    <3> QED
      BY <2>5, <3>1, StateStep DEF IterateRegistered, BeginIterate, TypeOK, settings, timers, States
  <2>6. CASE IterateOnline
    <3>1. backlog' \in 0..QueueSize
      BY <2>6, PingedTyped, Numbers DEF IterateOnline
    <3>2. phase' \in {"free", "srpc"} /\ sincePing' \in Age
      BY <2>6 DEF IterateOnline, TypeOK
    <3> QED
      BY <2>6, <3>1, <3>2, StateStep DEF IterateOnline, BeginIterate, Reconnect, TypeOK, States
  <2>7. CASE SrpcNothing
    <3>1. backlog \in backlog..QueueSize
      BY Numbers DEF TypeOK
    <3>2. /\ backlog' \in 0..QueueSize /\ quiet' \in Age /\ phase' = "free"
          /\ UNCHANGED <<pause, pc, sinceCall>>
      BY <2>7, <3>1, EndTyped DEF SrpcNothing
    <3> QED
      BY <2>7, <3>2 DEF SrpcNothing, TypeOK, settings, timers, pause
  <2>8. CASE SrpcFails
    BY <2>8, StateStep DEF SrpcFails, Reconnect, TypeOK, settings, timers, States
  <2>9. CASE OnRegisterResult
    BY <2>9, StateStep, DispatchTyped DEF OnRegisterResult, RegisterAnswered, TypeOK, settings,
                                          pause, States
  <2>10. CASE OnRegisterRefused
    BY <2>10, DispatchTyped DEF OnRegisterRefused, RegisterAnswered, TypeOK, settings, pause
  <2>11. CASE OnActivityTimeoutResult
    BY <2>11, DispatchTyped DEF OnActivityTimeoutResult, TypeOK, Age, Timeouts, pause
  <2>12. CASE OnLocaltimeResult
    BY <2>12, DispatchTyped DEF OnLocaltimeResult, TypeOK, settings, pause
  <2>13. CASE OnEnterConfigRequest
    BY <2>13, StateStep, DispatchTyped DEF OnEnterConfigRequest, TypeOK, settings, pause, States
  <2>14. CASE OnOtherCall
    BY <2>14, CallbackStep, DispatchTyped DEF OnOtherCall, TypeOK, settings, pause
  <2>15. CASE Second
    <3>1. sinceCall' \in 0..MaxGap
      BY <2>15, Numbers DEF Second, TypeOK
    <3> QED
      BY <2>15, <3>1, OlderInAge, OlderInPause DEF Second, TypeOK, settings
  <2>20. CASE supla_dev_send_notification
    <3>1. backlog' \in 0..QueueSize
      BY <2>20, Numbers DEF supla_dev_send_notification, TypeOK
    <3> QED
      BY <2>20, <3>1 DEF supla_dev_send_notification, TypeOK, settings, timers, pause
  <2>16. ASSUME NEW t \in App, Api(t) PROVE TypeOK'
    <3>1. ASSUME NEW s, NEW next \in {"start", "exit"}, CheckState(t, s, next) PROVE TypeOK'
      BY <3>1 DEF CheckState, session, settings, timers, pause, TypeOK
    <3>2. ASSUME NEW s \in States, NEW from \in {"start", "exit"}, CommitState(t, from, s)
          PROVE TypeOK'
      BY <3>2, StateStep DEF CommitState, session, settings, timers, pause, TypeOK, ApiCalls
    <3>3. CASE supla_dev_start(t)
      BY <3>1, <3>2, <3>3 DEF supla_dev_start, States
    <3>4. CASE supla_dev_exit_config_mode(t)
      BY <3>1, <3>2, <3>4 DEF supla_dev_exit_config_mode, States
    <3>5. CASE supla_dev_stop(t)
      BY <3>5, StateStep DEF supla_dev_stop, session, settings, timers, pause, TypeOK,
                             States, ApiCalls
    <3>6. CASE supla_dev_enter_config_mode(t)
      BY <3>6, StateStep DEF supla_dev_enter_config_mode, session, settings, timers, pause,
                             TypeOK, States, ApiCalls
    <3>7. CASE supla_dev_set_activity_timeout(t)
      BY <3>7 DEF supla_dev_set_activity_timeout, timers, pause, TypeOK, Timeouts
    <3> QED
      BY <2>16, <3>3, <3>4, <3>5, <3>6, <3>7 DEF Api
  <2>17. CASE UNCHANGED vars
    BY <2>17 DEF vars, TypeOK
  <2> QED
    BY <2>1, <2>2, <2>3, <2>4, <2>5, <2>6, <2>7, <2>8, <2>9, <2>10, <2>11, <2>12, <2>13, <2>14,
       <2>15, <2>16, <2>17, <2>18, <2>19, <2>20 DEF Next, IterateHead, SrpcIterate
<1> QED
  BY <1>1, <1>2, PTL DEF Spec

-----------------------------------------------------------------------------
(* What a call of supla_dev_set_state can lead to. *)

LEMMA SetStateRange ==
  ASSUME NEW s, NEW c, SetState(s, c)
  PROVE  state' \in {s, "IDLE", "CONFIG"}
BY ConstantsAssumption DEF SetState, CallFromCallback, Target

LEMMA CallbackRange ==
  ASSUME Callback PROVE state' \in {state, "IDLE", "CONFIG"}
BY ConstantsAssumption DEF Callback, CallFromCallback, Target

(* A call of the API leaves everything but the state, pc, command and the  *)
(* activity timeout alone, and never makes the device REGISTERED, ONLINE   *)
(* or CONNECTED.                                                           *)
LEMMA ApiStep ==
  ASSUME NEW t \in App, Api(t)
  PROVE  /\ phase = "free" /\ phase' = "free"
         /\ UNCHANGED <<timers, resetCause, pause, backlog, registering, silence, quiet,
                        sinceCall, connUptime>>
         /\ state' \in {state, "INIT", "IDLE", "CONFIG"}
<1>1. CASE supla_dev_start(t)
  BY <1>1, SetStateRange DEF supla_dev_start, CheckState, CommitState, session, settings, timers,
                             pause
<1>2. CASE supla_dev_exit_config_mode(t)
  BY <1>2, SetStateRange DEF supla_dev_exit_config_mode, CheckState, CommitState, session, settings,
                             timers, pause
<1>3. CASE supla_dev_stop(t)
  BY <1>3, SetStateRange DEF supla_dev_stop, session, settings, timers, pause
<1>4. CASE supla_dev_enter_config_mode(t)
  BY <1>4, SetStateRange DEF supla_dev_enter_config_mode, session, settings, timers, pause
<1>5. CASE supla_dev_set_activity_timeout(t)
  BY <1>5 DEF supla_dev_set_activity_timeout, pause
<1> QED
  BY <1>1, <1>2, <1>3, <1>4, <1>5 DEF Api

(* What a call of supla_dev_iterate in progress, and a session, can rely on. *)
CallRuns ==
  /\ phase = "connect" => state = "INIT"
  /\ phase = "srpc" => state # "REGISTERED"
  /\ phase # "free" \/ state \in {"CONNECTED", "REGISTERED", "ONLINE"} => ~waiting

LEMMA CallRunsStep == CallRuns /\ [Next]_vars => CallRuns'
<1> SUFFICES ASSUME CallRuns, [Next]_vars PROVE CallRuns'
  OBVIOUS
<1> USE DEF CallRuns
<1>1. CASE IteratePaused
  BY <1>1 DEF IteratePaused, Paused, pause
<1>2. CASE IterateDormant
  BY <1>2 DEF IterateDormant, BeginIterate
<1>3. CASE IterateInit
  BY <1>3 DEF IterateInit, BeginIterate
<1>4. CASE ConnectSucceeds
  BY <1>4, SetStateRange DEF ConnectSucceeds, pause
<1>5. CASE ConnectFails
  BY <1>5 DEF ConnectFails
<1>6. CASE IterateConnected
  BY <1>6, SetStateRange DEF IterateConnected, BeginIterate, Reconnect
<1>7. CASE IterateRegistered
  BY <1>7, SetStateRange DEF IterateRegistered, BeginIterate
<1>8. CASE IterateOnline
  BY <1>8, SetStateRange DEF IterateOnline, BeginIterate, Reconnect
<1>9. ASSUME NEW n, EndIterate(n) PROVE CallRuns'
  BY <1>9 DEF EndIterate, pause
<1>10. CASE SrpcFails
  BY <1>10, SetStateRange DEF SrpcFails, Reconnect
<1>11. CASE Second
  BY <1>11 DEF Second
<1>12. CASE supla_dev_send_notification
  BY <1>12 DEF supla_dev_send_notification, pause
<1>13. ASSUME NEW t \in App, Api(t) PROVE CallRuns'
  BY <1>13, ApiStep DEF pause
<1>14. CASE UNCHANGED vars
  BY <1>14 DEF vars
<1>15. ASSUME SrpcIterate, ~SrpcFails PROVE \E n : EndIterate(n)
  BY <1>15 DEF SrpcIterate, SrpcNothing, Dispatch, OnRegisterResult, OnRegisterRefused,
               OnActivityTimeoutResult, OnLocaltimeResult, OnEnterConfigRequest, OnOtherCall
<1> QED
  BY <1>1, <1>2, <1>3, <1>4, <1>5, <1>6, <1>7, <1>8, <1>9, <1>10, <1>11, <1>12, <1>13, <1>14,
     <1>15 DEF Next, IterateHead

LEMMA CallRunsStarts == Init => CallRuns
BY DEF Init, CallRuns

(* The wall-clock age of the last answer is the real one in every state in *)
(* which the session relies on it.                                         *)
RespIsTrue == state \in {"REGISTERED", "ONLINE"} => sinceResp = silence

LEMMA RespIsTrueStep == RespIsTrue /\ [Next]_vars => RespIsTrue'
<1> SUFFICES ASSUME RespIsTrue, [Next]_vars PROVE RespIsTrue'
  OBVIOUS
<1> USE DEF RespIsTrue
<1>1. CASE IteratePaused \/ IterateDormant
  BY <1>1 DEF IteratePaused, IterateDormant, timers
<1>2. CASE IterateInit
  BY <1>2 DEF IterateInit, BeginIterate
<1>3. CASE ConnectSucceeds
  BY <1>3, SetStateRange DEF ConnectSucceeds
<1>13. CASE ConnectFails
  BY <1>13 DEF ConnectFails, timers
<1>4. CASE IterateConnected
  BY <1>4, SetStateRange DEF IterateConnected, BeginIterate, Reconnect
<1>5. CASE IterateRegistered
  BY <1>5, SetStateRange DEF IterateRegistered, BeginIterate, timers
<1>6. CASE IterateOnline
  BY <1>6, SetStateRange DEF IterateOnline, BeginIterate, Reconnect
<1>7. CASE SrpcNothing
  BY <1>7 DEF SrpcNothing, timers
<1>8. CASE SrpcFails
  BY <1>8, SetStateRange DEF SrpcFails, Reconnect
<1>9. ASSUME Dispatch PROVE RespIsTrue'
  BY <1>9 DEF Dispatch
<1>10. CASE Second
  BY <1>10 DEF Second
<1>11. ASSUME NEW t \in App, Api(t) PROVE RespIsTrue'
  BY <1>11, ApiStep DEF timers
<1>14. CASE supla_dev_send_notification
  BY <1>14 DEF supla_dev_send_notification, timers
<1>12. CASE UNCHANGED vars
  BY <1>12 DEF vars
<1> QED
  BY <1>1, <1>2, <1>3, <1>4, <1>5, <1>6, <1>7, <1>8, <1>9, <1>10, <1>11, <1>12, <1>13,
     <1>14
  DEF Next, IterateHead, SrpcIterate, OnRegisterResult, OnRegisterRefused,
      OnActivityTimeoutResult, OnLocaltimeResult, OnEnterConfigRequest, OnOtherCall

(* supla_connection_ping gives a connection up for lack of activity only    *)
(* after activity_timeout + 10 seconds without a message of the server,     *)
(* however often the wall clock was stepped and whatever was still in the   *)
(* buffers of an earlier connection.                                        *)
THEOREM ActivityTimeoutHonest == Spec => NoFalseActivityTimeout
<1>1. Init => RespIsTrue
  BY DEF Init, RespIsTrue
<1>2. RespIsTrue /\ [Next]_vars
        => [IterateOnline /\ phase' = "free" => silence >= activityTimeout + RespMargin]_vars
  <2> SUFFICES ASSUME RespIsTrue, IterateOnline, phase' = "free"
               PROVE  silence >= activityTimeout + RespMargin
    OBVIOUS
  <2>1. PeerDead
    BY DEF IterateOnline
  <2> QED
    BY <2>1 DEF PeerDead, RespIsTrue, IterateOnline, BeginIterate
<1> QED
  BY <1>1, <1>2, RespIsTrueStep, PTL DEF Spec, NoFalseActivityTimeout

-----------------------------------------------------------------------------
(* The last call that failed began RetryDelay ago, or its pause is pending *)
(* and no call has done anything since.                                    *)
PausePending ==
  sinceFailure < RetryDelay => waiting /\ sinceIterate <= sinceFailure

LEMMA PausePendingStep == TypeOK /\ PausePending /\ [Next]_vars => PausePending'
<1> SUFFICES ASSUME TypeOK, PausePending, [Next]_vars PROVE PausePending'
  OBVIOUS
<1>1. CASE Second
  BY <1>1, Numbers DEF Second, PausePending, TypeOK, Older
<1>2. CASE ConnectFails \/ SrpcFails
  BY <1>2, Numbers DEF ConnectFails, SrpcFails, PausePending, TypeOK
<1>3. CASE UNCHANGED pause
  BY <1>3 DEF PausePending, pause
<1>4. ASSUME NEW s, BeginIterate(s) PROVE PausePending'
  <2>1. ~(sinceFailure < RetryDelay)
    BY <1>4, Numbers DEF BeginIterate, Paused, PausePending, TypeOK
  <2> QED
    BY <1>4, <2>1 DEF BeginIterate, PausePending
<1>5. ASSUME IterateHead, ~ConnectFails
      PROVE  UNCHANGED pause \/ \E s : BeginIterate(s)
  BY <1>5 DEF IterateHead, IteratePaused, IterateDormant, IterateInit, ConnectSucceeds,
              IterateConnected, IterateRegistered, IterateOnline
<1>6. ASSUME SrpcIterate, ~SrpcFails PROVE UNCHANGED pause
  BY <1>6 DEF SrpcIterate, SrpcNothing, Dispatch, EndIterate, OnRegisterResult, OnRegisterRefused,
              OnActivityTimeoutResult, OnLocaltimeResult, OnEnterConfigRequest, OnOtherCall
<1>7. ASSUME NEW t \in App, Api(t) PROVE UNCHANGED pause
  BY <1>7, ApiStep
<1>8. CASE supla_dev_send_notification
  BY <1>3, <1>8 DEF supla_dev_send_notification
<1>9. CASE UNCHANGED vars
  BY <1>3, <1>9 DEF vars, pause
<1> QED
  BY <1>1, <1>2, <1>3, <1>4, <1>5, <1>6, <1>7, <1>8, <1>9 DEF Next

(* No attempt to connect begins within RetryDelay of the beginning of the   *)
(* last call that failed, whatever the application does with the device in  *)
(* the meantime.                                                            *)
THEOREM RetryIsPaced == Spec => RetryPaced
<1>1. Init => PausePending
  BY Numbers DEF Init, PausePending
<1>2. TypeOK /\ PausePending /\ [Next]_vars
        => [IterateInit => sinceFailure >= RetryDelay]_vars
  BY Numbers DEF IterateInit, BeginIterate, Paused, PausePending, TypeOK
<1> QED
  BY <1>1, <1>2, PausePendingStep, TypeCorrect, PTL DEF Spec, RetryPaced

-----------------------------------------------------------------------------
(* When the application makes no call from inside its callbacks, a call of *)
(* supla_dev_set_state does what it says.                                  *)

LEMMA PlainSetState ==
  ASSUME Reentrant = {}, NEW s, NEW c, SetState(s, c)
  PROVE  state' = s /\ command' = c
BY DEF SetState, CallFromCallback

(* srpc_iterate is only reached in an awake state, and a device that was    *)
(* stopped is idle.                                                        *)
Asleep == state \in {"IDLE", "CONFIG"}

StoppedIsIdle ==
  /\ phase # "free" => ~Asleep
  /\ command = "stop" => state = "IDLE"

(* Neither half of supla_dev_iterate does anything to a sleeping device,   *)
(* and neither is a command.                                               *)
LEMMA IterateLetsSleep ==
  ASSUME Reentrant = {}, StoppedIsIdle, IterateHead \/ SrpcIterate
  PROVE  /\ Asleep => phase = "free" /\ UNCHANGED <<state, phase>>
         /\ phase' # "free" => state' \in {"INIT", "CONNECTED", "ONLINE"}
         /\ UNCHANGED command
<1> USE DEF StoppedIsIdle, Asleep
<1>1. CASE IteratePaused \/ IterateDormant
  BY <1>1 DEF IteratePaused, IterateDormant, BeginIterate
<1>2. CASE IterateInit
  BY <1>2 DEF IterateInit, BeginIterate
<1>3. CASE ConnectSucceeds
  BY <1>3, PlainSetState DEF ConnectSucceeds
<1>12. CASE ConnectFails
  BY <1>12 DEF ConnectFails
<1>4. CASE IterateConnected
  BY <1>4, PlainSetState DEF IterateConnected, BeginIterate, Reconnect
<1>5. CASE IterateRegistered
  BY <1>5, PlainSetState DEF IterateRegistered, BeginIterate
<1>6. CASE IterateOnline
  BY <1>6, PlainSetState DEF IterateOnline, BeginIterate, Reconnect
<1>7. CASE SrpcNothing
  BY <1>7 DEF SrpcNothing, EndIterate
<1>8. CASE SrpcFails
  BY <1>8, PlainSetState DEF SrpcFails, Reconnect
<1>9. CASE OnRegisterResult \/ OnEnterConfigRequest
  BY <1>9, PlainSetState DEF OnRegisterResult, OnEnterConfigRequest, Dispatch, EndIterate
<1>10. CASE OnRegisterRefused \/ OnActivityTimeoutResult \/ OnLocaltimeResult
  BY <1>10 DEF OnRegisterRefused, OnActivityTimeoutResult, OnLocaltimeResult, Dispatch, EndIterate
<1>11. CASE OnOtherCall
  BY <1>11 DEF OnOtherCall, Callback, CallFromCallback, Dispatch, EndIterate
<1> QED
  BY <1>1, <1>2, <1>3, <1>4, <1>5, <1>6, <1>7, <1>8, <1>9, <1>10, <1>11, <1>12
  DEF IterateHead, SrpcIterate

(* A call of the API that moves a stopped device is itself the new command. *)
LEMMA ApiCommands ==
  ASSUME Reentrant = {}, StoppedIsIdle, NEW t \in App, Api(t)
  PROVE  command' = "stop" => state' = "IDLE"
<1> USE DEF StoppedIsIdle
<1>1. CASE supla_dev_start(t)
  BY <1>1, PlainSetState DEF supla_dev_start, CheckState, CommitState
<1>2. CASE supla_dev_exit_config_mode(t)
  BY <1>2, PlainSetState DEF supla_dev_exit_config_mode, CheckState, CommitState
<1>3. CASE supla_dev_stop(t)
  BY <1>3, PlainSetState DEF supla_dev_stop
<1>4. CASE supla_dev_enter_config_mode(t)
  BY <1>4, PlainSetState DEF supla_dev_enter_config_mode
<1>5. CASE supla_dev_set_activity_timeout(t)
  BY <1>5 DEF supla_dev_set_activity_timeout
<1> QED
  BY <1>1, <1>2, <1>3, <1>4, <1>5 DEF Api

LEMMA StoppedIsIdleStep ==
  ASSUME Reentrant = {} PROVE StoppedIsIdle /\ [Next]_vars => StoppedIsIdle'
<1> SUFFICES ASSUME StoppedIsIdle, [Next]_vars PROVE StoppedIsIdle'
  OBVIOUS
<1>1. CASE IterateHead \/ SrpcIterate
  BY <1>1, IterateLetsSleep DEF StoppedIsIdle, Asleep
<1>2. CASE Second
  BY <1>2 DEF Second, StoppedIsIdle, Asleep
<1>3. ASSUME NEW t \in App, Api(t) PROVE StoppedIsIdle'
  BY <1>3, ApiStep, ApiCommands DEF StoppedIsIdle
<1>4. CASE UNCHANGED vars
  BY <1>4 DEF vars, StoppedIsIdle, Asleep
<1>5. CASE supla_dev_send_notification
  BY <1>5 DEF supla_dev_send_notification, StoppedIsIdle, Asleep
<1> QED
  BY <1>1, <1>2, <1>3, <1>4, <1>5 DEF Next

(* With any number of threads that call the API at any moment: a stop that  *)
(* was accepted holds until the application itself calls again, unless it   *)
(* is made from inside a callback.                                          *)
THEOREM StopHolds == ASSUME Reentrant = {} PROVE Spec => []StopIsFinal
<1>1. Init => StoppedIsIdle
  BY DEF Init, StoppedIsIdle, Asleep
<1>2. StoppedIsIdle => StopIsFinal
  BY DEF StoppedIsIdle, StopIsFinal
<1> QED
  BY <1>1, <1>2, StoppedIsIdleStep, PTL DEF Spec

(* What supla_dev_start and supla_dev_exit_config_mode checked is not taken *)
(* away by the main loop while they wait for the lock.                      *)
THEOREM ChecksSurvive == ASSUME Reentrant = {} PROVE Spec => CheckSurvivesIterate
<1>1. Init => StoppedIsIdle
  BY DEF Init, StoppedIsIdle, Asleep
<1>2. StoppedIsIdle /\ [Next]_vars
        => [IterateHead \/ SrpcIterate =>
              \A t \in App : /\ pc[t] = "start" /\ state = "IDLE" => state' = "IDLE"
                             /\ pc[t] = "exit" /\ state = "CONFIG" => state' = "CONFIG"]_vars
  BY IterateLetsSleep DEF Asleep
<1> QED
  BY <1>1, <1>2, StoppedIsIdleStep, PTL DEF Spec, CheckSurvivesIterate

-----------------------------------------------------------------------------
(* The handshake, when a connection starts with empty buffers: no answer    *)
(* of an earlier connection is dispatched on the next.                      *)

(* How long iterate can have left the handshake alone. *)
Unwatched == IF phase = "free" THEN sinceCall ELSE 0

(* While the result of the registration is awaited no one has set the      *)
(* clock, and the last check was passed.                                   *)
HandshakeTimed ==
  state = "CONNECTED" =>
    /\ quiet = sinceRegister
    /\ quiet <= RegisterTimeout + Unwatched

LEMMA HandshakeNumbers == RegisterTimeout + MaxGap < AgeCap
BY ConstantsAssumption

LEMMA HandshakeTimedStep ==
  ASSUME ~Stale PROVE TypeOK /\ CallRuns /\ HandshakeTimed /\ [Next]_vars => HandshakeTimed'
<1> SUFFICES ASSUME TypeOK, CallRuns, HandshakeTimed, [Next]_vars PROVE HandshakeTimed'
  OBVIOUS
<1> USE DEF HandshakeTimed, Unwatched
<1>1. CASE IteratePaused \/ IterateDormant
  BY <1>1 DEF IteratePaused, IterateDormant, BeginIterate, Paused, CallRuns
<1>2. CASE IterateInit \/ ConnectFails
  BY <1>2 DEF IterateInit, BeginIterate, ConnectFails, CallRuns
<1>3. CASE ConnectSucceeds
  BY <1>3, Numbers DEF ConnectSucceeds
<1>4. CASE IterateConnected
  <2>1. state' = "CONNECTED" => sinceRegister <= RegisterTimeout
    BY <1>4, SetStateRange, Numbers DEF IterateConnected, Reconnect, TypeOK, Age
  <2> QED
    BY <1>4, <2>1, Numbers DEF IterateConnected, BeginIterate, timers, TypeOK, Age
<1>5. CASE IterateRegistered
  BY <1>5, SetStateRange DEF IterateRegistered
<1>6. CASE IterateOnline
  BY <1>6, SetStateRange DEF IterateOnline, BeginIterate, Reconnect
<1>7. CASE SrpcNothing
  BY <1>7, Numbers DEF SrpcNothing, EndIterate, timers, TypeOK, Age
<1>8. CASE SrpcFails
  BY <1>8, SetStateRange DEF SrpcFails, Reconnect
<1>9. CASE OnRegisterResult \/ OnEnterConfigRequest
  BY <1>9, SetStateRange DEF OnRegisterResult, OnEnterConfigRequest
<1>10. CASE OnRegisterRefused \/ OnActivityTimeoutResult
  BY <1>10, Numbers DEF OnRegisterRefused, OnActivityTimeoutResult, Dispatch, EndIterate, settings,
                        TypeOK, Age
<1>11. CASE OnLocaltimeResult
  BY <1>11 DEF OnLocaltimeResult, TimeAnswered
<1>12. CASE OnOtherCall
  BY <1>12, CallbackRange, Numbers DEF OnOtherCall, Dispatch, EndIterate, TypeOK, Age
<1>13. CASE Second
  BY <1>13, Numbers, HandshakeNumbers DEF Second, Older, CallRuns, TypeOK, Age
<1>14. ASSUME NEW t \in App, Api(t) PROVE HandshakeTimed'
  BY <1>14, ApiStep DEF timers
<1>15. CASE UNCHANGED vars
  BY <1>15 DEF vars
<1>16. CASE supla_dev_send_notification
  BY <1>16 DEF supla_dev_send_notification, timers
<1> QED
  BY <1>1, <1>2, <1>3, <1>4, <1>5, <1>6, <1>7, <1>8, <1>9, <1>10, <1>11, <1>12, <1>13, <1>14,
     <1>15, <1>16 DEF Next, IterateHead, SrpcIterate

(* A registration the server never answers is given up within 10 seconds   *)
(* and one period of the main loop.                                        *)
THEOREM HandshakeIsBounded == ASSUME ~Stale PROVE Spec => []HandshakeBounded
<1>1. Init => HandshakeTimed
  BY DEF Init, HandshakeTimed
<1>2. TypeOK /\ HandshakeTimed => HandshakeBounded
  BY Numbers DEF TypeOK, HandshakeTimed, Unwatched, HandshakeBounded, Age
<1> QED
  BY <1>1, <1>2, HandshakeTimedStep, CallRunsStarts, CallRunsStep, TypeCorrect, PTL DEF Spec

(* ... and unless a callback moves the device, none is given up before.    *)
THEOREM HandshakeIsPatient == ASSUME ~Stale, Reentrant = {} PROVE Spec => HandshakePatient
<1>1. Init => HandshakeTimed
  BY DEF Init, HandshakeTimed
<1>2. HandshakeTimed /\ [Next]_vars
        => [IterateConnected /\ state' # "CONNECTED" => quiet > RegisterTimeout]_vars
  BY DEF IterateConnected, BeginIterate, HandshakeTimed
<1> QED
  BY <1>1, <1>2, HandshakeTimedStep, CallRunsStarts, CallRunsStep, TypeCorrect, PTL DEF Spec, HandshakePatient

-----------------------------------------------------------------------------
(* A dead server, when pings are never switched off and the main loop runs  *)
(* at least once in RespMargin seconds (10 in the program).                 *)

(* The silence of a session is bounded at each check of                     *)
(* supla_connection_ping.                                                   *)
Within(limit) == silence <= limit + RespMargin + Unwatched

PeerWatched ==
  /\ state = "REGISTERED" => silence <= sinceCall
  /\ state = "ONLINE" => \E t \in Timeouts : Within(t)

LEMMA SomeTimeout ==
  /\ DefaultTimeout \in Timeouts
  /\ Timeouts \subseteq Nat
  /\ 0 \notin ServerTimeouts => 0 \notin Timeouts
BY ConstantsAssumption DEF Timeouts

LEMMA PeerWatchedStep ==
  ASSUME 0 \notin ServerTimeouts, MaxGap <= RespMargin
  PROVE  TypeOK /\ CallRuns /\ RespIsTrue /\ PeerWatched /\ [Next]_vars => PeerWatched'
<1> SUFFICES ASSUME TypeOK, CallRuns, RespIsTrue, PeerWatched, [Next]_vars PROVE PeerWatched'
  OBVIOUS
<1> USE DEF PeerWatched, Within, Unwatched
<1>1. CASE IteratePaused \/ IterateDormant
  BY <1>1 DEF IteratePaused, IterateDormant, BeginIterate, Paused, CallRuns
<1>2. CASE IterateInit \/ ConnectFails
  BY <1>2 DEF IterateInit, BeginIterate, ConnectFails, CallRuns
<1>3. CASE ConnectSucceeds
  BY <1>3, SetStateRange DEF ConnectSucceeds
<1>4. CASE IterateConnected
  BY <1>4, SetStateRange DEF IterateConnected, BeginIterate, Reconnect
<1>5. CASE IterateRegistered
  <2>1. silence <= DefaultTimeout + RespMargin
    BY <1>5, Numbers, SomeTimeout DEF IterateRegistered, BeginIterate, TypeOK, Age
  <2>2. silence' = silence /\ phase' = "srpc" /\ state' # "REGISTERED"
    BY <1>5, SetStateRange DEF IterateRegistered, BeginIterate
  <2>3. DefaultTimeout + RespMargin + 0 = DefaultTimeout + RespMargin
    BY Numbers, SomeTimeout
  <2> QED
    BY <2>1, <2>2, <2>3, SomeTimeout
<1>6. CASE IterateOnline
  <2>1. state' = "ONLINE" => phase' = "srpc" /\ ~PeerDead
    BY <1>6, SetStateRange DEF IterateOnline, Reconnect
  <2>2. ~PeerDead => silence <= activityTimeout + RespMargin + 0
    BY <1>6, Numbers, SomeTimeout DEF IterateOnline, BeginIterate, PeerDead, RespIsTrue, TypeOK, Age
  <2>3. silence' = silence /\ state' # "REGISTERED"
    BY <1>6, SetStateRange DEF IterateOnline, BeginIterate, Reconnect
  <2> QED
    BY <2>1, <2>2, <2>3 DEF TypeOK
<1>7. CASE SrpcNothing
  <2>1. ASSUME NEW t \in Timeouts, silence <= t + RespMargin + 0
        PROVE  silence <= t + RespMargin + sinceCall
    BY <2>1, Numbers, SomeTimeout DEF TypeOK, Age
  <2> QED
    BY <1>7, <2>1 DEF SrpcNothing, EndIterate, CallRuns
<1>8. CASE SrpcFails
  BY <1>8, SetStateRange DEF SrpcFails, Reconnect
<1>9. ASSUME Dispatch PROVE PeerWatched'
  <2>1. 0 <= sinceCall /\ 0 <= DefaultTimeout + RespMargin + sinceCall
    BY Numbers, SomeTimeout DEF TypeOK
  <2> QED
    BY <1>9, <2>1, SomeTimeout DEF Dispatch, EndIterate
<1>10. CASE Second
  <2>0. CASE phase = "connect"
    BY <1>10, <2>0 DEF Second, CallRuns
  <2> SUFFICES ASSUME phase = "free" PROVE PeerWatched'
    BY <1>10, <2>0 DEF Second
  <2>1. silence' <= silence + 1 /\ sinceCall' = sinceCall + 1
    BY <1>10, Numbers DEF Second, Older, TypeOK, Age
  <2>2. silence \in Nat /\ silence' \in Nat /\ sinceCall \in Nat
    BY <1>10, Numbers, OlderInAge DEF Second, TypeOK, Age
  <2>3. ASSUME NEW t \in Timeouts, silence <= t + RespMargin + sinceCall
        PROVE  silence' <= t + RespMargin + sinceCall'
    BY <2>1, <2>2, <2>3, Numbers, SomeTimeout
  <2>4. silence <= sinceCall => silence' <= sinceCall'
    BY <2>1, <2>2
  <2> QED
    BY <1>10, <2>3, <2>4 DEF Second, CallRuns
<1>11. ASSUME NEW t \in App, Api(t) PROVE PeerWatched'
  BY <1>11, ApiStep
<1>12. CASE UNCHANGED vars
  BY <1>12 DEF vars
<1>13. CASE supla_dev_send_notification
  BY <1>13 DEF supla_dev_send_notification
<1> QED
  BY <1>1, <1>2, <1>3, <1>4, <1>5, <1>6, <1>7, <1>8, <1>9, <1>10, <1>11, <1>12,
     <1>13
  DEF Next, IterateHead, SrpcIterate, OnRegisterResult, OnRegisterRefused,
      OnActivityTimeoutResult, OnLocaltimeResult, OnEnterConfigRequest, OnOtherCall

(* However long the server has been dead, a device is ONLINE no longer than *)
(* an activity timeout, the margin and one period after the last message.   *)
THEOREM DeadPeerIsDetected ==
  ASSUME 0 \notin ServerTimeouts, MaxGap <= RespMargin
  PROVE  Spec => []DeadPeerDetected
<1>1. Init => RespIsTrue /\ PeerWatched
  BY DEF Init, RespIsTrue, PeerWatched
<1>2. TypeOK /\ PeerWatched => DeadPeerDetected
  <2> SUFFICES ASSUME TypeOK, NEW t \in Timeouts, Within(t)
               PROVE  silence <= t + RespMargin + MaxGap
    BY DEF PeerWatched, DeadPeerDetected
  <2> QED
    BY Numbers, SomeTimeout DEF Within, Unwatched, TypeOK, Age
<1> QED
  BY <1>1, <1>2, RespIsTrueStep, PeerWatchedStep, CallRunsStarts, CallRunsStep,
     TypeCorrect, PTL DEF Spec

-----------------------------------------------------------------------------
(* Keep-alive, when a connection starts with empty buffers.  The answer to *)
(* the time request resets last_ping without a ping; what bounds the harm   *)
(* is that it can only come soon after the registration.  A ping for which  *)
(* there is no room resets it too; what makes that harmless is that a call  *)
(* with packets in the queue writes one.                                    *)

(* What holds of an ONLINE device when nothing waits to be written by the   *)
(* call in progress.                                                        *)
PingsTimed ==
  state = "ONLINE" /\ (phase = "free" \/ backlog = 0) =>
    /\ quiet <= sincePing + SyncLatency /\ quiet <= sinceRegister
    /\ phase = "srpc" =>
         /\ connUptime = sinceRegister
         /\ activityTimeout > PingMargin => sincePing < activityTimeout - PingMargin

(* The output half of a call that begins ONLINE writes what is queued. *)
LEMMA EndWrites ==
  ASSUME TypeOK, state = "ONLINE", NEW n \in backlog..QueueSize, EndIterate(n)
  PROVE  /\ phase = "srpc" /\ phase' = "free"
         /\ quiet' = 0 \/ (quiet' = quiet /\ backlog = 0)
BY Numbers DEF EndIterate, TypeOK

LEMMA PingsTimedStep ==
  ASSUME ~Stale
  PROVE  TypeOK /\ TypeOK' /\ CallRuns /\ PingsTimed /\ [Next]_vars => PingsTimed'
<1> SUFFICES ASSUME TypeOK, TypeOK', CallRuns, PingsTimed, [Next]_vars, state' = "ONLINE"
             PROVE  PingsTimed'
  BY DEF PingsTimed
<1> USE DEF PingsTimed
<1>1. CASE IteratePaused
  BY <1>1 DEF IteratePaused, Paused, CallRuns
<1>2. CASE IterateDormant \/ IterateInit \/ ConnectFails
  BY <1>2 DEF IterateDormant, IterateInit, ConnectFails, BeginIterate, CallRuns
<1>3. CASE ConnectSucceeds \/ SrpcFails
  BY <1>3, SetStateRange DEF ConnectSucceeds, SrpcFails, Reconnect
<1>4. CASE IterateConnected
  BY <1>4, SetStateRange DEF IterateConnected, BeginIterate, Reconnect
<1>5. CASE IterateRegistered
  BY <1>5 DEF IterateRegistered
<1>6. CASE IterateOnline
  <2>1. /\ phase = "free" /\ state = "ONLINE" /\ phase' = "srpc"
        /\ UNCHANGED <<sinceRegister, quiet, activityTimeout>> /\ connUptime' = sinceRegister
        /\ backlog' \in Pinged..QueueSize
    BY <1>6, SetStateRange DEF IterateOnline, BeginIterate, Reconnect
  <2>2. CASE backlog' = 0
    <3>1. ~PingDue
      BY <2>1, <2>2, Numbers DEF Pinged, TypeOK
    <3>2. sincePing' = sincePing
      BY <1>6, <3>1 DEF IterateOnline
    <3>3. activityTimeout > PingMargin => sincePing < activityTimeout - PingMargin
      BY <3>1, Numbers, SomeTimeout DEF PingDue, TypeOK, Age
    <3> QED
      BY <2>1, <3>2, <3>3
  <2>3. CASE backlog' # 0
    BY <2>1, <2>3
  <2> QED
    BY <2>2, <2>3
<1>7. ASSUME NEW n \in backlog..QueueSize, EndIterate(n), state = "ONLINE",
             UNCHANGED <<sinceRegister, sincePing>>
      PROVE  PingsTimed'
  <2>1. /\ phase = "srpc" /\ phase' = "free"
        /\ quiet' = 0 \/ (quiet' = quiet /\ backlog = 0)
    BY <1>7, EndWrites
  <2>2. 0 <= sincePing + SyncLatency /\ 0 <= sinceRegister
    BY Numbers DEF TypeOK, Age
  <2> QED
    BY <1>7, <2>1, <2>2
<1>8. CASE SrpcNothing
  <2>1. backlog \in backlog..QueueSize
    BY Numbers DEF TypeOK
  <2> QED
    BY <1>7, <1>8, <2>1 DEF SrpcNothing, timers
<1>9. CASE OnRegisterResult \/ OnEnterConfigRequest
  BY <1>9, SetStateRange DEF OnRegisterResult, OnEnterConfigRequest
<1>10. CASE OnRegisterRefused \/ OnActivityTimeoutResult
  BY <1>7, <1>10 DEF OnRegisterRefused, OnActivityTimeoutResult, Dispatch
<1>11. CASE OnOtherCall
  BY <1>7, <1>11, CallbackRange DEF OnOtherCall, Dispatch
<1>12. CASE OnLocaltimeResult
  <2>1. /\ state = "ONLINE" /\ sinceRegister <= SyncLatency
        /\ sincePing' = 0 /\ sinceRegister' = connUptime /\ connUptime' = connUptime
    BY <1>12 DEF OnLocaltimeResult, TimeAnswered, settings
  <2>2. PICK n \in backlog..QueueSize : EndIterate(n)
    BY <1>12 DEF OnLocaltimeResult, Dispatch
  <2>3. /\ phase = "srpc" /\ phase' = "free"
        /\ quiet' = 0 \/ (quiet' = quiet /\ backlog = 0)
    BY <2>1, <2>2, EndWrites
  <2>4. /\ 0 <= 0 + SyncLatency /\ 0 <= connUptime
        /\ quiet <= sinceRegister => quiet <= 0 + SyncLatency
    BY <2>1, Numbers DEF TypeOK, Age
  <2> QED
    BY <2>1, <2>3, <2>4
<1>13. CASE Second
  <2>1. phase = "free" /\ phase' = "free" /\ state = "ONLINE"
    BY <1>13 DEF Second, CallRuns
  <2>2. quiet <= sincePing + SyncLatency => quiet' <= sincePing' + SyncLatency
    BY <1>13, Numbers DEF Second, Older, TypeOK, Age
  <2>3. quiet <= sinceRegister => quiet' <= sinceRegister'
    BY <1>13, Numbers DEF Second, Older, TypeOK, Age
  <2> QED
    BY <2>1, <2>2, <2>3
<1>14. CASE supla_dev_send_notification
  <2>1. /\ UNCHANGED <<state, phase, quiet, sincePing, sinceRegister, connUptime, activityTimeout>>
        /\ backlog' = 0 => backlog = 0
    BY <1>14, Numbers DEF supla_dev_send_notification, timers, settings, TypeOK
  <2> QED
    BY <2>1
<1>15. ASSUME NEW t \in App, Api(t) PROVE PingsTimed'
  BY <1>15, ApiStep DEF timers
<1>16. CASE UNCHANGED vars
  BY <1>16 DEF vars
<1> QED
  BY <1>1, <1>2, <1>3, <1>4, <1>5, <1>6, <1>8, <1>9, <1>10, <1>11, <1>12, <1>13, <1>14,
     <1>15, <1>16 DEF Next, IterateHead, SrpcIterate

(* Every call of iterate that leaves the device ONLINE has sent the server  *)
(* a sign of life within the activity timeout less 5 seconds, plus the      *)
(* latency of the time answer, even when pings are dropped for want of      *)
(* room.                                                                    *)
THEOREM LinkIsKeptAlive ==
  ASSUME ~Stale PROVE Spec => KeepAlive
<1>1. Init => PingsTimed
  BY DEF Init, PingsTimed
<1>2. TypeOK /\ PingsTimed /\ [Next]_vars
        => [phase = "srpc" /\ phase' = "free" /\ state = "ONLINE" /\ state' = "ONLINE"
              /\ activityTimeout > PingMargin
              => quiet' < SyncLatency + activityTimeout - PingMargin]_vars
  <2> SUFFICES ASSUME TypeOK, PingsTimed, Next, phase = "srpc", phase' = "free",
                      state = "ONLINE", state' = "ONLINE", activityTimeout > PingMargin
               PROVE  quiet' < SyncLatency + activityTimeout - PingMargin
    BY DEF vars
  <2>1. activityTimeout \in Nat
    BY SomeTimeout DEF TypeOK
  <2>2. PICK n \in backlog..QueueSize : EndIterate(n)
    <3>1. ~IterateHead
      BY DEF IterateHead, IteratePaused, IterateDormant, IterateInit, ConnectSucceeds, ConnectFails,
             IterateConnected, IterateRegistered, IterateOnline, BeginIterate
    <3>2. ~Second /\ ~supla_dev_send_notification /\ ~SrpcFails
      BY SetStateRange DEF Second, supla_dev_send_notification, SrpcFails, Reconnect
    <3>3. \A t \in App : ~Api(t)
      BY ApiStep
    <3>4. backlog \in backlog..QueueSize
      BY Numbers DEF TypeOK
    <3> QED
      BY <3>1, <3>2, <3>3, <3>4
      DEF Next, SrpcIterate, SrpcNothing, Dispatch, OnRegisterResult, OnRegisterRefused,
          OnActivityTimeoutResult, OnLocaltimeResult, OnEnterConfigRequest, OnOtherCall
  <2>3. quiet' = 0 \/ (quiet' = quiet /\ backlog = 0)
    BY <2>2, EndWrites
  <2>4. CASE quiet' = 0
    BY <2>1, <2>4, Numbers
  <2>5. CASE quiet' = quiet /\ backlog = 0
    <3>1. quiet <= sincePing + SyncLatency /\ sincePing < activityTimeout - PingMargin
      BY <2>5 DEF PingsTimed
    <3> QED
      BY <2>1, <2>5, <3>1, Numbers DEF TypeOK, Age
  <2> QED
    BY <2>3, <2>4, <2>5
<1> QED
  BY <1>1, <1>2, PingsTimedStep, CallRunsStarts, CallRunsStep, TypeCorrect, PTL
  DEF Spec, KeepAlive
=============================================================================
