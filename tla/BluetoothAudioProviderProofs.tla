--------------------- MODULE BluetoothAudioProviderProofs ---------------------
(***************************************************************************)
(* The providers use the session as SessionSpec allows, so what is proved  *)
(* of a session holds behind any number of stack processes and binder      *)
(* threads; and the invariants of the providers themselves.                *)
(***************************************************************************)
EXTENDS BluetoothAudioProvider, BluetoothAudioSessionProofs

\* A thread in a call knows for whom, and onSessionReady has the queue it was given.
CallsWellFormed ==
  \A t \in BinderThreads :
    /\ call[t].op # "idle" => call[t].host \in Hosts
    /\ call[t].op = "ready" => call[t].arg \in MqDescriptors

\* A stack process has one session call under way at most.
OneSessionCall ==
  \A t, u \in BinderThreads :
    /\ call[t].op \in SessionOps /\ call[u].op \in SessionOps
    /\ call[t].host = call[u].host
    => t = u

\* Between the end of the session and the end of endSession the session is not back.
EndedSessionLeft ==
  \A t \in BinderThreads : call[t].op = "ended" => stack_iface # call[t].host

\* The inductive invariant of the providers.
ProviderInv ==
  /\ ProviderTypeOK
  /\ CallsWellFormed
  /\ OneSessionCall
  /\ EndedSessionLeft
  /\ SessionCanBeEnded

-----------------------------------------------------------------------------
\* The providers as users of the session.

\* A call into the session made by a binder thread is a call SessionSpec allows: the
\* arguments a provider passes are those of a stack.
LEMMA ThreadGoesOnIsSessionStep ==
  ASSUME ProviderInv, NEW t \in BinderThreads, ThreadGoesOn(t)
  PROVE  [SessionNext]_sessionVars
<1> USE DEF sessionVars, session_state, latency_state, table_state
<1>1. call[t].host \in Hosts \/ call[t].op = "idle"
  BY DEF ProviderInv, CallsWellFormed
<1>2. CASE OnSessionReady(t)
  <2>1. call[t].host \in Hosts /\ call[t].arg \in MqDescriptors
    BY <1>2 DEF OnSessionReady, GoesOn, ProviderInv, CallsWellFormed
  <2>2. PICK modes \in SUBSET LatencyModes :
          OnSessionStarted(IF p_iface[call[t].host] THEN call[t].host ELSE NoHost,
                           call[t].arg, p_config[call[t].host], modes)
    BY <1>2 DEF OnSessionReady
  <2>3. p_config[call[t].host] \in ConfigTags \cup {NoConfig}
    BY <2>1, TypesApart DEF ProviderInv, ProviderTypeOK
  <2>4. CASE p_config[call[t].host] \in ConfigTags
    BY <2>1, <2>2, <2>4 DEF SessionNext, StackCall
  <2>5. CASE p_config[call[t].host] = NoConfig
    <3>1. NoConfig \notin AcceptedTags
      BY TypesApart, SessionAssumption
    <3> QED BY <2>2, <2>5, <3>1 DEF OnSessionStarted
  <2> QED BY <2>3, <2>4, <2>5
<1>3. CASE EndingSession(t) \/ DeathEndsSession(t)
  BY <1>3 DEF EndingSession, DeathEndsSession, SessionNext, StackCall
<1>4. CASE ReportResult(t)
  <2>1. call[t].status \in Statuses
    BY DEF ProviderInv, ProviderTypeOK
  <2> QED BY <1>4, <2>1 DEF ReportResult, SessionNext, StackCall
<1>5. CASE ReportConfig(t)
  <2>1. ReportAudioConfigChanged(p_config[call[t].host])
    BY <1>5 DEF ReportConfig
  <2>2. CASE p_config[call[t].host] \in ConfigTags
    BY <2>1, <2>2 DEF SessionNext, StackCall
  <2>3. CASE p_config[call[t].host] \notin ConfigTags
    BY <2>1, <2>3 DEF ReportAudioConfigChanged, ConfigTags
  <2> QED BY <2>2, <2>3
<1>6. CASE ReportLowLatency(t)
  BY <1>6 DEF ReportLowLatency, SessionNext, StackCall
<1>7. CASE SessionEnded(t) \/ CallReturns(t)
  BY <1>7 DEF SessionEnded, CallReturns
<1> QED BY <1>2, <1>3, <1>4, <1>5, <1>6, <1>7 DEF ThreadGoesOn

\* Every step of the providers is a step of the session or leaves it alone.
LEMMA ProviderStepIsSessionStep ==
  ProviderInv /\ [ProviderNext]_providerVars => [SessionNext]_sessionVars
<1> SUFFICES ASSUME ProviderInv, [ProviderNext]_providerVars PROVE [SessionNext]_sessionVars
  OBVIOUS
<1>1. CASE UNCHANGED providerVars
  BY <1>1 DEF providerVars
<1>2. ASSUME NEW t \in BinderThreads, ThreadGoesOn(t)
      PROVE  [SessionNext]_sessionVars
  BY <1>2, ThreadGoesOnIsSessionStep
<1>3. ASSUME NEW t \in BinderThreads,
             StackEnters(t) \/ \E h \in Hosts : BinderDied(t, h)
      PROVE  UNCHANGED sessionVars
  BY <1>3
  DEF StackEnters, BinderDied, StartSession, EndSession, StreamResult,
      UpdateAudioConfiguration, SetLowLatencyModeAllowed
<1>4. ASSUME NEW h \in Hosts, StackDies(h)
      PROVE  UNCHANGED sessionVars
  BY <1>4 DEF StackDies
<1>5. CASE WalkOn
  BY <1>5 DEF WalkOn, CallsBack, SessionNext, Deliver
<1>6. CASE AnyClient
  BY <1>6 DEF AnyClient, SessionNext, ControlCall
<1> QED BY <1>1, <1>2, <1>3, <1>4, <1>5, <1>6 DEF ProviderNext, BinderNext

-----------------------------------------------------------------------------
\* The steps keep the invariant.

\* No provider call, no host is idle, and the arguments are of their kinds.
LEMMA CallTypes ==
  /\ NoCall \in [ op : CallOps, host : Hosts \cup {NoHost}, arg : CallArgs, status : Statuses ]
  /\ \A op \in CallOps, h \in Hosts, arg \in CallArgs :
       InCall(op, h, arg) \in [ op : CallOps, host : Hosts \cup {NoHost},
                                arg : CallArgs, status : Statuses ]
BY DEF NoCall, InCall, CallOps, CallArgs, SessionOps, Statuses

\* A call that enters an idle thread.
LEMMA EnteringInv ==
  ASSUME ProviderInv, NEW t \in BinderThreads, NEW c,
         c \in [ op : CallOps, host : Hosts, arg : CallArgs, status : Statuses ],
         c.op # "ended",
         c.op = "ready" => c.arg \in MqDescriptors,
         c.op \in SessionOps => SessionCallFree(c.host),
         Begins(t, c), UNCHANGED << sessionVars, owner >>
  PROVE  CallsWellFormed' /\ OneSessionCall' /\ EndedSessionLeft'
<1> USE DEF ProviderInv, ProviderTypeOK
<1>1. /\ call[t].op = "idle"
      /\ call'[t] = c
      /\ \A u \in BinderThreads \ {t} : call'[u] = call[u]
      /\ UNCHANGED stack_iface
  BY DEF Begins, NoCall, sessionVars, session_state
<1>2. CallsWellFormed'
  BY <1>1 DEF CallsWellFormed
<1>3. OneSessionCall'
  BY <1>1 DEF OneSessionCall, SessionCallFree
<1>4. EndedSessionLeft'
  BY <1>1 DEF EndedSessionLeft
<1> QED BY <1>2, <1>3, <1>4

\* A thread that calls the session and may leave a walk.
LEMMA CallingInv ==
  ASSUME ProviderInv, NEW t \in BinderThreads,
         NEW op \in { "started", "ended", "reported", "configured" },
         call[t].op \in CallOps \ {"idle"},
         op \in SessionOps <=> call[t].op \in SessionOps,
         call' = [ call EXCEPT ![t] = InCall(op, call[t].host, "none") ],
         Walking(t)
  PROVE  /\ call' \in [ BinderThreads -> [ op : CallOps, host : Hosts \cup {NoHost},
                                           arg : CallArgs, status : Statuses ] ]
         /\ owner' \in BinderThreads \cup {NoThread}
         /\ CallsWellFormed' /\ OneSessionCall'
<1> USE DEF ProviderInv, ProviderTypeOK
<1>1. call[t].host \in Hosts
  BY DEF CallsWellFormed
<1>2. op \in CallOps /\ "none" \in CallArgs
  BY DEF CallOps, SessionOps, CallArgs
<1>3. InCall(op, call[t].host, "none") \in [ op : CallOps, host : Hosts \cup {NoHost},
                                             arg : CallArgs, status : Statuses ]
  BY <1>1, <1>2, CallTypes
<1>4. /\ call'[t].op = op /\ call'[t].host = call[t].host
      /\ \A u \in BinderThreads \ {t} : call'[u] = call[u]
  BY DEF InCall
<1>5. CallsWellFormed' /\ OneSessionCall'
  BY <1>1, <1>4 DEF CallsWellFormed, OneSessionCall
<1> QED BY <1>3, <1>5 DEF Walking

\* A call that is back leaves its thread idle.
LEMMA ReturningInv ==
  ASSUME ProviderInv, NEW t \in BinderThreads, Returned(t),
         call' = [ call EXCEPT ![t] = NoCall ], UNCHANGED << sessionVars, owner >>
  PROVE  /\ call' \in [ BinderThreads -> [ op : CallOps, host : Hosts \cup {NoHost},
                                           arg : CallArgs, status : Statuses ] ]
         /\ CallsWellFormed' /\ OneSessionCall' /\ EndedSessionLeft'
<1> USE DEF ProviderInv, ProviderTypeOK
<1>1. /\ call'[t].op = "idle"
      /\ \A u \in BinderThreads \ {t} : call'[u] = call[u]
      /\ UNCHANGED stack_iface
  BY DEF NoCall, sessionVars, session_state
<1>2. CallsWellFormed' /\ OneSessionCall' /\ EndedSessionLeft'
  BY <1>1 DEF CallsWellFormed, OneSessionCall, EndedSessionLeft, SessionOps
<1> QED BY <1>2, CallTypes

\* The calls of the stack processes.
LEMMA StackEntersInv ==
  ASSUME ProviderInv, NEW t \in BinderThreads, StackEnters(t)
  PROVE  ProviderInv'
<1> USE DEF sessionVars, session_state, provider_state
<1>1. ASSUME NEW h \in Hosts, NEW tag \in AcceptedTags, NEW mq \in MqDescriptors,
             StartSession(t, h, tag, mq)
      PROVE  ProviderInv'
  <2>1. InCall("ready", h, mq) \in [ op : CallOps, host : Hosts, arg : CallArgs, status : Statuses ]
    BY DEF InCall, CallOps, SessionOps, CallArgs, Statuses
  <2>2. CallsWellFormed' /\ OneSessionCall' /\ EndedSessionLeft'
    <3> DEFINE c == InCall("ready", h, mq)
    <3>1. c.op = "ready" /\ c.host = h /\ c.arg = mq
      BY DEF InCall
    <3>2. Begins(t, c) /\ SessionCallFree(h) /\ UNCHANGED << sessionVars, owner >>
      BY <1>1 DEF StartSession
    <3> HIDE DEF c
    <3> QED BY <2>1, <3>1, <3>2, EnteringInv DEF c
  <2>3. ProviderTypeOK'
    BY <1>1, <2>1, ProviderAssumption DEF StartSession, Begins, ProviderInv, ProviderTypeOK
  <2>4. SessionCanBeEnded'
    BY <1>1 DEF StartSession, ProviderInv, ProviderTypeOK, SessionCanBeEnded
  <2> QED BY <2>2, <2>3, <2>4 DEF ProviderInv
<1>2. ASSUME UNCHANGED << sessionVars, p_iface, links, alive, owner, startedDead, call >>,
             p_config' \in [ Hosts -> AcceptedTags \cup {NoConfig} ]
      PROVE  ProviderInv'
  BY <1>2
  DEF ProviderInv, ProviderTypeOK, CallsWellFormed, OneSessionCall, EndedSessionLeft,
      SessionCanBeEnded
<1>3. ASSUME NEW h \in Hosts, NEW c,
             c \in [ op : CallOps, host : Hosts, arg : CallArgs, status : Statuses ],
             c.op \notin { "ended", "ready" },
             c.op \in SessionOps => SessionCallFree(c.host), Begins(t, c),
             UNCHANGED << sessionVars, provider_state, alive, owner, startedDead >>
      PROVE  ProviderInv'
  <2>1. CallsWellFormed' /\ OneSessionCall' /\ EndedSessionLeft'
    BY <1>3, EnteringInv
  <2>2. ProviderTypeOK' /\ SessionCanBeEnded'
    BY <1>3 DEF Begins, ProviderInv, ProviderTypeOK, SessionCanBeEnded
  <2> QED BY <2>1, <2>2 DEF ProviderInv
<1>4. ASSUME NEW h \in Hosts, EndSession(t, h)
      PROVE  ProviderInv'
  <2>1. CASE p_iface[h]
    <3>1. /\ InCall("ending", h, "none") \in [ op : CallOps, host : Hosts,
                                               arg : CallArgs, status : Statuses ]
          /\ InCall("ending", h, "none").op = "ending"
          /\ InCall("ending", h, "none").host = h
      BY DEF InCall, CallOps, SessionOps, CallArgs, Statuses
    <3> QED BY <1>3, <1>4, <2>1, <3>1 DEF EndSession
  <2>2. CASE ~p_iface[h]
    BY <1>2, <1>4, <2>2 DEF EndSession, ProviderInv, ProviderTypeOK
  <2> QED BY <2>1, <2>2
<1>5. ASSUME NEW h \in Hosts, NEW start_resp \in BOOLEAN, NEW status \in Statuses,
             StreamResult(t, h, start_resp, status)
      PROVE  ProviderInv'
  <2> DEFINE c == [ op |-> "result", host |-> h, status |-> status,
                    arg |-> IF start_resp THEN "streamStarted" ELSE "streamSuspended" ]
  <2>1. /\ c \in [ op : CallOps, host : Hosts, arg : CallArgs, status : Statuses ]
        /\ c.op = "result" /\ "result" \notin SessionOps
    BY DEF CallOps, CallArgs, SessionOps
  <2>2. CASE p_iface[h]
    <3>1. Begins(t, c)
      BY <1>5, <2>2 DEF StreamResult
    <3> HIDE DEF c
    <3> QED BY <1>3, <1>5, <2>1, <3>1 DEF StreamResult
  <2>3. CASE ~p_iface[h]
    BY <1>2, <1>5, <2>3 DEF StreamResult, ProviderInv, ProviderTypeOK
  <2> QED BY <2>2, <2>3
<1>6. ASSUME NEW h \in Hosts, NEW tag \in AcceptedTags, UpdateAudioConfiguration(t, h, tag)
      PROVE  ProviderInv'
  <2>1. /\ InCall("config", h, tag) \in [ op : CallOps, host : Hosts,
                                          arg : CallArgs, status : Statuses ]
        /\ InCall("config", h, tag).op = "config" /\ InCall("config", h, tag).host = h
    BY TypesApart DEF InCall, CallOps, SessionOps, CallArgs, Statuses
  <2> QED BY <1>3, <1>6, <2>1 DEF UpdateAudioConfiguration
<1>7. ASSUME NEW h \in Hosts, NEW allowed \in BOOLEAN, SetLowLatencyModeAllowed(t, h, allowed)
      PROVE  ProviderInv'
  <2>1. ASSUME NEW op \in { "allow", "forbid" }
        PROVE  /\ InCall(op, h, "none") \in [ op : CallOps, host : Hosts,
                                              arg : CallArgs, status : Statuses ]
               /\ InCall(op, h, "none").op \notin SessionOps
               /\ InCall(op, h, "none").op = op
    BY DEF InCall, CallOps, SessionOps, CallArgs, Statuses
  <2>2. \E op \in { "allow", "forbid" } : Begins(t, InCall(op, h, "none"))
    BY <1>7 DEF SetLowLatencyModeAllowed
  <2> QED BY <1>3, <1>7, <2>1, <2>2 DEF SetLowLatencyModeAllowed
<1> QED BY <1>1, <1>4, <1>5, <1>6, <1>7 DEF StackEnters

\* The calls into the session: only onSessionReady brings an interface in, and it is one
\* the provider holds; the ends of sessions only take it out.
LEMMA ThreadGoesOnInv ==
  ASSUME ProviderInv, SessionInv, NEW t \in BinderThreads, ThreadGoesOn(t)
  PROVE  ProviderInv'
<1> USE DEF sessionVars, session_state, provider_state
<1>1. ASSUME NEW op \in { "started", "ended", "reported", "configured" },
             GoesOn(t, call[t].op, InCall(op, call[t].host, "none")),
             call[t].op # "idle", op \in SessionOps <=> call[t].op \in SessionOps,
             Walking(t), UNCHANGED << p_iface, p_config, links, alive >>,
             startedDead' \in BOOLEAN,
             \A h \in Hosts : stack_iface' = h =>
               /\ p_iface[h]
               /\ stack_iface = h \/ (call[t].op = "ready" /\ call[t].host = h),
             op = "ended" => stack_iface' \notin Hosts
      PROVE  ProviderInv'
  <2>1. call' = [ call EXCEPT ![t] = InCall(op, call[t].host, "none") ] /\ call[t].op \in CallOps
    BY <1>1 DEF GoesOn, ProviderInv, ProviderTypeOK
  <2>2. /\ call' \in [ BinderThreads -> [ op : CallOps, host : Hosts \cup {NoHost},
                                          arg : CallArgs, status : Statuses ] ]
        /\ owner' \in BinderThreads \cup {NoThread}
        /\ CallsWellFormed' /\ OneSessionCall'
    BY <1>1, <2>1, CallingInv
  <2>3. ProviderTypeOK'
    BY <1>1, <2>2 DEF ProviderInv, ProviderTypeOK
  <2>4. SessionCanBeEnded'
    BY <1>1 DEF ProviderInv, SessionCanBeEnded
  <2>5. EndedSessionLeft'
    <3> SUFFICES ASSUME NEW u \in BinderThreads, call'[u].op = "ended"
                 PROVE  stack_iface' # call'[u].host
      BY DEF EndedSessionLeft
    <3>1. call'[u].host \in Hosts
      BY <2>2 DEF CallsWellFormed
    <3>2. CASE u = t
      <4>1. op = "ended"
        BY <2>1, <3>2 DEF InCall, ProviderInv, ProviderTypeOK
      <4> QED BY <1>1, <3>1, <4>1
    <3>3. CASE u # t
      <4>1. call'[u] = call[u]
        BY <2>1, <3>3 DEF ProviderInv, ProviderTypeOK
      <4>2. stack_iface # call[u].host
        BY <4>1 DEF ProviderInv, EndedSessionLeft
      <4>3. ~(call[t].op = "ready" /\ call[t].host = call[u].host)
        BY <3>3, <4>1 DEF ProviderInv, OneSessionCall, SessionOps
      <4> QED BY <1>1, <3>1, <4>1, <4>2, <4>3
    <3> QED BY <3>2, <3>3
  <2> QED BY <2>2, <2>3, <2>4, <2>5 DEF ProviderInv
<1>2. ASSUME OnSessionReady(t) PROVE ProviderInv'
  <2>1. /\ GoesOn(t, "ready", InCall("started", call[t].host, "none")) /\ call[t].op = "ready"
        /\ Walking(t) /\ UNCHANGED << p_iface, p_config, links, alive >>
    BY <1>2 DEF OnSessionReady, GoesOn, OnSessionStarted
  <2>2. startedDead' \in BOOLEAN
    BY <1>2 DEF OnSessionReady, ProviderInv, ProviderTypeOK
  <2>3. stack_iface' = stack_iface \/ (p_iface[call[t].host] /\ stack_iface' = call[t].host)
    BY <1>2, SessionAssumption DEF OnSessionReady, OnSessionStarted
  <2>4. \A h \in Hosts : stack_iface = h => p_iface[h]
    BY DEF ProviderInv, SessionCanBeEnded
  <2> QED BY <1>1, <2>1, <2>2, <2>3, <2>4 DEF SessionOps
<1>3. ASSUME EndingSession(t) PROVE ProviderInv'
  <2>1. /\ GoesOn(t, "ending", InCall("ended", call[t].host, "none")) /\ call[t].op = "ending"
        /\ Walking(t) /\ UNCHANGED << p_iface, p_config, links, alive, startedDead >>
        /\ stack_iface' = NoHost
    BY <1>3 DEF EndingSession, GoesOn, OnSessionEnded
  <2>2. startedDead' \in BOOLEAN
    BY <2>1 DEF ProviderInv, ProviderTypeOK
  <2> QED BY <1>1, <2>1, <2>2, SessionAssumption DEF SessionOps
<1>4. ASSUME ReportResult(t) \/ ReportConfig(t) \/ ReportLowLatency(t) \/ DeathEndsSession(t)
      PROVE  ProviderInv'
  <2>1. /\ \/ /\ GoesOn(t, call[t].op, InCall("reported", call[t].host, "none"))
              /\ call[t].op \in { "result", "allow", "forbid", "died" }
           \/ /\ GoesOn(t, call[t].op, InCall("configured", call[t].host, "none"))
              /\ call[t].op = "config"
        /\ UNCHANGED << p_iface, p_config, links, alive, startedDead >>
    BY <1>4 DEF ReportResult, ReportConfig, ReportLowLatency, DeathEndsSession, GoesOn
  <2>2. Walking(t)
    BY <1>4
    DEF ReportResult, ReportConfig, ReportLowLatency, DeathEndsSession, ReportControlStatus,
        ReportAudioConfigChanged, ReportLowLatencyModeAllowedChanged, OnSessionEnded
  <2>3. stack_iface' = stack_iface \/ stack_iface' = NoHost
    BY <1>4
    DEF ReportResult, ReportConfig, ReportLowLatency, DeathEndsSession, ReportControlStatus,
        ReportAudioConfigChanged, ReportLowLatencyModeAllowedChanged, OnSessionEnded
  <2>4. \A h \in Hosts : stack_iface' = h => p_iface[h] /\ stack_iface = h
    BY <2>3, SessionAssumption DEF ProviderInv, SessionCanBeEnded
  <2>5. startedDead' \in BOOLEAN
    BY <2>1 DEF ProviderInv, ProviderTypeOK
  <2> QED BY <1>1, <2>1, <2>2, <2>4, <2>5 DEF SessionOps
<1>5. ASSUME SessionEnded(t) PROVE ProviderInv'
  <2>1. /\ Returned(t) /\ call' = [ call EXCEPT ![t] = NoCall ] /\ call[t].op = "ended"
        /\ UNCHANGED << sessionVars, links, alive, owner, startedDead >>
        /\ p_iface' = [ p_iface EXCEPT ![call[t].host] = FALSE ]
        /\ p_config' = [ p_config EXCEPT ![call[t].host] = NoConfig ]
    BY <1>5 DEF SessionEnded, GoesOn
  <2>2. /\ call' \in [ BinderThreads -> [ op : CallOps, host : Hosts \cup {NoHost},
                                          arg : CallArgs, status : Statuses ] ]
        /\ CallsWellFormed' /\ OneSessionCall' /\ EndedSessionLeft'
    BY <2>1, ReturningInv
  <2>3. ProviderTypeOK'
    BY <2>1, <2>2 DEF ProviderInv, ProviderTypeOK
  <2>4. SessionCanBeEnded'
    BY <2>1 DEF ProviderInv, ProviderTypeOK, SessionCanBeEnded, EndedSessionLeft
  <2> QED BY <2>2, <2>3, <2>4 DEF ProviderInv
<1>6. ASSUME CallReturns(t) PROVE ProviderInv'
  <2>1. /\ Returned(t) /\ call' = [ call EXCEPT ![t] = NoCall ]
        /\ UNCHANGED << sessionVars, provider_state, alive, owner, startedDead >>
    BY <1>6 DEF CallReturns
  <2>2. /\ call' \in [ BinderThreads -> [ op : CallOps, host : Hosts \cup {NoHost},
                                          arg : CallArgs, status : Statuses ] ]
        /\ CallsWellFormed' /\ OneSessionCall' /\ EndedSessionLeft'
    BY <2>1, ReturningInv
  <2> QED BY <2>1, <2>2 DEF ProviderInv, ProviderTypeOK, SessionCanBeEnded
<1> QED BY <1>2, <1>3, <1>4, <1>5, <1>6 DEF ThreadGoesOn

\* A death, its notice, a callback and an output leave the providers in order.
LEMMA BinderDiedInv ==
  ASSUME ProviderInv, NEW t \in BinderThreads, NEW h \in Hosts, BinderDied(t, h)
  PROVE  ProviderInv'
<1> USE DEF sessionVars, session_state
<1>1. /\ InCall("died", h, "none") \in [ op : CallOps, host : Hosts,
                                         arg : CallArgs, status : Statuses ]
      /\ InCall("died", h, "none").op = "died" /\ "died" \notin SessionOps
  BY DEF InCall, CallOps, SessionOps, CallArgs, Statuses
<1>2. CallsWellFormed' /\ OneSessionCall' /\ EndedSessionLeft'
  BY <1>1, EnteringInv DEF BinderDied
<1>3. ProviderTypeOK'
  BY <1>1, ProviderAssumption DEF BinderDied, Begins, ProviderInv, ProviderTypeOK
<1>4. SessionCanBeEnded'
  BY DEF BinderDied, ProviderInv, SessionCanBeEnded
<1> QED BY <1>2, <1>3, <1>4 DEF ProviderInv

LEMMA StackDiesInv ==
  ASSUME ProviderInv, NEW h \in Hosts, StackDies(h)
  PROVE  ProviderInv'
BY DEF StackDies, sessionVars, session_state, provider_state, ProviderInv, ProviderTypeOK,
       CallsWellFormed, OneSessionCall, EndedSessionLeft, SessionCanBeEnded

LEMMA WalkOnInv ==
  ASSUME ProviderInv, SessionInv, WalkOn
  PROVE  ProviderInv'
<1> USE DEF provider_state
<1>1. PICK k \in report.todo : CallsBack(k)
  BY DEF WalkOn
<1>2. /\ UNCHANGED << stack_iface, p_iface, p_config, links, alive, call, startedDead >>
      /\ Called(k) /\ Walking(owner)
  BY <1>1 DEF CallsBack, DeliverTo, session_state
<1>3. ProviderTypeOK'
  BY <1>2 DEF ProviderInv, ProviderTypeOK, Walking
<1>4. CallsWellFormed' /\ OneSessionCall' /\ EndedSessionLeft' /\ SessionCanBeEnded'
  BY <1>2
  DEF ProviderInv, CallsWellFormed, OneSessionCall, EndedSessionLeft, SessionCanBeEnded
<1> QED BY <1>3, <1>4 DEF ProviderInv

LEMMA AnyClientInv ==
  ASSUME ProviderInv, AnyClient
  PROVE  ProviderInv'
<1>1. UNCHANGED << stack_iface, p_iface, p_config, links, alive, call, owner, startedDead >>
  BY DEF AnyClient, ClientCall, RegisterStatusCback, UnregisterStatusCback,
         EntersStack, LeavesStack, AnswersInside,
         provider_state, session_state
<1> QED BY <1>1
  DEF ProviderInv, ProviderTypeOK, CallsWellFormed, OneSessionCall, EndedSessionLeft,
      SessionCanBeEnded

\* Every step keeps the invariants of the providers and of the session.
LEMMA ProviderNextInv ==
  ProviderInv /\ SessionInv /\ [ProviderNext]_providerVars => ProviderInv' /\ SessionInv'
<1> SUFFICES ASSUME ProviderInv, SessionInv, [ProviderNext]_providerVars
             PROVE  ProviderInv' /\ SessionInv'
  OBVIOUS
<1>1. SessionInv'
  BY ProviderStepIsSessionStep, SessionNextInv
<1>2. ASSUME UNCHANGED providerVars PROVE ProviderInv'
  <2>1. UNCHANGED << stack_iface, p_iface, p_config, links, alive, call, owner,
                     startedDead >>
    BY <1>2 DEF providerVars, provider_state, sessionVars, session_state
  <2> QED BY <2>1
    DEF ProviderInv, ProviderTypeOK, CallsWellFormed, OneSessionCall, EndedSessionLeft,
        SessionCanBeEnded
<1>3. ASSUME BinderNext PROVE ProviderInv'
  BY <1>3, StackEntersInv, ThreadGoesOnInv, BinderDiedInv, StackDiesInv DEF BinderNext
<1>4. ASSUME WalkOn \/ AnyClient PROVE ProviderInv'
  BY <1>4, WalkOnInv, AnyClientInv
<1> QED BY <1>1, <1>2, <1>3, <1>4 DEF ProviderNext

\* Initially no process has called and the session is new.
LEMMA ProviderInitInv == ProviderInit => ProviderInv /\ SessionInv
<1> SUFFICES ASSUME ProviderInit PROVE ProviderInv /\ SessionInv
  OBVIOUS
<1>1. SessionInv
  BY SessionInitInv DEF ProviderInit
<1>2. ProviderTypeOK
  <2>1. links \in [ Hosts -> 0 .. MaxLinks ]
    BY ProviderAssumption DEF ProviderInit
  <2>2. call \in [ BinderThreads -> [ op : CallOps, host : Hosts \cup {NoHost},
                                     arg : CallArgs, status : Statuses ] ]
    BY CallTypes DEF ProviderInit
  <2> QED BY <2>1, <2>2 DEF ProviderInit, ProviderTypeOK
<1>3. CallsWellFormed /\ OneSessionCall /\ EndedSessionLeft
  BY DEF ProviderInit, CallsWellFormed, OneSessionCall, EndedSessionLeft, NoCall, SessionOps
<1>4. SessionCanBeEnded
  BY SessionAssumption
  DEF ProviderInit, SessionInit, SessionCanBeEnded
<1> QED BY <1>1, <1>2, <1>3, <1>4 DEF ProviderInv

\* The invariants of every reachable state of the providers and their session.
THEOREM ProviderInvariant == ProviderSpec => [](ProviderInv /\ SessionInv)
BY ProviderInitInv, ProviderNextInv, PTL DEF ProviderSpec

\* The variables of the providers keep their types.
THEOREM ProviderTypeCorrect == ProviderSpec => []ProviderTypeOK
<1>1. ProviderInv => ProviderTypeOK
  BY DEF ProviderInv
<1> QED BY <1>1, ProviderInvariant, PTL

\* However starts, ends and deaths of stack processes cross on the binder threads, the
\* provider of the session that stands can end it.
THEOREM ProviderSessionCanBeEnded == ProviderSpec => []SessionCanBeEnded
<1>1. ProviderInv => SessionCanBeEnded
  BY DEF ProviderInv
<1> QED BY <1>1, ProviderInvariant, PTL

\* However updateAudioConfiguration, endSession and the death notice cross, an offload session
\* is never half there behind the providers.
THEOREM ProviderOffloadWhole == ProviderSpec => []OffloadSessionWhole
<1>1. SessionInv => OffloadSessionWhole
  BY DEF SessionInv
<1> QED BY <1>1, ProviderInvariant, PTL

\* The providers use the session as its specification allows: what is proved of every
\* session, its contract included, is true behind them.
THEOREM ProviderImplementsSession == ProviderSpec => SessionSpec /\ ImplementsContract
<1>1. ProviderInit => SessionInit
  BY DEF ProviderInit
<1>2. ProviderSpec => SessionSpec
  BY <1>1, ProviderInvariant, ProviderStepIsSessionStep, PTL DEF ProviderSpec, SessionSpec
<1> QED BY <1>2, SessionImplementsContract

===============================================================================
