------------------------ MODULE BluetoothAudioProvider ------------------------
(***************************************************************************)
(* The AIDL provider objects in front of one session.  Every Bluetooth     *)
(* stack process opens its own BluetoothAudioProvider and hands it its own *)
(* IBluetoothAudioPort, so a host h stands for the process, its port and   *)
(* its provider object.  Calls run on the threads of the binder pool with  *)
(* no lock of the provider: what a method does between two calls of the    *)
(* session is one step, and `call` is what each binder thread is in the    *)
(* middle of.  The stack makes one session call (start, end, update) at a  *)
(* time; its stream results and the death notices come at any time.        *)
(***************************************************************************)
EXTENDS BluetoothAudioSession

CONSTANTS
  BinderThreads,  \* the binder pool (16 threads in service_system.cpp)
  NoThread,       \* nobody holds the session mutex for a walk
  MaxLinks        \* bound: death links on one port, so startSession calls of one process

VARIABLES
  p_iface,   \* stack_iface_ of h's provider object is set
  p_config,  \* tag of its audio_config_, or NoConfig
  links,     \* death links to h's port that have not fired
  alive,     \* the stack processes that have not died
  call,      \* what each binder thread is in the middle of
  owner,     \* the binder thread walking the observers, or NoThread (a walk of AnswersInside has none)
  startedDead       \* history: the session last started on a process already dead

ASSUME ProviderAssumption ==
  /\ NoThread \notin BinderThreads
  /\ MaxLinks \in Nat

provider_state == << p_iface, p_config, links >>
providerVars   == << sessionVars, provider_state, alive, call, owner, startedDead >>

-----------------------------------------------------------------------------
NoCall == [ op |-> "idle", host |-> NoHost, arg |-> "none", status |-> "SUCCESS" ]
InCall(op, h, arg) == [ op |-> op, host |-> h, arg |-> arg, status |-> "SUCCESS" ]

\* The steps of startSession, endSession and updateAudioConfiguration.
SessionOps == { "ready", "started", "ending", "ended", "config", "configured" }

\* The stack process h has no session call under way.
SessionCallFree(h) ==
  \A t \in BinderThreads : ~(call[t].host = h /\ call[t].op \in SessionOps)

Begins(t, c) == call[t] = NoCall /\ call' = [ call EXCEPT ![t] = c ]
GoesOn(t, op, next) == call[t].op = op /\ call' = [ call EXCEPT ![t] = next ]

\* Thread t is walking the observers after the step exactly if it left a walk under way.
Walking(t) == owner' = IF report'.cb = "none" THEN NoThread ELSE t

\* The call that thread t made into the session has returned.
Returned(t) == owner # t

-----------------------------------------------------------------------------
\* Mutant of StartSession: the port is not linked to death.
StartSession_NoLink(t, h, tag, mq) ==
  /\ h \in alive
  /\ SessionCallFree(h)
  /\ tag \in AcceptedTags
  /\ Begins(t, InCall("ready", h, mq))
  /\ p_iface' = [ p_iface EXCEPT ![h] = TRUE ]
  /\ p_config' = [ p_config EXCEPT ![h] = tag ]
  /\ UNCHANGED << sessionVars, links, alive, owner, startedDead >>

\* startSession: the subclass has checked the configuration, the base class stores
\* what it was given, links to the death of the port and goes on to onSessionReady.
StartSession(t, h, tag, mq) ==
  /\ h \in alive
  /\ SessionCallFree(h)
  /\ tag \in AcceptedTags
  /\ links[h] < MaxLinks
  /\ Begins(t, InCall("ready", h, mq))
  /\ p_iface' = [ p_iface EXCEPT ![h] = TRUE ]
  /\ p_config' = [ p_config EXCEPT ![h] = tag ]
  /\ links' = [ links EXCEPT ![h] = @ + 1 ]
  /\ UNCHANGED << sessionVars, alive, owner, startedDead >>

\* onSessionReady reports the stored interface and configuration to the session.
OnSessionReady(t) ==
  LET h == call[t].host IN
  /\ GoesOn(t, "ready", InCall("started", h, "none"))
  /\ \E modes \in SUBSET LatencyModes :
       OnSessionStarted(IF p_iface[h] THEN h ELSE NoHost, call[t].arg, p_config[h], modes)
  /\ Walking(t)
  /\ startedDead' = IF p_iface[h] /\ call[t].arg # "invalid" THEN h \notin alive ELSE startedDead
  /\ UNCHANGED << provider_state, alive >>

\* endSession: with an interface, the session is told first and the provider's own
\* fields are cleared when it is back; without one they are cleared at once.
EndSession(t, h) ==
  /\ h \in alive
  /\ SessionCallFree(h)
  /\ IF p_iface[h]
     THEN /\ Begins(t, InCall("ending", h, "none"))
          /\ UNCHANGED p_config
     ELSE /\ call[t] = NoCall
          /\ p_config' = [ p_config EXCEPT ![h] = NoConfig ]
          /\ UNCHANGED call
  /\ UNCHANGED << sessionVars, p_iface, links, alive, owner, startedDead >>

\* Mutant of EndingSession: the session is not told.
EndingSession_Silent(t) ==
  /\ MutexFree
  /\ GoesOn(t, "ending", InCall("ended", call[t].host, "none"))
  /\ UNCHANGED << sessionVars, owner, provider_state, alive, startedDead >>

EndingSession(t) ==
  /\ GoesOn(t, "ending", InCall("ended", call[t].host, "none"))
  /\ OnSessionEnded
  /\ Walking(t)
  /\ UNCHANGED << provider_state, alive, startedDead >>

\* unlinkToDeath is given the provider as the cookie, not the context the link was
\* made with, so the link stays.
SessionEnded(t) ==
  /\ Returned(t)
  /\ GoesOn(t, "ended", NoCall)
  /\ p_iface' = [ p_iface EXCEPT ![call[t].host] = FALSE ]
  /\ p_config' = [ p_config EXCEPT ![call[t].host] = NoConfig ]
  /\ UNCHANGED << sessionVars, links, alive, owner, startedDead >>

\* streamStarted and streamSuspended look at the interface, then report to the session.
StreamResult(t, h, start_resp, status) ==
  /\ h \in alive
  /\ IF p_iface[h]
     THEN Begins(t, [ op |-> "result", host |-> h, status |-> status,
                      arg |-> IF start_resp THEN "streamStarted" ELSE "streamSuspended" ])
     ELSE call[t] = NoCall /\ UNCHANGED call
  /\ UNCHANGED << sessionVars, provider_state, alive, owner, startedDead >>

ReportResult(t) ==
  /\ GoesOn(t, "result", InCall("reported", call[t].host, "none"))
  /\ ReportControlStatus(call[t].arg = "streamStarted", call[t].status)
  /\ Walking(t)
  /\ UNCHANGED << provider_state, alive, startedDead >>

\* updateAudioConfiguration: refused without a session or with another kind of configuration.
UpdateAudioConfiguration(t, h, tag) ==
  /\ h \in alive
  /\ SessionCallFree(h)
  /\ p_iface[h] /\ p_config[h] = tag
  /\ Begins(t, InCall("config", h, tag))
  /\ UNCHANGED << sessionVars, provider_state, alive, owner, startedDead >>

ReportConfig(t) ==
  /\ GoesOn(t, "config", InCall("configured", call[t].host, "none"))
  /\ ReportAudioConfigChanged(p_config[call[t].host])
  /\ Walking(t)
  /\ UNCHANGED << provider_state, alive, startedDead >>

SetLowLatencyModeAllowed(t, h, allowed) ==
  /\ h \in alive
  /\ p_iface[h]
  /\ Begins(t, InCall(IF allowed THEN "allow" ELSE "forbid", h, "none"))
  /\ UNCHANGED << sessionVars, provider_state, alive, owner, startedDead >>

ReportLowLatency(t) ==
  /\ call[t].op \in { "allow", "forbid" }
  /\ GoesOn(t, call[t].op, InCall("reported", call[t].host, "none"))
  /\ ReportLowLatencyModeAllowedChanged(call[t].op = "allow")
  /\ Walking(t)
  /\ UNCHANGED << provider_state, alive, startedDead >>

\* The calls that end when the session is back.
CallReturns(t) ==
  /\ Returned(t)
  /\ call[t].op \in { "started", "reported", "configured" }
  /\ call' = [ call EXCEPT ![t] = NoCall ]
  /\ UNCHANGED << sessionVars, provider_state, alive, owner, startedDead >>

\* A stack process dies; calls it made that are already in a binder thread go on.
StackDies(h) ==
  /\ h \in alive
  /\ alive' = alive \ {h}
  /\ UNCHANGED << sessionVars, provider_state, call, owner, startedDead >>

\* binderDied ends the session, whoever started it; it leaves the provider's fields.
BinderDied(t, h) ==
  /\ h \notin alive
  /\ links[h] > 0
  /\ Begins(t, InCall("died", h, "none"))
  /\ links' = [ links EXCEPT ![h] = @ - 1 ]
  /\ UNCHANGED << sessionVars, p_iface, p_config, alive, owner, startedDead >>

DeathEndsSession(t) ==
  /\ GoesOn(t, "died", InCall("reported", call[t].host, "none"))
  /\ OnSessionEnded
  /\ Walking(t)
  /\ UNCHANGED << provider_state, alive, startedDead >>

\* The owner of the walk has called the observer with cookie k.
CallsBack(k) ==
  /\ DeliverTo(k)
  /\ Walking(owner)
  /\ UNCHANGED << provider_state, alive, call, startedDead >>

WalkOn == \E k \in report.todo : CallsBack(k)

-----------------------------------------------------------------------------
ProviderInit ==
  /\ SessionInit
  /\ p_iface = [ h \in Hosts |-> FALSE ]
  /\ p_config = [ h \in Hosts |-> NoConfig ]
  /\ links = [ h \in Hosts |-> 0 ]
  /\ alive = Hosts
  /\ call = [ t \in BinderThreads |-> NoCall ]
  /\ owner = NoThread
  /\ startedDead = FALSE

\* A call of a stack process enters a binder thread.
StackEnters(t) ==
  \E h \in Hosts :
    \/ \E tag \in AcceptedTags, mq \in MqDescriptors : StartSession(t, h, tag, mq)
    \/ EndSession(t, h)
    \/ \E start_resp \in BOOLEAN, status \in Statuses : StreamResult(t, h, start_resp, status)
    \/ \E tag \in AcceptedTags : UpdateAudioConfiguration(t, h, tag)
    \/ \E allowed \in BOOLEAN : SetLowLatencyModeAllowed(t, h, allowed)

\* A binder thread goes on with the call it is in.
ThreadGoesOn(t) ==
  \/ OnSessionReady(t)
  \/ EndingSession(t)
  \/ SessionEnded(t)
  \/ ReportResult(t)
  \/ ReportConfig(t)
  \/ ReportLowLatency(t)
  \/ DeathEndsSession(t)
  \/ CallReturns(t)

BinderNext ==
  \/ \E t \in BinderThreads :
       \/ StackEnters(t)
       \/ ThreadGoesOn(t)
       \/ \E h \in Hosts : BinderDied(t, h)
  \/ \E h \in Hosts : StackDies(h)

\* The outputs' side, when nothing is said of what they do with the callbacks.
AnyClient ==
  /\ \/ ClientCall \/ EntersStack \/ LeavesStack
     \/ /\ stack_iface \in alive /\ p_iface[stack_iface]
        /\ \E start_resp \in BOOLEAN, status \in Statuses : AnswersInside(start_resp, status)
  /\ UNCHANGED << provider_state, alive, call, owner, startedDead >>

\* The call into a process that died fails.
DeadCallFails == stack_iface \notin alive /\ LeavesStack /\ AnyClient

ProviderNext == BinderNext \/ WalkOn \/ AnyClient

\* A binder thread runs until its call is back, callbacks return, and the driver delivers a death
\* notice while the link is there and ends the call into a process that died.  Nothing is asked of
\* a process that lives: it may keep an output in a call, and the mutex, for ever.
ProviderFairness ==
  /\ WF_providerVars(DeadCallFails)
  /\ WF_providerVars(WalkOn)
  /\ \A t \in BinderThreads : SF_providerVars(ThreadGoesOn(t))
  /\ \A h \in Hosts : SF_providerVars(\E t \in BinderThreads : BinderDied(t, h))

ProviderSpec     == ProviderInit /\ [][ProviderNext]_providerVars
FairProviderSpec == ProviderSpec /\ ProviderFairness

-----------------------------------------------------------------------------
CallOps == SessionOps \cup { "idle", "result", "reported", "allow", "forbid", "died" }
CallArgs == { "none", "streamStarted", "streamSuspended" } \cup MqDescriptors \cup ConfigTags

\* The values the variables of the providers range over.
ProviderTypeOK ==
  /\ p_iface \in [ Hosts -> BOOLEAN ]
  /\ p_config \in [ Hosts -> AcceptedTags \cup {NoConfig} ]
  /\ links \in [ Hosts -> 0 .. MaxLinks ]
  /\ alive \in SUBSET Hosts
  /\ call \in [ BinderThreads -> [ op : CallOps, host : Hosts \cup {NoHost},
                                   arg : CallArgs, status : Statuses ] ]
  /\ owner \in BinderThreads \cup {NoThread}
  /\ startedDead \in BOOLEAN

\* The provider a standing session was started through knows of it: its endSession will
\* find the interface and end the session, and its results are not dropped (startSession,
\* endSession and binderDied of several stack processes and threads, in any order).
SessionCanBeEnded == \A h \in Hosts : stack_iface = h => p_iface[h]

\* A session does not outlive the stack process it was started on: once the process
\* is dead the death link ends the session, whatever restarts come in between (startSession,
\* binderDied).  A session reported after the death itself is the exception history marks.
DeadStackIsForgotten ==
  \A h \in Hosts : stack_iface = h /\ h \notin alive /\ ~startedDead ~> stack_iface # h

=============================================================================
