----------------------------- MODULE HidlSession -----------------------------
(***************************************************************************)
(* The session of the HIDL library where no AIDL service is declared: one  *)
(* BluetoothAudioSession of version 2.0, the object of version 2.1 on top  *)
(* of it, and the ports of device_port_proxy_hidl that observe it.         *)
(*                                                                         *)
(* The 2.0 object has the recursive mutex, the control interface, the data *)
(* queue and the observers.  The types 2.0 knows keep their configuration  *)
(* there too; the LE software types keep it in the 2.1 object.  A session  *)
(* starts through the reports of the HIDL provider, which is not here.     *)
(***************************************************************************)
EXTENDS Integers

CONSTANTS
  HidlTypes,       \* the session types of version 2.1 looked at
  HidlPorts,       \* the ports that may observe the session
  HidlCookieSize   \* kObserversCookieSize

LOCAL H == INSTANCE HidlCodecs

ASSUME HidlAssumption ==
  HidlCookieSize \in Nat /\ HidlTypes \subseteq H!Types_2_1 /\ "none" \notin HidlPorts

HidlCookies == 0 .. HidlCookieSize - 1
NoHidlPort  == "none"              \* a cookie without observer
CookieUndefined == HidlCookieSize  \* kObserversCookieUndefined

\* The configurations told apart: their kind, a name, and the interval only 2.1 has.
HidlConfig(tag, name, interval) == [ tag |-> tag, name |-> name, interval |-> interval ]
HidlConfigs == { HidlConfig("pcmConfig", "a", 10000), HidlConfig("pcmConfig", "b", 7500),
                 HidlConfig("codecConfig", "c", 0) }
InvalidSoftware == HidlConfig("pcmConfig", "invalid", 0)
InvalidOffload  == HidlConfig("codecConfig", "invalid", 0)

VARIABLES
  legacy,     \* the two objects: [ type, iface, mq, config_2_0, config_2_1 ]
  hidlTable,  \* observers_: cookie -> port
  hidlWalk,   \* the broadcast under way: [ cb, status, todo ]
  hidlPort,   \* of a port: [ cookie, state, at ], at being where its thread is
  hidlHandler, \* the control_result_cb_ under way: its cookie and the state it read
  hidlTold    \* history: the configuration of the last session_changed; since then, whether the
              \* queue was lost and whether an answer was reported over no session

hidlVars == << legacy, hidlTable, hidlWalk, hidlPort, hidlHandler, hidlTold >>

NoHidlHandler == [ cookie |-> CookieUndefined, previous |-> "DISABLED" ]
NoWalk    == [ cb |-> "none", status |-> "SUCCESS", todo |-> {} ]
HidlMutexFree == hidlWalk = NoWalk

Is_2_0 == H!is_2_0_session_type(legacy.type)

\* session_type_2_1_ is UNKNOWN for the types 2.0 knows and for LE offload, which is not supported.
Has_2_1 == ~Is_2_0 /\ legacy.type \notin H!LeOffloadTypes_2_1

A2dpOffload_2_0 == legacy.type = "A2DP_HARDWARE_OFFLOAD_DATAPATH"
InvalidConfig == IF A2dpOffload_2_0 THEN InvalidOffload ELSE InvalidSoftware

\* BluetoothAudioSession::IsSessionReady
HidlSessionReady == legacy.iface /\ (A2dpOffload_2_0 \/ legacy.mq = "valid")

HidlObservers == { k \in HidlCookies : hidlTable[k] # NoHidlPort }

HidlBroadcast(cb, status) ==
  hidlWalk' = IF HidlObservers = {} THEN NoWalk
              ELSE [ cb |-> cb, status |-> status, todo |-> HidlObservers ]

HidlReportSessionStatus(config) ==
  /\ HidlBroadcast("session_changed", "SUCCESS")
  /\ hidlTold' = [ config |-> config, queueLost |-> FALSE, late |-> FALSE ]

HidlInit ==
  /\ legacy \in [ type : HidlTypes, iface : {FALSE}, mq : {"null"},
                  config_2_0 : {InvalidSoftware}, config_2_1 : {InvalidSoftware} ]
  /\ hidlTable = [ k \in HidlCookies |-> NoHidlPort ]
  /\ hidlWalk = NoWalk
  /\ hidlPort = [ p \in HidlPorts |-> [ cookie |-> CookieUndefined, state |-> "DISABLED", at |-> "idle" ] ]
  /\ hidlHandler = NoHidlHandler
  /\ hidlTold = [ config |-> InvalidSoftware, queueLost |-> FALSE, late |-> FALSE ]

-----------------------------------------------------------------------------
(* What the stack does.                                                    *)

\* The two UpdateAudioConfig: the kind of configuration a type takes.
TakesHidl(config) ==
  \/ config.tag = "pcmConfig" /\ (Has_2_1 \/ (Is_2_0 /\ ~A2dpOffload_2_0))
  \/ config.tag = "codecConfig" /\ A2dpOffload_2_0

\* Where the configuration is kept; dataIntervalUs is not passed to 2.0.
Kept(config) ==
  IF Has_2_1 THEN [ legacy EXCEPT !.config_2_1 = config ]
  ELSE [ legacy EXCEPT !.config_2_0 = [ config EXCEPT !.interval = 0 ] ]

\* Mutant of HidlSessionStarted: the configuration is stored before it is looked at.
HidlSessionStarted_StoresFirst(iface, mq, config) ==
  /\ HidlMutexFree
  /\ IF iface /\ TakesHidl(config) /\ mq # "invalid"
     THEN /\ legacy' = [ Kept(config) EXCEPT !.iface = TRUE, !.mq = mq ]
          /\ HidlReportSessionStatus(config)
     ELSE /\ legacy' = Kept(config)
          /\ UNCHANGED << hidlWalk, hidlTold >>
  /\ UNCHANGED << hidlTable, hidlPort, hidlHandler >>

\* OnSessionStarted, of 2.1 or handed on to 2.0.  A null descriptor is taken for a reset of the
\* queue and the session goes on; one that cannot be mapped clears the configuration.
HidlSessionStarted(iface, mq, config) ==
  /\ HidlMutexFree
  /\ \/ /\ ~iface \/ ~TakesHidl(config)
        /\ UNCHANGED << legacy, hidlWalk, hidlTold >>
     \/ /\ iface /\ TakesHidl(config) /\ mq = "invalid"
        /\ legacy' = [ Kept(InvalidConfig) EXCEPT !.mq = "null" ]
        /\ hidlTold' = [ hidlTold EXCEPT !.queueLost = TRUE ]
        /\ UNCHANGED hidlWalk
     \/ /\ iface /\ TakesHidl(config) /\ mq # "invalid"
        /\ legacy' = [ Kept(config) EXCEPT !.iface = TRUE, !.mq = mq ]
        /\ HidlReportSessionStatus(config)
  /\ UNCHANGED << hidlTable, hidlPort, hidlHandler >>

\* Mutant of HidlSessionEnded: the readiness is looked at after the reset.
HidlSessionEnded_Silent ==
  /\ HidlMutexFree
  /\ legacy' = [ legacy EXCEPT !.config_2_0 = InvalidConfig, !.iface = FALSE, !.mq = "null" ]
  /\ UNCHANGED << hidlTable, hidlPort, hidlHandler, hidlWalk, hidlTold >>

\* OnSessionEnded of the 2.0 object: the configuration in the 2.1 object stays.
HidlSessionEnded ==
  /\ HidlMutexFree
  /\ legacy' = [ legacy EXCEPT !.config_2_0 = InvalidConfig, !.iface = FALSE, !.mq = "null" ]
  /\ IF HidlSessionReady THEN HidlReportSessionStatus(InvalidConfig)
     ELSE UNCHANGED << hidlWalk, hidlTold >>
  /\ UNCHANGED << hidlTable, hidlPort, hidlHandler >>

\* ReportControlStatus: nothing is asked of the session, nor whether anything was requested.
HidlControlStatus(status) ==
  /\ HidlMutexFree
  /\ HidlBroadcast("control_result", status)
  /\ hidlTold' = [ hidlTold EXCEPT !.late = @ \/ ~HidlSessionReady ]
  /\ UNCHANGED << legacy, hidlTable, hidlPort, hidlHandler >>

-----------------------------------------------------------------------------
(* What the callbacks do to a port.                                        *)

\* ControlResultHandler: the state that follows `state`, or `state` when none is written.
HidlControlResult(state, status) ==
  CASE state = "STARTED"    -> IF status = "SUCCESS" THEN "STANDBY" ELSE "STARTED"
    [] state = "STARTING"   -> IF status = "SUCCESS" THEN "STARTED" ELSE "STANDBY"
    [] state = "SUSPENDING" -> IF status = "SUCCESS" THEN "STANDBY" ELSE "DISABLED"
    [] OTHER                -> state

\* The observer with cookie k has been called.
HidlCalled(k) ==
  hidlWalk' = IF hidlWalk.todo = {k} THEN NoWalk ELSE [ hidlWalk EXCEPT !.todo = @ \ {k} ]

\* The walk calls the port with cookie k, which knows that it is its own.
HidlKnows(k) == k \in hidlWalk.todo /\ hidlHandler = NoHidlHandler /\ hidlPort[hidlTable[k]].cookie = k

\* A port that does not know its cookie yet drops the callback.
HidlDropped(k) ==
  /\ k \in hidlWalk.todo /\ hidlHandler = NoHidlHandler
  /\ hidlPort[hidlTable[k]].cookie # k
  /\ HidlCalled(k)
  /\ UNCHANGED << legacy, hidlTable, hidlPort, hidlHandler, hidlTold >>

\* Mutant of HidlSessionChanged: the walk is left after the first observer.
HidlSessionChanged_StopsEarly(k) ==
  /\ HidlKnows(k) /\ hidlWalk.cb = "session_changed"
  /\ hidlPort' = [ hidlPort EXCEPT ![hidlTable[k]].state = "DISABLED" ]
  /\ hidlWalk' = NoWalk
  /\ UNCHANGED << legacy, hidlTable, hidlHandler, hidlTold >>

\* SessionChangedHandler disables.
HidlSessionChanged(k) ==
  /\ HidlKnows(k) /\ hidlWalk.cb = "session_changed"
  /\ hidlPort' = [ hidlPort EXCEPT ![hidlTable[k]].state = "DISABLED" ]
  /\ HidlCalled(k)
  /\ UNCHANGED << legacy, hidlTable, hidlHandler, hidlTold >>

\* ControlResultHandler reads state_ and writes it later; Start, Suspend and Stop, which write it
\* without its lock, may come between.
HidlControlReads(k) ==
  LET previous == hidlPort[hidlTable[k]].state IN
  /\ HidlKnows(k) /\ hidlWalk.cb = "control_result"
  /\ IF HidlControlResult(previous, hidlWalk.status) = previous
     THEN HidlCalled(k) /\ UNCHANGED hidlHandler
     ELSE hidlHandler' = [ cookie |-> k, previous |-> previous ] /\ UNCHANGED hidlWalk
  /\ UNCHANGED << legacy, hidlTable, hidlPort, hidlTold >>

HidlControlWrites ==
  /\ hidlHandler # NoHidlHandler
  /\ hidlPort' = [ hidlPort EXCEPT ![hidlTable[hidlHandler.cookie]].state =
                     HidlControlResult(hidlHandler.previous, hidlWalk.status) ]
  /\ hidlHandler' = NoHidlHandler
  /\ HidlCalled(hidlHandler.cookie)
  /\ UNCHANGED << legacy, hidlTable, hidlTold >>

-----------------------------------------------------------------------------
(* What the stream does with its port, one call at a time.                 *)

HidlInUse(p) == hidlPort[p].cookie # CookieUndefined

HidlMoves(p, at, next) ==
  hidlPort[p].at = at /\ hidlPort' = [ hidlPort EXCEPT ![p].at = next ]

HidlMovesTo(p, at, next, state) ==
  hidlPort[p].at = at /\ hidlPort' = [ hidlPort EXCEPT ![p].at = next, ![p].state = state ]

\* SetUp: the session is ready, the state is standby; then the callbacks are registered.
HidlSetUp(p) ==
  /\ ~HidlInUse(p) /\ HidlMutexFree /\ HidlSessionReady
  /\ HidlMovesTo(p, "idle", "registering", "STANDBY")
  /\ UNCHANGED << legacy, hidlTable, hidlWalk, hidlHandler, hidlTold >>

\* RegisterStatusCback: the lowest free cookie, or the undefined one.
HidlRegister(p) ==
  LET free == HidlCookies \ HidlObservers IN
  /\ HidlMutexFree
  /\ IF free = {}
     THEN HidlMoves(p, "registering", "idle") /\ UNCHANGED hidlTable
     ELSE /\ HidlMoves(p, "registering", "registered")
          /\ \E k \in free : /\ \A j \in free : k <= j
                             /\ hidlTable' = [ hidlTable EXCEPT ![k] = p ]
  /\ UNCHANGED << legacy, hidlWalk, hidlHandler, hidlTold >>

HidlLearnsCookie(p) ==
  /\ hidlPort[p].at = "registered"
  /\ \E k \in HidlObservers :
       hidlTable[k] = p /\ hidlPort' = [ hidlPort EXCEPT ![p].cookie = k, ![p].at = "idle" ]
  /\ UNCHANGED << legacy, hidlTable, hidlWalk, hidlHandler, hidlTold >>

\* TearDown: unregister, then forget the cookie.
HidlTearDown(p) ==
  /\ HidlInUse(p) /\ HidlMutexFree
  /\ HidlMoves(p, "idle", "unregistered")
  /\ hidlTable' = [ hidlTable EXCEPT ![hidlPort[p].cookie] = NoHidlPort ]
  /\ UNCHANGED << legacy, hidlWalk, hidlHandler, hidlTold >>

HidlForgetsCookie(p) ==
  /\ hidlPort[p].at = "unregistered"
  /\ hidlPort' = [ hidlPort EXCEPT ![p].cookie = CookieUndefined, ![p].at = "idle" ]
  /\ UNCHANGED << legacy, hidlTable, hidlWalk, hidlHandler, hidlTold >>

\* Start and Suspend look at state_ and set it without the lock of the callbacks.  The call into
\* the stack is one step: how long it takes matters to no property here.
HidlRequest(p, request, from, to) ==
  \/ /\ HidlInUse(p) /\ hidlPort[p].state = from
     /\ HidlMoves(p, "idle", request)
     /\ UNCHANGED << legacy, hidlTable, hidlWalk, hidlHandler, hidlTold >>
  \/ /\ HidlMovesTo(p, request, to, to)
     /\ UNCHANGED << legacy, hidlTable, hidlWalk, hidlHandler, hidlTold >>
  \/ /\ HidlMutexFree
     /\ \/ HidlSessionReady /\ HidlMoves(p, to, "waiting")
        \/ HidlMoves(p, to, "idle")   \* no session, or the call fails
     /\ UNCHANGED << legacy, hidlTable, hidlWalk, hidlHandler, hidlTold >>

\* CondwaitState: the state has changed, or the time is over.
HidlWaitEnds(p) ==
  HidlMoves(p, "waiting", "idle") /\ UNCHANGED << legacy, hidlTable, hidlWalk, hidlHandler, hidlTold >>

\* Stop disables before it asks.
HidlStop(p) ==
  \/ HidlInUse(p) /\ HidlMovesTo(p, "idle", "stopping", "DISABLED")
     /\ UNCHANGED << legacy, hidlTable, hidlWalk, hidlHandler, hidlTold >>
  \/ HidlMutexFree /\ HidlMoves(p, "stopping", "idle")
     /\ UNCHANGED << legacy, hidlTable, hidlWalk, hidlHandler, hidlTold >>

\* SetState, as the parameters of a stream use it: to disable, or to leave disabled.
HidlSetState(p, state) ==
  /\ HidlInUse(p)
  /\ state = "STANDBY" => hidlPort[p].state = "DISABLED"
  /\ HidlMovesTo(p, "idle", "idle", state)
  /\ UNCHANGED << legacy, hidlTable, hidlWalk, hidlHandler, hidlTold >>

\* An offload session has no queue to hand over.
HidlDescriptors == IF A2dpOffload_2_0 THEN { "null" } ELSE { "null", "valid", "invalid" }

HidlNext ==
  \/ \E iface \in BOOLEAN, mq \in HidlDescriptors, config \in HidlConfigs :
        HidlSessionStarted(iface, mq, config)
  \/ HidlSessionEnded
  \/ \E status \in { "SUCCESS", "FAILURE" } : HidlControlStatus(status)
  \/ \E k \in hidlWalk.todo : HidlDropped(k) \/ HidlSessionChanged(k) \/ HidlControlReads(k)
  \/ HidlControlWrites
  \/ \E p \in HidlPorts :
        \/ HidlSetUp(p) \/ HidlRegister(p) \/ HidlLearnsCookie(p)
        \/ HidlTearDown(p) \/ HidlForgetsCookie(p)
        \/ HidlRequest(p, "start", "STANDBY", "STARTING")
        \/ HidlRequest(p, "suspend", "STARTED", "SUSPENDING")
        \/ HidlWaitEnds(p) \/ HidlStop(p)
        \/ \E state \in { "DISABLED", "STANDBY" } : HidlSetState(p, state)

HidlSpec == HidlInit /\ [][HidlNext]_hidlVars

-----------------------------------------------------------------------------
(* Properties.                                                             *)

\* GetAudioConfig of version 2.1
HidlAudioConfig ==
  IF ~HidlSessionReady THEN InvalidSoftware
  ELSE IF Has_2_1 THEN legacy.config_2_1 ELSE legacy.config_2_0

\* A port reads the configuration of the start its session was announced with, although the two
\* versions keep it in different objects and an end resets only one of them: no refused start and
\* no earlier session shows through.
HidlConfigOfSession ==
  HidlSessionReady =>
    HidlAudioConfig = IF Has_2_1 THEN hidlTold.config ELSE [ hidlTold.config EXCEPT !.interval = 0 ]

\* A port plays only over a session: once every observer has heard the end of the session, none that
\* is registered is STARTED, although Start and Suspend set state_ without the lock of the callbacks
\* and answers go to every port.  Two histories are excepted, as in the AIDL library: a session whose
\* queue a restart lost, of which the end is told to nobody; and an answer reported over no session
\* (late, or never asked for), which ReportControlStatus does not refuse and a port that is STARTING
\* takes for its own.
LegacyStartedOnlyInSession ==
  HidlMutexFree /\ ~HidlSessionReady /\ ~hidlTold.queueLost /\ ~hidlTold.late =>
    \A k \in HidlObservers :
      hidlPort[hidlTable[k]].cookie = k => hidlPort[hidlTable[k]].state # "STARTED"

HidlSubscribers == { hidlTable[k] : k \in HidlObservers }

HidlToTell ==
  IF hidlWalk.cb = "session_changed" THEN { hidlTable[k] : k \in hidlWalk.todo } ELSE {}

HidlContract == INSTANCE SessionContract
                  WITH Clients     <- HidlPorts,
                       ready       <- HidlSessionReady,
                       subscribers <- HidlSubscribers,
                       toTell      <- HidlToTell

\* The HIDL session keeps the promise of the AIDL one: its steps are those of the same contract
\* (OnSessionStarted, OnSessionEnded, ReportSessionStatus, RegisterStatusCback).
HidlImplementsContract == HidlContract!Spec
===============================================================================
