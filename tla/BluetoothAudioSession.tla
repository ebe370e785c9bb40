------------------------ MODULE BluetoothAudioSession ------------------------
(***************************************************************************)
(* One BluetoothAudioSession object of the AIDL session library: what the  *)
(* Bluetooth stack has started (the control interface, the data queue and  *)
(* the audio configuration), the table of outputs that registered          *)
(* PortStatusCallbacks, and the broadcasts that walk that table.           *)
(*                                                                         *)
(* Every method takes the recursive mutex of the object.  A method that    *)
(* calls nobody back is one step.  A method that walks the observers calls *)
(* them one by one with the mutex held: `report` is that walk.  A method   *)
(* that calls the stack waits for it with the mutex held: `calling` is     *)
(* that wait, and within it the stack may answer, which is a walk of the   *)
(* same thread.  The mutex is free when there is neither.                  *)
(***************************************************************************)
EXTENDS Naturals, FiniteSets, SessionTypes

CONSTANTS
  SessionType,          \* the type this object serves
  Hosts,                \* IBluetoothAudioPort proxies the stack may hand over
  Clients,              \* outputs that may register callbacks
  LatencyModes,         \* the latency modes the stack may list
  ObserversCookieSize,  \* kObserversCookieSize, 16 in the code
  NoHost, NoClient, NoConfig, NoCookie   \* nullptr, no entry, nullptr, kObserversCookieUndefined

\* UpdateAudioConfig: the tags this session accepts.
AcceptedTags == TagsOf(SessionType)

\* The data queue descriptors a provider passes: an offload session has none.
MqDescriptors == IF SessionType \in OffloadTypes THEN { "null" } ELSE { "valid", "invalid" }

Statuses == { "SUCCESS", "FAILURE", "RECONFIGURATION" }
Cookies  == 0 .. ObserversCookieSize - 1

ASSUME SessionAssumption ==
  /\ SessionType \in SoftwareTypes \cup OffloadTypes
  /\ ObserversCookieSize \in Nat
  /\ NoHost \notin Hosts
  /\ NoClient \notin Clients
  /\ NoConfig \notin ConfigTags
  /\ NoCookie \notin Cookies

VARIABLES
  stack_iface,          \* stack_iface_
  data_mq,              \* TRUE when data_mq_ is a valid queue
  audio_config,         \* the tag of *audio_config_, or NoConfig
  latency_modes,        \* latency_modes_ as a set
  low_latency_allowed,  \* low_latency_allowed_
  observers,            \* observers_: cookie -> the output that registered
  granted,              \* the cookie RegisterStatusCback last returned to the output
  report,               \* the walk over the observers under way
  calling,              \* an output's thread is inside a call of stack_iface_
  announced             \* history: the readiness the last ReportSessionStatus told

session_state == << stack_iface, data_mq, audio_config >>
latency_state == << latency_modes, low_latency_allowed >>
table_state   == << observers, granted >>
sessionVars   == << session_state, latency_state, table_state, report, calling, announced >>

-----------------------------------------------------------------------------
NoReport == [ cb |-> "none", start_resp |-> FALSE, status |-> "SUCCESS", todo |-> {} ]

\* The recursive mutex of the session is free: no walk is under way and nobody waits for the stack.
WalkOver  == report.cb = "none"
MutexFree == WalkOver /\ ~calling

IsSessionReady ==
  /\ stack_iface # NoHost
  /\ SessionType \in OffloadTypes \/ data_mq
  /\ audio_config # NoConfig

Registered == { k \in Cookies : observers[k] # NoClient }

\* Start walking the observers; with none registered the method returns at once.
Broadcast(cb, start_resp, status) ==
  report' = IF Registered = {} THEN NoReport
            ELSE [ cb |-> cb, start_resp |-> start_resp, status |-> status, todo |-> Registered ]

\* Mutant of Called: the walk is left after the first observer.
Called_StopsEarly(k) == k \in report.todo /\ report' = NoReport

\* The observer with cookie k has been called; the walk ends with the last one.
Called(k) ==
  /\ k \in report.todo
  /\ report' = IF report.todo = {k} THEN NoReport ELSE [ report EXCEPT !.todo = @ \ {k} ]

ReportSessionStatus ==
  /\ announced' = IsSessionReady'
  /\ Broadcast("session_changed", FALSE, "SUCCESS")

-----------------------------------------------------------------------------
\* Init and the methods of the object.

SessionInit ==
  /\ stack_iface = NoHost
  /\ data_mq = FALSE
  /\ audio_config = NoConfig
  /\ latency_modes = {}
  /\ low_latency_allowed = TRUE
  /\ observers = [ k \in Cookies |-> NoClient ]
  /\ granted = [ c \in Clients |-> NoCookie ]
  /\ report = NoReport
  /\ calling = FALSE
  /\ announced = FALSE

\* Mutant of OnSessionStarted: the new session is not reported to the outputs.
OnSessionStarted_Silent(iface, mq, tag, modes) ==
  /\ MutexFree
  /\ iface # NoHost /\ tag \in AcceptedTags /\ mq # "invalid"
  /\ audio_config' = tag
  /\ data_mq' = (mq = "valid")
  /\ stack_iface' = iface
  /\ latency_modes' = modes
  /\ UNCHANGED << low_latency_allowed, table_state, report, calling, announced >>

\* The stack starts a session.  A null interface or a configuration of the wrong
\* kind leaves everything as it was; a queue that cannot be mapped clears the
\* queue and the configuration but neither the interface nor the outputs hear of it.
OnSessionStarted(iface, mq, tag, modes) ==
  /\ MutexFree
  /\ \/ /\ iface = NoHost \/ tag \notin AcceptedTags
        /\ UNCHANGED << session_state, latency_modes, report, announced >>
     \/ /\ iface # NoHost /\ tag \in AcceptedTags /\ mq = "invalid"
        /\ audio_config' = NoConfig
        /\ data_mq' = FALSE
        /\ UNCHANGED << stack_iface, latency_modes, report, announced >>
     \/ /\ iface # NoHost /\ tag \in AcceptedTags /\ mq # "invalid"
        /\ audio_config' = tag
        /\ data_mq' = (mq = "valid")
        /\ stack_iface' = iface
        /\ latency_modes' = modes
        /\ ReportSessionStatus
  /\ UNCHANGED << low_latency_allowed, table_state, calling >>

\* Mutant of OnSessionEnded: the control interface is kept.
OnSessionEnded_KeepsIface ==
  /\ MutexFree
  /\ audio_config' = NoConfig
  /\ data_mq' = FALSE
  /\ UNCHANGED << stack_iface, latency_state, table_state, calling >>
  /\ IF IsSessionReady THEN ReportSessionStatus ELSE UNCHANGED << report, announced >>

\* The stack ended the session (or died): the outputs are told only if the session was ready.
OnSessionEnded ==
  /\ MutexFree
  /\ audio_config' = NoConfig
  /\ stack_iface' = NoHost
  /\ data_mq' = FALSE
  /\ IF IsSessionReady THEN ReportSessionStatus ELSE UNCHANGED << report, announced >>
  /\ UNCHANGED << latency_state, table_state, calling >>

\* The stack changed the configuration: only unicast LE offload sessions take it.
ReportAudioConfigChanged(tag) ==
  /\ MutexFree
  /\ IF SessionType \in LeUnicastOffloadTypes /\ tag = "leAudioConfig"
     THEN /\ audio_config' = tag
          /\ Broadcast("audio_configuration_changed", FALSE, "SUCCESS")
     ELSE UNCHANGED << audio_config, report >>
  /\ UNCHANGED << stack_iface, data_mq, latency_state, table_state, calling, announced >>

\* The stack allows or forbids low latency: only A2DP offload encoding takes it.
ReportLowLatencyModeAllowedChanged(allowed) ==
  /\ MutexFree
  /\ IF SessionType = "A2DP_HARDWARE_OFFLOAD_ENCODING_DATAPATH"
     THEN /\ low_latency_allowed' = allowed
          /\ latency_modes' = latency_modes \cup (IF allowed THEN {"LOW_LATENCY"} ELSE {})
          /\ Broadcast("low_latency_mode_allowed", FALSE, "SUCCESS")
     ELSE UNCHANGED << latency_state, report >>
  /\ UNCHANGED << session_state, table_state, calling, announced >>

\* The stack answers a control request: the answer goes to every output.
ReportControlStatus(start_resp, status) ==
  /\ MutexFree
  /\ Broadcast("control_result", start_resp, status)
  /\ UNCHANGED << session_state, latency_state, table_state, calling, announced >>

\* An output asks something of the stack: StartStream, SuspendStream and StopStream, and likewise
\* GetPresentationPosition, UpdateSourceMetadata, UpdateSinkMetadata and SetLatencyMode, call
\* stack_iface_ with the mutex held and wait for it as long as it takes.
EntersStack ==
  /\ MutexFree /\ IsSessionReady
  /\ calling' = TRUE
  /\ UNCHANGED << session_state, latency_state, table_state, report, announced >>

\* ReportControlStatus on the thread that is inside the stack: the mutex is recursive.
AnswersInside(start_resp, status) ==
  /\ calling /\ WalkOver
  /\ Broadcast("control_result", start_resp, status)
  /\ UNCHANGED << session_state, latency_state, table_state, calling, announced >>

\* The stack returns, or the binder driver does for a process that died.
LeavesStack ==
  /\ calling /\ WalkOver
  /\ calling' = FALSE
  /\ UNCHANGED << session_state, latency_state, table_state, report, announced >>

\* Mutant of RegisterStatusCback: taken entries are not skipped.
RegisterStatusCback_FirstCookie(c) ==
  /\ MutexFree
  /\ observers' = [ observers EXCEPT ![0] = c ]
  /\ granted' = [ granted EXCEPT ![c] = 0 ]
  /\ UNCHANGED << session_state, latency_state, report, calling, announced >>

\* An output registers its callbacks under the lowest free cookie, if there is one.
RegisterStatusCback(c) ==
  /\ MutexFree
  /\ LET free == Cookies \ Registered IN
       IF free = {}
       THEN /\ granted' = [ granted EXCEPT ![c] = NoCookie ]
            /\ UNCHANGED observers
       ELSE \E k \in free :
              /\ \A j \in free : k <= j
              /\ observers' = [ observers EXCEPT ![k] = c ]
              /\ granted' = [ granted EXCEPT ![c] = k ]
  /\ UNCHANGED << session_state, latency_state, report, calling, announced >>

\* Mutant of UnregisterStatusCback: the mutex is not taken.
UnregisterStatusCback_NoLock(c) ==
  /\ observers' = [ observers EXCEPT ![granted[c]] = NoClient ]
  /\ granted' = [ granted EXCEPT ![c] = NoCookie ]
  /\ UNCHANGED << session_state, latency_state, report, calling, announced >>

\* An output gives its cookie back.
UnregisterStatusCback(c) ==
  /\ MutexFree
  /\ observers' = [ observers EXCEPT ![granted[c]] = NoClient ]
  /\ granted' = [ granted EXCEPT ![c] = NoCookie ]
  /\ UNCHANGED << session_state, latency_state, report, calling, announced >>

\* The walk calls the observers in any order (observers_ is a hash map).
DeliverTo(k) ==
  /\ Called(k)
  /\ UNCHANGED << session_state, latency_state, table_state, calling, announced >>

Deliver == \E k \in report.todo : DeliverTo(k)

-----------------------------------------------------------------------------
\* The object used by any stack and any outputs.

StackCall ==
  \/ \E iface \in Hosts \cup {NoHost}, mq \in MqDescriptors,
        tag \in ConfigTags, modes \in SUBSET LatencyModes :
        OnSessionStarted(iface, mq, tag, modes)
  \/ OnSessionEnded
  \/ \E tag \in ConfigTags : ReportAudioConfigChanged(tag)
  \/ \E allowed \in BOOLEAN : ReportLowLatencyModeAllowedChanged(allowed)
  \/ \E start_resp \in BOOLEAN, status \in Statuses : ReportControlStatus(start_resp, status)

ClientCall ==
  \E c \in Clients :
    \/ granted[c] = NoCookie /\ RegisterStatusCback(c)
    \/ granted[c] # NoCookie /\ UnregisterStatusCback(c)

ControlCall ==
  \/ EntersStack \/ LeavesStack
  \/ \E start_resp \in BOOLEAN, status \in Statuses : AnswersInside(start_resp, status)

SessionNext == StackCall \/ ClientCall \/ ControlCall \/ Deliver
SessionSpec == SessionInit /\ [][SessionNext]_sessionVars

-----------------------------------------------------------------------------
Callbacks == { "none", "session_changed", "control_result",
               "audio_configuration_changed", "low_latency_mode_allowed" }

\* The values the variables of a session range over.
SessionTypeOK ==
  /\ stack_iface \in Hosts \cup {NoHost}
  /\ data_mq \in BOOLEAN
  /\ audio_config \in ConfigTags \cup {NoConfig}
  /\ latency_modes \in SUBSET (LatencyModes \cup {"LOW_LATENCY"})
  /\ low_latency_allowed \in BOOLEAN
  /\ observers \in [ Cookies -> Clients \cup {NoClient} ]
  /\ granted \in [ Clients -> Cookies \cup {NoCookie} ]
  /\ report \in [ cb : Callbacks, start_resp : BOOLEAN, status : Statuses, todo : SUBSET Cookies ]
  /\ calling \in BOOLEAN
  /\ announced \in BOOLEAN

\* The table and the outputs agree on who holds which cookie, through any order of
\* registrations and removals (RegisterStatusCback, UnregisterStatusCback): no two
\* outputs share a cookie and no entry outlives its owner.
CookiesMatch ==
  /\ \A c \in Clients : granted[c] # NoCookie => observers[granted[c]] = c
  /\ \A k \in Cookies : observers[k] # NoClient => granted[observers[k]] = k

\* A walk only ever has registered outputs left to call, and it is under way exactly
\* while some are left: an output removed from the table is never called afterwards
\* (the callbacks hold a raw pointer to the output).
WalkVisitsRegistered ==
  /\ report.todo \subseteq Registered
  /\ WalkOver <=> report.todo = {}

\* The session never becomes usable behind the back of the outputs: whenever it is
\* ready, the last session_changed walk said so (OnSessionStarted, ReportAudioConfigChanged).
ReadyOnlyIfAnnounced == IsSessionReady => announced

\* What the session holds has the kind its type calls for, whichever of the two
\* methods (OnSessionStarted, ReportAudioConfigChanged) stored it.
ConfigFitsSession ==
  /\ audio_config # NoConfig => audio_config \in AcceptedTags
  /\ SessionType \in OffloadTypes => ~data_mq

\* A hardware offload session is never half there: where there is a control interface
\* there is a configuration (OnSessionStarted, OnSessionEnded), so a change of the
\* configuration, which may come at any time, cannot make a session ready.
OffloadSessionWhole ==
  SessionType \in OffloadTypes /\ stack_iface # NoHost => audio_config # NoConfig

\* BluetoothAudioSession.h says OnSessionEnded invokes session_changed_cb_ to notify the
\* registered outputs: an end of a session the outputs were told of starts a walk.
EndIsReported ==
  [][ OnSessionEnded /\ announced /\ Registered # {} => report'.cb = "session_changed" ]_sessionVars

-----------------------------------------------------------------------------
\* The contract of the session with its outputs, seen through this refinement mapping.

SubscribedClients == { observers[k] : k \in Registered }
ClientsToTell ==
  IF report.cb = "session_changed" THEN { observers[k] : k \in report.todo } ELSE {}

Contract == INSTANCE SessionContract
              WITH ready       <- IsSessionReady,
                   subscribers <- SubscribedClients,
                   toTell      <- ClientsToTell

\* The session implements its contract: every step of it is a step the contract allows
\* or one its outputs cannot see (OnSessionStarted, OnSessionEnded, ReportSessionStatus,
\* RegisterStatusCback, UnregisterStatusCback).
ImplementsContract == Contract!Spec

=============================================================================
