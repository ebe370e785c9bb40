--------------------- MODULE BluetoothAudioSessionProofs ---------------------
(***************************************************************************)
(* The invariants of a session, proved for every type of session and any   *)
(* number of hosts, outputs and cookies, and the contract it implements.   *)
(***************************************************************************)
EXTENDS BluetoothAudioSession, TLAPS

\* The inductive invariant: the properties of the runs need each other.
SessionInv ==
  /\ SessionTypeOK
  /\ CookiesMatch
  /\ WalkVisitsRegistered
  /\ ReadyOnlyIfAnnounced
  /\ ConfigFitsSession
  /\ OffloadSessionWhole

-----------------------------------------------------------------------------
\* The types of a session do not overlap, and every type accepts some tag only.

LEMMA TypesApart ==
  /\ SessionType \in SoftwareTypes <=> SessionType \notin OffloadTypes
  /\ AcceptedTags \subseteq ConfigTags
  /\ SessionType \in OffloadTypes => MqDescriptors = {"null"}
  /\ SessionType \in LeUnicastOffloadTypes =>
       SessionType \in OffloadTypes /\ AcceptedTags = {"leAudioConfig"}
<1>1. SessionType \in SoftwareTypes <=> SessionType \notin OffloadTypes
  BY SessionAssumption
  DEF SoftwareTypes, OffloadTypes, A2dpOffloadTypes, LeUnicastOffloadTypes,
      LeBroadcastOffloadType, HfpOffloadType
<1>2. AcceptedTags \subseteq ConfigTags
  BY SessionAssumption
  DEF AcceptedTags, TagsOf, ConfigTags, SoftwareTypes, OffloadTypes, A2dpOffloadTypes,
      LeUnicastOffloadTypes, LeBroadcastOffloadType, HfpOffloadType
<1>3. SessionType \in OffloadTypes => MqDescriptors = {"null"}
  BY DEF MqDescriptors
<1>4. ASSUME SessionType \in LeUnicastOffloadTypes
      PROVE  SessionType \in OffloadTypes /\ AcceptedTags = {"leAudioConfig"}
  <2>1. SessionType \in OffloadTypes
    BY <1>4 DEF OffloadTypes
  <2>2. SessionType \notin SoftwareTypes /\ SessionType \notin A2dpOffloadTypes
    BY <1>4 DEF LeUnicastOffloadTypes, SoftwareTypes, A2dpOffloadTypes
  <2>3. SessionType # LeBroadcastOffloadType /\ SessionType # HfpOffloadType
    BY <1>4 DEF LeUnicastOffloadTypes, LeBroadcastOffloadType, HfpOffloadType
  <2> QED BY <1>4, <2>1, <2>2, <2>3 DEF AcceptedTags, TagsOf
<1> QED BY <1>1, <1>2, <1>3, <1>4

\* A walk that Broadcast starts visits the registered observers and no others.
LEMMA BroadcastWalks ==
  ASSUME NEW cb \in Callbacks \ {"none"}, NEW start_resp \in BOOLEAN, NEW status \in Statuses,
         SessionTypeOK, Broadcast(cb, start_resp, status)
  PROVE  /\ report' \in [ cb : Callbacks, start_resp : BOOLEAN,
                          status : Statuses, todo : SUBSET Cookies ]
         /\ report'.todo = Registered
         /\ WalkOver' <=> report'.todo = {}
<1>1. Registered \subseteq Cookies
  BY DEF Registered
<1>2. CASE Registered = {}
  BY <1>2 DEF Broadcast, NoReport, WalkOver, Callbacks, Statuses
<1>3. CASE Registered # {}
  BY <1>1, <1>3 DEF Broadcast, WalkOver
<1> QED BY <1>2, <1>3

\* Walking on keeps the shape of the walk.
LEMMA CalledWalksOn ==
  ASSUME NEW k \in report.todo, SessionTypeOK, WalkVisitsRegistered, Called(k)
  PROVE  /\ report' \in [ cb : Callbacks, start_resp : BOOLEAN,
                          status : Statuses, todo : SUBSET Cookies ]
         /\ report'.todo = report.todo \ {k}
         /\ WalkOver' <=> report'.todo = {}
<1>1. CASE report.todo = {k}
  BY <1>1 DEF Called, NoReport, WalkOver, Callbacks, Statuses
<1>2. CASE report.todo # {k}
  BY <1>2 DEF Called, WalkOver, SessionTypeOK, WalkVisitsRegistered
<1> QED BY <1>1, <1>2

-----------------------------------------------------------------------------
\* Initially nothing is started and nobody is registered.
LEMMA SessionInitInv == SessionInit => SessionInv
<1> SUFFICES ASSUME SessionInit PROVE SessionInv
  OBVIOUS
<1>1. SessionTypeOK
  BY DEF SessionInit, SessionTypeOK, NoReport, Callbacks, Statuses
<1>2. CookiesMatch /\ WalkVisitsRegistered
  BY DEF SessionInit, CookiesMatch, WalkVisitsRegistered, NoReport, WalkOver, Registered
<1>3. ReadyOnlyIfAnnounced /\ ConfigFitsSession /\ OffloadSessionWhole
  BY DEF SessionInit, ReadyOnlyIfAnnounced, ConfigFitsSession, OffloadSessionWhole,
         IsSessionReady
<1> QED BY <1>1, <1>2, <1>3 DEF SessionInv

-----------------------------------------------------------------------------
\* Each method keeps the invariant.

\* Everything the invariant says of the table and the walk is kept by a method that
\* leaves the table and may start a walk with one of the broadcasts.
LEMMA TableKept ==
  ASSUME SessionInv, WalkOver, UNCHANGED table_state,
         \/ UNCHANGED report
         \/ \E cb \in Callbacks \ {"none"}, start_resp \in BOOLEAN, status \in Statuses :
              Broadcast(cb, start_resp, status)
  PROVE  /\ CookiesMatch' /\ WalkVisitsRegistered'
         /\ report' \in [ cb : Callbacks, start_resp : BOOLEAN,
                          status : Statuses, todo : SUBSET Cookies ]
<1>1. CookiesMatch' /\ Registered' = Registered
  BY DEF SessionInv, CookiesMatch, Registered, table_state
<1>2. CASE UNCHANGED report
  BY <1>1, <1>2 DEF SessionInv, SessionTypeOK, WalkVisitsRegistered, WalkOver
<1>3. ASSUME NEW cb \in Callbacks \ {"none"}, NEW start_resp \in BOOLEAN,
             NEW status \in Statuses, Broadcast(cb, start_resp, status)
      PROVE  /\ WalkVisitsRegistered'
             /\ report' \in [ cb : Callbacks, start_resp : BOOLEAN,
                              status : Statuses, todo : SUBSET Cookies ]
  BY <1>1, <1>3, BroadcastWalks DEF SessionInv, WalkVisitsRegistered
<1> QED BY <1>1, <1>2, <1>3

\* OnSessionStarted: only a walk that says so makes the session ready.
LEMMA OnSessionStartedInv ==
  ASSUME SessionInv, NEW iface \in Hosts \cup {NoHost}, NEW mq \in MqDescriptors,
         NEW tag \in ConfigTags \cup {NoConfig}, NEW modes \in SUBSET LatencyModes,
         OnSessionStarted(iface, mq, tag, modes)
  PROVE  SessionInv'
<1> USE DEF session_state, latency_state, table_state, ReportSessionStatus
<1>1. WalkOver /\ UNCHANGED << low_latency_allowed, observers, granted, calling >>
  BY DEF OnSessionStarted, MutexFree
<1>2. CASE UNCHANGED << stack_iface, data_mq, audio_config, latency_modes, report, announced >>
  BY <1>1, <1>2
  DEF SessionInv, SessionTypeOK, CookiesMatch, WalkVisitsRegistered, ReadyOnlyIfAnnounced,
      ConfigFitsSession, OffloadSessionWhole, IsSessionReady, WalkOver, Registered
<1>3. CASE /\ mq = "invalid"
           /\ audio_config' = NoConfig /\ data_mq' = FALSE
           /\ UNCHANGED << stack_iface, latency_modes, report, announced >>
  <2>1. CookiesMatch' /\ WalkVisitsRegistered'
    BY <1>1, <1>3, TableKept
  <2>2. SessionTypeOK'
    BY <1>1, <1>3 DEF SessionInv, SessionTypeOK
  <2>3. ReadyOnlyIfAnnounced' /\ ConfigFitsSession'
    BY <1>3 DEF ReadyOnlyIfAnnounced, ConfigFitsSession, IsSessionReady
  <2>4. OffloadSessionWhole'
    BY <1>3, TypesApart DEF OffloadSessionWhole
  <2> QED BY <2>1, <2>2, <2>3, <2>4 DEF SessionInv
<1>4. CASE /\ iface # NoHost /\ tag \in AcceptedTags /\ mq # "invalid"
           /\ audio_config' = tag /\ data_mq' = (mq = "valid")
           /\ stack_iface' = iface /\ latency_modes' = modes
           /\ ReportSessionStatus
  <2>1. /\ CookiesMatch' /\ WalkVisitsRegistered'
        /\ report' \in [ cb : Callbacks, start_resp : BOOLEAN,
                         status : Statuses, todo : SUBSET Cookies ]
    BY <1>1, <1>4, TableKept DEF Callbacks, Statuses
  <2>2. SessionTypeOK'
    <3>1. announced' \in BOOLEAN
      BY <1>4 DEF IsSessionReady
    <3> QED BY <1>1, <1>4, <2>1, <3>1, TypesApart DEF SessionInv, SessionTypeOK
  <2>3. ReadyOnlyIfAnnounced'
    BY <1>4 DEF ReadyOnlyIfAnnounced, IsSessionReady
  <2>4. ConfigFitsSession'
    BY <1>4, TypesApart DEF ConfigFitsSession, AcceptedTags
  <2>5. OffloadSessionWhole'
    BY <1>4, SessionAssumption, TypesApart DEF OffloadSessionWhole
  <2> QED BY <2>1, <2>2, <2>3, <2>4, <2>5 DEF SessionInv
<1> QED
  BY <1>1, <1>2, <1>3, <1>4 DEF OnSessionStarted

\* OnSessionEnded: the session is not ready afterwards.
LEMMA OnSessionEndedInv == SessionInv /\ OnSessionEnded => SessionInv'
<1> SUFFICES ASSUME SessionInv, OnSessionEnded PROVE SessionInv'
  OBVIOUS
<1> USE DEF latency_state, table_state, ReportSessionStatus
<1>1. /\ WalkOver /\ audio_config' = NoConfig /\ stack_iface' = NoHost /\ data_mq' = FALSE
      /\ UNCHANGED << latency_modes, low_latency_allowed, observers, granted, calling >>
      /\ (announced' = IsSessionReady' /\ Broadcast("session_changed", FALSE, "SUCCESS"))
         \/ UNCHANGED << report, announced >>
  BY DEF OnSessionEnded, MutexFree
<1>2. /\ CookiesMatch' /\ WalkVisitsRegistered'
      /\ report' \in [ cb : Callbacks, start_resp : BOOLEAN,
                       status : Statuses, todo : SUBSET Cookies ]
  BY <1>1, TableKept DEF Callbacks, Statuses
<1>3. ~IsSessionReady'
  BY <1>1 DEF IsSessionReady
<1>4. SessionTypeOK'
  <2>1. announced' \in BOOLEAN
    BY <1>1, <1>3 DEF SessionInv, SessionTypeOK, IsSessionReady
  <2> QED BY <1>1, <1>2, <2>1 DEF SessionInv, SessionTypeOK
<1>5. ReadyOnlyIfAnnounced' /\ ConfigFitsSession' /\ OffloadSessionWhole'
  BY <1>1, <1>3 DEF ReadyOnlyIfAnnounced, ConfigFitsSession, OffloadSessionWhole
<1> QED BY <1>2, <1>4, <1>5 DEF SessionInv

\* ReportAudioConfigChanged: an LE offload session with an interface had a configuration
\* before, so it is as ready as it was.
LEMMA ReportAudioConfigChangedInv ==
  ASSUME SessionInv, NEW tag \in ConfigTags \cup {NoConfig}, ReportAudioConfigChanged(tag)
  PROVE  SessionInv'
<1> USE DEF latency_state, table_state
<1>1. /\ WalkOver
      /\ UNCHANGED << stack_iface, data_mq, latency_modes, low_latency_allowed,
                      observers, granted, calling, announced >>
      /\ \/ UNCHANGED << audio_config, report >>
         \/ /\ SessionType \in LeUnicastOffloadTypes
            /\ audio_config' = "leAudioConfig"
            /\ Broadcast("audio_configuration_changed", FALSE, "SUCCESS")
  BY DEF ReportAudioConfigChanged, MutexFree
<1>2. /\ CookiesMatch' /\ WalkVisitsRegistered'
      /\ report' \in [ cb : Callbacks, start_resp : BOOLEAN,
                       status : Statuses, todo : SUBSET Cookies ]
  BY <1>1, TableKept DEF Callbacks, Statuses
<1>3. SessionTypeOK'
  BY <1>1, <1>2 DEF SessionInv, SessionTypeOK, ConfigTags
<1>4. ConfigFitsSession' /\ OffloadSessionWhole'
  BY <1>1, TypesApart, SessionAssumption
  DEF SessionInv, ConfigFitsSession, OffloadSessionWhole, ConfigTags
<1>5. ReadyOnlyIfAnnounced'
  BY <1>1, TypesApart
  DEF SessionInv, ReadyOnlyIfAnnounced, OffloadSessionWhole, IsSessionReady
<1> QED BY <1>2, <1>3, <1>4, <1>5 DEF SessionInv

\* The two reports that leave the session itself alone, and the calls into the stack.
LEMMA ReportInv ==
  ASSUME SessionInv,
         \/ ControlCall
         \/ \E allowed \in BOOLEAN : ReportLowLatencyModeAllowedChanged(allowed)
         \/ \E start_resp \in BOOLEAN, status \in Statuses :
              ReportControlStatus(start_resp, status)
  PROVE  SessionInv'
<1> USE DEF session_state, latency_state, table_state
<1>1. /\ WalkOver /\ calling' \in BOOLEAN
      /\ UNCHANGED << stack_iface, data_mq, audio_config, observers, granted, announced >>
      /\ latency_modes' \in SUBSET (LatencyModes \cup {"LOW_LATENCY"})
      /\ low_latency_allowed' \in BOOLEAN
  BY DEF ReportLowLatencyModeAllowedChanged, ReportControlStatus, ControlCall, EntersStack,
         LeavesStack, AnswersInside, MutexFree, SessionInv, SessionTypeOK
<1>2. \/ UNCHANGED report
      \/ \E cb \in Callbacks \ {"none"}, start_resp \in BOOLEAN, status \in Statuses :
           Broadcast(cb, start_resp, status)
  BY DEF ReportLowLatencyModeAllowedChanged, ReportControlStatus, ControlCall, EntersStack,
         LeavesStack, AnswersInside, Callbacks, Statuses
<1>3. /\ CookiesMatch' /\ WalkVisitsRegistered'
      /\ report' \in [ cb : Callbacks, start_resp : BOOLEAN,
                       status : Statuses, todo : SUBSET Cookies ]
  BY <1>1, <1>2, TableKept
<1>4. SessionTypeOK'
  BY <1>1, <1>3 DEF SessionInv, SessionTypeOK
<1>5. ReadyOnlyIfAnnounced' /\ ConfigFitsSession' /\ OffloadSessionWhole'
  BY <1>1
  DEF SessionInv, ReadyOnlyIfAnnounced, ConfigFitsSession, OffloadSessionWhole, IsSessionReady
<1> QED BY <1>3, <1>4, <1>5 DEF SessionInv

\* What a registration, a removal and a callback leave alone.
LEMMA SessionKept ==
  ASSUME SessionInv, UNCHANGED << session_state, announced >>
  PROVE  ReadyOnlyIfAnnounced' /\ ConfigFitsSession' /\ OffloadSessionWhole'
BY DEF session_state, SessionInv, ReadyOnlyIfAnnounced, ConfigFitsSession,
       OffloadSessionWhole, IsSessionReady

\* RegisterStatusCback: the cookie was free, and the output had none.
LEMMA RegisterInv ==
  ASSUME SessionInv, NEW c \in Clients, granted[c] = NoCookie, RegisterStatusCback(c)
  PROVE  SessionInv'
<1> USE DEF session_state, latency_state
<1>1. /\ WalkOver
      /\ UNCHANGED << stack_iface, data_mq, audio_config, latency_modes,
                      low_latency_allowed, report, calling, announced >>
  BY DEF RegisterStatusCback, MutexFree
<1>2. ReadyOnlyIfAnnounced' /\ ConfigFitsSession' /\ OffloadSessionWhole'
  BY <1>1, SessionKept
<1>3. SessionTypeOK /\ CookiesMatch /\ WalkVisitsRegistered
  BY DEF SessionInv
<1>4. CASE granted' = [ granted EXCEPT ![c] = NoCookie ] /\ UNCHANGED observers
  <2>1. granted' = granted
    BY <1>3, <1>4 DEF SessionTypeOK
  <2> QED BY <1>1, <1>2, <1>3, <1>4, <2>1
          DEF SessionInv, SessionTypeOK, CookiesMatch, WalkVisitsRegistered, WalkOver, Registered
<1>5. ASSUME NEW k \in Cookies \ Registered,
             observers' = [ observers EXCEPT ![k] = c ],
             granted' = [ granted EXCEPT ![c] = k ]
      PROVE  SessionInv'
  <2>1. observers[k] = NoClient
    BY <1>5 DEF Registered
  <2>2. SessionTypeOK'
    BY <1>1, <1>3, <1>5 DEF SessionTypeOK
  <2>3. CookiesMatch'
    <3>1. ASSUME NEW d \in Clients, granted'[d] # NoCookie
          PROVE  observers'[granted'[d]] = d
      BY <1>3, <1>5, <2>1, <3>1, SessionAssumption DEF SessionTypeOK, CookiesMatch
    <3>2. ASSUME NEW j \in Cookies, observers'[j] # NoClient
          PROVE  granted'[observers'[j]] = j
      BY <1>3, <1>5, <2>1, <3>2, SessionAssumption DEF SessionTypeOK, CookiesMatch
    <3> QED BY <3>1, <3>2 DEF CookiesMatch
  <2>4. WalkVisitsRegistered'
    BY <1>1, <1>3 DEF WalkVisitsRegistered, WalkOver
  <2> QED BY <1>2, <2>2, <2>3, <2>4 DEF SessionInv
<1>6. \/ granted' = [ granted EXCEPT ![c] = NoCookie ] /\ UNCHANGED observers
      \/ \E k \in Cookies \ Registered :
           observers' = [ observers EXCEPT ![k] = c ] /\ granted' = [ granted EXCEPT ![c] = k ]
  BY DEF RegisterStatusCback
<1> QED BY <1>4, <1>5, <1>6

\* UnregisterStatusCback: the entry removed was that of the output.
LEMMA UnregisterInv ==
  ASSUME SessionInv, NEW c \in Clients, granted[c] # NoCookie, UnregisterStatusCback(c)
  PROVE  SessionInv'
<1> USE DEF session_state, latency_state
<1>1. /\ WalkOver
      /\ UNCHANGED << stack_iface, data_mq, audio_config, latency_modes,
                      low_latency_allowed, report, calling, announced >>
      /\ observers' = [ observers EXCEPT ![granted[c]] = NoClient ]
      /\ granted' = [ granted EXCEPT ![c] = NoCookie ]
  BY DEF UnregisterStatusCback, MutexFree
<1>2. ReadyOnlyIfAnnounced' /\ ConfigFitsSession' /\ OffloadSessionWhole'
  BY <1>1, SessionKept
<1>3. SessionTypeOK /\ CookiesMatch /\ WalkVisitsRegistered
  BY DEF SessionInv
<1>4. granted[c] \in Cookies
  BY <1>3 DEF SessionTypeOK
<1>5. SessionTypeOK'
  BY <1>1, <1>3, <1>4 DEF SessionTypeOK
<1>6. CookiesMatch'
  <2>1. ASSUME NEW d \in Clients, granted'[d] # NoCookie
        PROVE  observers'[granted'[d]] = d
    <3>1. d # c /\ granted'[d] = granted[d] /\ granted[d] \in Cookies
      BY <1>1, <1>3, <2>1 DEF SessionTypeOK
    <3>2. granted[d] # granted[c]
      BY <1>3, <2>1, <3>1 DEF CookiesMatch
    <3> QED BY <1>1, <1>3, <1>4, <2>1, <3>1, <3>2 DEF SessionTypeOK, CookiesMatch
  <2>2. ASSUME NEW j \in Cookies, observers'[j] # NoClient
        PROVE  granted'[observers'[j]] = j
    <3>1. j # granted[c] /\ observers'[j] = observers[j] /\ observers[j] \in Clients
      BY <1>1, <1>3, <2>2 DEF SessionTypeOK
    <3>2. granted[observers[j]] = j
      BY <1>3, <2>2, <3>1 DEF CookiesMatch
    <3> QED BY <1>1, <1>3, <3>1, <3>2 DEF SessionTypeOK
  <2> QED BY <2>1, <2>2 DEF CookiesMatch
<1>7. WalkVisitsRegistered'
  BY <1>1, <1>3 DEF WalkVisitsRegistered, WalkOver
<1> QED BY <1>2, <1>5, <1>6, <1>7 DEF SessionInv

\* Deliver: the walk goes on to those left.
LEMMA DeliverInv ==
  ASSUME SessionInv, NEW k \in report.todo, DeliverTo(k)
  PROVE  SessionInv'
<1> USE DEF session_state, latency_state, table_state
<1>1. /\ Called(k)
      /\ UNCHANGED << stack_iface, data_mq, audio_config, latency_modes,
                      low_latency_allowed, observers, granted, calling, announced >>
  BY DEF DeliverTo
<1>2. ReadyOnlyIfAnnounced' /\ ConfigFitsSession' /\ OffloadSessionWhole'
  BY <1>1, SessionKept
<1>3. /\ report' \in [ cb : Callbacks, start_resp : BOOLEAN,
                       status : Statuses, todo : SUBSET Cookies ]
      /\ report'.todo = report.todo \ {k}
      /\ WalkOver' <=> report'.todo = {}
  BY <1>1, CalledWalksOn DEF SessionInv
<1>4. SessionTypeOK'
  BY <1>1, <1>3 DEF SessionInv, SessionTypeOK
<1>5. CookiesMatch' /\ WalkVisitsRegistered'
  BY <1>1, <1>3 DEF SessionInv, CookiesMatch, WalkVisitsRegistered, Registered
<1> QED BY <1>2, <1>4, <1>5 DEF SessionInv

\* Every step of a session keeps the invariant.
LEMMA SessionNextInv == SessionInv /\ [SessionNext]_sessionVars => SessionInv'
<1> SUFFICES ASSUME SessionInv, [SessionNext]_sessionVars PROVE SessionInv'
  OBVIOUS
<1>1. CASE UNCHANGED sessionVars
  BY <1>1
  DEF SessionInv, sessionVars, session_state, latency_state, table_state,
      SessionTypeOK, CookiesMatch, WalkVisitsRegistered, ReadyOnlyIfAnnounced,
      ConfigFitsSession, OffloadSessionWhole, IsSessionReady, WalkOver, Registered
<1>2. CASE StackCall
  BY <1>2, OnSessionStartedInv, OnSessionEndedInv, ReportAudioConfigChangedInv, ReportInv
  DEF StackCall
<1>3. CASE ClientCall
  BY <1>3, RegisterInv, UnregisterInv DEF ClientCall
<1>4. CASE Deliver
  BY <1>4, DeliverInv DEF Deliver
<1>5. CASE ControlCall
  BY <1>5, ReportInv
<1> QED BY <1>1, <1>2, <1>3, <1>4, <1>5 DEF SessionNext

\* The invariant of every reachable state of a session.
THEOREM SessionInvariant == SessionSpec => []SessionInv
BY SessionInitInv, SessionNextInv, PTL DEF SessionSpec

\* The variables of a session keep their types.
THEOREM SessionTypeCorrect == SessionSpec => []SessionTypeOK
<1>1. SessionInv => SessionTypeOK
  BY DEF SessionInv
<1> QED BY <1>1, SessionInvariant, PTL

\* RegisterStatusCback and UnregisterStatusCback never let two outputs share a cookie,
\* nor leave an entry without an owner.
THEOREM SessionCookiesMatch == SessionSpec => []CookiesMatch
<1>1. SessionInv => CookiesMatch
  BY DEF SessionInv
<1> QED BY <1>1, SessionInvariant, PTL

\* No walk calls an output that is not registered.
THEOREM SessionWalksRegistered == SessionSpec => []WalkVisitsRegistered
<1>1. SessionInv => WalkVisitsRegistered
  BY DEF SessionInv
<1> QED BY <1>1, SessionInvariant, PTL

\* A session is ready only if its outputs were told, and holds what fits its type.
THEOREM SessionReadyIsAnnounced ==
  SessionSpec => [](ReadyOnlyIfAnnounced /\ ConfigFitsSession /\ OffloadSessionWhole)
<1>1. SessionInv => ReadyOnlyIfAnnounced /\ ConfigFitsSession /\ OffloadSessionWhole
  BY DEF SessionInv
<1> QED BY <1>1, SessionInvariant, PTL

-----------------------------------------------------------------------------
\* The session implements its contract: every step is one the contract names, or one
\* that its outputs cannot see.

\* With no walk under way nobody waits to be told.
LEMMA NobodyWaits == WalkOver => ClientsToTell = {}
BY DEF WalkOver, ClientsToTell

\* A session_changed walk has every subscriber left to tell.
LEMMA AllToTell ==
  ASSUME UNCHANGED observers, Broadcast("session_changed", FALSE, "SUCCESS")
  PROVE  ClientsToTell' = SubscribedClients /\ SubscribedClients' = SubscribedClients
BY DEF Broadcast, NoReport, ClientsToTell, SubscribedClients, Registered

\* A report the contract does not speak of leaves nobody to tell.
LEMMA NobodyToTell ==
  ASSUME NEW cb \in Callbacks \ {"session_changed"}, NEW start_resp, NEW status,
         UNCHANGED observers, WalkOver, Broadcast(cb, start_resp, status)
  PROVE  UNCHANGED << SubscribedClients, ClientsToTell >>
BY DEF Broadcast, NoReport, ClientsToTell, SubscribedClients, Registered, WalkOver

LEMMA OnSessionStartedContract ==
  ASSUME SessionInv, NEW iface \in Hosts \cup {NoHost}, NEW mq \in MqDescriptors,
         NEW tag, NEW modes, OnSessionStarted(iface, mq, tag, modes)
  PROVE  [Contract!Next]_(Contract!contractVars)
<1> USE DEF session_state, table_state
<1>1. WalkOver /\ UNCHANGED observers
  BY DEF OnSessionStarted, MutexFree
<1>2. CASE UNCHANGED << stack_iface, data_mq, audio_config, report >>
  BY <1>1, <1>2
  DEF Contract!contractVars, IsSessionReady, SubscribedClients, ClientsToTell, Registered
<1>3. CASE audio_config' = NoConfig /\ UNCHANGED report
  <2>1. ~IsSessionReady' /\ UNCHANGED << SubscribedClients, ClientsToTell >>
    BY <1>1, <1>3 DEF IsSessionReady, SubscribedClients, ClientsToTell, Registered
  <2>2. CASE IsSessionReady
    BY <1>1, <2>1, <2>2, NobodyWaits DEF Contract!Next, Contract!LoseQueue
  <2>3. CASE ~IsSessionReady
    BY <2>1, <2>3 DEF Contract!contractVars, IsSessionReady
  <2> QED BY <2>2, <2>3
<1>4. CASE ReportSessionStatus
  <2>1. ClientsToTell = {} /\ ClientsToTell' = SubscribedClients /\ UNCHANGED SubscribedClients
    BY <1>1, <1>4, NobodyWaits, AllToTell DEF ReportSessionStatus
  <2>2. IsSessionReady' \in BOOLEAN
    BY DEF IsSessionReady
  <2>3. Contract!Announce(IsSessionReady')
    BY <2>1 DEF Contract!Announce
  <2> QED BY <2>2, <2>3 DEF Contract!Next
<1> QED BY <1>2, <1>3, <1>4 DEF OnSessionStarted

LEMMA OnSessionEndedContract ==
  ASSUME SessionInv, OnSessionEnded
  PROVE  [Contract!Next]_(Contract!contractVars)
<1>1. WalkOver /\ UNCHANGED observers /\ ~IsSessionReady'
  BY DEF OnSessionEnded, MutexFree, IsSessionReady, table_state
<1>2. CASE IsSessionReady
  <2>1. ClientsToTell = {} /\ ClientsToTell' = SubscribedClients /\ UNCHANGED SubscribedClients
    BY <1>1, <1>2, NobodyWaits, AllToTell DEF OnSessionEnded, ReportSessionStatus
  <2>2. Contract!Announce(IsSessionReady') /\ IsSessionReady' \in BOOLEAN
    BY <2>1 DEF Contract!Announce, IsSessionReady
  <2> QED BY <2>2 DEF Contract!Next
<1>3. CASE ~IsSessionReady
  <2>1. UNCHANGED report
    BY <1>3 DEF OnSessionEnded
  <2> QED BY <1>1, <1>3, <2>1
    DEF Contract!contractVars, IsSessionReady, SubscribedClients, ClientsToTell, Registered
<1> QED BY <1>2, <1>3

LEMMA ReportsContract ==
  ASSUME SessionInv,
         \/ ControlCall
         \/ \E tag \in ConfigTags \cup {NoConfig} : ReportAudioConfigChanged(tag)
         \/ \E allowed \in BOOLEAN : ReportLowLatencyModeAllowedChanged(allowed)
         \/ \E start_resp \in BOOLEAN, status \in Statuses :
              ReportControlStatus(start_resp, status)
  PROVE  UNCHANGED Contract!contractVars
<1> USE DEF session_state, table_state
<1>1. WalkOver /\ UNCHANGED << stack_iface, data_mq, observers >>
  BY DEF ReportAudioConfigChanged, ReportLowLatencyModeAllowedChanged, ReportControlStatus,
      ControlCall, EntersStack, LeavesStack, AnswersInside, MutexFree
<1>2. UNCHANGED << SubscribedClients, ClientsToTell >>
  <2>1. \/ UNCHANGED report
        \/ Broadcast("audio_configuration_changed", FALSE, "SUCCESS")
        \/ Broadcast("low_latency_mode_allowed", FALSE, "SUCCESS")
        \/ \E start_resp \in BOOLEAN, status \in Statuses :
             Broadcast("control_result", start_resp, status)
    BY DEF ReportAudioConfigChanged, ReportLowLatencyModeAllowedChanged, ReportControlStatus,
      ControlCall, EntersStack, LeavesStack, AnswersInside, MutexFree
  <2>2. CASE UNCHANGED report
    BY <1>1, <2>2 DEF SubscribedClients, ClientsToTell, Registered
  <2>3. ASSUME NEW cb \in Callbacks \ {"session_changed"}, NEW start_resp, NEW status,
               Broadcast(cb, start_resp, status)
        PROVE  UNCHANGED << SubscribedClients, ClientsToTell >>
    BY <1>1, <2>3, NobodyToTell
  <2> QED BY <2>1, <2>2, <2>3 DEF Callbacks
<1>3. \/ UNCHANGED audio_config
      \/ SessionType \in LeUnicastOffloadTypes /\ audio_config' = "leAudioConfig"
  BY DEF ReportAudioConfigChanged, ReportLowLatencyModeAllowedChanged, ReportControlStatus,
      ControlCall, EntersStack, LeavesStack, AnswersInside, MutexFree
<1>4. IsSessionReady' = IsSessionReady
  <2>1. CASE UNCHANGED audio_config
    BY <1>1, <2>1 DEF IsSessionReady
  <2>2. CASE SessionType \in LeUnicastOffloadTypes /\ audio_config' = "leAudioConfig"
    BY <1>1, <2>2, TypesApart, SessionAssumption
    DEF IsSessionReady, SessionInv, OffloadSessionWhole, ConfigTags
  <2> QED BY <1>3, <2>1, <2>2
<1> QED BY <1>2, <1>4 DEF Contract!contractVars

LEMMA ClientContract ==
  ASSUME SessionInv, ClientCall
  PROVE  [Contract!Next]_(Contract!contractVars)
<1> USE DEF session_state
<1>1. WalkOver /\ UNCHANGED << stack_iface, data_mq, audio_config, report >>
  BY DEF MutexFree, ClientCall, RegisterStatusCback, UnregisterStatusCback
<1>2. IsSessionReady' = IsSessionReady /\ ClientsToTell = {} /\ ClientsToTell' = {}
  BY <1>1, NobodyWaits DEF IsSessionReady, ClientsToTell, WalkOver
<1>3. SessionTypeOK /\ CookiesMatch
  BY DEF SessionInv
<1>4. ASSUME NEW c \in Clients, granted[c] = NoCookie, RegisterStatusCback(c)
      PROVE  [Contract!Next]_(Contract!contractVars)
  <2>1. CASE UNCHANGED observers
    BY <1>2, <2>1 DEF Contract!contractVars, SubscribedClients, Registered
  <2>2. ASSUME NEW k \in Cookies \ Registered, observers' = [ observers EXCEPT ![k] = c ]
        PROVE  Contract!Subscribe(c)
    <3>1. c \notin SubscribedClients
      BY <1>3, <1>4, SessionAssumption
      DEF SubscribedClients, Registered, CookiesMatch, SessionTypeOK
    <3>2. Registered' = Registered \cup {k}
      BY <1>3, <2>2, SessionAssumption DEF Registered, SessionTypeOK
    <3>3. SubscribedClients' = SubscribedClients \cup {c}
      BY <1>3, <2>2, <3>2 DEF SubscribedClients, Registered, SessionTypeOK
    <3> QED BY <1>2, <3>1, <3>3 DEF Contract!Subscribe
  <2>3. \/ UNCHANGED observers
        \/ \E k \in Cookies \ Registered : observers' = [ observers EXCEPT ![k] = c ]
    BY <1>4 DEF RegisterStatusCback
  <2> QED BY <2>1, <2>2, <2>3 DEF Contract!Next
<1>5. ASSUME NEW c \in Clients, granted[c] # NoCookie, UnregisterStatusCback(c)
      PROVE  Contract!Unsubscribe(c)
  <2>1. granted[c] \in Cookies /\ observers[granted[c]] = c
    BY <1>3, <1>5 DEF SessionTypeOK, CookiesMatch
  <2>2. observers' = [ observers EXCEPT ![granted[c]] = NoClient ]
    BY <1>5 DEF UnregisterStatusCback
  <2>3. Registered' = Registered \ {granted[c]}
    BY <1>3, <2>1, <2>2 DEF Registered, SessionTypeOK
  <2>4. \A k \in Registered \ {granted[c]} : observers[k] # c
    BY <1>3 DEF CookiesMatch, Registered
  <2>5. SubscribedClients' = SubscribedClients \ {c}
    BY <1>3, <2>1, <2>2, <2>3, <2>4 DEF SubscribedClients, Registered, SessionTypeOK
  <2> QED BY <1>2, <2>5 DEF Contract!Unsubscribe
<1> QED BY <1>4, <1>5 DEF ClientCall, Contract!Next

LEMMA DeliverContract ==
  ASSUME SessionInv, NEW k \in report.todo, DeliverTo(k)
  PROVE  [Contract!Next]_(Contract!contractVars)
<1> USE DEF session_state, table_state
<1>1. UNCHANGED << stack_iface, data_mq, audio_config, observers >> /\ Called(k)
  BY DEF DeliverTo
<1>2. IsSessionReady' = IsSessionReady /\ SubscribedClients' = SubscribedClients
  BY <1>1 DEF IsSessionReady, SubscribedClients, Registered
<1>3. /\ report.todo \subseteq Registered
      /\ \A j \in Registered : observers[j] \in Clients /\ granted[observers[j]] = j
  BY DEF SessionInv, WalkVisitsRegistered, CookiesMatch, SessionTypeOK, Registered
<1>4. CASE report.cb # "session_changed"
  <2>1. report'.cb # "session_changed"
    BY <1>1, <1>4 DEF Called, NoReport, SessionInv, SessionTypeOK
  <2> QED BY <1>2, <1>4, <2>1 DEF Contract!contractVars, ClientsToTell
<1>5. CASE report.cb = "session_changed"
  <2>1. ClientsToTell = { observers[j] : j \in report.todo }
    BY <1>5 DEF ClientsToTell
  <2>2. ClientsToTell' = { observers[j] : j \in report.todo \ {k} }
    <3>1. CASE report.todo = {k}
      BY <1>1, <3>1 DEF Called, NoReport, ClientsToTell
    <3>2. CASE report.todo # {k}
      BY <1>1, <1>5, <3>2 DEF Called, ClientsToTell, SessionInv, SessionTypeOK
    <3> QED BY <3>1, <3>2
  <2>3. ClientsToTell' = ClientsToTell \ {observers[k]}
    BY <1>3, <2>1, <2>2
  <2>4. observers[k] \in Clients /\ Contract!Tell(observers[k])
    BY <1>2, <1>3, <2>1, <2>3 DEF Contract!Tell
  <2> QED BY <2>4 DEF Contract!Next
<1> QED BY <1>4, <1>5

\* A session does what SessionContract promises to its outputs, whatever the stack and the
\* outputs do (OnSessionStarted, OnSessionEnded, the reports, the registrations).
THEOREM SessionImplementsContract == SessionSpec => ImplementsContract
<1>1. SessionInit => Contract!Init
  BY DEF SessionInit, Contract!Init, IsSessionReady, SubscribedClients, ClientsToTell,
         Registered, NoReport
<1>2. SessionInv /\ [SessionNext]_sessionVars => [Contract!Next]_(Contract!contractVars)
  <2> SUFFICES ASSUME SessionInv, [SessionNext]_sessionVars
               PROVE  [Contract!Next]_(Contract!contractVars)
    OBVIOUS
  <2>1. CASE UNCHANGED sessionVars
    BY <2>1
    DEF sessionVars, session_state, table_state, Contract!contractVars, IsSessionReady,
        SubscribedClients, ClientsToTell, Registered
  <2>2. CASE StackCall
    BY <2>2, OnSessionStartedContract, OnSessionEndedContract, ReportsContract DEF StackCall
  <2>3. CASE ClientCall
    BY <2>3, ClientContract
  <2>4. CASE Deliver
    BY <2>4, DeliverContract DEF Deliver
  <2>5. CASE ControlCall
    BY <2>5, ReportsContract
  <2> QED BY <2>1, <2>2, <2>3, <2>4, <2>5 DEF SessionNext
<1> QED BY <1>1, <1>2, SessionInvariant, PTL DEF SessionSpec, ImplementsContract, Contract!Spec

===============================================================================
