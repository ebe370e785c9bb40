-------------------------- MODULE HidlSessionProofs --------------------------
(***************************************************************************)
(* The HIDL session for any number of ports and cookies: the configuration *)
(* its ports read is the one of the start they were told, none plays on    *)
(* when its session has ended, and the ports are told what they must be.   *)
(***************************************************************************)
EXTENDS HidlSession, TLAPS

HidlStates == { "DISABLED", "STANDBY", "STARTING", "STARTED", "SUSPENDING" }
HidlPlaces ==
  { "idle", "registering", "registered", "unregistered", "start", "suspend", "STARTING", "SUSPENDING", "waiting",
    "stopping" }
AnyHidlConfig ==
  [ tag : { "pcmConfig", "codecConfig" }, name : { "a", "b", "c", "invalid" }, interval : Nat ]

AnyTold == [ config : AnyHidlConfig, queueLost : BOOLEAN, late : BOOLEAN ]

HidlTypeOK ==
  /\ legacy \in [ type : HidlTypes, iface : BOOLEAN, mq : { "null", "valid" },
                  config_2_0 : AnyHidlConfig, config_2_1 : AnyHidlConfig ]
  /\ hidlTable \in [ HidlCookies -> HidlPorts \cup { NoHidlPort } ]
  /\ hidlWalk \in [ cb : { "none", "session_changed", "control_result" }, status : { "SUCCESS", "FAILURE" },
                    todo : SUBSET HidlCookies ]
  /\ hidlPort \in [ HidlPorts -> [ cookie : HidlCookies \cup { CookieUndefined }, state : HidlStates,
                                   at : HidlPlaces ] ]
  /\ hidlHandler \in [ cookie : HidlCookies \cup { CookieUndefined }, previous : HidlStates ]
  /\ hidlTold \in AnyTold

\* A walk has somebody to call; none is under way when the mutex is free.
HidlWalkHasTodo ==
  /\ hidlWalk.todo \subseteq HidlObservers
  /\ hidlWalk # NoWalk => hidlWalk.cb # "none"

\* A port in the middle of ControlResultHandler is one the walk has still to call, and it is not one
\* that is being registered.
HandlerIsCalled ==
  hidlHandler # NoHidlHandler =>
    /\ hidlWalk.cb = "control_result"
    /\ hidlHandler.cookie \in hidlWalk.todo
    /\ hidlPort[hidlTable[hidlHandler.cookie]].at \notin { "registering", "registered" }

\* An answer walks over a ready session, or over none and then the history says so.
AnswersOverSession ==
  hidlWalk.cb = "control_result" => HidlSessionReady \/ hidlTold.queueLost \/ hidlTold.late

\* A port that is being registered waits in standby and has no cookie.
NewPortsStandBy ==
  \A p \in HidlPorts :
    hidlPort[p].at \in { "registering", "registered" } =>
      hidlPort[p].state = "STANDBY" /\ hidlPort[p].cookie = CookieUndefined

\* Without a session only a port whose turn in the walk is yet to come is STARTED.
StartedIsToldYet ==
  ~HidlSessionReady /\ ~hidlTold.queueLost /\ ~hidlTold.late =>
    \A k \in HidlObservers \ hidlWalk.todo :
      hidlPort[hidlTable[k]].cookie = k => hidlPort[hidlTable[k]].state # "STARTED"

HidlInv ==
  /\ HidlTypeOK
  /\ HidlWalkHasTodo
  /\ HandlerIsCalled
  /\ AnswersOverSession
  /\ NewPortsStandBy
  /\ StartedIsToldYet
  /\ HidlConfigOfSession

-----------------------------------------------------------------------------
\* Whether the session is ready, and which type it is of, depends on the session alone.
LEMMA SameSession ==
  ASSUME UNCHANGED legacy
  PROVE  /\ HidlSessionReady' <=> HidlSessionReady
         /\ HidlAudioConfig' = HidlAudioConfig
         /\ Has_2_1' <=> Has_2_1
BY DEF HidlSessionReady, HidlAudioConfig, Has_2_1, Is_2_0, A2dpOffload_2_0

LEMMA SameType ==
  ASSUME legacy'.type = legacy.type
  PROVE  /\ A2dpOffload_2_0' <=> A2dpOffload_2_0
         /\ Has_2_1' <=> Has_2_1
BY DEF Has_2_1, Is_2_0, A2dpOffload_2_0

LEMMA CookieFacts ==
  /\ CookieUndefined \notin HidlCookies
  /\ NoHidlPort \notin HidlPorts
  /\ HidlObservers \subseteq HidlCookies
  /\ HidlTypeOK => \A k \in HidlObservers : hidlTable[k] \in HidlPorts
BY HidlAssumption DEF CookieUndefined, HidlCookies, NoHidlPort, HidlObservers, HidlTypeOK

\* A broadcast calls every observer.
LEMMA BroadcastCallsAll ==
  ASSUME NEW cb \in { "session_changed", "control_result" }, NEW status \in { "SUCCESS", "FAILURE" },
         HidlBroadcast(cb, status), UNCHANGED hidlTable
  PROVE  /\ hidlWalk' \in [ cb : { "none", "session_changed", "control_result" }, status : { "SUCCESS", "FAILURE" },
                            todo : SUBSET HidlCookies ]
         /\ HidlObservers' = HidlObservers
         /\ hidlWalk'.todo = HidlObservers
         /\ hidlWalk' # NoWalk => hidlWalk'.cb # "none"
         /\ hidlWalk'.cb \in { "none", cb }
<1>1. HidlObservers' = HidlObservers
  BY DEF HidlObservers
<1>2. CASE HidlObservers = {}
  BY <1>1, <1>2 DEF HidlBroadcast, NoWalk
<1>3. CASE HidlObservers # {}
  BY <1>1, <1>3, CookieFacts DEF HidlBroadcast, NoWalk
<1> QED BY <1>2, <1>3

\* The configuration that is announced is the one the ports read.
LEMMA WhatIsToldIsRead ==
  ASSUME HidlInv, NEW config \in AnyHidlConfig, NEW q \in { "null", "valid" },
         legacy' = [ Kept(config) EXCEPT !.iface = TRUE, !.mq = q ],
         hidlTold' = [ config |-> config, queueLost |-> FALSE, late |-> FALSE ]
  PROVE  /\ HidlConfigOfSession'
         /\ legacy' \in [ type : HidlTypes, iface : BOOLEAN, mq : { "null", "valid" },
                          config_2_0 : AnyHidlConfig, config_2_1 : AnyHidlConfig ]
<1>1. legacy \in [ type : HidlTypes, iface : BOOLEAN, mq : { "null", "valid" },
                   config_2_0 : AnyHidlConfig, config_2_1 : AnyHidlConfig ]
  BY DEF HidlInv, HidlTypeOK
<1>2. hidlTold'.config = config
  OBVIOUS
<1>3. [ config EXCEPT !.interval = 0 ] \in AnyHidlConfig
  BY DEF AnyHidlConfig
<1>4. CASE Has_2_1
  <2>1. legacy' = [ legacy EXCEPT !.config_2_1 = config, !.iface = TRUE, !.mq = q ]
    BY <1>4 DEF Kept
  <2>2. legacy'.config_2_1 = config /\ legacy'.type = legacy.type
    BY <1>1, <2>1
  <2>3. Has_2_1'
    BY <1>4, <2>2, SameType
  <2> QED BY <1>1, <1>2, <2>1, <2>2, <2>3 DEF HidlConfigOfSession, HidlAudioConfig
<1>5. CASE ~Has_2_1
  <2>1. legacy' = [ legacy EXCEPT !.config_2_0 = [ config EXCEPT !.interval = 0 ], !.iface = TRUE, !.mq = q ]
    BY <1>5 DEF Kept
  <2>2. legacy'.config_2_0 = [ config EXCEPT !.interval = 0 ] /\ legacy'.type = legacy.type
    BY <1>1, <2>1
  <2>3. ~Has_2_1'
    BY <1>5, <2>2, SameType
  <2> QED BY <1>1, <1>2, <1>3, <2>1, <2>2, <2>3 DEF HidlConfigOfSession, HidlAudioConfig
<1> QED BY <1>4, <1>5

LEMMA ConfigsAreTyped ==
  HidlConfigs \subseteq AnyHidlConfig /\ InvalidConfig \in AnyHidlConfig
<1>1. \A tag \in { "pcmConfig", "codecConfig" }, name \in { "a", "b", "c", "invalid" }, interval \in Nat :
        HidlConfig(tag, name, interval) \in AnyHidlConfig
  BY DEF HidlConfig, AnyHidlConfig
<1>2. 0 \in Nat /\ 7500 \in Nat /\ 10000 \in Nat
  OBVIOUS
<1>3. HidlConfigs \subseteq AnyHidlConfig
  BY <1>1, <1>2 DEF HidlConfigs
<1>4. InvalidConfig \in AnyHidlConfig
  BY <1>1, <1>2 DEF InvalidConfig, InvalidSoftware, InvalidOffload
<1> QED BY <1>3, <1>4

\* A callback that is under way is part of a walk.
LEMMA NoWalkNoHandler ==
  HidlInv /\ HidlMutexFree => hidlHandler = NoHidlHandler
BY DEF HidlInv, HandlerIsCalled, HidlMutexFree, NoWalk

-----------------------------------------------------------------------------
\* What the stack does.

LEMMA StartedInv ==
  ASSUME HidlInv, NEW iface \in BOOLEAN, NEW mq \in HidlDescriptors, NEW config \in HidlConfigs,
         HidlSessionStarted(iface, mq, config)
  PROVE  HidlInv'
<1>0. hidlHandler = NoHidlHandler /\ UNCHANGED hidlHandler
  BY NoWalkNoHandler DEF HidlSessionStarted
<1>1. CASE UNCHANGED << legacy, hidlWalk, hidlTold >>
  BY <1>0, <1>1, SameSession
  DEF HidlSessionStarted, HidlInv, HidlTypeOK, HidlWalkHasTodo, HandlerIsCalled, HidlObservers, AnswersOverSession, NewPortsStandBy,
      StartedIsToldYet, HidlConfigOfSession
<1>2. CASE /\ mq = "invalid"
           /\ legacy' = [ Kept(InvalidConfig) EXCEPT !.mq = "null" ]
           /\ hidlTold' = [ hidlTold EXCEPT !.queueLost = TRUE ]
           /\ UNCHANGED hidlWalk
  <2>1. ~A2dpOffload_2_0 /\ UNCHANGED << hidlTable, hidlPort >>
    BY <1>2 DEF HidlDescriptors, HidlSessionStarted
  <2>2. /\ legacy' \in [ type : HidlTypes, iface : BOOLEAN, mq : { "null", "valid" },
                         config_2_0 : AnyHidlConfig, config_2_1 : AnyHidlConfig ]
        /\ legacy'.type = legacy.type /\ legacy'.mq = "null"
    <3>1. InvalidConfig \in AnyHidlConfig /\ [ InvalidConfig EXCEPT !.interval = 0 ] \in AnyHidlConfig
      BY ConfigsAreTyped DEF AnyHidlConfig
    <3> QED BY <1>2, <3>1 DEF HidlInv, HidlTypeOK, Kept
  <2>3. ~HidlSessionReady'
    BY <2>1, <2>2, SameType DEF HidlSessionReady
  <2>4. hidlTold'.queueLost /\ hidlTold' \in AnyTold
    BY <1>2 DEF HidlInv, HidlTypeOK, AnyTold
  <2>5. HidlTypeOK' /\ HidlWalkHasTodo' /\ NewPortsStandBy'
    BY <1>0, <1>2, <2>1, <2>2, <2>4 DEF HidlInv, HidlTypeOK, HidlWalkHasTodo, HidlObservers, NewPortsStandBy
  <2> QED BY <1>0, <2>3, <2>4, <2>5
          DEF HidlInv, HandlerIsCalled, AnswersOverSession, StartedIsToldYet, HidlConfigOfSession
<1>3. CASE /\ mq # "invalid"
           /\ legacy' = [ Kept(config) EXCEPT !.iface = TRUE, !.mq = mq ]
           /\ HidlReportSessionStatus(config)
  <2>1. UNCHANGED << hidlTable, hidlPort >> /\ mq \in { "null", "valid" } /\ config \in AnyHidlConfig
    BY <1>3, ConfigsAreTyped DEF HidlSessionStarted, HidlDescriptors
  <2>2. /\ HidlBroadcast("session_changed", "SUCCESS")
        /\ hidlTold' = [ config |-> config, queueLost |-> FALSE, late |-> FALSE ]
    BY <1>3 DEF HidlReportSessionStatus
  <2>3. /\ HidlConfigOfSession'
        /\ legacy' \in [ type : HidlTypes, iface : BOOLEAN, mq : { "null", "valid" },
                         config_2_0 : AnyHidlConfig, config_2_1 : AnyHidlConfig ]
    BY <1>3, <2>1, <2>2, WhatIsToldIsRead
  <2>4. HidlTypeOK' /\ HidlWalkHasTodo' /\ NewPortsStandBy'
    <3>1. hidlTold' \in AnyTold
      BY <2>1, <2>2 DEF AnyTold
    <3> QED BY <1>0, <2>1, <2>2, <2>3, <3>1, BroadcastCallsAll DEF HidlInv, HidlTypeOK, HidlWalkHasTodo, NewPortsStandBy
  <2>5. AnswersOverSession' /\ StartedIsToldYet'
    BY <1>3, <2>1, <2>2, BroadcastCallsAll DEF AnswersOverSession, StartedIsToldYet
  <2> QED BY <1>0, <2>3, <2>4, <2>5 DEF HidlInv, HandlerIsCalled
<1> QED BY <1>1, <1>2, <1>3 DEF HidlSessionStarted

LEMMA EndedInv ==
  ASSUME HidlInv, HidlSessionEnded
  PROVE  HidlInv'
<1>1. /\ legacy' = [ legacy EXCEPT !.config_2_0 = InvalidConfig, !.iface = FALSE, !.mq = "null" ]
      /\ UNCHANGED << hidlTable, hidlPort, hidlHandler >> /\ hidlWalk = NoWalk /\ hidlHandler = NoHidlHandler
  BY NoWalkNoHandler DEF HidlSessionEnded, HidlMutexFree
<1>2. legacy' \in [ type : HidlTypes, iface : BOOLEAN, mq : { "null", "valid" },
                    config_2_0 : AnyHidlConfig, config_2_1 : AnyHidlConfig ]
  BY <1>1, ConfigsAreTyped DEF HidlInv, HidlTypeOK
<1>3. ~HidlSessionReady'
  BY <1>1 DEF HidlSessionReady, HidlInv, HidlTypeOK
<1>4. HidlConfigOfSession' /\ NewPortsStandBy' /\ HandlerIsCalled'
  BY <1>1, <1>3 DEF HidlInv, HidlConfigOfSession, NewPortsStandBy, HandlerIsCalled
<1>5. CASE HidlSessionReady
  <2>1. /\ HidlBroadcast("session_changed", "SUCCESS")
        /\ hidlTold' = [ config |-> InvalidConfig, queueLost |-> FALSE, late |-> FALSE ]
    BY <1>5 DEF HidlSessionEnded, HidlReportSessionStatus
  <2>2. hidlTold' \in AnyTold
    BY <2>1, ConfigsAreTyped DEF AnyTold
  <2>3. HidlTypeOK' /\ HidlWalkHasTodo'
    BY <1>1, <1>2, <2>1, <2>2, BroadcastCallsAll DEF HidlInv, HidlTypeOK, HidlWalkHasTodo
  <2>4. AnswersOverSession' /\ StartedIsToldYet'
    BY <1>1, <2>1, BroadcastCallsAll DEF AnswersOverSession, StartedIsToldYet
  <2> QED BY <1>4, <2>3, <2>4 DEF HidlInv
<1>6. CASE ~HidlSessionReady
  <2>1. UNCHANGED << hidlWalk, hidlTold >>
    BY <1>6 DEF HidlSessionEnded
  <2>2. HidlTypeOK' /\ HidlWalkHasTodo'
    BY <1>1, <1>2, <2>1 DEF HidlInv, HidlTypeOK, HidlWalkHasTodo, HidlObservers
  <2>3. AnswersOverSession'
    BY <1>1, <2>1 DEF AnswersOverSession, NoWalk
  <2>4. StartedIsToldYet'
    BY <1>1, <1>6, <2>1 DEF HidlInv, StartedIsToldYet, HidlObservers
  <2> QED BY <1>4, <2>2, <2>3, <2>4 DEF HidlInv
<1> QED BY <1>5, <1>6

LEMMA ControlStatusInv ==
  ASSUME HidlInv, NEW status \in { "SUCCESS", "FAILURE" }, HidlControlStatus(status)
  PROVE  HidlInv'
<1>1. /\ UNCHANGED << legacy, hidlTable, hidlPort, hidlHandler >>
      /\ hidlWalk = NoWalk /\ hidlHandler = NoHidlHandler
      /\ HidlBroadcast("control_result", status)
      /\ hidlTold' = [ hidlTold EXCEPT !.late = @ \/ ~HidlSessionReady ]
  BY NoWalkNoHandler DEF HidlControlStatus, HidlMutexFree
<1>2. /\ hidlTold' \in AnyTold
      /\ hidlTold'.config = hidlTold.config /\ hidlTold'.queueLost = hidlTold.queueLost
      /\ hidlTold'.late <=> hidlTold.late \/ ~HidlSessionReady
  <2>1. HidlSessionReady \in BOOLEAN
    BY DEF HidlSessionReady, HidlInv, HidlTypeOK
  <2> QED BY <1>1, <2>1 DEF HidlInv, HidlTypeOK, AnyTold
<1>3. HidlTypeOK' /\ HidlWalkHasTodo' /\ NewPortsStandBy' /\ HandlerIsCalled'
  BY <1>1, <1>2, BroadcastCallsAll
  DEF HidlInv, HidlTypeOK, HidlWalkHasTodo, NewPortsStandBy, HandlerIsCalled
<1>4. AnswersOverSession' /\ StartedIsToldYet' /\ HidlConfigOfSession'
  BY <1>1, <1>2, BroadcastCallsAll, SameSession
  DEF HidlInv, AnswersOverSession, StartedIsToldYet, HidlConfigOfSession, NoWalk
<1> QED BY <1>3, <1>4 DEF HidlInv

\* What a callback that ends leaves of the walk.
LEMMA CalledLeaves ==
  ASSUME HidlInv, NEW k \in hidlWalk.todo, HidlCalled(k), UNCHANGED hidlTable
  PROVE  /\ hidlWalk' \in [ cb : { "none", "session_changed", "control_result" }, status : { "SUCCESS", "FAILURE" },
                            todo : SUBSET HidlCookies ]
         /\ hidlWalk'.todo = hidlWalk.todo \ {k}
         /\ hidlWalk' = NoWalk \/ hidlWalk'.cb = hidlWalk.cb
         /\ HidlObservers' = HidlObservers
         /\ HidlWalkHasTodo'
<1>1. HidlObservers' = HidlObservers
  BY DEF HidlObservers
<1>2. /\ hidlWalk' \in [ cb : { "none", "session_changed", "control_result" }, status : { "SUCCESS", "FAILURE" },
                         todo : SUBSET HidlCookies ]
      /\ hidlWalk'.todo = hidlWalk.todo \ {k}
      /\ hidlWalk' = NoWalk \/ hidlWalk'.cb = hidlWalk.cb
  BY DEF HidlCalled, HidlInv, HidlTypeOK, NoWalk
<1>3. hidlWalk.cb # "none" /\ hidlWalk.todo \subseteq HidlObservers
  BY DEF HidlInv, HidlWalkHasTodo, NoWalk
<1> QED BY <1>1, <1>2, <1>3 DEF HidlWalkHasTodo

\* A callback ends, having set the state of its port to `state`, or of none.  It may start the port
\* only when it answers, and then over a session or the history says that it was over none.
LEMMA CallbackInv ==
  ASSUME HidlInv, NEW k \in hidlWalk.todo, HidlCalled(k), NEW state \in HidlStates,
         UNCHANGED << legacy, hidlTable, hidlTold >>, hidlHandler' = NoHidlHandler,
         \/ hidlPort' = hidlPort
         \/ /\ hidlPort' = [ hidlPort EXCEPT ![hidlTable[k]].state = state ]
            /\ hidlPort[hidlTable[k]].at \notin { "registering", "registered" },
         \/ hidlWalk.cb = "control_result"
         \/ state = "DISABLED" /\ (hidlPort[hidlTable[k]].cookie = k => hidlPort' # hidlPort \/ hidlPort[hidlTable[k]].state = "DISABLED")
  PROVE  HidlInv'
<1> DEFINE p == hidlTable[k]
           record == [ cookie : HidlCookies \cup { CookieUndefined }, state : HidlStates, at : HidlPlaces ]
<1>1. /\ k \in HidlObservers /\ p \in HidlPorts /\ k \in HidlCookies
      /\ HidlObservers' = HidlObservers
  BY CookieFacts DEF HidlInv, HidlWalkHasTodo, HidlObservers
<1>2. /\ hidlWalk' \in [ cb : { "none", "session_changed", "control_result" }, status : { "SUCCESS", "FAILURE" },
                         todo : SUBSET HidlCookies ]
      /\ hidlWalk'.todo = hidlWalk.todo \ {k}
      /\ hidlWalk' = NoWalk \/ hidlWalk'.cb = hidlWalk.cb
      /\ HidlWalkHasTodo'
  BY CalledLeaves
<1>3. hidlPort \in [ HidlPorts -> record ]
  BY DEF HidlInv, HidlTypeOK
<1>4. hidlPort' \in [ HidlPorts -> record ]
  BY <1>1, <1>3
<1>5. \A r \in HidlPorts :
        /\ hidlPort'[r].cookie = hidlPort[r].cookie /\ hidlPort'[r].at = hidlPort[r].at
        /\ r # p => hidlPort'[r].state = hidlPort[r].state
        /\ hidlPort' # hidlPort => hidlPort'[p].state = state
  BY <1>1, <1>3
<1>6. HidlTypeOK'
  BY <1>2, <1>4 DEF HidlInv, HidlTypeOK, NoHidlHandler, HidlStates
<1>7. NewPortsStandBy' /\ HandlerIsCalled'
  <2>1. ASSUME NEW r \in HidlPorts, hidlPort[r].at \in { "registering", "registered" }
        PROVE  hidlPort'[r].state = "STANDBY" /\ hidlPort'[r].cookie = CookieUndefined
    <3>1. hidlPort[r].state = "STANDBY" /\ hidlPort[r].cookie = CookieUndefined
      BY <2>1 DEF HidlInv, NewPortsStandBy
    <3>2. CASE r = p
      BY <2>1, <3>1, <3>2
    <3>3. CASE r # p
      BY <1>5, <3>1, <3>3
    <3> QED BY <3>2, <3>3
  <2> QED BY <1>5, <2>1 DEF NewPortsStandBy, HandlerIsCalled
<1>8. AnswersOverSession' /\ HidlConfigOfSession'
  <2>1. hidlWalk'.cb = "control_result" => hidlWalk.cb = "control_result"
    BY <1>2 DEF NoWalk
  <2> QED BY <2>1, SameSession DEF HidlInv, AnswersOverSession, HidlConfigOfSession
<1>9. StartedIsToldYet'
  <2> SUFFICES ASSUME ~HidlSessionReady', ~hidlTold'.queueLost, ~hidlTold'.late,
                      NEW j \in HidlObservers' \ hidlWalk'.todo,
                      hidlPort'[hidlTable'[j]].cookie = j
               PROVE  hidlPort'[hidlTable'[j]].state # "STARTED"
    BY DEF StartedIsToldYet
  <2>1. /\ state = "DISABLED"
        /\ hidlPort[p].cookie = k => hidlPort' # hidlPort \/ hidlPort[p].state = "DISABLED"
    BY SameSession DEF HidlInv, AnswersOverSession
  <2>2. hidlTable[j] \in HidlPorts /\ hidlTable' = hidlTable /\ j \in HidlObservers
    BY <1>1, CookieFacts DEF HidlInv
  <2>3. hidlPort[hidlTable[j]].cookie = j
    BY <1>5, <2>2
  <2>4. CASE j = k
    <3>1. CASE hidlPort' = hidlPort
      BY <2>1, <2>2, <2>3, <2>4, <3>1
    <3>2. CASE hidlPort' # hidlPort
      BY <1>5, <2>1, <2>2, <2>4, <3>2
    <3> QED BY <3>1, <3>2
  <2>5. CASE j # k
    <3>1. j \in HidlObservers \ hidlWalk.todo
      BY <1>2, <2>2, <2>5
    <3>2. hidlPort[hidlTable[j]].state # "STARTED"
      BY <2>2, <2>3, <3>1, SameSession DEF HidlInv, StartedIsToldYet
    <3>3. CASE hidlPort' = hidlPort
      BY <2>2, <3>2, <3>3
    <3>4. CASE hidlPort' # hidlPort
      BY <1>5, <2>1, <2>2, <3>2, <3>4
    <3> QED BY <3>3, <3>4
  <2> QED BY <2>4, <2>5
<1> QED BY <1>2, <1>6, <1>7, <1>8, <1>9 DEF HidlInv

LEMMA ResultIsState ==
  ASSUME NEW state \in HidlStates, NEW status
  PROVE  HidlControlResult(state, status) \in HidlStates
BY DEF HidlControlResult, HidlStates

LEMMA DeliverInv ==
  ASSUME HidlInv, NEW k \in hidlWalk.todo, HidlDropped(k) \/ HidlSessionChanged(k) \/ HidlControlReads(k)
  PROVE  HidlInv'
<1> DEFINE p == hidlTable[k]
<1>1. /\ k \in HidlCookies /\ p \in HidlPorts /\ hidlPort[p].state \in HidlStates
      /\ hidlWalk.cb \in { "session_changed", "control_result" }
  <2>1. k \in HidlObservers /\ k \in HidlCookies /\ p \in HidlPorts
    BY CookieFacts DEF HidlInv, HidlWalkHasTodo
  <2>2. hidlWalk.cb \in { "session_changed", "control_result" }
    BY DEF HidlInv, HidlTypeOK, HidlWalkHasTodo, NoWalk
  <2> QED BY <2>1, <2>2 DEF HidlInv, HidlTypeOK
<1>2. hidlPort[p].cookie = k => hidlPort[p].at \notin { "registering", "registered" }
  BY <1>1, CookieFacts DEF HidlInv, NewPortsStandBy
<1>3. "DISABLED" \in HidlStates
  BY DEF HidlStates
<1>4. CASE HidlDropped(k)
  <2>1. /\ HidlCalled(k) /\ hidlPort' = hidlPort /\ hidlPort[p].cookie # k
        /\ hidlHandler' = NoHidlHandler /\ UNCHANGED << legacy, hidlTable, hidlTold >>
    BY <1>4 DEF HidlDropped
  <2> QED BY <1>3, <2>1, CallbackInv
<1>5. CASE HidlSessionChanged(k)
  <2>1. /\ HidlCalled(k) /\ hidlPort' = [ hidlPort EXCEPT ![p].state = "DISABLED" ]
        /\ hidlPort[p].cookie = k /\ hidlWalk.cb = "session_changed"
        /\ hidlHandler' = NoHidlHandler /\ UNCHANGED << legacy, hidlTable, hidlTold >>
    BY <1>5 DEF HidlSessionChanged, HidlKnows
  <2>2. hidlPort' = hidlPort => hidlPort[p].state = "DISABLED"
    BY <1>1, <2>1 DEF HidlInv, HidlTypeOK
  <2> QED BY <1>2, <1>3, <2>1, <2>2, CallbackInv
<1>6. CASE HidlControlReads(k)
  <2>1. /\ hidlPort[p].cookie = k /\ hidlHandler = NoHidlHandler /\ hidlWalk.cb = "control_result"
        /\ UNCHANGED << legacy, hidlTable, hidlPort, hidlTold >>
        /\ \/ HidlCalled(k) /\ hidlHandler' = NoHidlHandler
           \/ hidlHandler' = [ cookie |-> k, previous |-> hidlPort[p].state ] /\ hidlWalk' = hidlWalk
    BY <1>6 DEF HidlControlReads, HidlKnows
  <2>2. CASE HidlCalled(k) /\ hidlHandler' = NoHidlHandler
    BY <1>3, <2>1, <2>2, CallbackInv
  <2>3. CASE hidlHandler' = [ cookie |-> k, previous |-> hidlPort[p].state ] /\ hidlWalk' = hidlWalk
    <3>1. HidlTypeOK' /\ HidlObservers' = HidlObservers
      BY <1>1, <2>1, <2>3 DEF HidlInv, HidlTypeOK, HidlObservers
    <3>2. HandlerIsCalled'
      BY <1>2, <2>1, <2>3 DEF HandlerIsCalled
    <3> QED BY <2>1, <2>3, <3>1, <3>2, SameSession
            DEF HidlInv, HidlWalkHasTodo, AnswersOverSession, NewPortsStandBy, StartedIsToldYet, HidlConfigOfSession
  <2> QED BY <2>1, <2>2, <2>3
<1> QED BY <1>4, <1>5, <1>6

LEMMA ControlWritesInv ==
  ASSUME HidlInv, HidlControlWrites
  PROVE  HidlInv'
<1> DEFINE k == hidlHandler.cookie
           state == HidlControlResult(hidlHandler.previous, hidlWalk.status)
<1>1. /\ k \in hidlWalk.todo /\ hidlWalk.cb = "control_result"
      /\ hidlPort[hidlTable[k]].at \notin { "registering", "registered" }
  BY DEF HidlControlWrites, HidlInv, HandlerIsCalled
<1>2. state \in HidlStates
  BY ResultIsState DEF HidlInv, HidlTypeOK
<1>3. /\ HidlCalled(k) /\ hidlPort' = [ hidlPort EXCEPT ![hidlTable[k]].state = state ]
      /\ hidlHandler' = NoHidlHandler /\ UNCHANGED << legacy, hidlTable, hidlTold >>
  BY DEF HidlControlWrites
<1> HIDE DEF k, state
<1> QED BY <1>1, <1>2, <1>3, CallbackInv

-----------------------------------------------------------------------------
\* What a stream does with its port.

\* A step of a port alone, which does not make it STARTED.
LEMMA PortStepInv ==
  ASSUME HidlInv, NEW p \in HidlPorts,
         NEW r \in [ cookie : HidlCookies \cup { CookieUndefined }, state : HidlStates, at : HidlPlaces ],
         hidlPort' = [ hidlPort EXCEPT ![p] = r ],
         UNCHANGED << legacy, hidlTable, hidlWalk, hidlHandler, hidlTold >>,
         r.at \in { "registering", "registered" } =>
           r.state = "STANDBY" /\ r.cookie = CookieUndefined /\ HidlMutexFree,
         \/ r.state # "STARTED" \/ r.cookie = CookieUndefined
         \/ r.state = hidlPort[p].state /\ r.cookie = hidlPort[p].cookie
  PROVE  HidlInv'
<1>1. HidlTypeOK' /\ HidlObservers' = HidlObservers
  BY DEF HidlInv, HidlTypeOK, HidlObservers
<1>2. \A q \in HidlPorts : hidlPort'[q] = IF q = p THEN r ELSE hidlPort[q]
  BY DEF HidlInv, HidlTypeOK
<1>3. HidlWalkHasTodo' /\ AnswersOverSession' /\ HidlConfigOfSession'
  BY <1>1, SameSession DEF HidlInv, HidlWalkHasTodo, AnswersOverSession, HidlConfigOfSession
<1>4. NewPortsStandBy' /\ HandlerIsCalled'
  <2>1. HandlerIsCalled'
    <3> SUFFICES ASSUME hidlHandler # NoHidlHandler
                 PROVE  hidlPort'[hidlTable[hidlHandler.cookie]].at \notin { "registering", "registered" }
      BY DEF HidlInv, HandlerIsCalled
    <3>1. /\ ~HidlMutexFree
          /\ hidlTable[hidlHandler.cookie] \in HidlPorts
          /\ hidlPort[hidlTable[hidlHandler.cookie]].at \notin { "registering", "registered" }
      BY NoWalkNoHandler, CookieFacts DEF HidlInv, HandlerIsCalled, HidlWalkHasTodo
    <3> QED BY <1>2, <3>1
  <2> QED BY <1>2, <2>1 DEF HidlInv, NewPortsStandBy
<1>5. StartedIsToldYet'
  <2> SUFFICES ASSUME ~HidlSessionReady', ~hidlTold'.queueLost, ~hidlTold'.late,
                      NEW k \in HidlObservers' \ hidlWalk'.todo,
                      hidlPort'[hidlTable'[k]].cookie = k
               PROVE  hidlPort'[hidlTable'[k]].state # "STARTED"
    BY DEF StartedIsToldYet
  <2>1. k \in HidlObservers \ hidlWalk.todo /\ hidlTable[k] \in HidlPorts /\ k # CookieUndefined
    BY <1>1, CookieFacts DEF HidlInv
  <2>2. hidlPort[hidlTable[k]].cookie = k => hidlPort[hidlTable[k]].state # "STARTED"
    BY <2>1, SameSession DEF HidlInv, StartedIsToldYet
  <2> QED BY <1>2, <2>1, <2>2
<1> QED BY <1>1, <1>3, <1>4, <1>5 DEF HidlInv

\* The thread goes on elsewhere.
LEMMA MovesInv ==
  ASSUME HidlInv, NEW p \in HidlPorts, NEW at, NEW next \in HidlPlaces \ { "registering", "registered" },
         HidlMoves(p, at, next), UNCHANGED << legacy, hidlTable, hidlWalk, hidlHandler, hidlTold >>
  PROVE  HidlInv'
<1>1. PICK r : r = [ hidlPort[p] EXCEPT !.at = next ]
  OBVIOUS
<1>2. hidlPort[p] \in [ cookie : HidlCookies \cup { CookieUndefined }, state : HidlStates, at : HidlPlaces ]
  BY DEF HidlInv, HidlTypeOK
<1>3. /\ r \in [ cookie : HidlCookies \cup { CookieUndefined }, state : HidlStates, at : HidlPlaces ]
      /\ r.state = hidlPort[p].state /\ r.cookie = hidlPort[p].cookie /\ r.at = next
  BY <1>1, <1>2
<1>4. hidlPort' = [ hidlPort EXCEPT ![p] = r ]
  BY <1>1 DEF HidlMoves, HidlInv, HidlTypeOK
<1> QED BY <1>3, <1>4, PortStepInv

\* The thread goes on and sets the state, never to STARTED.
LEMMA MovesToInv ==
  ASSUME HidlInv, NEW p \in HidlPorts, NEW at, NEW next \in HidlPlaces \ { "registered" },
         NEW state \in HidlStates \ { "STARTED" },
         next = "registering" => state = "STANDBY" /\ hidlPort[p].cookie = CookieUndefined /\ HidlMutexFree,
         HidlMovesTo(p, at, next, state), UNCHANGED << legacy, hidlTable, hidlWalk, hidlHandler, hidlTold >>
  PROVE  HidlInv'
<1>1. PICK r : r = [ hidlPort[p] EXCEPT !.at = next, !.state = state ]
  OBVIOUS
<1>2. hidlPort[p] \in [ cookie : HidlCookies \cup { CookieUndefined }, state : HidlStates, at : HidlPlaces ]
  BY DEF HidlInv, HidlTypeOK
<1>3. /\ r \in [ cookie : HidlCookies \cup { CookieUndefined }, state : HidlStates, at : HidlPlaces ]
      /\ r.state = state /\ r.cookie = hidlPort[p].cookie /\ r.at = next
  BY <1>1, <1>2
<1>4. hidlPort' = [ hidlPort EXCEPT ![p] = r ]
  BY <1>1 DEF HidlMovesTo, HidlInv, HidlTypeOK
<1> QED BY <1>3, <1>4, PortStepInv

LEMMA SetUpAndForgetInv ==
  ASSUME HidlInv, NEW p \in HidlPorts, HidlSetUp(p) \/ HidlLearnsCookie(p) \/ HidlForgetsCookie(p)
  PROVE  HidlInv'
<1> DEFINE record == [ cookie : HidlCookies \cup { CookieUndefined }, state : HidlStates, at : HidlPlaces ]
<1>1. hidlPort[p] \in record /\ hidlPort \in [ HidlPorts -> record ]
  BY DEF HidlInv, HidlTypeOK
<1>2. CASE HidlSetUp(p)
  <2>1. /\ hidlPort[p].cookie = CookieUndefined /\ HidlMutexFree
        /\ HidlMovesTo(p, "idle", "registering", "STANDBY")
        /\ UNCHANGED << legacy, hidlTable, hidlWalk, hidlHandler, hidlTold >>
    BY <1>2 DEF HidlSetUp, HidlInUse
  <2> QED BY <2>1, MovesToInv DEF HidlPlaces, HidlStates
<1>3. CASE HidlLearnsCookie(p)
  <2>1. PICK k \in HidlCookies : hidlPort' = [ hidlPort EXCEPT ![p].cookie = k, ![p].at = "idle" ]
    BY <1>3, CookieFacts DEF HidlLearnsCookie
  <2>2. PICK r : r = [ hidlPort[p] EXCEPT !.cookie = k, !.at = "idle" ]
    OBVIOUS
  <2>3. r \in record /\ r.at = "idle" /\ r.state = hidlPort[p].state
    BY <1>1, <2>2 DEF HidlPlaces
  <2>4. hidlPort' = [ hidlPort EXCEPT ![p] = r ]
    BY <1>1, <2>1, <2>2
  <2>5. r.state = "STANDBY"
    BY <1>3, <2>3 DEF HidlLearnsCookie, HidlInv, NewPortsStandBy
  <2> QED BY <1>3, <2>3, <2>4, <2>5, PortStepInv DEF HidlLearnsCookie
<1>4. CASE HidlForgetsCookie(p)
  <2>1. PICK r : r = [ hidlPort[p] EXCEPT !.cookie = CookieUndefined, !.at = "idle" ]
    OBVIOUS
  <2>2. r \in record /\ r.at = "idle" /\ r.cookie = CookieUndefined
    BY <1>1, <2>1 DEF HidlPlaces
  <2>3. hidlPort' = [ hidlPort EXCEPT ![p] = r ]
    BY <1>1, <1>4, <2>1 DEF HidlForgetsCookie
  <2> QED BY <1>4, <2>2, <2>3, PortStepInv DEF HidlForgetsCookie
<1> QED BY <1>2, <1>3, <1>4

\* With no walk under way the table changes: a port in standby gets in, one gets out.
LEMMA TableInv ==
  ASSUME HidlInv, NEW p \in HidlPorts, HidlRegister(p) \/ HidlTearDown(p)
  PROVE  HidlInv'
<1> DEFINE record == [ cookie : HidlCookies \cup { CookieUndefined }, state : HidlStates, at : HidlPlaces ]
<1>1. /\ hidlPort \in [ HidlPorts -> record ] /\ hidlWalk = NoWalk /\ hidlWalk.todo = {}
      /\ hidlHandler = NoHidlHandler
      /\ hidlTable \in [ HidlCookies -> HidlPorts \cup { NoHidlPort } ]
      /\ UNCHANGED << legacy, hidlWalk, hidlHandler, hidlTold >>
  BY NoWalkNoHandler DEF HidlRegister, HidlTearDown, HidlInv, HidlTypeOK, HidlMutexFree, NoWalk
<1>2. CASE HidlMoves(p, "registering", "idle") /\ UNCHANGED hidlTable
  BY <1>1, <1>2, MovesInv DEF HidlPlaces
<1>3. ASSUME NEW k \in HidlCookies, NEW q \in HidlPorts \cup { NoHidlPort }, NEW next \in { "registered", "unregistered" },
             hidlTable' = [ hidlTable EXCEPT ![k] = q ], q # NoHidlPort => q = p,
             hidlPort' = [ hidlPort EXCEPT ![p].at = next ],
             hidlPort[p].at = IF next = "registered" THEN "registering" ELSE "idle",
             next = "unregistered" => q = NoHidlPort
      PROVE  HidlInv'
  <2>1. /\ hidlPort' \in [ HidlPorts -> record ]
        /\ \A r \in HidlPorts : /\ hidlPort'[r].state = hidlPort[r].state /\ hidlPort'[r].cookie = hidlPort[r].cookie
                                /\ hidlPort'[r].at = IF r = p THEN next ELSE hidlPort[r].at
    BY <1>1, <1>3 DEF HidlPlaces
  <2>2. HidlTypeOK'
    BY <1>1, <1>3, <2>1 DEF HidlInv, HidlTypeOK
  <2>3. HidlWalkHasTodo' /\ AnswersOverSession' /\ HidlConfigOfSession'
    BY <1>1, SameSession DEF HidlInv, HidlWalkHasTodo, AnswersOverSession, HidlConfigOfSession
  <2>4. NewPortsStandBy' /\ HandlerIsCalled'
    BY <1>1, <1>3, <2>1 DEF HidlInv, NewPortsStandBy, HandlerIsCalled
  <2>5. StartedIsToldYet'
    <3> SUFFICES ASSUME ~HidlSessionReady', ~hidlTold'.queueLost, ~hidlTold'.late, NEW j \in HidlObservers',
                        hidlPort'[hidlTable'[j]].cookie = j
                 PROVE  hidlPort'[hidlTable'[j]].state # "STARTED"
      BY DEF StartedIsToldYet
    <3>1. j \in HidlCookies /\ hidlTable'[j] \in HidlPorts
      BY <2>2, CookieFacts DEF HidlObservers, HidlTypeOK
    <3>2. CASE j = k
      <4>1. hidlTable'[j] = p /\ next = "registered"
        BY <1>1, <1>3, <3>1, <3>2, CookieFacts
      <4>2. hidlPort[p].state = "STANDBY"
        BY <1>3, <4>1 DEF HidlInv, NewPortsStandBy
      <4> QED BY <2>1, <4>1, <4>2
    <3>3. CASE j # k
      <4>1. hidlTable'[j] = hidlTable[j] /\ j \in HidlObservers
        BY <1>1, <1>3, <3>1, <3>3, CookieFacts DEF HidlObservers
      <4>2. hidlPort[hidlTable[j]].cookie = j => hidlPort[hidlTable[j]].state # "STARTED"
        BY <1>1, <4>1, SameSession DEF HidlInv, StartedIsToldYet
      <4> QED BY <2>1, <3>1, <4>1, <4>2
    <3> QED BY <3>2, <3>3
  <2> QED BY <2>2, <2>3, <2>4, <2>5 DEF HidlInv
<1>4. CASE HidlRegister(p) /\ HidlMoves(p, "registering", "registered")
  <2>1. (\E k \in HidlCookies : hidlTable' = [ hidlTable EXCEPT ![k] = p ]) \/ UNCHANGED hidlTable
    BY <1>4 DEF HidlRegister
  <2>2. CASE \E k \in HidlCookies : hidlTable' = [ hidlTable EXCEPT ![k] = p ]
    BY <1>3, <1>4, <2>2 DEF HidlMoves
  <2>3. CASE HidlCookies \ HidlObservers = {}
    <3>1. HidlMoves(p, "registering", "idle") /\ UNCHANGED hidlTable
      BY <1>4, <2>3 DEF HidlRegister
    <3> QED BY <1>2, <3>1
  <2>4. CASE HidlCookies \ HidlObservers # {}
    <3>1. \E k \in HidlCookies : hidlTable' = [ hidlTable EXCEPT ![k] = p ]
      BY <1>4, <2>4 DEF HidlRegister
    <3> QED BY <2>2, <3>1
  <2> QED BY <2>3, <2>4
<1>5. CASE HidlTearDown(p)
  <2>1. hidlPort[p].cookie \in HidlCookies
    BY <1>1, <1>5 DEF HidlTearDown, HidlInUse
  <2>2. hidlTable' = [ hidlTable EXCEPT ![hidlPort[p].cookie] = NoHidlPort ]
        /\ hidlPort[p].at = "idle" /\ hidlPort' = [ hidlPort EXCEPT ![p].at = "unregistered" ]
    BY <1>5 DEF HidlTearDown, HidlMoves
  <2> QED BY <1>3, <2>1, <2>2
<1> QED BY <1>2, <1>4, <1>5 DEF HidlRegister

LEMMA HidlInitInv == HidlInit => HidlInv
<1> SUFFICES ASSUME HidlInit PROVE HidlInv
  OBVIOUS
<1>1. InvalidSoftware \in AnyHidlConfig
  BY DEF InvalidSoftware, HidlConfig, AnyHidlConfig
<1>2. /\ legacy \in [ type : HidlTypes, iface : BOOLEAN, mq : { "null", "valid" },
                      config_2_0 : AnyHidlConfig, config_2_1 : AnyHidlConfig ]
      /\ ~legacy.iface
  BY <1>1 DEF HidlInit
<1>3. /\ hidlWalk.todo = {} /\ hidlWalk.cb = "none" /\ HidlObservers = {} /\ hidlHandler = NoHidlHandler
      /\ hidlWalk \in [ cb : { "none", "session_changed", "control_result" }, status : { "SUCCESS", "FAILURE" },
                        todo : SUBSET HidlCookies ]
  BY DEF HidlInit, NoWalk, HidlObservers
<1>4. HidlTypeOK
  <2>1. hidlPort \in [ HidlPorts -> [ cookie : HidlCookies \cup { CookieUndefined }, state : HidlStates,
                                      at : HidlPlaces ] ]
    BY DEF HidlInit, HidlStates, HidlPlaces
  <2>2. hidlTold \in AnyTold
    BY <1>1 DEF HidlInit, AnyTold
  <2>3. NoHidlHandler \in [ cookie : HidlCookies \cup { CookieUndefined }, previous : HidlStates ]
    BY DEF NoHidlHandler, HidlStates
  <2> QED BY <1>2, <1>3, <2>1, <2>2, <2>3 DEF HidlInit, HidlTypeOK
<1>5. ~HidlSessionReady
  BY <1>2 DEF HidlSessionReady
<1>6. NewPortsStandBy /\ HidlWalkHasTodo
  BY <1>3 DEF HidlInit, NewPortsStandBy, HidlWalkHasTodo
<1> QED BY <1>3, <1>4, <1>5, <1>6 
       DEF HidlInv, HandlerIsCalled, AnswersOverSession, StartedIsToldYet, HidlConfigOfSession

LEMMA HidlNextInv == HidlInv /\ [HidlNext]_hidlVars => HidlInv'
<1> SUFFICES ASSUME HidlInv, [HidlNext]_hidlVars PROVE HidlInv'
  OBVIOUS
<1>1. CASE UNCHANGED hidlVars
  BY <1>1, SameSession
  DEF hidlVars, HidlInv, HidlTypeOK, HidlWalkHasTodo, HandlerIsCalled, HidlObservers, AnswersOverSession, NewPortsStandBy,
      StartedIsToldYet, HidlConfigOfSession
<1>2. ASSUME NEW p \in HidlPorts, NEW request \in { "start", "suspend" }, NEW from,
             NEW to \in { "STARTING", "SUSPENDING" }, HidlRequest(p, request, from, to)
      PROVE  HidlInv'
  <2>1. CASE HidlMoves(p, "idle", request) /\ UNCHANGED << legacy, hidlTable, hidlWalk, hidlHandler, hidlTold >>
    BY <2>1, MovesInv DEF HidlPlaces
  <2>2. CASE HidlMovesTo(p, request, to, to) /\ UNCHANGED << legacy, hidlTable, hidlWalk, hidlHandler, hidlTold >>
    BY <2>2, MovesToInv DEF HidlPlaces, HidlStates
  <2>3. CASE /\ \/ HidlSessionReady /\ HidlMoves(p, to, "waiting")
                \/ HidlMoves(p, to, "idle")
             /\ UNCHANGED << legacy, hidlTable, hidlWalk, hidlHandler, hidlTold >>
    BY <2>3, MovesInv DEF HidlPlaces
  <2> QED BY <1>2, <2>1, <2>2, <2>3 DEF HidlRequest
<1>3. ASSUME NEW p \in HidlPorts, HidlWaitEnds(p) \/ HidlStop(p) PROVE HidlInv'
  <2>1. CASE HidlWaitEnds(p)
    BY <2>1, MovesInv DEF HidlWaitEnds, HidlPlaces
  <2>2. CASE HidlMovesTo(p, "idle", "stopping", "DISABLED") /\ UNCHANGED << legacy, hidlTable, hidlWalk, hidlHandler, hidlTold >>
    BY <2>2, MovesToInv DEF HidlPlaces, HidlStates
  <2>3. CASE HidlMoves(p, "stopping", "idle") /\ UNCHANGED << legacy, hidlTable, hidlWalk, hidlHandler, hidlTold >>
    BY <2>3, MovesInv DEF HidlPlaces
  <2> QED BY <1>3, <2>1, <2>2, <2>3 DEF HidlStop
<1>4. ASSUME NEW p \in HidlPorts, NEW state \in { "DISABLED", "STANDBY" }, HidlSetState(p, state) PROVE HidlInv'
  BY <1>4, MovesToInv DEF HidlSetState, HidlPlaces, HidlStates
<1>5. CASE HidlNext
  BY <1>2, <1>3, <1>4, <1>5, StartedInv, EndedInv, ControlStatusInv, DeliverInv, ControlWritesInv, SetUpAndForgetInv, TableInv
  DEF HidlNext
<1> QED BY <1>1, <1>5

LEMMA HidlInvariant == HidlSpec => []HidlInv
BY HidlInitInv, HidlNextInv, PTL DEF HidlSpec

-----------------------------------------------------------------------------
\* GetAudioConfig of the HIDL library gives the configuration of the start that was announced,
\* for every type and whichever of the two objects holds it.
THEOREM HidlConfigIsOfSession == HidlSpec => []HidlConfigOfSession
BY HidlInvariant, PTL DEF HidlInv

\* No registered HIDL port is STARTED after its session's end was told, for any number of ports and
\* any answers, over a session or not; but for a session whose queue a restart lost, and until the
\* next session_changed once an answer was reported over no session.
THEOREM HidlStartedOnlyInSession == HidlSpec => []LegacyStartedOnlyInSession
<1>1. HidlInv => LegacyStartedOnlyInSession
  BY DEF HidlInv, StartedIsToldYet, LegacyStartedOnlyInSession, HidlMutexFree, NoWalk
<1> QED BY <1>1, HidlInvariant, PTL

-----------------------------------------------------------------------------
(* The contract.  The walk of cookies is a walk of ports only if a port has *)
(* one cookie at most, and removing it removes that port.                   *)

\* A port is in the table under its cookie, from the moment it is registered until TearDown.
HidlTableFits ==
  /\ \A j, k \in HidlObservers : hidlTable[j] = hidlTable[k] => j = k
  /\ \A p \in HidlPorts :
       hidlPort[p].cookie # CookieUndefined /\ hidlPort[p].at # "unregistered" => hidlTable[hidlPort[p].cookie] = p
  /\ \A p \in HidlPorts :
       \/ hidlPort[p].at = "unregistered"
       \/ hidlPort[p].at # "registered" /\ hidlPort[p].cookie = CookieUndefined
       => \A k \in HidlCookies : hidlTable[k] # p

LEMMA SamePlaces ==
  ASSUME HidlTableFits, UNCHANGED hidlTable,
         \A p \in HidlPorts : /\ hidlPort'[p].cookie = hidlPort[p].cookie
                              /\ hidlPort'[p].at = "registered" <=> hidlPort[p].at = "registered"
                              /\ hidlPort'[p].at = "unregistered" <=> hidlPort[p].at = "unregistered"
  PROVE  HidlTableFits'
<1>1. HidlObservers' = HidlObservers
  BY DEF HidlObservers
<1> QED BY <1>1 DEF HidlTableFits

LEMMA PlaceFits ==
  ASSUME HidlInv, HidlTableFits, NEW p \in HidlPorts, UNCHANGED hidlTable,
         NEW at \in HidlPlaces \ { "registered", "unregistered" },
         NEW next \in HidlPlaces \ { "registered", "unregistered" },
         HidlMoves(p, at, next) \/ \E state \in HidlStates : HidlMovesTo(p, at, next, state)
  PROVE  HidlTableFits'
<1>1. hidlPort \in [ HidlPorts -> [ cookie : HidlCookies \cup { CookieUndefined }, state : HidlStates, at : HidlPlaces ] ]
  BY DEF HidlInv, HidlTypeOK
<1>2. hidlPort[p].at = at
  BY DEF HidlMoves, HidlMovesTo
<1>3. \A q \in HidlPorts : /\ hidlPort'[q].cookie = hidlPort[q].cookie
                           /\ hidlPort'[q].at = IF q = p THEN next ELSE hidlPort[q].at
  <2>1. CASE HidlMoves(p, at, next)
    BY <1>1, <2>1 DEF HidlMoves
  <2>2. ASSUME NEW state \in HidlStates, HidlMovesTo(p, at, next, state)
        PROVE  \A q \in HidlPorts : /\ hidlPort'[q].cookie = hidlPort[q].cookie
                                    /\ hidlPort'[q].at = IF q = p THEN next ELSE hidlPort[q].at
    <3>1. hidlPort' = [ hidlPort EXCEPT ![p] = [ hidlPort[p] EXCEPT !.at = next, !.state = state ] ]
      BY <1>1, <2>2 DEF HidlMovesTo
    <3> QED BY <1>1, <3>1
  <2> QED BY <2>1, <2>2
<1> QED BY <1>2, <1>3, SamePlaces

LEMMA DeliverFits ==
  ASSUME HidlInv, HidlTableFits,
         \/ \E k \in hidlWalk.todo : HidlDropped(k) \/ HidlSessionChanged(k) \/ HidlControlReads(k)
         \/ HidlControlWrites
  PROVE  HidlTableFits'
<1>1. hidlPort \in [ HidlPorts -> [ cookie : HidlCookies \cup { CookieUndefined }, state : HidlStates, at : HidlPlaces ] ]
  BY DEF HidlInv, HidlTypeOK
<1>2. PICK k, state : \/ hidlPort' = hidlPort
                      \/ hidlPort' = [ hidlPort EXCEPT ![hidlTable[k]].state = state ]
  BY DEF HidlDropped, HidlSessionChanged, HidlControlReads, HidlControlWrites
<1>3. \A q \in HidlPorts : hidlPort'[q].cookie = hidlPort[q].cookie /\ hidlPort'[q].at = hidlPort[q].at
  BY <1>1, <1>2
<1>4. UNCHANGED hidlTable
  BY DEF HidlDropped, HidlSessionChanged, HidlControlReads, HidlControlWrites
<1> QED BY <1>3, <1>4, SamePlaces

\* The steps that move the table, or what a port knows of it.
LEMMA TableStepFits ==
  ASSUME HidlInv, HidlTableFits, NEW p \in HidlPorts,
         \/ HidlRegister(p) \/ HidlLearnsCookie(p) \/ HidlTearDown(p) \/ HidlForgetsCookie(p)
  PROVE  HidlTableFits'
<1>1. /\ hidlPort \in [ HidlPorts -> [ cookie : HidlCookies \cup { CookieUndefined }, state : HidlStates, at : HidlPlaces ] ]
      /\ hidlTable \in [ HidlCookies -> HidlPorts \cup { NoHidlPort } ]
  BY DEF HidlInv, HidlTypeOK
<1>2. CASE HidlRegister(p)
  <2>1. CASE HidlMoves(p, "registering", "idle") /\ UNCHANGED hidlTable
    BY <2>1, PlaceFits DEF HidlPlaces
  <2>2. CASE HidlMoves(p, "registering", "registered")
             /\ \E k \in HidlCookies \ HidlObservers : hidlTable' = [ hidlTable EXCEPT ![k] = p ]
    <3>1. PICK k \in HidlCookies \ HidlObservers : hidlTable' = [ hidlTable EXCEPT ![k] = p ]
      BY <2>2
    <3>2. /\ hidlPort[p].at = "registering" /\ hidlPort[p].cookie = CookieUndefined
          /\ hidlTable[k] = NoHidlPort
      BY <2>2 DEF HidlMoves, HidlInv, NewPortsStandBy, HidlObservers
    <3>3. \A q \in HidlPorts : /\ hidlPort'[q].cookie = hidlPort[q].cookie
                               /\ hidlPort'[q].at = IF q = p THEN "registered" ELSE hidlPort[q].at
      BY <1>1, <2>2 DEF HidlMoves
    <3>4. \A j \in HidlCookies : hidlTable'[j] = IF j = k THEN p ELSE hidlTable[j]
      BY <1>1, <3>1
    <3>5. \A j \in HidlCookies : hidlTable[j] # p
      BY <3>2 DEF HidlTableFits
    <3>6. \A i, j \in HidlObservers' : hidlTable'[i] = hidlTable'[j] => i = j
      BY <3>4, <3>5, CookieFacts DEF HidlTableFits, HidlObservers
    <3>7. ASSUME NEW q \in HidlPorts, hidlPort'[q].cookie # CookieUndefined, hidlPort'[q].at # "unregistered"
          PROVE  hidlTable'[hidlPort'[q].cookie] = q
      <4>1. q # p /\ hidlPort[q].cookie \in HidlCookies /\ hidlTable[hidlPort[q].cookie] = q
        BY <1>1, <3>2, <3>3, <3>7 DEF HidlTableFits
      <4>2. hidlPort[q].cookie # k
        BY <3>2, <4>1, CookieFacts
      <4> QED BY <3>3, <3>4, <4>1, <4>2
    <3>8. ASSUME NEW q \in HidlPorts,
                 hidlPort'[q].at = "unregistered" \/ (hidlPort'[q].at # "registered" /\ hidlPort'[q].cookie = CookieUndefined)
          PROVE  \A j \in HidlCookies : hidlTable'[j] # q
      <4>1. q # p /\ \A j \in HidlCookies : hidlTable[j] # q
        BY <3>3, <3>8 DEF HidlTableFits
      <4> QED BY <3>4, <4>1
    <3> QED BY <3>6, <3>7, <3>8 DEF HidlTableFits
  <2> QED BY <1>2, <2>1, <2>2 DEF HidlRegister
<1>3. CASE HidlLearnsCookie(p)
  <2>1. PICK k \in HidlObservers : /\ hidlTable[k] = p
                                   /\ hidlPort' = [ hidlPort EXCEPT ![p].cookie = k, ![p].at = "idle" ]
    BY <1>3 DEF HidlLearnsCookie
  <2>2. hidlPort' = [ hidlPort EXCEPT ![p] = [ hidlPort[p] EXCEPT !.cookie = k, !.at = "idle" ] ]
    BY <1>1, <2>1
  <2>3. /\ hidlPort'[p].cookie = k /\ hidlPort'[p].at = "idle"
        /\ \A q \in HidlPorts \ {p} : hidlPort'[q] = hidlPort[q]
    BY <1>1, <2>2
  <2>4. k \in HidlCookies /\ k # CookieUndefined /\ UNCHANGED << hidlTable, HidlObservers >>
    BY <1>3, <2>1, CookieFacts DEF HidlLearnsCookie, HidlObservers
  <2>5. \A q \in HidlPorts : q = p \/ hidlPort'[q] = hidlPort[q]
    BY <2>3
  <2>6. ASSUME NEW q \in HidlPorts, hidlPort'[q].cookie # CookieUndefined, hidlPort'[q].at # "unregistered"
        PROVE  hidlTable'[hidlPort'[q].cookie] = q
    <3>1. CASE q = p
      BY <2>1, <2>3, <2>4, <3>1
    <3>2. CASE q # p
      <4>1. hidlPort'[q] = hidlPort[q] /\ hidlTable[hidlPort[q].cookie] = q
        BY <2>5, <2>6, <3>2 DEF HidlTableFits
      <4> QED BY <2>4, <4>1
    <3> QED BY <3>1, <3>2
  <2>7. ASSUME NEW q \in HidlPorts,
               hidlPort'[q].at = "unregistered" \/ (hidlPort'[q].at # "registered" /\ hidlPort'[q].cookie = CookieUndefined)
        PROVE  \A j \in HidlCookies : hidlTable'[j] # q
    BY <2>3, <2>4, <2>5, <2>7 DEF HidlTableFits
  <2>8. \A i, j \in HidlObservers' : hidlTable'[i] = hidlTable'[j] => i = j
    BY <2>4 DEF HidlTableFits
  <2> QED BY <2>6, <2>7, <2>8 DEF HidlTableFits
<1>4. CASE HidlTearDown(p)
  <2>1. /\ hidlPort[p].cookie \in HidlCookies /\ hidlTable[hidlPort[p].cookie] = p
        /\ hidlTable' = [ hidlTable EXCEPT ![hidlPort[p].cookie] = NoHidlPort ]
    BY <1>1, <1>4 DEF HidlTearDown, HidlInUse, HidlMoves, HidlTableFits
  <2>2. \A q \in HidlPorts : /\ hidlPort'[q].cookie = hidlPort[q].cookie
                             /\ hidlPort'[q].at = IF q = p THEN "unregistered" ELSE hidlPort[q].at
    BY <1>1, <1>4 DEF HidlTearDown, HidlMoves
  <2>3. \A j \in HidlCookies : hidlTable'[j] = IF j = hidlPort[p].cookie THEN NoHidlPort ELSE hidlTable[j]
    BY <1>1, <2>1
  <2>4. \A i, j \in HidlObservers' : hidlTable'[i] = hidlTable'[j] => i = j
    BY <2>3 DEF HidlTableFits, HidlObservers
  <2>5. \A j \in HidlCookies : hidlTable'[j] # p
    BY <2>1, <2>3, CookieFacts DEF HidlTableFits, HidlObservers
  <2>6. ASSUME NEW q \in HidlPorts, hidlPort'[q].cookie # CookieUndefined, hidlPort'[q].at # "unregistered"
        PROVE  hidlTable'[hidlPort'[q].cookie] = q
    <3>1. q # p /\ hidlPort[q].cookie \in HidlCookies /\ hidlTable[hidlPort[q].cookie] = q
      BY <1>1, <2>2, <2>6 DEF HidlTableFits
    <3>2. hidlPort[q].cookie # hidlPort[p].cookie
      BY <2>1, <3>1
    <3> QED BY <2>2, <2>3, <3>1, <3>2
  <2>7. ASSUME NEW q \in HidlPorts \ {p},
               hidlPort'[q].at = "unregistered" \/ (hidlPort'[q].at # "registered" /\ hidlPort'[q].cookie = CookieUndefined)
        PROVE  \A j \in HidlCookies : hidlTable'[j] # q
    <3>1. \A j \in HidlCookies : hidlTable[j] # q
      BY <2>2, <2>7 DEF HidlTableFits
    <3> QED BY <2>3, <3>1, CookieFacts
  <2> QED BY <2>4, <2>5, <2>6, <2>7 DEF HidlTableFits
<1>5. CASE HidlForgetsCookie(p)
  <2>1. /\ hidlPort[p].at = "unregistered" /\ hidlPort'[p].cookie = CookieUndefined /\ hidlPort'[p].at = "idle"
        /\ \A q \in HidlPorts \ {p} : hidlPort'[q] = hidlPort[q]
        /\ hidlTable' = hidlTable /\ HidlObservers' = HidlObservers
    BY <1>1, <1>5 DEF HidlForgetsCookie, HidlObservers
  <2> QED BY <2>1 DEF HidlTableFits
<1> QED BY <1>2, <1>3, <1>4, <1>5

LEMMA TableFitsNext ==
  HidlInv /\ HidlTableFits /\ [HidlNext]_hidlVars => HidlTableFits'
<1> SUFFICES ASSUME HidlInv, HidlTableFits, [HidlNext]_hidlVars PROVE HidlTableFits'
  OBVIOUS
<1>1. CASE UNCHANGED << hidlTable, hidlPort >>
  BY <1>1, SamePlaces
<1>2. ASSUME NEW p \in HidlPorts, HidlSetUp(p) \/ HidlWaitEnds(p) \/ HidlStop(p) PROVE HidlTableFits'
  BY <1>2, PlaceFits DEF HidlSetUp, HidlWaitEnds, HidlStop, HidlPlaces, HidlStates
<1>3. ASSUME NEW p \in HidlPorts, NEW request \in { "start", "suspend" }, NEW from,
             NEW to \in { "STARTING", "SUSPENDING" }, HidlRequest(p, request, from, to)
      PROVE  HidlTableFits'
  BY <1>3, PlaceFits DEF HidlRequest, HidlPlaces, HidlStates
<1>4. ASSUME NEW p \in HidlPorts, NEW state \in { "DISABLED", "STANDBY" }, HidlSetState(p, state)
      PROVE  HidlTableFits'
  BY <1>4, PlaceFits DEF HidlSetState, HidlPlaces, HidlStates
<1>5. CASE HidlNext
  BY <1>1, <1>2, <1>3, <1>4, <1>5, DeliverFits, TableStepFits
  DEF HidlNext, HidlSessionStarted, HidlSessionEnded, HidlControlStatus
<1> QED BY <1>1, <1>5 DEF hidlVars

LEMMA TableFitsInvariant == HidlSpec => []HidlTableFits
<1>1. HidlInit => HidlTableFits
  BY CookieFacts DEF HidlInit, HidlTableFits, HidlObservers
<1> QED BY <1>1, TableFitsNext, HidlInvariant, PTL DEF HidlSpec

\* With the mutex free nobody is told anything; a session_changed broadcast tells every subscriber.
LEMMA NoWalkNoneToTell == HidlMutexFree => HidlToTell = {}
BY DEF HidlMutexFree, NoWalk, HidlToTell

LEMMA ChangeTellsAll ==
  ASSUME HidlBroadcast("session_changed", "SUCCESS"), UNCHANGED hidlTable
  PROVE  HidlToTell' = HidlSubscribers /\ UNCHANGED HidlSubscribers
<1>1. HidlObservers' = HidlObservers /\ hidlWalk'.todo = HidlObservers
  BY BroadcastCallsAll
<1>2. HidlObservers # {} => hidlWalk'.cb = "session_changed"
  BY DEF HidlBroadcast
<1> QED BY <1>1, <1>2 DEF HidlToTell, HidlSubscribers

\* What keeps the session, the table and the walk is no step of the contract.
LEMMA NoContractStep ==
  ASSUME UNCHANGED << legacy, hidlTable, hidlWalk >>
  PROVE  UNCHANGED HidlContract!contractVars
BY SameSession DEF HidlContract!contractVars, HidlToTell, HidlSubscribers, HidlObservers, HidlSessionReady

LEMMA StartedContract ==
  ASSUME HidlInv, NEW iface \in BOOLEAN, NEW mq \in HidlDescriptors, NEW config \in HidlConfigs,
         HidlSessionStarted(iface, mq, config)
  PROVE  [HidlContract!Next]_(HidlContract!contractVars)
<1>1. HidlMutexFree /\ UNCHANGED hidlTable /\ HidlToTell = {}
  BY NoWalkNoneToTell DEF HidlSessionStarted
<1>2. CASE UNCHANGED << legacy, hidlWalk, hidlTold >>
  BY <1>1, <1>2, NoContractStep
<1>3. CASE mq = "invalid" /\ legacy' = [ Kept(InvalidConfig) EXCEPT !.mq = "null" ] /\ UNCHANGED hidlWalk
  <2>1. ~A2dpOffload_2_0
    BY <1>3 DEF HidlDescriptors
  <2>2. legacy'.mq = "null" /\ legacy'.type = legacy.type
    BY <1>3 DEF HidlInv, HidlTypeOK, Kept
  <2>3. ~HidlSessionReady'
    BY <2>1, <2>2, SameType DEF HidlSessionReady
  <2>4. UNCHANGED << HidlSubscribers, HidlToTell >>
    BY <1>1, <1>3 DEF HidlSubscribers, HidlToTell, HidlObservers
  <2>5. CASE HidlSessionReady
    BY <1>1, <2>3, <2>4, <2>5 DEF HidlContract!Next, HidlContract!LoseQueue
  <2>6. CASE ~HidlSessionReady
    BY <2>3, <2>4, <2>6 DEF HidlContract!contractVars, HidlSessionReady
  <2> QED BY <2>5, <2>6
<1>4. CASE HidlReportSessionStatus(config)
  <2>1. HidlToTell' = HidlSubscribers /\ UNCHANGED HidlSubscribers
    BY <1>1, <1>4, ChangeTellsAll DEF HidlReportSessionStatus
  <2>2. HidlContract!Announce(HidlSessionReady') /\ HidlSessionReady' \in BOOLEAN
    BY <1>1, <2>1 DEF HidlContract!Announce, HidlSessionReady
  <2> QED BY <2>2 DEF HidlContract!Next
<1> QED BY <1>2, <1>3, <1>4 DEF HidlSessionStarted

LEMMA EndedContract ==
  ASSUME HidlInv, HidlSessionEnded
  PROVE  [HidlContract!Next]_(HidlContract!contractVars)
<1>1. HidlMutexFree /\ UNCHANGED hidlTable /\ HidlToTell = {}
  BY NoWalkNoneToTell DEF HidlSessionEnded
<1>2. ~HidlSessionReady'
  BY DEF HidlSessionEnded, HidlSessionReady, HidlInv, HidlTypeOK
<1>3. CASE HidlSessionReady
  <2>1. HidlToTell' = HidlSubscribers /\ UNCHANGED HidlSubscribers
    BY <1>1, <1>3, ChangeTellsAll DEF HidlSessionEnded, HidlReportSessionStatus
  <2>2. HidlContract!Announce(HidlSessionReady') /\ HidlSessionReady' \in BOOLEAN
    BY <1>1, <2>1 DEF HidlContract!Announce, HidlSessionReady
  <2> QED BY <2>2 DEF HidlContract!Next
<1>4. CASE ~HidlSessionReady
  <2>1. UNCHANGED hidlWalk
    BY <1>4 DEF HidlSessionEnded
  <2>2. UNCHANGED << HidlSubscribers, HidlToTell >>
    BY <1>1, <2>1 DEF HidlSubscribers, HidlToTell, HidlObservers
  <2> QED BY <1>2, <1>4, <2>2 DEF HidlContract!contractVars, HidlSessionReady
<1> QED BY <1>3, <1>4

LEMMA ControlStatusContract ==
  ASSUME HidlInv, NEW status, HidlControlStatus(status)
  PROVE  UNCHANGED HidlContract!contractVars
<1>1. HidlMutexFree /\ UNCHANGED << legacy, hidlTable >> /\ HidlToTell = {}
  BY NoWalkNoneToTell DEF HidlControlStatus
<1>2. hidlWalk'.cb # "session_changed"
  BY DEF HidlControlStatus, HidlBroadcast, NoWalk
<1>3. UNCHANGED << HidlSubscribers, HidlToTell >>
  BY <1>1, <1>2 DEF HidlSubscribers, HidlToTell, HidlObservers
<1> QED BY <1>1, <1>3 DEF HidlContract!contractVars, HidlSessionReady, A2dpOffload_2_0

LEMMA DeliverContract ==
  ASSUME HidlInv, HidlTableFits, NEW k \in hidlWalk.todo, HidlCalled(k), UNCHANGED << legacy, hidlTable >>
  PROVE  [HidlContract!Next]_(HidlContract!contractVars)
<1>1. UNCHANGED << legacy, hidlTable >>
      /\ hidlWalk' = IF hidlWalk.todo = {k} THEN NoWalk ELSE [ hidlWalk EXCEPT !.todo = @ \ {k} ]
  BY DEF HidlCalled
<1>2. HidlSessionReady' = HidlSessionReady /\ UNCHANGED HidlSubscribers
  BY <1>1 DEF HidlSubscribers, HidlObservers, HidlSessionReady, A2dpOffload_2_0
<1>3. /\ hidlWalk.todo \subseteq HidlObservers
      /\ \A j \in HidlObservers : hidlTable[j] \in HidlPorts
      /\ \A i, j \in HidlObservers : hidlTable[i] = hidlTable[j] => i = j
      /\ hidlWalk \in [ cb : { "none", "session_changed", "control_result" }, status : { "SUCCESS", "FAILURE" },
                        todo : SUBSET HidlCookies ]
  BY CookieFacts DEF HidlInv, HidlWalkHasTodo, HidlTableFits, HidlTypeOK
<1>4. CASE hidlWalk.cb # "session_changed"
  <2>1. hidlWalk'.cb # "session_changed"
    BY <1>1, <1>3, <1>4 DEF NoWalk
  <2> QED BY <1>2, <1>4, <2>1 DEF HidlContract!contractVars, HidlToTell
<1>5. CASE hidlWalk.cb = "session_changed"
  <2>1. HidlToTell = { hidlTable[j] : j \in hidlWalk.todo }
    BY <1>5 DEF HidlToTell
  <2>2. HidlToTell' = { hidlTable[j] : j \in hidlWalk.todo \ {k} }
    <3>1. CASE hidlWalk.todo = {k}
      BY <1>1, <3>1 DEF NoWalk, HidlToTell
    <3>2. CASE hidlWalk.todo # {k}
      BY <1>1, <1>3, <1>5, <3>2 DEF HidlToTell
    <3> QED BY <3>1, <3>2
  <2>3. HidlToTell' = HidlToTell \ {hidlTable[k]}
    BY <1>3, <2>1, <2>2
  <2>4. hidlTable[k] \in HidlPorts /\ HidlContract!Tell(hidlTable[k])
    BY <1>2, <1>3, <2>1, <2>3 DEF HidlContract!Tell
  <2> QED BY <2>4 DEF HidlContract!Next
<1> QED BY <1>4, <1>5

LEMMA RegisterContract ==
  ASSUME HidlInv, HidlTableFits, NEW p \in HidlPorts, HidlRegister(p)
  PROVE  [HidlContract!Next]_(HidlContract!contractVars)
<1>1. UNCHANGED << legacy, hidlWalk >> /\ HidlToTell = {} /\ hidlWalk = NoWalk
  BY NoWalkNoneToTell DEF HidlRegister, HidlMutexFree
<1>2. HidlSessionReady' = HidlSessionReady /\ HidlToTell' = {}
  BY <1>1 DEF HidlSessionReady, A2dpOffload_2_0, HidlToTell, NoWalk
<1>3. CASE UNCHANGED hidlTable
  BY <1>1, <1>3, NoContractStep
<1>4. ASSUME NEW k \in HidlCookies \ HidlObservers, HidlMoves(p, "registering", "registered"),
             hidlTable' = [ hidlTable EXCEPT ![k] = p ]
      PROVE  HidlContract!Subscribe(p)
  <2>1. hidlPort[p].at = "registering" /\ hidlPort[p].cookie = CookieUndefined
    BY <1>4 DEF HidlMoves, HidlInv, NewPortsStandBy
  <2>2. \A j \in HidlCookies : hidlTable[j] # p
    BY <2>1 DEF HidlTableFits
  <2>3. \A j \in HidlCookies : hidlTable'[j] = IF j = k THEN p ELSE hidlTable[j]
    BY <1>4 DEF HidlInv, HidlTypeOK
  <2>4. HidlObservers' = HidlObservers \cup {k}
    BY <2>3, CookieFacts DEF HidlObservers
  <2>5. p \notin HidlSubscribers
    BY <2>2, CookieFacts DEF HidlSubscribers
  <2>6. HidlSubscribers' = HidlSubscribers \cup {p}
    BY <1>4, <2>3, <2>4, CookieFacts DEF HidlSubscribers
  <2> QED BY <1>1, <1>2, <2>5, <2>6 DEF HidlContract!Subscribe
<1>5. CASE HidlCookies \ HidlObservers = {}
  BY <1>3, <1>5 DEF HidlRegister
<1>6. CASE HidlCookies \ HidlObservers # {}
  <2>1. HidlMoves(p, "registering", "registered")
        /\ \E k \in HidlCookies \ HidlObservers : hidlTable' = [ hidlTable EXCEPT ![k] = p ]
    BY <1>6 DEF HidlRegister
  <2> QED BY <1>4, <2>1 DEF HidlContract!Next
<1> QED BY <1>5, <1>6

LEMMA TearDownContract ==
  ASSUME HidlInv, HidlTableFits, NEW p \in HidlPorts, HidlTearDown(p)
  PROVE  HidlContract!Unsubscribe(p)
<1> DEFINE mine == hidlPort[p].cookie
<1>1. UNCHANGED << legacy, hidlWalk >> /\ HidlToTell = {} /\ hidlWalk = NoWalk
  BY NoWalkNoneToTell DEF HidlTearDown, HidlMutexFree
<1>2. HidlSessionReady' = HidlSessionReady /\ HidlToTell' = {}
  BY <1>1 DEF HidlSessionReady, A2dpOffload_2_0, HidlToTell, NoWalk
<1>3. mine \in HidlCookies /\ hidlTable[mine] = p /\ hidlTable' = [ hidlTable EXCEPT ![mine] = NoHidlPort ]
  BY DEF HidlTearDown, HidlInUse, HidlMoves, HidlTableFits, HidlInv, HidlTypeOK
<1>4. \A j \in HidlCookies : hidlTable'[j] = IF j = mine THEN NoHidlPort ELSE hidlTable[j]
  BY <1>3 DEF HidlInv, HidlTypeOK
<1>5. HidlObservers' = HidlObservers \ {mine} /\ mine \in HidlObservers
  BY <1>3, <1>4, CookieFacts DEF HidlObservers
<1>6. \A j \in HidlObservers \ {mine} : hidlTable[j] # p
  BY <1>3, <1>5 DEF HidlTableFits
<1>7. HidlSubscribers' = { hidlTable[j] : j \in HidlObservers \ {mine} }
  BY <1>4, <1>5, CookieFacts DEF HidlSubscribers
<1>8. HidlSubscribers' = HidlSubscribers \ {p}
  BY <1>3, <1>5, <1>6, <1>7 DEF HidlSubscribers
<1> QED BY <1>1, <1>2, <1>8 DEF HidlContract!Unsubscribe

LEMMA HidlStepContract ==
  HidlInv /\ HidlTableFits /\ [HidlNext]_hidlVars => [HidlContract!Next]_(HidlContract!contractVars)
<1> SUFFICES ASSUME HidlInv, HidlTableFits, [HidlNext]_hidlVars
             PROVE  [HidlContract!Next]_(HidlContract!contractVars)
  OBVIOUS
<1>1. CASE UNCHANGED << legacy, hidlTable, hidlWalk >>
  BY <1>1, NoContractStep
<1>2. ASSUME NEW p \in HidlPorts,
             \/ HidlSetUp(p) \/ HidlRegister(p) \/ HidlLearnsCookie(p) \/ HidlTearDown(p) \/ HidlForgetsCookie(p)
             \/ HidlRequest(p, "start", "STANDBY", "STARTING") \/ HidlRequest(p, "suspend", "STARTED", "SUSPENDING")
             \/ HidlWaitEnds(p) \/ HidlStop(p)
             \/ \E state \in { "DISABLED", "STANDBY" } : HidlSetState(p, state)
      PROVE  [HidlContract!Next]_(HidlContract!contractVars)
  <2>1. CASE HidlRegister(p)
    BY <2>1, RegisterContract
  <2>2. CASE HidlTearDown(p)
    BY <2>2, TearDownContract DEF HidlContract!Next
  <2>3. CASE ~HidlRegister(p) /\ ~HidlTearDown(p)
    BY <1>1, <1>2, <2>3
    DEF HidlSetUp, HidlLearnsCookie, HidlForgetsCookie, HidlRequest, HidlWaitEnds, HidlStop, HidlSetState
  <2> QED BY <2>1, <2>2, <2>3
<1>3. ASSUME NEW k \in hidlWalk.todo, HidlDropped(k) \/ HidlSessionChanged(k) \/ HidlControlReads(k)
      PROVE  [HidlContract!Next]_(HidlContract!contractVars)
  <2>1. UNCHANGED << legacy, hidlTable >> /\ (HidlCalled(k) \/ UNCHANGED hidlWalk)
    BY <1>3 DEF HidlDropped, HidlSessionChanged, HidlControlReads
  <2> QED BY <1>1, <2>1, DeliverContract
<1>4. CASE HidlControlWrites
  <2>1. HidlCalled(hidlHandler.cookie) /\ UNCHANGED << legacy, hidlTable >> /\ hidlHandler.cookie \in hidlWalk.todo
    BY <1>4 DEF HidlControlWrites, HidlInv, HandlerIsCalled
  <2> QED BY <2>1, DeliverContract
<1>5. CASE HidlNext
  BY <1>2, <1>3, <1>4, <1>5, StartedContract, EndedContract, ControlStatusContract DEF HidlNext
<1> QED BY <1>1, <1>5 DEF hidlVars

\* The HIDL session keeps the promise of the AIDL one, for any number of ports and cookies: every
\* change that OnSessionStarted and OnSessionEnded announce reaches each registered port exactly
\* once, before another is announced and before any port comes or goes.
THEOREM HidlSessionImplementsContract == HidlSpec => HidlImplementsContract
<1>1. HidlInit => HidlContract!Init
  <2> SUFFICES ASSUME HidlInit PROVE HidlContract!Init
    OBVIOUS
  <2>1. HidlSessionReady = FALSE
    BY DEF HidlInit, HidlSessionReady
  <2>2. HidlObservers = {}
    BY DEF HidlInit, HidlObservers
  <2>3. HidlSubscribers = {} /\ HidlToTell = {}
    BY <2>2 DEF HidlInit, HidlSubscribers, HidlToTell, NoWalk
  <2> QED BY <2>1, <2>3 DEF HidlContract!Init
<1> QED BY <1>1, HidlStepContract, HidlInvariant, TableFitsInvariant, PTL
        DEF HidlSpec, HidlImplementsContract, HidlContract!Spec

===============================================================================
