----------------------- MODULE BluetoothStreamOutProofs -----------------------
(***************************************************************************)
(* The output streams, proved for every session type and any number of     *)
(* streams, cookies, stack processes and binder threads: they use the      *)
(* providers and the session as ProviderSpec allows, so what is proved of  *)
(* those holds under them; the mutexes order the threads that meet in a    *)
(* port; and no port plays on in a session that is over.                   *)
(***************************************************************************)
EXTENDS BluetoothStreamOut, BluetoothAudioProviderProofs

PortStates == { "DISABLED", "STANDBY", "STARTING", "STARTED", "SUSPENDING" }

(* Where a thread is, by what it holds.  A thread inside has the mutex of  *)
(* the stream it works on; a stream that closes takes the device's only.   *)
OpenPlaces  == { "closed", "register", "assign", "list" }
ClosePlaces == { "close", "stop", "stop_call", "stop_in", "tear" }
FreePlaces  == { "idle", "lock", "data", "count" }
StreamReadPlaces ==
  { "out_resume", "resume2", "resume3", "resume4", "out_standby", "standby2", "standby3", "closing" }
ParamReadPlaces == { "A2dpSuspended=true", "suspended2", "A2dpSuspended=false" }
StreamInside == PortLabels \cup StreamReadPlaces \cup { "ok", "fail" }
ParamInside  == PortLabels \cup ParamReadPlaces \cup { "disable", "enable", "ok", "fail" }
Places == OpenPlaces \cup ClosePlaces \cup FreePlaces \cup StreamInside \cup ParamInside \cup { "next" }

PlaybackOps == { "write", "out_resume", "out_standby", "closing" }
ParamOps    == { "A2dpSuspended=true", "A2dpSuspended=false" }

\* The values the variables of the streams range over.
StreamTypeOK ==
  /\ state \in [ Streams -> PortStates ]
  /\ cookie \in [ Streams -> Cookies \cup {NoCookie} ]
  /\ handler \in [ cookie : Cookies \cup {NoCookie}, previous : PortStates ]
  /\ pc \in [ Threads -> Places ]
  /\ op \in [ Threads -> PlaybackOps \cup ParamOps \cup { "none", "close" } ]
  /\ target \in Streams \cup {NoClient}
  /\ rest \in SUBSET Streams
  /\ slock \in [ Streams -> Threads \cup {NoThread} ]
  /\ devlock \in { ParamThread, NoThread }
  /\ opened \in SUBSET Streams
  /\ asked \in [ start : 0 .. MaxAsked, suspend : 0 .. MaxAsked ]
  /\ streaming \in BOOLEAN
  /\ late \in BOOLEAN

\* A playback thread opens, closes, or is in a stream function; the parameter thread is in its own.
PlacesFitCalls ==
  /\ \A s \in Streams :
       \/ pc[s] \in OpenPlaces  /\ op[s] = "none"
       \/ pc[s] \in ClosePlaces /\ op[s] = "close"
       \/ pc[s] \in FreePlaces \cup StreamInside /\ op[s] \in PlaybackOps \cup { "none" }
  /\ \A s \in Streams : pc[s] = "lock" => op[s] # "none"
  /\ pc[ParamThread] \in { "idle", "next", "lock" } \cup ParamInside
  /\ IF pc[ParamThread] = "idle" THEN op[ParamThread] = "none" ELSE op[ParamThread] \in ParamOps

\* A port has the cookie it was granted from SetUpAssigns to TearDown; the device lists its stream
\* from the end of the opening to the beginning of the closing.
PortFollowsLife ==
  \A s \in Streams :
    /\ granted[s] = NoCookie <=> pc[s] \in { "closed", "register" }
    /\ cookie[s] = NoCookie <=> pc[s] \in { "closed", "register", "assign" }
    /\ cookie[s] # NoCookie => cookie[s] = granted[s]
    /\ s \in opened <=> pc[s] \notin OpenPlaces /\ op[s] # "close"

\* The walk of set_parameters has the device mutex and only open streams before it.
ParamsWalkOpened ==
  /\ devlock = ParamThread <=> pc[ParamThread] # "idle"
  /\ rest \subseteq opened
  /\ pc[ParamThread] = "idle" => rest = {}
  /\ pc[ParamThread] \notin { "idle", "next" } => target \in opened

\* A thread inside a stream has its mutex, unless it is closing it.
InsideHoldsMutex ==
  /\ \A s \in Streams : pc[s] \in StreamInside /\ op[s] # "close" => slock[s] = s
  /\ pc[ParamThread] \in ParamInside => slock[target] = ParamThread

\* The answer a port has read is the one being delivered, and the port still has its cookie.
HandlerFitsWalk ==
  handler # NoHandler =>
    /\ handler.cookie \in report.todo
    /\ report.cb = "control_result"
    /\ cookie[observers[handler.cookie]] = handler.cookie

\* An answer reported in no announced session is a late one.
AnswersMarked == report.cb = "control_result" /\ ~announced => late

\* A port that is STARTED in no announced session is about to be told.
StartedIsToldYet ==
  \A s \in Streams :
    state[s] = "STARTED" =>
      /\ cookie[s] # NoCookie
      /\ ~announced /\ ~late => report.cb = "session_changed" /\ cookie[s] \in report.todo

\* The inductive invariant of the streams.
StreamInv ==
  /\ StreamTypeOK
  /\ PlacesFitCalls
  /\ PortFollowsLife
  /\ ParamsWalkOpened
  /\ InsideHoldsMutex
  /\ HandlerFitsWalk
  /\ AnswersMarked
  /\ StartedIsToldYet

-----------------------------------------------------------------------------
\* The kinds of places do not overlap, but for the places of Stop, where a close may be as well.
LEMMA PlacesApart ==
  /\ OpenPlaces \cap (FreePlaces \cup StreamInside \cup ClosePlaces) = {}
  /\ FreePlaces \cap (StreamInside \cup ClosePlaces) = {}
  /\ ParamInside \cap { "idle", "next", "lock" } = {}
  /\ PortLabels \subseteq StreamInside \cap ParamInside
BY DEF OpenPlaces, FreePlaces, ClosePlaces, StreamInside, ParamInside, StreamReadPlaces, ParamReadPlaces,
       PortLabels, InStack

\* The thread t goes to `next` and every other stays where it is.
LEMMA WentTo ==
  ASSUME StreamTypeOK, NEW t \in Threads, NEW next \in Places, Goto(t, next)
  PROVE  /\ pc' \in [ Threads -> Places ]
         /\ pc'[t] = next
         /\ \A u \in Threads \ {t} : pc'[u] = pc[u]
BY DEF StreamTypeOK, Goto

LEMMA StateSet ==
  ASSUME StreamTypeOK, NEW s \in Streams, NEW st \in PortStates, SetState(s, st)
  PROVE  /\ state' \in [ Streams -> PortStates ]
         /\ state'[s] = st
         /\ \A r \in Streams \ {s} : state'[r] = state[r]
BY DEF StreamTypeOK, SetState

LEMMA ThreadsApart ==
  /\ ParamThread \notin Streams /\ ParamThread \in Threads /\ Streams \subseteq Threads
  /\ NoThread \notin Threads /\ NoClient \notin Streams
  /\ \A s \in Streams : On(s) = s
  /\ On(ParamThread) = target
BY StreamAssumption, SessionAssumption DEF Threads, Streams, On

\* While an answer is being delivered a walk is under way.
LEMMA NoHandlerWhenFree ==
  StreamInv /\ WalkOver => handler = NoHandler
BY DEF StreamInv, HandlerFitsWalk, WalkOver

\* What the invariant says of answers and of STARTED ports is kept by a step that starts no port
\* and touches neither the walk nor the cookies.
LEMMA TellingKept ==
  ASSUME StreamInv, UNCHANGED << report, announced, observers, cookie, handler, late >>,
         \A s \in Streams : state'[s] = "STARTED" => state[s] = "STARTED"
  PROVE  HandlerFitsWalk' /\ AnswersMarked' /\ StartedIsToldYet'
<1>1. HandlerFitsWalk' /\ AnswersMarked'
  BY DEF StreamInv, HandlerFitsWalk, AnswersMarked
<1>2. StartedIsToldYet'
  BY DEF StreamInv, StartedIsToldYet
<1> QED BY <1>1, <1>2

-----------------------------------------------------------------------------
\* The threads inside a stream.

\* Where the thread t may go next without leaving the function it is in.
StaysInside(t, next) ==
  /\ next \in Places
  /\ IF op[t] = "close" THEN pc[t] \in ClosePlaces /\ next \in ClosePlaces
     ELSE IF t = ParamThread THEN pc[t] \in ParamInside /\ next \in ParamInside
     ELSE pc[t] \in StreamInside /\ next \in StreamInside

LEMMA ReadsStay ==
  \A r \in Reads :
    /\ r[1] \notin FreePlaces \cup OpenPlaces \cup { "stop", "stop_call", "stop_in", "tear", "next" }
    /\ r[1] = "close" => r[3] \in ClosePlaces /\ r[4] \in ClosePlaces
    /\ r[1] \in StreamInside => r[3] \in StreamInside /\ r[4] \in StreamInside
    /\ r[1] \in ParamInside => r[3] \in ParamInside /\ r[4] \in ParamInside
BY DEF Reads, FreePlaces, OpenPlaces, ClosePlaces, StreamInside, ParamInside, StreamReadPlaces, ParamReadPlaces,
       PortLabels, InStack

\* A thread whose place is none of an opening, of a wait for a mutex or of the data is inside.
LEMMA InsideByPlace ==
  ASSUME PlacesFitCalls, NEW t \in Threads, pc[t] \notin FreePlaces \cup OpenPlaces \cup { "next" }
  PROVE  IF op[t] = "close" THEN pc[t] \in ClosePlaces /\ t \in Streams
         ELSE IF t = ParamThread THEN pc[t] \in ParamInside ELSE pc[t] \in StreamInside /\ t \in Streams
<1>1. CASE t = ParamThread
  BY <1>1 DEF PlacesFitCalls, FreePlaces, ParamOps
<1>2. CASE t \in Streams
  BY <1>2, ThreadsApart DEF PlacesFitCalls, PlaybackOps
<1> QED BY <1>1, <1>2 DEF Threads

\* The thread inside works on a stream that exists.
LEMMA InsideOnStream ==
  ASSUME StreamInv, NEW t \in Threads, pc[t] \notin FreePlaces \cup OpenPlaces \cup { "next" }
  PROVE  On(t) \in Streams
<1>1. CASE t = ParamThread
  <2>1. pc[t] \notin { "idle", "next" }
    BY DEF FreePlaces
  <2> QED BY <1>1, <2>1, ThreadsApart DEF StreamInv, ParamsWalkOpened, StreamTypeOK
<1>2. CASE t \in Streams
  BY <1>2, ThreadsApart
<1> QED BY <1>1, <1>2 DEF Threads

LEMMA ReadsMove ==
  ASSUME StreamInv, NEW t \in Threads, StreamReads(t)
  PROVE  \E next : StaysInside(t, next) /\ Goto(t, next) /\ UNCHANGED state
<1>1. PICK r \in Reads : Test(t, r[1], r[2], r[3], r[4])
  BY DEF StreamReads
<1>2. pc[t] = r[1] /\ (Goto(t, r[3]) \/ Goto(t, r[4])) /\ UNCHANGED state
  BY <1>1 DEF Test, At, port_state
<1>3. pc[t] \notin FreePlaces \cup OpenPlaces \cup { "stop", "stop_call", "stop_in", "tear", "next" }
  BY <1>2, ReadsStay
<1>4. IF op[t] = "close" THEN pc[t] \in ClosePlaces
      ELSE IF t = ParamThread THEN pc[t] \in ParamInside ELSE pc[t] \in StreamInside
  BY <1>3, InsideByPlace DEF StreamInv
<1>5. op[t] = "close" => pc[t] = "close"
  BY <1>3, <1>4 DEF ClosePlaces
<1>6. StaysInside(t, r[3]) /\ StaysInside(t, r[4])
  BY <1>2, <1>4, <1>5, ReadsStay DEF StaysInside, Places
<1> QED BY <1>2, <1>6

\* Start, Suspend and Stop: the steps set no port STARTED, and a close goes from Stop to TearDown.
LEMMA PortMoves ==
  ASSUME StreamInv, NEW t \in Threads, PortStep(t) \/ StackReturns(t)
  PROVE  \E next : /\ StaysInside(t, next) /\ Goto(t, next)
                   /\ UNCHANGED state \/ \E st \in PortStates \ {"STARTED"} : SetState(On(t), st)
<1>1. pc[t] \in PortLabels
  BY DEF PortStep, StartReads, StartSets, StartCalls, StartWaits, SuspendReads, SuspendSets, SuspendCalls,
         SuspendWaits, StopSets, StopCalls, StackReturns, Test, At, PortLabels, InStack
<1>2. IF op[t] = "close" THEN pc[t] \in ClosePlaces /\ t \in Streams
      ELSE IF t = ParamThread THEN pc[t] \in ParamInside ELSE pc[t] \in StreamInside /\ t \in Streams
  <2>1. pc[t] \notin FreePlaces \cup OpenPlaces \cup { "next" }
    BY <1>1 DEF PortLabels, InStack, FreePlaces, OpenPlaces
  <2> QED BY <2>1, InsideByPlace DEF StreamInv
<1>3. t \in Streams => op[t] # "A2dpSuspended=true"
  BY ThreadsApart DEF StreamInv, PlacesFitCalls, PlaybackOps
<1>4. CASE pc[t] \notin { "stop", "stop_call", "stop_in" }
  <2>1. op[t] # "close"
    BY <1>1, <1>2, <1>4 DEF PortLabels, InStack, ClosePlaces
  <2>2. \A next \in PortLabels \cup { "ok", "fail" } : StaysInside(t, next)
    BY <1>2, <2>1 DEF StaysInside, Places, StreamInside, ParamInside
  <2>3. \A result \in { "ok", "fail" } : StaysInside(t, FromSuspend(t, result))
    <3>1. CASE op[t] = "A2dpSuspended=true"
      BY <1>2, <1>3, <2>1, <3>1 DEF StaysInside, Places, ParamInside, FromSuspend, Threads
    <3>2. CASE op[t] # "A2dpSuspended=true"
      BY <2>2, <3>2 DEF FromSuspend
    <3> QED BY <3>1, <3>2
  <2>4. CASE StartReads(t) \/ StartCalls(t) \/ StartWaits(t)
    BY <2>2, <2>4 DEF StartReads, StartCalls, StartWaits, Test, port_state, PortLabels, InStack
  <2>5. CASE StartSets(t) \/ SuspendSets(t)
    BY <2>2, <2>5 DEF StartSets, SuspendSets, PortStates, PortLabels
  <2>6. CASE SuspendReads(t)
    <3>1. Goto(t, "suspend_set") \/ Goto(t, FromSuspend(t, "fail"))
      BY <2>6 DEF SuspendReads, Test
    <3> QED BY <2>2, <2>3, <2>6, <3>1 DEF SuspendReads, Test, port_state, PortLabels
  <2>7. CASE SuspendCalls(t)
    <3>1. Goto(t, "suspend_in") \/ Goto(t, FromSuspend(t, "fail"))
      BY <2>7 DEF SuspendCalls
    <3> QED BY <2>2, <2>3, <2>7, <3>1 DEF SuspendCalls, port_state, PortLabels, InStack
  <2>8. CASE SuspendWaits(t)
    <3>1. Goto(t, FromSuspend(t, "ok")) \/ Goto(t, FromSuspend(t, "fail"))
      BY <2>8 DEF SuspendWaits
    <3> QED BY <2>3, <2>8, <3>1 DEF SuspendWaits, port_state
  <2>9. CASE StackReturns(t)
    <3>1. PICK next \in { "start_wait", "suspend_wait", "fail", FromSuspend(t, "fail") } : Goto(t, next)
      BY <1>4, <2>9 DEF StackReturns, At
    <3>2. StaysInside(t, next)
      BY <2>2, <2>3 DEF PortLabels
    <3> QED BY <2>9, <3>1, <3>2 DEF StackReturns, port_state
  <2> QED BY <1>4, <2>4, <2>5, <2>6, <2>7, <2>8, <2>9 DEF PortStep, StopSets, StopCalls, At
<1>5. CASE pc[t] = "stop"
  <2>1. StopSets(t)
    BY <1>5 DEF PortStep, StartReads, StartSets, StartCalls, StartWaits, SuspendReads, SuspendSets, SuspendCalls,
                SuspendWaits, StopCalls, StackReturns, Test, At
  <2>2. StaysInside(t, "stop_call")
    BY <1>2, <1>5 DEF StaysInside, Places, ClosePlaces, StreamInside, ParamInside, PortLabels
  <2> QED BY <2>1, <2>2 DEF StopSets, PortStates
<1>6. CASE pc[t] = "stop_call"
  <2>1. StopCalls(t)
    BY <1>6 DEF PortStep, StartReads, StartSets, StartCalls, StartWaits, SuspendReads, SuspendSets, SuspendCalls,
                SuspendWaits, StopSets, StackReturns, Test, At
  <2>2. StaysInside(t, "stop_in") /\ StaysInside(t, AfterStop(t))
    BY <1>2, <1>6 DEF StaysInside, AfterStop, Places, ClosePlaces, StreamInside, ParamInside, PortLabels, InStack
  <2> QED BY <2>1, <2>2 DEF StopCalls, port_state
<1>7. CASE pc[t] = "stop_in"
  <2>1. StackReturns(t) /\ Goto(t, AfterStop(t))
    BY <1>7 DEF PortStep, StartReads, StartSets, StartCalls, StartWaits, SuspendReads, SuspendSets, SuspendCalls,
                SuspendWaits, StopSets, StopCalls, StackReturns, Test, At
  <2>2. StaysInside(t, AfterStop(t))
    BY <1>2, <1>7 DEF StaysInside, AfterStop, Places, ClosePlaces, StreamInside, ParamInside, PortLabels, InStack
  <2> QED BY <2>1, <2>2 DEF StackReturns, port_state
<1> QED BY <1>4, <1>5, <1>6, <1>7

\* A step inside a stream keeps the invariant.
LEMMA InsideStepInv ==
  ASSUME StreamInv, NEW t \in Threads, NEW next, StaysInside(t, next), Goto(t, next),
         UNCHANGED << cookie, handler, op, target, rest, lock_state, late, report, announced, observers, granted >>,
         asked' \in [ start : 0 .. MaxAsked, suspend : 0 .. MaxAsked ], streaming' \in BOOLEAN,
         UNCHANGED state \/ \E st \in PortStates \ {"STARTED"} : SetState(On(t), st)
  PROVE  StreamInv'
<1> USE DEF lock_state
<1>1. /\ StreamTypeOK /\ PlacesFitCalls /\ PortFollowsLife /\ ParamsWalkOpened /\ InsideHoldsMutex
      /\ next \in Places
  BY DEF StreamInv, StaysInside
<1>2. /\ pc' \in [ Threads -> Places ] /\ pc'[t] = next
      /\ \A u \in Threads \ {t} : pc'[u] = pc[u]
  BY <1>1, WentTo
<1>3. pc[t] \notin FreePlaces \cup OpenPlaces \cup { "next" } /\ next \notin FreePlaces \cup OpenPlaces \cup { "next" }
  BY PlacesApart DEF StaysInside, StreamInside, ParamInside, ClosePlaces, FreePlaces, OpenPlaces, StreamReadPlaces,
                     ParamReadPlaces, PortLabels, InStack
<1>4. /\ state' \in [ Streams -> PortStates ]
      /\ \A s \in Streams : state'[s] = "STARTED" => state[s] = "STARTED"
  <2>1. CASE UNCHANGED state
    BY <1>1, <2>1 DEF StreamTypeOK
  <2>2. ASSUME NEW st \in PortStates \ {"STARTED"}, SetState(On(t), st)
        PROVE  /\ state' \in [ Streams -> PortStates ]
               /\ \A s \in Streams : state'[s] = "STARTED" => state[s] = "STARTED"
    BY <1>1, <1>3, <2>2, InsideOnStream, StateSet
  <2> QED BY <2>1, <2>2
<1>5. StreamTypeOK'
  BY <1>1, <1>2, <1>4 DEF StreamTypeOK
<1>6. PlacesFitCalls'
  <2>1. CASE t = ParamThread
    <3>1. op[t] # "close" /\ pc[t] # "idle" /\ next # "idle" /\ next \in ParamInside
      BY <1>1, <1>3, <2>1 DEF PlacesFitCalls, StaysInside, ParamOps, FreePlaces
    <3> QED BY <1>1, <1>2, <2>1, <3>1, ThreadsApart DEF PlacesFitCalls
  <2>2. CASE t \in Streams
    <3>1. pc[t] \notin { "lock", "idle" } /\ next \notin { "lock", "idle" }
      BY <1>3 DEF FreePlaces
    <3>2. \/ next \in ClosePlaces /\ op[t] = "close"
          \/ next \in StreamInside /\ op[t] \in PlaybackOps \cup { "none" }
      BY <1>1, <1>3, <2>2, ThreadsApart DEF PlacesFitCalls, StaysInside, PlaybackOps
    <3> QED BY <1>1, <1>2, <2>2, <3>1, <3>2, ThreadsApart DEF PlacesFitCalls
  <2> QED BY <2>1, <2>2 DEF Threads
<1>7. PortFollowsLife'
  BY <1>1, <1>2, <1>3, ThreadsApart DEF PortFollowsLife, OpenPlaces
<1>8. ParamsWalkOpened'
  BY <1>1, <1>2, <1>3, ThreadsApart DEF ParamsWalkOpened, FreePlaces
<1>9. InsideHoldsMutex'
  <2>1. \A s \in Streams : pc'[s] \in StreamInside /\ op[s] # "close" => pc[s] \in StreamInside
    BY <1>2, ThreadsApart DEF StaysInside
  <2>2. pc'[ParamThread] \in ParamInside => pc[ParamThread] \in ParamInside
    BY <1>1, <1>2, ThreadsApart DEF StaysInside, PlacesFitCalls, ParamOps
  <2> QED BY <1>1, <2>1, <2>2 DEF InsideHoldsMutex
<1>10. HandlerFitsWalk' /\ AnswersMarked' /\ StartedIsToldYet'
  BY <1>4, TellingKept
<1> QED BY <1>5, <1>6, <1>7, <1>8, <1>9, <1>10 DEF StreamInv

\* The rest of the invariant follows where a step leaves it alone.
LEMMA WorkInv ==
  ASSUME StreamInv, NEW t \in Threads, PortStep(t) \/ StackReturns(t) \/ StreamReads(t)
  PROVE  StreamInv'
<1>1. /\ UNCHANGED << cookie, handler, op, target, rest, lock_state, late, report, announced, observers, granted >>
      /\ asked' \in [ start : 0 .. MaxAsked, suspend : 0 .. MaxAsked ] /\ streaming' \in BOOLEAN
  <2>1. CASE StreamReads(t)
    <3>1. UNCHANGED << port_state, op, target, rest, lock_state, stack_state, providerVars >>
      BY <2>1 DEF StreamReads, Test
    <3> QED BY <3>1 DEF StreamInv, StreamTypeOK, port_state, stack_state, providerVars, sessionVars, table_state
  <2>2. CASE PortStep(t) \/ StackReturns(t)
    <3>1. /\ UNCHANGED << cookie, handler, op, target, rest, lock_state, late, report, announced, observers, granted >>
          /\ streaming' \in { streaming, FALSE }
          /\ \/ asked' = asked
             \/ asked' = [ asked EXCEPT !.start = IF @ < MaxAsked THEN @ + 1 ELSE @ ]
             \/ asked' = [ asked EXCEPT !.suspend = IF @ < MaxAsked THEN @ + 1 ELSE @ ]
      BY <2>2
      DEF PortStep, StartReads, StartSets, StartCalls, StartWaits, SuspendReads, SuspendSets, SuspendCalls,
          SuspendWaits, StopSets, StopCalls, StackReturns, EntersStack, LeavesStack, Test, port_state, stack_state,
          providerVars, sessionVars, table_state
    <3>2. asked \in [ start : 0 .. MaxAsked, suspend : 0 .. MaxAsked ] /\ streaming \in BOOLEAN /\ MaxAsked \in Nat
      BY StreamAssumption DEF StreamInv, StreamTypeOK
    <3>3. asked' \in [ start : 0 .. MaxAsked, suspend : 0 .. MaxAsked ]
      BY <3>1, <3>2
    <3> QED BY <3>1, <3>2, <3>3
  <2> QED BY <2>1, <2>2
<1>2. \E next : /\ StaysInside(t, next) /\ Goto(t, next)
                /\ UNCHANGED state \/ \E st \in PortStates \ {"STARTED"} : SetState(On(t), st)
  BY ReadsMove, PortMoves
<1> QED BY <1>1, <1>2, InsideStepInv

-----------------------------------------------------------------------------
\* The binder threads.

\* What a binder thread does to the walk: nothing, or it begins one when none is under way, and only
\* a session_changed walk says of the session what was not said before.
LEMMA WhatThreadsReport ==
  ASSUME NEW t \in BinderThreads, ThreadGoesOn(t)
  PROVE  /\ UNCHANGED << observers, granted >>
         /\ \/ UNCHANGED << report, announced >>
            \/ WalkOver /\ Broadcast("session_changed", FALSE, "SUCCESS")
            \/ /\ WalkOver /\ UNCHANGED announced
               /\ \E cb \in Callbacks \ { "none", "session_changed" } : \E start_resp, status :
                    Broadcast(cb, start_resp, status)
<1> USE DEF table_state, MutexFree
<1>1. CASE OnSessionReady(t)
  BY <1>1 DEF OnSessionReady, OnSessionStarted, ReportSessionStatus
<1>2. CASE EndingSession(t) \/ DeathEndsSession(t)
  BY <1>2 DEF EndingSession, DeathEndsSession, OnSessionEnded, ReportSessionStatus
<1>3. CASE SessionEnded(t) \/ CallReturns(t)
  BY <1>3 DEF SessionEnded, CallReturns, sessionVars
<1>4. CASE ReportResult(t)
  BY <1>4 DEF ReportResult, ReportControlStatus, Callbacks
<1>5. CASE ReportConfig(t)
  BY <1>5 DEF ReportConfig, ReportAudioConfigChanged, Callbacks
<1>6. CASE ReportLowLatency(t)
  BY <1>6 DEF ReportLowLatency, ReportLowLatencyModeAllowedChanged, Callbacks
<1> QED BY <1>1, <1>2, <1>3, <1>4, <1>5, <1>6 DEF ThreadGoesOn

\* A port with a cookie is in the table.
LEMMA CookieRegistered ==
  ASSUME StreamInv, SessionInv, NEW s \in Streams, cookie[s] # NoCookie
  PROVE  cookie[s] \in Registered /\ observers[cookie[s]] = s
<1>1. cookie[s] = granted[s] /\ cookie[s] \in Cookies
  BY DEF StreamInv, PortFollowsLife, StreamTypeOK
<1>2. observers[cookie[s]] = s
  BY <1>1 DEF SessionInv, CookiesMatch, Streams
<1> QED BY <1>1, <1>2, ThreadsApart DEF Registered

\* A step that may begin a walk when none is under way, and touches no stream.
LEMMA ReportedInv ==
  ASSUME StreamInv, SessionInv, Untouched, MarksLate, UNCHANGED << observers, granted >>,
         asked' \in [ start : 0 .. MaxAsked, suspend : 0 .. MaxAsked ], streaming' \in BOOLEAN,
         \/ UNCHANGED << report, announced >>
         \/ WalkOver /\ Broadcast("session_changed", FALSE, "SUCCESS")
         \/ /\ WalkOver /\ UNCHANGED announced
            /\ \E cb \in Callbacks \ { "none", "session_changed" } : \E start_resp, status :
                 Broadcast(cb, start_resp, status)
  PROVE  StreamInv'
<1>1. UNCHANGED << state, cookie, handler, pc, op, target, rest, slock, devlock, opened >>
  BY DEF Untouched, port_state, thread_state, lock_state
<1>2. UNCHANGED << observers, granted >>
  OBVIOUS
<1>3. late \in BOOLEAN /\ late' \in BOOLEAN
  BY DEF MarksLate, StreamInv, StreamTypeOK
<1>4. StreamTypeOK'
  BY <1>1, <1>3 DEF StreamInv, StreamTypeOK
<1>5. PlacesFitCalls' /\ PortFollowsLife' /\ ParamsWalkOpened' /\ InsideHoldsMutex'
  BY <1>1, <1>2 DEF StreamInv, PlacesFitCalls, PortFollowsLife, ParamsWalkOpened, InsideHoldsMutex
<1>6. HandlerFitsWalk' /\ AnswersMarked' /\ StartedIsToldYet'
  <2>1. CASE UNCHANGED << report, announced >>
    <3>1. late => late'
      BY <1>3, <2>1 DEF MarksLate
    <3> QED BY <1>1, <1>2, <1>3, <2>1, <3>1 DEF StreamInv, HandlerFitsWalk, AnswersMarked, StartedIsToldYet
  <2>2. CASE WalkOver /\ Broadcast("session_changed", FALSE, "SUCCESS")
    <3>1. handler' = NoHandler
      BY <1>1, <2>2, NoHandlerWhenFree
    <3>2. report'.cb \in { "none", "session_changed" }
      BY <2>2 DEF Broadcast, NoReport
    <3>3. ASSUME NEW s \in Streams, state'[s] = "STARTED"
          PROVE  /\ cookie'[s] # NoCookie
                 /\ report'.cb = "session_changed" /\ cookie'[s] \in report'.todo
      <4>1. cookie[s] # NoCookie
        BY <1>1, <3>3 DEF StreamInv, StartedIsToldYet
      <4>2. cookie[s] \in Registered
        BY <4>1, CookieRegistered
      <4> QED BY <1>1, <2>2, <4>1, <4>2 DEF Broadcast
    <3> QED BY <3>1, <3>2, <3>3 DEF HandlerFitsWalk, AnswersMarked, StartedIsToldYet
  <2>3. CASE /\ WalkOver /\ UNCHANGED announced
             /\ \E cb \in Callbacks \ { "none", "session_changed" } : \E start_resp, status :
                  Broadcast(cb, start_resp, status)
    <3>1. handler' = NoHandler
      BY <1>1, <2>3, NoHandlerWhenFree
    <3>2. late' = (late \/ (report'.cb = "control_result" /\ ~announced))
      BY <2>3 DEF MarksLate
    <3>3. ASSUME NEW s \in Streams, state'[s] = "STARTED"
          PROVE  cookie'[s] # NoCookie /\ (announced' \/ late')
      BY <1>1, <2>3, <3>2, <3>3 DEF StreamInv, StartedIsToldYet, WalkOver
    <3> QED BY <2>3, <3>1, <3>2, <3>3 DEF HandlerFitsWalk, AnswersMarked, StartedIsToldYet
  <2> QED BY <2>1, <2>2, <2>3
<1> QED BY <1>4, <1>5, <1>6 DEF StreamInv

LEMMA BinderStepInv ==
  ASSUME StreamInv, SessionInv, NEW t \in BinderThreads, BinderStep(t)
  PROVE  StreamInv'
<1>1. ThreadGoesOn(t) /\ MarksLate /\ Untouched /\ UNCHANGED << asked, streaming >>
  BY DEF BinderStep
<1>2. asked' \in [ start : 0 .. MaxAsked, suspend : 0 .. MaxAsked ] /\ streaming' \in BOOLEAN
  BY <1>1 DEF StreamInv, StreamTypeOK
<1> QED BY <1>1, <1>2, WhatThreadsReport, ReportedInv

\* What the stack was asked to answer shrinks with what it says.
LEMMA SaysWhatItMeans ==
  ASSUME StreamInv, NEW start_resp \in BOOLEAN, NEW status \in Statuses, MeansToSay(start_resp, status)
  PROVE  asked' \in [ start : 0 .. MaxAsked, suspend : 0 .. MaxAsked ] /\ streaming' \in BOOLEAN
<1>1. /\ asked \in [ start : 0 .. MaxAsked, suspend : 0 .. MaxAsked ] /\ streaming \in BOOLEAN
      /\ MaxAsked \in Nat
  BY StreamAssumption DEF StreamInv, StreamTypeOK
<1>2. \/ asked.start > 0 /\ asked' = [ asked EXCEPT !.start = @ - 1 ]
      \/ asked.suspend > 0 /\ asked' = [ asked EXCEPT !.suspend = @ - 1 ]
      \/ asked' = asked
  BY DEF MeansToSay
<1>3. asked.start \in 0 .. MaxAsked /\ asked.suspend \in 0 .. MaxAsked
  BY <1>1
<1>4. asked' \in [ start : 0 .. MaxAsked, suspend : 0 .. MaxAsked ]
  BY <1>1, <1>2, <1>3
<1> QED BY <1>1, <1>4 DEF MeansToSay

\* The stack's calls enter threads, but for an answer from inside a call: that walks at once.
LEMMA StackStepInv ==
  ASSUME StreamInv, SessionInv, StackStep
  PROVE  StreamInv'
<1> DEFINE Asked == [ start : 0 .. MaxAsked, suspend : 0 .. MaxAsked ]
<1>1. ASSUME NEW start_resp \in BOOLEAN, NEW status \in Statuses, AnswersWithin(start_resp, status)
      PROVE  StreamInv'
  <2>1. /\ Untouched /\ MarksLate /\ UNCHANGED << observers, granted, announced >> /\ WalkOver
        /\ Broadcast("control_result", start_resp, status)
    BY <1>1 DEF AnswersWithin, AnswersInside, table_state
  <2>2. asked' \in Asked /\ streaming' \in BOOLEAN
    BY <1>1, SaysWhatItMeans DEF AnswersWithin
  <2>3. "control_result" \in Callbacks \ { "none", "session_changed" }
    BY DEF Callbacks
  <2> QED BY <2>1, <2>2, <2>3, ReportedInv
<1>2. ASSUME Untouched, UNCHANGED << sessionVars, late >>, asked' \in Asked, streaming' \in BOOLEAN
      PROVE  StreamInv'
  <2>1. UNCHANGED << state, cookie, handler, pc, op, target, rest, slock, devlock, opened, late,
                     report, announced, observers, granted >>
    BY <1>2 DEF Untouched, port_state, thread_state, lock_state, sessionVars, table_state
  <2>2. StreamTypeOK'
    BY <1>2, <2>1 DEF StreamInv, StreamTypeOK
  <2>3. PlacesFitCalls' /\ PortFollowsLife' /\ ParamsWalkOpened' /\ InsideHoldsMutex'
    BY <2>1 DEF StreamInv, PlacesFitCalls, PortFollowsLife, ParamsWalkOpened, InsideHoldsMutex
  <2>4. HandlerFitsWalk' /\ AnswersMarked' /\ StartedIsToldYet'
    BY <2>1, TellingKept
  <2> QED BY <2>2, <2>3, <2>4 DEF StreamInv
<1>3. CASE StackForgets /\ UNCHANGED sessionVars
  <2>1. 0 \in 0 .. MaxAsked
    BY StreamAssumption
  <2>2. [ start |-> 0, suspend |-> 0 ] \in Asked
    BY <2>1
  <2> QED BY <1>2, <1>3, <2>2 DEF StackForgets
<1>4. ASSUME NEW t \in BinderThreads, NEW h \in Hosts, NEW start_resp \in BOOLEAN, NEW status \in Statuses,
             Answers(t, h, start_resp, status)
      PROVE  StreamInv'
  <2>1. Untouched /\ UNCHANGED << sessionVars, late >>
    BY <1>4 DEF Answers, StreamResult
  <2>2. asked' \in Asked /\ streaming' \in BOOLEAN
    BY <1>4, SaysWhatItMeans DEF Answers
  <2> QED BY <1>2, <2>1, <2>2
<1>5. CASE Untouched /\ UNCHANGED << stack_state, sessionVars >>
  BY <1>2, <1>5 DEF stack_state, StreamInv, StreamTypeOK
<1>6. \/ \E start_resp \in BOOLEAN, status \in Statuses : AnswersWithin(start_resp, status)
      \/ StackForgets /\ UNCHANGED sessionVars
      \/ \E t \in BinderThreads, h \in Hosts, start_resp \in BOOLEAN, status \in Statuses :
           Answers(t, h, start_resp, status)
      \/ Untouched /\ UNCHANGED << stack_state, sessionVars >>
  BY DEF StackStep, StackDies, StartSession, EndSession, BinderDied
<1> QED BY <1>1, <1>3, <1>4, <1>5, <1>6

-----------------------------------------------------------------------------
\* The callbacks of the ports.

\* A callback that returns takes its observer off the walk; the walk stays the same otherwise, or
\* is over with nobody left.
LEMMA CallbackReturned ==
  ASSUME SessionInv, NEW k \in report.todo, CallsBack(k)
  PROVE  /\ UNCHANGED << announced, observers, granted >>
         /\ report'.todo = report.todo \ {k}
         /\ report'.cb \in { report.cb, "none" }
         /\ report'.todo # {} => report'.cb = report.cb
<1>1. Called(k) /\ UNCHANGED << announced, observers, granted >>
  BY DEF CallsBack, DeliverTo, table_state
<1>2. report \in [ cb : Callbacks, start_resp : BOOLEAN, status : Statuses, todo : SUBSET Cookies ]
  BY DEF SessionInv, SessionTypeOK
<1>3. CASE report.todo = {k}
  BY <1>1, <1>3 DEF Called, NoReport
<1>4. CASE report.todo # {k}
  <2>1. report' = [ report EXCEPT !.todo = @ \ {k} ]
    BY <1>1, <1>4 DEF Called
  <2> QED BY <1>1, <1>2, <2>1
<1> QED BY <1>3, <1>4

\* An observer called by the walk is an output that is registered.
LEMMA ObserverCalled ==
  ASSUME SessionInv, NEW k \in report.todo
  PROVE  /\ k \in Cookies /\ observers[k] \in Streams /\ granted[observers[k]] = k
         /\ k # NoCookie
BY SessionAssumption DEF SessionInv, WalkVisitsRegistered, CookiesMatch, Registered, SessionTypeOK, Streams

\* The callback with cookie k returns: what it may have set is the state of the port called, and it
\* leaves that STARTED only by a report of a session announced, or by a late one.
LEMMA CallbackInv ==
  ASSUME StreamInv, SessionInv, NEW k \in report.todo, CallsBack(k),
         UNCHANGED << cookie, thread_state, lock_state, stack_state >>, handler' = NoHandler,
         state' \in [ Streams -> PortStates ],
         \A s \in Streams \ { observers[k] } : state'[s] = state[s],
         state'[observers[k]] = "STARTED" => cookie[observers[k]] # NoCookie /\ (announced \/ late)
  PROVE  StreamInv'
<1> USE DEF thread_state, lock_state, stack_state
<1>1. /\ UNCHANGED << announced, observers, granted >>
      /\ report'.todo = report.todo \ {k}
      /\ report'.cb \in { report.cb, "none" }
      /\ report'.todo # {} => report'.cb = report.cb
  BY CallbackReturned
<1>2. NoHandler \in [ cookie : Cookies \cup {NoCookie}, previous : PortStates ]
  BY DEF NoHandler, PortStates
<1>3. StreamTypeOK'
  BY <1>2 DEF StreamInv, StreamTypeOK
<1>4. PlacesFitCalls' /\ PortFollowsLife' /\ ParamsWalkOpened' /\ InsideHoldsMutex'
  BY <1>1 DEF StreamInv, PlacesFitCalls, PortFollowsLife, ParamsWalkOpened, InsideHoldsMutex
<1>5. HandlerFitsWalk' /\ AnswersMarked'
  BY <1>1 DEF StreamInv, HandlerFitsWalk, AnswersMarked
<1>6. StartedIsToldYet'
  <2> SUFFICES ASSUME NEW s \in Streams, state'[s] = "STARTED"
               PROVE  /\ cookie[s] # NoCookie
                      /\ ~announced /\ ~late => report'.cb = "session_changed" /\ cookie[s] \in report'.todo
    BY <1>1 DEF StartedIsToldYet
  <2>1. CASE s # observers[k]
    <3>1. state[s] = "STARTED"
      BY <2>1
    <3>2. /\ cookie[s] # NoCookie
          /\ ~announced /\ ~late => report.cb = "session_changed" /\ cookie[s] \in report.todo
      BY <3>1 DEF StreamInv, StartedIsToldYet
    <3>3. cookie[s] # k
      BY <2>1, <3>2, CookieRegistered
    <3> QED BY <1>1, <3>2, <3>3
  <2> QED BY <2>1
<1> QED BY <1>3, <1>4, <1>5, <1>6 DEF StreamInv

LEMMA CallbackDroppedInv ==
  ASSUME StreamInv, SessionInv, NEW k \in report.todo, CallbackDropped(k)
  PROVE  StreamInv'
<1>1. /\ CallsBack(k) /\ UNCHANGED << state, cookie, thread_state, lock_state, stack_state >>
      /\ handler' = NoHandler
      /\ cookie[observers[k]] # k \/ report.cb # "session_changed"
  BY DEF CallbackDropped, port_state
<1>2. observers[k] \in Streams /\ granted[observers[k]] = k
  BY ObserverCalled
<1>3. state \in [ Streams -> PortStates ]
  BY DEF StreamInv, StreamTypeOK
<1>4. ASSUME state[observers[k]] = "STARTED"
      PROVE  cookie[observers[k]] # NoCookie /\ (announced \/ late)
  <2>1. cookie[observers[k]] # NoCookie
    BY <1>2, <1>4 DEF StreamInv, StartedIsToldYet
  <2>2. cookie[observers[k]] = k
    BY <1>2, <2>1 DEF StreamInv, PortFollowsLife
  <2> QED BY <1>1, <1>2, <1>4, <2>1, <2>2 DEF StreamInv, StartedIsToldYet
<1> QED BY <1>1, <1>3, <1>4, CallbackInv

LEMMA SessionChangedInv ==
  ASSUME StreamInv, SessionInv, NEW k \in report.todo, SessionChanged(k)
  PROVE  StreamInv'
<1>1. /\ CallsBack(k) /\ UNCHANGED << cookie, thread_state, lock_state, stack_state >>
      /\ SetState(observers[k], "DISABLED") /\ UNCHANGED handler /\ report.cb = "session_changed"
  BY DEF SessionChanged
<1>2. handler' = NoHandler
  BY <1>1 DEF StreamInv, HandlerFitsWalk
<1>3. observers[k] \in Streams
  BY ObserverCalled
<1>4. /\ state' \in [ Streams -> PortStates ] /\ state'[observers[k]] = "DISABLED"
      /\ \A s \in Streams \ { observers[k] } : state'[s] = state[s]
  BY <1>1, <1>3, StateSet DEF StreamInv, PortStates
<1> QED BY <1>1, <1>2, <1>4, CallbackInv

\* What follows a state of a port is a state of it.
LEMMA OutcomeState ==
  \A previous \in PortStates : \A status : Outcome(previous, status) \in PortStates
BY DEF Outcome, PortStates

LEMMA ControlResultReadsInv ==
  ASSUME StreamInv, SessionInv, NEW k \in report.todo, ControlResultReads(k)
  PROVE  StreamInv'
<1> USE DEF thread_state, lock_state, stack_state
<1>1. /\ UNCHANGED << state, cookie, thread_state, lock_state, stack_state >>
      /\ handler = NoHandler /\ report.cb = "control_result" /\ cookie[observers[k]] = k
  BY DEF ControlResultReads
<1>2. k \in Cookies /\ observers[k] \in Streams /\ k # NoCookie
  BY ObserverCalled
<1>3. state \in [ Streams -> PortStates ]
  BY DEF StreamInv, StreamTypeOK
<1>4. CASE CallsBack(k) /\ UNCHANGED handler
  <2>1. announced \/ late
    BY <1>1 DEF StreamInv, AnswersMarked
  <2>2. handler' = NoHandler
    BY <1>1, <1>4
  <2>3. state' \in [ Streams -> PortStates ]
    BY <1>1, <1>3
  <2>4. /\ \A s \in Streams \ { observers[k] } : state'[s] = state[s]
        /\ cookie[observers[k]] # NoCookie
    BY <1>1, <1>2
  <2> QED BY <1>1, <1>4, <2>1, <2>2, <2>3, <2>4, CallbackInv
<1>5. CASE handler' = [ cookie |-> k, previous |-> state[observers[k]] ] /\ UNCHANGED providerVars
  <2>1. UNCHANGED << report, announced, observers, granted >>
    BY <1>5 DEF providerVars, sessionVars, table_state
  <2>2. handler' \in [ cookie : Cookies \cup {NoCookie}, previous : PortStates ] /\ handler'.cookie = k
    BY <1>2, <1>3, <1>5
  <2>3. StreamTypeOK'
    BY <1>1, <2>2 DEF StreamInv, StreamTypeOK
  <2>4. PlacesFitCalls' /\ PortFollowsLife' /\ ParamsWalkOpened' /\ InsideHoldsMutex'
    BY <1>1, <2>1 DEF StreamInv, PlacesFitCalls, PortFollowsLife, ParamsWalkOpened, InsideHoldsMutex
  <2>5. HandlerFitsWalk' /\ AnswersMarked' /\ StartedIsToldYet'
    BY <1>1, <2>1, <2>2 DEF StreamInv, HandlerFitsWalk, AnswersMarked, StartedIsToldYet
  <2> QED BY <2>3, <2>4, <2>5 DEF StreamInv
<1> QED BY <1>4, <1>5 DEF ControlResultReads

LEMMA ControlResultWritesInv ==
  ASSUME StreamInv, SessionInv, ControlResultWrites
  PROVE  StreamInv'
<1> DEFINE k == handler.cookie
<1> DEFINE o == observers[k]
<1>1. /\ handler # NoHandler /\ handler' = NoHandler /\ CallsBack(k)
      /\ SetState(o, Outcome(handler.previous, report.status))
      /\ UNCHANGED << cookie, thread_state, lock_state, stack_state >>
  BY DEF ControlResultWrites
<1>2. k \in report.todo /\ report.cb = "control_result" /\ cookie[o] = k
  BY <1>1 DEF StreamInv, HandlerFitsWalk
<1>3. o \in Streams /\ k # NoCookie
  BY <1>2, ObserverCalled
<1>4. Outcome(handler.previous, report.status) \in PortStates
  BY OutcomeState DEF StreamInv, StreamTypeOK
<1>5. /\ state' \in [ Streams -> PortStates ]
      /\ \A s \in Streams \ { o } : state'[s] = state[s]
  BY <1>1, <1>3, <1>4, StateSet DEF StreamInv
<1>6. announced \/ late
  BY <1>2 DEF StreamInv, AnswersMarked
<1> HIDE DEF k
<1> QED BY <1>1, <1>2, <1>3, <1>5, <1>6, CallbackInv

-----------------------------------------------------------------------------
\* The stream functions.

\* A step of a playback thread outside Start, Suspend and Stop: it enters a function, takes or lets
\* go of its own mutex, or goes on to the data.
LEMMA PlaybackStepInv ==
  ASSUME StreamInv, NEW s \in Streams, NEW next \in FreePlaces \cup StreamInside, NEW o \in PlaybackOps \cup { "none" },
         pc[s] \in FreePlaces \cup StreamInside, op[s] # "close",
         Goto(s, next), op' = [ op EXCEPT ![s] = o ], next = "lock" => o # "none",
         UNCHANGED << port_state, target, rest, devlock, opened, stack_state, providerVars >>,
         NEW holder \in { s, NoThread, slock[s] }, slock' = [ slock EXCEPT ![s] = holder ],
         holder = slock[s] \/ slock[s] \in { s, NoThread },
         next \in StreamInside => holder = s
  PROVE  StreamInv'
<1> USE DEF port_state, stack_state
<1>1. /\ StreamTypeOK /\ PlacesFitCalls /\ PortFollowsLife /\ ParamsWalkOpened /\ InsideHoldsMutex
      /\ next \in Places
  BY DEF StreamInv, Places
<1>2. UNCHANGED << report, announced, observers, granted >>
  BY DEF providerVars, sessionVars, table_state
<1>3. /\ pc' \in [ Threads -> Places ] /\ pc'[s] = next /\ \A t \in Threads \ {s} : pc'[t] = pc[t]
  BY <1>1, WentTo, ThreadsApart
<1>4. /\ op' \in [ Threads -> PlaybackOps \cup ParamOps \cup { "none", "close" } ]
      /\ op'[s] = o /\ \A t \in Threads \ {s} : op'[t] = op[t]
  BY <1>1, ThreadsApart DEF StreamTypeOK
<1>5. /\ slock' \in [ Streams -> Threads \cup {NoThread} ]
      /\ slock'[s] = holder /\ \A r \in Streams \ {s} : slock'[r] = slock[r]
  <2>1. slock \in [ Streams -> Threads \cup {NoThread} ]
    BY <1>1 DEF StreamTypeOK
  <2>2. holder \in Threads \cup {NoThread}
    BY <2>1, ThreadsApart
  <2> QED BY <2>1, <2>2
<1>6. StreamTypeOK'
  BY <1>1, <1>3, <1>4, <1>5 DEF StreamTypeOK
<1>7. PlacesFitCalls'
  BY <1>1, <1>3, <1>4, ThreadsApart DEF PlacesFitCalls
<1>8. PortFollowsLife'
  <2>1. pc[s] \notin OpenPlaces /\ next \notin OpenPlaces
    BY PlacesApart
  <2>2. o # "close"
    BY DEF PlaybackOps
  <2> QED BY <1>1, <1>2, <1>3, <1>4, <2>1, <2>2, ThreadsApart DEF PortFollowsLife, OpenPlaces
<1>9. ParamsWalkOpened'
  BY <1>1, <1>3, ThreadsApart DEF ParamsWalkOpened
<1>10. InsideHoldsMutex'
  <2>1. pc'[ParamThread] \in ParamInside => slock'[target] = ParamThread
    <3> SUFFICES ASSUME pc[ParamThread] \in ParamInside PROVE slock'[target] = ParamThread
      BY <1>3, ThreadsApart
    <3>1. slock[target] = ParamThread
      BY <1>1 DEF InsideHoldsMutex
    <3>2. target \in Streams
      BY <1>1, PlacesApart DEF ParamsWalkOpened, StreamTypeOK
    <3> QED BY <1>5, <3>1, <3>2, ThreadsApart
  <2>2. \A r \in Streams : pc'[r] \in StreamInside /\ op'[r] # "close" => slock'[r] = r
    BY <1>1, <1>3, <1>4, <1>5, ThreadsApart DEF InsideHoldsMutex
  <2> QED BY <2>1, <2>2 DEF InsideHoldsMutex
<1>11. HandlerFitsWalk' /\ AnswersMarked' /\ StartedIsToldYet'
  BY <1>2, TellingKept
<1> QED BY <1>6, <1>7, <1>8, <1>9, <1>10, <1>11 DEF StreamInv

\* What a playback thread at a place is in.
LEMMA PlaybackAt ==
  ASSUME StreamInv, NEW s \in Streams
  PROVE  /\ pc[s] \in FreePlaces => op[s] \in PlaybackOps \cup { "none" }
         /\ pc[s] \in { "ok", "fail" } => op[s] \in PlaybackOps \cup { "none" } /\ slock[s] = s
         /\ "none" \notin PlaybackOps /\ "close" \notin PlaybackOps
<1>1. "none" \notin PlaybackOps /\ "close" \notin PlaybackOps
  BY DEF PlaybackOps
<1>2. pc[s] \in FreePlaces \cup { "ok", "fail" } => op[s] \in PlaybackOps \cup { "none" }
  BY PlacesApart DEF StreamInv, PlacesFitCalls, OpenPlaces, ClosePlaces, FreePlaces
<1>3. pc[s] \in { "ok", "fail" } => slock[s] = s
  BY <1>1, <1>2 DEF StreamInv, InsideHoldsMutex, StreamInside
<1> QED BY <1>1, <1>2, <1>3

LEMMA EntersInv ==
  ASSUME StreamInv, NEW s \in Streams, OutWrite(s) \/ \E o \in PlaybackOps : Enters(s, o)
  PROVE  StreamInv'
<1> USE DEF lock_state
<1>1. /\ slock' = [ slock EXCEPT ![s] = slock[s] ] /\ op = [ op EXCEPT ![s] = op[s] ]
      /\ UNCHANGED << devlock, opened >>
  BY ThreadsApart DEF OutWrite, Enters, StreamInv, StreamTypeOK
<1>2. pc[s] = "idle" /\ pc[s] \in FreePlaces
  BY DEF OutWrite, Enters, At, FreePlaces
<1>3. op[s] \in PlaybackOps \cup { "none" } /\ op[s] # "close" /\ "write" \in PlaybackOps
  BY <1>2, PlaybackAt DEF PlaybackOps
<1>4. "lock" \in FreePlaces \ StreamInside /\ "data" \in FreePlaces \ StreamInside
  BY PlacesApart DEF FreePlaces
<1>5. \/ Goto(s, "data") /\ UNCHANGED op
      \/ \E o \in PlaybackOps : Goto(s, "lock") /\ op' = [ op EXCEPT ![s] = o ]
  BY <1>3 DEF OutWrite, Enters
<1>6. UNCHANGED << port_state, target, rest, stack_state, providerVars >>
  BY DEF OutWrite, Enters
<1>7. CASE Goto(s, "data") /\ UNCHANGED op
  BY <1>1, <1>2, <1>3, <1>4, <1>6, <1>7, PlaybackStepInv
<1>8. ASSUME NEW o \in PlaybackOps, Goto(s, "lock"), op' = [ op EXCEPT ![s] = o ] PROVE StreamInv'
  <2>1. o # "none"
    BY PlaybackAt
  <2> QED BY <1>1, <1>2, <1>3, <1>4, <1>6, <1>8, <2>1, PlaybackStepInv
<1> QED BY <1>5, <1>7, <1>8

LEMMA DataInv ==
  ASSUME StreamInv, NEW s \in Streams, WriteData(s) \/ CountFrames(s)
  PROVE  StreamInv'
<1> USE DEF lock_state
<1>1. /\ slock' = [ slock EXCEPT ![s] = slock[s] ] /\ op' = [ op EXCEPT ![s] = op[s] ]
      /\ UNCHANGED << port_state, target, rest, devlock, opened, stack_state, providerVars >>
  BY ThreadsApart DEF WriteData, CountFrames, StreamInv, StreamTypeOK
<1>2. pc[s] \in FreePlaces
  BY DEF WriteData, CountFrames, At, FreePlaces
<1>3. op[s] \in PlaybackOps \cup { "none" } /\ op[s] # "close"
  BY <1>2, PlaybackAt
<1>4. PICK next \in { "count", "idle" } : Goto(s, next)
  BY DEF WriteData, CountFrames
<1>5. next \in FreePlaces \ StreamInside /\ next # "lock"
  BY PlacesApart DEF FreePlaces
<1> QED BY <1>1, <1>2, <1>3, <1>4, <1>5, PlaybackStepInv

LEMMA UnlockStreamInv ==
  ASSUME StreamInv, NEW s \in Streams, UnlockStream(s)
  PROVE  StreamInv'
<1>1. /\ pc[s] \in { "ok", "fail" } /\ slock' = [ slock EXCEPT ![s] = NoThread ]
      /\ op' = [ op EXCEPT ![s] = "none" ]
      /\ UNCHANGED << port_state, target, rest, devlock, opened, stack_state, providerVars >>
  BY DEF UnlockStream
<1>2. op[s] \in PlaybackOps \cup { "none" } /\ op[s] # "close" /\ slock[s] = s /\ pc[s] \in StreamInside
  BY <1>1, PlaybackAt DEF StreamInside
<1>3. PICK next \in { "data", "idle" } : Goto(s, next)
  BY DEF UnlockStream
<1>4. next \in FreePlaces \ StreamInside /\ next # "lock"
  BY PlacesApart DEF FreePlaces
<1> QED BY <1>1, <1>2, <1>3, <1>4, PlaybackStepInv

-----------------------------------------------------------------------------
\* The walk of set_parameters.

\* A step of the parameter thread: it takes no mutex from a playback thread, has the device mutex
\* outside idle, and works on an open stream.
LEMMA ParamStepInv ==
  ASSUME StreamInv, NEW next \in { "idle", "next", "lock" } \cup ParamInside, Goto(ParamThread, next),
         NEW o \in ParamOps \cup { "none" }, op' = [ op EXCEPT ![ParamThread] = o ],
         next = "idle" <=> o = "none",
         devlock' \in { ParamThread, NoThread }, devlock' = ParamThread <=> next # "idle",
         target' \in Streams \cup {NoClient}, next \notin { "idle", "next" } => target' \in opened,
         rest' \subseteq opened, next = "idle" => rest' = {},
         slock' \in [ Streams -> Threads \cup {NoThread} ],
         next \in ParamInside => slock'[target'] = ParamThread,
         \A s \in Streams : slock[s] = s => slock'[s] = s,
         UNCHANGED << port_state, opened, stack_state, providerVars >>
  PROVE  StreamInv'
<1> USE DEF port_state, stack_state
<1>1. /\ StreamTypeOK /\ PlacesFitCalls /\ PortFollowsLife /\ InsideHoldsMutex
      /\ next \in Places
  BY DEF StreamInv, Places, FreePlaces
<1>2. UNCHANGED << report, announced, observers, granted >>
  BY DEF providerVars, sessionVars, table_state
<1>3. /\ pc' \in [ Threads -> Places ] /\ pc'[ParamThread] = next /\ \A s \in Streams : pc'[s] = pc[s]
  BY <1>1, WentTo, ThreadsApart
<1>4. /\ op' \in [ Threads -> PlaybackOps \cup ParamOps \cup { "none", "close" } ]
      /\ op'[ParamThread] = o /\ \A s \in Streams : op'[s] = op[s]
  BY <1>1, ThreadsApart DEF StreamTypeOK
<1>5. StreamTypeOK'
  <2>1. rest' \in SUBSET Streams
    BY <1>1 DEF StreamTypeOK
  <2> QED BY <1>1, <1>3, <1>4, <2>1 DEF StreamTypeOK
<1>6. PlacesFitCalls'
  BY <1>1, <1>3, <1>4 DEF PlacesFitCalls
<1>7. PortFollowsLife'
  BY <1>1, <1>2, <1>3, <1>4 DEF PortFollowsLife
<1>8. ParamsWalkOpened'
  BY <1>3 DEF ParamsWalkOpened
<1>9. InsideHoldsMutex'
  BY <1>1, <1>3, <1>4 DEF InsideHoldsMutex
<1>10. HandlerFitsWalk' /\ AnswersMarked' /\ StartedIsToldYet'
  BY <1>2, TellingKept
<1> QED BY <1>5, <1>6, <1>7, <1>8, <1>9, <1>10 DEF StreamInv

LEMMA LockStreamInv ==
  ASSUME StreamInv, NEW t \in Threads, LockStream(t)
  PROVE  StreamInv'
<1>1. /\ pc[t] = "lock" /\ slock[On(t)] = NoThread /\ slock' = [ slock EXCEPT ![On(t)] = t ]
      /\ UNCHANGED << port_state, op, target, rest, devlock, opened, stack_state, providerVars >>
      /\ Goto(t, IF op[t] = "write" THEN "out_resume"
                 ELSE IF t = ParamThread /\ ~IsA2dp THEN "ok" ELSE op[t])
  BY DEF LockStream, At
<1>2. op = [ op EXCEPT ![t] = op[t] ] /\ slock \in [ Streams -> Threads \cup {NoThread} ]
  BY DEF StreamInv, StreamTypeOK
<1>3. CASE t \in Streams
  <2>1. On(t) = t /\ t # ParamThread
    BY <1>3, ThreadsApart
  <2>2. op[t] \in PlaybackOps /\ op[t] # "close" /\ pc[t] \in FreePlaces
    <3>1. pc[t] \in FreePlaces
      BY <1>1 DEF FreePlaces
    <3>2. op[t] \in PlaybackOps \cup { "none" }
      BY <1>3, <3>1, PlaybackAt
    <3>3. op[t] # "none"
      BY <1>1, <1>3 DEF StreamInv, PlacesFitCalls
    <3> QED BY <1>3, <3>1, <3>2, <3>3, PlaybackAt
  <2>3. PICK next \in StreamInside : Goto(t, next)
    <3>1. (IF op[t] = "write" THEN "out_resume" ELSE op[t]) \in StreamInside
      BY <2>2 DEF PlaybackOps, StreamInside, StreamReadPlaces
    <3> QED BY <1>1, <2>1, <3>1
  <2>4. next # "lock"
    BY <2>3, PlacesApart DEF FreePlaces
  <2> QED BY <1>1, <1>2, <1>3, <2>1, <2>2, <2>3, <2>4, PlaybackStepInv
<1>4. CASE t = ParamThread
  <2>1. On(t) = target /\ target \in opened /\ target \in Streams /\ devlock = ParamThread /\ rest \subseteq opened
    BY <1>1, <1>4, ThreadsApart DEF StreamInv, ParamsWalkOpened, StreamTypeOK
  <2>2. op[t] \in ParamOps /\ op[t] # "none"
    BY <1>1, <1>4 DEF StreamInv, PlacesFitCalls, ParamOps
  <2>3. PICK next \in ParamInside : Goto(ParamThread, next)
    <3>1. op[t] # "write" /\ op[t] \in ParamInside /\ "ok" \in ParamInside
      BY <2>2 DEF ParamOps, ParamInside, ParamReadPlaces
    <3> QED BY <1>1, <1>4, <3>1
  <2>4. next \notin { "idle", "next", "lock" }
    BY <2>3, PlacesApart
  <2>5. /\ slock' \in [ Streams -> Threads \cup {NoThread} ] /\ slock'[target'] = ParamThread
        /\ \A s \in Streams : slock[s] = s => slock'[s] = s
    BY <1>1, <1>2, <1>4, <2>1, ThreadsApart
  <2> QED BY <1>1, <1>2, <1>4, <2>1, <2>2, <2>3, <2>4, <2>5, ParamStepInv
<1> QED BY <1>3, <1>4 DEF Threads

LEMMA SetParametersInv ==
  ASSUME StreamInv, NEW o \in DeviceCalls, SetParameters(o)
  PROVE  StreamInv'
<1>1. /\ devlock' = ParamThread /\ rest' = opened /\ Goto(ParamThread, "next")
      /\ op' = [ op EXCEPT ![ParamThread] = o ]
      /\ UNCHANGED << port_state, target, slock, opened, stack_state, providerVars >>
  BY DEF SetParameters
<1>2. o \in ParamOps /\ o # "none"
  BY StreamAssumption DEF ParamOps
<1>3. "next" \notin ParamInside
  BY PlacesApart
<1>4. /\ target' \in Streams \cup {NoClient} /\ slock' \in [ Streams -> Threads \cup {NoThread} ]
      /\ \A s \in Streams : slock[s] = s => slock'[s] = s
  BY <1>1 DEF StreamInv, StreamTypeOK
<1>5. /\ devlock' \in { ParamThread, NoThread } /\ rest' \subseteq opened
      /\ UNCHANGED << port_state, opened, stack_state, providerVars >>
  BY <1>1
<1>6. PICK next \in { "idle", "next", "lock" } \cup ParamInside : next = "next"
  OBVIOUS
<1>7. Goto(ParamThread, next) /\ next \notin ParamInside /\ next # "idle"
  BY <1>1, <1>3, <1>6
<1> QED BY <1>1, <1>2, <1>4, <1>5, <1>6, <1>7, ParamStepInv

LEMMA NextStreamInv ==
  ASSUME StreamInv, NextStream
  PROVE  StreamInv'
<1>1. pc[ParamThread] = "next" /\ UNCHANGED << port_state, slock, opened, stack_state, providerVars >>
  BY DEF NextStream, At
<1>2. /\ target \in Streams \cup {NoClient} /\ slock \in [ Streams -> Threads \cup {NoThread} ]
      /\ op = [ op EXCEPT ![ParamThread] = op[ParamThread] ]
  BY ThreadsApart DEF StreamInv, StreamTypeOK
<1>3. devlock = ParamThread /\ rest \subseteq opened /\ opened \subseteq Streams
  BY <1>1 DEF StreamInv, ParamsWalkOpened, StreamTypeOK
<1>4. op[ParamThread] \in ParamOps /\ op[ParamThread] # "none"
  BY <1>1 DEF StreamInv, PlacesFitCalls, ParamOps
<1>5. "lock" \notin ParamInside /\ "idle" \notin ParamInside
  BY PlacesApart
<1>6. ASSUME NEW s \in rest, target' = s, rest' = rest \ {s}, Goto(ParamThread, "lock"), UNCHANGED << op, devlock >>
      PROVE  StreamInv'
  <2>1. target' \in Streams \cup {NoClient} /\ target' \in opened /\ rest' \subseteq opened
    BY <1>3, <1>6
  <2> QED BY <1>1, <1>2, <1>3, <1>4, <1>5, <1>6, <2>1, ParamStepInv
<1>7. CASE /\ rest = {} /\ devlock' = NoThread /\ op' = [ op EXCEPT ![ParamThread] = "none" ]
           /\ Goto(ParamThread, "idle") /\ UNCHANGED << target, rest >>
  <2>1. NoThread # ParamThread
    BY ThreadsApart
  <2> QED BY <1>1, <1>2, <1>3, <1>5, <1>7, <2>1, ParamStepInv
<1> QED BY <1>6, <1>7 DEF NextStream

LEMMA StreamParametersSetInv ==
  ASSUME StreamInv, StreamParametersSet
  PROVE  StreamInv'
<1>1. /\ pc[ParamThread] \in { "ok", "fail" } /\ slock' = [ slock EXCEPT ![target] = NoThread ]
      /\ target' = NoClient /\ Goto(ParamThread, "next")
      /\ UNCHANGED << port_state, op, rest, devlock, opened, stack_state, providerVars >>
  BY DEF StreamParametersSet
<1>2. /\ slock \in [ Streams -> Threads \cup {NoThread} ]
      /\ op = [ op EXCEPT ![ParamThread] = op[ParamThread] ]
  BY ThreadsApart DEF StreamInv, StreamTypeOK
<1>3. devlock = ParamThread /\ rest \subseteq opened /\ target \in Streams
  BY <1>1 DEF StreamInv, ParamsWalkOpened, StreamTypeOK
<1>4. op[ParamThread] \in ParamOps /\ op[ParamThread] # "none"
  BY <1>1 DEF StreamInv, PlacesFitCalls, ParamOps
<1>5. slock[target] = ParamThread
  BY <1>1 DEF StreamInv, InsideHoldsMutex, ParamInside
<1>6. /\ slock' \in [ Streams -> Threads \cup {NoThread} ]
      /\ \A s \in Streams : slock[s] = s => slock'[s] = s
  BY <1>1, <1>2, <1>3, <1>5, ThreadsApart
<1>7. "next" \notin ParamInside
  BY PlacesApart
<1> QED BY <1>1, <1>2, <1>3, <1>4, <1>6, <1>7, ParamStepInv

LEMMA SetsStateInv ==
  ASSUME StreamInv, SetsState
  PROVE  StreamInv'
<1>1. /\ pc[ParamThread] \in { "disable", "enable" } /\ Goto(ParamThread, "ok")
      /\ SetState(target, "DISABLED") \/ SetState(target, "STANDBY")
      /\ UNCHANGED << cookie, handler, op, target, rest, lock_state, stack_state, providerVars >>
  BY DEF SetsState, At
<1>2. op[ParamThread] # "close"
  BY <1>1 DEF StreamInv, PlacesFitCalls, ParamOps
<1>3. StaysInside(ParamThread, "ok")
  BY <1>1, <1>2 DEF StaysInside, Places, ParamInside
<1>4. /\ UNCHANGED << cookie, handler, op, target, rest, lock_state, late, report, announced, observers, granted >>
      /\ asked' \in [ start : 0 .. MaxAsked, suspend : 0 .. MaxAsked ] /\ streaming' \in BOOLEAN
  BY <1>1 DEF StreamInv, StreamTypeOK, stack_state, providerVars, sessionVars, table_state
<1>5. \E st \in PortStates \ {"STARTED"} : SetState(On(ParamThread), st)
  BY <1>1, ThreadsApart DEF PortStates
<1> QED BY <1>3, <1>1, <1>4, <1>5, ThreadsApart, InsideStepInv

-----------------------------------------------------------------------------
\* Opening and closing.

\* A step in the life of the stream s: what it is granted, its cookie and its place on the list
\* change together, the list only loses it with the device mutex free, and no port is started.
LEMMA LifeStepInv ==
  ASSUME StreamInv, SessionInv, NEW s \in Streams, NEW next \in OpenPlaces \cup { "idle", "close" },
         NEW o, o = IF next = "close" THEN "close" ELSE "none",
         Goto(s, next), op' = [ op EXCEPT ![s] = o ],
         UNCHANGED << handler, target, rest, slock, devlock, stack_state, report, announced >>,
         opened' \subseteq Streams, s \in opened' <=> next = "idle",
         opened \subseteq opened' \/ devlock = NoThread,
         \A r \in Streams \ {s} : /\ r \in opened' <=> r \in opened
                                  /\ cookie'[r] = cookie[r] /\ granted'[r] = granted[r] /\ state'[r] = state[r],
         cookie' \in [ Streams -> Cookies \cup {NoCookie} ],
         granted'[s] = NoCookie <=> next \in { "closed", "register" },
         cookie'[s] = NoCookie <=> next \in { "closed", "register", "assign" },
         cookie'[s] # NoCookie => cookie'[s] = granted'[s],
         state' \in [ Streams -> PortStates ],
         state'[s] = "STARTED" => state[s] = "STARTED" /\ cookie'[s] = cookie[s],
         handler = NoHandler \/ (UNCHANGED observers /\ cookie[s] \in { cookie'[s], NoCookie })
  PROVE  StreamInv'
<1> USE DEF stack_state
<1>1. /\ StreamTypeOK /\ PlacesFitCalls /\ PortFollowsLife /\ ParamsWalkOpened /\ InsideHoldsMutex
      /\ next \in Places
  BY DEF StreamInv, Places, FreePlaces, ClosePlaces
<1>2. /\ pc' \in [ Threads -> Places ] /\ pc'[s] = next /\ \A t \in Threads \ {s} : pc'[t] = pc[t]
  BY <1>1, WentTo, ThreadsApart
<1>3. /\ op' \in [ Threads -> PlaybackOps \cup ParamOps \cup { "none", "close" } ]
      /\ op'[s] = o /\ \A t \in Threads \ {s} : op'[t] = op[t]
  BY <1>1, ThreadsApart DEF StreamTypeOK
<1>4. StreamTypeOK'
  BY <1>1, <1>2, <1>3 DEF StreamTypeOK
<1>5. PlacesFitCalls'
  <2>1. \/ next \in OpenPlaces /\ o = "none"
        \/ next \in ClosePlaces /\ o = "close"
        \/ next \in FreePlaces /\ o = "none"
    BY DEF OpenPlaces, ClosePlaces, FreePlaces
  <2>2. next # "lock"
    BY DEF OpenPlaces
  <2> QED BY <1>1, <1>2, <1>3, <2>1, <2>2, ThreadsApart DEF PlacesFitCalls
<1>6. PortFollowsLife'
  <2>1. next = "idle" <=> next \notin OpenPlaces /\ o # "close"
    BY DEF OpenPlaces
  <2> QED BY <1>1, <1>2, <1>3, <2>1, ThreadsApart DEF PortFollowsLife
<1>7. ParamsWalkOpened'
  <2>1. CASE opened \subseteq opened'
    BY <1>1, <1>2, <2>1, ThreadsApart DEF ParamsWalkOpened
  <2>2. CASE devlock = NoThread
    <3>1. pc[ParamThread] = "idle" /\ rest = {}
      BY <1>1, <2>2, ThreadsApart DEF ParamsWalkOpened
    <3> QED BY <1>2, <2>2, <3>1, ThreadsApart DEF ParamsWalkOpened
  <2> QED BY <2>1, <2>2
<1>8. InsideHoldsMutex'
  <2>1. next \in StreamInside => o = "close"
    BY PlacesApart DEF FreePlaces
  <2> QED BY <1>1, <1>2, <1>3, <2>1, ThreadsApart DEF InsideHoldsMutex
<1>9. HandlerFitsWalk'
  <2> SUFFICES ASSUME handler # NoHandler
               PROVE  /\ handler.cookie \in report.todo /\ report.cb = "control_result"
                      /\ cookie'[observers[handler.cookie]] = handler.cookie
                      /\ UNCHANGED observers
    BY DEF HandlerFitsWalk
  <2>1. /\ handler.cookie \in report.todo /\ report.cb = "control_result"
        /\ cookie[observers[handler.cookie]] = handler.cookie
    BY DEF StreamInv, HandlerFitsWalk
  <2>2. observers[handler.cookie] \in Streams /\ handler.cookie # NoCookie
    BY <2>1, ObserverCalled
  <2> QED BY <2>1, <2>2
<1>10. AnswersMarked'
  BY DEF StreamInv, AnswersMarked
<1>11. StartedIsToldYet'
  BY DEF StreamInv, StartedIsToldYet
<1> QED BY <1>4, <1>5, <1>6, <1>7, <1>8, <1>9, <1>10, <1>11 DEF StreamInv

\* A playback thread at a place of the opening, idle or at TearDown: what it has.
LEMMA LifeAt ==
  ASSUME StreamInv, NEW s \in Streams
  PROVE  /\ state \in [ Streams -> PortStates ] /\ cookie \in [ Streams -> Cookies \cup {NoCookie} ]
         /\ opened \subseteq Streams /\ op[s] \in PlaybackOps \cup { "none", "close" }
         /\ op = [ op EXCEPT ![s] = op[s] ]
         /\ pc[s] \in OpenPlaces => op[s] = "none" /\ s \notin opened
         /\ pc[s] \in { "idle", "tear" } => granted[s] # NoCookie
         /\ granted[s] = NoCookie <=> pc[s] \in { "closed", "register" }
         /\ cookie[s] = NoCookie <=> pc[s] \in { "closed", "register", "assign" }
         /\ cookie[s] # NoCookie => cookie[s] = granted[s]
<1>1. /\ state \in [ Streams -> PortStates ] /\ cookie \in [ Streams -> Cookies \cup {NoCookie} ]
      /\ opened \subseteq Streams /\ op = [ op EXCEPT ![s] = op[s] ]
  BY ThreadsApart DEF StreamInv, StreamTypeOK
<1>2. /\ granted[s] = NoCookie <=> pc[s] \in { "closed", "register" }
      /\ cookie[s] = NoCookie <=> pc[s] \in { "closed", "register", "assign" }
      /\ cookie[s] # NoCookie => cookie[s] = granted[s]
      /\ s \in opened <=> pc[s] \notin OpenPlaces /\ op[s] # "close"
  BY DEF StreamInv, PortFollowsLife
<1>3. /\ op[s] \in PlaybackOps \cup { "none", "close" }
      /\ pc[s] \in OpenPlaces => op[s] = "none"
  BY PlacesApart DEF StreamInv, PlacesFitCalls
<1> QED BY <1>1, <1>2, <1>3

LEMMA SetUpChecksInv ==
  ASSUME StreamInv, SessionInv, NEW s \in Streams, SetUpChecks(s)
  PROVE  StreamInv'
<1>1. /\ pc[s] = "closed" /\ SetState(s, "STANDBY") /\ Goto(s, "register")
      /\ UNCHANGED << cookie, handler, op, target, rest, slock, devlock, opened, stack_state,
                      report, announced, observers, granted >>
  BY DEF SetUpChecks, At, lock_state, providerVars, sessionVars, table_state
<1>2. op[s] = "none" /\ s \notin opened /\ granted[s] = NoCookie /\ cookie[s] = NoCookie
  BY <1>1, LifeAt DEF OpenPlaces
<1>3. /\ state' \in [ Streams -> PortStates ] /\ state'[s] = "STANDBY"
      /\ \A r \in Streams \ {s} : state'[r] = state[r]
  BY <1>1, StateSet DEF StreamInv, PortStates
<1>4. PICK next \in OpenPlaces : next = "register"
  BY DEF OpenPlaces
<1> QED BY <1>1, <1>2, <1>3, <1>4, LifeAt, LifeStepInv

\* RegisterStatusCback gives a free cookie or none, and touches no other output's.
LEMMA CookieGiven ==
  ASSUME SessionInv, NEW s \in Streams, RegisterStatusCback(s)
  PROVE  \A r \in Streams \ {s} : granted'[r] = granted[r]
BY DEF RegisterStatusCback, SessionInv, SessionTypeOK, Streams

LEMMA SetUpRegistersInv ==
  ASSUME StreamInv, SessionInv, NEW s \in Streams, SetUpRegisters(s)
  PROVE  StreamInv'
<1>1. /\ pc[s] = "register" /\ RegisterStatusCback(s)
      /\ UNCHANGED << cookie, handler, op, target, rest, slock, devlock, opened, stack_state,
                      report, announced >>
  BY DEF SetUpRegisters, At, lock_state, RegisterStatusCback
<1>2. op[s] = "none" /\ s \notin opened /\ cookie[s] = NoCookie
  BY <1>1, LifeAt DEF OpenPlaces
<1>3. handler = NoHandler
  BY <1>1, NoHandlerWhenFree DEF RegisterStatusCback, MutexFree
<1>4. \A r \in Streams \ {s} : granted'[r] = granted[r]
  BY <1>1, CookieGiven
<1>5. CASE granted'[s] = NoCookie
  <2>1. Goto(s, "closed") /\ SetState(s, "DISABLED")
    BY <1>5 DEF SetUpRegisters
  <2>2. /\ state' \in [ Streams -> PortStates ] /\ state'[s] = "DISABLED"
        /\ \A r \in Streams \ {s} : state'[r] = state[r]
    BY <2>1, StateSet DEF StreamInv, PortStates
  <2>3. PICK next \in OpenPlaces : next = "closed"
    BY DEF OpenPlaces
  <2> QED BY <1>1, <1>2, <1>3, <1>4, <1>5, <2>1, <2>2, <2>3, LifeAt, LifeStepInv
<1>6. CASE granted'[s] # NoCookie
  <2>1. Goto(s, "assign") /\ UNCHANGED state
    BY <1>6 DEF SetUpRegisters
  <2>2. state[s] # "STARTED"
    BY <1>2 DEF StreamInv, StartedIsToldYet
  <2>3. PICK next \in OpenPlaces : next = "assign"
    BY DEF OpenPlaces
  <2> QED BY <1>1, <1>2, <1>3, <1>4, <1>6, <2>1, <2>2, <2>3, LifeAt, LifeStepInv
<1> QED BY <1>5, <1>6

LEMMA SetUpAssignsInv ==
  ASSUME StreamInv, SessionInv, NEW s \in Streams, SetUpAssigns(s)
  PROVE  StreamInv'
<1>1. /\ pc[s] = "assign" /\ cookie' = [ cookie EXCEPT ![s] = granted[s] ] /\ Goto(s, "list")
      /\ UNCHANGED << state, handler, op, target, rest, slock, devlock, opened, stack_state,
                      report, announced, observers, granted >>
  BY DEF SetUpAssigns, At, lock_state, providerVars, sessionVars, table_state
<1>2. op[s] = "none" /\ s \notin opened /\ cookie[s] = NoCookie /\ granted[s] # NoCookie
  BY <1>1, LifeAt DEF OpenPlaces
<1>3. granted[s] \in Cookies \cup {NoCookie}
  BY DEF SessionInv, SessionTypeOK, Streams
<1>4. /\ cookie' \in [ Streams -> Cookies \cup {NoCookie} ] /\ cookie'[s] = granted[s]
      /\ \A r \in Streams \ {s} : cookie'[r] = cookie[r]
  BY <1>1, <1>3, LifeAt
<1>5. state[s] # "STARTED"
  BY <1>2 DEF StreamInv, StartedIsToldYet
<1>6. PICK next \in OpenPlaces : next = "list"
  BY DEF OpenPlaces
<1> QED BY <1>1, <1>2, <1>4, <1>5, <1>6, LifeAt, LifeStepInv

LEMMA OpenListsInv ==
  ASSUME StreamInv, SessionInv, NEW s \in Streams, OpenLists(s)
  PROVE  StreamInv'
<1>1. /\ pc[s] = "list" /\ opened' = opened \cup {s} /\ Goto(s, "idle")
      /\ UNCHANGED << state, cookie, handler, op, target, rest, slock, devlock, stack_state,
                      report, announced, observers, granted >>
  BY DEF OpenLists, At, port_state, providerVars, sessionVars, table_state
<1>2. op[s] = "none" /\ cookie[s] # NoCookie /\ granted[s] # NoCookie
  BY <1>1, LifeAt DEF OpenPlaces
<1>3. PICK next \in { "idle", "close" } : next = "idle"
  OBVIOUS
<1> QED BY <1>1, <1>2, <1>3, LifeAt, LifeStepInv

LEMMA CloseUnlistsInv ==
  ASSUME StreamInv, SessionInv, NEW s \in Streams, CloseUnlists(s)
  PROVE  StreamInv'
<1>1. /\ pc[s] = "idle" /\ devlock = NoThread /\ opened' = opened \ {s} /\ Goto(s, "close")
      /\ op' = [ op EXCEPT ![s] = "close" ]
      /\ UNCHANGED << state, cookie, handler, target, rest, slock, devlock, stack_state,
                      report, announced, observers, granted >>
  BY DEF CloseUnlists, At, port_state, providerVars, sessionVars, table_state
<1>2. cookie[s] # NoCookie /\ granted[s] # NoCookie /\ cookie[s] = granted[s]
  BY <1>1, LifeAt
<1>3. PICK next \in { "idle", "close" } : next = "close"
  OBVIOUS
<1> QED BY <1>1, <1>2, <1>3, LifeAt, LifeStepInv

LEMMA TearDownInv ==
  ASSUME StreamInv, SessionInv, NEW s \in Streams, TearDown(s)
  PROVE  StreamInv'
<1>1. /\ pc[s] = "tear" /\ UnregisterStatusCback(s) /\ cookie' = [ cookie EXCEPT ![s] = NoCookie ]
      /\ SetState(s, "DISABLED") /\ Goto(s, "closed") /\ op' = [ op EXCEPT ![s] = "none" ]
      /\ UNCHANGED << handler, target, rest, slock, devlock, opened, stack_state, report, announced >>
  BY DEF TearDown, At, lock_state, UnregisterStatusCback
<1>2. op[s] = "close" /\ s \notin opened
  <2>1. op[s] = "close"
    BY <1>1 DEF StreamInv, PlacesFitCalls, OpenPlaces, FreePlaces, StreamInside, StreamReadPlaces, PortLabels, InStack
  <2> QED BY <2>1 DEF StreamInv, PortFollowsLife
<1>3. handler = NoHandler
  BY <1>1, NoHandlerWhenFree DEF UnregisterStatusCback, MutexFree
<1>4. granted'[s] = NoCookie /\ \A r \in Streams \ {s} : granted'[r] = granted[r]
  BY <1>1 DEF UnregisterStatusCback, SessionInv, SessionTypeOK, Streams
<1>5. /\ cookie' \in [ Streams -> Cookies \cup {NoCookie} ] /\ cookie'[s] = NoCookie
      /\ \A r \in Streams \ {s} : cookie'[r] = cookie[r]
  BY <1>1, LifeAt
<1>6. /\ state' \in [ Streams -> PortStates ] /\ state'[s] = "DISABLED"
      /\ \A r \in Streams \ {s} : state'[r] = state[r]
  BY <1>1, StateSet DEF StreamInv, PortStates
<1>7. PICK next \in OpenPlaces : next = "closed"
  BY DEF OpenPlaces
<1> QED BY <1>1, <1>2, <1>3, <1>4, <1>5, <1>6, <1>7, LifeAt, LifeStepInv

-----------------------------------------------------------------------------
\* The streams as users of the providers and the session.

\* Every step of the streams is a step the providers allow, or one they do not see: a port registers
\* when it has no cookie, gives back the cookie it has, and returns from the callbacks of the walk.
LEMMA StreamStepIsProviderStep ==
  StreamInv /\ [StreamNext]_streamVars => [ProviderNext]_providerVars
<1> SUFFICES ASSUME StreamInv, [StreamNext]_streamVars PROVE [ProviderNext]_providerVars
  OBVIOUS
<1>1. CASE UNCHANGED streamVars
  BY <1>1 DEF streamVars
<1>2. CASE Framework
  BY <1>2 DEF Framework, SetUpChecks, OutWrite, Enters, CloseUnlists, SetParameters
<1>3. ASSUME NEW t \in Threads, CommonStep(t) \/ StackReturns(t)
      PROVE  [ProviderNext]_providerVars
  <2>1. CASE LockStream(t) \/ StreamReads(t)
    BY <2>1 DEF LockStream, StreamReads, Test
  <2>2. CASE PortStep(t) \/ StackReturns(t)
    <3>1. UNCHANGED providerVars \/ ((EntersStack \/ LeavesStack \/ UNCHANGED sessionVars) /\ UNCHANGED besideSession)
      BY <2>2
      DEF PortStep, StartReads, StartSets, StartCalls, StartWaits, SuspendReads, SuspendSets, SuspendCalls,
          SuspendWaits, StopSets, StopCalls, StackReturns, Test
    <3> QED BY <3>1 DEF ProviderNext, AnyClient, besideSession, providerVars
  <2> QED BY <1>3, <2>1, <2>2 DEF CommonStep
<1>4. ASSUME NEW s \in Streams, StreamStep(s)
      PROVE  [ProviderNext]_providerVars
  <2>1. CASE SetUpRegisters(s)
    <3>1. granted[s] = NoCookie
      BY <2>1, LifeAt DEF SetUpRegisters, At
    <3>2. AnyClient
      BY <2>1, <3>1 DEF SetUpRegisters, besideSession, AnyClient, ClientCall, Streams
    <3> QED BY <3>2 DEF ProviderNext
  <2>2. CASE TearDown(s)
    <3>1. granted[s] # NoCookie
      BY <2>2, LifeAt DEF TearDown, At
    <3>2. AnyClient
      BY <2>2, <3>1 DEF TearDown, besideSession, AnyClient, ClientCall, Streams
    <3> QED BY <3>2 DEF ProviderNext
  <2>3. CASE SetUpAssigns(s) \/ OpenLists(s) \/ UnlockStream(s) \/ WriteData(s) \/ CountFrames(s)
    BY <2>3 DEF SetUpAssigns, OpenLists, UnlockStream, WriteData, CountFrames
  <2> QED BY <1>4, <2>1, <2>2, <2>3 DEF StreamStep
<1>5. CASE ParamStep
  BY <1>5 DEF ParamStep, NextStream, SetsState, StreamParametersSet
<1>6. CASE PortCallback
  <2>1. ASSUME NEW k \in report.todo, CallsBack(k) PROVE ProviderNext
    BY <2>1 DEF ProviderNext, WalkOn
  <2>2. CASE ControlResultWrites
    <3>1. handler.cookie \in report.todo
      BY <2>2 DEF ControlResultWrites, StreamInv, HandlerFitsWalk
    <3> QED BY <2>1, <2>2, <3>1 DEF ControlResultWrites
  <2>3. ASSUME NEW k \in report.todo, CallbackDropped(k) \/ SessionChanged(k) \/ ControlResultReads(k)
        PROVE  [ProviderNext]_providerVars
    <3>1. CallsBack(k) \/ UNCHANGED providerVars
      BY <2>3 DEF CallbackDropped, SessionChanged, ControlResultReads
    <3> QED BY <2>1, <3>1
  <2> QED BY <1>6, <2>2, <2>3 DEF PortCallback
<1>7. CASE StackStep
  <2>1. CASE \E start_resp \in BOOLEAN, status \in Statuses : AnswersWithin(start_resp, status)
    BY <2>1 DEF AnswersWithin, ProviderNext, AnyClient, besideSession
  <2>2. CASE \E h \in Hosts :
          \/ StackDies(h)
          \/ \E t \in BinderThreads :
               \/ \E tag \in AcceptedTags, mq \in MqDescriptors : StartSession(t, h, tag, mq)
               \/ EndSession(t, h)
               \/ \E start_resp \in BOOLEAN, status \in Statuses : StreamResult(t, h, start_resp, status)
               \/ BinderDied(t, h)
    BY <2>2 DEF StackEnters, ProviderNext, BinderNext
  <2> QED BY <1>7, <2>1, <2>2 DEF StackStep, Answers
<1>8. ASSUME NEW t \in BinderThreads, BinderStep(t)
      PROVE  [ProviderNext]_providerVars
  BY <1>8 DEF BinderStep, ProviderNext, BinderNext
<1>9. ASSUME NEW t \in Threads, GoesOnIn(t)
      PROVE  [ProviderNext]_providerVars
  BY <1>3, <1>4, <1>5, <1>9 DEF GoesOnIn
<1> QED BY <1>1, <1>2, <1>3, <1>6, <1>7, <1>8, <1>9 DEF StreamNext

\* Initially nothing is open and no port has been told of anything.
LEMMA StreamInitInv == StreamInit => StreamInv
<1> SUFFICES ASSUME StreamInit PROVE StreamInv
  OBVIOUS
<1>1. granted = [ s \in Streams |-> NoCookie ] /\ report = NoReport /\ announced = FALSE
  BY DEF StreamInit, ProviderInit, SessionInit, Streams
<1>2. /\ pc \in [ Threads -> { "idle", "closed" } ] /\ pc[ParamThread] = "idle" /\ op[ParamThread] = "none"
      /\ \A s \in Streams : pc[s] = "closed" /\ op[s] = "none" /\ cookie[s] = NoCookie /\ state[s] = "DISABLED"
  BY ThreadsApart DEF StreamInit
<1>3. StreamTypeOK
  <2>1. asked \in [ start : 0 .. MaxAsked, suspend : 0 .. MaxAsked ]
    <3>1. 0 \in 0 .. MaxAsked
      BY StreamAssumption
    <3> QED BY <3>1 DEF StreamInit
  <2>2. handler \in [ cookie : Cookies \cup {NoCookie}, previous : PortStates ]
    BY DEF StreamInit, NoHandler, PortStates
  <2>3. pc \in [ Threads -> Places ]
    BY <1>2 DEF Places, OpenPlaces, FreePlaces
  <2> QED BY <2>1, <2>2, <2>3 DEF StreamInit, StreamTypeOK, PortStates
<1>4. PlacesFitCalls
  BY <1>2 DEF PlacesFitCalls, OpenPlaces
<1>5. PortFollowsLife
  BY <1>1, <1>2 DEF StreamInit, PortFollowsLife, OpenPlaces
<1>6. ParamsWalkOpened
  BY <1>2, ThreadsApart DEF StreamInit, ParamsWalkOpened
<1>7. InsideHoldsMutex
  BY <1>2, PlacesApart DEF InsideHoldsMutex, OpenPlaces
<1>8. HandlerFitsWalk /\ AnswersMarked /\ StartedIsToldYet
  BY <1>1, <1>2 DEF StreamInit, HandlerFitsWalk, AnswersMarked, StartedIsToldYet, NoReport
<1> QED BY <1>3, <1>4, <1>5, <1>6, <1>7, <1>8 DEF StreamInv

\* Every step keeps the invariant of the streams.
LEMMA StreamNextInv ==
  StreamInv /\ SessionInv /\ [StreamNext]_streamVars => StreamInv'
<1> SUFFICES ASSUME StreamInv, SessionInv, [StreamNext]_streamVars PROVE StreamInv'
  OBVIOUS
<1>1. CASE UNCHANGED streamVars
  <2>1. UNCHANGED << state, cookie, handler, pc, op, target, rest, slock, devlock, opened, asked, streaming, late,
                     report, announced, observers, granted >>
    BY <1>1 DEF streamVars, port_state, thread_state, lock_state, stack_state, providerVars, sessionVars, table_state
  <2>2. StreamTypeOK' /\ PlacesFitCalls' /\ PortFollowsLife' /\ ParamsWalkOpened' /\ InsideHoldsMutex'
    BY <2>1 DEF StreamInv, StreamTypeOK, PlacesFitCalls, PortFollowsLife, ParamsWalkOpened, InsideHoldsMutex
  <2>3. HandlerFitsWalk' /\ AnswersMarked' /\ StartedIsToldYet'
    BY <2>1, TellingKept
  <2> QED BY <2>2, <2>3 DEF StreamInv
<1>2. CASE Framework
  <2>1. ASSUME NEW s \in Streams, NEW o \in StreamCalls \ {"out_write"}, Enters(s, o)
        PROVE  StreamInv'
    <3>1. o \in PlaybackOps
      BY StreamAssumption DEF PlaybackOps
    <3> QED BY <2>1, <3>1, EntersInv
  <2>2. ASSUME NEW s \in Streams, SetUpChecks(s) \/ OutWrite(s) \/ CloseUnlists(s)
        PROVE  StreamInv'
    BY <2>2, SetUpChecksInv, EntersInv, CloseUnlistsInv
  <2>3. ASSUME NEW o \in DeviceCalls, SetParameters(o) PROVE StreamInv'
    BY <2>3, SetParametersInv
  <2> QED BY <1>2, <2>1, <2>2, <2>3 DEF Framework
<1>3. ASSUME NEW t \in Threads, GoesOnIn(t) PROVE StreamInv'
  <2>1. CASE CommonStep(t)
    BY <2>1, LockStreamInv, WorkInv DEF CommonStep
  <2>2. CASE t \in Streams /\ StreamStep(t)
    BY <2>2, SetUpRegistersInv, SetUpAssignsInv, OpenListsInv, UnlockStreamInv, DataInv, TearDownInv DEF StreamStep
  <2>3. CASE ParamStep
    BY <2>3, NextStreamInv, SetsStateInv, StreamParametersSetInv DEF ParamStep
  <2> QED BY <1>3, <2>1, <2>2, <2>3 DEF GoesOnIn
<1>4. CASE PortCallback
  BY <1>4, CallbackDroppedInv, SessionChangedInv, ControlResultReadsInv, ControlResultWritesInv DEF PortCallback
<1>5. CASE StackStep
  BY <1>5, StackStepInv
<1>6. ASSUME NEW t \in BinderThreads, BinderStep(t) PROVE StreamInv'
  BY <1>6, BinderStepInv
<1>7. ASSUME NEW t \in Threads, StackReturns(t) PROVE StreamInv'
  BY <1>7, WorkInv
<1> QED BY <1>1, <1>2, <1>3, <1>4, <1>5, <1>6, <1>7 DEF StreamNext

\* The invariants of every reachable state of the streams, their providers and the session.
THEOREM StreamInvariant == StreamSpec => [](StreamInv /\ ProviderInv /\ SessionInv)
<1>1. StreamInit => StreamInv /\ ProviderInv /\ SessionInv
  BY StreamInitInv, ProviderInitInv DEF StreamInit
<1>2. StreamInv /\ ProviderInv /\ SessionInv /\ [StreamNext]_streamVars
        => StreamInv' /\ ProviderInv' /\ SessionInv'
  BY StreamNextInv, StreamStepIsProviderStep, ProviderNextInv
<1> QED BY <1>1, <1>2, PTL DEF StreamSpec

\* The variables of the streams and their ports keep their types.
THEOREM StreamTypeCorrect == StreamSpec => []StreamTypeOK
<1>1. StreamInv => StreamTypeOK
  BY DEF StreamInv
<1> QED BY <1>1, StreamInvariant, PTL

\* The raw pointers the session holds are of ports that exist: SetUp registers after the port is made
\* and TearDown unregisters before it is deleted, whatever callbacks cross them.
THEOREM StreamCallbacksFindTheirPort == StreamSpec => []CallbacksFindTheirPort
<1>1. StreamInv /\ SessionInv => CallbacksFindTheirPort
  <2> SUFFICES ASSUME StreamInv, SessionInv PROVE CallbacksFindTheirPort
    OBVIOUS
  <2>1. ASSUME NEW k \in Registered PROVE pc[observers[k]] \notin { "closed", "register" }
    <3>1. k \in Cookies /\ observers[k] \in Streams /\ granted[observers[k]] = k /\ k # NoCookie
      BY SessionAssumption DEF SessionInv, CookiesMatch, Registered, SessionTypeOK, Streams
    <3> QED BY <3>1 DEF StreamInv, PortFollowsLife
  <2>2. \A s \in Streams : cookie[s] # NoCookie => observers[cookie[s]] = s
    BY CookieRegistered
  <2>3. handler # NoHandler => cookie[observers[handler.cookie]] = handler.cookie
    BY DEF StreamInv, HandlerFitsWalk
  <2> QED BY <2>1, <2>2, <2>3 DEF CallbacksFindTheirPort
<1> QED BY <1>1, StreamInvariant, PTL

\* adev_set_parameters never works on a stream that is being opened or closed.
THEOREM StreamParametersReachLiveStreams == StreamSpec => []ParametersReachLiveStreams
<1>1. StreamInv => ParametersReachLiveStreams
  <2> SUFFICES ASSUME StreamInv PROVE ParametersReachLiveStreams
    OBVIOUS
  <2>1. /\ devlock = ParamThread <=> ~At(ParamThread, "idle")
        /\ rest \subseteq opened
        /\ pc[ParamThread] \notin { "idle", "next" } => target \in opened
    BY DEF StreamInv, ParamsWalkOpened, At
  <2>2. ASSUME NEW s \in opened
        PROVE  pc[s] \notin { "closed", "register", "assign", "list", "close", "tear" } /\ op[s] # "close"
    <3>1. s \in Streams /\ pc[s] \notin OpenPlaces /\ op[s] # "close"
      BY DEF StreamInv, StreamTypeOK, PortFollowsLife
    <3>2. pc[s] \in FreePlaces \cup StreamInside
      BY <3>1 DEF StreamInv, PlacesFitCalls
    <3> QED BY <3>1, <3>2 DEF OpenPlaces, FreePlaces, StreamInside, StreamReadPlaces, PortLabels, InStack
  <2> QED BY <2>1, <2>2 DEF ParametersReachLiveStreams
<1> QED BY <1>1, StreamInvariant, PTL

\* No two threads are inside Start, Suspend or Stop of one port: the stream mutex orders the stream
\* functions and the walk, and the list of open streams keeps the walk off a stream that closes.
THEOREM StreamOneUserOfThePort == StreamSpec => []OneUserOfThePort
<1>1. StreamInv => OneUserOfThePort
  <2> SUFFICES ASSUME StreamInv, NEW s \in Streams, NEW t \in Threads,
                      pc[t] \in PortLabels \cup { "disable", "enable" }, On(t) = s, t # s
               PROVE  pc[s] \notin PortLabels
    BY DEF OneUserOfThePort
  <2>1. t = ParamThread /\ target = s
    BY ThreadsApart DEF Threads
  <2>2. pc[ParamThread] \in ParamInside
    BY <2>1 DEF ParamInside
  <2>3. slock[s] = ParamThread /\ s \in opened
    BY <2>1, <2>2, PlacesApart DEF StreamInv, InsideHoldsMutex, ParamsWalkOpened
  <2>4. op[s] # "close"
    BY <2>3 DEF StreamInv, PortFollowsLife
  <2>5. pc[s] \notin StreamInside
    BY <2>3, <2>4, ThreadsApart DEF StreamInv, InsideHoldsMutex
  <2> QED BY <2>5 DEF StreamInside
<1> QED BY <1>1, StreamInvariant, PTL

\* Once the session_changed walk of an end is over no port is STARTED, but by an answer that was in
\* its binder thread before the end and is reported after it.
THEOREM StreamStartedOnlyInSession == StreamSpec => []StartedOnlyInSession
<1>1. StreamInv => StartedOnlyInSession
  BY DEF StreamInv, StartedIsToldYet, StartedOnlyInSession, WalkOver
<1> QED BY <1>1, StreamInvariant, PTL

-----------------------------------------------------------------------------
\* The mutexes of the streams.

\* The mutex of a stream is only ever held from inside: by its playback thread in a stream function,
\* or by set_parameters at work on it.  InsideHoldsMutex says the converse.
HeldFromInside ==
  \A s \in Streams : slock[s] # NoThread =>
    \/ slock[s] = s /\ pc[s] \in StreamInside /\ op[s] # "close"
    \/ slock[s] = ParamThread /\ target = s /\ pc[ParamThread] \in ParamInside

\* A thread inside a stream is at no place where one waits for a mutex, and not out of the call.
LEMMA InsideWaitsForNone ==
  /\ (StreamInside \cup ParamInside) \cap { "idle", "closed", "list", "lock", "count" } = {}
  /\ StreamInside \cap { "data", "tear", "close", "register", "assign" } = {}
  /\ ParamInside \cap { "next" } = {}
BY DEF StreamInside, ParamInside, StreamReadPlaces, ParamReadPlaces, PortLabels, InStack

\* A step that takes and gives back no mutex, and out of which those inside stay inside.
LEMMA HeldWhileInside ==
  ASSUME HeldFromInside, UNCHANGED slock,
         \A s \in Streams : pc[s] \in StreamInside /\ op[s] # "close" => pc'[s] \in StreamInside /\ op'[s] # "close",
         pc[ParamThread] \in ParamInside => pc'[ParamThread] \in ParamInside /\ target' = target
  PROVE  HeldFromInside'
BY DEF HeldFromInside

\* A thread that is not inside moves: it may go anywhere without a mutex.
LEMMA HeldWhileOutside ==
  ASSUME StreamInv, HeldFromInside, NEW t \in Threads, NEW next \in Places, Goto(t, next), UNCHANGED slock,
         t \in Streams => pc[t] \notin StreamInside /\ UNCHANGED target,
         t = ParamThread => pc[t] \notin ParamInside,
         \A s \in Streams \ {t} : op'[s] = op[s]
  PROVE  HeldFromInside'
<1>1. \A u \in Threads \ {t} : pc'[u] = pc[u]
  BY WentTo DEF StreamInv
<1>2. CASE t = ParamThread
  BY <1>1, <1>2, ThreadsApart, HeldWhileInside
<1>3. CASE t \in Streams
  <2>1. ParamThread # t
    BY <1>3, ThreadsApart
  <2> QED BY <1>1, <1>3, <2>1, ThreadsApart, HeldWhileInside
<1> QED BY <1>2, <1>3 DEF Threads

\* Inside a function of a stream or of the port nobody lets go of the mutex.
LEMMA WorkHeld ==
  ASSUME StreamInv, HeldFromInside, NEW t \in Threads,
         PortStep(t) \/ StackReturns(t) \/ StreamReads(t) \/ (t = ParamThread /\ SetsState)
  PROVE  HeldFromInside'
<1>1. UNCHANGED << op, target, slock >>
  BY DEF PortStep, StartReads, StartSets, StartCalls, StartWaits, SuspendReads, SuspendSets, SuspendCalls,
         SuspendWaits, StopSets, StopCalls, StackReturns, StreamReads, Test, SetsState, lock_state
<1>2. PICK next : StaysInside(t, next) /\ Goto(t, next)
  <2>1. CASE PortStep(t) \/ StackReturns(t) \/ StreamReads(t)
    BY <2>1, ReadsMove, PortMoves
  <2>2. CASE t = ParamThread /\ SetsState
    <3>1. pc[ParamThread] \in { "disable", "enable" } /\ Goto(ParamThread, "ok")
      BY <2>2 DEF SetsState, At
    <3>2. op[ParamThread] # "close"
      BY <3>1 DEF StreamInv, PlacesFitCalls, ParamOps
    <3>3. StaysInside(ParamThread, "ok")
      BY <3>1, <3>2 DEF StaysInside, Places, ParamInside
    <3> QED BY <2>2, <3>1, <3>3
  <2> QED BY <2>1, <2>2
<1>3. pc'[t] = next /\ \A u \in Threads \ {t} : pc'[u] = pc[u]
  BY <1>2, WentTo DEF StreamInv, StaysInside
<1>4. \A s \in Streams : pc[s] \in StreamInside /\ op[s] # "close" => pc'[s] \in StreamInside
  BY <1>2, <1>3, ThreadsApart DEF StaysInside
<1>5. pc[ParamThread] \in ParamInside => pc'[ParamThread] \in ParamInside
  <2>1. pc[ParamThread] \in ParamInside => op[ParamThread] # "close"
    BY InsideWaitsForNone DEF StreamInv, PlacesFitCalls, ParamOps
  <2> QED BY <1>2, <1>3, <2>1, ThreadsApart DEF StaysInside
<1> QED BY <1>1, <1>4, <1>5, HeldWhileInside

\* Who takes the mutex of a stream goes inside.
LEMMA LockStreamHeld ==
  ASSUME StreamInv, HeldFromInside, NEW t \in Threads, LockStream(t)
  PROVE  HeldFromInside'
<1>1. /\ pc[t] = "lock" /\ slock' = [ slock EXCEPT ![On(t)] = t ] /\ UNCHANGED << op, target >>
      /\ Goto(t, IF op[t] = "write" THEN "out_resume"
                 ELSE IF t = ParamThread /\ ~IsA2dp THEN "ok" ELSE op[t])
  BY DEF LockStream, At
<1>2. slock \in [ Streams -> Threads \cup {NoThread} ]
  BY DEF StreamInv, StreamTypeOK
<1>3. CASE t \in Streams
  <2>1. On(t) = t /\ t # ParamThread
    BY <1>3, ThreadsApart
  <2>2. op[t] \in PlaybackOps /\ op[t] # "close"
    <3>1. op[t] \in PlaybackOps \cup { "none" }
      BY <1>1, <1>3, PlaybackAt DEF FreePlaces
    <3> QED BY <1>1, <1>3, <3>1, PlaybackAt DEF StreamInv, PlacesFitCalls
  <2>3. PICK next \in StreamInside : Goto(t, next)
    <3>1. (IF op[t] = "write" THEN "out_resume" ELSE op[t]) \in StreamInside
      BY <2>2 DEF PlaybackOps, StreamInside, StreamReadPlaces
    <3> QED BY <1>1, <2>1, <3>1
  <2>4. pc'[t] \in StreamInside /\ \A u \in Threads \ {t} : pc'[u] = pc[u]
    <3>1. next \in Places
      BY <2>3 DEF Places
    <3> QED BY <2>3, <3>1, WentTo DEF StreamInv
  <2>5. slock'[t] = t /\ \A r \in Streams \ {t} : slock'[r] = slock[r]
    BY <1>1, <1>2, <1>3, <2>1
  <2> QED BY <1>1, <2>1, <2>2, <2>4, <2>5, ThreadsApart DEF HeldFromInside
<1>4. CASE t = ParamThread
  <2>1. On(t) = target /\ target \in Streams
    BY <1>1, <1>4, ThreadsApart DEF StreamInv, ParamsWalkOpened, StreamTypeOK
  <2>2. op[t] \in ParamOps
    BY <1>1, <1>4 DEF StreamInv, PlacesFitCalls
  <2>3. PICK next \in ParamInside : Goto(t, next)
    <3>1. op[t] # "write" /\ op[t] \in ParamInside /\ "ok" \in ParamInside
      BY <2>2 DEF ParamOps, ParamInside, ParamReadPlaces
    <3> QED BY <1>1, <1>4, <3>1
  <2>4. pc'[t] \in ParamInside /\ \A u \in Threads \ {t} : pc'[u] = pc[u]
    <3>1. next \in Places
      BY <2>3 DEF Places
    <3> QED BY <2>3, <3>1, WentTo DEF StreamInv
  <2>5. slock'[target] = ParamThread /\ \A r \in Streams \ {target} : slock'[r] = slock[r]
    BY <1>1, <1>2, <1>4, <2>1
  <2>6. pc[ParamThread] \notin ParamInside
    BY <1>1, <1>4, InsideWaitsForNone
  <2> QED BY <1>1, <1>4, <2>1, <2>4, <2>5, <2>6, ThreadsApart DEF HeldFromInside
<1> QED BY <1>3, <1>4 DEF Threads

\* Who leaves gives the mutex back, whether the function did what it was asked or failed.
LEMMA UnlockHeld ==
  ASSUME StreamInv, HeldFromInside, (\E s \in Streams : UnlockStream(s)) \/ StreamParametersSet
  PROVE  HeldFromInside'
<1>1. slock \in [ Streams -> Threads \cup {NoThread} ]
  BY DEF StreamInv, StreamTypeOK
<1>2. ASSUME NEW s \in Streams, UnlockStream(s) PROVE HeldFromInside'
  <2>1. /\ slock' = [ slock EXCEPT ![s] = NoThread ] /\ op' = [ op EXCEPT ![s] = "none" ] /\ UNCHANGED target
    BY <1>2 DEF UnlockStream
  <2>2. PICK next \in { "data", "idle" } : Goto(s, next)
    BY <1>2 DEF UnlockStream
  <2>3. \A u \in Threads \ {s} : pc'[u] = pc[u]
    <3>1. next \in Places
      BY DEF Places, FreePlaces
    <3> QED BY <2>2, <3>1, WentTo, ThreadsApart DEF StreamInv
  <2>4. \A r \in Streams \ {s} : slock'[r] = slock[r] /\ op'[r] = op[r]
    BY <1>1, <2>1, ThreadsApart DEF StreamInv, StreamTypeOK
  <2>5. slock'[s] = NoThread
    BY <1>1, <2>1
  <2> QED BY <2>1, <2>3, <2>4, <2>5, ThreadsApart DEF HeldFromInside
<1>3. CASE StreamParametersSet
  <2>1. /\ pc[ParamThread] \in { "ok", "fail" } /\ slock' = [ slock EXCEPT ![target] = NoThread ]
        /\ Goto(ParamThread, "next") /\ UNCHANGED op
    BY <1>3 DEF StreamParametersSet
  <2>2. \A s \in Streams : pc'[s] = pc[s]
    BY <2>1, WentTo, ThreadsApart DEF StreamInv, Places
  <2>3. \A s \in Streams : slock'[s] = IF s = target THEN NoThread ELSE slock[s]
    BY <1>1, <2>1
  <2> QED BY <2>1, <2>2, <2>3 DEF HeldFromInside
<1> QED BY <1>2, <1>3

\* The playback thread of a stream that opens, closes or is about to call.
LEMMA PlaybackHeld ==
  ASSUME StreamInv, HeldFromInside, NEW s \in Streams,
         \/ SetUpChecks(s) \/ SetUpRegisters(s) \/ SetUpAssigns(s) \/ OpenLists(s) \/ OutWrite(s) \/ WriteData(s)
         \/ CountFrames(s) \/ CloseUnlists(s) \/ TearDown(s) \/ \E o \in PlaybackOps : Enters(s, o)
  PROVE  HeldFromInside'
<1>1. /\ pc[s] \in { "closed", "register", "assign", "list", "idle", "data", "count", "tear" }
      /\ UNCHANGED << target, slock >>
      /\ op' = op \/ \E o : op' = [ op EXCEPT ![s] = o ]
  BY DEF SetUpChecks, SetUpRegisters, SetUpAssigns, OpenLists, OutWrite, WriteData, CountFrames, CloseUnlists,
         TearDown, Enters, At, lock_state
<1>2. PICK next \in { "register", "closed", "assign", "list", "idle", "data", "lock", "count", "close" } : Goto(s, next)
  BY DEF SetUpChecks, SetUpRegisters, SetUpAssigns, OpenLists, OutWrite, WriteData, CountFrames, CloseUnlists,
         TearDown, Enters
<1>3. next \in Places /\ pc[s] \notin StreamInside
  BY <1>1, InsideWaitsForNone DEF Places, OpenPlaces, FreePlaces, ClosePlaces
<1>4. \A r \in Streams \ {s} : op'[r] = op[r]
  BY <1>1, ThreadsApart DEF StreamInv, StreamTypeOK
<1> QED BY <1>1, <1>2, <1>3, <1>4, ThreadsApart, HeldWhileOutside

\* set_parameters between two streams.
LEMMA ParamsHeld ==
  ASSUME StreamInv, HeldFromInside, NextStream \/ \E o \in DeviceCalls : SetParameters(o)
  PROVE  HeldFromInside'
<1>1. /\ pc[ParamThread] \in { "idle", "next" } /\ UNCHANGED slock
      /\ op' = op \/ \E o : op' = [ op EXCEPT ![ParamThread] = o ]
  BY DEF NextStream, SetParameters, At
<1>2. PICK next \in { "next", "lock", "idle" } : Goto(ParamThread, next)
  BY DEF NextStream, SetParameters
<1>3. next \in Places /\ pc[ParamThread] \notin ParamInside
  BY <1>1, InsideWaitsForNone DEF Places, FreePlaces
<1>4. \A s \in Streams \ {ParamThread} : op'[s] = op[s]
  BY <1>1, ThreadsApart DEF StreamInv, StreamTypeOK
<1> QED BY <1>1, <1>2, <1>3, <1>4, ThreadsApart, HeldWhileOutside

\* Every step keeps the mutexes of the streams with the threads inside.
LEMMA StreamNextHeld ==
  StreamInv /\ HeldFromInside /\ [StreamNext]_streamVars => HeldFromInside'
<1> SUFFICES ASSUME StreamInv, HeldFromInside, [StreamNext]_streamVars PROVE HeldFromInside'
  OBVIOUS
<1>1. CASE UNCHANGED << thread_state, lock_state >>
  BY <1>1, HeldWhileInside DEF thread_state, lock_state
<1>2. CASE Framework
  <2>1. ASSUME NEW s \in Streams, NEW o \in StreamCalls \ {"out_write"}, Enters(s, o)
        PROVE  HeldFromInside'
    <3>1. o \in PlaybackOps
      BY StreamAssumption DEF PlaybackOps
    <3> QED BY <2>1, <3>1, PlaybackHeld
  <2> QED BY <1>2, <2>1, PlaybackHeld, ParamsHeld DEF Framework
<1>3. ASSUME NEW t \in Threads, GoesOnIn(t) PROVE HeldFromInside'
  <2>1. CASE CommonStep(t)
    BY <2>1, LockStreamHeld, WorkHeld DEF CommonStep
  <2>2. CASE t \in Streams /\ StreamStep(t)
    BY <2>2, PlaybackHeld, UnlockHeld DEF StreamStep
  <2>3. CASE t = ParamThread /\ ParamStep
    BY <2>3, ParamsHeld, WorkHeld, UnlockHeld DEF ParamStep
  <2> QED BY <1>3, <2>1, <2>2, <2>3 DEF GoesOnIn
<1>4. CASE PortCallback
  <2>1. UNCHANGED << thread_state, lock_state >>
    BY <1>4 DEF PortCallback, CallbackDropped, SessionChanged, ControlResultReads, ControlResultWrites
  <2> QED BY <1>1, <2>1
<1>5. CASE StackStep \/ \E t \in BinderThreads : BinderStep(t)
  <2>1. UNCHANGED << thread_state, lock_state >>
    BY <1>5 DEF StackStep, StackForgets, Answers, AnswersWithin, BinderStep, Untouched
  <2> QED BY <1>1, <2>1
<1>6. CASE UNCHANGED streamVars
  BY <1>1, <1>6 DEF streamVars
<1>7. ASSUME NEW t \in Threads, StackReturns(t) PROVE HeldFromInside'
  BY <1>7, WorkHeld
<1> QED BY <1>2, <1>3, <1>4, <1>5, <1>6, <1>7 DEF StreamNext

\* Whoever has a mutex that a thread waits for is inside a call that gives it back and waits, if at
\* all, in the order device, stream: no failed call leaves a mutex locked and no threads wait for
\* each other.  The fairness of the threads makes of this that every call returns.
THEOREM StreamLocksAreOrdered == StreamSpec => []LocksAreOrdered
<1>1. StreamInit => HeldFromInside
  BY DEF StreamInit, HeldFromInside
<1>2. StreamSpec => []HeldFromInside
  BY <1>1, StreamInvariant, StreamNextHeld, PTL DEF StreamSpec
<1>3. StreamInv /\ HeldFromInside => LocksAreOrdered
  <2> SUFFICES ASSUME StreamInv, HeldFromInside, NEW t \in Threads, BlockedBy(t) # NoThread
               PROVE  LET holder == BlockedBy(t) IN
                        /\ holder # t
                        /\ pc[holder] \notin { "idle", "closed" }
                        /\ \/ BlockedBy(holder) = NoThread
                           \/ /\ At(t, "list") /\ holder = ParamThread
                              /\ BlockedBy(holder) = target
                              /\ BlockedBy(target) = NoThread
    BY DEF LocksAreOrdered
  <2>1. \A u \in Threads : pc[u] \in StreamInside \cup ParamInside
                             => BlockedBy(u) = NoThread /\ pc[u] \notin { "idle", "closed" }
    BY InsideWaitsForNone DEF BlockedBy, At
  <2>2. /\ pc[ParamThread] \in { "idle", "next", "lock" } \cup ParamInside
        /\ pc[ParamThread] \notin { "list", "count", "closed" }
        /\ pc[ParamThread] = "lock" => target \in Streams
    BY InsideWaitsForNone DEF StreamInv, PlacesFitCalls, ParamsWalkOpened, StreamTypeOK
  <2>3. CASE At(t, "list")
    <3>1. BlockedBy(t) = ParamThread /\ pc[ParamThread] # "idle" /\ t # ParamThread
      BY <2>2, <2>3 DEF BlockedBy, StreamInv, StreamTypeOK, ParamsWalkOpened, At
    <3>2. CASE pc[ParamThread] # "lock" \/ slock[target] = NoThread
      <4>1. BlockedBy(ParamThread) = NoThread
        BY <2>2, <3>2, ThreadsApart DEF BlockedBy, At
      <4> QED BY <2>2, <3>1, <4>1
    <3>3. CASE pc[ParamThread] = "lock" /\ slock[target] # NoThread
      <4>1. slock[target] = target /\ pc[target] \in StreamInside
        BY <2>2, <3>3, InsideWaitsForNone DEF HeldFromInside
      <4>2. BlockedBy(ParamThread) = target
        BY <3>3, <4>1, ThreadsApart DEF BlockedBy, At
      <4>3. BlockedBy(target) = NoThread
        BY <2>1, <2>2, <3>3, <4>1, ThreadsApart
      <4> QED BY <2>2, <2>3, <3>1, <4>2, <4>3
    <3> QED BY <3>2, <3>3
  <2>4. CASE pc[t] \in { "lock", "count" }
    <3>1. BlockedBy(t) = slock[On(t)]
      BY <2>4 DEF BlockedBy, At
    <3>2. On(t) \in Streams /\ pc[t] \notin StreamInside \cup ParamInside
      BY <2>2, <2>4, ThreadsApart, InsideWaitsForNone DEF Threads
    <3>3. \/ slock[On(t)] = On(t) /\ pc[On(t)] \in StreamInside
          \/ slock[On(t)] = ParamThread /\ pc[ParamThread] \in ParamInside
      BY <3>1, <3>2 DEF HeldFromInside
    <3> QED BY <2>1, <3>1, <3>2, <3>3, ThreadsApart
  <2> QED BY <2>3, <2>4 DEF BlockedBy
<1> QED BY <1>2, <1>3, StreamInvariant, PTL

\* The streams use the providers and the session as their specifications allow: what is proved of
\* those, the contract of the session with its outputs included, is true under them.
THEOREM StreamImplementsProvider == StreamSpec => ProviderSpec /\ ImplementsContract
<1>1. StreamInit => ProviderInit
  BY DEF StreamInit
<1>2. StreamSpec => ProviderSpec
  BY <1>1, StreamInvariant, StreamStepIsProviderStep, PTL DEF StreamSpec, ProviderSpec
<1> QED BY <1>2, ProviderImplementsSession

===============================================================================
