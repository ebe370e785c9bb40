-------------------------- MODULE BluetoothStreamOut --------------------------
(***************************************************************************)
(* The output streams of the Bluetooth audio HAL over one session: the     *)
(* stream functions of stream_apis.cc, the port object (device_port_proxy) *)
(* each stream owns, and the device-wide set_parameters.                   *)
(*                                                                         *)
(* Three kinds of threads meet in a port.  The playback thread of a stream *)
(* opens it, writes, starts, suspends and closes it.  A parameter thread   *)
(* walks the open streams when A2dpSuspended changes.  A binder thread of  *)
(* the session calls the port back with the session mutex held.  The       *)
(* stream mutex and the device mutex order the first two; the port writes  *)
(* state_ with no lock at all, so each read and each write of it is a step *)
(* of its own.                                                             *)
(***************************************************************************)
EXTENDS BluetoothAudioProvider

CONSTANTS
  ParamThread,   \* the thread that runs adev_set_parameters
  StreamCalls,   \* the stream functions the framework calls
  DeviceCalls,   \* what it passes to adev_set_parameters
  MaxAsked       \* bound: requests of one kind the stack still means to answer

Streams == Clients    \* an output is one stream with its port
Threads == Streams \cup {ParamThread}
IsA2dp  == SessionType \in { "A2DP_SOFTWARE_ENCODING_DATAPATH",
                             "A2DP_HARDWARE_OFFLOAD_ENCODING_DATAPATH" }

ASSUME StreamAssumption ==
  /\ ParamThread \notin Streams
  /\ NoThread \notin Threads
  /\ StreamCalls \subseteq { "out_write", "out_resume", "out_standby", "closing" }
  /\ DeviceCalls \subseteq { "A2dpSuspended=true", "A2dpSuspended=false" }
  /\ MaxAsked \in Nat

VARIABLES
  state,       \* state_ of the port of the stream
  cookie,      \* cookie_ of the port
  handler,     \* the control_result_cb_ under way: its cookie and the state it read
  pc, op,      \* where each thread is, and in which call of the framework
  target,      \* the stream the parameter thread works on, or NoClient
  rest,        \* the open streams it has not reached
  slock,       \* the holder of mutex_ of each stream
  devlock,     \* the holder of mutex_ of the device
  opened,      \* opened_stream_outs_
  asked,       \* start and suspend requests the stack means to answer
  streaming,   \* the stack is streaming: it may suspend on its own
  late         \* history: an answer was reported since the session announced last was over

port_state   == << state, cookie, handler >>
thread_state == << pc, op, target, rest >>
lock_state   == << slock, devlock, opened >>
stack_state  == << asked, streaming, late >>
besideSession == << provider_state, alive, call, owner, startedDead >>
streamVars   == << providerVars, port_state, thread_state, lock_state, stack_state >>

-----------------------------------------------------------------------------
NoHandler  == [ cookie |-> NoCookie, previous |-> "DISABLED" ]

\* The stream a thread works on.
On(t) == IF t = ParamThread THEN target ELSE t

Goto(t, label) == pc' = [ pc EXCEPT ![t] = label ]
At(t, label)   == pc[t] = label
SetState(s, st) == state' = [ state EXCEPT ![s] = st ]

\* One read of the port's state: where the thread goes when it is `st` and when it is not.
Test(t, label, st, yes, no) ==
  /\ At(t, label)
  /\ Goto(t, IF state[On(t)] = st THEN yes ELSE no)
  /\ UNCHANGED << port_state, op, target, rest, lock_state, stack_state, providerVars >>

\* Where a thread goes when Suspend() is back: set_parameters ignores the result.
FromSuspend(t, result) == IF op[t] = "A2dpSuspended=true" THEN "disable" ELSE result

-----------------------------------------------------------------------------
\* Opening: SetUp, then the list of the device.

\* init_session_type: only over a ready session; the new port stands by.
SetUpChecks(s) ==
  /\ At(s, "closed")
  /\ MutexFree /\ IsSessionReady
  /\ SetState(s, "STANDBY")
  /\ Goto(s, "register")
  /\ UNCHANGED << cookie, handler, op, target, rest, lock_state, stack_state, providerVars >>

\* The callbacks are registered; with no cookie left the port is deleted again.
SetUpRegisters(s) ==
  /\ At(s, "register")
  /\ RegisterStatusCback(s)
  /\ IF granted'[s] = NoCookie
     THEN Goto(s, "closed") /\ SetState(s, "DISABLED")
     ELSE Goto(s, "assign") /\ UNCHANGED state
  /\ UNCHANGED << cookie, handler, op, target, rest, lock_state, stack_state, besideSession >>

\* cookie_ is assigned from the value returned: callbacks before this are dropped.
SetUpAssigns(s) ==
  /\ At(s, "assign")
  /\ cookie' = [ cookie EXCEPT ![s] = granted[s] ]
  /\ Goto(s, "list")
  /\ UNCHANGED << state, handler, op, target, rest, lock_state, stack_state, providerVars >>

\* adev_open_output_stream adds the stream to the device.
OpenLists(s) ==
  /\ At(s, "list")
  /\ devlock = NoThread
  /\ opened' = opened \cup {s}
  /\ Goto(s, "idle")
  /\ UNCHANGED << port_state, op, target, rest, slock, devlock, stack_state, providerVars >>

-----------------------------------------------------------------------------
\* Start, Suspend and Stop of the port, by whichever thread holds the stream.

StartReads(t) == Test(t, "start", "STANDBY", "start_set", "fail")

StartSets(t) ==
  /\ At(t, "start_set")
  /\ SetState(On(t), "STARTING")
  /\ Goto(t, "start_call")
  /\ UNCHANGED << cookie, handler, op, target, rest, lock_state, stack_state, providerVars >>

\* StartStream: a session that is not ready refuses, a ready one calls the stack with its mutex held.
StartCalls(t) ==
  /\ At(t, "start_call")
  /\ \/ /\ EntersStack
        /\ asked' = [ asked EXCEPT !.start = IF @ < MaxAsked THEN @ + 1 ELSE @ ]
        /\ Goto(t, "start_in")
     \/ /\ MutexFree /\ ~IsSessionReady
        /\ Goto(t, "fail")
        /\ UNCHANGED << asked, sessionVars >>
  /\ UNCHANGED << port_state, op, target, rest, lock_state, streaming, late, besideSession >>

\* CondwaitState(STARTING): woken by a callback, or 4.5 s are over.
StartWaits(t) ==
  /\ At(t, "start_wait")
  /\ Goto(t, IF state[On(t)] = "STARTED" THEN "ok" ELSE "fail")
  /\ UNCHANGED << port_state, op, target, rest, lock_state, stack_state, providerVars >>

SuspendReads(t) == Test(t, "suspend", "STARTED", "suspend_set", FromSuspend(t, "fail"))

SuspendSets(t) ==
  /\ At(t, "suspend_set")
  /\ SetState(On(t), "SUSPENDING")
  /\ Goto(t, "suspend_call")
  /\ UNCHANGED << cookie, handler, op, target, rest, lock_state, stack_state, providerVars >>

SuspendCalls(t) ==
  /\ At(t, "suspend_call")
  /\ \/ /\ EntersStack
        /\ asked' = [ asked EXCEPT !.suspend = IF @ < MaxAsked THEN @ + 1 ELSE @ ]
        /\ Goto(t, "suspend_in")
     \/ /\ MutexFree /\ ~IsSessionReady
        /\ Goto(t, FromSuspend(t, "fail"))
        /\ UNCHANGED << asked, sessionVars >>
  /\ UNCHANGED << port_state, op, target, rest, lock_state, streaming, late, besideSession >>

\* CondwaitState(SUSPENDING): woken by a callback, or 4.5 s are over.
SuspendWaits(t) ==
  /\ At(t, "suspend_wait")
  /\ Goto(t, FromSuspend(t, IF state[On(t)] = "STANDBY" THEN "ok" ELSE "fail"))
  /\ UNCHANGED << port_state, op, target, rest, lock_state, stack_state, providerVars >>

StopSets(t) ==
  /\ At(t, "stop")
  /\ SetState(On(t), "DISABLED")
  /\ Goto(t, "stop_call")
  /\ UNCHANGED << cookie, handler, op, target, rest, lock_state, stack_state, providerVars >>

AfterStop(t) == IF op[t] = "close" THEN "tear" ELSE "ok"

StopCalls(t) ==
  /\ At(t, "stop_call")
  /\ \/ /\ EntersStack
        /\ streaming' = FALSE
        /\ Goto(t, "stop_in")
     \/ /\ MutexFree /\ ~IsSessionReady
        /\ Goto(t, AfterStop(t))
        /\ UNCHANGED << streaming, sessionVars >>
  /\ UNCHANGED << port_state, op, target, rest, lock_state, asked, late, besideSession >>

\* The stack returns, or the call fails: Start then leaves the port STARTING.  Stop ignores which.
StackReturns(t) ==
  /\ \/ At(t, "start_in")   /\ \E next \in { "start_wait", "fail" } : Goto(t, next)
     \/ At(t, "suspend_in") /\ \E next \in { "suspend_wait", FromSuspend(t, "fail") } : Goto(t, next)
     \/ At(t, "stop_in")    /\ Goto(t, AfterStop(t))
  /\ LeavesStack
  /\ UNCHANGED << port_state, op, target, rest, lock_state, stack_state, besideSession >>

PortStep(t) ==
  \/ StartReads(t) \/ StartSets(t) \/ StartCalls(t) \/ StartWaits(t)
  \/ SuspendReads(t) \/ SuspendSets(t) \/ SuspendCalls(t) \/ SuspendWaits(t)
  \/ StopSets(t) \/ StopCalls(t)

-----------------------------------------------------------------------------
\* The stream functions.  Each takes the stream mutex and then reads the state of the
\* port, again for every state its chain of ifs compares it with: label, state, next.

Reads ==
  { << "out_resume",  "STANDBY",    "start",   "resume2" >>,
    << "resume2",     "STARTING",   "fail",    "resume3" >>,
    << "resume3",     "SUSPENDING", "fail",    "resume4" >>,
    << "resume4",     "DISABLED",   "fail",    "ok" >>,
    << "out_standby", "STARTED",    "suspend", "standby2" >>,
    << "standby2",    "STARTING",   "fail",    "standby3" >>,
    << "standby3",    "SUSPENDING", "fail",    "ok" >>,
    << "closing",     "DISABLED",   "ok",      "stop" >>,
    << "A2dpSuspended=true",  "STARTED",  "suspend", "suspended2" >>,
    << "suspended2",          "DISABLED", "ok",      "stop" >>,
    << "A2dpSuspended=false", "DISABLED", "enable",  "ok" >>,
    << "close",       "DISABLED",   "tear",    "stop" >> }

StreamReads(t) == \E r \in Reads : Test(t, r[1], r[2], r[3], r[4])

\* out_resume, out_standby (out_pause is the same) and out_set_parameters with closing
\* or exiting are called by the playback thread.
Enters(s, o) ==
  /\ At(s, "idle")
  /\ Goto(s, "lock")
  /\ op' = [ op EXCEPT ![s] = o ]
  /\ UNCHANGED << port_state, target, rest, lock_state, stack_state, providerVars >>

\* out_write looks at the state with the mutex held, lets go and resumes unless started.
OutWrite(s) ==
  /\ At(s, "idle")
  /\ slock[s] = NoThread
  /\ IF state[s] = "STARTED"
     THEN Goto(s, "data") /\ UNCHANGED op
     ELSE Goto(s, "lock") /\ op' = [ op EXCEPT ![s] = "write" ]
  /\ UNCHANGED << port_state, target, rest, lock_state, stack_state, providerVars >>

\* Mutant of LockStream: the mutex of the stream is not waited for.
LockStream_Ignored(t) ==
  /\ At(t, "lock")
  /\ slock' = [ slock EXCEPT ![On(t)] = t ]
  /\ Goto(t, IF op[t] = "write" THEN "out_resume" ELSE op[t])
  /\ UNCHANGED << port_state, op, target, rest, devlock, opened, stack_state, providerVars >>

LockStream(t) ==
  /\ At(t, "lock")
  /\ slock[On(t)] = NoThread
  /\ slock' = [ slock EXCEPT ![On(t)] = t ]
  /\ Goto(t, IF op[t] = "write" THEN "out_resume"
             ELSE IF t = ParamThread /\ ~IsA2dp THEN "ok" ELSE op[t])
  /\ UNCHANGED << port_state, op, target, rest, devlock, opened, stack_state, providerVars >>

\* Mutant of UnlockStream: a function that fails keeps the mutex.
UnlockStream_Leaks(s) ==
  /\ pc[s] \in { "ok", "fail" }
  /\ slock' = [ slock EXCEPT ![s] = IF At(s, "fail") THEN @ ELSE NoThread ]
  /\ Goto(s, IF op[s] = "write" /\ At(s, "ok") THEN "data" ELSE "idle")
  /\ op' = [ op EXCEPT ![s] = "none" ]
  /\ UNCHANGED << port_state, target, rest, devlock, opened, stack_state, providerVars >>

\* The stream function returns; out_write goes on to the data once resumed.
UnlockStream(s) ==
  /\ pc[s] \in { "ok", "fail" }
  /\ slock' = [ slock EXCEPT ![s] = NoThread ]
  /\ Goto(s, IF op[s] = "write" /\ At(s, "ok") THEN "data" ELSE "idle")
  /\ op' = [ op EXCEPT ![s] = "none" ]
  /\ UNCHANGED << port_state, target, rest, devlock, opened, stack_state, providerVars >>

\* out_write hands the data to the session without the mutex, then counts frames with it.
WriteData(s) ==
  /\ At(s, "data")
  /\ MutexFree
  /\ Goto(s, "count")
  /\ UNCHANGED << port_state, op, target, rest, lock_state, stack_state, providerVars >>

CountFrames(s) ==
  /\ At(s, "count")
  /\ slock[s] = NoThread
  /\ Goto(s, "idle")
  /\ UNCHANGED << port_state, op, target, rest, lock_state, stack_state, providerVars >>

\* Mutant of CloseUnlists: the device mutex is not taken.
CloseUnlists_NoDeviceLock(s) ==
  /\ At(s, "idle")
  /\ opened' = opened \ {s}
  /\ Goto(s, "close")
  /\ op' = [ op EXCEPT ![s] = "close" ]
  /\ UNCHANGED << port_state, target, rest, slock, devlock, stack_state, providerVars >>

\* adev_close_output_stream: off the list, stop unless disabled, tear down, delete; the
\* stream mutex is not taken.
CloseUnlists(s) ==
  /\ At(s, "idle")
  /\ devlock = NoThread
  /\ opened' = opened \ {s}
  /\ Goto(s, "close")
  /\ op' = [ op EXCEPT ![s] = "close" ]
  /\ UNCHANGED << port_state, target, rest, slock, devlock, stack_state, providerVars >>

\* Mutant of TearDown: the callbacks stay registered.
TearDown_KeepsCallbacks(s) ==
  /\ At(s, "tear")
  /\ cookie' = [ cookie EXCEPT ![s] = NoCookie ]
  /\ SetState(s, "DISABLED")
  /\ Goto(s, "closed")
  /\ op' = [ op EXCEPT ![s] = "none" ]
  /\ UNCHANGED << handler, target, rest, lock_state, stack_state, providerVars >>

TearDown(s) ==
  /\ At(s, "tear")
  /\ UnregisterStatusCback(s)
  /\ cookie' = [ cookie EXCEPT ![s] = NoCookie ]
  /\ SetState(s, "DISABLED")
  /\ Goto(s, "closed")
  /\ op' = [ op EXCEPT ![s] = "none" ]
  /\ UNCHANGED << handler, target, rest, lock_state, stack_state, besideSession >>

-----------------------------------------------------------------------------
\* adev_set_parameters holds the device mutex while it goes through the open streams.

SetParameters(o) ==
  /\ At(ParamThread, "idle")
  /\ devlock = NoThread
  /\ devlock' = ParamThread
  /\ rest' = opened
  /\ Goto(ParamThread, "next")
  /\ op' = [ op EXCEPT ![ParamThread] = o ]
  /\ UNCHANGED << port_state, target, slock, opened, stack_state, providerVars >>

NextStream ==
  /\ At(ParamThread, "next")
  /\ \/ \E s \in rest :
          /\ target' = s
          /\ rest' = rest \ {s}
          /\ Goto(ParamThread, "lock")
          /\ UNCHANGED << op, devlock >>
     \/ /\ rest = {}
        /\ devlock' = NoThread
        /\ op' = [ op EXCEPT ![ParamThread] = "none" ]
        /\ Goto(ParamThread, "idle")
        /\ UNCHANGED << target, rest >>
  /\ UNCHANGED << port_state, slock, opened, stack_state, providerVars >>

\* A2dpSuspended=true leaves the port DISABLED after a Suspend, =false lets it stand by.
SetsState ==
  /\ \/ At(ParamThread, "disable") /\ SetState(target, "DISABLED")
     \/ At(ParamThread, "enable")  /\ SetState(target, "STANDBY")
  /\ Goto(ParamThread, "ok")
  /\ UNCHANGED << cookie, handler, op, target, rest, lock_state, stack_state, providerVars >>

StreamParametersSet ==
  /\ pc[ParamThread] \in { "ok", "fail" }
  /\ slock' = [ slock EXCEPT ![target] = NoThread ]
  /\ target' = NoClient
  /\ Goto(ParamThread, "next")
  /\ UNCHANGED << port_state, op, rest, devlock, opened, stack_state, providerVars >>

-----------------------------------------------------------------------------
\* The callbacks of a port, called one after the other by the walk of the session.

\* ControlResultHandler: the state that follows `previous`, or `previous` when none is written.
Outcome(previous, status) ==
  CASE previous = "STARTED"    -> IF status = "FAILURE" THEN previous ELSE "STANDBY"
    [] previous = "STARTING"   -> IF status = "SUCCESS" THEN "STARTED" ELSE "STANDBY"
    [] previous = "SUSPENDING" -> IF status = "SUCCESS" THEN "STANDBY" ELSE "DISABLED"
    [] OTHER                   -> previous

\* A callback with another cookie than the port's, or one the port has not set.
CallbackDropped(k) ==
  /\ handler = NoHandler
  /\ k \in report.todo
  /\ \/ cookie[observers[k]] # k
     \/ report.cb \notin { "control_result", "session_changed" }
  /\ CallsBack(k)
  /\ UNCHANGED << port_state, thread_state, lock_state, stack_state >>

\* Mutant of SessionChanged: a port that plays is left alone.
SessionChanged_KeepsStarted(k) ==
  /\ k \in report.todo
  /\ report.cb = "session_changed"
  /\ cookie[observers[k]] = k
  /\ SetState(observers[k], IF state[observers[k]] = "STARTED" THEN "STARTED" ELSE "DISABLED")
  /\ CallsBack(k)
  /\ UNCHANGED << cookie, handler, thread_state, lock_state, stack_state >>

SessionChanged(k) ==
  /\ k \in report.todo
  /\ report.cb = "session_changed"
  /\ cookie[observers[k]] = k
  /\ SetState(observers[k], "DISABLED")
  /\ CallsBack(k)
  /\ UNCHANGED << cookie, handler, thread_state, lock_state, stack_state >>

ControlResultReads(k) ==
  /\ handler = NoHandler
  /\ k \in report.todo
  /\ report.cb = "control_result"
  /\ cookie[observers[k]] = k
  /\ LET previous == state[observers[k]] IN
       IF Outcome(previous, report.status) = previous
       THEN CallsBack(k) /\ UNCHANGED handler
       ELSE /\ handler' = [ cookie |-> k, previous |-> previous ]
            /\ UNCHANGED providerVars
  /\ UNCHANGED << state, cookie, thread_state, lock_state, stack_state >>

ControlResultWrites ==
  /\ handler # NoHandler
  /\ SetState(observers[handler.cookie], Outcome(handler.previous, report.status))
  /\ handler' = NoHandler
  /\ CallsBack(handler.cookie)
  /\ UNCHANGED << cookie, thread_state, lock_state, stack_state >>

PortCallback ==
  \/ \E k \in report.todo : CallbackDropped(k) \/ SessionChanged(k) \/ ControlResultReads(k)
  \/ ControlResultWrites

-----------------------------------------------------------------------------
\* The Bluetooth stack: it answers what it was asked, and may suspend a stream it plays.

Untouched == UNCHANGED << port_state, thread_state, lock_state >>

\* An answer may be in its binder thread while another ends the session, and be reported after it.
MarksLate ==
  late' = IF announced' # announced THEN FALSE
          ELSE late \/ (report'.cb = "control_result" /\ ~announced)

\* What the stack may report: the answer to a request, or that it suspended on its own.
MeansToSay(start_resp, status) ==
  \/ /\ start_resp /\ asked.start > 0
     /\ asked' = [ asked EXCEPT !.start = @ - 1 ]
     /\ streaming' = (streaming \/ status = "SUCCESS")
  \/ /\ ~start_resp /\ asked.suspend > 0
     /\ asked' = [ asked EXCEPT !.suspend = @ - 1 ]
     /\ streaming' = (streaming /\ status # "SUCCESS")
  \/ /\ ~start_resp /\ streaming /\ status # "FAILURE"
     /\ streaming' = FALSE
     /\ UNCHANGED asked

Answers(t, h, start_resp, status) ==
  /\ MeansToSay(start_resp, status)
  /\ StreamResult(t, h, start_resp, status)
  /\ UNCHANGED late
  /\ Untouched

\* The stack may answer before it returns from the call: streamStarted and streamSuspended then run
\* on the thread that is inside.
AnswersWithin(start_resp, status) ==
  /\ stack_iface \in alive /\ p_iface[stack_iface]
  /\ MeansToSay(start_resp, status)
  /\ AnswersInside(start_resp, status)
  /\ MarksLate
  /\ UNCHANGED besideSession
  /\ Untouched

\* A session that starts, ends or dies leaves the stack with nothing to answer.
StackForgets ==
  /\ asked' = [ start |-> 0, suspend |-> 0 ]
  /\ streaming' = FALSE
  /\ UNCHANGED late
  /\ Untouched

StackStep ==
  \/ \E start_resp \in BOOLEAN, status \in Statuses : AnswersWithin(start_resp, status)
  \/ \E h \in Hosts :
    \/ StackDies(h) /\ StackForgets
    \/ \E t \in BinderThreads :
         \/ \E tag \in AcceptedTags, mq \in MqDescriptors :
              StartSession(t, h, tag, mq) /\ StackForgets
         \/ EndSession(t, h) /\ StackForgets
         \/ \E start_resp \in BOOLEAN, status \in Statuses : Answers(t, h, start_resp, status)
         \/ BinderDied(t, h) /\ Untouched /\ UNCHANGED stack_state

BinderStep(t) == ThreadGoesOn(t) /\ MarksLate /\ Untouched /\ UNCHANGED << asked, streaming >>

-----------------------------------------------------------------------------
StreamInit ==
  /\ ProviderInit
  /\ state = [ s \in Streams |-> "DISABLED" ]
  /\ cookie = [ s \in Streams |-> NoCookie ]
  /\ handler = NoHandler
  /\ pc = [ t \in Threads |-> IF t = ParamThread THEN "idle" ELSE "closed" ]
  /\ op = [ t \in Threads |-> "none" ]
  /\ target = NoClient
  /\ rest = {}
  /\ slock = [ s \in Streams |-> NoThread ]
  /\ devlock = NoThread
  /\ opened = {}
  /\ asked = [ start |-> 0, suspend |-> 0 ]
  /\ streaming = FALSE
  /\ late = FALSE

\* The framework calls.
Framework ==
  \/ \E s \in Streams :
       \/ SetUpChecks(s)
       \/ "out_write" \in StreamCalls /\ OutWrite(s)
       \/ \E o \in StreamCalls \ {"out_write"} : Enters(s, o)
       \/ CloseUnlists(s)
  \/ \E o \in DeviceCalls : SetParameters(o)

\* A thread inside a call goes on.
StreamStep(s) ==
  \/ SetUpRegisters(s) \/ SetUpAssigns(s) \/ OpenLists(s)
  \/ UnlockStream(s) \/ WriteData(s) \/ CountFrames(s) \/ TearDown(s)
ParamStep == NextStream \/ SetsState \/ StreamParametersSet
CommonStep(t) == LockStream(t) \/ StreamReads(t) \/ PortStep(t)

GoesOnIn(t) ==
  \/ CommonStep(t)
  \/ t \in Streams /\ StreamStep(t)
  \/ t = ParamThread /\ ParamStep

StreamNext ==
  \/ Framework
  \/ \E t \in Threads : GoesOnIn(t) \/ StackReturns(t)
  \/ PortCallback
  \/ StackStep
  \/ \E t \in BinderThreads : BinderStep(t)

\* The call into a process that died fails.
DeadCallReturns == stack_iface \notin alive /\ \E t \in Threads : StackReturns(t)

\* Threads inside a call run and get the mutexes they wait for; callbacks return.  Of the stack
\* nothing is asked but that the driver ends the call into one that died.
StreamFairness ==
  /\ WF_streamVars(DeadCallReturns)
  /\ WF_streamVars(PortCallback)
  /\ \A t \in Threads : SF_streamVars(GoesOnIn(t))
  /\ \A t \in BinderThreads : SF_streamVars(BinderStep(t))

StreamSpec     == StreamInit /\ [][StreamNext]_streamVars
FairStreamSpec == StreamSpec /\ StreamFairness

-----------------------------------------------------------------------------
InStack    == { "start_in", "suspend_in", "stop_in" }
PortLabels == { "start", "start_set", "start_call", "start_wait",
                "suspend", "suspend_set", "suspend_call", "suspend_wait",
                "stop", "stop_call" } \cup InStack

\* The callbacks a port registers hold a raw pointer to it (SetUp, TearDown): the session
\* only ever has entries of ports that exist, a port with a cookie is the one the session
\* has under it, and the callback under way is that of a port still set up.
CallbacksFindTheirPort ==
  /\ \A k \in Registered : pc[observers[k]] \notin { "closed", "register" }
  /\ \A s \in Streams : cookie[s] # NoCookie => observers[cookie[s]] = s
  /\ handler # NoHandler => cookie[observers[handler.cookie]] = handler.cookie

\* adev_close_output_stream deletes the stream without its mutex: the device mutex alone
\* keeps the walk of adev_set_parameters off streams that are being closed.
ParametersReachLiveStreams ==
  LET Closing == { "closed", "register", "assign", "list", "close", "tear" } IN
  /\ devlock = ParamThread <=> ~At(ParamThread, "idle")
  /\ rest \subseteq opened
  /\ pc[ParamThread] \notin { "idle", "next" } => target \in opened
  /\ \A s \in opened : pc[s] \notin Closing /\ op[s] # "close"

\* device_port_proxy.h asks of its users to hold a lock: no two threads are inside Start,
\* Suspend or Stop of the same port, out_write and close included.
OneUserOfThePort ==
  \A s \in Streams, t \in Threads :
    pc[t] \in PortLabels \cup { "disable", "enable" } /\ On(t) = s /\ t # s
      => pc[s] \notin PortLabels

\* No port plays on in a session its outputs were told is over, whatever answers and
\* requests cross the end (OnSessionEnded, ControlResultHandler, Start).  The one gap is named: an
\* answer that entered before the end and is reported after it may still start a STARTING port.
StartedOnlyInSession ==
  ~announced /\ WalkOver /\ ~late => \A s \in Streams : state[s] # "STARTED"

\* start_resp tells whether the report is for startStream (BluetoothAudioSession.h): a port
\* becomes STARTED only by such a report.
StartedByStartReport ==
  [][ \A s \in Streams : state[s] # "STARTED" /\ state'[s] = "STARTED" => report.start_resp ]_streamVars

\* The thread that has the mutex the thread t waits for, NoThread when it waits for none.
BlockedBy(t) ==
  CASE At(t, "list")                 -> devlock
    [] pc[t] \in { "lock", "count" } -> slock[On(t)]
    [] OTHER                         -> NoThread

\* What EveryStreamCallReturns rests on: no return of a stream function, failed or not, and no end
\* of the walk of set_parameters keeps a mutex, and the device mutex is taken before that of a
\* stream.  Whoever is waited for is another thread, inside a call, that waits for no such mutex
\* itself; but for set_parameters, which may wait for one stream, whose thread waits for none.  The
\* mutex of the session comes last and is not in the chain: who holds it may wait for the stack.
LocksAreOrdered ==
  \A t \in Threads : BlockedBy(t) # NoThread =>
    LET holder == BlockedBy(t) IN
      /\ holder # t
      /\ pc[holder] \notin { "idle", "closed" }
      /\ \/ BlockedBy(holder) = NoThread
         \/ /\ At(t, "list") /\ holder = ParamThread
            /\ BlockedBy(holder) = target
            /\ BlockedBy(target) = NoThread

\* A stack process that lives returns from the calls into its port: no timeout of the library ends
\* one that does not.
StackAlwaysReturns == []<>(calling => stack_iface \notin alive)

\* Every call of the framework into a stream, and every set_parameters, comes back, although threads
\* wait for the device, stream and session mutexes and for answers, and the stack may die inside a
\* call; provided only that a stack that lives returns from the calls it gets (StartStream,
\* SuspendStream and StopStream wait for it with the session mutex held).
EveryStreamCallReturns ==
  StackAlwaysReturns =>
    \A t \in Threads : pc[t] \notin { "idle", "closed" } ~> pc[t] \in { "idle", "closed" }

=============================================================================
