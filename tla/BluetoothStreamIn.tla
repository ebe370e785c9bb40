--------------------------- MODULE BluetoothStreamIn ---------------------------
(***************************************************************************)
(* An input stream of the Bluetooth audio HAL: the in_ functions of        *)
(* stream_apis.cc, its port and InReadPcmData of the session.  One thread  *)
(* of the framework reads, another puts the stream in standby; both give   *)
(* the stream mutex up while they poll the state, and the reader while it  *)
(* reads.  The stack answers, suspends on its own, ends and starts the     *)
(* session and feeds its data queue meanwhile.                             *)
(***************************************************************************)
EXTENDS Integers

CONSTANTS
  InTimeout,     \* kBluetoothDefaultInputStateTimeoutMs
  TimeoutValues, \* the values of timeout_ms, an integer of 16 bits: 2^16
  InFrameSize,   \* bytes of a frame
  InMqSize,      \* bytes the data queue holds
  ReadSizes,     \* bytes the framework asks of in_read
  ReadPolls,     \* kFmqReceiveTimeoutMs / kReadPollMs
  Reports,       \* frame counters the stack reports
  Latencies,     \* and the frames its delay stands for
  MaxReads       \* bound: calls of in_read

ASSUME InAssumption ==
  /\ { InTimeout, TimeoutValues, InFrameSize } \subseteq Nat \ {0} /\ InTimeout < TimeoutValues
  /\ { InMqSize, ReadPolls, MaxReads } \subseteq Nat
  /\ ReadSizes \subseteq Nat \ {0} /\ Reports \cup Latencies \subseteq Nat

VARIABLES
  in_state,       \* state_ of the port
  in_ready,       \* the session is ready and has a queue
  in_queue,       \* bytes in it
  in_lock,        \* the holder of mutex_
  in_pc,          \* where the two threads are
  timeout,        \* timeout_ms of each
  read_size, total_read, read_polls,
  frames_read,    \* frames_presented_
  position,       \* what in_get_capture_position last told
  reads,          \* calls of in_read so far
  in_lost         \* history: the session was not ready at some time of this read

InThreads == { "reader", "standby" }
in_session   == << in_ready, in_queue >>
read_vars    == << read_size, total_read, read_polls, reads >>
counter_vars == << frames_read, position >>
inVars == << in_state, in_session, in_lock, in_pc, timeout, read_vars, counter_vars, in_lost >>

-----------------------------------------------------------------------------
InGoto(t, label) == in_pc' = [ in_pc EXCEPT ![t] = label ]
InMove(t, from, to) == in_pc[t] = from /\ InGoto(t, to)
InReturn(t) == InGoto(t, "idle") /\ in_lock' = "free"

ReadBegins(bytes) ==
  /\ in_pc["reader"] = "idle" /\ in_lock = "free" /\ reads < MaxReads
  /\ in_lock' = "reader" /\ InGoto("reader", "STARTING")
  /\ timeout' = [ timeout EXCEPT !["reader"] = InTimeout ]
  /\ reads' = reads + 1
  /\ read_size' = bytes /\ total_read' = 0 /\ read_polls' = ReadPolls
  /\ in_lost' = ~in_ready
  /\ UNCHANGED << in_state, in_session, counter_vars >>

StandbyBegins ==
  /\ in_pc["standby"] = "idle" /\ in_lock = "free"
  /\ in_lock' = "standby" /\ InGoto("standby", "STARTING")
  /\ timeout' = [ timeout EXCEPT !["standby"] = InTimeout ]
  /\ UNCHANGED << in_state, in_session, read_vars, counter_vars, in_lost >>

\* in_state_transition_timeout for the state `st`: with the mutex held it tests, then
\* sleeps with it free.  The next wait counts its timeout from the start.
Awaits(t, st, after) ==
  /\ in_pc[t] = st
  /\ IF in_state = st
       THEN /\ InGoto(t, IF st = "STARTING" THEN "asleep_STARTING" ELSE "asleep_SUSPENDING")
            /\ in_lock' = "free" /\ UNCHANGED timeout
       ELSE /\ IF after = "idle" THEN InReturn(t) ELSE InGoto(t, after) /\ UNCHANGED in_lock
            /\ timeout' = [ timeout EXCEPT ![t] = InTimeout ]
  /\ UNCHANGED << in_state, in_session, read_vars, counter_vars, in_lost >>

\* Mutant of Wakes: the timeout is over when it is below zero.
Wakes_Below(t, st, label) ==
  /\ in_pc[t] = label /\ in_lock = "free"
  /\ timeout' = [ timeout EXCEPT ![t] = (@ - 1) % TimeoutValues ]
  /\ IF timeout'[t] < 0 THEN InReturn(t) ELSE InGoto(t, st) /\ in_lock' = t
  /\ UNCHANGED << in_state, in_session, read_vars, counter_vars, in_lost >>

\* It wakes and gives up when the timeout, in 16 bits, is not above zero.
Wakes(t, st, label) ==
  /\ in_pc[t] = label /\ in_lock = "free"
  /\ timeout' = [ timeout EXCEPT ![t] = (@ - 1) % TimeoutValues ]
  /\ IF timeout'[t] <= 0 THEN InReturn(t) ELSE InGoto(t, st) /\ in_lock' = t
  /\ UNCHANGED << in_state, in_session, read_vars, counter_vars, in_lost >>

\* One read of the port's state, to which the next label depends.
InTest(t, label, st, yes, no) ==
  /\ in_pc[t] = label
  /\ LET to == IF in_state = st THEN yes ELSE no IN
       IF to = "idle" THEN InReturn(t)
       ELSE InGoto(t, to) /\ in_lock' = IF to = "read" THEN "free" ELSE in_lock
  /\ UNCHANGED << in_state, in_session, timeout, read_vars, counter_vars, in_lost >>

ReaderTests ==
  \/ Awaits("reader", "STARTING", "isStarted")
  \/ Wakes("reader", "STARTING", "asleep_STARTING")
  \/ InTest("reader", "isStarted", "STARTED", "read", "isStandby")
  \/ InTest("reader", "isStandby", "STANDBY", "start", "isSuspending")
  \/ InTest("reader", "isSuspending", "SUSPENDING", "idle", "isDisabled")
  \/ InTest("reader", "isDisabled", "DISABLED", "idle", "read")

\* Start of the port.
InStarts ==
  \/ InTest("reader", "start", "STANDBY", "setStarting", "idle")
  \/ /\ InMove("reader", "setStarting", "startStream")
     /\ in_state' = "STARTING"
     /\ UNCHANGED << in_session, in_lock, timeout, read_vars, counter_vars, in_lost >>
  \/ /\ in_pc["reader"] = "startStream"
     /\ \/ in_ready /\ InGoto("reader", "startWait") /\ UNCHANGED in_lock
        \/ InReturn("reader")     \* not ready or no answer: the port stays STARTING
     /\ UNCHANGED << in_state, in_session, timeout, read_vars, counter_vars, in_lost >>
  \/ InTest("reader", "startWait", "STARTED", "read", "idle")

\* in_standby, with Suspend of the port; a failed Suspend is waited for all the same.
StandbyGoesOn ==
  \/ Awaits("standby", "STARTING", "isStarted")
  \/ Wakes("standby", "STARTING", "asleep_STARTING")
  \/ InTest("standby", "isStarted", "STARTED", "suspend", "isSuspending")
  \/ InTest("standby", "isSuspending", "SUSPENDING", "SUSPENDING", "idle")
  \/ InTest("standby", "suspend", "STARTED", "setSuspending", "SUSPENDING")
  \/ /\ InMove("standby", "setSuspending", "suspendStream")
     /\ in_state' = "SUSPENDING"
     /\ UNCHANGED << in_session, in_lock, timeout, read_vars, counter_vars, in_lost >>
  \/ /\ in_pc["standby"] = "suspendStream"
     /\ InGoto("standby", "suspendWait") \/ InGoto("standby", "SUSPENDING")
     /\ UNCHANGED << in_state, in_session, in_lock, timeout, read_vars, counter_vars, in_lost >>
  \/ InTest("standby", "suspendWait", "STANDBY", "SUSPENDING", "SUSPENDING")
  \/ Awaits("standby", "SUSPENDING", "idle")
  \/ Wakes("standby", "SUSPENDING", "asleep_SUSPENDING")

-----------------------------------------------------------------------------
\* InReadPcmData, with the stream mutex free.

ReadSome ==
  /\ in_pc["reader"] = "read" /\ in_ready /\ in_queue > 0
  /\ LET n == IF in_queue > read_size - total_read THEN read_size - total_read ELSE in_queue IN
       in_queue' = in_queue - n /\ total_read' = total_read + n
  /\ InGoto("reader", IF total_read' < read_size THEN "read" ELSE "count")
  /\ UNCHANGED << in_state, in_ready, in_lock, timeout, read_size, read_polls, reads, counter_vars, in_lost >>

ReadSleeps ==
  /\ in_pc["reader"] = "read" /\ in_ready /\ in_queue = 0 /\ read_polls > 0
  /\ read_polls' = read_polls - 1
  /\ UNCHANGED << in_state, in_session, in_lock, in_pc, timeout, read_size, total_read, reads, counter_vars, in_lost >>

ReadGivesUp ==
  /\ InMove("reader", "read", "count")
  /\ ~in_ready \/ (in_queue = 0 /\ read_polls = 0)
  /\ UNCHANGED << in_state, in_session, in_lock, timeout, read_vars, counter_vars, in_lost >>

\* in_read locks the mutex again and counts.
ReadCounts ==
  /\ InMove("reader", "count", "idle")
  /\ in_lock = "free"
  /\ frames_read' = frames_read + total_read \div InFrameSize
  /\ UNCHANGED << in_state, in_session, in_lock, timeout, read_vars, position, in_lost >>

\* in_calculate_starving_delay_ms: a stack's counter ahead of the stream's, or behind it by
\* more than the delay, is not used.
Captured(reported, latency) ==
  LET frames == IF frames_read < reported \/ frames_read - reported > latency
                THEN frames_read ELSE reported
  IN IF frames > latency THEN frames - latency ELSE 0

\* in_get_capture_position, of any thread that gets the mutex.
GetCapturePosition(reported, latency) ==
  /\ in_lock = "free" /\ in_state # "STANDBY"
  /\ position' = Captured(reported, latency)
  /\ UNCHANGED << in_state, in_session, in_lock, in_pc, timeout, read_vars, frames_read, in_lost >>

\* adev_close_input_stream and adev_open_input_stream, with no call under way: the new
\* stream starts from zero over a ready session.
Reopen ==
  /\ \A t \in InThreads : in_pc[t] = "idle"
  /\ in_ready
  /\ in_state' = "STANDBY" /\ frames_read' = 0 /\ position' = 0
  /\ UNCHANGED << in_session, in_lock, in_pc, timeout, read_vars, in_lost >>

-----------------------------------------------------------------------------
\* The stack.

\* ControlResultHandler.
InControlResult(success) ==
  /\ in_ready
  /\ in_state' = CASE in_state = "STARTED" -> IF success THEN "STANDBY" ELSE "STARTED"
                   [] in_state = "STARTING" -> IF success THEN "STARTED" ELSE "STANDBY"
                   [] in_state = "SUSPENDING" -> IF success THEN "STANDBY" ELSE "DISABLED"
                   [] OTHER -> in_state
  /\ UNCHANGED << in_session, in_lock, in_pc, timeout, read_vars, counter_vars, in_lost >>

\* The session changes: SessionChangedHandler disables the port.
InSessionChanges ==
  /\ in_ready' = ~in_ready /\ in_queue' = 0
  /\ in_state' = "DISABLED"
  /\ in_lost' = TRUE
  /\ UNCHANGED << in_lock, in_pc, timeout, read_vars, counter_vars >>

StackFeeds(n) ==
  /\ in_ready /\ in_queue + n <= InMqSize
  /\ in_queue' = in_queue + n
  /\ UNCHANGED << in_state, in_ready, in_lock, in_pc, timeout, read_vars, counter_vars, in_lost >>

-----------------------------------------------------------------------------
InInit ==
  /\ in_state = "STANDBY" /\ in_ready = TRUE /\ in_queue = 0
  /\ in_lock = "free"
  /\ in_pc = [ t \in InThreads |-> "idle" ]
  /\ timeout = [ t \in InThreads |-> InTimeout ]
  /\ read_size = 0 /\ total_read = 0 /\ read_polls = 0 /\ reads = 0
  /\ frames_read = 0 /\ position = 0
  /\ in_lost = FALSE

ReaderGoesOn == ReaderTests \/ InStarts \/ ReadSome \/ ReadSleeps \/ ReadGivesUp \/ ReadCounts

InNext ==
  \/ \E bytes \in ReadSizes : ReadBegins(bytes)
  \/ StandbyBegins
  \/ ReaderGoesOn \/ StandbyGoesOn
  \/ \E reported \in Reports, latency \in Latencies : GetCapturePosition(reported, latency)
  \/ Reopen
  \/ \E success \in BOOLEAN : InControlResult(success)
  \/ InSessionChanges
  \/ \E n \in 1 .. InMqSize : StackFeeds(n)

InSpec == InInit /\ [][InNext]_inVars

\* Both threads run; a thread that wants the mutex gets it although the other takes it
\* again and again.
InFairness == SF_inVars(ReaderGoesOn) /\ SF_inVars(StandbyGoesOn)

-----------------------------------------------------------------------------
\* "Don't block AF forever": reading and standby come back although the stack may answer
\* nothing and leave the port STARTING or SUSPENDING; it does return from startStream and
\* suspendStream here, which are one step (BluetoothStreamOut has what is needed where they are not).
InReturns == \A t \in InThreads : in_pc[t] # "idle" ~> in_pc[t] = "idle"

\* A read comes back short only because the session was lost meanwhile or its queue was
\* empty for the whole timeout.
ShortReadOnlyAfterTimeout ==
  in_pc["reader"] = "count" /\ total_read < read_size => in_lost \/ read_polls = 0

\* The capture position never runs ahead of the frames the stream has read, whatever a
\* stack that was restarted reports.
CapturePositionWasRead == position <= frames_read

===============================================================================
