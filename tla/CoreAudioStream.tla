-------------------------- MODULE CoreAudioStream --------------------------
(***************************************************************************)
(* A stream of the core audio HAL (audio/hal/StreamOut.cpp and, the other  *)
(* way round, audio/hal/StreamIn.cpp).  The framework prepares the stream, *)
(* which starts a thread, and then talks to that thread through message    *)
(* queues in shared memory: a command and its data go one way, a status    *)
(* comes back, and an event flag wakes the side that waits.  close() stops *)
(* the thread; the destructor, which runs when the framework lets go of    *)
(* the stream or dies, joins it before it frees what the thread uses.      *)
(*                                                                         *)
(* The framework's side of the queues is external: it has one command      *)
(* under way, and sends none after it has closed the stream.               *)
(***************************************************************************)
EXTENDS Integers, FiniteSets

CONSTANTS MajorVersions, \* the versions of the HAL interface the build is made for
          QueueSize,     \* bytes of the data queue (frameSize * framesCount)
          MaxRead,       \* bound: bytes a read asks for; the size comes from the framework
          NoCommand, NoStatus    \* an empty queue

AllCommands == { "READ", "GET_CAPTURE_POSITION",
                 "WRITE", "GET_PRESENTATION_POSITION", "GET_LATENCY", "unknown" }
Sizes       == 0 .. QueueSize
Requests    == 0 .. MaxRead
Command     == [ command : AllCommands, size : Requests ]
Status      == [ replyTo : AllCommands, retval : { "OK", "error", "NOT_SUPPORTED" }, size : Sizes ]

ASSUME VersionsAssumption == MajorVersions \subseteq Nat
ASSUME QueueAssumption == QueueSize \in Nat \ {0} /\ MaxRead \in Nat \ 0 .. QueueSize - 1
ASSUME EmptyAssumption == NoCommand \notin Command /\ NoStatus \notin Status

VARIABLES
  class,            \* StreamOut or StreamIn
  major,            \* MAJOR_VERSION
  client,           \* where the framework is: idle, command, wait, gone
  asked,            \* the command the framework has under way
  object,           \* where the destructor is: live, join, delete, freed
  mStopThread,      \* mStopWriteThread, mStopReadThread
  prepared,         \* the queues, the event flag and the thread have been made
  closing,          \* what is left of close(): stop, wake, closeStream, or no
  closes,           \* how often the vendor's stream has been closed
  thread,           \* where the thread is
  mStatus,          \* the status it is preparing
  buffer,           \* the bytes its call into the vendor's stream is about
  mCommandMQ, mDataMQ, mStatusMQ,
  efGroup           \* the bits set in the event flag

build      == << class, major >>
clientVars == << client, asked >>
objectVars == << object, mStopThread, prepared, closing, closes >>
threadVars == << thread, mStatus, buffer >>
queueVars  == << mCommandMQ, mDataMQ, mStatusMQ, efGroup >>
vars == << build, clientVars, objectVars, threadVars, queueVars >>

is_input  == class = "StreamIn"
Transfer  == IF is_input THEN "READ" ELSE "WRITE"
Commands  == IF is_input
             THEN { "READ", "GET_CAPTURE_POSITION", "unknown" }
             ELSE { "WRITE", "GET_PRESENTATION_POSITION", "GET_LATENCY", "unknown" }

\* The bit that wakes the thread, and the one that wakes the framework.
ToThread == IF is_input THEN "NOT_FULL" ELSE "NOT_EMPTY"
ToClient == IF is_input THEN "NOT_EMPTY" ELSE "NOT_FULL"

SmallerOf(a, b) == IF a < b THEN a ELSE b

-----------------------------------------------------------------------------
(* The framework.                                                          *)

\* The first transfer prepares the stream.  A second prepareForWriting, and one whose
\* queues cannot be made, changes nothing.
PrepareForTransfer ==
  /\ client = "idle"
  /\ ~prepared
  /\ prepared' = TRUE
  /\ thread' = "check"
  /\ UNCHANGED << build, clientVars, object, mStopThread, closing, closes, mStatus, buffer, queueVars >>

\* A command, with the data to play in front of it.  What a write carries fits into the
\* queue; a read may ask for any number of bytes.
SendCommand(c, n) ==
  /\ client = "idle"
  /\ prepared /\ ~mStopThread /\ closing = "no"
  /\ mCommandMQ = NoCommand
  /\ c # Transfer => n = 0
  /\ client' = "command"
  /\ asked' = [ command |-> c, size |-> n ]
  /\ mCommandMQ' = [ command |-> c, size |-> n ]
  /\ IF is_input THEN UNCHANGED mDataMQ
                 ELSE /\ mDataMQ + n <= QueueSize
                      /\ mDataMQ' = mDataMQ + n
  /\ UNCHANGED << build, objectVars, threadVars, mStatusMQ, efGroup >>

WakeThread ==
  /\ client = "command"
  /\ client' = "wait"
  /\ efGroup' = efGroup \cup { ToThread }
  /\ UNCHANGED << build, asked, objectVars, threadVars, mCommandMQ, mDataMQ, mStatusMQ >>

\* The framework wakes, and takes the status and of the recorded data what it wants, or
\* waits again.
TakeStatus ==
  /\ client = "wait"
  /\ ToClient \in efGroup
  /\ efGroup' = efGroup \ { ToClient }
  /\ IF mStatusMQ = NoStatus
     THEN UNCHANGED << client, mDataMQ, mStatusMQ >>
     ELSE /\ client' = "idle"
          /\ mStatusMQ' = NoStatus
          /\ IF is_input THEN mDataMQ' \in 0 .. mDataMQ ELSE UNCHANGED mDataMQ
  /\ UNCHANGED << build, asked, objectVars, threadVars, mCommandMQ >>

\* The framework lets go of an idle stream, or dies at any moment.
ClientGone ==
  /\ client # "gone"
  /\ client' = "gone"
  /\ UNCHANGED << build, asked, objectVars, threadVars, queueVars >>

-----------------------------------------------------------------------------
(* close and the destructor, on binder threads.                            *)

\* Mutant of CloseStep: the thread is woken before the flag is set.
CloseStep_WakesFirst ==
  \/ /\ closing = "stop" /\ closing' = "wake"
     /\ efGroup' = IF prepared THEN efGroup \cup { ToThread } ELSE efGroup
     /\ UNCHANGED << mStopThread, closes >>
  \/ /\ closing = "wake" /\ closing' = IF major >= 6 THEN "closeStream" ELSE "no"
     /\ mStopThread' = TRUE
     /\ UNCHANGED << closes, efGroup >>
  \/ /\ closing = "closeStream" /\ closing' = "no"
     /\ closes' = closes + 1
     /\ UNCHANGED << mStopThread, efGroup >>

\* close() stops the thread, wakes it, and in a newer HAL closes the vendor's stream at once,
\* whatever the thread is doing with it.
CloseStep ==
  \/ /\ closing = "stop" /\ closing' = "wake"
     /\ mStopThread' = TRUE
     /\ UNCHANGED << closes, efGroup >>
  \/ /\ closing = "wake" /\ closing' = IF major >= 6 THEN "closeStream" ELSE "no"
     /\ efGroup' = IF prepared THEN efGroup \cup { ToThread } ELSE efGroup
     /\ UNCHANGED << mStopThread, closes >>
  \/ /\ closing = "closeStream" /\ closing' = "no"
     /\ closes' = closes + 1
     /\ UNCHANGED << mStopThread, efGroup >>

CloseGoesOn ==
  /\ CloseStep
  /\ UNCHANGED << build, clientVars, object, prepared, threadVars, mCommandMQ, mDataMQ, mStatusMQ >>

\* Only the first close does anything.
CloseStream == closing = "no" /\ closing' = IF mStopThread THEN "no" ELSE "stop"

Close ==
  /\ client = "idle"
  /\ object = "live"
  /\ CloseStream
  /\ UNCHANGED << build, clientVars, object, mStopThread, prepared, closes, threadVars, queueVars >>

\* The last reference is gone, those of calls that had not returned too, and the destructor
\* begins.
Destroy ==
  /\ client = "gone"
  /\ object = "live"
  /\ object' = "join"
  /\ CloseStream
  /\ UNCHANGED << build, clientVars, mStopThread, prepared, closes, threadVars, queueVars >>

\* Mutant of JoinThread: a thread that is inside the vendor's stream is not waited for.
JoinThread_NoWait ==
  /\ object = "join" /\ closing = "no"
  /\ object' = "delete"
  /\ UNCHANGED << build, clientVars, mStopThread, prepared, closing, closes, threadVars, queueVars >>

JoinThread ==
  /\ object = "join" /\ closing = "no"
  /\ prepared => thread = "exited"
  /\ object' = "delete"
  /\ UNCHANGED << build, clientVars, mStopThread, prepared, closing, closes, threadVars, queueVars >>

\* The event flag is deleted, an older HAL closes the vendor's stream, and the members go.
FreeStream ==
  /\ object = "delete"
  /\ object' = "freed"
  /\ closes' = IF major <= 5 THEN closes + 1 ELSE closes
  /\ UNCHANGED << build, clientVars, mStopThread, prepared, closing, threadVars, queueVars >>

-----------------------------------------------------------------------------
(* The thread: WriteThread::threadLoop and ReadThread::threadLoop.         *)

CheckStop ==
  /\ thread = "check"
  /\ thread' = IF mStopThread THEN "exited" ELSE "wait"
  /\ UNCHANGED << build, clientVars, objectVars, mStatus, buffer, queueVars >>

WaitForBit ==
  /\ thread = "wait"
  /\ ToThread \in efGroup
  /\ efGroup' = efGroup \ { ToThread }
  /\ thread' = "read"
  /\ UNCHANGED << build, clientVars, objectVars, mStatus, buffer, mCommandMQ, mDataMQ, mStatusMQ >>

\* The wait may come back without the bit.
WaitForNothing ==
  /\ thread = "wait"
  /\ ToThread \notin efGroup
  /\ thread' = "check"
  /\ UNCHANGED << build, clientVars, objectVars, mStatus, buffer, queueVars >>

\* Mutant of StartTransfer: a read is not cut.
StartTransfer_NotCut(size) ==
  IF is_input THEN buffer' = size /\ UNCHANGED mDataMQ
              ELSE buffer' = mDataMQ /\ mDataMQ' = 0

\* doWrite takes all the data there is; doRead is cut to the room there is.
StartTransfer(size) ==
  IF is_input THEN buffer' = SmallerOf(size, QueueSize - mDataMQ) /\ UNCHANGED mDataMQ
              ELSE buffer' = mDataMQ /\ mDataMQ' = 0

ReadCommand ==
  /\ thread = "read"
  /\ IF mCommandMQ = NoCommand
     THEN thread' = "check" /\ UNCHANGED << mStatus, buffer, mCommandMQ, mDataMQ >>
     ELSE /\ mCommandMQ' = NoCommand
          /\ thread' = IF mCommandMQ.command = "unknown" THEN "reply" ELSE "hal"
          /\ mStatus' = [ replyTo |-> mCommandMQ.command,
                          retval  |-> IF mCommandMQ.command = "unknown" THEN "NOT_SUPPORTED" ELSE "OK",
                          size    |-> IF mCommandMQ.command = "WRITE" THEN 0 ELSE mStatus.size ]
          /\ IF mCommandMQ.command # Transfer
             THEN buffer' = 0 /\ UNCHANGED mDataMQ
             ELSE StartTransfer(mCommandMQ.size)
  /\ UNCHANGED << build, clientVars, objectVars, mStatusMQ, efGroup >>

\* The vendor's stream returns an error, or a number of bytes.  What was not played of a
\* write is dropped: the status tells the framework how much it was.  What was read goes
\* into the data queue, or is lost when it does not fit.  After an error the number in the
\* status of a read is the last one.
HalReturns ==
  /\ thread = "hal"
  /\ thread' = "reply"
  /\ \/ /\ mStatus.replyTo # "GET_LATENCY"
        /\ mStatus' = [ mStatus EXCEPT !.retval = "error" ]
        /\ UNCHANGED mDataMQ
     \/ \E n \in 0 .. buffer :
          /\ mStatus' = [ mStatus EXCEPT !.retval = "OK", !.size = n ]
          /\ mDataMQ' = IF is_input /\ mDataMQ + n <= QueueSize THEN mDataMQ + n ELSE mDataMQ
  /\ UNCHANGED << build, clientVars, objectVars, buffer, mCommandMQ, mStatusMQ, efGroup >>

\* A status that finds the queue full is lost.
Reply ==
  /\ thread = "reply"
  /\ thread' = "wake"
  /\ mStatusMQ' = IF mStatusMQ = NoStatus THEN mStatus ELSE mStatusMQ
  /\ UNCHANGED << build, clientVars, objectVars, mStatus, buffer, mCommandMQ, mDataMQ, efGroup >>

\* Mutant of WakeClient: the event flag is not set.
WakeClient_Silent ==
  /\ thread = "wake"
  /\ thread' = "check"
  /\ UNCHANGED << build, clientVars, objectVars, mStatus, buffer, queueVars >>

WakeClient ==
  /\ thread = "wake"
  /\ thread' = "check"
  /\ efGroup' = efGroup \cup { ToClient }
  /\ UNCHANGED << build, clientVars, objectVars, mStatus, buffer, mCommandMQ, mDataMQ, mStatusMQ >>

-----------------------------------------------------------------------------
\* What Device::openOutputStream and openInputStream return.
Init ==
  /\ class \in { "StreamOut", "StreamIn" }
  /\ major \in MajorVersions
  /\ client = "idle"
  /\ asked = [ command |-> Transfer, size |-> 0 ]
  /\ object = "live"
  /\ mStopThread = FALSE
  /\ prepared = FALSE
  /\ closing = "no" /\ closes = 0
  /\ thread = "none"
  /\ mStatus = [ replyTo |-> Transfer, retval |-> "OK", size |-> 0 ]
  /\ buffer = 0
  /\ mCommandMQ = NoCommand
  /\ mDataMQ = 0
  /\ mStatusMQ = NoStatus
  /\ efGroup = {}

ClientNext ==
  \/ PrepareForTransfer
  \/ \E c \in Commands, n \in Requests : SendCommand(c, n)
  \/ WakeThread
  \/ TakeStatus
  \/ ClientGone
  \/ Close

ObjectNext == Destroy \/ CloseGoesOn \/ JoinThread \/ FreeStream

ThreadRuns ==
  \/ CheckStop
  \/ WaitForBit
  \/ ReadCommand
  \/ HalReturns
  \/ Reply
  \/ WakeClient

ThreadNext == ThreadRuns \/ WaitForNothing

Next == ClientNext \/ ObjectNext \/ ThreadNext

\* The thread runs and calls into the vendor's stream return, the destructor goes on, and
\* a framework that waits looks at the status when it is woken.  Nothing makes a wait come
\* back without the bit.
Fairness == WF_vars(ThreadRuns) /\ WF_vars(ObjectNext) /\ WF_vars(TakeStatus)

Spec == Init /\ [][Next]_vars /\ Fairness

-----------------------------------------------------------------------------
\* The values the variables range over.
CoreTypeOK ==
  /\ class \in { "StreamOut", "StreamIn" }
  /\ major \in MajorVersions
  /\ client \in { "idle", "command", "wait", "gone" }
  /\ asked \in Command
  /\ object \in { "live", "join", "delete", "freed" }
  /\ mStopThread \in BOOLEAN
  /\ prepared \in BOOLEAN
  /\ closing \in { "no", "stop", "wake", "closeStream" } /\ closes \in 0 .. 1
  /\ thread \in { "none", "check", "wait", "read", "hal", "reply", "wake", "exited" }
  /\ mStatus \in Status
  /\ buffer \in Sizes
  /\ mCommandMQ \in Command \cup { NoCommand }
  /\ mDataMQ \in Sizes
  /\ mStatusMQ \in Status \cup { NoStatus }
  /\ efGroup \subseteq { "NOT_EMPTY", "NOT_FULL" }

\* The thread never outlives the stream whose queues, event flag and stop flag it uses, and
\* where the vendor's stream is closed by the destructor it never calls a closed one
\* (the comment on WriteThread; ~StreamOut closes, joins, deletes, in this order).
ThreadInsideStream ==
  /\ thread \notin { "none", "exited" } => object \in { "live", "join" }
  /\ thread = "hal" /\ major <= 5 => closes = 0

\* However close, the death of the framework and the destructor follow each other, the
\* vendor's stream is closed once: Device aborts when its count of open streams would go
\* below zero (close, ~StreamOut, Device::closeOutputStream).
ClosedExactlyOnce == object = "freed" => closes = 1

\* The status the framework finds answers its own command and is about no more than it
\* asked for and the data queue took, and no data of a write that failed or fell short is
\* left to be played before the next (threadLoop, doWrite, doRead).
AnswerFitsCommand ==
  /\ client = "wait" /\ mStatusMQ # NoStatus =>
       /\ mStatusMQ.replyTo = asked.command
       /\ mStatusMQ.retval = "OK" => mStatusMQ.size <= asked.size
       /\ is_input /\ mStatusMQ.retval = "OK" => mStatusMQ.size <= mDataMQ
       /\ ~is_input => mDataMQ = 0
  /\ client = "idle" => (~is_input => mDataMQ = 0) /\ mStatusMQ = NoStatus /\ mCommandMQ = NoCommand

\* What the framework sees of all this: its command while it has one under way, the answer
\* from the moment the thread has it, and the bytes that are recorded, or left of a write
\* that is over.
AnswerToClient ==
  IF client = "gone" THEN NoStatus ELSE IF thread = "reply" THEN mStatus ELSE mStatusMQ
DataForClient ==
  IF client # "gone" /\ (is_input \/ client = "idle" \/ AnswerToClient # NoStatus) THEN mDataMQ ELSE 0

CoreContract == INSTANCE CoreStreamContract WITH
  early   <- major >= 6,
  present <- client # "gone",
  request <- IF client \in { "command", "wait" } THEN asked ELSE NoCommand,
  answer  <- AnswerToClient,
  data    <- DataForClient,
  inside  <- thread = "hal",
  freed   <- object = "freed"

\* With its thread, its queues and its destructor the stream is a stream of the contract.
CoreImplementsContract == CoreContract!Spec

\* Nothing between the two sides of the queues loses a wake-up: a framework that waits for
\* a status gets one (threadLoop).
CommandIsAnswered == client = "wait" ~> client # "wait"

\* The destructor comes to its end: the thread sees the stop whatever it was waiting for
\* (close, ~StreamOut).
StreamIsFreed == client = "gone" ~> object = "freed"

=============================================================================
