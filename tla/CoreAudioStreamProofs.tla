----------------------- MODULE CoreAudioStreamProofs -----------------------
(***************************************************************************)
(* Proofs about CoreAudioStream, for every size of the data queue and      *)
(* every set of HAL versions.  The safety properties rest on one inductive *)
(* invariant: where the destructor is says what may still run, and where   *)
(* the command under way is says what the queues hold.                     *)
(***************************************************************************)
EXTENDS CoreAudioStream, TLAPS

-----------------------------------------------------------------------------
\* Where close() and the destructor are, and what has been closed by then.
LifeInv ==
  /\ object # "live" => client = "gone" /\ (mStopThread \/ closing = "stop")
  /\ ~prepared <=> thread = "none"
  /\ object \in { "delete", "freed" } => thread \in { "none", "exited" } /\ closing = "no"
  /\ closing = "stop" => ~mStopThread
  /\ closing \in { "wake", "closeStream" } => mStopThread
  /\ closing = "closeStream" => major >= 6
  /\ major >= 6 => closes = IF mStopThread /\ closing = "no" THEN 1 ELSE 0
  /\ major < 6 => closes = IF object = "freed" THEN 1 ELSE 0

\* The bytes a read is about fit into the data queue.
RoomInv == thread = "hal" /\ is_input => mDataMQ + buffer <= QueueSize

\* A status that answers the command under way, with the data queue it leaves.
Answers(s) ==
  /\ s.replyTo = asked.command
  /\ s.retval = "OK" => s.size <= asked.size
  /\ is_input /\ s.retval = "OK" => s.size <= mDataMQ
  /\ ~is_input => mDataMQ = 0

Busy == thread \in { "hal", "reply" }

\* The places a command can be in: in its queue, in the vendor's stream, about to be
\* answered, and answered.
Queued ==
  /\ mCommandMQ = asked /\ mStatusMQ = NoStatus /\ ~Busy
  /\ asked.command # Transfer => asked.size = 0
  /\ ~is_input => mDataMQ = asked.size

Playing ==
  /\ mCommandMQ = NoCommand /\ mStatusMQ = NoStatus
  /\ thread = "hal"
  /\ mStatus.replyTo = asked.command
  /\ buffer <= asked.size
  /\ ~is_input => mDataMQ = 0

Replying ==
  /\ mCommandMQ = NoCommand /\ mStatusMQ = NoStatus
  /\ thread = "reply"
  /\ Answers(mStatus)

Answered ==
  /\ mCommandMQ = NoCommand /\ mStatusMQ # NoStatus /\ ~Busy
  /\ Answers(mStatusMQ)

Quiet == mCommandMQ = NoCommand /\ mStatusMQ = NoStatus /\ ~Busy /\ (~is_input => mDataMQ = 0)

ProtocolInv ==
  /\ client = "idle" => Quiet
  /\ client \in { "command", "wait" } => Queued \/ Playing \/ Replying \/ Answered

CoreInv == CoreTypeOK /\ LifeInv /\ RoomInv /\ ProtocolInv

-----------------------------------------------------------------------------
\* What is true of the first state.
LEMMA CoreInit == Init => CoreInv
<1>1. SUFFICES ASSUME Init PROVE CoreInv
  OBVIOUS
<1>2. CoreTypeOK
  <2>1. 0 \in Sizes /\ 0 \in Requests /\ Transfer \in AllCommands
    BY QueueAssumption DEF Sizes, Requests, Transfer, AllCommands
  <2>2. asked \in Command /\ mStatus \in Status
    BY <1>1, <2>1 DEF Init, Command, Status
  <2>3. /\ mCommandMQ \in Command \cup { NoCommand }
        /\ mStatusMQ \in Status \cup { NoStatus }
        /\ efGroup \subseteq { "NOT_EMPTY", "NOT_FULL" }
    BY <1>1 DEF Init
  <2>4. closing \in { "no", "stop", "wake", "closeStream" } /\ closes \in 0 .. 1 /\ buffer \in Sizes /\ mDataMQ \in Sizes
    BY <1>1, <2>1 DEF Init
  <2>5. thread = "none" /\ object = "live" /\ client = "idle"
    BY <1>1 DEF Init
  <2>6. class \in { "StreamOut", "StreamIn" } /\ mStopThread \in BOOLEAN /\ prepared \in BOOLEAN /\ major \in MajorVersions
    BY <1>1 DEF Init
  <2> QED
    BY <2>2, <2>3, <2>4, <2>5, <2>6 DEF CoreTypeOK
<1>3. LifeInv /\ RoomInv
  BY <1>1, VersionsAssumption DEF Init, LifeInv, RoomInv
<1>4. ProtocolInv
  BY <1>1 DEF Init, ProtocolInv, Quiet, Busy
<1> QED
  BY <1>2, <1>3, <1>4 DEF CoreInv

\* A read keeps its room while the data queue does not grow.
LEMMA RoomKept ==
  ASSUME RoomInv, CoreTypeOK, UNCHANGED << class, thread, buffer >>,
         mDataMQ' \in Sizes, mDataMQ' <= mDataMQ
  PROVE  RoomInv'
<1>1. mDataMQ \in Int /\ mDataMQ' \in Int /\ buffer \in Int /\ QueueSize \in Int
  BY QueueAssumption DEF CoreTypeOK, Sizes
<1>2. \A x, y, b, q \in Int : x <= y /\ y + b <= q => x + b <= q
  OBVIOUS
<1>3. mDataMQ + buffer <= QueueSize => mDataMQ' + buffer <= QueueSize
  BY <1>1, <1>2
<1> QED
  BY <1>3 DEF RoomInv, is_input

\* Every step keeps the types and the room for a read.
LEMMA TypeStep == CoreInv /\ [Next]_vars => CoreTypeOK' /\ RoomInv'
<1> SUFFICES ASSUME CoreInv, [Next]_vars PROVE CoreTypeOK' /\ RoomInv'
  OBVIOUS
<1> USE VersionsAssumption, QueueAssumption
    DEF CoreInv, CoreTypeOK, RoomInv, Sizes, Requests, is_input, build, clientVars, objectVars, threadVars, queueVars
<1>1. CASE PrepareForTransfer
  BY <1>1 DEF PrepareForTransfer
<1>2. ASSUME NEW c \in Commands, NEW n \in Requests, SendCommand(c, n) PROVE CoreTypeOK' /\ RoomInv'
  <2>1. asked' \in Command /\ mCommandMQ' \in Command
    BY <1>2 DEF SendCommand, Command, Commands, AllCommands
  <2> QED
    BY <1>2, <2>1 DEF SendCommand
<1>3. CASE WakeThread
  BY <1>3 DEF WakeThread, ToThread
<1>4. CASE TakeStatus
  <2>1. mDataMQ' \in Sizes /\ mDataMQ' <= mDataMQ
    BY <1>4 DEF TakeStatus
  <2>2. client' \in { "idle", "wait" } /\ mStatusMQ' \in Status \cup { NoStatus }
    BY <1>4 DEF TakeStatus
  <2>3. efGroup' \subseteq { "NOT_EMPTY", "NOT_FULL" }
    BY <1>4 DEF TakeStatus
  <2>4. UNCHANGED << build, asked, objectVars, threadVars, mCommandMQ >>
    BY <1>4 DEF TakeStatus
  <2>5. RoomInv'
    BY <2>1, <2>4, RoomKept
  <2>6. CoreTypeOK'
    BY <2>1, <2>2, <2>3, <2>4
  <2> QED
    BY <2>5, <2>6
<1>5. CASE ClientGone
  BY <1>5 DEF ClientGone
<1>6. CASE Close \/ Destroy
  <2>1. closing' \in { "no", "stop" } /\ object' \in { object, "join" }
    BY <1>6 DEF Close, Destroy, CloseStream
  <2>2. UNCHANGED << build, clientVars, mStopThread, prepared, closes, threadVars, queueVars >>
    BY <1>6 DEF Close, Destroy
  <2> QED
    BY <2>1, <2>2
<1>7. CASE CloseGoesOn
  <2>1. closes' \in 0 .. 1
    <3>1. CASE closing = "closeStream"
      BY <1>7, <3>1 DEF CloseGoesOn, CloseStep, LifeInv
    <3>2. CASE closing # "closeStream"
      BY <1>7, <3>2 DEF CloseGoesOn, CloseStep
    <3> QED
      BY <3>1, <3>2
  <2>2. efGroup' \subseteq { "NOT_EMPTY", "NOT_FULL" }
    BY <1>7 DEF CloseGoesOn, CloseStep, ToThread
  <2>3. mStopThread' \in BOOLEAN /\ closing' \in { "no", "stop", "wake", "closeStream" }
    BY <1>7 DEF CloseGoesOn, CloseStep
  <2>4. UNCHANGED << build, clientVars, object, prepared, threadVars, mCommandMQ, mDataMQ, mStatusMQ >>
    BY <1>7 DEF CloseGoesOn
  <2> QED
    BY <2>1, <2>2, <2>3, <2>4
<1>8. CASE JoinThread
  BY <1>8 DEF JoinThread
<1>9. CASE FreeStream
  BY <1>9 DEF FreeStream, LifeInv
<1>10. CASE CheckStop
  BY <1>10 DEF CheckStop
<1>11. CASE WaitForBit \/ WaitForNothing
  BY <1>11 DEF WaitForBit, WaitForNothing
<1>12. CASE ReadCommand
  <2>1. CASE mCommandMQ = NoCommand
    BY <1>12, <2>1 DEF ReadCommand
  <2>2. CASE mCommandMQ # NoCommand
    <3>1. mCommandMQ \in Command
      BY <2>2
    <3>2. mStatus' \in Status
      BY <1>12, <2>2, <3>1 DEF ReadCommand, Command, Status
    <3>3. buffer' \in Sizes /\ mDataMQ' \in Sizes /\ (is_input => mDataMQ' + buffer' <= QueueSize)
      BY <1>12, <2>2, <3>1 DEF ReadCommand, StartTransfer, Command, SmallerOf
    <3> QED
      BY <1>12, <2>2, <3>2, <3>3 DEF ReadCommand
  <2> QED
    BY <2>1, <2>2
<1>13. CASE HalReturns
  <2>1. CASE /\ mStatus' = [ mStatus EXCEPT !.retval = "error" ]
             /\ UNCHANGED mDataMQ
    <3>1. mStatus' \in Status
      BY <2>1 DEF Status
    <3> QED
      BY <1>13, <2>1, <3>1 DEF HalReturns
  <2>2. ASSUME NEW n \in 0 .. buffer,
               mStatus' = [ mStatus EXCEPT !.retval = "OK", !.size = n ],
               mDataMQ' = IF is_input /\ mDataMQ + n <= QueueSize THEN mDataMQ + n ELSE mDataMQ
        PROVE  CoreTypeOK' /\ RoomInv'
    <3>1. n \in Sizes
      OBVIOUS
    <3>2. mStatus' \in Status
      BY <2>2, <3>1 DEF Status
    <3>4. mDataMQ' \in Sizes
      <4>1. mDataMQ \in Nat /\ buffer \in Nat /\ n \in Nat /\ n <= buffer /\ QueueSize \in Nat
        BY <3>1
      <4> QED
        BY <2>2, <4>1
    <3> QED
      BY <1>13, <3>2, <3>4 DEF HalReturns
  <2> QED
    BY <1>13, <2>1, <2>2 DEF HalReturns
<1>14. CASE Reply
  BY <1>14 DEF Reply
<1>15. CASE WakeClient
  BY <1>15 DEF WakeClient, ToClient
<1>16. CASE UNCHANGED vars
  BY <1>16 DEF vars
<1> QED
  BY <1>1, <1>2, <1>3, <1>4, <1>5, <1>6, <1>7, <1>8, <1>9, <1>10, <1>11, <1>12, <1>13, <1>14,
     <1>15, <1>16 DEF Next, ClientNext, ObjectNext, ThreadNext, ThreadRuns

\* Every step keeps the order of the destructor: it closes, joins and only then frees.
LEMMA LifeStep == CoreInv /\ [Next]_vars => LifeInv'
<1> SUFFICES ASSUME CoreInv, [Next]_vars PROVE LifeInv'
  OBVIOUS
<1> USE VersionsAssumption
    DEF CoreInv, CoreTypeOK, LifeInv, build, clientVars, objectVars, threadVars, queueVars
<1>1. CASE PrepareForTransfer
  BY <1>1 DEF PrepareForTransfer
<1>2. ASSUME NEW c \in Commands, NEW n \in Requests, SendCommand(c, n) PROVE LifeInv'
  BY <1>2 DEF SendCommand
<1>3. CASE WakeThread \/ TakeStatus \/ ClientGone
  BY <1>3 DEF WakeThread, TakeStatus, ClientGone
<1>4. CASE Close
  BY <1>4 DEF Close, CloseStream
<1>5. CASE Destroy
  BY <1>5 DEF Destroy, CloseStream
<1>12. CASE CloseGoesOn
  BY <1>12 DEF CloseGoesOn, CloseStep
<1>6. CASE JoinThread
  BY <1>6 DEF JoinThread
<1>7. CASE FreeStream
  BY <1>7 DEF FreeStream
<1>8. CASE CheckStop \/ WaitForBit \/ WaitForNothing
  BY <1>8 DEF CheckStop, WaitForBit, WaitForNothing
<1>9. CASE ReadCommand
  BY <1>9 DEF ReadCommand
<1>10. CASE HalReturns \/ Reply \/ WakeClient
  <2>1. /\ thread \in { "hal", "reply", "wake" } /\ thread' \in { "reply", "wake", "check" }
        /\ UNCHANGED << build, clientVars, objectVars >>
    BY <1>10 DEF HalReturns, Reply, WakeClient
  <2> QED
    BY <2>1
<1>11. CASE UNCHANGED vars
  BY <1>11 DEF vars
<1> QED
  BY <1>1, <1>2, <1>3, <1>4, <1>5, <1>6, <1>7, <1>8, <1>9, <1>10, <1>11, <1>12
  DEF Next, ClientNext, ObjectNext, ThreadNext, ThreadRuns

\* Every step keeps the command in one of its places, with the queues that go with it.
LEMMA ProtocolStep == CoreInv /\ [Next]_vars => ProtocolInv'
<1> SUFFICES ASSUME CoreInv, [Next]_vars PROVE ProtocolInv'
  OBVIOUS
<1> USE DEF CoreInv, build, clientVars, objectVars, threadVars, queueVars
<1> DEFINE InFlight == Queued \/ Playing \/ Replying \/ Answered
           Rest == << class, client, asked, mStatus, buffer, mCommandMQ, mDataMQ, mStatusMQ >>
\* A step that moves the thread between the places outside a call leaves all of it alone.
<1>moved. ASSUME UNCHANGED Rest, ~Busy, ~Busy' PROVE ProtocolInv'
  BY <1>moved DEF ProtocolInv, Quiet, Queued, Playing, Replying, Answered, Answers, Busy,
              is_input, Transfer
<1>still. ASSUME UNCHANGED Rest, UNCHANGED thread PROVE ProtocolInv'
  BY <1>still DEF ProtocolInv, Quiet, Queued, Playing, Replying, Answered, Answers, Busy,
              is_input, Transfer
<1>1. CASE PrepareForTransfer
  <2>1. ~Busy /\ ~Busy' /\ UNCHANGED Rest
    BY <1>1 DEF PrepareForTransfer, LifeInv, Busy
  <2> QED
    BY <2>1, <1>moved
<1>2. ASSUME NEW c \in Commands, NEW n \in Requests, SendCommand(c, n) PROVE ProtocolInv'
  <2>1. Quiet /\ client' = "command" /\ n \in Int
    BY <1>2, QueueAssumption DEF SendCommand, ProtocolInv, Requests
  <2>2. mCommandMQ' = asked' /\ mStatusMQ' = NoStatus /\ ~Busy'
    BY <1>2, <2>1 DEF SendCommand, Quiet, Busy
  <2>3. asked'.command = c /\ asked'.size = n /\ class' = class
    BY <1>2 DEF SendCommand
  <2>4. asked'.command # Transfer' => asked'.size = 0
    BY <1>2, <2>3 DEF SendCommand, Transfer, is_input
  <2>5. ~is_input' => mDataMQ' = asked'.size
    BY <1>2, <2>1, <2>3 DEF SendCommand, Quiet, is_input
  <2>6. Queued'
    BY <2>2, <2>4, <2>5 DEF Queued
  <2> QED
    BY <2>1, <2>6 DEF ProtocolInv
<1>3. CASE WakeThread
  <2>1. InFlight /\ client' = "wait"
    BY <1>3 DEF WakeThread, ProtocolInv
  <2>2. UNCHANGED << class, asked, thread, mStatus, buffer, mCommandMQ, mDataMQ, mStatusMQ >>
    BY <1>3 DEF WakeThread
  <2>3. InFlight'
    BY <2>1, <2>2 DEF Queued, Playing, Replying, Answered, Answers, Busy, is_input, Transfer
  <2> QED
    BY <2>1, <2>3 DEF ProtocolInv
<1>4. CASE TakeStatus
  <2>1. CASE mStatusMQ = NoStatus
    <3>1. UNCHANGED Rest /\ UNCHANGED thread
      BY <1>4, <2>1 DEF TakeStatus
    <3> QED
      BY <3>1, <1>still
  <2>2. CASE mStatusMQ # NoStatus
    <3>1. Answered /\ client' = "idle"
      BY <1>4, <2>2 DEF TakeStatus, ProtocolInv, Queued, Playing, Replying
    <3>2. mCommandMQ' = NoCommand /\ mStatusMQ' = NoStatus /\ ~Busy'
      BY <1>4, <2>2, <3>1 DEF TakeStatus, Answered, Busy
    <3>3. ~is_input' => mDataMQ' = 0
      BY <1>4, <2>2, <3>1 DEF TakeStatus, Answered, Answers, is_input
    <3> QED
      BY <3>1, <3>2, <3>3 DEF ProtocolInv, Quiet
  <2> QED
    BY <2>1, <2>2
<1>5. CASE ClientGone
  BY <1>5 DEF ClientGone, ProtocolInv
<1>6. CASE Close
  <2>1. UNCHANGED Rest /\ UNCHANGED thread
    BY <1>6 DEF Close
  <2> QED
    BY <2>1, <1>still
<1>7. CASE Destroy \/ CloseGoesOn \/ JoinThread \/ FreeStream
  <2>1. UNCHANGED Rest /\ UNCHANGED thread
    BY <1>7 DEF Destroy, CloseGoesOn, JoinThread, FreeStream
  <2> QED
    BY <2>1, <1>still
<1>8. CASE CheckStop \/ WaitForBit \/ WaitForNothing
  <2>1. UNCHANGED Rest /\ ~Busy /\ ~Busy'
    BY <1>8 DEF CheckStop, WaitForBit, WaitForNothing, Busy
  <2> QED
    BY <2>1, <1>moved
<1>9. CASE WakeClient
  <2>1. UNCHANGED Rest /\ ~Busy /\ ~Busy'
    BY <1>9 DEF WakeClient, Busy
  <2> QED
    BY <2>1, <1>moved
<1>10. CASE ReadCommand
  <2>1. CASE mCommandMQ = NoCommand
    <3>1. UNCHANGED Rest /\ ~Busy /\ ~Busy'
      BY <1>10, <2>1 DEF ReadCommand, Busy
    <3> QED
      BY <3>1, <1>moved
  <2>2. CASE mCommandMQ # NoCommand /\ client \in { "command", "wait" }
    <3>1. Queued
      BY <2>2 DEF ProtocolInv, Playing, Replying, Answered
    <3>2. /\ mCommandMQ' = NoCommand /\ mStatusMQ' = NoStatus
          /\ UNCHANGED << class, client, asked >>
          /\ mStatus'.replyTo = asked'.command
          /\ thread' = IF asked.command = "unknown" THEN "reply" ELSE "hal"
      BY <1>10, <2>2, <3>1 DEF ReadCommand, Queued
    <3>3. asked.size \in Nat /\ QueueSize \in Nat /\ mDataMQ \in Nat
      BY QueueAssumption DEF CoreTypeOK, Command, Sizes, Requests
    <3>4. buffer' <= asked'.size
      <4>1. buffer' = IF asked.command # Transfer THEN 0
                      ELSE IF is_input THEN SmallerOf(asked.size, QueueSize - mDataMQ) ELSE mDataMQ
        BY <1>10, <2>2, <3>1 DEF ReadCommand, StartTransfer, Queued
      <4>2. ~is_input => mDataMQ = asked.size
        BY <3>1 DEF Queued
      <4> QED
        BY <3>2, <3>3, <4>1, <4>2 DEF SmallerOf
    <3>5. ~is_input' => mDataMQ' = 0
      BY <3>2, <1>10, <2>2, <3>1 DEF ReadCommand, StartTransfer, Queued, is_input
    <3>6. CASE asked.command = "unknown"
      <4>1. mStatus'.retval = "NOT_SUPPORTED"
        BY <1>10, <2>2, <3>1, <3>6 DEF ReadCommand, Queued
      <4>2. Replying'
        BY <3>2, <3>5, <3>6, <4>1 DEF Replying, Answers
      <4> QED
        BY <2>2, <3>2, <4>2 DEF ProtocolInv
    <3>7. CASE asked.command # "unknown"
      <4>1. Playing'
        BY <3>2, <3>4, <3>5, <3>7 DEF Playing
      <4> QED
        BY <2>2, <3>2, <4>1 DEF ProtocolInv
    <3> QED
      BY <3>6, <3>7
  <2>3. CASE client = "gone"
    BY <1>10, <2>3 DEF ReadCommand, ProtocolInv
  <2>4. client = "idle" => mCommandMQ = NoCommand
    BY DEF ProtocolInv, Quiet
  <2> QED
    BY <2>1, <2>2, <2>3, <2>4 DEF CoreTypeOK
<1>11. CASE HalReturns
  <2>1. CASE client = "gone"
    BY <1>11, <2>1 DEF HalReturns, ProtocolInv
  <2>2. CASE client # "gone"
    <3>1. Playing /\ client \in { "command", "wait" }
      BY <1>11, <2>2 DEF HalReturns, ProtocolInv, CoreTypeOK, Quiet, Busy, Queued, Replying, Answered
    <3>2. /\ thread' = "reply"
          /\ UNCHANGED << class, client, asked, buffer, mCommandMQ, mStatusMQ >>
      BY <1>11 DEF HalReturns
    <3>3. mStatus \in Status /\ asked \in Command
      BY DEF CoreTypeOK
    <3>4. Answers(mStatus)'
      <4>1. CASE mStatus' = [ mStatus EXCEPT !.retval = "error" ] /\ UNCHANGED mDataMQ
        <5>1. mStatus'.replyTo = mStatus.replyTo /\ mStatus'.retval = "error"
          BY <4>1, <3>3 DEF Status
        <5> QED
          BY <3>1, <3>2, <4>1, <5>1 DEF Answers, Playing, is_input
      <4>2. ASSUME NEW n \in 0 .. buffer,
                   mStatus' = [ mStatus EXCEPT !.retval = "OK", !.size = n ],
                   mDataMQ' = IF is_input /\ mDataMQ + n <= QueueSize THEN mDataMQ + n ELSE mDataMQ
            PROVE  Answers(mStatus)'
        <5>1. mStatus'.replyTo = mStatus.replyTo /\ mStatus'.retval = "OK" /\ mStatus'.size = n
          BY <4>2, <3>3 DEF Status
        <5>2. n \in Nat /\ buffer \in Nat /\ n <= buffer /\ asked.size \in Nat /\ buffer <= asked.size
          BY <3>1, <3>3, QueueAssumption DEF CoreTypeOK, Command, Sizes, Requests, Playing
        <5>3. n <= asked.size
          BY <5>2
        <5>4. mDataMQ \in Nat /\ QueueSize \in Nat /\ (is_input => mDataMQ + buffer <= QueueSize)
          BY <3>1, QueueAssumption DEF CoreTypeOK, Sizes, RoomInv, Playing
        <5>5. mDataMQ' = IF is_input THEN mDataMQ + n ELSE mDataMQ
          BY <4>2, <5>2, <5>4
        <5>6. is_input => n <= mDataMQ'
          BY <5>2, <5>4, <5>5
        <5> QED
          BY <3>1, <3>2, <5>1, <5>3, <5>5, <5>6 DEF Answers, Playing, is_input
      <4> QED
        BY <1>11, <4>1, <4>2 DEF HalReturns
    <3>5. Replying'
      BY <3>1, <3>2, <3>4 DEF Replying, Playing
    <3> QED
      BY <3>1, <3>2, <3>5 DEF ProtocolInv
  <2> QED
    BY <2>1, <2>2
<1>12. CASE Reply
  <2>1. CASE client = "gone"
    BY <1>12, <2>1 DEF Reply, ProtocolInv
  <2>2. CASE client # "gone"
    <3>1. Replying /\ client \in { "command", "wait" }
      BY <1>12, <2>2 DEF Reply, ProtocolInv, CoreTypeOK, Quiet, Busy, Queued, Playing, Answered
    <3>2. /\ thread' = "wake" /\ mStatusMQ' = mStatus /\ mStatus # NoStatus
          /\ UNCHANGED << class, client, asked, mCommandMQ, mDataMQ >>
      BY <1>12, <3>1, EmptyAssumption DEF Reply, Replying, CoreTypeOK
    <3>3. Answered'
      BY <3>1, <3>2 DEF Replying, Answered, Answers, Busy, is_input
    <3> QED
      BY <3>1, <3>2, <3>3 DEF ProtocolInv
  <2> QED
    BY <2>1, <2>2
<1>13. CASE UNCHANGED vars
  BY <1>13, <1>still DEF vars
<1> QED
  BY <1>1, <1>2, <1>3, <1>4, <1>5, <1>6, <1>7, <1>8, <1>9, <1>10, <1>11, <1>12, <1>13
  DEF Next, ClientNext, ObjectNext, ThreadNext, ThreadRuns

-----------------------------------------------------------------------------
\* The invariant of the stream, from which the theorems below follow.
LEMMA CoreInvariant == Spec => []CoreInv
<1>1. CoreInv /\ [Next]_vars => CoreInv'
  BY TypeStep, LifeStep, ProtocolStep DEF CoreInv
<1> QED
  BY CoreInit, <1>1, PTL DEF Spec

\* Every variable of a core stream keeps to its values; among them the count of closes,
\* which no order of close and destructor takes beyond one.
THEOREM CoreTypeCorrect == Spec => []CoreTypeOK
<1>1. CoreInv => CoreTypeOK
  BY DEF CoreInv
<1> QED
  BY CoreInvariant, <1>1, PTL

\* The write or read thread never outlives the stream, and never calls a stream of the
\* vendor that the destructor has closed (~StreamOut, ~StreamIn).
THEOREM CoreThreadInside == Spec => []ThreadInsideStream
<1>1. CoreInv => ThreadInsideStream
  <2> SUFFICES ASSUME CoreInv PROVE ThreadInsideStream
    OBVIOUS
  <2>1. thread \notin { "none", "exited" } => object \in { "live", "join" }
    BY DEF CoreInv, CoreTypeOK, LifeInv
  <2>2. thread = "hal" /\ major <= 5 => closes = 0
    <3>1. major \in Nat
      BY VersionsAssumption DEF CoreInv, CoreTypeOK
    <3>2. thread = "hal" => object # "freed"
      BY <2>1
    <3> QED
      BY <3>1, <3>2 DEF CoreInv, LifeInv
  <2> QED
    BY <2>1, <2>2 DEF ThreadInsideStream
<1> QED
  BY CoreInvariant, <1>1, PTL

\* A stream that is gone has closed the vendor's stream, once, whichever HAL version the
\* build is for (close, ~StreamOut, ~StreamIn).
THEOREM CoreClosedOnce == Spec => []ClosedExactlyOnce
<1>1. CoreInv => ClosedExactlyOnce
  <2>1. CoreInv => major \in Int
    BY VersionsAssumption DEF CoreInv, CoreTypeOK
  <2> QED
    BY <2>1 DEF CoreInv, CoreTypeOK, LifeInv, ClosedExactlyOnce
<1> QED
  BY CoreInvariant, <1>1, PTL

\* The status the framework finds answers its own command, with its own data (threadLoop).
THEOREM CoreAnswersFit == Spec => []AnswerFitsCommand
<1>1. CoreInv => AnswerFitsCommand
  BY DEF CoreInv, ProtocolInv, Quiet, Queued, Playing, Replying, Answered, Answers, AnswerFitsCommand
<1> QED
  BY CoreInvariant, <1>1, PTL

-----------------------------------------------------------------------------
(* The stream is one of the contract: what each step is to the framework.  *)

\* The variables of the contract, by the names they have in this module.
Early   == major >= 6
Present == client # "gone"
Request == IF client \in { "command", "wait" } THEN asked ELSE NoCommand
Data    == DataForClient
Inside  == thread = "hal"
Freed   == object = "freed"
Seen    == << Early, Present, Request, AnswerToClient, Data, Inside, closes, Freed >>

LEMMA SeenByTheContract == UNCHANGED Seen <=> UNCHANGED CoreContract!contractVars
  BY DEF Seen, Early, Present, Request, Data, Inside, Freed, CoreContract!contractVars

\* What the framework sees while nothing is under way, while a command is, and when it has
\* its answer.
SeenByClient ==
  /\ client = "gone" => ~Present /\ Request = NoCommand /\ AnswerToClient = NoStatus /\ Data = 0
  /\ client # "gone" /\ is_input => Data = mDataMQ
  /\ client # "gone" /\ ~is_input => Data = 0
  /\ client = "idle" => Present /\ Request = NoCommand /\ AnswerToClient = NoStatus /\ ~Inside
  /\ client \in { "command", "wait" } /\ (Queued \/ Playing) =>
       Present /\ Request = asked /\ AnswerToClient = NoStatus
  /\ client \in { "command", "wait" } /\ Replying =>
       Present /\ Request = asked /\ AnswerToClient = mStatus
  /\ client \in { "command", "wait" } /\ Answered =>
       Present /\ Request = asked /\ AnswerToClient = mStatusMQ

LEMMA WhatIsSeen == CoreInv => SeenByClient
<1> SUFFICES ASSUME CoreInv PROVE SeenByClient
  OBVIOUS
<1> USE EmptyAssumption DEF CoreInv, CoreTypeOK, Busy, SeenByClient
<1>1. client = "gone" => ~Present /\ Request = NoCommand /\ AnswerToClient = NoStatus /\ Data = 0
  BY DEF Present, Request, AnswerToClient, Data, DataForClient
<1>2. CASE client = "idle"
  <2>1. Quiet
    BY <1>2 DEF ProtocolInv
  <2> QED
    BY <1>2, <2>1 DEF Quiet, Present, Request, AnswerToClient, Data, DataForClient, Inside
<1>3. CASE client \in { "command", "wait" }
  <2>1. Queued \/ Playing \/ Replying \/ Answered
    BY <1>3 DEF ProtocolInv
  <2>2. Present /\ Request = asked
    BY <1>3 DEF Present, Request
  <2>3. /\ Queued \/ Playing => AnswerToClient = NoStatus
        /\ Replying => AnswerToClient = mStatus
        /\ Answered => AnswerToClient = mStatusMQ
    BY <1>3 DEF Queued, Playing, Replying, Answered, AnswerToClient
  <2>4. is_input => Data = mDataMQ
    BY <1>3 DEF Data, DataForClient
  <2>5. ~is_input /\ ~Queued => mDataMQ = 0
    BY <2>1 DEF Playing, Replying, Answered, Answers
  <2>6. ~is_input => Data = 0
    BY <1>3, <2>3, <2>5 DEF Data, DataForClient
  <2> QED
    BY <1>3, <2>2, <2>3, <2>4, <2>6
<1> QED
  BY <1>1, <1>2, <1>3

\* The same after a step.
LEMMA WhatIsSeenNext == CoreInv' => SeenByClient'
  BY WhatIsSeen, PTL

\* A step that leaves alone what the mapping reads is a stutter.
LEMMA NothingSeen ==
  ASSUME UNCHANGED << build, client, asked, AnswerToClient, mDataMQ, Inside, closes, Freed >>
  PROVE  UNCHANGED Seen
  BY DEF Seen, Early, Present, Request, Data, DataForClient, is_input, build

\* What may be in the data queue, and what the contract sees of it, are numbers.
LEMMA DataIsNat ==
  ASSUME CoreInv
  PROVE  Data \in Nat /\ mDataMQ \in Nat /\ QueueSize \in Nat
  BY QueueAssumption DEF CoreInv, CoreTypeOK, Sizes, Data, DataForClient

\* The steps of the framework and of the destructor.
LEMMA ClientStepContract ==
  ASSUME CoreInv, CoreInv', ClientNext \/ ObjectNext
  PROVE  CoreContract!Next \/ UNCHANGED Seen
<1> USE DEF build, clientVars, objectVars, threadVars, queueVars
<1>1. CASE PrepareForTransfer
  <2>1. thread = "none" /\ thread' = "check"
    BY <1>1 DEF PrepareForTransfer, CoreInv, LifeInv
  <2> QED
    BY <1>1, <2>1, NothingSeen DEF PrepareForTransfer, AnswerToClient, Inside, Freed
<1>2. ASSUME NEW c \in Commands, NEW n \in Requests, SendCommand(c, n) PROVE CoreContract!Next
  <2>1. Present /\ Request = NoCommand /\ AnswerToClient = NoStatus /\ Quiet
    BY <1>2, WhatIsSeen DEF SeenByClient, SendCommand, CoreInv, ProtocolInv
  <2>2. client' = "command" /\ asked' \in Command
        /\ UNCHANGED << build, thread, mStatus, mStatusMQ, closes, object >>
    BY <1>2 DEF SendCommand, CoreInv, CoreTypeOK
  <2>3. Present' /\ Request' # NoCommand
    BY <2>2, EmptyAssumption DEF Present, Request
  <2>4. AnswerToClient' = NoStatus
    BY <2>1, <2>2 DEF AnswerToClient, Quiet, Busy
  <2>5. is_input' = is_input /\ (is_input => mDataMQ' = mDataMQ)
    BY <1>2 DEF SendCommand, is_input
  <2>6. Data' = Data
    BY <1>2, <2>2, <2>5, WhatIsSeen, WhatIsSeenNext DEF SeenByClient, SendCommand
  <2> QED
    BY <2>1, <2>2, <2>3, <2>4, <2>6
    DEF CoreContract!Next, CoreContract!Ask, Present, Request, Data
<1>3. CASE WakeThread
  <2>1. client \in { "command", "wait" } /\ client' \in { "command", "wait" }
        /\ UNCHANGED << build, asked, thread, mStatus, mStatusMQ, mDataMQ, closes, object >>
    BY <1>3 DEF WakeThread
  <2>2. UNCHANGED << Early, Present, Request, AnswerToClient, Inside, Freed >>
    BY <2>1 DEF Early, Present, Request, AnswerToClient, Inside, Freed
  <2>3. Data' = Data
    BY <2>1, <2>2 DEF Data, DataForClient, is_input
  <2> QED
    BY <2>1, <2>2, <2>3 DEF Seen
<1>4. CASE TakeStatus
  <2>1. CASE mStatusMQ = NoStatus
    BY <1>4, <2>1, NothingSeen DEF TakeStatus, AnswerToClient, Inside, Freed
  <2>2. CASE mStatusMQ # NoStatus
    <3>1. client = "wait" /\ client' = "idle" /\ Answered
      BY <1>4, <2>2 DEF TakeStatus, CoreInv, ProtocolInv, Queued, Playing, Replying
    <3>2. AnswerToClient # NoStatus /\ Present /\ Present'
      BY <2>2, <3>1, WhatIsSeen DEF SeenByClient, Present
    <3>3. Request' = NoCommand /\ AnswerToClient' = NoStatus
      BY <3>1, WhatIsSeenNext DEF SeenByClient
    <3>4. UNCHANGED << build, thread, closes, object >>
      BY <1>4 DEF TakeStatus
    <3>5. Data' \in 0 .. Data
      <4>1. is_input' = is_input
        BY <3>4 DEF is_input
      <4>2. CASE is_input
        <5>1. Data = mDataMQ /\ Data' = mDataMQ'
          BY <3>1, <4>1, <4>2, WhatIsSeen, WhatIsSeenNext DEF SeenByClient
        <5>2. mDataMQ' \in 0 .. mDataMQ
          BY <1>4, <2>2, <4>2 DEF TakeStatus
        <5> QED
          BY <5>1, <5>2
      <4>3. CASE ~is_input
        <5>1. Data = 0 /\ Data' = 0
          BY <3>1, <4>1, <4>3, WhatIsSeen, WhatIsSeenNext DEF SeenByClient
        <5> QED
          BY <5>1
      <4> QED
        BY <4>2, <4>3
    <3> QED
      BY <3>2, <3>3, <3>4, <3>5 DEF CoreContract!Next, CoreContract!Take, Present, Request, Data
  <2> QED
    BY <2>1, <2>2
<1>5. CASE ClientGone
  <2>1. client # "gone" /\ client' = "gone" /\ UNCHANGED << build, thread, closes, object >>
    BY <1>5 DEF ClientGone
  <2>2. Request' = NoCommand /\ AnswerToClient' = NoStatus /\ Data' = 0
    BY <2>1, WhatIsSeenNext DEF SeenByClient
  <2> QED
    BY <2>1, <2>2 DEF CoreContract!Next, CoreContract!Leave, Request, Data
<1>6. CASE Close \/ Destroy
  <2>1. UNCHANGED << build, client, asked, thread, mStatus, mStatusMQ, mDataMQ, closes, Freed >>
    BY <1>6 DEF Close, Destroy, Freed
  <2> QED
    BY <2>1, NothingSeen DEF AnswerToClient, Inside
<1>9. CASE CloseGoesOn
  <2>1. UNCHANGED << build, client, asked, thread, mStatus, mStatusMQ, mDataMQ, object >>
    BY <1>9 DEF CloseGoesOn
  <2>2. CASE closing # "closeStream"
    <3>1. UNCHANGED closes
      BY <1>9, <2>2 DEF CloseGoesOn, CloseStep
    <3> QED
      BY <2>1, <3>1, NothingSeen DEF AnswerToClient, Inside, Freed
  <2>3. CASE closing = "closeStream"
    <3>1. major >= 6 /\ closes = 0
      BY <2>3 DEF CoreInv, LifeInv
    <3>2. closes' = 1
      BY <1>9, <2>3, <3>1 DEF CloseGoesOn, CloseStep
    <3>3. Data' = Data
      BY <2>1 DEF Data, DataForClient, AnswerToClient, is_input
    <3> QED
      BY <2>1, <3>1, <3>2, <3>3 DEF CoreContract!Next, CoreContract!Close, AnswerToClient, Data
  <2> QED
    BY <2>2, <2>3
<1>7. CASE JoinThread
  BY <1>7, NothingSeen DEF JoinThread, AnswerToClient, Inside, Freed
<1>8. CASE FreeStream
  <2>1. /\ object = "delete" /\ object' = "freed"
        /\ UNCHANGED << build, client, asked, thread, mStatus, mStatusMQ, mDataMQ >>
    BY <1>8 DEF FreeStream
  <2>2. client = "gone" /\ thread # "hal"
    BY <2>1 DEF CoreInv, LifeInv
  <2>3. closes' = 1 /\ (major >= 6 => closes = 1)
    <3>1. major \in Int /\ major' = major
      BY <2>1, VersionsAssumption DEF CoreInv, CoreTypeOK
    <3> QED
      BY <2>1, <3>1 DEF CoreInv, LifeInv
  <2>4. UNCHANGED << Early, Present, Request, AnswerToClient, Data, Inside >>
    BY <2>1 DEF Early, Present, Request, AnswerToClient, Data, DataForClient, Inside, is_input
  <2> QED
    BY <2>1, <2>2, <2>3, <2>4
    DEF CoreContract!Next, CoreContract!Free, Early, Present, Request, Data, Inside
<1> QED
  BY <1>1, <1>2, <1>3, <1>4, <1>5, <1>6, <1>7, <1>8, <1>9, SeenByTheContract DEF ClientNext, ObjectNext

\* While the thread runs the stream is there, and an older HAL has not closed the vendor's.
LEMMA NotClosedUnder ==
  ASSUME CoreInv, thread = "read"
  PROVE  ~Inside /\ ~Freed /\ (Early \/ closes = 0)
<1>1. object # "freed" /\ major \in Int
  BY VersionsAssumption DEF CoreInv, CoreTypeOK, LifeInv
<1> QED
  BY <1>1 DEF Early, Inside, Freed, CoreInv, LifeInv

\* A command the thread takes is entered into the vendor's stream, or refused.
LEMMA ReadCommandContract ==
  ASSUME CoreInv, CoreInv', ReadCommand
  PROVE  CoreContract!Next \/ UNCHANGED Seen
<1> USE DEF build, clientVars, objectVars, threadVars, queueVars
<1>1. thread = "read" /\ UNCHANGED << build, client, asked, mStatusMQ, closes, object >>
  BY DEF ReadCommand
<1>2. CASE mCommandMQ = NoCommand
  <2>1. thread' = "check" /\ UNCHANGED mDataMQ
    BY <1>2 DEF ReadCommand
  <2> QED
    BY <1>1, <2>1, NothingSeen DEF AnswerToClient, Inside, Freed
<1>3. CASE mCommandMQ # NoCommand /\ client = "gone"
  <2>1. UNCHANGED << Early, Present, Request, AnswerToClient, Data >> /\ ~Present
    BY <1>1, <1>3 DEF Early, Request, AnswerToClient, Data, DataForClient, Present
  <2>2. CASE Inside'
    <3>1. ~Inside /\ ~Freed /\ (Early \/ closes = 0)
      BY <1>1, NotClosedUnder
    <3> QED
      BY <1>1, <2>1, <2>2, <3>1 DEF CoreContract!Next, CoreContract!Enter, Early, Present, Request, Data, Inside, Freed
  <2>3. CASE ~Inside'
    BY <1>1, <2>1, <2>3 DEF Seen, Inside, Freed
  <2> QED
    BY <2>2, <2>3
<1>4. CASE mCommandMQ # NoCommand /\ client # "gone"
  <2>1. client \in { "command", "wait" } /\ Queued
    BY <1>4 DEF CoreInv, CoreTypeOK, ProtocolInv, Quiet, Playing, Replying, Answered
  <2>2. Present /\ Request = asked /\ AnswerToClient = NoStatus
    BY <2>1, WhatIsSeen DEF SeenByClient
  <2>3. asked # NoCommand
    BY EmptyAssumption DEF CoreInv, CoreTypeOK
  <2>4. thread' = IF asked.command = "unknown" THEN "reply" ELSE "hal"
    BY <1>4, <2>1 DEF ReadCommand, Queued
  <2>5. Present' /\ Request' = asked
    BY <1>1, <2>1 DEF Present, Request
  <2>6. ~Inside /\ ~Freed /\ (Early \/ closes = 0) /\ UNCHANGED Early
    BY <1>1, NotClosedUnder DEF Early
  <2>9. Data' = Data
    <3>1. is_input' = is_input /\ (is_input => mDataMQ' = mDataMQ)
      BY <1>1, <1>4 DEF ReadCommand, StartTransfer, is_input
    <3> QED
      BY <1>1, <1>4, <3>1, WhatIsSeen, WhatIsSeenNext DEF SeenByClient
  <2>7. CASE asked.command = "unknown"
    <3>1. thread' = "reply" /\ Replying'
      BY <1>1, <2>1, <2>4, <2>7 DEF CoreInv, ProtocolInv, Queued, Playing, Answered, Busy
    <3>2. AnswerToClient' = mStatus' /\ mStatus' # NoStatus
      BY <1>1, <2>1, <3>1, EmptyAssumption DEF AnswerToClient, CoreInv, CoreTypeOK
    <3>3. mStatus'.retval = "NOT_SUPPORTED" /\ mStatus'.replyTo = asked.command
      BY <1>4, <2>1, <2>7 DEF ReadCommand, Queued
    <3>5. CoreContract!Answer
      BY <2>2, <2>3, <2>7, <2>9, <3>2, <3>3 DEF CoreContract!Answer, Request, Data
    <3> QED
      BY <1>1, <2>2, <2>5, <2>6, <3>1, <3>2, <3>3, <3>5
      DEF CoreContract!Next, CoreContract!Refuse, Early, Present, Request, Inside, Freed
  <2>8. CASE asked.command # "unknown"
    <3>1. Inside' /\ AnswerToClient' = NoStatus
      BY <1>1, <2>1, <2>4, <2>8 DEF Inside, AnswerToClient, Queued
    <3> QED
      BY <1>1, <2>2, <2>3, <2>5, <2>6, <2>9, <3>1
      DEF CoreContract!Next, CoreContract!Enter, Early, Present, Request, Data, Inside, Freed
  <2> QED
    BY <2>7, <2>8
<1> QED
  BY <1>2, <1>3, <1>4

\* The command under way is one of the stream's, and only a transfer is about bytes.
AskedInv ==
  /\ asked.command \in Commands
  /\ asked.command # Transfer => asked.size = 0

LEMMA AskedInvariant == Spec => []AskedInv
<1>1. Init => AskedInv
  BY DEF Init, AskedInv, Commands, Transfer
<1>2. AskedInv /\ [Next]_vars => AskedInv'
  <2> SUFFICES ASSUME AskedInv, [Next]_vars PROVE AskedInv'
    OBVIOUS
  <2> USE DEF build, clientVars, objectVars, threadVars, queueVars
  <2>1. CASE UNCHANGED << asked, class >>
    BY <2>1 DEF AskedInv, Commands, Transfer, is_input
  <2>2. ASSUME NEW c \in Commands, NEW n \in Requests, SendCommand(c, n) PROVE AskedInv'
    <3>1. asked'.command = c /\ asked'.size = n /\ class' = class /\ (c # Transfer => n = 0)
      BY <2>2 DEF SendCommand
    <3> QED
      BY <3>1 DEF AskedInv, Commands, Transfer, is_input
  <2>3. UNCHANGED << asked, class >> \/ \E c \in Commands, n \in Requests : SendCommand(c, n)
    BY DEF vars, Next, ClientNext, ObjectNext, ThreadNext, ThreadRuns, PrepareForTransfer, WakeThread, TakeStatus,
           ClientGone, Close, Destroy, CloseGoesOn, JoinThread, FreeStream, CheckStop, WaitForBit, WaitForNothing,
           ReadCommand, HalReturns, Reply, WakeClient
  <2> QED
    BY <2>1, <2>2, <2>3
<1> QED
  BY <1>1, <1>2, PTL DEF Spec

\* What was read is in the data queue: the read was cut to the room there was.
LEMMA ReadArrives ==
  ASSUME CoreInv, HalReturns, is_input
  PROVE  mDataMQ' = IF mStatus'.retval = "OK" THEN mDataMQ + mStatus'.size ELSE mDataMQ
<1>1. /\ mStatus \in Status /\ mDataMQ \in Nat /\ buffer \in Nat /\ QueueSize \in Nat
      /\ mDataMQ + buffer <= QueueSize
  <2>1. mStatus \in Status /\ mDataMQ \in Nat /\ buffer \in Nat /\ QueueSize \in Nat
    BY QueueAssumption DEF CoreInv, CoreTypeOK, Sizes
  <2>2. thread = "hal"
    BY DEF HalReturns
  <2> QED
    BY <2>1, <2>2 DEF CoreInv, RoomInv
<1>2. CASE mStatus' = [ mStatus EXCEPT !.retval = "error" ] /\ UNCHANGED mDataMQ
  <2>1. mStatus'.retval = "error"
    BY <1>1, <1>2 DEF Status
  <2> QED
    BY <1>2, <2>1
<1>3. ASSUME NEW n \in 0 .. buffer,
             mStatus' = [ mStatus EXCEPT !.retval = "OK", !.size = n ],
             mDataMQ' = IF is_input /\ mDataMQ + n <= QueueSize THEN mDataMQ + n ELSE mDataMQ
      PROVE  mDataMQ' = IF mStatus'.retval = "OK" THEN mDataMQ + mStatus'.size ELSE mDataMQ
  <2>1. mStatus'.retval = "OK" /\ mStatus'.size = n
    BY <1>1, <1>3 DEF Status
  <2>2. mDataMQ + n <= QueueSize
    BY <1>1
  <2> QED
    BY <1>3, <2>1, <2>2
<1> QED
  BY <1>2, <1>3 DEF HalReturns

\* When the vendor's stream returns the command has its answer.
LEMMA HalReturnsContract ==
  ASSUME CoreInv, CoreInv', AskedInv, HalReturns
  PROVE  CoreContract!Next
<1> USE DEF build, clientVars, objectVars, threadVars, queueVars
<1>1. /\ thread = "hal" /\ thread' = "reply"
      /\ UNCHANGED << build, client, asked, mStatusMQ, closes, object >>
  BY DEF HalReturns
<1>2. CASE client = "gone"
  <2>1. UNCHANGED << Early, Present, Request, AnswerToClient, Data >> /\ ~Present
    BY <1>1, <1>2 DEF Early, Request, AnswerToClient, Data, DataForClient, Present
  <2> QED
    BY <1>1, <2>1 DEF CoreContract!Next, CoreContract!Return, Early, Present, Request, Data
<1>3. CASE client # "gone"
  <2>1. client \in { "command", "wait" } /\ Playing
    BY <1>1, <1>3 DEF CoreInv, CoreTypeOK, ProtocolInv, Quiet, Queued, Replying, Answered, Busy
  <2>2. Replying'
    BY <1>1, <2>1 DEF CoreInv, ProtocolInv, Queued, Playing, Answered, Busy
  <2>3. Present /\ Request = asked /\ AnswerToClient = NoStatus /\ asked # NoCommand
    BY <2>1, WhatIsSeen, EmptyAssumption DEF SeenByClient, CoreInv, CoreTypeOK
  <2>4. AnswerToClient' = mStatus' /\ mStatus' # NoStatus
    BY <1>1, <2>1, EmptyAssumption DEF AnswerToClient, CoreInv, CoreTypeOK
  <2>5. /\ mStatus'.replyTo = asked.command
        /\ mStatus'.retval = "OK" => mStatus'.size <= asked.size
    BY <1>1, <2>2 DEF Replying, Answers
  \* What is no transfer of an input stream is about no bytes.
  <2>6. Data' = IF asked.command = "READ" /\ mStatus'.retval = "OK" THEN Data + mStatus'.size ELSE Data
    <3>1. asked.size \in Nat /\ mStatus'.size \in Nat /\ mDataMQ \in Nat
      BY QueueAssumption, DataIsNat DEF CoreInv, CoreTypeOK, Command, Status, Sizes, Requests
    <3>2. is_input' = is_input
      BY <1>1 DEF is_input
    <3>3. CASE is_input
      <4>1. asked.command # "READ" => asked.size = 0
        BY <3>3 DEF AskedInv, Transfer
      <4>2. Data = mDataMQ /\ Data' = mDataMQ'
        BY <1>1, <1>3, <3>2, <3>3, WhatIsSeen, WhatIsSeenNext DEF SeenByClient
      <4>3. mDataMQ' = IF mStatus'.retval = "OK" THEN mDataMQ + mStatus'.size ELSE mDataMQ
        BY <3>3, ReadArrives
      <4> QED
        BY <2>5, <3>1, <4>1, <4>2, <4>3
    <3>4. CASE ~is_input
      <4>1. Data = 0 /\ Data' = 0
        BY <1>1, <1>3, <3>2, <3>4, WhatIsSeen, WhatIsSeenNext DEF SeenByClient
      <4> QED
        BY <3>4, <4>1 DEF AskedInv, Commands
    <3> QED
      BY <3>3, <3>4
  <2>7. CoreContract!Answer
    BY <2>3, <2>4, <2>5, <2>6 DEF CoreContract!Answer, Request, Data
  <2> QED
    BY <1>1, <2>3, <2>7 DEF CoreContract!Next, CoreContract!Return, Present, Request
<1> QED
  BY <1>2, <1>3

\* Every step is one the contract allows, or one the framework does not see.
LEMMA CoreStepContract ==
  CoreInv /\ CoreInv' /\ AskedInv /\ [Next]_vars => [CoreContract!Next]_CoreContract!contractVars
<1> SUFFICES ASSUME CoreInv, CoreInv', AskedInv, [Next]_vars PROVE CoreContract!Next \/ UNCHANGED Seen
  BY SeenByTheContract
<1> USE DEF build, clientVars, objectVars, threadVars, queueVars
<1>1. CASE ClientNext \/ ObjectNext
  BY <1>1, ClientStepContract
<1>2. CASE ReadCommand
  BY <1>2, ReadCommandContract
<1>3. CASE HalReturns
  BY <1>3, HalReturnsContract
<1>4. CASE CheckStop \/ WaitForBit \/ WaitForNothing \/ WakeClient
  BY <1>4, NothingSeen DEF CheckStop, WaitForBit, WaitForNothing, WakeClient, AnswerToClient, Inside, Freed
<1>5. CASE Reply
  <2>1. /\ thread = "reply" /\ thread' = "wake"
        /\ UNCHANGED << build, client, asked, mDataMQ, closes, object >>
    BY <1>5 DEF Reply
  <2>2. client # "gone" => mStatusMQ = NoStatus
    BY <2>1 DEF CoreInv, CoreTypeOK, ProtocolInv, Quiet, Queued, Playing, Replying, Answered, Busy
  <2>3. AnswerToClient' = AnswerToClient
    BY <1>5, <2>1, <2>2 DEF Reply, AnswerToClient
  <2> QED
    BY <2>1, <2>3, NothingSeen DEF Inside, Freed
<1>6. CASE UNCHANGED vars
  BY <1>6, NothingSeen DEF vars, AnswerToClient, Inside, Freed
<1> QED
  BY <1>1, <1>2, <1>3, <1>4, <1>5, <1>6 DEF Next, ThreadNext, ThreadRuns

\* The stream with its thread, its queues and its destructor implements CoreStreamContract:
\* every command is carried out once, answered about itself and with as many bytes as have
\* been recorded, however much a read asks for, and the vendor's stream is closed once: an
\* older HAL closes it when nobody is inside and nobody enters it again, a newer one in
\* close(), whoever is inside (threadLoop, doRead, close, ~StreamOut).
THEOREM CoreStreamImplementsContract == Spec => CoreImplementsContract
<1>1. Init => CoreContract!Init
  BY EmptyAssumption DEF Init, CoreContract!Init, AnswerToClient, DataForClient
<1> QED
  BY <1>1, CoreStepContract, CoreInvariant, AskedInvariant, PTL
  DEF Spec, CoreImplementsContract, CoreContract!Spec

=============================================================================
